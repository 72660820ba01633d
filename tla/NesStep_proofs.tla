--------------------------- MODULE NesStep_proofs ---------------------------
(***************************************************************************)
(* For every size of OAM, every set of pages, devices and cycle counts:    *)
(* OamDma keeps its types, holds the CPU while a transfer is under way,    *)
(* never stores a byte it has not read, is as quick as ElapsedBound says   *)
(* and implements OamCopy.                                                 *)
(*                                                                         *)
(* For every picture size too: NesStep keeps its types, what is shown of   *)
(* the transfer still holds in it, an NMI is served within LatencyBound    *)
(* PPU cycles and never merged with another, PPUSTATUS shows a blank only  *)
(* in the blank, and processFrame returns between two pictures.            *)
(***************************************************************************)
EXTENDS NesStep, TLAPS

-----------------------------------------------------------------------------
(* The OAM DMA: its invariant.                                             *)

\* While a transfer waits for its odd cycle, that cycle is still to come in
\* the step of the instruction that asked for it.
ReleaseIsComing ==
  dmaActive /\ ~goodCycle =>
    /\ ~faulted
    /\ ppuSteps >= 1
    /\ oddCycle => ppuSteps >= 2

\* A transfer is over when OAM is full; a lost byte is a transfer's.
TransferInOam == /\ dmaActive => offset < N
                 /\ stale => dmaActive
                 /\ faulted /\ dmaActive => goodCycle /\ ~stale

\* ElapsedBound, told apart by what the next PPU cycle will do.
Late == IF beganOdd THEN 1 ELSE 0
ElapsedSoFar ==
  dmaActive =>
    /\ ~goodCycle => \/ elapsed = 0 /\ (oddCycle <=> beganOdd)
                     \/ elapsed = 1 /\ beganOdd /\ ~oddCycle
    /\ goodCycle /\ oddCycle => elapsed <= 2 * offset + 1 + Late
    /\ goodCycle /\ ~oddCycle => elapsed <= 2 * offset + 2 + Late

IInv == TypeOK /\ ReleaseIsComing /\ TransferInOam /\ BufferIsFresh

-----------------------------------------------------------------------------
(* The initial state, and one lemma for each kind of step.                 *)

LEMMA Sizes == N \in Nat /\ N >= 1 /\ 0 \in Offsets /\ 0 \in 0 .. N
  BY SizeAssumption DEF Offsets

LEMMA InitInv == Init => IInv /\ ElapsedSoFar
<1>. SUFFICES ASSUME Init PROVE IInv /\ ElapsedSoFar
  OBVIOUS
<1>1. TypeOK
  BY Sizes, ByteAssumption DEF Init, TypeOK
<1>. QED
  BY <1>1 DEF Init, IInv, ReleaseIsComing, TransferInOam, BufferIsFresh, ElapsedSoFar

\* At the boundary of two steps nothing waits to be released, so a CPU that
\* runs finds no transfer at all.
LEMMA HeldAtBoundary == IInv => CpuHeldDuringDma
  BY DEF IInv, TypeOK, ReleaseIsComing, CpuHeldDuringDma, CpuMayStep

LEMMA CpuRunsAlone ==
  ASSUME IInv, CpuFaults \/ \E c : CpuRuns(c)
  PROVE  ~dmaActive /\ ~stale /\ ~faulted
  BY HeldAtBoundary
     DEF IInv, CpuHeldDuringDma, TransferInOam, CpuRuns, CpuFaults, CpuMayStep, IsDmaActive

LEMMA StallInv ==
  ASSUME IInv, Stall
  PROVE  IInv'
  BY DEF IInv, TypeOK, ReleaseIsComing, TransferInOam, BufferIsFresh, Stall,
         CpuMayStep, IsDmaActive, cpuSide, dmaSide, history

\* A CPU step that does not write $4014.
LEMMA OtherCpuStepInv ==
  ASSUME IInv, Execute \/ WriteOamAddr \/ WriteOamData
  PROVE  IInv' /\ ~dmaActive'
<1>1. CASE Execute
  <2>1. PICK c \in Cycles : CpuRuns(c)
    BY <1>1 DEF Execute
  <2>2. ~dmaActive /\ ~stale /\ ~faulted
    BY <2>1, CpuRunsAlone
  <2>3. ppuSteps' \in Nat
    BY <2>1, CycleAssumption DEF CpuRuns
  <2>. QED
    BY <1>1, <2>1, <2>2, <2>3
       DEF Execute, CpuRuns, ReleaseDma, history, IInv, TypeOK, ReleaseIsComing,
           TransferInOam, BufferIsFresh
<1>2. CASE WriteOamAddr
  <2>1. PICK c \in StoreCycles : CpuRuns(c)
    BY <1>2 DEF WriteOamAddr
  <2>2. ~dmaActive /\ ~stale /\ ~faulted
    BY <2>1, CpuRunsAlone
  <2>3. ppuSteps' \in Nat
    BY <2>1, CycleAssumption DEF CpuRuns
  <2>. QED
    BY <1>2, <2>1, <2>2, <2>3
       DEF WriteOamAddr, CpuRuns, ReleaseDma, history, IInv, TypeOK, ReleaseIsComing,
           TransferInOam, BufferIsFresh
<1>3. CASE WriteOamData
  <2>1. PICK c \in StoreCycles : CpuRuns(c)
    BY <1>3 DEF WriteOamData
  <2>2. ~dmaActive /\ ~stale /\ ~faulted
    BY <2>1, CpuRunsAlone
  <2>3. ppuSteps' \in Nat
    BY <2>1, CycleAssumption DEF CpuRuns
  <2>4. oamAddr' \in Offsets
    BY <1>3, SizeAssumption DEF WriteOamData, NextOamAddr, IInv, TypeOK, Offsets
  <2>. QED
    BY <1>3, <2>1, <2>2, <2>3, <2>4
       DEF WriteOamData, CpuRuns, ReleaseDma, history, IInv, TypeOK, ReleaseIsComing,
           TransferInOam, BufferIsFresh
<1>. QED
  BY <1>1, <1>2, <1>3

LEMMA CpuFaultsInv ==
  ASSUME IInv, CpuFaults
  PROVE  IInv' /\ ~dmaActive'
<1>1. ~dmaActive /\ ~stale /\ ~faulted
  BY CpuRunsAlone
<1>2. TypeOK'
  BY <1>1 DEF CpuFaults, ReleaseDma, history, IInv, TypeOK
<1>. QED
  BY <1>1, <1>2
     DEF CpuFaults, history, IInv, ReleaseIsComing, TransferInOam, BufferIsFresh

\* The write to $4014 leaves at least three PPU cycles to run.
LEMMA WriteDmaInv ==
  ASSUME IInv, WriteDma
  PROVE  IInv'
<1>1. PICK c \in StoreCycles : CpuRuns(c)
  BY DEF WriteDma
<1>0. page' \in Pages /\ offset' = 0 /\ dmaActive' /\ ~goodCycle'
  BY DEF WriteDma, StartDma
<1>2. ~faulted
  BY <1>1 DEF CpuRuns, CpuMayStep
<1>3. ppuSteps' \in Nat /\ ppuSteps' >= 3
  BY <1>1, CycleAssumption DEF CpuRuns
<1>4. TypeOK'
  BY <1>0, <1>1, <1>3, Sizes DEF WriteDma, StartDma, CpuRuns, IInv, TypeOK
<1>5. ReleaseIsComing' /\ TransferInOam' /\ BufferIsFresh'
  BY <1>0, <1>1, <1>2, <1>3, Sizes
     DEF WriteDma, CpuRuns, ReleaseIsComing, TransferInOam, BufferIsFresh
<1>. QED
  BY <1>4, <1>5 DEF IInv

\* What every PPU cycle does to the clocks.
LEMMA PpuCycleTypes ==
  ASSUME TypeOK, PpuCycle
  PROVE  /\ ppuSteps' \in Nat /\ oddCycle' \in BOOLEAN /\ elapsed' \in Nat
         /\ mem' \in [Memory -> Bytes] /\ oamAddr' \in Offsets /\ beganOdd' \in BOOLEAN
  BY Sizes DEF TypeOK, PpuCycle, ElapsedCap

LEMMA PpuIdlesInv ==
  ASSUME IInv, PpuIdles
  PROVE  IInv'
<1>. USE DEF PpuIdles, PpuCycle, IsDmaActive, ReleaseDma
<1>1. TypeOK'
  BY SizeAssumption DEF IInv, TypeOK, ElapsedCap
<1>2. ReleaseIsComing' /\ TransferInOam'
  BY DEF IInv, TypeOK, ReleaseIsComing, TransferInOam
<1>3. BufferIsFresh'
  BY DEF IInv, TypeOK, ReleaseIsComing, TransferInOam, BufferIsFresh
<1>. QED
  BY <1>1, <1>2, <1>3 DEF IInv

LEMMA DmaReadsInv ==
  ASSUME IInv, DmaReads
  PROVE  IInv'
<1>. USE DEF DmaReads, PpuCycle, IsDmaActive
<1>0. <<page, offset>> \in Address
  BY Sizes DEF IInv, TypeOK, TransferInOam, Address, Offsets
<1>1. TypeOK'
  <2>1. buffer' \in Bytes /\ faulted' \in BOOLEAN
    BY DEF IInv, TypeOK
  <2>. QED
    BY <2>1, PpuCycleTypes DEF IInv, TypeOK
<1>2. ReleaseIsComing' /\ TransferInOam'
  BY DEF IInv, TypeOK, ReleaseIsComing, TransferInOam, BufferIsFresh
<1>3. BufferIsFresh'
  <2>1. goodCycle' /\ ~oddCycle' /\ page' = page /\ offset' = offset /\ mem' = mem
    BY DEF IInv, TypeOK
  <2>2. ~stale'
    BY DEF IInv, TypeOK, TransferInOam, BufferIsFresh
  <2>3. ~faulted' => /\ <<page, offset>> \notin Unmapped
                     /\ <<page, offset>> \in Memory => buffer' = mem[<<page, offset>>]
    BY <1>0, DeviceAssumption DEF Memory
  <2>. QED
    BY <2>1, <2>2, <2>3 DEF BufferIsFresh
<1>. QED
  BY <1>1, <1>2, <1>3 DEF IInv

LEMMA DmaWritesInv ==
  ASSUME IInv, DmaWrites
  PROVE  IInv'
<1>1. PpuCycle /\ dmaActive /\ goodCycle /\ ~oddCycle /\ ~faulted
  BY DEF DmaWrites, PpuCycle, IsDmaActive
<1>2. offset' \in 0 .. N /\ (dmaActive' => offset' < N) /\ dmaActive' \in BOOLEAN
  BY <1>1, SizeAssumption DEF IInv, TypeOK, TransferInOam, DmaWrites, StoreBuffer
<1>3. TypeOK'
  <2>1. oam' \in [Offsets -> Bytes]
    BY DEF IInv, TypeOK, DmaWrites, StoreBuffer
  <2>. QED
    BY <1>1, <1>2, <2>1, PpuCycleTypes DEF IInv, TypeOK, DmaWrites
<1>4. ReleaseIsComing' /\ TransferInOam'
  BY <1>1, <1>2 DEF IInv, TransferInOam, ReleaseIsComing, DmaWrites
<1>5. BufferIsFresh'
  BY <1>1 DEF BufferIsFresh, DmaWrites, PpuCycle
<1>. QED
  BY <1>3, <1>4, <1>5 DEF IInv

LEMMA PowerCycleInv ==
  ASSUME IInv, PowerCycle
  PROVE  IInv'
<1>. USE DEF PowerCycle, ResetClock, CpuMayStep
<1>1. TypeOK'
  BY Sizes, ByteAssumption DEF IInv, TypeOK
<1>2. ReleaseIsComing' /\ TransferInOam'
  BY DEF IInv, TypeOK, ReleaseIsComing, TransferInOam
<1>3. BufferIsFresh'
  BY DEF IInv, TypeOK, ReleaseIsComing, BufferIsFresh
<1>. QED
  BY <1>1, <1>2, <1>3 DEF IInv

LEMMA UnchangedInv ==
  ASSUME IInv, UNCHANGED vars
  PROVE  IInv'
  BY DEF vars, cpuSide, dmaSide, history, IInv, TypeOK, ReleaseIsComing,
         TransferInOam, BufferIsFresh

LEMMA StepInv == IInv /\ [Next]_vars => IInv'
  BY StallInv, OtherCpuStepInv, CpuFaultsInv, WriteDmaInv, PpuIdlesInv, DmaReadsInv,
     DmaWritesInv, PowerCycleInv, UnchangedInv
     DEF Next, CpuStep, PpuStep, Ended

-----------------------------------------------------------------------------
THEOREM DmaInvariance == Spec => []IInv
  BY InitInv, StepInv, PTL DEF Spec

\* Every variable keeps its type.
THEOREM DmaTypeCorrect == Spec => []TypeOK
<1>1. IInv => TypeOK
  BY DEF IInv
<1>. QED
  BY <1>1, DmaInvariance, PTL

\* Cpu::Step never runs an instruction while the OAM DMA is under way.
THEOREM CpuIsHeld == Spec => []CpuHeldDuringDma
  BY HeldAtBoundary, DmaInvariance, PTL

\* The OAM DMA never stores a byte that it has not read.
THEOREM NoStaleByte == Spec => []BufferIsFresh
<1>1. IInv => BufferIsFresh
  BY DEF IInv
<1>. QED
  BY <1>1, DmaInvariance, PTL

-----------------------------------------------------------------------------
(* How long a transfer takes.                                              *)

LEMMA ElapsedStep == IInv /\ ElapsedSoFar /\ [Next]_vars => ElapsedSoFar'
<1>. SUFFICES ASSUME IInv, ElapsedSoFar, [Next]_vars
              PROVE  ElapsedSoFar'
  OBVIOUS
<1>1. CASE Stall
  BY <1>1 DEF Stall, dmaSide, history, ElapsedSoFar, Late
<1>2. CASE Execute \/ WriteOamAddr \/ WriteOamData \/ CpuFaults
  BY <1>2, OtherCpuStepInv, CpuFaultsInv DEF ElapsedSoFar
<1>3. CASE WriteDma
  BY <1>3 DEF WriteDma, StartDma, CpuRuns, ElapsedSoFar
<1>4. CASE PpuIdles
  <2>1. dmaActive' = dmaActive /\ offset' = offset /\ beganOdd' = beganOdd
    BY <1>4 DEF PpuIdles, PpuCycle
  <2>2. SUFFICES ASSUME dmaActive PROVE ElapsedSoFar'
    BY <2>1 DEF ElapsedSoFar
  <2>3. ~goodCycle /\ offset = 0 /\ goodCycle' = ~oddCycle /\ oddCycle' = ~oddCycle
    BY <1>4, <2>2
       DEF PpuIdles, PpuCycle, IsDmaActive, ReleaseDma, IInv, TypeOK, BufferIsFresh,
           ReleaseIsComing
  <2>4. elapsed \in {0, 1}
    BY <2>2, <2>3 DEF ElapsedSoFar
  <2>5. elapsed' = elapsed + 1
    BY <1>4, <2>2, <2>4, Sizes DEF PpuIdles, PpuCycle, ElapsedCap
  <2>6. CASE oddCycle
    <3>1. elapsed = 0 /\ beganOdd
      BY <2>2, <2>3, <2>6 DEF ElapsedSoFar
    <3>2. ~goodCycle' /\ ~oddCycle' /\ beganOdd'
      BY <2>1, <2>3, <2>6, <3>1
    <3>3. elapsed' = 1
      BY <2>5, <3>1
    <3>. QED
      BY <3>2, <3>3 DEF ElapsedSoFar
  <2>7. CASE ~oddCycle
    <3>1. elapsed = 0 \/ (elapsed = 1 /\ beganOdd)
      BY <2>2, <2>3, <2>7 DEF ElapsedSoFar
    <3>2. goodCycle' /\ oddCycle' /\ offset' = 0
      BY <2>1, <2>3, <2>7
    <3>3. elapsed' = 1 \/ (elapsed' = 2 /\ beganOdd')
      BY <2>1, <2>5, <3>1
    <3>. QED
      BY <3>2, <3>3 DEF ElapsedSoFar, Late
  <2>. QED
    BY <2>6, <2>7
<1>5. CASE DmaReads
  <2>1. PpuCycle /\ dmaActive /\ goodCycle /\ oddCycle
    BY <1>5 DEF DmaReads, IsDmaActive
  <2>2. goodCycle' /\ ~oddCycle' /\ offset' = offset /\ beganOdd' = beganOdd
    BY <1>5, <2>1 DEF DmaReads, PpuCycle
  <2>4. elapsed' <= elapsed + 1
    BY <2>1 DEF PpuCycle, IInv, TypeOK
  <2>3. elapsed' \in Nat
    BY <2>1, PpuCycleTypes DEF IInv
  <2>. QED
    BY <2>1, <2>2, <2>3, <2>4 DEF ElapsedSoFar, Late, IInv, TypeOK
<1>6. CASE DmaWrites
  <2>1. PpuCycle /\ dmaActive /\ goodCycle /\ ~oddCycle
    BY <1>6 DEF DmaWrites, IsDmaActive
  <2>2. goodCycle' /\ oddCycle' /\ offset' = offset + 1 /\ beganOdd' = beganOdd
    BY <1>6, <2>1 DEF DmaWrites, StoreBuffer, PpuCycle
  <2>4. elapsed' <= elapsed + 1
    BY <2>1 DEF PpuCycle, IInv, TypeOK
  <2>3. elapsed' \in Nat
    BY <2>1, PpuCycleTypes DEF IInv
  <2>. QED
    BY <2>1, <2>2, <2>3, <2>4 DEF ElapsedSoFar, Late, IInv, TypeOK
<1>7. CASE PowerCycle
  BY <1>7 DEF PowerCycle, ResetClock, CpuMayStep, ElapsedSoFar, Late, IInv, TypeOK,
              ReleaseIsComing
<1>8. CASE UNCHANGED vars
  BY <1>8 DEF vars, dmaSide, history, ElapsedSoFar, Late
<1>. QED
  BY <1>1, <1>2, <1>3, <1>4, <1>5, <1>6, <1>7, <1>8 DEF Next, CpuStep, PpuStep, Ended

\* Two PPU cycles for a byte, and at most three before the first.
THEOREM ElapsedIsBounded == Spec => []ElapsedBound
<1>1. IInv /\ ElapsedSoFar => ElapsedBound
  BY DEF IInv, TypeOK, ElapsedSoFar, ElapsedBound, Late
<1>. QED
  BY <1>1, InitInv, StepInv, ElapsedStep, PTL DEF Spec

-----------------------------------------------------------------------------
(* OamDma implements OamCopy: each step is one of its steps, or no step.   *)

LEMMA CopyStep == IInv /\ [Next]_vars => [Copy!CopyNext]_(Copy!copyVars)
<1>. SUFFICES ASSUME IInv, [Next]_vars
              PROVE  Copy!CopyNext \/ UNCHANGED Copy!copyVars
  OBVIOUS
<1>. USE DEF Copy!copyVars
<1>1. CASE Stall
  BY <1>1 DEF Stall, cpuSide, dmaSide, history
<1>2. CASE Execute \/ WriteOamAddr \/ WriteOamData
  <2>1. ~dmaActive /\ ~faulted
    BY <1>2, CpuRunsAlone DEF Execute, WriteOamAddr, WriteOamData
  <2>2. mem' \in [Copy!Memory -> Bytes]
    BY <1>2, OtherCpuStepInv
       DEF IInv, TypeOK, Memory, Address, Offsets, Copy!Memory, Copy!Address, Copy!Offsets
  <2>3. UNCHANGED <<dmaActive, page, offset, stale, faulted>>
    BY <1>2 DEF Execute, WriteOamAddr, WriteOamData, CpuRuns, history
  <2>4. oam' = oam \/ \E i \in Copy!Offsets, v \in Bytes : oam' = [oam EXCEPT ![i] = v]
    BY <1>2 DEF Execute, WriteOamAddr, WriteOamData, IInv, TypeOK, Offsets, Copy!Offsets
  <2>5. Copy!Work
    BY <2>1, <2>2, <2>3, <2>4 DEF Copy!Work
  <2>. QED
    BY <2>5 DEF Copy!CopyNext
<1>3. CASE WriteDma
  <2>1. PICK p \in Pages : StartDma(p)
    BY <1>3 DEF WriteDma
  <2>2. ~dmaActive /\ ~faulted /\ faulted' = faulted /\ stale' = stale
    BY <1>3, CpuRunsAlone DEF WriteDma, CpuRuns, IInv, TypeOK
  <2>3. Copy!Ask(p)
    BY <1>3, <2>1, <2>2 DEF WriteDma, StartDma, Copy!Ask, IInv, TypeOK
  <2>. QED
    BY <2>3 DEF Copy!CopyNext
<1>4. CASE PpuIdles
  BY <1>4 DEF PpuIdles, PpuCycle
<1>5. CASE DmaReads
  <2>1. dmaActive /\ ~stale /\ ~faulted
    BY <1>5 DEF DmaReads, PpuCycle, IsDmaActive, IInv, TypeOK, BufferIsFresh
  <2>2. UNCHANGED <<mem, oam, dmaActive, page, offset, stale>>
    BY <1>5 DEF DmaReads, PpuCycle
  <2>3. CASE faulted' = faulted
    BY <2>2, <2>3
  <2>4. CASE faulted' # faulted
    <3>1. faulted' = TRUE /\ <<page, offset>> \in Unmapped \union Volatile
      BY <1>5, <2>4 DEF DmaReads
    <3>2. Copy!Fault
      BY <2>1, <2>2, <3>1 DEF Copy!Fault
    <3>. QED
      BY <3>2 DEF Copy!CopyNext
  <2>. QED
    BY <2>3, <2>4
<1>6. CASE DmaWrites
  <2>1. dmaActive /\ goodCycle /\ ~oddCycle /\ ~faulted
    BY <1>6 DEF DmaWrites, PpuCycle, IsDmaActive
  <2>2. /\ oam' = [oam EXCEPT ![offset] = buffer]
        /\ offset' = offset + 1 /\ dmaActive' = (offset + 1 < N)
        /\ stale' = FALSE /\ UNCHANGED <<mem, page, faulted>>
    BY <1>6 DEF DmaWrites, StoreBuffer, PpuCycle
  <2>3. stale => buffer = ResetByte
    BY <2>1 DEF IInv, BufferIsFresh
  <2>4. ~stale => /\ <<page, offset>> \notin Unmapped
                  /\ buffer \in Copy!BusValues(<<page, offset>>)
    BY <2>1 DEF IInv, TypeOK, BufferIsFresh, Copy!BusValues, Memory, Address, Offsets,
                Copy!Memory, Copy!Address, Copy!Offsets
  <2>5. Copy!CopyByte
    BY <2>1, <2>2, <2>3, <2>4 DEF Copy!CopyByte
  <2>. QED
    BY <2>5 DEF Copy!CopyNext
<1>7. CASE PowerCycle
  <2>1. Copy!Reset
    BY <1>7 DEF PowerCycle, ResetClock, CpuMayStep, Copy!Reset, Memory, Address, Offsets,
                Copy!Memory, Copy!Address, Copy!Offsets
  <2>. QED
    BY <2>1 DEF Copy!CopyNext
<1>8. CASE CpuFaults
  <2>1. ~dmaActive /\ ~faulted
    BY <1>8, CpuRunsAlone
  <2>2. mem' \in [Copy!Memory -> Bytes]
    BY <1>8, CpuFaultsInv
       DEF IInv, TypeOK, Memory, Address, Offsets, Copy!Memory, Copy!Address, Copy!Offsets
  <2>3. Copy!Fault
    BY <1>8, <2>1, <2>2 DEF CpuFaults, history, Copy!Fault
  <2>. QED
    BY <2>3 DEF Copy!CopyNext
<1>9. CASE UNCHANGED vars
  BY <1>9 DEF vars, cpuSide, dmaSide, history
<1>. QED
  BY <1>1, <1>2, <1>3, <1>4, <1>5, <1>6, <1>7, <1>8, <1>9 DEF Next, CpuStep, PpuStep, Ended

\* The machinery of the OAM DMA copies a page byte by byte, with the CPU
\* suspended from the write to $4014 to the last byte.
THEOREM Refinement == Spec => ImplementsCopy
<1>1. Init => Copy!CopyInit
  BY Sizes DEF Init, Copy!CopyInit, Memory, Address, Offsets, Copy!Memory, Copy!Address,
               Copy!Offsets
<1>. QED
  BY <1>1, InitInv, StepInv, CopyStep, PTL DEF Spec, ImplementsCopy, Copy!CopySpec

-----------------------------------------------------------------------------
(* The console: its invariant, in parts.                                   *)

\* Nes::Step has not much left to do.
StepsInv == ppuSteps <= 3 * MaxCycles

\* What the age of an NMI and the rest of the running step add up to: the NMI
\* was raised during the instruction that still runs, or it waits for a
\* transfer, or for the rest of the transfer's last CPU cycle.
NmiWaits ==
  nmiActive =>
    /\ dmaActive => nmiAge < elapsed
    /\ \/ nmiAge + ppuSteps <= 3 * MaxCycles - 1
       \/ dmaActive /\ ppuSteps <= 3
       \/ ~dmaActive /\ ppuSteps <= 2 /\ nmiAge + ppuSteps <= 2 * N + 3

\* Where the PPU is while an NMI is pending: as far behind the edge as the NMI
\* is old or, after a power cycle, no farther down the new picture.
Width == LastCycle + 1
NmiPlace ==
  nmiActive =>
    \/ line = VBlankLine /\ cycle = nmiAge + 2
    \/ line = VBlankLine + 1 /\ cycle + Width = nmiAge + 2
    \/ line = VBlankLine + 2 /\ cycle + 2 * Width = nmiAge + 2
    \/ line = PRE_SCANLINE /\ cycle <= nmiAge
    \/ line = 0 /\ cycle + Width <= nmiAge
    \/ line = 1 /\ cycle + 2 * Width <= nmiAge

\* processFrame has the frame it waits for, or the PPU is still close to the
\* dot at which it got it.
FrameInv ==
  host = "frame" /\ FrameReached =>
    /\ frameCount = (goal + 1) % FrameWrap /\ line = PRE_SCANLINE
    /\ cycle >= 2 /\ cycle + ppuSteps <= 3 * MaxCycles + 1

\* No step is under way when the host is idle.
HostInv == host \in {"idle", "step"} => ppuSteps = 0

DmaInv == IInv /\ ElapsedSoFar
NesInv == /\ DmaInv /\ NesTypeOK /\ StepsInv /\ HostInv
          /\ NmiWaits /\ NmiLatency /\ NmiPlace
          /\ BlankOnlyInBlank /\ FrameInv

-----------------------------------------------------------------------------
LEMMA Lengths == /\ N \in Nat \ {0} /\ MaxCycles \in Nat \ {0}
                 /\ LastCycle \in Nat /\ VBlankLine \in Nat /\ LastLine \in Nat
                 /\ FrameWrap \in Nat /\ VBlankLine >= 2 /\ LastLine >= VBlankLine + 2
                 /\ FrameWrap > 1 /\ LastCycle >= 3 * MaxCycles + 1
                 /\ LatencyBound \in Nat /\ 2 * LastCycle >= LatencyBound
                 /\ LatencyBound >= 3 * MaxCycles - 1 /\ LatencyBound >= 2 * N + 3
                 /\ Width = LastCycle + 1
  BY SizeAssumption, LengthAssumption, PictureAssumption DEF LatencyBound, Width

LEMMA NesInitInv == NesInit => NesInv
<1>. SUFFICES ASSUME NesInit PROVE NesInv
  OBVIOUS
<1>1. DmaInv
  BY InitInv DEF NesInit, DmaInv
<1>2. NesTypeOK
  <2>1. /\ PRE_SCANLINE \in PRE_SCANLINE .. LastLine /\ 0 \in 0 .. LastCycle
        /\ 0 \in 0 .. FrameWrap - 1 /\ 0 \in Nat
    BY Lengths DEF PRE_SCANLINE
  <2>2. TypeOK
    BY <1>1 DEF DmaInv, IInv
  <2>. QED
    BY <2>1, <2>2 DEF NesInit, NesTypeOK
<1>3. ppuSteps = 0
  BY DEF NesInit, Init
<1>. QED
  BY <1>1, <1>2, <1>3, Lengths
     DEF NesInit, NesInv, StepsInv, HostInv, NmiWaits, NmiLatency, NmiPlace, BlankOnlyInBlank,
         FrameInv, FrameReached

-----------------------------------------------------------------------------
(* What the steps of each kind have in common.                             *)

LEMMA OamSteps == [NesNext]_nesVars => [Next]_vars
  BY DEF NesNext, nesVars, ProcessFrame, ReturnFrame, StepAssembly, ReturnStep, NesPowerCycle,
         CpuSteps, DmaStalls, HandleNmiEvent, HandleIrqEvent, Undecodable, Break, Instruction,
         ReadPpuStatus, WritePpuStatus, AccessFails, WritePpuCtrl, WriteOam, Dot,
         ProgramEnded, Next, CpuStep, PpuStep

LEMMA DmaStepInv == DmaInv /\ [NesNext]_nesVars => DmaInv'
  BY OamSteps, StepInv, ElapsedStep DEF DmaInv

LEMMA CpuShape ==
  ASSUME NesInv, CpuSteps
  PROVE  /\ ppuSteps = 0 /\ ppuSteps' \in 0 .. 3 * MaxCycles
         /\ line' = line /\ cycle' = cycle /\ frameCount' = frameCount /\ goal' = goal
         /\ host = "frame" => ~FrameReached
         /\ host' \in {"frame", "stepping"} /\ (host' = "frame" <=> host = "frame")
         /\ verticalBlank' => verticalBlank \/ blankWritten'
         /\ blankWritten => blankWritten'
         /\ \/ ~nmiActive'
            \/ /\ nmiActive /\ nmiAge' = nmiAge /\ ppuSteps' = 3
               /\ dmaActive /\ dmaActive' /\ elapsed' = elapsed
<1>1. /\ MaxCycles \in Nat \ {0} /\ \A c \in Cycles : c \in 0 .. MaxCycles
      /\ \A c \in StoreCycles : c \in 0 .. MaxCycles
  BY Lengths, LengthAssumption
<1>2. /\ line' = line /\ cycle' = cycle /\ frameCount' = frameCount /\ goal' = goal
      /\ host = "frame" => ~FrameReached
      /\ host' \in {"frame", "stepping"} /\ (host' = "frame" <=> host = "frame")
  BY DEF CpuSteps, DmaStalls, HandleNmiEvent, HandleIrqEvent, Undecodable, Break, Instruction,
         ReadPpuStatus, WritePpuStatus, AccessFails, WritePpuCtrl, WriteOam, CpuDecodes,
         CpuCalled, ppuVars
<1>3. /\ verticalBlank' => verticalBlank \/ blankWritten'
      /\ blankWritten => blankWritten'
  <2>1. \/ verticalBlank' = verticalBlank /\ blankWritten' = blankWritten
        \/ verticalBlank' = FALSE /\ blankWritten' = blankWritten
        \/ blankWritten' = TRUE
    BY DEF CpuSteps, DmaStalls, HandleNmiEvent, HandleIrqEvent, Undecodable, Break,
           Instruction, ReadPpuStatus, WritePpuStatus, AccessFails, WritePpuCtrl, WriteOam,
           nmiVars, statusVars
  <2>. QED
    BY <2>1
<1>4. CASE DmaStalls
  BY <1>1, <1>2, <1>3, <1>4
     DEF DmaStalls, Stall, CpuMayStep, IsDmaActive, nmiVars, statusVars, dmaSide, history
<1>5. CASE ~DmaStalls
  <2>1. Execute \/ CpuFaults \/ WriteOamAddr \/ WriteOamData \/ WriteDma
    BY <1>5 DEF CpuSteps, HandleNmiEvent, HandleIrqEvent, Undecodable, Break, Instruction,
                ReadPpuStatus, WritePpuStatus, AccessFails, WritePpuCtrl, WriteOam
  <2>2. CpuFaults \/ \E c \in Cycles \union StoreCycles : CpuRuns(c)
    BY <2>1 DEF Execute, WriteOamAddr, WriteOamData, WriteDma
  <2>3. ppuSteps = 0 /\ ppuSteps' \in 0 .. 3 * MaxCycles
    BY <1>1, <2>2 DEF CpuRuns, CpuFaults, CpuMayStep
  <2>4. ~nmiActive' \/ (HandleIrqEvent /\ nmiActive' = nmiActive)
    BY <1>5 DEF CpuSteps, HandleNmiEvent, HandleIrqEvent, Undecodable, Break, Instruction,
                ReadPpuStatus, WritePpuStatus, AccessFails, WritePpuCtrl, WriteOam,
                CpuDecodes, AcknowledgeNmi, nmiVars, statusVars
  <2>5. ~nmiActive'
    BY <2>4 DEF HandleIrqEvent
  <2>. QED
    BY <1>2, <1>3, <2>3, <2>5
<1>. QED
  BY <1>4, <1>5

LEMMA DotShape ==
  ASSUME NesInv, Dot
  PROVE  /\ ppuSteps \in Nat \ {0} /\ ppuSteps' = ppuSteps - 1
         /\ NextPosition /\ CountFrame /\ CountNmi
         /\ host' = host /\ goal' = goal
         /\ verticalBlank' => BlankAfter
         /\ blankWritten' <=> blankWritten /\ ~FrameStarts
         /\ dmaActive => elapsed <= 2 * N + 1 /\ elapsed' = elapsed + 1
         /\ dmaActive' => dmaActive
<1>1. PpuStep /\ PpuCycle
  BY DEF Dot, PpuStep, PpuIdles, DmaReads, DmaWrites
<1>2. ppuSteps \in Nat \ {0} /\ ppuSteps' = ppuSteps - 1
  BY <1>1 DEF PpuCycle, NesInv, DmaInv, IInv, TypeOK
<1>3. NextPosition /\ CountFrame /\ CountNmi /\ host' = host /\ goal' = goal
  BY DEF Dot, PpuRuns, hostVars
<1>4. verticalBlank' => BlankAfter
  BY DEF Dot
<1>7. blankWritten' <=> blankWritten /\ ~FrameStarts
  BY DEF Dot
<1>5. dmaActive' => dmaActive
  BY <1>1 DEF PpuStep, PpuIdles, DmaReads, DmaWrites, IsDmaActive
<1>6. ASSUME dmaActive PROVE elapsed <= 2 * N + 1 /\ elapsed' = elapsed + 1
  <2>1. N \in Nat \ {0} /\ elapsed \in Nat /\ offset \in 0 .. N /\ offset < N
    BY <1>6, Lengths DEF NesInv, DmaInv, IInv, TypeOK, TransferInOam
  <2>2. elapsed <= 2 * offset + 3
    BY <1>6, <2>1 DEF NesInv, DmaInv, IInv, TypeOK, ElapsedSoFar, Late
  <2>. QED
    BY <1>1, <1>6, <2>1, <2>2 DEF PpuCycle, ElapsedCap
<1>. QED
  BY <1>2, <1>3, <1>4, <1>5, <1>6, <1>7

-----------------------------------------------------------------------------
(* One lemma for each kind of step.                                        *)

LEMMA HostStepInv ==
  ASSUME NesInv,
         \/ ProcessFrame \/ ReturnFrame \/ StepAssembly \/ ReturnStep
         \/ UNCHANGED nesVars
  PROVE  NesInv'
<1>1. /\ ppuSteps' = ppuSteps /\ dmaActive' = dmaActive /\ elapsed' = elapsed
      /\ line' = line /\ cycle' = cycle /\ frameCount' = frameCount
      /\ verticalBlank' = verticalBlank /\ blankWritten' = blankWritten
      /\ nmiActive' = nmiActive /\ nmiAge' = nmiAge
      /\ generateNmi' = generateNmi /\ irqActive' = irqActive
      /\ interruptDisable' = interruptDisable
  BY DEF ProcessFrame, ReturnFrame, StepAssembly, ReturnStep, nesVars, vars, dmaSide, history,
         ppuVars, nmiVars, statusVars
<1>2. DmaInv'
  BY DmaStepInv DEF NesInv, NesNext
<1>3. goal' \in {goal, frameCount} /\ host' \in {"idle", "step", "stepping", "frame"}
  BY DEF ProcessFrame, ReturnFrame, StepAssembly, ReturnStep, nesVars, hostVars, NesInv,
         NesTypeOK
<1>4. NesTypeOK'
  BY <1>1, <1>2, <1>3 DEF NesInv, NesTypeOK, DmaInv, IInv
<1>5. StepsInv' /\ NmiWaits' /\ NmiLatency' /\ NmiPlace' /\ BlankOnlyInBlank'
  BY <1>1 DEF NesInv, StepsInv, NmiWaits, NmiLatency, NmiPlace, BlankOnlyInBlank
<1>6. HostInv'
  BY <1>1 DEF NesInv, HostInv, ProcessFrame, ReturnFrame, StepAssembly, ReturnStep, nesVars,
              hostVars, CpuMayStep
<1>7. FrameInv'
  BY <1>1 DEF NesInv, FrameInv, FrameReached, ProcessFrame, ReturnFrame, StepAssembly,
              ReturnStep, nesVars, hostVars
<1>. QED
  BY <1>2, <1>4, <1>5, <1>6, <1>7 DEF NesInv

LEMMA NesPowerCycleInv ==
  ASSUME NesInv, NesPowerCycle
  PROVE  NesInv'
<1>1. /\ ppuSteps' = ppuSteps /\ ppuSteps = 0 /\ dmaActive' = dmaActive
      /\ elapsed' = elapsed /\ host = "idle" /\ host' = host /\ goal' = goal
      /\ line' = PRE_SCANLINE /\ cycle' = 0 /\ frameCount' = 0
      /\ nmiActive' = nmiActive /\ nmiAge' = nmiAge /\ ~verticalBlank'
  BY DEF NesPowerCycle, PowerCycle, CpuMayStep, hostVars
<1>2. DmaInv'
  BY DmaStepInv DEF NesInv, NesNext
<1>3. NesTypeOK'
  <2>1. /\ PRE_SCANLINE \in PRE_SCANLINE .. LastLine /\ 0 \in 0 .. LastCycle
        /\ 0 \in 0 .. FrameWrap - 1
    BY Lengths DEF PRE_SCANLINE
  <2>2. TypeOK'
    BY <1>2 DEF DmaInv, IInv
  <2>. QED
    BY <1>1, <2>1, <2>2 DEF NesPowerCycle, NesInv, NesTypeOK, hostVars
<1>4. StepsInv' /\ HostInv' /\ FrameInv' /\ BlankOnlyInBlank'
  BY <1>1 DEF NesInv, StepsInv, HostInv, FrameInv, BlankOnlyInBlank
<1>5. NmiWaits' /\ NmiLatency'
  BY <1>1 DEF NesInv, NmiWaits, NmiLatency
<1>6. NmiPlace'
  BY <1>1 DEF NmiPlace, NesInv, NesTypeOK, PRE_SCANLINE
<1>. QED
  BY <1>2, <1>3, <1>4, <1>5, <1>6 DEF NesInv

LEMMA CpuStepsInv ==
  ASSUME NesInv, CpuSteps
  PROVE  NesInv'
<1>1. DmaInv'
  BY DmaStepInv DEF NesInv, NesNext
<1>2. NesTypeOK'
  <2>1. TypeOK'
    BY <1>1 DEF DmaInv, IInv
  <2>2. nmiAge' \in {nmiAge, 0} /\ nmiActive' \in {nmiActive, FALSE}
    BY DEF CpuSteps, DmaStalls, HandleNmiEvent, HandleIrqEvent, Undecodable, Break,
           Instruction, ReadPpuStatus, WritePpuStatus, AccessFails, WritePpuCtrl, WriteOam,
           CpuDecodes, AcknowledgeNmi,
           nmiVars, statusVars, NesInv, NesTypeOK
  <2>3. verticalBlank' \in BOOLEAN /\ generateNmi' \in BOOLEAN /\ interruptDisable' \in BOOLEAN
    BY DEF CpuSteps, DmaStalls, HandleNmiEvent, HandleIrqEvent, Undecodable, Break,
           Instruction, ReadPpuStatus, WritePpuStatus, AccessFails, WritePpuCtrl, WriteOam,
           nmiVars, statusVars, NesInv, NesTypeOK
  <2>4. irqActive' \in BOOLEAN
    BY DEF CpuSteps, DmaStalls, HandleNmiEvent, HandleIrqEvent, Undecodable, Break,
           Instruction, ReadPpuStatus, WritePpuStatus, AccessFails, WritePpuCtrl, WriteOam,
           ApuSteps, NesInv, NesTypeOK
  <2>5. nmiActive' \in BOOLEAN
    BY <2>2 DEF NesInv, NesTypeOK
  <2>6. nmiAge' \in Nat
    <3>1. nmiAge \in Nat
      BY DEF NesInv, NesTypeOK
    <3>. QED
      BY <2>2, <3>1
  <2>7. blankWritten' \in BOOLEAN
    BY DEF CpuSteps, DmaStalls, HandleNmiEvent, HandleIrqEvent, Undecodable, Break,
           Instruction, ReadPpuStatus, WritePpuStatus, AccessFails, WritePpuCtrl, WriteOam,
           nmiVars, statusVars, NesInv, NesTypeOK
  <2>. QED
    BY <2>1, <2>3, <2>4, <2>5, <2>6, <2>7, CpuShape DEF NesInv, NesTypeOK
<1>3. StepsInv' /\ HostInv'
  BY CpuShape, Lengths DEF StepsInv, HostInv
<1>4. FrameInv'
  BY CpuShape DEF FrameInv, FrameReached
<1>5. BlankOnlyInBlank'
  BY CpuShape DEF NesInv, BlankOnlyInBlank
<1>6. NmiPlace' /\ NmiLatency'
  BY CpuShape DEF NesInv, NmiPlace, NmiLatency
<1>7. NmiWaits'
  BY CpuShape DEF NesInv, NmiWaits
<1>. QED
  BY <1>1, <1>2, <1>3, <1>4, <1>5, <1>6, <1>7 DEF NesInv

\* The dot clock, with the position in one of four places.
LEMMA Position ==
  ASSUME NesTypeOK, NextPosition
  PROVE  /\ line \in Int /\ cycle \in Nat /\ cycle <= LastCycle
         /\ -1 <= line /\ line <= LastLine
         /\ \/ cycle < LastCycle /\ cycle' = cycle + 1 /\ line' = line
            \/ cycle = LastCycle /\ cycle' = 0 /\ line < LastLine /\ line' = line + 1
            \/ cycle = LastCycle /\ cycle' = 0 /\ line = LastLine /\ line' = -1
<1>1. /\ line \in Int /\ cycle \in Nat /\ cycle <= LastCycle
      /\ -1 <= line /\ line <= LastLine
  BY Lengths DEF NesTypeOK, PRE_SCANLINE
<1>2. CASE cycle < LastCycle
  BY <1>1, <1>2 DEF NextPosition
<1>3. CASE ~(cycle < LastCycle) /\ line < LastLine
  BY <1>1, <1>3, Lengths DEF NextPosition
<1>4. CASE ~(cycle < LastCycle) /\ ~(line < LastLine)
  BY <1>1, <1>4, Lengths DEF NextPosition, PRE_SCANLINE
<1>. QED
  BY <1>2, <1>3, <1>4

LEMMA DotInv ==
  ASSUME NesInv, Dot
  PROVE  NesInv'
<1>1. DmaInv'
  BY DmaStepInv DEF NesInv, NesNext
<1>2. NesTypeOK
  BY DEF NesInv
<1>3. NextPosition /\ CountFrame /\ CountNmi
  BY DotShape
<1>4. nmiAge \in Nat /\ nmiAge' \in Nat /\ nmiActive \in BOOLEAN
  BY <1>2, <1>3, Lengths DEF NesTypeOK, CountNmi, AgeCap
<1>5. NesTypeOK'
  <2>1. TypeOK'
    BY <1>1 DEF DmaInv, IInv
  <2>2. line' \in PRE_SCANLINE .. LastLine /\ cycle' \in 0 .. LastCycle
    BY <1>2, <1>3, Position, Lengths DEF PRE_SCANLINE
  <2>3. frameCount' \in 0 .. FrameWrap - 1
    BY <1>2, <1>3, Lengths DEF NesTypeOK, CountFrame
  <2>4. nmiActive' \in BOOLEAN
    BY <1>3 DEF CountNmi
  <2>5. verticalBlank' \in BOOLEAN /\ blankWritten' \in BOOLEAN
    BY DEF Dot, BlankAfter
  <2>. QED
    BY <1>2, <1>4, <2>1, <2>2, <2>3, <2>4, <2>5 DEF Dot, PpuRuns, hostVars, NesTypeOK
<1>6. StepsInv' /\ HostInv'
  BY DotShape, Lengths DEF NesInv, StepsInv, HostInv
<1>7. BlankOnlyInBlank'
  <2>. SUFFICES ASSUME BlankAfter, ~blankWritten' PROVE BlankOnlyInBlank'
    BY DotShape DEF BlankOnlyInBlank
  <2>1. CASE BlankStarts
    BY <1>2, <1>3, <2>1, Position, Lengths
       DEF BlankStarts, BlankOnlyInBlank, START_VISIBLE_CYCLE, PRE_SCANLINE
  <2>2. CASE ~BlankStarts
    <3>1. verticalBlank /\ ~FrameStarts /\ ~blankWritten
      BY <2>2, DotShape DEF BlankAfter
    <3>2. \/ line = VBlankLine /\ cycle > 1
          \/ line > VBlankLine
          \/ line = -1 /\ cycle <= 1 /\ cycle # 1
      BY <3>1 DEF NesInv, BlankOnlyInBlank, FrameStarts, START_VISIBLE_CYCLE, PRE_SCANLINE
    <3>. QED
      BY <1>2, <1>3, <3>2, Position, Lengths
         DEF BlankOnlyInBlank, START_VISIBLE_CYCLE, PRE_SCANLINE
  <2>. QED
    BY <2>1, <2>2
<1>8. NmiLatency' /\ NmiWaits' /\ NmiPlace'
  <2>1. CASE NmiEdge
    <3>1. nmiAge' = 0 /\ line = VBlankLine /\ cycle = 1
      BY <1>3, <2>1 DEF CountNmi, NmiEdge, BlankStarts, START_VISIBLE_CYCLE
    <3>2. line' = VBlankLine /\ cycle' = 2
      BY <1>2, <1>3, <3>1, Position, Lengths
    <3>3. ppuSteps' <= 3 * MaxCycles - 1 /\ ppuSteps' \in Nat
      BY DotShape, Lengths DEF NesInv, StepsInv
    <3>4. dmaActive' => 0 < elapsed'
      <4>1. dmaActive' => elapsed \in Nat /\ elapsed' = elapsed + 1
        BY DotShape DEF NesInv, NesTypeOK, TypeOK
      <4>. QED
        BY <4>1
    <3>5. NmiLatency' /\ NmiPlace'
      BY <3>1, <3>2, Lengths DEF NmiLatency, NmiPlace
    <3>6. nmiAge' + ppuSteps' <= 3 * MaxCycles - 1
      BY <3>1, <3>3
    <3>7. NmiWaits'
      BY <3>1, <3>4, <3>6 DEF NmiWaits
    <3>. QED
      BY <3>5, <3>7
  <2>2. CASE ~NmiEdge /\ ~nmiActive
    BY <1>3, <2>2 DEF CountNmi, NmiLatency, NmiWaits, NmiPlace
  <2>3. CASE ~NmiEdge /\ nmiActive
    <3>1. nmiAge <= LatencyBound
      BY <2>3 DEF NesInv, NmiLatency
    <3>2. nmiAge' = nmiAge + 1
      BY <1>3, <1>4, <2>3, <3>1, Lengths DEF CountNmi, AgeCap
    <3>3. /\ ppuSteps \in Nat \ {0} /\ ppuSteps' = ppuSteps - 1 /\ elapsed \in Nat
          /\ dmaActive => elapsed <= 2 * N + 1 /\ elapsed' = elapsed + 1 /\ nmiAge < elapsed
          /\ dmaActive' => dmaActive
      BY <2>3, DotShape DEF NesInv, NesTypeOK, TypeOK, NmiWaits
    <3>4. \/ nmiAge + ppuSteps <= 3 * MaxCycles - 1
          \/ dmaActive /\ ppuSteps <= 3
          \/ ~dmaActive /\ ppuSteps <= 2 /\ nmiAge + ppuSteps <= 2 * N + 3
      BY <2>3 DEF NesInv, NmiWaits
    <3>5. NmiWaits'
      BY <1>4, <3>2, <3>3, <3>4, Lengths DEF NmiWaits
    <3>6. nmiAge' <= LatencyBound
      BY <1>4, <3>2, <3>3, <3>4, Lengths
    <3>7. NmiPlace'
      BY <1>2, <1>3, <1>4, <2>3, <3>2, <3>6, Position, Lengths
         DEF NesInv, NmiPlace, PRE_SCANLINE
    <3>. QED
      BY <3>5, <3>6, <3>7 DEF NmiLatency
  <2>. QED
    BY <2>1, <2>2, <2>3
<1>9. FrameInv'
  <2>. SUFFICES ASSUME host = "frame", frameCount' # goal
                PROVE  /\ frameCount' = (goal + 1) % FrameWrap /\ line' = -1
                       /\ cycle' >= 2 /\ cycle' + ppuSteps' <= 3 * MaxCycles + 1
    BY DotShape DEF FrameInv, FrameReached, PRE_SCANLINE
  <2>1. /\ ppuSteps \in Nat \ {0} /\ ppuSteps' = ppuSteps - 1
        /\ ppuSteps <= 3 * MaxCycles
    BY DotShape DEF NesInv, StepsInv
  <2>2. CASE FrameReached
    <3>1. /\ frameCount = (goal + 1) % FrameWrap /\ line = -1
          /\ cycle >= 2 /\ cycle + ppuSteps <= 3 * MaxCycles + 1
      BY <2>2 DEF NesInv, FrameInv, PRE_SCANLINE
    <3>2. frameCount' = frameCount
      BY <1>3, <3>1 DEF CountFrame, FrameStarts, START_VISIBLE_CYCLE
    <3>. QED
      BY <1>2, <1>3, <2>1, <3>1, <3>2, Position, Lengths
  <2>3. CASE ~FrameReached
    <3>1. FrameStarts /\ frameCount' = (goal + 1) % FrameWrap
      BY <1>3, <2>3 DEF CountFrame, FrameReached
    <3>2. line = -1 /\ cycle = 1
      BY <3>1 DEF FrameStarts, START_VISIBLE_CYCLE, PRE_SCANLINE
    <3>. QED
      BY <1>2, <1>3, <2>1, <3>1, <3>2, Position, Lengths
  <2>. QED
    BY <2>2, <2>3
<1>. QED
  BY <1>1, <1>5, <1>6, <1>7, <1>8, <1>9 DEF NesInv

LEMMA NesStepInv == NesInv /\ [NesNext]_nesVars => NesInv'
  BY HostStepInv, NesPowerCycleInv, CpuStepsInv, DotInv DEF NesNext, ProgramEnded

\* The strengthened invariant: where the PPU, the transfer and the running step
\* are while an NMI waits, and where the PPU is when processFrame may return.
THEOREM NesInvariance == NesSpec => []NesInv
  BY NesInitInv, NesStepInv, PTL DEF NesSpec

\* Every flag, counter and position keeps its range.
THEOREM NesTypeCorrect == NesSpec => []NesTypeOK
<1>1. NesInv => NesTypeOK
  BY DEF NesInv
<1>. QED
  BY <1>1, NesInvariance, PTL

\* PPUSTATUS reports a vertical blank only during one.
THEOREM BlankIsHonest == NesSpec => []BlankOnlyInBlank
<1>1. NesInv => BlankOnlyInBlank
  BY DEF NesInv
<1>. QED
  BY <1>1, NesInvariance, PTL

\* An NMI is served within LatencyBound PPU cycles, transfers included.
THEOREM NmiIsServedInTime == NesSpec => []NmiLatency
<1>1. NesInv => NmiLatency
  BY DEF NesInv
<1>. QED
  BY <1>1, NesInvariance, PTL

\* No NMI is raised while another is pending.
THEOREM NmiIsNeverMerged == NesSpec => []NmiNotMerged
<1>1. NesInv => NmiNotMerged
  BY Lengths DEF NesInv, NesTypeOK, NmiPlace, NmiNotMerged, NmiEdge, BlankStarts, PRE_SCANLINE,
                 START_VISIBLE_CYCLE
<1>. QED
  BY <1>1, NesInvariance, PTL

\* processFrame advances the picture by exactly one frame and returns before
\* anything of the next is drawn.
THEOREM FramesAreWhole == NesSpec => []OneWholeFrame
<1>1. NesInv => OneWholeFrame
  BY DEF NesInv, FrameInv, OneWholeFrame
<1>. QED
  BY <1>1, NesInvariance, PTL

\* The composition keeps what OamDma promises: the CPU never runs while a
\* transfer does, and no stale byte is stored.
THEOREM DmaPromisesHold == NesSpec => [](CpuHeldDuringDma /\ BufferIsFresh)
<1>1. NesInv => CpuHeldDuringDma /\ BufferIsFresh
  BY HeldAtBoundary DEF NesInv, DmaInv, IInv
<1>. QED
  BY <1>1, NesInvariance, PTL

-----------------------------------------------------------------------------
(* The parity of the PPU's clock and the position of its beam.             *)

DotNumber == (line + 1) * (LastCycle + 1) + cycle

LEMMA OddAlternates ==
  ASSUME NEW a \in Int, NEW b \in Int, b = a + 1 \/ (b = 0 /\ (a + 1) % 2 = 0)
  PROVE  b % 2 = 1 <=> ~(a % 2 = 1)
  OBVIOUS

LEMMA DistributeLine ==
  ASSUME NEW a \in Int, NEW w \in Int
  PROVE  /\ a * w \in Int /\ (a + 1) * w \in Int
         /\ (a + 1) * w = a * w + w
         /\ w * (a + 1) = (a + 1) * w
  OBVIOUS

LEMMA DotNumberStep ==
  ASSUME NesTypeOK, NextPosition
  PROVE  /\ DotNumber \in Int /\ DotNumber' \in Int
         /\ \/ DotNumber' = DotNumber + 1
            \/ DotNumber' = 0 /\ (DotNumber + 1) % 2 = 0
<1>1. /\ line \in Int /\ cycle \in Int /\ LastCycle \in Int /\ LastLine \in Int
  BY Position, Lengths
<1>2. (line + 1) * (LastCycle + 1) \in Int /\ (line + 2) * (LastCycle + 1) \in Int
  BY <1>1
<1>3. (line + 2) * (LastCycle + 1) = (line + 1) * (LastCycle + 1) + (LastCycle + 1)
  <2>1. line + 1 \in Int /\ LastCycle + 1 \in Int /\ (line + 1) + 1 = line + 2
    BY <1>1
  <2>. QED
    BY <2>1, DistributeLine
<1>4. CASE cycle < LastCycle /\ cycle' = cycle + 1 /\ line' = line
  BY <1>1, <1>2, <1>4 DEF DotNumber
<1>5. CASE cycle = LastCycle /\ cycle' = 0 /\ line' = line + 1
  <2>1. DotNumber' = (line + 2) * (LastCycle + 1)
    BY <1>1, <1>5 DEF DotNumber
  <2>. QED
    BY <1>1, <1>2, <1>3, <1>5, <2>1 DEF DotNumber
<1>6. CASE cycle = LastCycle /\ cycle' = 0 /\ line = LastLine /\ line' = -1
  <2>1. DotNumber' = 0
    <3>1. DotNumber' = (-1 + 1) * (LastCycle + 1) + 0
      BY <1>6 DEF DotNumber
    <3>. QED
      BY <1>1, <3>1
  <2>2. DotNumber + 1 = (LastLine + 2) * (LastCycle + 1)
    BY <1>1, <1>2, <1>3, <1>6 DEF DotNumber
  <2>3. (LastLine + 2) * (LastCycle + 1) = (LastCycle + 1) * (LastLine + 2)
    BY <1>1
  <2>4. (DotNumber + 1) % 2 = 0
    BY <2>2, <2>3, PictureAssumption
  <2>. QED
    BY <1>1, <1>2, <2>1, <2>4, <1>6 DEF DotNumber
<1>. QED
  BY <1>4, <1>5, <1>6, Position

LEMMA ParityStep ==
  ASSUME NesInv, ParityIsPositional, [NesNext]_nesVars
  PROVE  ParityIsPositional'
<1>1. CASE Dot
  <2>1. /\ DotNumber \in Int /\ DotNumber' \in Int
        /\ DotNumber' % 2 = 1 <=> ~(DotNumber % 2 = 1)
    BY <1>1, DotShape, DotNumberStep, OddAlternates DEF NesInv
  <2>2. oddCycle' <=> ~oddCycle
    BY <1>1 DEF Dot, PpuStep, PpuIdles, DmaReads, DmaWrites, PpuCycle
  <2>. QED
    BY <2>1, <2>2 DEF ParityIsPositional, DotNumber
<1>2. CASE NesPowerCycle
  <2>1. ~oddCycle' /\ line' = -1 /\ cycle' = 0
    BY <1>2 DEF NesPowerCycle, PowerCycle, ResetClock, PRE_SCANLINE
  <2>2. (-1 + 1) * (LastCycle + 1) + 0 = 0
    BY Lengths
  <2>. QED
    BY <2>1, <2>2 DEF ParityIsPositional
<1>3. CASE ~Dot /\ ~NesPowerCycle
  <2>1. oddCycle' = oddCycle /\ line' = line /\ cycle' = cycle
    <3>1. CASE CpuSteps
      <4>1. oddCycle' = oddCycle
        BY <3>1 DEF CpuSteps, DmaStalls, HandleNmiEvent, HandleIrqEvent, Undecodable, Break,
                    Instruction, ReadPpuStatus, WritePpuStatus, AccessFails, WritePpuCtrl,
                    WriteOam, Stall, Execute, CpuFaults, WriteOamAddr, WriteOamData,
                    WriteDma, CpuRuns
      <4>. QED
        BY <3>1, <4>1, CpuShape
    <3>2. CASE ~CpuSteps
      BY <1>3, <3>2 DEF NesNext, ProcessFrame, ReturnFrame, StepAssembly, ReturnStep,
                        ProgramEnded, nesVars, vars, ppuVars
    <3>. QED
      BY <3>1, <3>2
  <2>. QED
    BY <2>1 DEF ParityIsPositional
<1>. QED
  BY <1>1, <1>2, <1>3

LEMMA ParityInit == NesInit => ParityIsPositional
<1>1. (-1 + 1) * (LastCycle + 1) + 0 = 0
  BY Lengths
<1>. QED
  BY <1>1 DEF NesInit, Init, ParityIsPositional, PRE_SCANLINE

\* The parity the DMA goes by is that of the PPU's position, always.
THEOREM ParityFollowsBeam == NesSpec => []ParityIsPositional
  BY NesInitInv, NesStepInv, ParityInit, ParityStep, PTL DEF NesSpec
=============================================================================
