------------------------------- MODULE OamDma -------------------------------
(***************************************************************************)
(* The OAM DMA of Memory/Dma.cpp inside the step loop of Nes.cpp.          *)
(*                                                                         *)
(* Nes::Step asks the CPU for one step, which answers with a number of CPU *)
(* cycles, and then runs three PPU cycles for each of them; after each PPU *)
(* cycle it lets the DMA do its part.  The DMA reads on even PPU cycles    *)
(* and writes on odd ones, through a one-byte buffer, and the CPU looks at *)
(* the DMA's state only between its own steps.  OamCopy states what this   *)
(* machinery is for.                                                       *)
(*                                                                         *)
(* Of totalPpuCycles the module keeps the parity, the only thing the DMA   *)
(* asks of it.                                                             *)
(***************************************************************************)
EXTENDS Naturals

CONSTANTS N,           \* bytes of OAM and of a page: 256 in the code
          Pages,       \* values written to $4014
          Bytes,       \* values of a byte
          ResetByte,   \* 0 in the code
          Volatile,    \* device registers: a read gives any byte, or throws
          Unmapped,    \* addresses at which Dma::Read throws
          Cycles,      \* the cycle counts Cpu::Step may return
          StoreCycles  \* those of the instructions that can write $4014

Offsets == 0 .. N-1
Address == Pages \X Offsets
Memory  == Address \ (Volatile \union Unmapped)

\* Cpu::Step returns 0 for BRK and for what it cannot decode, and neither
\* writes $4014: the instructions that do take four cycles or more.
ASSUME SizeAssumption  == N \in Nat \ {0}
ASSUME ByteAssumption  == ResetByte \in Bytes
ASSUME DeviceAssumption == Volatile \intersect Unmapped = {}
ASSUME CycleAssumption == Cycles \subseteq Nat /\ StoreCycles \subseteq Nat \ {0}

VARIABLES mem,        \* RAM and cartridge, as the bus shows them
          oam,        \* OamPrimary
          oamAddr,    \* OAMADDR
          oddCycle,   \* totalPpuCycles is odd
          ppuSteps,   \* PPU cycles still to run in this Nes::Step
          dmaActive, goodCycle, page, offset, buffer,   \* Dma.h
          faulted     \* Dma::Read or Write has thrown, and nothing catches it

\* History, read by no action: the next byte was lost to a power cycle; how
\* many PPU cycles the transfer has lasted, and its parity when it began.
VARIABLES stale, elapsed, beganOdd

cpuSide == <<mem, oamAddr>>
dmaSide == <<dmaActive, goodCycle, page, offset, buffer>>
history == <<stale, elapsed, beganOdd>>
vars    == <<mem, oam, oamAddr, oddCycle, ppuSteps, dmaSide, faulted, history>>

TypeOK == /\ mem \in [Memory -> Bytes]
          /\ oam \in [Offsets -> Bytes]
          /\ oamAddr \in Offsets
          /\ oddCycle \in BOOLEAN
          /\ ppuSteps \in Nat
          /\ dmaActive \in BOOLEAN
          /\ goodCycle \in BOOLEAN
          /\ page \in Pages
          /\ offset \in 0 .. N
          /\ buffer \in Bytes
          /\ faulted \in BOOLEAN
          /\ stale \in BOOLEAN
          /\ elapsed \in Nat
          /\ beganOdd \in BOOLEAN

Init == /\ mem \in [Memory -> Bytes]
        /\ oam \in [Offsets -> Bytes]
        /\ oamAddr = 0
        /\ oddCycle = FALSE
        /\ ppuSteps = 0
        /\ dmaActive = FALSE
        /\ goodCycle = FALSE
        /\ page \in Pages
        /\ offset = 0
        /\ buffer = ResetByte
        /\ faulted = FALSE
        /\ stale = FALSE
        /\ elapsed = 0
        /\ beganOdd = FALSE

-----------------------------------------------------------------------------
(* Dma::IsDmaActive, called before every CPU step and after every PPU      *)
(* cycle.  Asking has an effect: a transfer that has not begun is released *)
(* by the first odd cycle at which somebody asks, and the answer then is   *)
(* still no.                                                               *)

IsDmaActive == dmaActive /\ goodCycle

NeverReleaseMutant(odd) == goodCycle

ReleaseDma(odd) == goodCycle \/ (dmaActive /\ odd)

-----------------------------------------------------------------------------
(* Cpu::Step, to the extent that the rest of Nes::Step depends on it.      *)

\* The bound at which the count of a transfer's cycles stops.
ElapsedCap == 2 * N + 4

CpuMayStep == ppuSteps = 0 /\ ~faulted

\* The transfer holds the CPU for this cycle.
Stall == /\ CpuMayStep /\ IsDmaActive
         /\ ppuSteps' = 3
         /\ UNCHANGED <<cpuSide, oam, oddCycle, dmaSide, faulted, history>>

UnstalledMutant(c) == /\ CpuMayStep
                      /\ ppuSteps' = 3 * c
                      /\ UNCHANGED <<oddCycle, faulted>>

\* The CPU executes an instruction, or enters an interrupt, of c cycles.
CpuRuns(c) == /\ CpuMayStep /\ ~IsDmaActive
              /\ ppuSteps' = 3 * c
              /\ UNCHANGED <<oddCycle, faulted>>

\* Any instruction or interrupt, as far as RAM and cartridge can tell.
Execute == /\ \E c \in Cycles : CpuRuns(c)
           /\ goodCycle' = ReleaseDma(oddCycle)
           /\ mem' \in [Memory -> Bytes]
           /\ UNCHANGED <<oam, oamAddr, dmaActive, page, offset, buffer, history>>

\* An instruction whose operand no device answers, or a PC that none answers.
CpuFaults == /\ CpuMayStep /\ ~IsDmaActive
             /\ faulted' = TRUE
             /\ goodCycle' = ReleaseDma(oddCycle)
             /\ mem' \in [Memory -> Bytes]
             /\ UNCHANGED <<oam, oamAddr, oddCycle, ppuSteps, dmaActive, page, offset, buffer,
                            history>>

\* A write to OAMADDR, $2003.
WriteOamAddr == /\ \E c \in StoreCycles : CpuRuns(c)
                /\ goodCycle' = ReleaseDma(oddCycle)
                /\ oamAddr' \in Offsets
                /\ UNCHANGED <<mem, oam, dmaActive, page, offset, buffer, history>>

\* OAMADDR is a byte.
NextOamAddr(a) == (a + 1) % N

\* A write to OAMDATA, $2004.
WriteOamData == /\ \E c \in StoreCycles : CpuRuns(c)
                /\ goodCycle' = ReleaseDma(oddCycle)
                /\ \E v \in Bytes : oam' = [oam EXCEPT ![oamAddr] = v]
                /\ oamAddr' = NextOamAddr(oamAddr)
                /\ UNCHANGED <<mem, dmaActive, page, offset, buffer, history>>

KeepGoodCycleMutant(p) == /\ page' = p
                          /\ offset' = 0
                          /\ goodCycle' = goodCycle
                          /\ dmaActive' = TRUE

\* Dma::Write at $4014.
StartDma(p) == /\ page' = p
               /\ offset' = 0
               /\ goodCycle' = FALSE
               /\ dmaActive' = TRUE

WriteDma == /\ \E c \in StoreCycles : CpuRuns(c)
            /\ \E p \in Pages : StartDma(p)
            /\ stale' = FALSE
            /\ elapsed' = 0
            /\ beganOdd' = oddCycle
            /\ UNCHANGED <<mem, oam, oamAddr, buffer>>

-----------------------------------------------------------------------------
(* One PPU cycle of Nes::Step: Ppu::Step counts it, then the DMA is asked  *)
(* whether it is active, and ProcessDma asks again and does its half of a  *)
(* byte.                                                                   *)

PpuCycle == /\ ppuSteps > 0 /\ ~faulted
            /\ ppuSteps' = ppuSteps - 1
            /\ oddCycle' = ~oddCycle
            /\ elapsed' = IF dmaActive /\ elapsed < ElapsedCap THEN elapsed + 1
                                                              ELSE elapsed
            /\ UNCHANGED <<mem, oamAddr, beganOdd>>

\* No transfer, or one that waits for its first odd cycle.
PpuIdles == /\ PpuCycle /\ ~IsDmaActive
            /\ goodCycle' = ReleaseDma(~oddCycle)
            /\ UNCHANGED <<oam, dmaActive, page, offset, buffer, faulted, stale>>

\* Dma::Read of the next byte of the page, on an even cycle.
DmaReads == /\ PpuCycle /\ IsDmaActive /\ oddCycle
            /\ LET a == <<page, offset>>
               IN \/ /\ a \in Memory
                     /\ buffer' = mem[a]
                     /\ faulted' = faulted
                  \/ /\ a \in Volatile
                     /\ buffer' \in Bytes
                     /\ faulted' = faulted
                  \/ /\ a \in Volatile \union Unmapped
                     /\ faulted' = TRUE
                     /\ buffer' = buffer
            /\ UNCHANGED <<oam, dmaActive, goodCycle, page, offset, stale>>

\* The buffer goes to OAM, which ends the transfer when it is full.
StoreBuffer == /\ oam' = [oam EXCEPT ![offset] = buffer]
               /\ offset' = offset + 1
               /\ dmaActive' = (offset' < N)

DmaWrites == /\ PpuCycle /\ IsDmaActive /\ ~oddCycle
             /\ StoreBuffer
             /\ stale' = FALSE
             /\ UNCHANGED <<goodCycle, page, buffer, faulted>>

-----------------------------------------------------------------------------
\* The part of Ppu::PowerCycle that the transfer sees.
ResetClock == /\ oddCycle' = FALSE
              /\ buffer' = ResetByte

\* GameEngine::LoadMedia between two steps: another cartridge, then
\* Nes::PowerCycle, which leaves the transfer's own state and OAM alone.
PowerCycle == /\ CpuMayStep
              /\ mem' \in [Memory -> Bytes]
              /\ oamAddr' = 0
              /\ ResetClock
              /\ stale' = dmaActive
              /\ UNCHANGED <<oam, ppuSteps, dmaActive, goodCycle, page, offset,
                             faulted, elapsed, beganOdd>>

\* The exception has ended the program.
Ended == faulted /\ UNCHANGED vars

CpuStep == Stall \/ Execute \/ CpuFaults \/ WriteOamAddr \/ WriteOamData \/ WriteDma
PpuStep == PpuIdles \/ DmaReads \/ DmaWrites

Next == CpuStep \/ PpuStep \/ PowerCycle \/ Ended

\* GameEngine calls Nes::Step, or processFrame, again and again, and the
\* loops inside them are plain code: neither half of a step waits.
Fairness == WF_vars(CpuStep) /\ WF_vars(PpuStep)

Spec == Init /\ [][Next]_vars /\ Fairness

-----------------------------------------------------------------------------
(* Properties                                                              *)

\* Cpu::Step asks IsDmaActive once, and IsDmaActive says no to a transfer
\* that still waits for its odd cycle.  The CPU is nevertheless never let
\* loose on the page that is being copied: by the time it asks, the PPU
\* cycles of the very instruction that wrote $4014 have released the
\* transfer.  (Cpu.cpp:49-54, Nes.cpp:186-207, Dma.cpp:197-215)
CpuHeldDuringDma == (CpuMayStep /\ dmaActive) => goodCycle

\* A transfer never stores a byte it has not read: between the read and the
\* write of a byte the buffer holds what the bus answered for it, unless a
\* power cycle has come between the two halves or before them.  A transfer
\* that has not been released has stored nothing.  (Dma.cpp:172-193)
BufferIsFresh ==
  dmaActive /\ ~faulted =>
    LET a == <<page, offset>>
    IN \/ ~goodCycle /\ offset = 0 /\ ~stale
       \/ goodCycle /\ oddCycle /\ ~stale
       \/ goodCycle /\ ~oddCycle /\ stale /\ buffer = ResetByte
       \/ /\ goodCycle /\ ~oddCycle /\ ~stale
          /\ a \notin Unmapped
          /\ a \in Memory => buffer = mem[a]

\* What the transfer is for: it implements the byte-by-byte copy of OamCopy,
\* with the program suspended from the request to the last byte.
Copy == INSTANCE OamCopy
          WITH busy <- dmaActive, source <- page, next <- offset, torn <- stale
ImplementsCopy == Copy!CopySpec

\* The length of a transfer does not depend on what it copies, nor on what
\* the rest of the console does: a byte takes two PPU cycles, and at most
\* three pass before the first is read, one of them because the request came
\* on an odd cycle.  Power cycles restart the parity and never add a cycle.
\* (Nes.cpp:195-207, Dma.cpp:171-193)
ElapsedBound == dmaActive => elapsed <= 2 * offset + (IF beganOdd THEN 3 ELSE 2)

\* Every transfer ends, or ends the program.  (Dma.cpp:188-192)
DmaEnds == dmaActive ~> (~dmaActive \/ faulted)
=============================================================================
