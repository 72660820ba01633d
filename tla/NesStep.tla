------------------------------- MODULE NesStep -------------------------------
(***************************************************************************)
(* The console as Nes::Step runs it: the CPU answers with a number of      *)
(* cycles, the APU is stepped that many times, and the PPU and the OAM DMA *)
(* three times as many.  Everything the three tell each other goes through *)
(* flags that the others look at some cycles later: the PPU raises the     *)
(* NMI, the APU the IRQ, and the CPU looks at both, and at the DMA, only   *)
(* when its next step begins.  processFrame runs steps until the PPU has   *)
(* counted a frame.                                                        *)
(*                                                                         *)
(* Each action is an action of OamDma together with what it does to the    *)
(* PPU's position, the interrupts and the host.                            *)
(***************************************************************************)
EXTENDS Integers, OamDma

CONSTANTS LastCycle,       \* LAST_CYCLE, 340
          VBlankLine,      \* VBLANK_SCANLINE, 241
          LastLine,        \* LAST_SCANLINE, 260
          InterruptCycles, \* what HandleNmiEvent and HandleIrqEvent return, 7
          MaxCycles,       \* the longest instruction, 8
          FrameWrap        \* the range of frameCountNum, 2^64

VARIABLES line, cycle,      \* scanLineNum, scanCycleNum
          frameCount,       \* frameCountNum
          verticalBlank,    \* PPUSTATUS
          generateNmi,      \* PPUCTRL
          nmiActive, irqActive,  \* Dma.h
          interruptDisable, \* CPU status flag I
          host,             \* what the game engine has called
          goal,             \* processFrame: the frame count it started from
          nmiAge,           \* history: PPU cycles since the pending NMI was raised
          blankWritten      \* history: the program wrote the flag, in this picture

ppuVars  == <<line, cycle, frameCount>>
statusVars == <<verticalBlank, blankWritten>>
nmiVars  == <<statusVars, nmiActive, nmiAge>>
hostVars == <<host, goal>>
nesVars  == <<vars, ppuVars, nmiVars, generateNmi, irqActive, interruptDisable, hostVars>>

PRE_SCANLINE == -1
START_VISIBLE_CYCLE == 1

ASSUME LengthAssumption ==
  /\ MaxCycles \in Nat
  /\ Cycles \subseteq 0 .. MaxCycles /\ StoreCycles \subseteq 1 .. MaxCycles
  /\ InterruptCycles \in Cycles \ {0}

\* The longest the CPU can be kept from an NMI, in PPU cycles: the rest of the
\* instruction, or a transfer and the rest of its last CPU cycle.
LatencyBound == IF 3 * MaxCycles - 1 > 2 * N + 3 THEN 3 * MaxCycles - 1 ELSE 2 * N + 3

\* Frames have an even number of dots; no instruction is longer than a line,
\* no transfer than two.
ASSUME PictureAssumption ==
  /\ LastCycle \in Nat /\ VBlankLine \in Nat /\ LastLine \in Nat /\ FrameWrap \in Nat
  /\ VBlankLine >= 2 /\ LastLine >= VBlankLine + 2 /\ FrameWrap > 1
  /\ LastCycle >= 3 * MaxCycles + 1 /\ 2 * LastCycle >= LatencyBound
  /\ ((LastCycle + 1) * (LastLine + 2)) % 2 = 0

\* The bound at which the age of an NMI stops.
AgeCap == LatencyBound + 1

NesTypeOK == /\ TypeOK
             /\ line \in PRE_SCANLINE .. LastLine
             /\ cycle \in 0 .. LastCycle
             /\ frameCount \in 0 .. FrameWrap - 1
             /\ verticalBlank \in BOOLEAN
             /\ generateNmi \in BOOLEAN
             /\ nmiActive \in BOOLEAN
             /\ irqActive \in BOOLEAN
             /\ interruptDisable \in BOOLEAN
             /\ host \in {"idle", "step", "stepping", "frame"}
             /\ goal \in 0 .. FrameWrap - 1
             /\ nmiAge \in Nat
             /\ blankWritten \in BOOLEAN

\* After the first LoadCartridge and PowerCycle.
NesInit == /\ Init
           /\ line = PRE_SCANLINE
           /\ cycle = 0
           /\ frameCount = 0
           /\ verticalBlank = FALSE
           /\ generateNmi = FALSE
           /\ nmiActive = FALSE
           /\ irqActive = FALSE
           /\ interruptDisable = TRUE
           /\ host = "idle"
           /\ goal = 0
           /\ nmiAge = 0
           /\ blankWritten = FALSE

-----------------------------------------------------------------------------
(* The game engine.                                                        *)

ProcessFrame == /\ host = "idle" /\ ~faulted
                /\ host' = "frame"
                /\ goal' = frameCount
                /\ UNCHANGED <<vars, ppuVars, nmiVars, generateNmi, irqActive,
                               interruptDisable>>

\* GameEngine's assemblyStep: one Nes::Step.
StepAssembly == /\ host = "idle" /\ ~faulted
                /\ host' = "step"
                /\ UNCHANGED <<vars, ppuVars, nmiVars, generateNmi, irqActive,
                               interruptDisable, goal>>

ReturnStep == /\ host = "stepping" /\ CpuMayStep
              /\ host' = "idle"
              /\ UNCHANGED <<vars, ppuVars, nmiVars, generateNmi, irqActive,
                             interruptDisable, goal>>

GreaterMutant == frameCount > goal

\* The loop's condition, tested between two steps.
FrameReached == frameCount # goal

ReturnFrame == /\ host = "frame" /\ CpuMayStep /\ FrameReached
               /\ host' = "idle"
               /\ UNCHANGED <<vars, ppuVars, nmiVars, generateNmi, irqActive,
                              interruptDisable, goal>>

\* LoadMedia: a cartridge, then Nes::PowerCycle.  Pending interrupts stay.
NesPowerCycle == /\ host = "idle"
                 /\ PowerCycle
                 /\ line' = PRE_SCANLINE
                 /\ cycle' = 0
                 /\ frameCount' = 0
                 /\ verticalBlank' = FALSE
                 /\ blankWritten' = FALSE
                 /\ generateNmi' = FALSE
                 /\ interruptDisable' = TRUE
                 /\ UNCHANGED <<nmiActive, nmiAge, irqActive, hostVars>>

-----------------------------------------------------------------------------
(* Nes::Step, first part: Cpu::Step and the APU's steps.                   *)

\* Cpu::Step is called: by the loop of processFrame, or once.
CpuCalled == /\ \/ host = "frame" /\ ~FrameReached
                \/ host = "step"
             /\ host' = IF host = "step" THEN "stepping" ELSE host
             /\ UNCHANGED <<goal, ppuVars>>

\* The APU's frame counter may raise the IRQ in any of the CPU's cycles.
ApuSteps(irq) == irqActive' \in IF ppuSteps' > 0 THEN {irq, TRUE} ELSE {irq}

DmaStalls == /\ CpuCalled /\ Stall
             /\ ApuSteps(irqActive)
             /\ UNCHANGED <<nmiVars, generateNmi, interruptDisable>>

ForgetNmiMutant == /\ nmiActive' = nmiActive
                   /\ nmiAge' = nmiAge

AcknowledgeNmi == /\ nmiActive' = FALSE
                  /\ nmiAge' = 0

HandleNmiEvent == /\ CpuCalled /\ nmiActive
                  /\ Execute /\ ppuSteps' = 3 * InterruptCycles
                  /\ AcknowledgeNmi
                  /\ interruptDisable' = TRUE
                  /\ ApuSteps(irqActive)
                  /\ UNCHANGED <<statusVars, generateNmi>>

\* With I set the request is dropped, and takes as long.
HandleIrqEvent == /\ CpuCalled /\ ~nmiActive /\ irqActive
                  /\ Execute /\ ppuSteps' = 3 * InterruptCycles
                  /\ interruptDisable' = TRUE
                  /\ ApuSteps(FALSE)
                  /\ UNCHANGED <<nmiVars, generateNmi>>

\* No interrupt: Cpu::Step decodes and executes.
CpuDecodes == /\ CpuCalled /\ ~nmiActive /\ ~irqActive
              /\ UNCHANGED <<nmiActive, nmiAge>>

\* What cannot be decoded is skipped, in no time.
Undecodable == /\ CpuDecodes /\ Execute
               /\ ppuSteps' = 0 /\ mem' = mem
               /\ UNCHANGED <<statusVars, generateNmi, interruptDisable>>
               /\ ApuSteps(FALSE)

\* BRK enters its handler, in no time.
Break == /\ CpuDecodes /\ Execute
         /\ ppuSteps' = 0
         /\ interruptDisable' = TRUE
         /\ UNCHANGED <<statusVars, generateNmi>>
         /\ ApuSteps(FALSE)

\* Any other instruction; CLI, SEI, PLP and RTI change I.
Instruction == /\ CpuDecodes /\ Execute
               /\ ppuSteps' > 0
               /\ interruptDisable' \in BOOLEAN
               /\ UNCHANGED <<statusVars, generateNmi>>
               /\ ApuSteps(FALSE)

\* A read of PPUSTATUS clears the flag it returns.
ReadPpuStatus == /\ CpuDecodes /\ Execute
                 /\ ppuSteps' > 0 /\ mem' = mem
                 /\ verticalBlank' = FALSE
                 /\ UNCHANGED <<blankWritten, generateNmi, interruptDisable>>
                 /\ ApuSteps(FALSE)

\* Nothing keeps a program from writing it.
WritePpuStatus == /\ CpuDecodes /\ Execute
                  /\ ppuSteps' \in {3 * c : c \in StoreCycles} /\ mem' = mem
                  /\ verticalBlank' \in BOOLEAN
                  /\ blankWritten' = TRUE
                  /\ UNCHANGED <<generateNmi, interruptDisable>>
                  /\ ApuSteps(FALSE)

WritePpuCtrl == /\ CpuDecodes /\ Execute
                /\ ppuSteps' \in {3 * c : c \in StoreCycles} /\ mem' = mem
                /\ generateNmi' \in BOOLEAN
                /\ UNCHANGED <<statusVars, interruptDisable>>
                /\ ApuSteps(FALSE)

WriteOam == /\ CpuDecodes
            /\ WriteOamAddr \/ WriteOamData \/ WriteDma
            /\ UNCHANGED <<statusVars, generateNmi, interruptDisable>>
            /\ ApuSteps(FALSE)

\* The exception leaves Nes::Step at once.
AccessFails == /\ CpuDecodes /\ CpuFaults
               /\ UNCHANGED <<statusVars, generateNmi, irqActive, interruptDisable>>

-----------------------------------------------------------------------------
(* Nes::Step, second part: Ppu::Step and the DMA.                          *)

ShortLineMutant == /\ cycle' = IF cycle < LastCycle - 1 THEN cycle + 1 ELSE 0
                   /\ line' = CASE cycle < LastCycle - 1 -> line
                                [] cycle >= LastCycle - 1 /\ line < LastLine -> line + 1
                                [] OTHER -> PRE_SCANLINE

\* Ppu::calcNextPosition.
NextPosition == /\ cycle' = IF cycle < LastCycle THEN cycle + 1 ELSE 0
                /\ line' = CASE cycle < LastCycle -> line
                             [] cycle = LastCycle /\ line < LastLine -> line + 1
                             [] OTHER -> PRE_SCANLINE

FrameStarts == line = PRE_SCANLINE /\ cycle = START_VISIBLE_CYCLE
BlankStarts == line = VBlankLine /\ cycle = START_VISIBLE_CYCLE

KeepBlankMutant == verticalBlank \/ BlankStarts

\* VERTICALBLANK after the special cases of Ppu::Step.
BlankAfter == (verticalBlank \/ BlankStarts) /\ ~FrameStarts

LevelNmiMutant == verticalBlank /\ generateNmi

\* The NMI is an edge: the start of the blank, if PPUCTRL asks for it.
NmiEdge == BlankStarts /\ generateNmi

CountNmi == /\ nmiActive' = (nmiActive \/ NmiEdge)
            /\ nmiAge' = CASE NmiEdge -> 0
                           [] ~NmiEdge /\ nmiActive /\ nmiAge < AgeCap -> nmiAge + 1
                           [] OTHER -> nmiAge

CountAtBlankMutant == frameCount' = IF BlankStarts THEN (frameCount + 1) % FrameWrap
                                                   ELSE frameCount

\* The frame is counted where the next one starts.
CountFrame == frameCount' = IF FrameStarts THEN (frameCount + 1) % FrameWrap ELSE frameCount

PpuRuns == /\ NextPosition /\ CountFrame /\ CountNmi
           /\ UNCHANGED <<generateNmi, irqActive, interruptDisable, hostVars>>

\* A transfer from the registers' page may read PPUSTATUS.
Dot == /\ PpuRuns
       /\ \/ /\ PpuStep
             /\ verticalBlank' = BlankAfter
          \/ /\ DmaReads /\ <<page, offset>> \in Volatile
             /\ verticalBlank' = FALSE
       /\ blankWritten' = (blankWritten /\ ~FrameStarts)

CpuSteps == \/ DmaStalls \/ HandleNmiEvent \/ HandleIrqEvent
            \/ Break \/ Undecodable \/ Instruction \/ AccessFails
            \/ ReadPpuStatus \/ WritePpuStatus \/ WritePpuCtrl \/ WriteOam

\* An exception has ended the program.
ProgramEnded == faulted /\ UNCHANGED nesVars

NesNext == \/ ProcessFrame \/ ReturnFrame \/ StepAssembly \/ ReturnStep \/ NesPowerCycle
           \/ CpuSteps \/ Dot \/ ProgramEnded

\* The loops of processFrame and Nes::Step are plain code: none of them waits.
HostFairness == WF_nesVars(ReturnFrame) /\ WF_nesVars(CpuSteps) /\ WF_nesVars(Dot)

\* Assumed of the program in the cartridge: it does not run for ever on
\* instructions that take no time.  (Break and Undecodable do.)
ProgramFairness == WF_nesVars(CpuSteps /\ ppuSteps' > 0)

NesSpec == NesInit /\ [][NesNext]_nesVars /\ HostFairness /\ ProgramFairness

-----------------------------------------------------------------------------
(* Properties                                                              *)

\* The DMA's parity, which counts PPU cycles, and the PPU's position, which
\* counts dots and lines, never drift apart: no frame is a dot short, and a
\* power cycle restarts both.  (Ppu.cpp:345-362, 425-432, Dma.cpp:172, 207)
ParityIsPositional == oddCycle <=> ((line + 1) * (LastCycle + 1) + cycle) % 2 = 1

\* The flag the program polls is only ever up between the second dot of the
\* blank and that of the pre-render line, unless the program itself has put it
\* up in this picture.  (Ppu.cpp:370-388, PpuRegisters.cpp:35-44)
BlankOnlyInBlank ==
  verticalBlank => \/ blankWritten
                   \/ line = VBlankLine /\ cycle > START_VISIBLE_CYCLE
                   \/ line > VBlankLine
                   \/ line = PRE_SCANLINE /\ cycle <= START_VISIBLE_CYCLE

\* An NMI waits for the running instruction, or for a running transfer, never
\* for both one after the other and never for a program.  (Cpu.cpp:49-62,
\* Nes.cpp:186-207)
NmiLatency == nmiActive => nmiAge <= LatencyBound

\* No NMI is lost in an older one: whatever transfer or power cycle there was,
\* the flag is down again before the PPU raises it.  (Cpu.cpp:57-62,
\* Ppu.cpp:384-387)
NmiNotMerged == NmiEdge => ~nmiActive

\* A call of processFrame that is about to return has advanced the picture by
\* one frame and drawn nothing of the next.  (Nes.cpp:67-76)
OneWholeFrame ==
  host = "frame" /\ CpuMayStep /\ FrameReached =>
    frameCount = (goal + 1) % FrameWrap /\ line = PRE_SCANLINE

\* processFrame returns, or the program has ended.  (Nes.cpp:69-76)
FrameEnds == host = "frame" ~> (host # "frame" \/ faulted)
=============================================================================
