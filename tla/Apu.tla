-------------------------------- MODULE Apu --------------------------------
(***************************************************************************)
(* The APU's frame counter and what it clocks (NES/APU): the length        *)
(* counters of the four channels, the envelopes, the sweeps, the           *)
(* triangle's linear counter and the frame IRQ, while the program writes   *)
(* the registers between any two steps.                                    *)
(*                                                                         *)
(* Where a channel stands in its wave (the sequencers that ApuClock clocks,*)
(* the duty cycle, the noise's random number) and whether its volume is    *)
(* constant reach the mixer only, and are left out with it; the triangle's *)
(* halt flag, which the counters set, is kept.                             *)
(***************************************************************************)
EXTENDS Integers

CONSTANTS FramePeriod,      \* APU cycles in a tick of the frame counter: 7457
          SeqWrap,          \* frameCounterSeqNum is a byte: 256
          Top,              \* where an envelope begins: 15
          \* What the program writes.
          Lengths,          \* of LENGTH_COUNTER_LOOKUP
          Volumes, Sweeps, PeriodsLow, PeriodsHigh, Linears, Enables

Squares == {1, 2}
DWord == 65536
Unset == -1

Volume == [halt : BOOLEAN, volume : 0 .. 15]
Sweep == [enabled : BOOLEAN, period : 0 .. 7, negative : BOOLEAN, shift : 0 .. 7]
Linear == [count : 0 .. 127, halt : BOOLEAN]
Enable == [square : [Squares -> BOOLEAN], triangle : BOOLEAN, noise : BOOLEAN]

ASSUME ApuAssumption ==
  /\ FramePeriod \in Nat \ {0} /\ Top \in Nat
  /\ SeqWrap \in Nat /\ SeqWrap % 20 = 16
  /\ Lengths \subseteq 1 .. 254
  /\ Volumes \subseteq Volume /\ Sweeps \subseteq Sweep /\ Linears \subseteq Linear
  /\ PeriodsLow \subseteq 0 .. 255 /\ PeriodsHigh \subseteq 0 .. 7
  /\ Enables \subseteq Enable

VARIABLES square, triangle, noise,
          is4StepMode, irqInhibit,
          frameCounterSeqNum,
          resetFrameCounter,
          phase,            \* totalApuCycles, modulo FramePeriod
          irqActive         \* of Dma

channels == <<square, triangle, noise>>
counter == <<is4StepMode, irqInhibit, frameCounterSeqNum, resetFrameCounter, phase>>

\* History, read by no action.  note: of each channel the length last loaded and
\* the half frames it has counted since.  elapsed: the quarter frames since an
\* envelope began.  sinceHalf, sinceQuarter: ticks since the last half frame and
\* quarter frame, and sinceIrq, since the last IRQ or write of $4017.
VARIABLES note, elapsed, sinceHalf, sinceQuarter, sinceIrq

rhythm == <<sinceHalf, sinceQuarter, sinceIrq>>
history == <<note, elapsed, rhythm>>
vars == <<channels, counter, irqActive, history>>

-----------------------------------------------------------------------------
(***************************************************************************)
(* Sequencer.  One that has no period counts down for ever; Unset stands   *)
(* for every such count.                                                   *)
(***************************************************************************)
NewSequencer == [counter |-> Unset, period |-> Unset, halt |-> FALSE]

Expires(s) == ~s.halt /\ s.counter <= 0 /\ s.period >= 0

ClockHaltedMutant(s) == IF Expires(s) \/ s.counter = Unset THEN s
                        ELSE [s EXCEPT !.counter = @ - 1]

Clock(s) == IF s.halt \/ Expires(s) \/ s.counter = Unset THEN s
            ELSE [s EXCEPT !.counter = @ - 1]

ResetCounterToPeriod(s) == [s EXCEPT !.counter = s.period]

ClockLooping(s) == IF Expires(s) THEN ResetCounterToPeriod(s) ELSE Clock(s)

\* SetPeriod, with and without a reset of the counter.
Load(s, n) == [s EXCEPT !.counter = n, !.period = n]
SetPeriod(s, n) == [s EXCEPT !.period = n]

-----------------------------------------------------------------------------
(***************************************************************************)
(* VolumeEnvelope.  isLooping begins as anything; it is read only once there*)
(* is a period, which comes with it.                                       *)
(***************************************************************************)
NewEnvelope == [seq |-> NewSequencer, decay |-> Top,
                reset |-> FALSE, looping |-> FALSE]

Decayed(e) == IF e.decay > 0 THEN e.decay - 1 ELSE IF e.looping THEN Top ELSE e.decay

KeepCountMutant(e) ==
  IF e.reset
  THEN [e EXCEPT !.decay = Top, !.reset = FALSE]
  ELSE [e EXCEPT !.seq = ClockLooping(@),
                 !.decay = IF Expires(e.seq) THEN Decayed(e) ELSE @]

EnvelopeClock(e) ==
  IF e.reset
  THEN [e EXCEPT !.decay = Top, !.seq = ResetCounterToPeriod(@), !.reset = FALSE]
  ELSE [e EXCEPT !.seq = ClockLooping(@),
                 !.decay = IF Expires(e.seq) THEN Decayed(e) ELSE @]

ResetEnvelope(e) == [e EXCEPT !.reset = TRUE]

SetVolume(e, v) == [e EXCEPT !.seq = SetPeriod(@, v.volume), !.looping = v.halt, !.reset = TRUE]

-----------------------------------------------------------------------------
(***************************************************************************)
(* SquareWave.  A period is 16 bits wide.                                  *)
(***************************************************************************)
NewSquare == [enabled |-> FALSE, length |-> NewSequencer, volume |-> NewEnvelope,
              period |-> Unset,
              sweep |-> [seq |-> NewSequencer, reset |-> FALSE, enabled |-> FALSE,
                         negative |-> FALSE, shift |-> 0]]

CalTargetPeriod(n, q) ==
  LET period == q.period % DWord
      change == period \div 2 ^ q.sweep.shift
  IN (CASE ~q.sweep.negative -> period + change
        [] n = 1 -> period - (change - 1)
        [] OTHER -> period - change) % DWord

SweepClock(n, q) ==
  IF q.sweep.reset
  THEN [q EXCEPT !.sweep.seq = ResetCounterToPeriod(@), !.sweep.reset = FALSE]
  ELSE [q EXCEPT !.sweep.seq = ClockLooping(@),
                 !.period = IF Expires(q.sweep.seq) /\ q.sweep.enabled
                            THEN CalTargetPeriod(n, q) ELSE @]

LowWritten(p, low) == ((p % DWord) \div 256) * 256 + low
HighWritten(p, high) == high * 256 + ((p % DWord) % 256)

-----------------------------------------------------------------------------
(***************************************************************************)
(* TriangleWave.  halt is that of triSeq: the wave stands still.           *)
(***************************************************************************)
NewTriangle == [enabled |-> FALSE, length |-> NewSequencer, linear |-> NewSequencer,
                linearReset |-> FALSE, period |-> Unset, halt |-> FALSE]

WatchdogClock(t) ==
  IF t.enabled THEN [t EXCEPT !.length = Clock(@), !.halt = @ \/ Expires(t.length)] ELSE t

LinearCounterClock(t) ==
  IF t.linearReset
  THEN [t EXCEPT !.linear = ResetCounterToPeriod(@), !.linearReset = t.linear.halt]
  ELSE [t EXCEPT !.linear = Clock(@), !.halt = @ \/ Expires(t.linear)]

SetTrianglePeriod(t, p) == [t EXCEPT !.period = p, !.halt = @ \/ p < 2]

\* Anything that gives the triangle time to sound sets it going again.
Resume(t) == [t EXCEPT !.halt = @ /\ t.period < 2]

SetLinearCounter(t, l) ==
  LET counted == [t EXCEPT !.linear = SetPeriod(@, l.count)]
      going   == IF l.count > 0 THEN Resume(counted) ELSE counted
  IN [going EXCEPT !.length.halt = l.halt, !.linear.halt = l.halt]

-----------------------------------------------------------------------------
NewNoise == [enabled |-> FALSE, length |-> NewSequencer, volume |-> NewEnvelope]

NoNote == [length |-> 0, halves |-> 0]

\* The first power cycle has set the squares' lengths.
Init ==
  /\ square = [n \in Squares |-> [NewSquare EXCEPT !.length = Load(@, 0)]]
  /\ triangle = NewTriangle /\ noise = NewNoise
  /\ is4StepMode = FALSE /\ irqInhibit = FALSE
  /\ frameCounterSeqNum = 0 /\ resetFrameCounter = FALSE /\ phase = 0
  /\ irqActive = FALSE
  /\ note = [square |-> [n \in Squares |-> NoNote], triangle |-> NoNote, noise |-> NoNote]
  /\ elapsed = [square |-> [n \in Squares |-> 0], noise |-> 0]
  /\ sinceHalf = 0 /\ sinceQuarter = 0 /\ sinceIrq = 0

-----------------------------------------------------------------------------
(***************************************************************************)
(* Apu::Step.                                                              *)
(***************************************************************************)
Tick == phase = 0

QuarterDue == Tick /\ (is4StepMode \/ frameCounterSeqNum % 5 # 3)

HalfDue == Tick /\ IF is4StepMode THEN frameCounterSeqNum % 4 \in {1, 3}
                   ELSE frameCounterSeqNum % 5 \in {1, 4}

IrqDue == Tick /\ is4StepMode /\ frameCounterSeqNum % 4 = 3 /\ ~irqInhibit

\* ClockWatchdogs clocks the first square wave twice, and the second not at all;
\* ClockFreqSweeps always follows.
HalfSquare(n, q) ==
  SweepClock(n, [q EXCEPT !.length = IF n = 1 THEN Clock(Clock(@)) ELSE @])
HalfNoise(w) == [w EXCEPT !.length = Clock(@)]

QuarterSquare(q) == [q EXCEPT !.volume = EnvelopeClock(@)]
QuarterNoise(w) == [w EXCEPT !.volume = EnvelopeClock(@)]

\* The half frame that a write of $4017 has asked for comes first, then the
\* quarter frame, then the half frame.
StepSquare(n, q) ==
  LET early   == IF resetFrameCounter THEN HalfSquare(n, q) ELSE q
      quarter == IF QuarterDue THEN QuarterSquare(early) ELSE early
  IN IF HalfDue THEN HalfSquare(n, quarter) ELSE quarter

StepTriangle(t) ==
  LET early   == IF resetFrameCounter THEN WatchdogClock(t) ELSE t
      quarter == IF QuarterDue THEN LinearCounterClock(early) ELSE early
  IN IF HalfDue THEN WatchdogClock(quarter) ELSE quarter

StepNoise(w) ==
  LET early   == IF resetFrameCounter THEN HalfNoise(w) ELSE w
      quarter == IF QuarterDue THEN QuarterNoise(early) ELSE early
  IN IF HalfDue THEN HalfNoise(quarter) ELSE quarter

CarrySequenceMutant == frameCounterSeqNum' = IF Tick THEN (frameCounterSeqNum + 1) % 4
                                             ELSE frameCounterSeqNum

\* A byte.
CountTick == frameCounterSeqNum' = IF Tick THEN (frameCounterSeqNum + 1) % SeqWrap
                                   ELSE frameCounterSeqNum

\* History of a step.
HalfFrames == (IF resetFrameCounter THEN 1 ELSE 0) + (IF HalfDue THEN 1 ELSE 0)

Aged(n, counts) ==
  IF ~counts THEN n
  ELSE [n EXCEPT !.halves = IF @ + HalfFrames < n.length THEN @ + HalfFrames ELSE n.length]

Longer(e, x) ==
  LET delay == e.seq.period + 1
  IN CASE ~QuarterDue -> x
       [] QuarterDue /\ (e.reset \/ e.seq.period = Unset) -> 0
       [] QuarterDue /\ ~e.reset /\ e.seq.period # Unset ->
            IF e.looping THEN (x + 1) % ((Top + 1) * delay)
            ELSE IF x < Top * delay THEN x + 1 ELSE x

CountStep ==
  /\ note' = [square |-> [n \in Squares |->
                            Aged(note.square[n], ~square[n].length.halt)],
              triangle |-> Aged(note.triangle, triangle.enabled /\ ~triangle.length.halt),
              noise |-> Aged(note.noise, ~noise.length.halt)]
  /\ elapsed' = [square |-> [n \in Squares |->
                               Longer(square[n].volume, elapsed.square[n])],
                 noise |-> Longer(noise.volume, elapsed.noise)]
  /\ sinceHalf' = IF HalfDue THEN 0
                  ELSE (IF resetFrameCounter THEN 0 ELSE sinceHalf) + (IF Tick THEN 1 ELSE 0)
  /\ sinceQuarter' = IF QuarterDue THEN 0 ELSE sinceQuarter + (IF Tick THEN 1 ELSE 0)
  /\ sinceIrq' = IF IrqDue THEN 0 ELSE IF Tick /\ sinceIrq < 4 THEN sinceIrq + 1 ELSE sinceIrq

Step ==
  /\ square' = [n \in Squares |-> StepSquare(n, square[n])]
  /\ triangle' = StepTriangle(triangle)
  /\ noise' = StepNoise(noise)
  /\ resetFrameCounter' = FALSE
  /\ CountTick
  /\ phase' = (phase + 1) % FramePeriod
  /\ irqActive' = (irqActive \/ IrqDue)
  /\ UNCHANGED <<is4StepMode, irqInhibit>>
  /\ CountStep

-----------------------------------------------------------------------------
(***************************************************************************)
(* ApuMemoryMap::Write.                                                    *)
(***************************************************************************)
WriteSquare(n, q) ==
  /\ square' = [square EXCEPT ![n] = q]
  /\ UNCHANGED <<triangle, noise, counter, irqActive, elapsed, rhythm>>

NewNote(field, length) == note' = [note EXCEPT ![field] = [length |-> length, halves |-> 0]]
SquareNote(n, length) ==
  note' = [note EXCEPT !.square[n] = [length |-> length, halves |-> 0]]

WriteSquareVolume(n, v) ==
  /\ WriteSquare(n, [square[n] EXCEPT !.length.halt = v.halt, !.volume = SetVolume(@, v)])
  /\ UNCHANGED note

WriteSquareSweep(n, s) ==
  /\ WriteSquare(n, [square[n] EXCEPT !.sweep =
                       [seq |-> SetPeriod(@.seq, s.period), reset |-> TRUE,
                        enabled |-> s.enabled, negative |-> s.negative, shift |-> s.shift]])
  /\ UNCHANGED note

WriteSquareLow(n, low) ==
  /\ WriteSquare(n, [square[n] EXCEPT !.period = LowWritten(@, low)])
  /\ UNCHANGED note

WriteSquareHigh(n, high, length) ==
  /\ WriteSquare(n, [square[n] EXCEPT !.period = HighWritten(@, high),
                                      !.volume = ResetEnvelope(@),
                                      !.length = Load(@, length)])
  /\ SquareNote(n, length)

WriteTriangle(t) ==
  /\ triangle' = t
  /\ UNCHANGED <<square, noise, counter, irqActive, elapsed, rhythm>>

WriteTriangleLinear(l) == WriteTriangle(SetLinearCounter(triangle, l)) /\ UNCHANGED note

WriteTriangleLow(low) ==
  /\ WriteTriangle(SetTrianglePeriod(triangle, LowWritten(triangle.period, low)))
  /\ UNCHANGED note

WriteTriangleHigh(high, length) ==
  LET tuned == SetTrianglePeriod(triangle, HighWritten(triangle.period, high))
  IN /\ WriteTriangle(Resume([tuned EXCEPT !.length = Load(@, length),
                                           !.linearReset = TRUE]))
     /\ NewNote("triangle", length)

WriteNoise(w) ==
  /\ noise' = w
  /\ UNCHANGED <<square, triangle, counter, irqActive, elapsed, rhythm>>

WriteNoiseVolume(v) ==
  /\ WriteNoise([noise EXCEPT !.length.halt = v.halt, !.volume = SetVolume(@, v)])
  /\ UNCHANGED note

WriteNoiseLength(length) ==
  /\ WriteNoise([noise EXCEPT !.length = Load(@, length), !.volume = ResetEnvelope(@)])
  /\ NewNote("noise", length)

\* $4015.  A channel that is switched off loses its note; the noise channel
\* loses it when it is switched on.
SilencedIf(off, s) == IF off THEN Load(s, 0) ELSE s
ForgottenIf(off, n) == IF off THEN NoNote ELSE n

WriteChannels(e) ==
  /\ square' = [n \in Squares |->
                  [square[n] EXCEPT !.enabled = e.square[n],
                                    !.length = SilencedIf(~e.square[n], @)]]
  /\ triangle' = [triangle EXCEPT !.enabled = e.triangle,
                                  !.length = SilencedIf(~e.triangle, @)]
  /\ noise' = [noise EXCEPT !.enabled = e.noise, !.length = SilencedIf(e.noise, @)]
  /\ UNCHANGED <<counter, irqActive, elapsed, rhythm>>
  /\ note' = [square |-> [n \in Squares |-> ForgottenIf(~e.square[n], note.square[n])],
              triangle |-> ForgottenIf(~e.triangle, note.triangle),
              noise |-> ForgottenIf(e.noise, note.noise)]

KeepSequenceMutant(mode, inhibit) ==
  /\ is4StepMode' = mode /\ irqInhibit' = inhibit
  /\ resetFrameCounter' = TRUE
  /\ UNCHANGED <<channels, frameCounterSeqNum, phase, irqActive>>
  /\ sinceIrq' = 0
  /\ UNCHANGED <<note, elapsed, sinceHalf, sinceQuarter>>

\* $4017.
WriteFrameCounter(mode, inhibit) ==
  /\ is4StepMode' = mode /\ irqInhibit' = inhibit
  /\ frameCounterSeqNum' = 0 /\ resetFrameCounter' = TRUE
  /\ UNCHANGED <<channels, phase, irqActive>>
  /\ sinceIrq' = 0
  /\ UNCHANGED <<note, elapsed, sinceHalf, sinceQuarter>>

\* Dma::Read of $4015.
ReadChannels ==
  /\ irqInhibit' = TRUE
  /\ UNCHANGED <<channels, is4StepMode, frameCounterSeqNum, resetFrameCounter, phase,
                 irqActive, history>>

\* Cpu::Step.
AcknowledgeIrq == irqActive /\ irqActive' = FALSE /\ UNCHANGED <<channels, counter, history>>

\* The registers and the squares' lengths; the rest is as it was.
PowerCycle ==
  /\ square' = [n \in Squares |-> [square[n] EXCEPT !.length = Load(@, 0)]]
  /\ is4StepMode' = FALSE /\ irqInhibit' = FALSE /\ frameCounterSeqNum' = 0
  /\ UNCHANGED <<triangle, noise, resetFrameCounter, phase, irqActive, elapsed>>
  /\ note' = [note EXCEPT !.square = [n \in Squares |-> NoNote]]
  /\ sinceHalf' = 0 /\ sinceQuarter' = 0 /\ sinceIrq' = 0

SquareWrites ==
  \E n \in Squares :
    \/ \E v \in Volumes : WriteSquareVolume(n, v)
    \/ \E s \in Sweeps : WriteSquareSweep(n, s)
    \/ \E low \in PeriodsLow : WriteSquareLow(n, low)
    \/ \E high \in PeriodsHigh, length \in Lengths : WriteSquareHigh(n, high, length)

TriangleWrites ==
  \/ \E l \in Linears : WriteTriangleLinear(l)
  \/ \E low \in PeriodsLow : WriteTriangleLow(low)
  \/ \E high \in PeriodsHigh, length \in Lengths : WriteTriangleHigh(high, length)

NoiseWrites ==
  \/ \E v \in Volumes : WriteNoiseVolume(v)
  \/ \E length \in Lengths : WriteNoiseLength(length)

ProgramStep ==
  \/ SquareWrites \/ TriangleWrites \/ NoiseWrites
  \/ \E e \in Enables : WriteChannels(e)
  \/ \E mode, inhibit \in BOOLEAN : WriteFrameCounter(mode, inhibit)
  \/ ReadChannels

Next == Step \/ ProgramStep \/ AcknowledgeIrq \/ PowerCycle

Spec == Init /\ [][Next]_vars

-----------------------------------------------------------------------------
Sequencer == [counter : Unset .. 254, period : Unset .. 254, halt : BOOLEAN]
Envelope == [seq : Sequencer, decay : 0 .. Top, reset : BOOLEAN, looping : BOOLEAN]
SweepUnit == [seq : Sequencer, reset : BOOLEAN, enabled : BOOLEAN, negative : BOOLEAN,
              shift : 0 .. 7]
Square == [enabled : BOOLEAN, length : Sequencer, volume : Envelope,
           period : Unset .. DWord - 1, sweep : SweepUnit]
Triangle == [enabled : BOOLEAN, length : Sequencer, linear : Sequencer,
             linearReset : BOOLEAN, period : Unset .. DWord - 1, halt : BOOLEAN]
Noise == [enabled : BOOLEAN, length : Sequencer, volume : Envelope]
Note == [length : 0 .. 254, halves : 0 .. 254]

ChannelTypes == square \in [Squares -> Square] /\ triangle \in Triangle /\ noise \in Noise

CounterTypes ==
  /\ is4StepMode \in BOOLEAN /\ irqInhibit \in BOOLEAN
  /\ frameCounterSeqNum \in 0 .. SeqWrap - 1
  /\ resetFrameCounter \in BOOLEAN /\ phase \in 0 .. FramePeriod - 1
  /\ irqActive \in BOOLEAN

HistoryTypes ==
  /\ note \in [square : [Squares -> Note], triangle : Note, noise : Note]
  /\ elapsed \in [square : [Squares -> Nat], noise : Nat]
  /\ sinceHalf \in Nat /\ sinceQuarter \in Nat /\ sinceIrq \in 0 .. 4

TypeOK == ChannelTypes /\ CounterTypes /\ HistoryTypes

(***************************************************************************)
(* Whatever is written and halted meanwhile, a note of the triangle and of *)
(* the noise is as many half frames shorter as have gone by, and one of the*)
(* first square wave twice as many; the second square wave's stays.        *)
(***************************************************************************)
Left(n, rate) == IF n.length > rate * n.halves THEN n.length - rate * n.halves ELSE 0

LengthsAsClocked ==
  /\ square[1].length.counter = Left(note.square[1], 2)
  /\ square[2].length.counter = Left(note.square[2], 0)
  /\ note.triangle # NoNote => triangle.length.counter = Left(note.triangle, 1)
  /\ note.noise # NoNote => noise.length.counter = Left(note.noise, 1)

(***************************************************************************)
(* An envelope falls from the top by one every period + 1 quarter frames   *)
(* since it began, and stays at 0 or, looping, begins again.               *)
(***************************************************************************)
FallsAsElapsed(e, x) ==
  ~e.reset => e.decay = IF e.seq.period = Unset THEN Top ELSE Top - x \div (e.seq.period + 1)

EnvelopeAsElapsed ==
  /\ \A n \in Squares : FallsAsElapsed(square[n].volume, elapsed.square[n])
  /\ FallsAsElapsed(noise.volume, elapsed.noise)

(***************************************************************************)
(* However often $4017 is written, and where the byte that counts the ticks*)
(* wraps as well, two ticks never go by without a quarter frame, nor, with *)
(* four steps, without a half frame; with five steps, three never do.      *)
(***************************************************************************)
FrameRhythm ==
  /\ sinceQuarter <= 1
  /\ ~resetFrameCounter => sinceHalf <= IF is4StepMode THEN 1 ELSE 2

(***************************************************************************)
(* The frame IRQ is due in every fourth tick after the write of $4017 that *)
(* has asked for it, until the program reads $4015.                        *)
(***************************************************************************)
IrqEveryFourthTick ==
  Tick /\ is4StepMode /\ ~irqInhibit => (IrqDue <=> sinceIrq = 3)

(***************************************************************************)
(* What ApuRegisters.h:70 says of a length counter, "Counts down to zero": *)
(* that of a square wave does so within as many half frames.               *)
(***************************************************************************)
SquareFallsSilent ==
  \A n \in Squares : note.square[n].halves = note.square[n].length
                      => square[n].length.counter = 0
=============================================================================
