----------------------------- MODULE Apu_proofs -----------------------------
(***************************************************************************)
(* Proofs about Apu, for every period, every length and volume the program *)
(* can write, and every order of its writes and of the steps: the length   *)
(* counters, the envelopes, the frame counter's rhythm and its IRQ.        *)
(*                                                                         *)
(* The invariant says of each part what it is a function of.  A length     *)
(* counter is that of the note and the half frames it has counted; a       *)
(* decaying envelope tells the quarter frames since it began from its decay*)
(* and its counter together; and the ticks since the last half frame,      *)
(* quarter frame and IRQ are told by the sequence number.                  *)
(***************************************************************************)
EXTENDS Apu, TLAPS

\* A length counter that runs down from a note, one or more per half frame.
Runs(s, n, rate) == s.period >= 0 /\ s.counter = Left(n, rate)

\* What an envelope tells of the quarter frames since it began.  One that does
\* not loop and has run out has forgotten them, and elapsed stays.
Envelops(e, x) ==
  LET delay == e.seq.period + 1
  IN /\ ~e.seq.halt
     /\ ~e.reset /\ e.seq.period = Unset => e.decay = Top
     /\ ~e.reset /\ e.seq.period # Unset =>
          /\ e.seq.counter \in 0 .. e.seq.period
          /\ x = IF e.looping \/ e.decay > 0
                 THEN (Top - e.decay) * delay + (e.seq.period - e.seq.counter)
                 ELSE Top * delay

SquareInv(n, q, m, x) ==
  /\ q \in Square /\ m \in Note /\ m.halves <= m.length
  /\ Runs(q.length, m, IF n = 1 THEN 2 ELSE 0)
  /\ x \in Nat /\ Envelops(q.volume, x)

TriangleInv(t, m) ==
  /\ t \in Triangle /\ m \in Note /\ m.halves <= m.length
  /\ m # NoNote => Runs(t.length, m, 1)

NoiseInv(w, m, x) ==
  /\ w \in Noise /\ m \in Note /\ m.halves <= m.length
  /\ m # NoNote => Runs(w.length, m, 1)
  /\ x \in Nat /\ Envelops(w.volume, x)

\* How many ticks the sequence number allows since the last half frame.
SinceHalfFour(s) == IF s % 4 \in {1, 3} THEN 1 ELSE 0
SinceHalfFive(s) == CASE s = 0 -> 1
                      [] s = 1 -> 2
                      [] s > 1 -> CASE s % 5 \in {0, 2} -> 0
                                    [] s % 5 \in {1, 3} -> 1
                                    [] s % 5 = 4 -> 2

Rhythm ==
  /\ resetFrameCounter => frameCounterSeqNum = 0
  /\ ~resetFrameCounter =>
       sinceHalf <= IF is4StepMode THEN SinceHalfFour(frameCounterSeqNum)
                    ELSE SinceHalfFive(frameCounterSeqNum)
  /\ sinceQuarter <= 1
  /\ sinceQuarter = 1 => \/ frameCounterSeqNum = 0
                         \/ ~is4StepMode /\ frameCounterSeqNum % 5 = 4

IrqCounted == is4StepMode /\ ~irqInhibit => sinceIrq = frameCounterSeqNum % 4

TickInv == CounterTypes /\ Rhythm /\ IrqCounted
           /\ sinceHalf \in Nat /\ sinceQuarter \in Nat /\ sinceIrq \in 0 .. 4

Records ==
  /\ square = [n \in Squares |-> square[n]]
  /\ note = [square |-> [n \in Squares |-> note.square[n]],
             triangle |-> note.triangle, noise |-> note.noise]
  /\ elapsed = [square |-> [n \in Squares |-> elapsed.square[n]], noise |-> elapsed.noise]

ApuInv ==
  /\ Records
  /\ \A n \in Squares : SquareInv(n, square[n], note.square[n], elapsed.square[n])
  /\ TriangleInv(triangle, note.triangle)
  /\ NoiseInv(noise, note.noise, elapsed.noise)
  /\ TickInv

-----------------------------------------------------------------------------
(***************************************************************************)
(* Arithmetic.                                                             *)
(***************************************************************************)
\* One count above, or at the bound.
LEMMA Modulo ==
  ASSUME NEW a \in Nat, NEW b \in Nat \ {0}
  PROVE  a % b \in 0 .. b - 1 /\ b % b = 0 /\ (a < b => a % b = a)
OBVIOUS

\* The next byte of the sequence, and what it tells by fours and by fives.
LEMMA NextInSequence ==
  ASSUME NEW s \in 0 .. SeqWrap - 1
  PROVE  /\ (s + 1) % SeqWrap = IF s + 1 = SeqWrap THEN 0 ELSE s + 1
         /\ s + 1 = SeqWrap => s % 5 = 0 /\ s % 4 = 3
         /\ s % 4 \in 0 .. 3 /\ (s + 1) % 4 = IF s % 4 = 3 THEN 0 ELSE (s % 4) + 1
         /\ s % 5 \in 0 .. 4 /\ (s + 1) % 5 = IF s % 5 = 4 THEN 0 ELSE (s % 5) + 1
<1>1. SeqWrap \in Nat /\ SeqWrap % 20 = 16
  BY ApuAssumption
<1>2. (s + 1) % SeqWrap = IF s + 1 = SeqWrap THEN 0 ELSE s + 1
  BY <1>1
<1>3. s + 1 = SeqWrap => s % 5 = 0 /\ s % 4 = 3
  BY <1>1
<1>4. s % 4 \in 0 .. 3 /\ (s + 1) % 4 = IF s % 4 = 3 THEN 0 ELSE (s % 4) + 1
  OBVIOUS
<1>5. s % 5 \in 0 .. 4 /\ (s + 1) % 5 = IF s % 5 = 4 THEN 0 ELSE (s % 5) + 1
  OBVIOUS
<1> QED BY <1>2, <1>3, <1>4, <1>5

\* A full count of k delays, and the one that follows.
LEMMA Delays ==
  ASSUME NEW k \in Nat, NEW delay \in Nat \ {0}
  PROVE  /\ k * delay \in Nat
         /\ (k + 1) * delay = k * delay + delay
         /\ \A j \in 0 .. k : j * delay <= k * delay
         /\ \A r \in 0 .. delay - 1 : (k * delay + r) \div delay = k
OBVIOUS

LEMMA Halving == \A s \in 0 .. 7 : 2 ^ s \in Nat \ {0}
<1> SUFFICES ASSUME NEW s \in 0 .. 7 PROVE 2 ^ s \in Nat \ {0}
  OBVIOUS
<1>0. CASE s = 0
  BY <1>0
<1>1. CASE s = 1
  BY <1>1
<1>2. CASE s = 2
  BY <1>2
<1>3. CASE s = 3
  BY <1>3
<1>4. CASE s = 4
  BY <1>4
<1>5. CASE s = 5
  BY <1>5
<1>6. CASE s = 6
  BY <1>6
<1>7. CASE s = 7
  BY <1>7
<1> QED BY <1>0, <1>1, <1>2, <1>3, <1>4, <1>5, <1>6, <1>7

-----------------------------------------------------------------------------
(***************************************************************************)
(* Sequencers.                                                             *)
(***************************************************************************)
LEMMA SequencerTypes ==
  ASSUME NEW s \in Sequencer
  PROVE  /\ Clock(s) \in Sequencer /\ Clock(s).halt = s.halt
         /\ ClockLooping(s) \in Sequencer /\ ClockLooping(s).halt = s.halt
         /\ ResetCounterToPeriod(s) \in Sequencer /\ ResetCounterToPeriod(s).halt = s.halt
         /\ \A n \in 0 .. 254 : /\ Load(s, n) \in Sequencer /\ Load(s, n).halt = s.halt
                               /\ SetPeriod(s, n) \in Sequencer
                               /\ SetPeriod(s, n).halt = s.halt
         /\ \A b \in BOOLEAN : [s EXCEPT !.halt = b] \in Sequencer
<1> USE DEF Sequencer, Unset
<1>1. \A c \in Unset .. 254 : LET r == [s EXCEPT !.counter = c]
                             IN r \in Sequencer /\ r.halt = s.halt
  OBVIOUS
<1>2. Clock(s) \in Sequencer /\ Clock(s).halt = s.halt
  <2>1. CASE s.halt \/ Expires(s) \/ s.counter = Unset
    BY <2>1 DEF Clock
  <2>2. CASE ~(s.halt \/ Expires(s) \/ s.counter = Unset)
    <3>1. s.counter - 1 \in Unset .. 254
      BY <2>2
    <3>2. Clock(s) = [s EXCEPT !.counter = s.counter - 1]
      BY <2>2 DEF Clock
    <3> QED BY <3>1, <3>2, <1>1
  <2> QED BY <2>1, <2>2
<1>3. ResetCounterToPeriod(s) \in Sequencer /\ ResetCounterToPeriod(s).halt = s.halt
  BY <1>1 DEF ResetCounterToPeriod
<1>4. ClockLooping(s) \in Sequencer /\ ClockLooping(s).halt = s.halt
  BY <1>2, <1>3 DEF ClockLooping
<1>5. ASSUME NEW n \in 0 .. 254
      PROVE  /\ Load(s, n) \in Sequencer /\ Load(s, n).halt = s.halt
             /\ SetPeriod(s, n) \in Sequencer /\ SetPeriod(s, n).halt = s.halt
  <2>1. n \in Unset .. 254
    OBVIOUS
  <2> QED BY <2>1 DEF Load, SetPeriod
<1>6. \A b \in BOOLEAN : [s EXCEPT !.halt = b] \in Sequencer
  OBVIOUS
<1> QED BY <1>2, <1>3, <1>4, <1>5, <1>6

\* A length counter, k counts later.
Counted(s, k) ==
  [s EXCEPT !.counter = IF s.halt THEN @ ELSE IF @ > k THEN @ - k ELSE 0]

LEMMA CountsOneMore ==
  ASSUME NEW s \in Sequencer, s.period >= 0, s.counter >= 0, NEW k \in Nat
  PROVE  Clock(Counted(s, k)) = Counted(s, k + 1)
<1> DEFINE After(c) == [s EXCEPT !.counter = c]
<1>1. \A c : /\ After(c).halt = s.halt /\ After(c).period = s.period /\ After(c).counter = c
             /\ \A d : [After(c) EXCEPT !.counter = d] = After(d)
  BY DEF Sequencer
<1>2. s = After(s.counter)
  BY DEF Sequencer
<1>3. \A j \in Nat : Counted(s, j) = IF s.halt THEN s
                                   ELSE After(IF s.counter > j THEN s.counter - j ELSE 0)
  BY <1>2 DEF Counted, Sequencer
<1>4. s.counter \in Nat /\ s.halt \in BOOLEAN
  BY DEF Sequencer, Unset
<1> HIDE DEF After
<1>5. CASE s.halt
  BY <1>3, <1>5 DEF Clock
<1>6. CASE ~s.halt
  <2>1. \A c \in Nat : Clock(After(c)) = IF c = 0 THEN After(0) ELSE After(c - 1)
    <3> SUFFICES ASSUME NEW c \in Nat
                 PROVE  Clock(After(c)) = IF c = 0 THEN After(0) ELSE After(c - 1)
      OBVIOUS
    <3>1. Expires(After(c)) <=> c = 0
      BY <1>1, <1>6 DEF Expires
    <3>2. [After(c) EXCEPT !.counter = @ - 1] = After(c - 1)
      BY <1>1
    <3> QED BY <1>1, <1>6, <3>1, <3>2 DEF Clock, Unset
  <2>2. \A j \in Nat : Counted(s, j) = After(IF s.counter > j THEN s.counter - j ELSE 0)
    BY <1>3, <1>6
  <2>3. CASE s.counter > k
    BY <1>4, <2>1, <2>2, <2>3
  <2>4. CASE ~(s.counter > k)
    BY <1>4, <2>1, <2>2, <2>4
  <2> QED BY <2>3, <2>4
<1> QED BY <1>4, <1>5, <1>6

LEMMA CountsNone ==
  ASSUME NEW s \in Sequencer, s.counter >= 0
  PROVE  Counted(s, 0) = s
  BY DEF Sequencer, Counted, Unset

\* Two half frames in a step count as two, and none as none.
LEMMA CountsBySteps ==
  ASSUME NEW s \in Sequencer, s.period >= 0, s.counter >= 0
  PROVE  /\ Counted(s, 0) = s
         /\ Clock(s) = Counted(s, 1) /\ Clock(Clock(s)) = Counted(s, 2)
         /\ Clock(Clock(Clock(s))) = Counted(s, 3)
         /\ Clock(Clock(Clock(Clock(s)))) = Counted(s, 4)
  BY CountsNone, CountsOneMore, 0 + 1 = 1, 1 + 1 = 2, 2 + 1 = 3, 3 + 1 = 4

-----------------------------------------------------------------------------
(***************************************************************************)
(* Envelopes.                                                              *)
(***************************************************************************)
LEMMA EnvelopeTypes ==
  ASSUME NEW e \in Envelope, NEW v \in Volume
  PROVE  /\ EnvelopeClock(e) \in Envelope
         /\ ResetEnvelope(e) \in Envelope
         /\ SetVolume(e, v) \in Envelope
<1>1. e.seq \in Sequencer /\ e.decay \in 0 .. Top /\ Top \in Nat
  BY ApuAssumption DEF Envelope
<1>2. Decayed(e) \in 0 .. Top
  BY <1>1 DEF Decayed
<1>3. ResetCounterToPeriod(e.seq) \in Sequencer /\ ClockLooping(e.seq) \in Sequencer
  BY <1>1, SequencerTypes
<1>4. SetPeriod(e.seq, v.volume) \in Sequencer
  <2>1. v.volume \in 0 .. 254
    BY DEF Volume
  <2> QED BY <1>1, <2>1, SequencerTypes
<1>5. EnvelopeClock(e) \in Envelope
  <2>1. \A s \in Sequencer, d \in 0 .. Top, b \in BOOLEAN :
          [e EXCEPT !.decay = d, !.seq = s, !.reset = b] \in Envelope
    BY DEF Envelope
  <2>2. CASE e.reset
    <3>1. EnvelopeClock(e) = [e EXCEPT !.decay = Top, !.seq = ResetCounterToPeriod(e.seq),
                                       !.reset = FALSE]
      BY <2>2 DEF EnvelopeClock
    <3>2. Top \in 0 .. Top
      BY <1>1
    <3> QED BY <1>3, <2>1, <3>1, <3>2
  <2>3. CASE ~e.reset
    <3> DEFINE d == IF Expires(e.seq) THEN Decayed(e) ELSE e.decay
    <3>1. EnvelopeClock(e) = [e EXCEPT !.seq = ClockLooping(e.seq), !.decay = d]
      BY <2>3 DEF EnvelopeClock
    <3>2. d \in 0 .. Top
      BY <1>1, <1>2
    <3> HIDE DEF d
    <3> QED BY <1>3, <3>1, <3>2 DEF Envelope
  <2> QED BY <2>2, <2>3
<1>6. ResetEnvelope(e) \in Envelope
  BY DEF Envelope, ResetEnvelope
<1>7. SetVolume(e, v) \in Envelope
  BY <1>1, <1>4 DEF Envelope, SetVolume, Volume
<1> QED BY <1>5, <1>6, <1>7

\* An envelope is begun anew by a write, and then tells nothing until it is clocked.
LEMMA EnvelopeReset ==
  ASSUME NEW e \in Envelope, NEW v \in Volume, NEW x, Envelops(e, x)
  PROVE  Envelops(ResetEnvelope(e), x) /\ Envelops(SetVolume(e, v), x)
<1>1. ResetEnvelope(e).reset /\ ResetEnvelope(e).seq = e.seq
  BY DEF ResetEnvelope, Envelope
<1>2. SetVolume(e, v).reset /\ SetVolume(e, v).seq.halt = e.seq.halt
  BY DEF SetVolume, SetPeriod, Envelope, Sequencer
<1> QED BY <1>1, <1>2 DEF Envelops

\* Clocked, it falls as the count of the quarter frames does.
LEMMA EnvelopeFalls ==
  ASSUME NEW e \in Envelope, NEW x \in Nat, Envelops(e, x), QuarterDue
  PROVE  Envelops(EnvelopeClock(e), Longer(e, x)) /\ Longer(e, x) \in Nat
<1> DEFINE f == EnvelopeClock(e)  y == Longer(e, x)  p == e.seq.period  delay == p + 1
<1> SUFFICES Envelops(f, y) /\ y \in Nat
  OBVIOUS
<1>1. /\ e.seq \in Sequencer /\ e.decay \in 0 .. Top /\ Top \in Nat
      /\ e.reset \in BOOLEAN /\ e.looping \in BOOLEAN
      /\ p \in Unset .. 254 /\ e.seq.counter \in Unset .. 254 /\ ~e.seq.halt
  BY ApuAssumption DEF Envelope, Sequencer, Envelops
<1>2. f.looping = e.looping /\ f.seq.period = p /\ ~f.seq.halt /\ ~f.reset
  BY <1>1 DEF EnvelopeClock, Envelope, Sequencer, ResetCounterToPeriod, ClockLooping, Clock
<1>3. CASE e.reset
  <2>1. f.decay = Top /\ f.seq.counter = p /\ y = 0
    BY <1>3, QuarterDue DEF EnvelopeClock, Envelope, Sequencer, ResetCounterToPeriod, Longer
  <2> HIDE DEF f, y
  <2>2. p # Unset => f.seq.counter \in 0 .. p
    BY <1>1, <2>1 DEF Unset
  <2>3. (Top - Top) * delay + (p - p) = 0 /\ (Top <= 0 => Top * delay = 0)
    BY <1>1 DEF Unset
  <2> QED BY <1>1, <1>2, <2>1, <2>2, <2>3 DEF Envelops
<1>4. CASE ~e.reset /\ p = Unset
  <2>1. y = 0
    BY <1>4, QuarterDue DEF Longer
  <2>2. f.decay = Top
    BY <1>4, <1>1 DEF EnvelopeClock, Envelope, Sequencer, Expires, Envelops, Unset
  <2> QED BY <1>2, <1>4, <2>1, <2>2 DEF Envelops
<1>5. CASE ~e.reset /\ p # Unset
  <2>1. e.seq.counter \in 0 .. p /\ p \in Nat
    BY <1>1, <1>5 DEF Envelops, Unset
  <2>2. x = IF e.looping \/ e.decay > 0 THEN (Top - e.decay) * delay + (p - e.seq.counter)
            ELSE Top * delay
    BY <1>5 DEF Envelops
  <2>3. y = IF e.looping THEN (x + 1) % ((Top + 1) * delay)
            ELSE IF x < Top * delay THEN x + 1 ELSE x
    BY <1>5, QuarterDue DEF Longer
  <2>4. f.seq.counter = (IF e.seq.counter = 0 THEN p ELSE e.seq.counter - 1)
        /\ f.decay = (IF e.seq.counter = 0 THEN Decayed(e) ELSE e.decay)
    BY <1>1, <1>5, <2>1
       DEF EnvelopeClock, Envelope, Sequencer, ResetCounterToPeriod, ClockLooping, Clock,
           Expires, Unset
  <2> DEFINE fallen == Top - e.decay
  <2>5. fallen \in 0 .. Top /\ delay \in Nat \ {0} /\ e.decay = Top - fallen
    BY <1>1, <2>1
  <2>9. f.seq.period + 1 = delay
    BY <1>2
  <2> HIDE DEF fallen, delay, f, y
  <2>10. ASSUME y \in Nat, f.seq.counter \in 0 .. p,
                y = IF f.looping \/ f.decay > 0
                    THEN (Top - f.decay) * delay + (p - f.seq.counter) ELSE Top * delay
         PROVE  Envelops(f, y) /\ y \in Nat
    BY <1>2, <1>5, <2>9, <2>10 DEF Envelops
  <2>6. /\ fallen * delay \in Nat /\ Top * delay \in Nat /\ (Top + 1) * delay \in Nat
        /\ (fallen + 1) * delay = fallen * delay + delay
        /\ (Top + 1) * delay = Top * delay + delay
        /\ fallen < Top => fallen * delay + delay <= Top * delay
        /\ fallen = Top => fallen * delay = Top * delay
        /\ 0 * delay = 0
    <3>1. fallen < Top => fallen + 1 \in 0 .. Top
      BY <1>1, <2>5
    <3> QED BY <1>1, <2>5, <3>1, Delays
  <2>7. CASE e.seq.counter > 0
    <3>1. f.seq.counter = e.seq.counter - 1 /\ f.decay = e.decay
      BY <2>1, <2>4, <2>7
    <3>2. CASE e.looping \/ e.decay > 0
      <4>1. x = fallen * delay + (p - e.seq.counter)
        BY <2>2, <3>2 DEF fallen
      <4>2. e.looping => x + 1 < (Top + 1) * delay
        BY <1>1, <2>1, <2>5, <2>6, <2>7, <4>1 DEF delay
      <4>3. ~e.looping => x < Top * delay
        BY <1>1, <2>1, <2>5, <2>6, <2>7, <3>2, <4>1 DEF delay
      <4>4. y = x + 1
        <5>1. e.looping => (Top + 1) * delay \in Nat \ {0}
          BY <2>6, <4>2
        <5>2. e.looping => (x + 1) % ((Top + 1) * delay) = x + 1
          BY <4>2, <5>1, x + 1 \in Nat, Modulo
        <5> QED BY <2>3, <4>3, <5>2
      <4>5. f.seq.counter \in 0 .. p
            /\ y = (Top - f.decay) * delay + (p - f.seq.counter)
        BY <2>1, <2>6, <2>7, <3>1, <4>1, <4>4 DEF fallen
      <4> QED BY <1>2, <2>10, <3>1, <3>2, <4>4, <4>5
    <3>3. CASE ~(e.looping \/ e.decay > 0)
      <4>1. x = Top * delay /\ y = x
        BY <2>2, <2>3, <2>6, <3>3
      <4>2. f.seq.counter \in 0 .. p
        BY <2>1, <2>7, <3>1
      <4> QED BY <1>2, <2>10, <3>1, <3>3, <4>1, <4>2
    <3> QED BY <3>2, <3>3
  <2>8. CASE e.seq.counter = 0
    <3>1. f.seq.counter = p /\ f.decay = Decayed(e) /\ p - p = 0 /\ p \in 0 .. p
      BY <2>1, <2>4, <2>8
    <3>2. CASE e.decay > 0
      <4>1. f.decay = e.decay - 1 /\ Top - f.decay = fallen + 1 /\ fallen < Top
        BY <1>1, <2>5, <3>1, <3>2 DEF Decayed, fallen
      <4>2. x = fallen * delay + p /\ x + 1 = (fallen + 1) * delay
        BY <2>1, <2>2, <2>6, <2>8, <3>2 DEF fallen, delay
      <4>3. x + 1 < (Top + 1) * delay /\ x < Top * delay
        BY <2>5, <2>6, <4>1, <4>2
      <4>4. y = x + 1
        <5>1. (Top + 1) * delay \in Nat \ {0}
          BY <2>6, <4>3
        <5>2. (x + 1) % ((Top + 1) * delay) = x + 1
          BY <4>3, <5>1, x + 1 \in Nat, Modulo
        <5> QED BY <2>3, <4>3, <5>2
      <4>5. f.decay = 0 => fallen + 1 = Top
        BY <1>1, <2>5, <4>1
      <4>6. y = (fallen + 1) * delay /\ y + 0 = y
        BY <4>2, <4>4
      <4>7. y = IF f.looping \/ f.decay > 0
                THEN (Top - f.decay) * delay + (p - f.seq.counter) ELSE Top * delay
        BY <1>1, <3>1, <3>2, <4>1, <4>5, <4>6
      <4> QED BY <2>10, <3>1, <4>4, <4>7
    <3>3. CASE e.decay = 0 /\ e.looping
      <4>1. f.decay = Top /\ fallen = Top
        BY <1>1, <3>1, <3>3 DEF Decayed, fallen
      <4>2. x + 1 = (Top + 1) * delay
        BY <2>1, <2>2, <2>6, <2>8, <3>3, <4>1 DEF fallen, delay
      <4>3. (Top + 1) * delay \in Nat \ {0}
        BY <2>5, <2>6
      <4>4. y = 0
        BY <2>3, <3>3, <4>2, <4>3, Modulo
      <4>5. (Top - Top) * delay + (p - p) = 0
        BY <1>1, <2>1, <2>6
      <4> QED BY <1>2, <2>10, <3>1, <3>3, <4>1, <4>4, <4>5
    <3>4. CASE e.decay = 0 /\ ~e.looping
      <4>1. f.decay = 0 /\ x = Top * delay /\ y = x
        BY <2>2, <2>3, <2>6, <3>1, <3>4 DEF Decayed
      <4> QED BY <1>2, <2>10, <3>1, <3>4, <4>1
    <3> QED BY <1>1, <3>2, <3>3, <3>4
  <2> QED BY <2>1, <2>7, <2>8
<1> QED BY <1>1, <1>3, <1>4, <1>5

-----------------------------------------------------------------------------
(***************************************************************************)
(* What a step makes of each channel.                                      *)
(***************************************************************************)
LEMMA TargetPeriod ==
  ASSUME NEW n \in Squares, NEW q \in Square
  PROVE  CalTargetPeriod(n, q) \in 0 .. DWord - 1
<1>1. q.period \in Int /\ q.sweep.shift \in 0 .. 7
  <2>1. q.sweep \in SweepUnit /\ q.period \in Unset .. DWord - 1
    BY DEF Square
  <2>2. q.sweep.shift \in 0 .. 7
    BY <2>1 DEF SweepUnit
  <2>3. Unset .. DWord - 1 \subseteq Int
    BY DEF Unset, DWord
  <2> QED BY <2>1, <2>2, <2>3
<1>2. q.period % DWord \in Nat /\ 2 ^ q.sweep.shift \in Nat \ {0}
  <2>1. q.period % DWord \in Nat
    BY <1>1 DEF DWord
  <2> QED BY <1>1, <2>1, Halving
<1> DEFINE half == (q.period % DWord) \div 2 ^ q.sweep.shift
<1>3. half \in Int
  BY <1>2
<1>4. \A k \in Int : k % DWord \in 0 .. DWord - 1
  BY DEF DWord
<1> HIDE DEF half
<1>5. /\ (q.period % DWord) + half \in Int
      /\ (q.period % DWord) - (half - 1) \in Int
      /\ (q.period % DWord) - half \in Int
  BY <1>2, <1>3
<1> QED BY <1>4, <1>5 DEF CalTargetPeriod, half

LEMMA SweptSquare ==
  ASSUME NEW n \in Squares, NEW q \in Square
  PROVE  /\ SweepClock(n, q) \in Square
         /\ SweepClock(n, q).length = q.length /\ SweepClock(n, q).volume = q.volume
<1>1. q.sweep \in SweepUnit /\ q.sweep.seq \in Sequencer /\ q.period \in Unset .. DWord - 1
  BY DEF Square, SweepUnit
<1>2. ResetCounterToPeriod(q.sweep.seq) \in Sequencer /\ ClockLooping(q.sweep.seq) \in Sequencer
  BY <1>1, SequencerTypes
<1>3. CASE q.sweep.reset
  <2> DEFINE r(s) == [q EXCEPT !.sweep.seq = s, !.sweep.reset = FALSE]
  <2>1. ASSUME NEW s \in Sequencer
        PROVE  r(s) \in Square /\ r(s).length = q.length /\ r(s).volume = q.volume
    <3>1. \A b \in BOOLEAN : [q EXCEPT !.sweep.seq = s, !.sweep.reset = b] \in Square
      BY DEF Square, SweepUnit
    <3>2. r(s).length = q.length /\ r(s).volume = q.volume
      BY DEF Square
    <3> QED BY <3>1, <3>2
  <2>2. SweepClock(n, q) = r(ResetCounterToPeriod(q.sweep.seq))
    BY <1>3 DEF SweepClock, Square, SweepUnit
  <2> HIDE DEF r
  <2> QED BY <1>2, <2>1, <2>2
<1>4. CASE ~q.sweep.reset
  <2> DEFINE r(s, k) == [q EXCEPT !.sweep.seq = s, !.period = k]
             p == IF Expires(q.sweep.seq) /\ q.sweep.enabled
                  THEN CalTargetPeriod(n, q) ELSE q.period
  <2>1. ASSUME NEW s \in Sequencer, NEW k \in Unset .. DWord - 1
        PROVE  r(s, k) \in Square /\ r(s, k).length = q.length /\ r(s, k).volume = q.volume
    BY DEF Square, SweepUnit
  <2>2. SweepClock(n, q) = r(ClockLooping(q.sweep.seq), p)
    BY <1>4 DEF SweepClock, Square, SweepUnit
  <2>3. p \in Unset .. DWord - 1
    <3>1. CalTargetPeriod(n, q) \in Unset .. DWord - 1
      BY TargetPeriod DEF Unset
    <3> QED BY <1>1, <3>1
  <2> HIDE DEF p, r
  <2> QED BY <1>2, <2>1, <2>2, <2>3
<1> QED BY <1>3, <1>4

LEMMA HalvedSquare ==
  ASSUME NEW n \in Squares, NEW q \in Square
  PROVE  /\ HalfSquare(n, q) \in Square
         /\ HalfSquare(n, q).volume = q.volume
         /\ HalfSquare(n, q).length = IF n = 1 THEN Clock(Clock(q.length)) ELSE q.length
<1> DEFINE s == IF n = 1 THEN Clock(Clock(q.length)) ELSE q.length
<1>1. s \in Sequencer
  BY SequencerTypes DEF Square
<1>2. HalfSquare(n, q) = SweepClock(n, [q EXCEPT !.length = s])
  BY DEF HalfSquare
<1> HIDE DEF s
<1> DEFINE r == [q EXCEPT !.length = s]
<1>3. r \in Square /\ r.volume = q.volume /\ r.length = s
  BY <1>1 DEF Square
<1> HIDE DEF r
<1>4. SweepClock(n, r) \in Square /\ SweepClock(n, r).volume = q.volume
      /\ SweepClock(n, r).length = s
  BY <1>3, SweptSquare
<1> QED BY <1>2, <1>4 DEF r, s

LEMMA QuarteredSquare ==
  ASSUME NEW q \in Square
  PROVE  /\ QuarterSquare(q) \in Square
         /\ QuarterSquare(q).volume = EnvelopeClock(q.volume)
         /\ QuarterSquare(q).length = q.length
<1>1. EnvelopeClock(q.volume) \in Envelope
  <2>1. q.volume \in Envelope
    BY DEF Square
  <2>2. [halt |-> FALSE, volume |-> 0] \in Volume
    BY DEF Volume
  <2> QED BY <2>1, <2>2, EnvelopeTypes
<1> QED BY <1>1 DEF QuarterSquare, Square

LEMMA SteppedSquare ==
  ASSUME NEW n \in Squares, NEW q \in Square, q.length.period >= 0, q.length.counter >= 0
  PROVE  /\ StepSquare(n, q) \in Square
         /\ StepSquare(n, q).volume = IF QuarterDue THEN EnvelopeClock(q.volume) ELSE q.volume
         /\ StepSquare(n, q).length = IF n = 1 THEN Counted(q.length, 2 * HalfFrames)
                                      ELSE q.length
<1> DEFINE early   == IF resetFrameCounter THEN HalfSquare(n, q) ELSE q
           quarter == IF QuarterDue THEN QuarterSquare(early) ELSE early
           late    == IF HalfDue THEN HalfSquare(n, quarter) ELSE quarter
<1>1. /\ early \in Square /\ early.volume = q.volume
      /\ early.length = IF resetFrameCounter /\ n = 1 THEN Clock(Clock(q.length)) ELSE q.length
  BY HalvedSquare
<1>2. StepSquare(n, q) = late
  BY DEF StepSquare
<1> HIDE DEF early
<1>3. /\ quarter \in Square /\ quarter.length = early.length
      /\ quarter.volume = IF QuarterDue THEN EnvelopeClock(q.volume) ELSE q.volume
  BY <1>1, QuarteredSquare
<1> HIDE DEF quarter
<1>4. /\ late \in Square /\ late.volume = quarter.volume
      /\ late.length = IF HalfDue /\ n = 1 THEN Clock(Clock(early.length)) ELSE early.length
  BY <1>3, HalvedSquare
<1> HIDE DEF late
<1>5. late.length = IF n = 1 THEN Counted(q.length, 2 * HalfFrames) ELSE q.length
  <2>1. q.length \in Sequencer
    BY DEF Square
  <2>2. CASE resetFrameCounter /\ HalfDue
    BY <1>1, <1>4, <2>1, <2>2, CountsBySteps, 2 * (1 + 1) = 4 DEF HalfFrames
  <2>3. CASE resetFrameCounter /\ ~HalfDue
    BY <1>1, <1>4, <2>1, <2>3, CountsBySteps, 2 * (1 + 0) = 2 DEF HalfFrames
  <2>4. CASE ~resetFrameCounter /\ HalfDue
    BY <1>1, <1>4, <2>1, <2>4, CountsBySteps, 2 * (0 + 1) = 2 DEF HalfFrames
  <2>5. CASE ~resetFrameCounter /\ ~HalfDue
    BY <1>1, <1>4, <2>1, <2>5, CountsBySteps, 2 * (0 + 0) = 0 DEF HalfFrames
  <2> QED BY <2>2, <2>3, <2>4, <2>5
<1> QED BY <1>2, <1>3, <1>4, <1>5

LEMMA WatchedTriangle ==
  ASSUME NEW t \in Triangle
  PROVE  /\ WatchdogClock(t) \in Triangle /\ WatchdogClock(t).enabled = t.enabled
         /\ WatchdogClock(t).length = IF t.enabled THEN Clock(t.length) ELSE t.length
<1> DEFINE r(b) == [t EXCEPT !.length = Clock(t.length), !.halt = b]
<1>1. Clock(t.length) \in Sequencer
  BY SequencerTypes DEF Triangle
<1>2. ASSUME NEW b \in BOOLEAN
      PROVE  r(b) \in Triangle /\ r(b).enabled = t.enabled /\ r(b).length = Clock(t.length)
  BY <1>1 DEF Triangle
<1>3. CASE t.enabled
  <2> DEFINE b == t.halt \/ Expires(t.length)
  <2>1. b \in BOOLEAN
    OBVIOUS
  <2>2. WatchdogClock(t) = r(b)
    BY <1>3 DEF WatchdogClock
  <2> HIDE DEF b
  <2>3. r(b) \in Triangle /\ r(b).enabled = t.enabled /\ r(b).length = Clock(t.length)
    BY <1>2, <2>1
  <2> QED BY <1>3, <2>2, <2>3
<1>4. CASE ~t.enabled
  BY <1>4 DEF WatchdogClock
<1> QED BY <1>3, <1>4

LEMMA LinearTriangle ==
  ASSUME NEW t \in Triangle
  PROVE  /\ LinearCounterClock(t) \in Triangle /\ LinearCounterClock(t).enabled = t.enabled
         /\ LinearCounterClock(t).length = t.length
<1>1. /\ t.linear \in Sequencer /\ t.linear.halt \in BOOLEAN
      /\ ResetCounterToPeriod(t.linear) \in Sequencer /\ Clock(t.linear) \in Sequencer
  <2>1. t.linear \in Sequencer
    BY DEF Triangle
  <2> QED BY <2>1, SequencerTypes DEF Sequencer
<1>2. CASE t.linearReset
  <2>1. LinearCounterClock(t) = [t EXCEPT !.linear = ResetCounterToPeriod(t.linear),
                                          !.linearReset = t.linear.halt]
    BY <1>2 DEF LinearCounterClock
  <2> QED BY <1>1, <2>1 DEF Triangle
<1>3. CASE ~t.linearReset
  <2> DEFINE b == t.halt \/ Expires(t.linear)
  <2>1. b \in BOOLEAN
    OBVIOUS
  <2>2. LinearCounterClock(t) = [t EXCEPT !.linear = Clock(t.linear), !.halt = b]
    BY <1>3 DEF LinearCounterClock
  <2> HIDE DEF b
  <2> QED BY <1>1, <2>1, <2>2 DEF Triangle
<1> QED BY <1>2, <1>3

LEMMA SteppedTriangle ==
  ASSUME NEW t \in Triangle
  PROVE  /\ StepTriangle(t) \in Triangle
         /\ t.length.period >= 0 /\ t.length.counter >= 0 =>
              StepTriangle(t).length = IF t.enabled THEN Counted(t.length, HalfFrames)
                                       ELSE t.length
<1> DEFINE early   == IF resetFrameCounter THEN WatchdogClock(t) ELSE t
           quarter == IF QuarterDue THEN LinearCounterClock(early) ELSE early
           late    == IF HalfDue THEN WatchdogClock(quarter) ELSE quarter
<1>1. /\ early \in Triangle /\ early.enabled = t.enabled
      /\ early.length = IF resetFrameCounter /\ t.enabled THEN Clock(t.length) ELSE t.length
  BY WatchedTriangle
<1>2. StepTriangle(t) = late
  BY DEF StepTriangle
<1> HIDE DEF early
<1>3. quarter \in Triangle /\ quarter.enabled = t.enabled /\ quarter.length = early.length
  BY <1>1, LinearTriangle
<1> HIDE DEF quarter
<1>4. /\ late \in Triangle
      /\ late.length = IF HalfDue /\ t.enabled THEN Clock(early.length) ELSE early.length
  BY <1>3, WatchedTriangle
<1> HIDE DEF late
<1>5. ASSUME t.length.period >= 0, t.length.counter >= 0
      PROVE  late.length = IF t.enabled THEN Counted(t.length, HalfFrames) ELSE t.length
  <2>1. t.length \in Sequencer
    BY DEF Triangle
  <2>2. HalfFrames = IF resetFrameCounter THEN IF HalfDue THEN 2 ELSE 1
                     ELSE IF HalfDue THEN 1 ELSE 0
    BY DEF HalfFrames
  <2> QED BY <1>1, <1>4, <1>5, <2>1, <2>2, CountsBySteps
<1> QED BY <1>2, <1>4, <1>5

LEMMA SteppedNoise ==
  ASSUME NEW w \in Noise
  PROVE  /\ StepNoise(w) \in Noise
         /\ StepNoise(w).volume = IF QuarterDue THEN EnvelopeClock(w.volume) ELSE w.volume
         /\ w.length.period >= 0 /\ w.length.counter >= 0 =>
              StepNoise(w).length = Counted(w.length, HalfFrames)
<1>1. ASSUME NEW v \in Noise
      PROVE  /\ HalfNoise(v) \in Noise /\ HalfNoise(v).volume = v.volume
             /\ HalfNoise(v).length = Clock(v.length)
             /\ QuarterNoise(v) \in Noise /\ QuarterNoise(v).length = v.length
             /\ QuarterNoise(v).volume = EnvelopeClock(v.volume)
  <2>1. Clock(v.length) \in Sequencer
    BY SequencerTypes DEF Noise
  <2>2. EnvelopeClock(v.volume) \in Envelope
    <3>1. v.volume \in Envelope
      BY DEF Noise
    <3>2. [halt |-> FALSE, volume |-> 0] \in Volume
      BY DEF Volume
    <3> QED BY <3>1, <3>2, EnvelopeTypes
  <2> QED BY <2>1, <2>2 DEF Noise, HalfNoise, QuarterNoise
<1> DEFINE early   == IF resetFrameCounter THEN HalfNoise(w) ELSE w
           quarter == IF QuarterDue THEN QuarterNoise(early) ELSE early
           late    == IF HalfDue THEN HalfNoise(quarter) ELSE quarter
<1>2. /\ early \in Noise /\ early.volume = w.volume
      /\ early.length = IF resetFrameCounter THEN Clock(w.length) ELSE w.length
  BY <1>1
<1>3. StepNoise(w) = late
  BY DEF StepNoise
<1> HIDE DEF early
<1>4. /\ quarter \in Noise /\ quarter.length = early.length
      /\ quarter.volume = IF QuarterDue THEN EnvelopeClock(w.volume) ELSE w.volume
  BY <1>1, <1>2
<1> HIDE DEF quarter
<1>5. /\ late \in Noise /\ late.volume = quarter.volume
      /\ late.length = IF HalfDue THEN Clock(early.length) ELSE early.length
  BY <1>1, <1>4
<1> HIDE DEF late
<1>6. ASSUME w.length.period >= 0, w.length.counter >= 0
      PROVE  late.length = Counted(w.length, HalfFrames)
  <2>1. w.length \in Sequencer
    BY DEF Noise
  <2>2. HalfFrames = IF resetFrameCounter THEN IF HalfDue THEN 2 ELSE 1
                     ELSE IF HalfDue THEN 1 ELSE 0
    BY DEF HalfFrames
  <2> QED BY <1>2, <1>5, <1>6, <2>1, <2>2, CountsBySteps
<1> QED BY <1>3, <1>4, <1>5, <1>6

-----------------------------------------------------------------------------
(***************************************************************************)
(* What a step makes of the history.                                       *)
(***************************************************************************)
\* Half frames, added up to the length, and a counter left by them.
AddedTo(h, d, l) == IF h + d < l THEN h + d ELSE l
LeftOf(l, h, rate) == IF l > rate * h THEN l - rate * h ELSE 0

LEMMA HalvesAdd ==
  ASSUME NEW l \in 0 .. 254, NEW h \in 0 .. l, NEW d \in 0 .. 2, NEW rate \in 0 .. 2
  PROVE  /\ AddedTo(h, d, l) \in 0 .. 254 /\ AddedTo(h, d, l) <= l
         /\ (IF LeftOf(l, h, rate) > rate * d THEN LeftOf(l, h, rate) - rate * d ELSE 0)
               = LeftOf(l, AddedTo(h, d, l), rate)
<1>1. AddedTo(h, d, l) \in 0 .. 254 /\ AddedTo(h, d, l) <= l
  BY DEF AddedTo
<1>2. rate = 0 \/ rate = 1 \/ rate = 2
  OBVIOUS
<1>3. \A k \in Int : 0 * k = 0 /\ 1 * k = k /\ 2 * k = k + k
  OBVIOUS
<1> QED BY <1>1, <1>2, <1>3 DEF AddedTo, LeftOf

LEMMA AgedNote ==
  ASSUME NEW n \in Note, n.halves <= n.length, NEW b \in BOOLEAN
  PROVE  /\ Aged(n, b) \in Note /\ Aged(n, b).length = n.length
         /\ Aged(n, b).halves <= n.length
         /\ n = NoNote => Aged(n, b) = NoNote
<1>1. HalfFrames \in 0 .. 2
  BY DEF HalfFrames
<1>2. CASE ~b
  BY <1>2 DEF Aged
<1>3. CASE b
  <2> DEFINE k == AddedTo(n.halves, HalfFrames, n.length)
  <2>1. k \in 0 .. 254 /\ k <= n.length /\ (n = NoNote => k = 0)
    <3>1. n.length \in 0 .. 254 /\ n.halves \in 0 .. 254
      BY DEF Note
    <3>2. n = NoNote => n.length = 0 /\ n.halves = 0
      BY DEF NoNote
    <3>3. n = NoNote => k = 0
      BY <1>1, <3>2 DEF AddedTo
    <3>4. n.halves \in 0 .. n.length /\ 0 \in 0 .. 2
      BY <3>1
    <3> QED BY <1>1, <3>1, <3>3, <3>4, HalvesAdd
  <2>2. Aged(n, b) = [n EXCEPT !.halves = k]
    BY <1>3 DEF Aged, AddedTo
  <2> HIDE DEF k
  <2> QED BY <2>1, <2>2 DEF Note, NoNote
<1> QED BY <1>2, <1>3

\* A counter and its note stay together, halted or not.
LEMMA RunsOn ==
  ASSUME NEW s \in Sequencer, NEW n \in Note, n.halves <= n.length,
         NEW rate \in 0 .. 2, Runs(s, n, rate)
  PROVE  Runs(Counted(s, rate * HalfFrames), Aged(n, ~s.halt), rate)
<1> DEFINE k == AddedTo(n.halves, HalfFrames, n.length)
           drop == rate * HalfFrames
<1>1. HalfFrames \in 0 .. 2 /\ n.length \in 0 .. 254 /\ n.halves \in 0 .. 254
  BY DEF HalfFrames, Note
<1>2. s.counter = Left(n, rate) /\ s.period >= 0 /\ s.halt \in BOOLEAN /\ s.period \in Int
  BY DEF Runs, Sequencer, Unset
<1>3. Counted(s, drop).period = s.period
  BY DEF Counted, Sequencer
<1>4. CASE s.halt
  <2>1. Counted(s, drop).counter = s.counter /\ Aged(n, ~s.halt) = n
    BY <1>4 DEF Counted, Sequencer, Aged
  <2> QED BY <1>2, <1>3, <2>1 DEF Runs
<1>5. CASE ~s.halt
  <2>1. /\ Aged(n, ~s.halt).length = n.length /\ Aged(n, ~s.halt).halves = k
        /\ Counted(s, drop).counter = IF s.counter > drop THEN s.counter - drop ELSE 0
    BY <1>5 DEF Counted, Sequencer, Aged, Note, AddedTo
  <2> DEFINE left(h) == LeftOf(n.length, h, rate)
  <2>2. (IF left(n.halves) > drop THEN left(n.halves) - drop ELSE 0) = left(k)
    <3>1. n.halves \in 0 .. n.length
      BY <1>1
    <3> QED BY <1>1, <3>1, HalvesAdd
  <2>3. Left(n, rate) = left(n.halves) /\ Left(Aged(n, ~s.halt), rate) = left(k)
    BY <2>1 DEF Left, LeftOf
  <2> QED BY <1>2, <1>3, <2>1, <2>2, <2>3 DEF Runs
<1> QED BY <1>2, <1>4, <1>5

LEMMA RunsAbove ==
  ASSUME NEW s \in Sequencer, NEW n \in Note, NEW rate \in 0 .. 2, Runs(s, n, rate)
  PROVE  s.counter >= 0 /\ s.period >= 0
<1>1. n.length \in Nat /\ n.halves \in Nat
  BY DEF Note
<1>2. rate = 0 \/ rate = 1 \/ rate = 2
  OBVIOUS
<1>3. Left(n, rate) >= 0
  BY <1>1, <1>2 DEF Left
<1> QED BY <1>3 DEF Runs

LEMMA ElapsedStep ==
  ASSUME NEW e \in Envelope, NEW x \in Nat, Envelops(e, x)
  PROVE  /\ Envelops(IF QuarterDue THEN EnvelopeClock(e) ELSE e, Longer(e, x))
         /\ Longer(e, x) \in Nat
<1>1. CASE QuarterDue
  BY <1>1, EnvelopeFalls
<1>2. CASE ~QuarterDue
  <2>1. Longer(e, x) = x
    BY <1>2 DEF Longer
  <2> QED BY <1>2, <2>1
<1> QED BY <1>1, <1>2

\* The ticks are told by the sequence number, where it wraps as well.
LEMMA RhythmStep == CounterTypes /\ HistoryTypes /\ Rhythm /\ IrqCounted /\ Step
                      => Rhythm' /\ IrqCounted' /\ CounterTypes'
                         /\ sinceHalf' \in Nat /\ sinceQuarter' \in Nat /\ sinceIrq' \in 0 .. 4
<1> SUFFICES ASSUME CounterTypes, HistoryTypes, Rhythm, IrqCounted, Step
             PROVE  Rhythm' /\ IrqCounted' /\ CounterTypes'
                    /\ sinceHalf' \in Nat /\ sinceQuarter' \in Nat /\ sinceIrq' \in 0 .. 4
  OBVIOUS
<1> DEFINE s == frameCounterSeqNum  t == frameCounterSeqNum'
<1>1. /\ s \in 0 .. SeqWrap - 1 /\ is4StepMode \in BOOLEAN /\ irqInhibit \in BOOLEAN
      /\ sinceHalf \in Nat /\ sinceQuarter \in Nat /\ sinceIrq \in 0 .. 4
      /\ resetFrameCounter \in BOOLEAN
  BY DEF CounterTypes, HistoryTypes
<1>2. /\ is4StepMode' = is4StepMode /\ irqInhibit' = irqInhibit /\ resetFrameCounter' = FALSE
      /\ t = IF Tick THEN IF s + 1 = SeqWrap THEN 0 ELSE s + 1 ELSE s
      /\ phase' = (phase + 1) % FramePeriod /\ irqActive' = (irqActive \/ IrqDue)
  BY <1>1, NextInSequence DEF Step, CountTick
<1>3. /\ s + 1 = SeqWrap => s % 5 = 0 /\ s % 4 = 3
      /\ s % 4 \in 0 .. 3 /\ (s + 1) % 4 = IF s % 4 = 3 THEN 0 ELSE (s % 4) + 1
      /\ s % 5 \in 0 .. 4 /\ (s + 1) % 5 = IF s % 5 = 4 THEN 0 ELSE (s % 5) + 1
      /\ 0 % 4 = 0 /\ 0 % 5 = 0 /\ SeqWrap \in Nat
  <2>1. 0 % 4 = 0 /\ 0 % 5 = 0
    OBVIOUS
  <2> QED BY <1>1, <2>1, NextInSequence, ApuAssumption
<1>4. CounterTypes'
  <2>1. t \in 0 .. SeqWrap - 1
    BY <1>1, <1>2, <1>3
  <2>2. phase' \in 0 .. FramePeriod - 1
    <3>1. phase + 1 \in Nat /\ FramePeriod \in Nat \ {0}
      BY ApuAssumption DEF CounterTypes
    <3> QED BY <1>2, <3>1, Modulo
  <2>3. irqActive' \in BOOLEAN
    BY <1>2
  <2> QED BY <1>1, <1>2, <2>1, <2>2, <2>3 DEF CounterTypes
<1>5. /\ sinceHalf' = IF HalfDue THEN 0
                       ELSE (IF resetFrameCounter THEN 0 ELSE sinceHalf) + (IF Tick THEN 1 ELSE 0)
      /\ sinceQuarter' = IF QuarterDue THEN 0 ELSE sinceQuarter + (IF Tick THEN 1 ELSE 0)
      /\ sinceIrq' = IF IrqDue THEN 0
                      ELSE IF Tick /\ sinceIrq < 4 THEN sinceIrq + 1 ELSE sinceIrq
  BY DEF Step, CountStep
<1>6. sinceHalf' \in Nat /\ sinceQuarter' \in Nat /\ sinceIrq' \in 0 .. 4
  BY <1>1, <1>5
<1>7. sinceHalf' <= IF is4StepMode THEN SinceHalfFour(t) ELSE SinceHalfFive(t)
  <2>1. ~resetFrameCounter =>
          sinceHalf <= IF is4StepMode THEN SinceHalfFour(s) ELSE SinceHalfFive(s)
    BY DEF Rhythm
  <2>2. resetFrameCounter => s = 0
    BY DEF Rhythm
  <2>3. CASE ~Tick
    <3>1. ~HalfDue /\ t = s
      BY <1>2, <2>3 DEF HalfDue
    <3>2. sinceHalf' = IF resetFrameCounter THEN 0 ELSE sinceHalf
      BY <1>1, <1>5, <2>3, <3>1
    <3>3. 0 <= SinceHalfFour(0) /\ 0 <= SinceHalfFive(0)
      BY <1>3 DEF SinceHalfFour, SinceHalfFive
    <3> QED BY <2>1, <2>2, <3>1, <3>2, <3>3
  <2>4. CASE Tick /\ is4StepMode
    <3>1. HalfDue <=> s % 4 \in {1, 3}
      BY <2>4 DEF HalfDue
    <3>2. sinceHalf' <= IF s % 4 \in {1, 3} THEN 0 ELSE 1
      BY <1>1, <1>5, <2>1, <2>4, <3>1 DEF SinceHalfFour
    <3>3. t % 4 = IF s % 4 = 3 THEN 0 ELSE (s % 4) + 1
      BY <1>2, <1>3, <2>4
    <3> QED BY <1>3, <1>6, <2>4, <3>2, <3>3 DEF SinceHalfFour
  <2>5. CASE Tick /\ ~is4StepMode
    <3>1. HalfDue <=> s % 5 \in {1, 4}
      BY <2>5 DEF HalfDue
    <3>2. t = (IF s + 1 = SeqWrap THEN 0 ELSE s + 1) /\ (t = 0 \/ t > 0)
      BY <1>1, <1>2, <2>5
    <3>3. CASE s % 5 \in {1, 4}
      <4>1. sinceHalf' = 0 /\ t # 0
        BY <1>1, <1>3, <1>5, <3>1, <3>2, <3>3
      <4> QED BY <1>1, <1>3, <2>5, <3>2, <4>1 DEF SinceHalfFive
    <3>4. CASE s = 0
      <4>1. sinceHalf' <= 2
        BY <1>1, <1>3, <1>5, <2>1, <2>5, <3>1, <3>4 DEF SinceHalfFive
      <4>2. t = 0 \/ t = 1
        BY <1>1, <3>2, <3>4
      <4>3. t = 1
        BY <1>3, <3>2, <3>4, <4>2
      <4> QED BY <2>5, <4>1, <4>3 DEF SinceHalfFive
    <3>5. CASE s > 1 /\ s % 5 \in {0, 2, 3}
      <4>1. sinceHalf' <= IF s % 5 = 3 THEN 2 ELSE 1
        BY <1>1, <1>3, <1>5, <2>1, <2>5, <3>1, <3>5 DEF SinceHalfFive
      <4> QED BY <1>1, <1>3, <2>5, <3>2, <3>5, <4>1 DEF SinceHalfFive
    <3>6. s % 5 \in {1, 4} \/ s = 0 \/ (s > 1 /\ s % 5 \in {0, 2, 3})
      <4>1. 1 % 5 = 1
        OBVIOUS
      <4> QED BY <1>1, <1>3, <4>1
    <3> QED BY <3>3, <3>4, <3>5, <3>6
  <2> QED BY <1>1, <2>3, <2>4, <2>5
<1>8. sinceQuarter' <= 1 /\ (sinceQuarter' = 1 => t = 0 \/ (~is4StepMode /\ t % 5 = 4))
  BY <1>1, <1>2, <1>3, <1>5 DEF Rhythm, QuarterDue
<1>9. IrqCounted'
  BY <1>1, <1>2, <1>3, <1>5 DEF IrqCounted, IrqDue
<1> QED BY <1>1, <1>2, <1>4, <1>6, <1>7, <1>8, <1>9 DEF Rhythm

-----------------------------------------------------------------------------
(***************************************************************************)
(* The invariant.                                                          *)
(***************************************************************************)
LEMMA InvTypes == ApuInv => TypeOK
<1> SUFFICES ASSUME ApuInv PROVE TypeOK
  OBVIOUS
<1> USE DEF ApuInv
<1>1. ASSUME NEW n \in Squares
      PROVE  square[n] \in Square /\ note.square[n] \in Note /\ elapsed.square[n] \in Nat
  BY DEF SquareInv
<1>2. ChannelTypes
  <2>1. square \in [Squares -> Square]
    BY <1>1 DEF Records
  <2> QED BY <2>1 DEF ChannelTypes, TriangleInv, NoiseInv
<1>3. HistoryTypes
  <2>1. [n \in Squares |-> note.square[n]] \in [Squares -> Note]
        /\ [n \in Squares |-> elapsed.square[n]] \in [Squares -> Nat]
    BY <1>1
  <2>2. note.triangle \in Note /\ note.noise \in Note /\ elapsed.noise \in Nat
    BY DEF TriangleInv, NoiseInv
  <2>3. note \in [square : [Squares -> Note], triangle : Note, noise : Note]
        /\ elapsed \in [square : [Squares -> Nat], noise : Nat]
    BY <2>1, <2>2 DEF Records
  <2> QED BY <2>3 DEF HistoryTypes, TickInv
<1> QED BY <1>2, <1>3 DEF TypeOK, TickInv

LEMMA Fresh ==
  /\ NewSequencer \in Sequencer
  /\ NewEnvelope \in Envelope /\ Envelops(NewEnvelope, 0)
  /\ NoNote \in Note /\ NoNote.halves <= NoNote.length
  /\ \A s \in Sequencer, rate \in 0 .. 2 : Runs(Load(s, 0), NoNote, rate)
<1>1. NewSequencer \in Sequencer
  BY DEF NewSequencer, Sequencer, Unset
<1>2. NewEnvelope \in Envelope /\ Envelops(NewEnvelope, 0)
  BY <1>1, ApuAssumption DEF NewEnvelope, NewSequencer, Envelope, Envelops, Unset
<1>3. NoNote \in Note /\ NoNote.halves <= NoNote.length
  BY DEF NoNote, Note
<1>4. ASSUME NEW s \in Sequencer, NEW rate \in 0 .. 2
      PROVE  Runs(Load(s, 0), NoNote, rate)
  <2>1. Load(s, 0).period = 0 /\ Load(s, 0).counter = 0
    BY DEF Load, Sequencer
  <2>2. Left(NoNote, rate) = 0
    BY DEF Left, NoNote
  <2> QED BY <2>1, <2>2 DEF Runs
<1> QED BY <1>1, <1>2, <1>3, <1>4

LEMMA ApuInit == Init => ApuInv
<1> SUFFICES ASSUME Init PROVE ApuInv
  OBVIOUS
<1> USE DEF Init
<1>1. Records
  BY DEF Records
<1>2. ASSUME NEW n \in Squares
      PROVE  SquareInv(n, square[n], note.square[n], elapsed.square[n])
  <2>1. /\ square[n] = [NewSquare EXCEPT !.length = Load(NewSequencer, 0)]
        /\ note.square[n] = NoNote /\ elapsed.square[n] = 0
    BY DEF NewSquare
  <2>2. Load(NewSequencer, 0) \in Sequencer
    BY Fresh, SequencerTypes
  <2>3. square[n] \in Square
    <3>1. NewSquare \in Square
      <4>1. NewSquare.sweep \in SweepUnit
        BY Fresh DEF NewSquare, SweepUnit
      <4> QED BY <4>1, Fresh DEF NewSquare, Square, Unset, DWord
    <3> QED BY <2>1, <2>2, <3>1 DEF Square
  <2>4. square[n].length = Load(NewSequencer, 0) /\ square[n].volume = NewEnvelope
    BY <2>1 DEF NewSquare
  <2> QED BY <2>1, <2>3, <2>4, Fresh DEF SquareInv
<1>3. TriangleInv(triangle, note.triangle)
  BY Fresh DEF TriangleInv, NewTriangle, Triangle, Unset, DWord
<1>4. NoiseInv(noise, note.noise, elapsed.noise)
  BY Fresh DEF NoiseInv, NewNoise, Noise
<1>5. TickInv
  <2>1. 0 % 4 = 0
    OBVIOUS
  <2>2. 0 \in 0 .. SeqWrap - 1 /\ 0 \in 0 .. FramePeriod - 1
    BY ApuAssumption
  <2>3. CounterTypes
    BY <2>2 DEF CounterTypes
  <2>4. SinceHalfFive(0) = 1
    BY DEF SinceHalfFive
  <2> QED BY <2>1, <2>3, <2>4 DEF TickInv, Rhythm, IrqCounted
<1> QED BY <1>1, <1>2, <1>3, <1>4, <1>5 DEF ApuInv

\* Apu::Step.
LEMMA StepKeeps == ApuInv /\ Step => ApuInv'
<1> SUFFICES ASSUME ApuInv, Step PROVE ApuInv'
  OBVIOUS
<1>1. Records'
  BY DEF Step, CountStep, Records
<1>2. ASSUME NEW n \in Squares
      PROVE  SquareInv(n, square'[n], note'.square[n], elapsed'.square[n])
  <2> DEFINE q == square[n]  m == note.square[n]  x == elapsed.square[n]
  <2>1. /\ square'[n] = StepSquare(n, q) /\ note'.square[n] = Aged(m, ~q.length.halt)
        /\ elapsed'.square[n] = Longer(q.volume, x)
    BY DEF Step, CountStep
  <2>2. /\ q \in Square /\ m \in Note /\ m.halves <= m.length /\ x \in Nat
        /\ Runs(q.length, m, IF n = 1 THEN 2 ELSE 0) /\ Envelops(q.volume, x)
        /\ q.length \in Sequencer /\ q.volume \in Envelope
    BY DEF ApuInv, SquareInv, Square
  <2> HIDE DEF q, m, x
  <2>3. q.length.counter >= 0 /\ q.length.period >= 0
    BY <2>2, RunsAbove
  <2>4. /\ StepSquare(n, q) \in Square
        /\ StepSquare(n, q).volume = IF QuarterDue THEN EnvelopeClock(q.volume) ELSE q.volume
        /\ StepSquare(n, q).length = IF n = 1 THEN Counted(q.length, 2 * HalfFrames)
                                     ELSE q.length
    BY <2>2, <2>3, SteppedSquare
  <2>5. Runs(StepSquare(n, q).length, Aged(m, ~q.length.halt), IF n = 1 THEN 2 ELSE 0)
    <3>1. CASE n = 1
      BY <2>2, <2>4, <3>1, RunsOn
    <3>2. CASE n # 1
      <4>1. Counted(q.length, 0 * HalfFrames) = q.length
        <5>1. 0 * HalfFrames = 0
          BY DEF HalfFrames
        <5> QED BY <2>2, <2>3, <5>1, CountsNone
      <4>2. Runs(q.length, m, 0) /\ 0 \in 0 .. 2
        BY <2>2, <3>2
      <4> QED BY <2>2, <2>4, <3>2, <4>1, <4>2, RunsOn
    <3> QED BY <3>1, <3>2
  <2>6. Aged(m, ~q.length.halt) \in Note /\ Aged(m, ~q.length.halt).length = m.length
        /\ Aged(m, ~q.length.halt).halves <= m.length
    BY <2>2, AgedNote
  <2>7. /\ Envelops(StepSquare(n, q).volume, Longer(q.volume, x))
        /\ Longer(q.volume, x) \in Nat
    BY <2>2, <2>4, ElapsedStep
  <2> QED BY <2>1, <2>4, <2>5, <2>6, <2>7 DEF SquareInv
<1>3. TriangleInv(triangle', note'.triangle)
  <2> DEFINE t == triangle  m == note.triangle  b == t.enabled /\ ~t.length.halt
  <2>1. triangle' = StepTriangle(t) /\ note'.triangle = Aged(m, b)
    BY DEF Step, CountStep
  <2>2. /\ t \in Triangle /\ m \in Note /\ m.halves <= m.length /\ t.length \in Sequencer
        /\ m # NoNote => Runs(t.length, m, 1)
    BY DEF ApuInv, TriangleInv, Triangle
  <2>3. /\ Aged(m, b) \in Note /\ Aged(m, b).length = m.length /\ Aged(m, b).halves <= m.length
        /\ m = NoNote => Aged(m, b) = NoNote
    BY <2>2, AgedNote
  <2>4. ASSUME m # NoNote
        PROVE  Runs(StepTriangle(t).length, Aged(m, b), 1)
    <3>1. Runs(t.length, m, 1) /\ 1 \in 0 .. 2
      BY <2>2, <2>4
    <3>2. t.length.counter >= 0 /\ t.length.period >= 0
      BY <2>2, <3>1, RunsAbove
    <3>3. StepTriangle(t).length = IF t.enabled THEN Counted(t.length, HalfFrames) ELSE t.length
      BY <2>2, <3>2, SteppedTriangle
    <3>4. CASE t.enabled
      <4>1. 1 * HalfFrames = HalfFrames
        BY DEF HalfFrames
      <4>2. Runs(Counted(t.length, HalfFrames), Aged(m, ~t.length.halt), 1)
        BY <2>2, <3>1, <4>1, RunsOn
      <4> QED BY <3>3, <3>4, <4>2
    <3>5. CASE ~t.enabled
      BY <3>1, <3>3, <3>5 DEF Aged
    <3> QED BY <3>4, <3>5
  <2> HIDE DEF b
  <2> QED BY <2>1, <2>2, <2>3, <2>4, SteppedTriangle DEF TriangleInv
<1>4. NoiseInv(noise', note'.noise, elapsed'.noise)
  <2> DEFINE w == noise  m == note.noise  b == ~w.length.halt  x == elapsed.noise
  <2>1. /\ noise' = StepNoise(w) /\ note'.noise = Aged(m, b)
        /\ elapsed'.noise = Longer(w.volume, x)
    BY DEF Step, CountStep
  <2>2. /\ w \in Noise /\ m \in Note /\ m.halves <= m.length /\ w.length \in Sequencer
        /\ m # NoNote => Runs(w.length, m, 1)
        /\ w.volume \in Envelope /\ x \in Nat /\ Envelops(w.volume, x)
    BY DEF ApuInv, NoiseInv, Noise
  <2>3. /\ Aged(m, b) \in Note /\ Aged(m, b).length = m.length /\ Aged(m, b).halves <= m.length
        /\ m = NoNote => Aged(m, b) = NoNote
    BY <2>2, AgedNote
  <2>4. ASSUME m # NoNote
        PROVE  Runs(StepNoise(w).length, Aged(m, b), 1)
    <3>1. Runs(w.length, m, 1) /\ 1 \in 0 .. 2
      BY <2>2, <2>4
    <3>2. w.length.counter >= 0 /\ w.length.period >= 0
      BY <2>2, <3>1, RunsAbove
    <3>3. StepNoise(w).length = Counted(w.length, HalfFrames)
      BY <2>2, <3>2, SteppedNoise
    <3>4. 1 * HalfFrames = HalfFrames
      BY DEF HalfFrames
    <3> QED BY <2>2, <3>1, <3>3, <3>4, RunsOn
  <2>5. /\ StepNoise(w) \in Noise
        /\ StepNoise(w).volume = IF QuarterDue THEN EnvelopeClock(w.volume) ELSE w.volume
    BY <2>2, SteppedNoise
  <2>6. Envelops(StepNoise(w).volume, Longer(w.volume, x)) /\ Longer(w.volume, x) \in Nat
    BY <2>2, <2>5, ElapsedStep
  <2> HIDE DEF b
  <2> QED BY <2>1, <2>3, <2>4, <2>5, <2>6 DEF NoiseInv
<1>5. TickInv'
  BY InvTypes, RhythmStep DEF ApuInv, TickInv, TypeOK
<1> QED BY <1>1, <1>2, <1>3, <1>4, <1>5 DEF ApuInv

-----------------------------------------------------------------------------
(***************************************************************************)
(* The program's writes.  One of a channel's registers leaves the other    *)
(* channels and the frame counter alone.                                   *)
(***************************************************************************)
LEMMA TickStays ==
  TickInv /\ UNCHANGED <<counter, irqActive, rhythm>> => TickInv'
  BY DEF TickInv, counter, rhythm, CounterTypes, Rhythm, IrqCounted

LEMMA SquareWritten ==
  ASSUME ApuInv, NEW n \in Squares, NEW q, NEW m, WriteSquare(n, q),
         note' = [note EXCEPT !.square[n] = m],
         SquareInv(n, q, m, elapsed.square[n])
  PROVE  ApuInv'
<1>1. /\ square' = [square EXCEPT ![n] = q]
      /\ triangle' = triangle /\ noise' = noise /\ elapsed' = elapsed
  BY DEF WriteSquare
<1>2. /\ square'[n] = q /\ note'.square[n] = m
      /\ \A k \in Squares \ {n} : square'[k] = square[k] /\ note'.square[k] = note.square[k]
      /\ note'.triangle = note.triangle /\ note'.noise = note.noise
  BY <1>1 DEF ApuInv, Records
<1>3. Records'
  BY <1>1 DEF ApuInv, Records
<1>4. TickInv'
  BY TickStays DEF WriteSquare, ApuInv
<1> QED BY <1>1, <1>2, <1>3, <1>4 DEF ApuInv

LEMMA TriangleWritten ==
  ASSUME ApuInv, NEW t, NEW m, WriteTriangle(t), note' = [note EXCEPT !.triangle = m],
         TriangleInv(t, m)
  PROVE  ApuInv'
<1>1. triangle' = t /\ square' = square /\ noise' = noise /\ elapsed' = elapsed
  BY DEF WriteTriangle
<1>2. note'.triangle = m /\ note'.square = note.square /\ note'.noise = note.noise
  BY DEF ApuInv, Records
<1>3. Records'
  BY <1>1 DEF ApuInv, Records
<1>4. TickInv'
  BY TickStays DEF WriteTriangle, ApuInv
<1> QED BY <1>1, <1>2, <1>3, <1>4 DEF ApuInv

LEMMA NoiseWritten ==
  ASSUME ApuInv, NEW w, NEW m, WriteNoise(w), note' = [note EXCEPT !.noise = m],
         NoiseInv(w, m, elapsed.noise)
  PROVE  ApuInv'
<1>1. noise' = w /\ square' = square /\ triangle' = triangle /\ elapsed' = elapsed
  BY DEF WriteNoise
<1>2. note'.noise = m /\ note'.square = note.square /\ note'.triangle = note.triangle
  BY DEF ApuInv, Records
<1>3. Records'
  BY <1>1 DEF ApuInv, Records
<1>4. TickInv'
  BY TickStays DEF WriteNoise, ApuInv
<1> QED BY <1>1, <1>2, <1>3, <1>4 DEF ApuInv

LEMMA NotesStand ==
  ASSUME Records, UNCHANGED note
  PROVE  /\ \A n \in Squares : note' = [note EXCEPT !.square[n] = note.square[n]]
         /\ note' = [note EXCEPT !.triangle = note.triangle]
         /\ note' = [note EXCEPT !.noise = note.noise]
  BY DEF Records

\* A new note's counter begins at its length.
LEMMA LoadedNote ==
  ASSUME NEW s \in Sequencer, NEW length \in Lengths
  PROVE  /\ Load(s, length) \in Sequencer
         /\ [length |-> length, halves |-> 0] \in Note
         /\ [length |-> length, halves |-> 0] # NoNote
         /\ \A rate \in 0 .. 2 :
              Runs(Load(s, length), [length |-> length, halves |-> 0], rate)
<1>1. length \in 0 .. 254 /\ length > 0
  BY ApuAssumption
<1> DEFINE m == [length |-> length, halves |-> 0]
<1>2. m \in Note /\ m # NoNote /\ m.length = length /\ m.halves = 0
  BY <1>1 DEF Note, NoNote
<1>3. Load(s, length) \in Sequencer
  BY <1>1, SequencerTypes
<1>4. Load(s, length).counter = length /\ Load(s, length).period = length
  BY DEF Load, Sequencer
<1>5. ASSUME NEW rate \in 0 .. 2
      PROVE  Runs(Load(s, length), m, rate)
  <2>1. rate * 0 = 0
    OBVIOUS
  <2> HIDE DEF m
  <2>2. Left(m, rate) = length
    BY <1>1, <1>2, <2>1 DEF Left
  <2> QED BY <1>1, <1>4, <2>2 DEF Runs
<1> QED BY <1>2, <1>3, <1>5

\* Halting a counter leaves its count.
LEMMA HaltedNote ==
  ASSUME NEW s \in Sequencer, NEW m, NEW rate, Runs(s, m, rate), NEW b \in BOOLEAN
  PROVE  [s EXCEPT !.halt = b] \in Sequencer /\ Runs([s EXCEPT !.halt = b], m, rate)
<1>1. [s EXCEPT !.halt = b] \in Sequencer
  BY SequencerTypes
<1>2. [s EXCEPT !.halt = b].period = s.period /\ [s EXCEPT !.halt = b].counter = s.counter
  BY DEF Sequencer
<1> QED BY <1>1, <1>2 DEF Runs

LEMMA WrittenPeriods ==
  ASSUME NEW p \in Unset .. DWord - 1
  PROVE  /\ \A low \in PeriodsLow : LowWritten(p, low) \in Unset .. DWord - 1
         /\ \A high \in PeriodsHigh : HighWritten(p, high) \in Unset .. DWord - 1
<1> DEFINE k == p % DWord
<1>1. k \in 0 .. 65535
  BY DEF Unset, DWord
<1>2. PeriodsLow \subseteq 0 .. 255 /\ PeriodsHigh \subseteq 0 .. 7
  BY ApuAssumption
<1>3. /\ \A low : LowWritten(p, low) = (k \div 256) * 256 + low
      /\ \A high : HighWritten(p, high) = high * 256 + (k % 256)
  BY DEF LowWritten, HighWritten
<1> HIDE DEF k
<1>4. k \div 256 \in 0 .. 255
  <2>1. k \div 256 >= 0 /\ k \div 256 \in Int
    BY <1>1
  <2>2. k \div 256 <= 255
    BY <1>1
  <2> QED BY <2>1, <2>2
<1>5. k % 256 \in 0 .. 255
  BY <1>1
<1>6. ASSUME NEW d \in 0 .. 255, NEW e \in 0 .. 255
      PROVE  d * 256 + e \in Unset .. DWord - 1
  BY DEF Unset, DWord
<1>7. ASSUME NEW low \in PeriodsLow
      PROVE  LowWritten(p, low) \in Unset .. DWord - 1
  <2>1. low \in 0 .. 255
    BY <1>2
  <2>2. (k \div 256) * 256 + low \in Unset .. DWord - 1
    BY <1>4, <1>6, <2>1
  <2> QED BY <1>3, <2>2, Zenon
<1>8. ASSUME NEW high \in PeriodsHigh
      PROVE  HighWritten(p, high) \in Unset .. DWord - 1
  <2>1. high \in 0 .. 255
    BY <1>2
  <2>2. high * 256 + (k % 256) \in Unset .. DWord - 1
    BY <1>5, <1>6, <2>1
  <2> QED BY <1>3, <2>2, Zenon
<1> QED BY <1>7, <1>8, Zenon

LEMMA SquareWritesKeep == ApuInv /\ SquareWrites => ApuInv'
<1> SUFFICES ASSUME ApuInv, SquareWrites PROVE ApuInv'
  OBVIOUS
<1>1. PICK n \in Squares :
        \/ \E v \in Volumes : WriteSquareVolume(n, v)
        \/ \E s \in Sweeps : WriteSquareSweep(n, s)
        \/ \E low \in PeriodsLow : WriteSquareLow(n, low)
        \/ \E high \in PeriodsHigh, length \in Lengths : WriteSquareHigh(n, high, length)
  BY DEF SquareWrites
<1> DEFINE q == square[n]  m == note.square[n]  x == elapsed.square[n]
           rate == IF n = 1 THEN 2 ELSE 0
<1>2. /\ q \in Square /\ m \in Note /\ m.halves <= m.length /\ x \in Nat
      /\ Runs(q.length, m, rate) /\ Envelops(q.volume, x) /\ rate \in 0 .. 2
      /\ q.length \in Sequencer /\ q.volume \in Envelope /\ q.sweep.seq \in Sequencer
      /\ q.period \in Unset .. DWord - 1
  BY DEF ApuInv, SquareInv, Square, SweepUnit
<1>3. ASSUME NEW v \in Volumes, WriteSquareVolume(n, v) PROVE ApuInv'
  <2> DEFINE s == [q.length EXCEPT !.halt = v.halt]  e == SetVolume(q.volume, v)
             r == [q EXCEPT !.length = s, !.volume = e]
  <2>1. v \in Volume /\ v.halt \in BOOLEAN
    BY ApuAssumption DEF Volume
  <2>2. s \in Sequencer /\ Runs(s, m, rate)
    BY <1>2, <2>1, HaltedNote
  <2>3. e \in Envelope /\ Envelops(e, x)
    BY <1>2, <2>1, EnvelopeTypes, EnvelopeReset
  <2>4. WriteSquare(n, r) /\ note' = note
    BY <1>3, <1>2 DEF WriteSquareVolume, Square
  <2> HIDE DEF s, e
  <2>5. r \in Square /\ r.length = s /\ r.volume = e
    BY <1>2, <2>2, <2>3 DEF Square
  <2> HIDE DEF r
  <2>6. SquareInv(n, r, m, x)
    BY <1>2, <2>2, <2>3, <2>5 DEF SquareInv
  <2> QED BY <2>4, <2>6, NotesStand, SquareWritten DEF ApuInv
<1>4. ASSUME NEW s \in Sweeps, WriteSquareSweep(n, s) PROVE ApuInv'
  <2> DEFINE u == [seq |-> SetPeriod(q.sweep.seq, s.period), reset |-> TRUE,
                   enabled |-> s.enabled, negative |-> s.negative, shift |-> s.shift]
             r == [q EXCEPT !.sweep = u]
  <2>1. s \in Sweep /\ s.period \in 0 .. 254
    BY ApuAssumption DEF Sweep
  <2>2. SetPeriod(q.sweep.seq, s.period) \in Sequencer
    BY <1>2, <2>1, SequencerTypes
  <2>3. u \in SweepUnit
    BY <2>1, <2>2 DEF Sweep, SweepUnit
  <2>4. WriteSquare(n, r) /\ note' = note
    BY <1>4 DEF WriteSquareSweep
  <2> HIDE DEF u
  <2>5. r \in Square /\ r.length = q.length /\ r.volume = q.volume
    BY <1>2, <2>3 DEF Square
  <2> HIDE DEF r
  <2>6. SquareInv(n, r, m, x)
    BY <1>2, <2>5 DEF SquareInv
  <2> QED BY <2>4, <2>6, NotesStand, SquareWritten DEF ApuInv
<1>5. ASSUME NEW low \in PeriodsLow, WriteSquareLow(n, low) PROVE ApuInv'
  <2> DEFINE r == [q EXCEPT !.period = LowWritten(q.period, low)]
  <2>1. LowWritten(q.period, low) \in Unset .. DWord - 1
    BY <1>2, WrittenPeriods
  <2>2. WriteSquare(n, r) /\ note' = note
    BY <1>5 DEF WriteSquareLow
  <2>3. r \in Square /\ r.length = q.length /\ r.volume = q.volume
    BY <1>2, <2>1 DEF Square
  <2> HIDE DEF r
  <2>4. SquareInv(n, r, m, x)
    BY <1>2, <2>3 DEF SquareInv
  <2> QED BY <2>2, <2>4, NotesStand, SquareWritten DEF ApuInv
<1>6. ASSUME NEW high \in PeriodsHigh, NEW length \in Lengths,
             WriteSquareHigh(n, high, length)
      PROVE  ApuInv'
  <2> DEFINE s == Load(q.length, length)  e == ResetEnvelope(q.volume)
             p == HighWritten(q.period, high)  k == [length |-> length, halves |-> 0]
             r == [q EXCEPT !.period = p, !.volume = e, !.length = s]
  <2>1. /\ p \in Unset .. DWord - 1
        /\ s \in Sequencer /\ k \in Note /\ Runs(s, k, rate) /\ k.halves <= k.length
    <3>1. k.halves = 0 /\ k.length >= 0
      BY ApuAssumption
    <3> QED BY <1>2, <3>1, WrittenPeriods, LoadedNote
  <2>2. e \in Envelope /\ Envelops(e, x)
    <3>1. [halt |-> FALSE, volume |-> 0] \in Volume
      BY DEF Volume
    <3> QED BY <1>2, <3>1, EnvelopeTypes, EnvelopeReset
  <2>3. WriteSquare(n, r) /\ note' = [note EXCEPT !.square[n] = k]
    BY <1>2, <1>6 DEF WriteSquareHigh, SquareNote, Square
  <2> HIDE DEF s, e, p, k
  <2>4. r \in Square /\ r.length = s /\ r.volume = e
    BY <1>2, <2>1, <2>2 DEF Square
  <2> HIDE DEF r
  <2>5. SquareInv(n, r, k, x)
    BY <1>2, <2>1, <2>2, <2>4 DEF SquareInv
  <2> QED BY <2>3, <2>5, SquareWritten
<1> QED BY <1>1, <1>3, <1>4, <1>5, <1>6

\* The wave's going on and standing still, and its period, leave the counters.
LEMMA TunedTriangle ==
  ASSUME NEW t \in Triangle, NEW p \in Unset .. DWord - 1
  PROVE  /\ Resume(t) \in Triangle /\ Resume(t).length = t.length
         /\ Resume(t).linear = t.linear
         /\ SetTrianglePeriod(t, p) \in Triangle /\ SetTrianglePeriod(t, p).length = t.length
<1> DEFINE goes(b) == [t EXCEPT !.halt = b]  tuned(b) == [t EXCEPT !.period = p, !.halt = b]
<1>1. ASSUME NEW b \in BOOLEAN
      PROVE  /\ goes(b) \in Triangle /\ goes(b).length = t.length /\ goes(b).linear = t.linear
             /\ tuned(b) \in Triangle /\ tuned(b).length = t.length
  BY DEF Triangle
<1> DEFINE b1 == t.halt /\ t.period < 2  b2 == t.halt \/ p < 2
<1>2. Resume(t) = goes(b1) /\ SetTrianglePeriod(t, p) = tuned(b2)
  BY DEF Resume, SetTrianglePeriod
<1>3. b1 \in BOOLEAN /\ b2 \in BOOLEAN
  OBVIOUS
<1> HIDE DEF b1, b2, goes, tuned
<1>4. goes(b1) \in Triangle /\ goes(b1).length = t.length /\ goes(b1).linear = t.linear
  BY <1>1, <1>3
<1>5. tuned(b2) \in Triangle /\ tuned(b2).length = t.length
  BY <1>1, <1>3
<1> QED BY <1>2, <1>4, <1>5

LEMMA TriangleWritesKeep == ApuInv /\ TriangleWrites => ApuInv'
<1> SUFFICES ASSUME ApuInv, TriangleWrites PROVE ApuInv'
  OBVIOUS
<1> DEFINE t == triangle  m == note.triangle
<1>1. /\ t \in Triangle /\ m \in Note /\ m.halves <= m.length
      /\ m # NoNote => Runs(t.length, m, 1)
      /\ t.period \in Unset .. DWord - 1
      /\ t.length \in Sequencer /\ t.linear \in Sequencer
  BY DEF ApuInv, TriangleInv, Triangle
<1>2. ASSUME NEW l \in Linears, WriteTriangleLinear(l) PROVE ApuInv'
  <2> DEFINE counted == [t EXCEPT !.linear = SetPeriod(t.linear, l.count)]
             going   == IF l.count > 0 THEN Resume(counted) ELSE counted
             s       == [going.length EXCEPT !.halt = l.halt]
             c       == [going.linear EXCEPT !.halt = l.halt]
             r       == [going EXCEPT !.length = s, !.linear = c]
  <2>1. l.count \in 0 .. 254 /\ l.halt \in BOOLEAN
    BY ApuAssumption DEF Linear
  <2>2. counted \in Triangle /\ counted.length = t.length
    <3>1. SetPeriod(t.linear, l.count) \in Sequencer
      BY <1>1, <2>1, SequencerTypes
    <3> QED BY <1>1, <3>1 DEF Triangle
  <2>3. WriteTriangle(r) /\ UNCHANGED note
    <3>1. going \in Triangle
      BY <1>1, <2>2, TunedTriangle
    <3>2. SetLinearCounter(t, l) = [going EXCEPT !.length.halt = l.halt, !.linear.halt = l.halt]
      BY DEF SetLinearCounter
    <3> HIDE DEF going
    <3>3. [going EXCEPT !.length.halt = l.halt, !.linear.halt = l.halt] = r
      BY <3>1 DEF Triangle
    <3> QED BY <1>2, <3>2, <3>3 DEF WriteTriangleLinear
  <2> HIDE DEF counted
  <2>4. going \in Triangle /\ going.length = t.length
    BY <1>1, <2>2, TunedTriangle
  <2> HIDE DEF going
  <2>5. /\ s \in Sequencer /\ c \in Sequencer
        /\ m # NoNote => Runs(s, m, 1)
    <3>1. going.linear \in Sequencer
      BY <2>4 DEF Triangle
    <3> QED BY <1>1, <2>1, <2>4, <3>1, SequencerTypes, HaltedNote
  <2> HIDE DEF s, c
  <2>6. r \in Triangle /\ r.length = s
    BY <2>4, <2>5 DEF Triangle
  <2> HIDE DEF r
  <2>7. TriangleInv(r, m)
    BY <1>1, <2>5, <2>6 DEF TriangleInv
  <2> QED BY <2>3, <2>7, NotesStand, TriangleWritten DEF ApuInv
<1>3. ASSUME NEW low \in PeriodsLow, WriteTriangleLow(low) PROVE ApuInv'
  <2> DEFINE r == SetTrianglePeriod(t, LowWritten(t.period, low))
  <2>1. r \in Triangle /\ r.length = t.length
    <3>1. LowWritten(t.period, low) \in Unset .. DWord - 1
      BY <1>1, WrittenPeriods
    <3> QED BY <1>1, <3>1, TunedTriangle
  <2>2. WriteTriangle(r) /\ UNCHANGED note
    BY <1>3 DEF WriteTriangleLow
  <2> HIDE DEF r
  <2>3. TriangleInv(r, m)
    BY <1>1, <2>1 DEF TriangleInv
  <2> QED BY <2>2, <2>3, NotesStand, TriangleWritten DEF ApuInv
<1>4. ASSUME NEW high \in PeriodsHigh, NEW length \in Lengths, WriteTriangleHigh(high, length)
      PROVE  ApuInv'
  <2> DEFINE tuned  == SetTrianglePeriod(t, HighWritten(t.period, high))
             s      == Load(tuned.length, length)
             begun  == [tuned EXCEPT !.length = s, !.linearReset = TRUE]
             r      == Resume(begun)
             k      == [length |-> length, halves |-> 0]
  <2>1. tuned \in Triangle /\ tuned.length = t.length
    <3>1. HighWritten(t.period, high) \in Unset .. DWord - 1
      BY <1>1, WrittenPeriods
    <3> QED BY <1>1, <3>1, TunedTriangle
  <2>2. WriteTriangle(r) /\ note' = [note EXCEPT !.triangle = k]
    BY <1>4 DEF WriteTriangleHigh, NewNote
  <2> HIDE DEF tuned
  <2>3. s \in Sequencer /\ k \in Note /\ Runs(s, k, 1) /\ k.halves <= k.length
    <3>1. k.halves = 0 /\ k.length >= 0
      BY ApuAssumption
    <3> QED BY <1>1, <2>1, <3>1, LoadedNote
  <2> HIDE DEF s, k
  <2>4. begun \in Triangle /\ begun.length = s
    <3>1. \A b \in BOOLEAN : [tuned EXCEPT !.length = s, !.linearReset = b] \in Triangle
      BY <2>1, <2>3 DEF Triangle
    <3>2. begun.length = s
      BY <2>1 DEF Triangle
    <3> QED BY <3>1, <3>2
  <2> HIDE DEF begun
  <2>5. r \in Triangle /\ r.length = s
    <3>1. Unset \in Unset .. DWord - 1
      BY DEF Unset, DWord
    <3> QED BY <2>4, <3>1, TunedTriangle
  <2> HIDE DEF r
  <2>6. TriangleInv(r, k)
    BY <2>3, <2>5 DEF TriangleInv
  <2> QED BY <2>2, <2>6, TriangleWritten
<1> QED BY <1>2, <1>3, <1>4 DEF TriangleWrites

LEMMA NoiseWritesKeep == ApuInv /\ NoiseWrites => ApuInv'
<1> SUFFICES ASSUME ApuInv, NoiseWrites PROVE ApuInv'
  OBVIOUS
<1> DEFINE w == noise  m == note.noise  x == elapsed.noise
<1>1. /\ w \in Noise /\ m \in Note /\ m.halves <= m.length
      /\ m # NoNote => Runs(w.length, m, 1)
      /\ x \in Nat /\ Envelops(w.volume, x)
      /\ w.length \in Sequencer /\ w.volume \in Envelope
  BY DEF ApuInv, NoiseInv, Noise
<1>2. ASSUME NEW v \in Volumes, WriteNoiseVolume(v) PROVE ApuInv'
  <2> DEFINE s == [w.length EXCEPT !.halt = v.halt]  e == SetVolume(w.volume, v)
             r == [w EXCEPT !.length = s, !.volume = e]
  <2>1. v \in Volume /\ v.halt \in BOOLEAN
    BY ApuAssumption DEF Volume
  <2>2. s \in Sequencer /\ (m # NoNote => Runs(s, m, 1))
    BY <1>1, <2>1, SequencerTypes, HaltedNote
  <2>3. e \in Envelope /\ Envelops(e, x)
    BY <1>1, <2>1, EnvelopeTypes, EnvelopeReset
  <2>4. WriteNoise(r) /\ UNCHANGED note
    BY <1>1, <1>2 DEF WriteNoiseVolume, Noise
  <2> HIDE DEF s, e
  <2>5. r \in Noise /\ r.length = s /\ r.volume = e
    BY <1>1, <2>2, <2>3 DEF Noise
  <2> HIDE DEF r
  <2>6. NoiseInv(r, m, x)
    BY <1>1, <2>2, <2>3, <2>5 DEF NoiseInv
  <2> QED BY <2>4, <2>6, NotesStand, NoiseWritten DEF ApuInv
<1>3. ASSUME NEW length \in Lengths, WriteNoiseLength(length) PROVE ApuInv'
  <2> DEFINE s == Load(w.length, length)  e == ResetEnvelope(w.volume)
             r == [w EXCEPT !.length = s, !.volume = e]
             k == [length |-> length, halves |-> 0]
  <2>1. s \in Sequencer /\ k \in Note /\ Runs(s, k, 1) /\ k.halves <= k.length
    <3>1. k.halves = 0 /\ k.length >= 0
      BY ApuAssumption
    <3> QED BY <1>1, <3>1, LoadedNote
  <2>2. e \in Envelope /\ Envelops(e, x)
    <3>1. [halt |-> FALSE, volume |-> 0] \in Volume
      BY DEF Volume
    <3> QED BY <1>1, <3>1, EnvelopeTypes, EnvelopeReset
  <2>3. WriteNoise(r) /\ note' = [note EXCEPT !.noise = k]
    BY <1>3 DEF WriteNoiseLength, NewNote
  <2> HIDE DEF s, e, k
  <2>4. r \in Noise /\ r.length = s /\ r.volume = e
    BY <1>1, <2>1, <2>2 DEF Noise
  <2> HIDE DEF r
  <2>5. NoiseInv(r, k, x)
    BY <1>1, <2>1, <2>2, <2>4 DEF NoiseInv
  <2> QED BY <2>3, <2>5, NoiseWritten
<1> QED BY <1>2, <1>3 DEF NoiseWrites

\* $4015 takes a channel's note, or leaves it.
LEMMA ChannelsKeep == ApuInv /\ (\E e \in Enables : WriteChannels(e)) => ApuInv'
<1> SUFFICES ASSUME ApuInv, NEW e \in Enables, WriteChannels(e) PROVE ApuInv'
  OBVIOUS
<1>1. e \in Enable /\ e.triangle \in BOOLEAN /\ e.noise \in BOOLEAN
      /\ \A n \in Squares : e.square[n] \in BOOLEAN
  BY ApuAssumption DEF Enable
<1>2. ASSUME NEW s \in Sequencer, NEW m \in Note, m.halves <= m.length, NEW off \in BOOLEAN
      PROVE  /\ SilencedIf(off, s) \in Sequencer /\ ForgottenIf(off, m) \in Note
             /\ ForgottenIf(off, m).halves <= ForgottenIf(off, m).length
             /\ \A rate \in 0 .. 2 :
                  Runs(s, m, rate) => Runs(SilencedIf(off, s), ForgottenIf(off, m), rate)
             /\ ForgottenIf(off, m) # NoNote =>
                  SilencedIf(off, s) = s /\ ForgottenIf(off, m) = m
  <2>1. Load(s, 0) \in Sequencer
    BY SequencerTypes
  <2> QED BY <1>2, <2>1, Fresh DEF SilencedIf, ForgottenIf
<1>3. Records'
  BY DEF WriteChannels, Records, ApuInv
<1>4. ASSUME NEW n \in Squares
      PROVE  SquareInv(n, square'[n], note'.square[n], elapsed'.square[n])
  <2> DEFINE q == square[n]  m == note.square[n]  off == ~e.square[n]
             s == SilencedIf(off, q.length)  k == ForgottenIf(off, m)
  <2>1. /\ square'[n] = [q EXCEPT !.enabled = e.square[n], !.length = s]
        /\ note'.square[n] = k /\ elapsed' = elapsed
    BY DEF WriteChannels
  <2>2. /\ q \in Square /\ q.length \in Sequencer /\ m \in Note /\ m.halves <= m.length
        /\ Runs(q.length, m, IF n = 1 THEN 2 ELSE 0)
        /\ elapsed.square[n] \in Nat /\ Envelops(q.volume, elapsed.square[n])
    BY DEF ApuInv, SquareInv, Square
  <2>3. /\ s \in Sequencer /\ k \in Note /\ k.halves <= k.length
        /\ Runs(s, k, IF n = 1 THEN 2 ELSE 0)
    <3>1. off \in BOOLEAN
      BY <1>1
    <3>2. (IF n = 1 THEN 2 ELSE 0) \in 0 .. 2
      OBVIOUS
    <3> HIDE DEF off
    <3> QED BY <1>2, <2>2, <3>1, <3>2
  <2> HIDE DEF s, k
  <2>4. /\ square'[n] \in Square /\ square'[n].length = s
        /\ square'[n].volume = q.volume
    BY <1>1, <2>1, <2>2, <2>3 DEF Square
  <2> QED BY <2>1, <2>2, <2>3, <2>4 DEF SquareInv
<1>5. TriangleInv(triangle', note'.triangle)
  <2> DEFINE t == triangle  m == note.triangle  off == ~e.triangle
             s == SilencedIf(off, t.length)  k == ForgottenIf(off, m)
  <2>1. triangle' = [t EXCEPT !.enabled = e.triangle, !.length = s] /\ note'.triangle = k
    BY DEF WriteChannels
  <2>2. /\ t \in Triangle /\ t.length \in Sequencer /\ m \in Note /\ m.halves <= m.length
        /\ m # NoNote => Runs(t.length, m, 1)
    BY DEF ApuInv, TriangleInv, Triangle
  <2>3. /\ s \in Sequencer /\ k \in Note /\ k.halves <= k.length
        /\ k # NoNote => s = t.length /\ k = m
    <3>1. off \in BOOLEAN
      BY <1>1
    <3> HIDE DEF off
    <3> QED BY <1>2, <2>2, <3>1
  <2> HIDE DEF s, k
  <2>4. triangle' \in Triangle /\ triangle'.length = s
    BY <1>1, <2>1, <2>2, <2>3 DEF Triangle
  <2> QED BY <2>1, <2>2, <2>3, <2>4 DEF TriangleInv
<1>6. NoiseInv(noise', note'.noise, elapsed'.noise)
  <2> DEFINE w == noise  m == note.noise  s == SilencedIf(e.noise, w.length)
             k == ForgottenIf(e.noise, m)
  <2>1. /\ noise' = [w EXCEPT !.enabled = e.noise, !.length = s] /\ note'.noise = k
        /\ elapsed' = elapsed
    BY DEF WriteChannels
  <2>2. /\ w \in Noise /\ w.length \in Sequencer /\ m \in Note /\ m.halves <= m.length
        /\ m # NoNote => Runs(w.length, m, 1)
        /\ elapsed.noise \in Nat /\ Envelops(w.volume, elapsed.noise)
    BY DEF ApuInv, NoiseInv, Noise
  <2>3. /\ s \in Sequencer /\ k \in Note /\ k.halves <= k.length
        /\ k # NoNote => s = w.length /\ k = m
    BY <1>1, <1>2, <2>2
  <2> HIDE DEF s, k
  <2>4. noise' \in Noise /\ noise'.length = s /\ noise'.volume = w.volume
    BY <1>1, <2>1, <2>2, <2>3 DEF Noise
  <2> QED BY <2>1, <2>2, <2>3, <2>4 DEF NoiseInv
<1>7. TickInv'
  BY TickStays DEF WriteChannels, ApuInv
<1> QED BY <1>3, <1>4, <1>5, <1>6, <1>7 DEF ApuInv

\* The frame counter's own actions leave the channels.
LEMMA ChannelsStay == ApuInv /\ UNCHANGED <<channels, note, elapsed>> /\ TickInv' => ApuInv'
  BY DEF ApuInv, channels, Records

\* $4017 begins the sequence anew, whatever the ticks since.
LEMMA FrameCounterKeeps ==
  ApuInv /\ (\E mode, inhibit \in BOOLEAN : WriteFrameCounter(mode, inhibit)) => ApuInv'
<1> SUFFICES ASSUME ApuInv, NEW mode \in BOOLEAN, NEW inhibit \in BOOLEAN,
                    WriteFrameCounter(mode, inhibit)
             PROVE  ApuInv'
  OBVIOUS
<1>1. 0 % 4 = 0
  OBVIOUS
<1>2. 0 \in 0 .. SeqWrap - 1
  BY ApuAssumption DEF ApuInv, TickInv, CounterTypes
<1>3. TickInv'
  <2>1. CounterTypes'
    BY <1>2 DEF ApuInv, TickInv, CounterTypes, WriteFrameCounter
  <2>2. Rhythm'
    BY DEF ApuInv, TickInv, Rhythm, WriteFrameCounter
  <2>3. IrqCounted'
    BY <1>1 DEF IrqCounted, WriteFrameCounter
  <2> QED BY <2>1, <2>2, <2>3 DEF TickInv, ApuInv, WriteFrameCounter
<1> QED BY <1>3, ChannelsStay DEF WriteFrameCounter

LEMMA ReadKeeps == ApuInv /\ ReadChannels => ApuInv'
<1> SUFFICES ASSUME ApuInv, ReadChannels PROVE ApuInv'
  OBVIOUS
<1>1. TickInv'
  BY DEF ApuInv, TickInv, CounterTypes, Rhythm, IrqCounted, ReadChannels, history, rhythm
<1> QED BY <1>1, ChannelsStay DEF ReadChannels, history

LEMMA AcknowledgeKeeps == ApuInv /\ AcknowledgeIrq => ApuInv'
<1> SUFFICES ASSUME ApuInv, AcknowledgeIrq PROVE ApuInv'
  OBVIOUS
<1>1. TickInv'
  BY DEF ApuInv, TickInv, CounterTypes, Rhythm, IrqCounted, AcknowledgeIrq, counter, history,
         rhythm
<1> QED BY <1>1, ChannelsStay DEF AcknowledgeIrq, history

LEMMA PowerKeeps == ApuInv /\ PowerCycle => ApuInv'
<1> SUFFICES ASSUME ApuInv, PowerCycle PROVE ApuInv'
  OBVIOUS
<1>1. Records'
  BY DEF PowerCycle, Records, ApuInv
<1>2. ASSUME NEW n \in Squares
      PROVE  SquareInv(n, square'[n], note'.square[n], elapsed'.square[n])
  <2> DEFINE q == square[n]  s == Load(q.length, 0)
  <2>1. square'[n] = [q EXCEPT !.length = s] /\ elapsed' = elapsed
    BY DEF PowerCycle
  <2>2. note'.square[n] = NoNote
    BY DEF PowerCycle, ApuInv, Records
  <2>3. /\ q \in Square /\ q.length \in Sequencer
        /\ elapsed.square[n] \in Nat /\ Envelops(q.volume, elapsed.square[n])
    BY DEF ApuInv, SquareInv, Square
  <2>4. s \in Sequencer /\ Runs(s, NoNote, IF n = 1 THEN 2 ELSE 0)
    <3>1. (IF n = 1 THEN 2 ELSE 0) \in 0 .. 2
      OBVIOUS
    <3>2. 0 \in 0 .. 254
      OBVIOUS
    <3> QED BY <2>3, <3>1, <3>2, Fresh, SequencerTypes
  <2> HIDE DEF s
  <2>5. square'[n] \in Square /\ square'[n].length = s /\ square'[n].volume = q.volume
    BY <2>1, <2>3, <2>4 DEF Square
  <2> QED BY <2>1, <2>2, <2>3, <2>4, <2>5, Fresh DEF SquareInv
<1>3. TriangleInv(triangle', note'.triangle) /\ NoiseInv(noise', note'.noise, elapsed'.noise)
  BY DEF PowerCycle, ApuInv, Records
<1>4. TickInv'
  <2>1. 0 \in 0 .. SeqWrap - 1
    BY ApuAssumption DEF ApuInv, TickInv, CounterTypes
  <2>2. CounterTypes'
    BY <2>1 DEF ApuInv, TickInv, CounterTypes, PowerCycle
  <2>3. SinceHalfFive(0) = 1
    BY DEF SinceHalfFive
  <2> QED BY <2>2, <2>3 DEF TickInv, Rhythm, IrqCounted, PowerCycle
<1> QED BY <1>1, <1>2, <1>3, <1>4 DEF ApuInv

LEMMA ApuStep == ApuInv /\ [Next]_vars => ApuInv'
<1> SUFFICES ASSUME ApuInv, [Next]_vars PROVE ApuInv'
  OBVIOUS
<1>1. CASE ProgramStep
  BY <1>1, SquareWritesKeep, TriangleWritesKeep, NoiseWritesKeep, ChannelsKeep,
     FrameCounterKeeps, ReadKeeps DEF ProgramStep
<1>2. CASE UNCHANGED vars
  <2>1. TickInv'
    BY <1>2, TickStays DEF ApuInv, vars, history
  <2> QED BY <1>2, <2>1, ChannelsStay DEF vars, history
<1> QED BY <1>1, <1>2, StepKeeps, AcknowledgeKeeps, PowerKeeps DEF Next

-----------------------------------------------------------------------------
\* ApuInv is an invariant, however the program's accesses fall between the steps.
THEOREM ApuInvariance == Spec => []ApuInv
BY ApuInit, ApuStep, PTL DEF Spec

\* Types: no counter leaves its range, and a swept period stays in 16 bits.
THEOREM ApuTypes == Spec => []TypeOK
BY ApuInvariance, InvTypes, PTL

\* A length counter is its note's length less the half frames since, at the
\* rate that its channel is clocked.
THEOREM LengthsRunDown == Spec => []LengthsAsClocked
<1>1. ApuInv => LengthsAsClocked
  <2> SUFFICES ASSUME ApuInv PROVE LengthsAsClocked
    OBVIOUS
  <2>1. 1 \in Squares /\ 2 \in Squares /\ 2 # 1
    BY DEF Squares
  <2> QED BY <2>1 DEF ApuInv, SquareInv, TriangleInv, NoiseInv, Runs, LengthsAsClocked
<1> QED BY <1>1, ApuInvariance, PTL

\* An envelope's decay is told by its period and the quarter frames since it began.
THEOREM EnvelopesDecay == Spec => []EnvelopeAsElapsed
<1>1. ASSUME NEW e \in Envelope, NEW x \in Nat, Envelops(e, x)
      PROVE  FallsAsElapsed(e, x)
  <2> DEFINE p == e.seq.period  delay == p + 1  fallen == Top - e.decay
  <2>1. /\ e.decay \in 0 .. Top /\ Top \in Nat /\ p \in Unset .. 254
        /\ e.reset \in BOOLEAN /\ e.looping \in BOOLEAN
    BY ApuAssumption DEF Envelope, Sequencer
  <2>2. CASE ~e.reset /\ p = Unset
    BY <1>1, <2>2 DEF Envelops, FallsAsElapsed
  <2>3. CASE ~e.reset /\ p # Unset
    <3>1. /\ e.seq.counter \in 0 .. p
          /\ x = IF e.looping \/ e.decay > 0 THEN fallen * delay + (p - e.seq.counter)
                 ELSE Top * delay
      BY <1>1, <2>3 DEF Envelops
    <3>2. /\ fallen \in Nat /\ delay \in Nat \ {0} /\ Top - fallen = e.decay
          /\ p - e.seq.counter \in 0 .. delay - 1 /\ 0 \in 0 .. delay - 1
      BY <2>1, <3>1
    <3> HIDE DEF fallen, delay
    <3>3. x \div delay = fallen
      <4>1. CASE e.looping \/ e.decay > 0
        BY <3>1, <3>2, <4>1, Delays
      <4>2. CASE ~(e.looping \/ e.decay > 0)
        <5>1. fallen = Top
          BY <2>1, <4>2 DEF fallen
        <5>2. x = fallen * delay + 0
          BY <3>1, <3>2, <4>2, <5>1, Delays
        <5> QED BY <3>2, <5>2, Delays
      <4> QED BY <4>1, <4>2
    <3> QED BY <2>3, <3>2, <3>3 DEF FallsAsElapsed, delay
  <2> QED BY <2>1, <2>2, <2>3 DEF FallsAsElapsed
<1>2. ApuInv => EnvelopeAsElapsed
  BY <1>1 DEF ApuInv, SquareInv, NoiseInv, Square, Noise, EnvelopeAsElapsed
<1> QED BY <1>2, ApuInvariance, PTL

\* Quarter and half frames keep coming, though the byte wraps at no multiple of five.
THEOREM FramesInRhythm == Spec => []FrameRhythm
<1>1. ApuInv => FrameRhythm
  <2> SUFFICES ASSUME ApuInv PROVE FrameRhythm
    OBVIOUS
  <2> DEFINE s == frameCounterSeqNum
  <2>1. s \in Nat /\ sinceHalf \in Nat
    BY ApuAssumption DEF ApuInv, TickInv, CounterTypes
  <2>2. SinceHalfFour(s) <= 1 /\ SinceHalfFive(s) <= 2
    <3>1. s = 0 \/ s = 1 \/ (s > 1 /\ s % 5 \in 0 .. 4)
      BY <2>1
    <3> QED BY <3>1 DEF SinceHalfFour, SinceHalfFive
  <2>3. SinceHalfFour(s) \in Int /\ SinceHalfFive(s) \in Int
    <3>1. s = 0 \/ s = 1 \/ (s > 1 /\ s % 5 \in 0 .. 4)
      BY <2>1
    <3> QED BY <3>1 DEF SinceHalfFour, SinceHalfFive
  <2> QED BY <2>1, <2>2, <2>3 DEF ApuInv, TickInv, Rhythm, FrameRhythm
<1> QED BY <1>1, ApuInvariance, PTL

\* The frame IRQ falls due every fourth tick, across the byte's wrap as well.
THEOREM IrqsEveryFour == Spec => []IrqEveryFourthTick
<1>1. ApuInv => IrqEveryFourthTick
  BY DEF ApuInv, TickInv, IrqCounted, IrqEveryFourthTick, IrqDue
<1> QED BY <1>1, ApuInvariance, PTL
=============================================================================
