--------------------------- MODULE Threads_proofs ---------------------------
(***************************************************************************)
(* The two parts of the program that threads share.                        *)
(*                                                                         *)
(* For every limit of the queue, every block length and every number of    *)
(* samples: AudioQueue keeps its types, the mutex excludes, the queue      *)
(* keeps to its limit, nothing is popped from an empty queue, blocks have  *)
(* no gap and nothing is played twice or out of order; and the two threads *)
(* see SampleFifo.                                                         *)
(*                                                                         *)
(* For every number of runs of the program, of resets and of lines:        *)
(* LogServer keeps its types, what is printed is what one run has written, *)
(* and as long as no call fails nobody closes a socket but his own.        *)
(***************************************************************************)
EXTENDS AudioQueue, LogServer, SequenceTheorems, TLAPS

-----------------------------------------------------------------------------
(***************************************************************************)
(* The audio queue.                                                        *)
(***************************************************************************)
\* s holds the numbers that end with last.
EndsWith(s, last) == \A i \in 1 .. Len(s) : s[i] = last - Len(s) + i

\* A thread is between lock and unlock if, and only if, it holds the mutex.
Exclusion == /\ emulator # "runs" <=> mu = "emulator"
             /\ callback = "pop" <=> mu = "callback"

\* A push that has looked and not yet appended: there is a sample to append,
\* and room for it or a reason to make room.
PushInv == /\ emulator \in {"check", "discard", "append"} => sent < MaxSent
           /\ emulator = "discard" => MaxSize > 0 /\ Len(queue) = MaxSize
           /\ emulator = "append" /\ MaxSize > 0 => Len(queue) < MaxSize

\* The queue holds the newest samples; a running pop holds those before them.
StreamInv == /\ EndsWith(queue, sent) /\ Len(queue) <= sent
             /\ callback = "pop" => EndsWith(retrieved, sent - Len(queue))

\* What was played is older than what is held, and that than the queue.
PlayedInv ==
  /\ callback = "pop" => heard + Len(retrieved) + Len(queue) <= sent
  /\ callback = "fill" =>
       \A i \in 1 .. Len(audioData) : heard < audioData[i] /\ audioData[i] <= sent - Len(queue)
  /\ heard <= sent - Len(queue)

IInv == /\ TypeOK /\ Exclusion /\ PushInv /\ StreamInv /\ PlayedInv
        /\ QueueBounded /\ NeverPopsEmpty /\ BlockHasNoGap

-----------------------------------------------------------------------------
LEMMA InitInv == Init => IInv
<1>. SUFFICES ASSUME Init PROVE IInv
  OBVIOUS
<1>1. TypeOK
  <2>1. <<>> \in Seq(Samples) /\ <<>> \in Seq(0 .. MaxSent)
    BY EmptySeq
  <2>2. 0 \in 0 .. MaxSent
    BY SentAssumption
  <2>. QED
    BY <2>1, <2>2 DEF Init, TypeOK
<1>. QED
  BY <1>1, SizeAssumption
     DEF Init, IInv, Exclusion, PushInv, StreamInv, PlayedInv, EndsWith, QueueBounded,
         NeverPopsEmpty, BlockHasNoGap, Consecutive

\* Steps that touch neither a sequence nor a count of samples.
LEMMA ControlInv ==
  ASSUME IInv, PlayAudio \/ PushLock \/ PushCheck \/ PushUnlock \/ Callback
  PROVE  IInv'
<1>. USE DEF emulatorVars, callbackVars
<1>0. TypeOK /\ Len(queue) \in Nat /\ MaxSize \in Nat
  BY SizeAssumption, LenProperties DEF IInv, TypeOK
<1>1. CASE PlayAudio
  BY <1>1 DEF PlayAudio, IInv, TypeOK, Exclusion, PushInv, StreamInv, PlayedInv, EndsWith,
              QueueBounded, NeverPopsEmpty, BlockHasNoGap, Consecutive
<1>2. CASE PushLock
  BY <1>0, <1>2
     DEF PushLock, IInv, TypeOK, Exclusion, PushInv, StreamInv, PlayedInv, EndsWith,
         QueueBounded, NeverPopsEmpty, BlockHasNoGap, Consecutive
<1>3. CASE PushCheck
  <2>1. PushInv'
    BY <1>0, <1>3 DEF PushCheck, Overflow, IInv, PushInv, QueueBounded
  <2>. QED
    BY <1>0, <1>3, <2>1
       DEF PushCheck, Overflow, IInv, TypeOK, Exclusion, StreamInv, PlayedInv, EndsWith,
           QueueBounded, NeverPopsEmpty, BlockHasNoGap, Consecutive
<1>4. CASE PushUnlock
  BY <1>4 DEF PushUnlock, IInv, TypeOK, Exclusion, PushInv, StreamInv, PlayedInv, EndsWith,
              QueueBounded, NeverPopsEmpty, BlockHasNoGap, Consecutive
<1>5. CASE Callback
  BY <1>5, BlockAssumption
     DEF Callback, IInv, TypeOK, Exclusion, PushInv, StreamInv, PlayedInv, EndsWith,
         QueueBounded, NeverPopsEmpty, BlockHasNoGap, Consecutive
<1>. QED
  BY <1>1, <1>2, <1>3, <1>4, <1>5

\* RemoveOldestRecords(maxSize) empties the queue.
LEMMA DiscardInv ==
  ASSUME IInv, PushDiscard
  PROVE  IInv'
<1>1. /\ queue \in Seq(Samples) /\ Len(queue) = MaxSize /\ MaxSize \in Nat \ {0}
      /\ callback # "pop" /\ sent \in Nat /\ heard \in Nat
  <2>1. emulator = "discard" /\ callback # "pop"
    BY DEF IInv, Exclusion, PushDiscard
  <2>. QED
    BY <2>1, SizeAssumption, SentAssumption DEF IInv, TypeOK, PushInv
<1>2. queue' = <<>> /\ Len(queue') = 0
  BY <1>1, SubSeqEmpty DEF PushDiscard
<1>3. discarded' = queue
  BY <1>1, SubSeqFull DEF PushDiscard
<1>4. TypeOK'
  BY <1>1, <1>2, <1>3, EmptySeq DEF PushDiscard, callbackVars, IInv, TypeOK
<1>5. Exclusion' /\ PushInv'
  BY <1>1, <1>2 DEF PushDiscard, callbackVars, IInv, Exclusion, PushInv
<1>6. StreamInv' /\ PlayedInv'
  <2>1. StreamInv'
    BY <1>1, <1>2 DEF PushDiscard, callbackVars, StreamInv, EndsWith
  <2>2. \A i \in 1 .. Len(audioData) : audioData[i] \in Nat
    BY ElementOfSeq, SentAssumption DEF IInv, TypeOK, Samples
  <2>3. PlayedInv'
    BY <1>1, <1>2, <2>2 DEF PushDiscard, callbackVars, IInv, PlayedInv
  <2>. QED
    BY <2>1, <2>3
<1>7. QueueBounded' /\ NeverPopsEmpty' /\ BlockHasNoGap'
  BY <1>1, <1>2 DEF PushDiscard, callbackVars, IInv, QueueBounded, NeverPopsEmpty,
                    BlockHasNoGap, Consecutive
<1>. QED
  BY <1>4, <1>5, <1>6, <1>7 DEF IInv

LEMMA AppendInv ==
  ASSUME IInv, PushAppend
  PROVE  IInv'
<1>1. /\ queue \in Seq(Samples) /\ Len(queue) \in Nat /\ MaxSize \in Nat /\ sent \in Nat
      /\ sent < MaxSent /\ heard \in Nat /\ callback # "pop" /\ Len(queue) <= sent
  BY SizeAssumption, SentAssumption, LenProperties
     DEF IInv, TypeOK, PushInv, Exclusion, StreamInv, PushAppend
<1>2. sent' \in Samples /\ sent' = sent + 1
  BY <1>1, SentAssumption DEF PushAppend, Samples
<1>3. /\ queue' \in Seq(Samples) /\ Len(queue') = Len(queue) + 1
      /\ \A i \in 1 .. Len(queue) : queue'[i] = queue[i]
      /\ queue'[Len(queue) + 1] = sent + 1
  BY <1>1, <1>2, AppendProperties DEF PushAppend
<1>4. TypeOK'
  BY <1>1, <1>2, <1>3, SentAssumption, EmptySeq DEF PushAppend, callbackVars, IInv, TypeOK
<1>5. Exclusion' /\ PushInv'
  BY <1>1 DEF PushAppend, callbackVars, IInv, Exclusion, PushInv
<1>6. EndsWith(queue', sent')
  BY <1>1, <1>2, <1>3 DEF IInv, StreamInv, EndsWith
<1>7. StreamInv' /\ PlayedInv'
  BY <1>1, <1>2, <1>3, <1>6
     DEF PushAppend, callbackVars, IInv, StreamInv, PlayedInv, TypeOK
<1>8. QueueBounded' /\ NeverPopsEmpty' /\ BlockHasNoGap'
  BY <1>1, <1>3 DEF PushAppend, callbackVars, IInv, PushInv, QueueBounded,
                    NeverPopsEmpty, BlockHasNoGap, Consecutive
<1>. QED
  BY <1>4, <1>5, <1>7, <1>8 DEF IInv

LEMMA PopLockInv ==
  ASSUME IInv, PopLock
  PROVE  IInv'
<1>1. /\ queue' = queue /\ Len(queue) \in Nat /\ want \in Nat
      /\ emulator' = emulator /\ sent' = sent /\ heard' = heard
  BY LenProperties DEF IInv, TypeOK, PopLock, emulatorVars
<1>2. toPop' \in Nat /\ toPop' <= Len(queue) /\ retrieved' = <<>> /\ Len(retrieved') = 0
  BY <1>1 DEF PopLock, ReturnLen
<1>3. TypeOK'
  BY <1>1, <1>2, EmptySeq DEF PopLock, emulatorVars, IInv, TypeOK
<1>4. Exclusion' /\ PushInv'
  BY <1>1 DEF PopLock, emulatorVars, IInv, Exclusion, PushInv
<1>5. StreamInv' /\ PlayedInv'
  BY <1>1, <1>2 DEF PopLock, emulatorVars, IInv, StreamInv, PlayedInv, EndsWith, TypeOK
<1>6. QueueBounded' /\ NeverPopsEmpty' /\ BlockHasNoGap'
  BY <1>1, <1>2 DEF PopLock, emulatorVars, IInv, Exclusion, QueueBounded, NeverPopsEmpty,
                    BlockHasNoGap, Consecutive
<1>. QED
  BY <1>3, <1>4, <1>5, <1>6 DEF IInv

LEMMA PopOneInv ==
  ASSUME IInv, PopOne
  PROVE  IInv'
<1>1. /\ queue \in Seq(Samples) /\ Len(queue) \in Nat /\ Len(queue) > 0
      /\ retrieved \in Seq(Samples) /\ Len(retrieved) \in Nat /\ toPop \in Nat
      /\ sent \in Nat /\ heard \in Nat
  BY SentAssumption, LenProperties DEF IInv, TypeOK, NeverPopsEmpty, PopOne
<1>2. queue # <<>>
  BY <1>1, EmptySeq
<1>3. /\ Head(queue) \in Samples /\ Head(queue) = queue[1]
      /\ queue' \in Seq(Samples) /\ Len(queue') = Len(queue) - 1
      /\ \A i \in 1 .. Len(queue') : queue'[i] = queue[i+1]
  BY <1>1, <1>2, HeadTailProperties DEF PopOne
<1>4. /\ retrieved' \in Seq(Samples) /\ Len(retrieved') = Len(retrieved) + 1
      /\ \A i \in 1 .. Len(retrieved) : retrieved'[i] = retrieved[i]
      /\ retrieved'[Len(retrieved) + 1] = queue[1]
  BY <1>1, <1>3, AppendProperties DEF PopOne
<1>5. TypeOK'
  BY <1>1, <1>3, <1>4 DEF PopOne, emulatorVars, IInv, TypeOK
<1>6. Exclusion' /\ PushInv'
  BY DEF PopOne, emulatorVars, IInv, Exclusion, PushInv
<1>7. EndsWith(queue', sent)
  BY <1>1, <1>3 DEF IInv, StreamInv, EndsWith
<1>8. EndsWith(retrieved', sent - Len(queue'))
  <2>1. queue[1] = sent - Len(queue) + 1
    BY <1>1 DEF IInv, StreamInv, EndsWith
  <2>2. EndsWith(retrieved, sent - Len(queue))
    BY DEF IInv, StreamInv, PopOne
  <2>3. ASSUME NEW i \in 1 .. Len(retrieved')
        PROVE  retrieved'[i] = (sent - Len(queue')) - Len(retrieved') + i
    <3>1. CASE i = Len(retrieved) + 1
      BY <1>1, <1>3, <1>4, <2>1, <3>1
    <3>2. CASE i \in 1 .. Len(retrieved)
      BY <1>1, <1>3, <1>4, <2>2, <3>2 DEF EndsWith
    <3>. QED
      BY <1>1, <1>4, <3>1, <3>2
  <2>. QED
    BY <2>3 DEF EndsWith
<1>9. StreamInv' /\ PlayedInv'
  BY <1>1, <1>3, <1>4, <1>7, <1>8
     DEF PopOne, emulatorVars, IInv, StreamInv, PlayedInv
<1>10. Consecutive(retrieved')
  BY <1>1, <1>4, <1>3, <1>8 DEF EndsWith, Consecutive
<1>11. QueueBounded' /\ NeverPopsEmpty' /\ BlockHasNoGap'
  BY <1>1, <1>3, <1>10, SizeAssumption
     DEF PopOne, emulatorVars, IInv, Exclusion, QueueBounded, NeverPopsEmpty, BlockHasNoGap
<1>. QED
  BY <1>5, <1>6, <1>9, <1>11 DEF IInv

LEMMA PopUnlockInv ==
  ASSUME IInv, PopUnlock
  PROVE  IInv'
<1>. USE DEF PopUnlock, emulatorVars
<1>1. /\ Len(retrieved) \in Nat /\ Len(queue) \in Nat /\ sent \in Nat /\ heard \in Nat
  BY SentAssumption, LenProperties DEF IInv, TypeOK
<1>2. TypeOK' /\ Exclusion' /\ PushInv'
  BY DEF IInv, TypeOK, Exclusion, PushInv
<1>3. StreamInv' /\ PlayedInv'
  BY <1>1 DEF IInv, StreamInv, PlayedInv, EndsWith
<1>4. QueueBounded' /\ NeverPopsEmpty' /\ BlockHasNoGap'
  BY DEF IInv, QueueBounded, NeverPopsEmpty, BlockHasNoGap
<1>. QED
  BY <1>2, <1>3, <1>4 DEF IInv

LEMMA FillInv ==
  ASSUME IInv, Fill
  PROVE  IInv'
<1>1. /\ audioData \in Seq(Samples) /\ Len(audioData) \in Nat /\ Len(queue) \in Nat
      /\ sent \in Nat /\ heard \in Nat /\ want \in Nat
  BY SentAssumption, LenProperties DEF IInv, TypeOK
<1>2. heard' \in 0 .. MaxSent /\ heard' <= sent - Len(queue)
  <2>1. CASE audioData = <<>>
    BY <2>1 DEF Fill, IInv, TypeOK, PlayedInv
  <2>2. CASE audioData # <<>>
    <3>1. Len(audioData) \in 1 .. Len(audioData)
      BY <1>1, <2>2, EmptySeq
    <3>2. audioData[Len(audioData)] \in Samples
      BY <1>1, <3>1, ElementOfSeq
    <3>. QED
      BY <1>1, <2>2, <3>1, <3>2, SentAssumption DEF Fill, IInv, PlayedInv, Samples
  <2>. QED
    BY <2>1, <2>2
<1>3. stream' \in Seq(0 .. MaxSent)
  <2>1. audioData \in Seq(0 .. MaxSent)
    BY <1>1, SeqMonotonic, SentAssumption DEF Samples
  <2>2. [i \in 1 .. (want - Len(audioData)) |-> 0] \in Seq(0 .. MaxSent)
    BY <1>1, SentAssumption
  <2>. QED
    BY <2>1, <2>2, ConcatProperties DEF Fill
<1>4. TypeOK'
  BY <1>2, <1>3 DEF Fill, emulatorVars, IInv, TypeOK
<1>5. Exclusion' /\ PushInv'
  BY DEF Fill, emulatorVars, IInv, Exclusion, PushInv
<1>6. StreamInv' /\ PlayedInv'
  BY <1>2 DEF Fill, emulatorVars, IInv, StreamInv, PlayedInv, EndsWith
<1>7. QueueBounded' /\ NeverPopsEmpty' /\ BlockHasNoGap'
  BY DEF Fill, emulatorVars, IInv, QueueBounded, NeverPopsEmpty, BlockHasNoGap, Consecutive
<1>. QED
  BY <1>4, <1>5, <1>6, <1>7 DEF IInv

LEMMA StutterInv ==
  ASSUME IInv, UNCHANGED vars
  PROVE  IInv'
  BY DEF vars, emulatorVars, callbackVars, IInv, TypeOK, Exclusion, PushInv, StreamInv,
         PlayedInv, EndsWith, QueueBounded, NeverPopsEmpty, BlockHasNoGap, Consecutive

LEMMA StepInv == IInv /\ [Next]_vars => IInv'
  BY ControlInv, DiscardInv, AppendInv, PopLockInv, PopOneInv, PopUnlockInv, FillInv,
     StutterInv
     DEF Next, EmulatorStep, CallbackStep

-----------------------------------------------------------------------------
\* The strengthened invariant: who holds the mutex, what a push has already
\* made sure of, and that queue and running pop hold the newest samples.
THEOREM Invariance == Spec => []IInv
  BY InitInv, StepInv, PTL DEF Spec

\* Each variable keeps its type; in particular no sample is ever read past
\* the end of the queue.
THEOREM TypeCorrect == Spec => []TypeOK
<1>1. IInv => TypeOK
  BY DEF IInv
<1>. QED
  BY <1>1, Invariance, PTL

\* Whatever the limit, a push checked steps ago still finds room.
THEOREM QueueKeepsItsLimit == Spec => []QueueBounded
<1>1. IInv => QueueBounded
  BY DEF IInv
<1>. QED
  BY <1>1, Invariance, PTL

\* Neither Pop nor RemoveOldestRecords pops an empty std::queue.
THEOREM NoPopOfEmptyQueue == Spec => []NeverPopsEmpty
<1>1. IInv => NeverPopsEmpty
  BY DEF IInv
<1>. QED
  BY <1>1, Invariance, PTL

\* A block is a piece of the stream without a gap, for all block lengths.
THEOREM BlocksHaveNoGap == Spec => []BlockHasNoGap
<1>1. IInv => BlockHasNoGap
  BY DEF IInv
<1>. QED
  BY <1>1, Invariance, PTL

\* What is taken, followed by the queue, is increasing and newer than what
\* was played.
LEMMA OrderFromInv == IInv => InOrder
<1>. SUFFICES ASSUME IInv PROVE InOrder
  OBVIOUS
<1>. DEFINE taken == CASE callback = "pop"  -> retrieved
                      [] callback = "fill" -> audioData
                      [] OTHER             -> <<>>
            ahead == taken \o queue
<1>1. /\ queue \in Seq(Samples) /\ Len(queue) \in Nat /\ sent \in Nat /\ heard \in Nat
      /\ retrieved \in Seq(Samples) /\ audioData \in Seq(Samples) /\ <<>> \in Seq(Samples)
  BY SentAssumption, LenProperties, EmptySeq DEF IInv, TypeOK
<1>2. taken \in Seq(Samples) /\ Len(taken) \in Nat
  <2>1. taken \in Seq(Samples)
    BY <1>1
  <2>. QED
    BY <2>1, LenProperties
<1>3. /\ Len(ahead) = Len(taken) + Len(queue)
      /\ \A i \in 1 .. Len(taken) : ahead[i] = taken[i]
      /\ \A i \in 1 .. Len(queue) : ahead[Len(taken) + i] = queue[i]
  <2>. HIDE DEF taken
  <2>. QED
    BY <1>1, <1>2, ConcatProperties
<1>4. \A i \in 1 .. Len(queue) : queue[i] = sent - Len(queue) + i
  BY DEF IInv, StreamInv, EndsWith
<1>5. \A i \in 1 .. Len(taken) : heard < taken[i] /\ taken[i] <= sent - Len(queue)
  <2>1. CASE callback = "pop"
    <3>1. taken = retrieved
      BY <2>1
    <3>2. /\ EndsWith(retrieved, sent - Len(queue))
          /\ heard + Len(retrieved) + Len(queue) <= sent
      BY <2>1 DEF IInv, StreamInv, PlayedInv
    <3>. HIDE DEF taken
    <3>. QED
      BY <1>1, <1>2, <3>1, <3>2 DEF EndsWith
  <2>2. CASE callback = "fill"
    <3>1. taken = audioData
      BY <2>2
    <3>. QED
      BY <2>2, <3>1 DEF IInv, PlayedInv
  <2>3. CASE callback \notin {"pop", "fill"}
    <3>1. taken = <<>>
      BY <2>3
    <3>. QED
      BY <3>1
  <2>. QED
    BY <2>1, <2>2, <2>3
<1>6. \A i \in 1 .. Len(taken) - 1 : taken[i] < taken[i+1]
  <2>1. Consecutive(taken)
    <3>1. Consecutive(retrieved) /\ Consecutive(audioData) /\ Consecutive(<<>>)
      BY DEF IInv, BlockHasNoGap, Consecutive
    <3>. QED
      BY <3>1
  <2>2. \A i \in 1 .. Len(taken) : taken[i] \in Nat
    <3>. HIDE DEF taken
    <3>. QED
      BY <1>2, ElementOfSeq, SentAssumption DEF Samples
  <2>. HIDE DEF taken
  <2>. QED
    BY <1>2, <2>1, <2>2 DEF Consecutive
<1>7. heard <= sent - Len(queue)
  BY DEF IInv, PlayedInv
<1>8. \A i \in 1 .. Len(ahead) : heard < ahead[i] /\ ahead[i] <= sent
  <2>. TAKE i \in 1 .. Len(ahead)
  <2>. HIDE DEF taken, ahead
  <2>1. \A j \in 1 .. Len(taken) : taken[j] \in Nat
    BY <1>2, ElementOfSeq, SentAssumption DEF Samples
  <2>2. CASE i \in 1 .. Len(taken)
    BY <1>1, <1>2, <1>3, <1>5, <2>1, <2>2
  <2>3. CASE i \notin 1 .. Len(taken)
    <3>1. i - Len(taken) \in 1 .. Len(queue) /\ i = Len(taken) + (i - Len(taken))
      BY <1>1, <1>2, <1>3, <2>3
    <3>2. ahead[i] = sent - Len(queue) + (i - Len(taken))
      BY <1>3, <1>4, <3>1
    <3>. QED
      BY <1>1, <1>2, <1>7, <3>1, <3>2
  <2>. QED
    BY <2>2, <2>3
<1>9. \A i \in 1 .. Len(ahead) - 1 : ahead[i] < ahead[i+1]
  <2>. TAKE i \in 1 .. Len(ahead) - 1
  <2>. HIDE DEF taken, ahead
  <2>1. \A j \in 1 .. Len(taken) : taken[j] \in Nat
    BY <1>2, ElementOfSeq, SentAssumption DEF Samples
  <2>2. CASE i \in 1 .. Len(taken) - 1
    <3>1. i \in 1 .. Len(taken) /\ i + 1 \in 1 .. Len(taken)
      BY <1>2, <2>2
    <3>2. ahead[i] = taken[i] /\ ahead[i+1] = taken[i+1]
      BY <1>3, <3>1
    <3>. QED
      BY <1>6, <2>2, <3>2
  <2>3. CASE i = Len(taken)
    <3>1. i \in 1 .. Len(taken) /\ i + 1 = Len(taken) + 1 /\ 1 \in 1 .. Len(queue)
      BY <1>1, <1>2, <1>3, <2>3
    <3>2. ahead[i] = taken[i] /\ ahead[i+1] = queue[1]
      BY <1>3, <3>1
    <3>3. queue[1] = sent - Len(queue) + 1 /\ taken[i] <= sent - Len(queue)
      BY <1>4, <1>5, <3>1
    <3>. QED
      BY <1>1, <2>1, <3>1, <3>2, <3>3
  <2>4. CASE i > Len(taken)
    <3>1. /\ i - Len(taken) \in 1 .. Len(queue) /\ i = Len(taken) + (i - Len(taken))
          /\ i + 1 - Len(taken) \in 1 .. Len(queue)
          /\ i + 1 = Len(taken) + (i + 1 - Len(taken))
      BY <1>1, <1>2, <1>3, <2>4
    <3>2. /\ ahead[i] = sent - Len(queue) + (i - Len(taken))
          /\ ahead[i+1] = sent - Len(queue) + (i + 1 - Len(taken))
      BY <1>3, <1>4, <3>1
    <3>. QED
      BY <1>1, <1>2, <3>1, <3>2
  <2>. QED
    BY <1>1, <1>2, <1>3, <2>2, <2>3, <2>4
<1>. QED
  BY <1>8, <1>9 DEF InOrder

\* No sample is played twice or out of order.
THEOREM StreamIsInOrder == Spec => []InOrder
  BY OrderFromInv, Invariance, PTL

-----------------------------------------------------------------------------
(* What the halves of an operation leave behind when a step of the other   *)
(* thread comes between them, and with it the refinement of SampleFifo.    *)

\* What has been discarded and not yet been pushed upon was a full queue; a
\* running pop has moved what it found, less what it has still to move; and
\* what it was asked for is the length of a block.
HalfWay == /\ discarded # <<>> => /\ emulator = "append" /\ queue = <<>>
                                  /\ MaxSize > 0 /\ Len(discarded) = MaxSize
           /\ callback = "pop" =>
                Len(retrieved) + toPop = ReturnLen(want, Len(retrieved) + Len(queue))
           /\ callback \in {"lock", "pop"} => want \in BlockSizes

\* What a sample fifo holds as the two threads stand.
contents == discarded \o (IF callback = "pop" THEN retrieved \o queue ELSE queue)

LEMMA InitHalfWay == Init => HalfWay
  BY DEF Init, HalfWay

\* What the lemmas below need to know of the state.
LEMMA Facts ==
  ASSUME IInv
  PROVE  /\ queue \in Seq(Samples) /\ Len(queue) \in Nat
         /\ retrieved \in Seq(Samples) /\ Len(retrieved) \in Nat
         /\ discarded \in Seq(Samples) /\ Len(discarded) \in Nat
         /\ want \in Nat /\ toPop \in Nat /\ MaxSize \in Nat
         /\ sent \in Nat /\ sent <= MaxSent /\ MaxSent \in Nat
  BY SizeAssumption, SentAssumption, LenProperties DEF IInv, TypeOK

\* Steps that move no sample: the fifo stays as it is.
LEMMA ControlHalfWay ==
  ASSUME IInv, HalfWay,
         PlayAudio \/ PushLock \/ PushCheck \/ PushUnlock \/ Callback \/ Fill
  PROVE  HalfWay' /\ UNCHANGED <<contents, sent, audioData>>
<1>. USE DEF HalfWay, contents, emulatorVars, callbackVars
<1>1. CASE PlayAudio
  BY <1>1 DEF PlayAudio
<1>2. CASE PushLock
  BY <1>2 DEF PushLock
<1>3. CASE PushCheck
  BY <1>3 DEF PushCheck
<1>4. CASE PushUnlock
  BY <1>4 DEF PushUnlock
<1>5. CASE Callback
  BY <1>5 DEF Callback
<1>6. CASE Fill
  BY <1>6 DEF Fill
<1>. QED
  BY <1>1, <1>2, <1>3, <1>4, <1>5, <1>6

\* The whole queue is discarded, and remembered.
LEMMA DiscardHalfWay ==
  ASSUME IInv, HalfWay, PushDiscard
  PROVE  HalfWay' /\ UNCHANGED <<contents, sent, audioData>>
<1>1. /\ emulator = "discard" /\ callback # "pop" /\ callback' = callback
      /\ Len(queue) = MaxSize /\ MaxSize \in Nat \ {0} /\ discarded = <<>>
  BY Facts DEF IInv, Exclusion, PushInv, PushDiscard, callbackVars, HalfWay
<1>2. queue' = <<>> /\ discarded' = queue
  BY <1>1, Facts, SubSeqEmpty, SubSeqFull DEF PushDiscard
<1>3. contents' = contents
  <2>1. contents = <<>> \o queue /\ contents' = queue \o <<>>
    BY <1>1, <1>2 DEF contents
  <2>. QED
    BY <2>1, Facts, ConcatEmptySeq
<1>. QED
  BY <1>1, <1>2, <1>3 DEF PushDiscard, callbackVars, HalfWay

\* A push takes effect: on a queue with room, or on one just emptied.
LEMMA AppendIsPut ==
  ASSUME IInv, HalfWay, PushAppend
  PROVE  HalfWay' /\ Fifo!Put
<1>1. /\ emulator = "append" /\ callback # "pop" /\ callback' = callback
      /\ sent' = sent + 1 /\ sent' \in Samples /\ audioData' = audioData
      /\ discarded' = <<>> /\ queue' = Append(queue, sent')
  BY Facts DEF IInv, Exclusion, PushInv, PushAppend, callbackVars, Samples
<1>2. contents' = queue' /\ contents = discarded \o queue
  <2>1. queue' \in Seq(Samples)
    BY <1>1, Facts, AppendProperties
  <2>2. contents' = <<>> \o queue' /\ contents = discarded \o queue
    BY <1>1 DEF contents
  <2>. QED
    BY <2>1, <2>2, ConcatEmptySeq
<1>3. contents' = IF MaxSize = 0 \/ Len(contents) < MaxSize
                  THEN Append(contents, sent') ELSE <<sent'>>
  <2>1. CASE discarded = <<>>
    <3>1. contents = queue
      BY <1>2, <2>1, Facts, ConcatEmptySeq
    <3>2. MaxSize = 0 \/ Len(queue) < MaxSize
      BY <1>1, Facts DEF IInv, PushInv
    <3>. QED
      BY <1>1, <1>2, <3>1, <3>2
  <2>2. CASE discarded # <<>>
    <3>1. queue = <<>> /\ MaxSize # 0 /\ Len(discarded) = MaxSize
      BY <2>2, Facts DEF HalfWay
    <3>2. contents = discarded
      BY <1>2, <3>1, Facts, ConcatEmptySeq
    <3>3. queue' = <<sent'>>
      <4>1. queue' = <<>> \o <<sent'>>
        BY <1>1, <3>1, Facts, AppendIsConcat
      <4>2. <<sent'>> \in Seq(Samples)
        BY <1>1
      <4>. QED
        BY <4>1, <4>2, ConcatEmptySeq
    <3>. QED
      BY <1>2, <3>1, <3>2, <3>3, Facts
  <2>. QED
    BY <2>1, <2>2
<1>4. HalfWay'
  BY <1>1 DEF PushAppend, callbackVars, HalfWay
<1>. QED
  BY <1>1, <1>3, <1>4 DEF Fifo!Put, contents

\* A pop looks at the queue: it will move what it is asked for, or all.
LEMMA PopLockHalfWay ==
  ASSUME IInv, HalfWay, PopLock
  PROVE  HalfWay' /\ UNCHANGED <<contents, sent, audioData>>
<1>1. /\ callback = "lock" /\ callback' = "pop" /\ retrieved' = <<>> /\ queue' = queue
      /\ discarded' = discarded /\ sent' = sent /\ audioData' = audioData /\ want' = want
      /\ emulator' = emulator /\ toPop' = ReturnLen(want, Len(queue))
  BY DEF PopLock, emulatorVars
<1>2. contents' = contents
  <2>1. <<>> \o queue = queue
    BY Facts, ConcatEmptySeq
  <2>. QED
    BY <1>1, <2>1 DEF contents
<1>3. HalfWay'
  <2>1. Len(retrieved') = 0
    BY <1>1
  <2>2. toPop' \in Nat
    BY <1>1, Facts DEF ReturnLen
  <2>. QED
    BY <1>1, <2>1, <2>2, Facts DEF HalfWay
<1>. QED
  BY <1>1, <1>2, <1>3

\* A sample changes hands and stays where it is in the stream.
LEMMA PopOneHalfWay ==
  ASSUME IInv, HalfWay, PopOne
  PROVE  HalfWay' /\ UNCHANGED <<contents, sent, audioData>>
<1>1. /\ callback = "pop" /\ callback' = "pop" /\ toPop > 0 /\ toPop' = toPop - 1
      /\ discarded' = discarded /\ sent' = sent /\ audioData' = audioData /\ want' = want
      /\ emulator = "runs" /\ emulator' = emulator
      /\ retrieved' = Append(retrieved, Head(queue)) /\ queue' = Tail(queue)
  BY DEF IInv, TypeOK, Exclusion, PopOne, emulatorVars
<1>2. queue # <<>>
  BY <1>1, Facts, EmptySeq DEF IInv, NeverPopsEmpty
<1>3. /\ Head(queue) \in Samples /\ Tail(queue) \in Seq(Samples)
      /\ Len(Tail(queue)) = Len(queue) - 1
      /\ \A i \in 1 .. Len(Tail(queue)) : Tail(queue)[i] = queue[i+1]
      /\ Head(queue) = queue[1]
  BY <1>2, Facts, HeadTailProperties
<1>4. /\ retrieved' \in Seq(Samples) /\ Len(retrieved') = Len(retrieved) + 1
      /\ retrieved' = retrieved \o <<Head(queue)>>
  BY <1>1, <1>3, Facts, AppendProperties, AppendIsConcat
<1>5. retrieved' \o queue' = retrieved \o queue
  <2>1. <<Head(queue)>> \in Seq(Samples)
    BY <1>3
  <2>2. retrieved' \o queue' = retrieved \o (<<Head(queue)>> \o Tail(queue))
    <3>1. (retrieved \o <<Head(queue)>>) \o Tail(queue) = retrieved \o (<<Head(queue)>> \o Tail(queue))
      BY <1>3, <2>1, Facts, ConcatAssociative
    <3>. QED
      BY <1>1, <1>4, <3>1
  <2>3. <<Head(queue)>> \o Tail(queue) = queue
    <3>1. /\ 1 \in 1 .. Len(queue) /\ Len(queue) \in 1 .. Len(queue)
      BY <1>2, Facts, EmptySeq
    <3>2. SubSeq(queue, 1, Len(queue)) = <<queue[1]>> \o SubSeq(queue, 2, Len(queue))
      BY <3>1, Facts, SubSeqRecursiveFirst
    <3>3. SubSeq(queue, 1, Len(queue)) = queue /\ Tail(queue) = SubSeq(queue, 2, Len(queue))
      BY <1>2, Facts, SubSeqFull, TailIsSubSeq
    <3>. QED
      BY <1>3, <3>2, <3>3
  <2>. QED
    BY <2>2, <2>3
<1>6. contents' = contents
  BY <1>1, <1>5 DEF contents
<1>7. HalfWay'
  <2>1. discarded = <<>>
    BY <1>1 DEF HalfWay
  <2>2. Len(retrieved') + toPop' = Len(retrieved) + toPop
    BY <1>1, <1>4, Facts
  <2>3. Len(retrieved') + Len(queue') = Len(retrieved) + Len(queue)
    BY <1>1, <1>3, <1>4, Facts
  <2>. QED
    BY <1>1, <2>1, <2>2, <2>3 DEF HalfWay
<1>. QED
  BY <1>1, <1>6, <1>7

\* A pop takes effect: what it has moved is what it was asked for, or all.
LEMMA PopUnlockIsTake ==
  ASSUME IInv, HalfWay, PopUnlock
  PROVE  HalfWay' /\ \E n \in BlockSizes : Fifo!Take(n)
<1>1. /\ callback = "pop" /\ callback' = "fill" /\ toPop = 0 /\ audioData' = retrieved
      /\ queue' = queue /\ discarded' = discarded /\ sent' = sent /\ emulator = "runs"
      /\ want \in BlockSizes
  BY DEF IInv, TypeOK, Exclusion, PopUnlock, emulatorVars, HalfWay
<1>2. discarded = <<>>
  BY <1>1 DEF HalfWay
<1>3. contents' = queue /\ contents = retrieved \o queue
  <2>1. contents' = <<>> \o queue /\ contents = <<>> \o (retrieved \o queue)
    BY <1>1, <1>2 DEF contents
  <2>. QED
    BY <2>1, Facts, ConcatEmptySeq, ConcatProperties
<1>4. /\ contents \in Seq(Samples) /\ Len(contents) = Len(retrieved) + Len(queue)
      /\ \A i \in 1 .. Len(retrieved) : contents[i] = retrieved[i]
      /\ \A i \in 1 .. Len(queue) : contents[Len(retrieved) + i] = queue[i]
  BY <1>3, Facts, ConcatProperties
<1>5. Len(retrieved) = IF want < Len(contents) THEN want ELSE Len(contents)
  BY <1>1, <1>4, Facts DEF HalfWay, ReturnLen
<1>6. SubSeq(contents, 1, Len(retrieved)) = retrieved
  <2>. HIDE DEF contents
  <2>1. \A i \in 1 .. Len(retrieved) : contents[i] \in Samples
    BY <1>4, Facts, ElementOfSeq
  <2>2. /\ SubSeq(contents, 1, Len(retrieved)) \in Seq(Samples)
        /\ Len(SubSeq(contents, 1, Len(retrieved))) = Len(retrieved)
        /\ \A i \in 1 .. Len(retrieved) : SubSeq(contents, 1, Len(retrieved))[i] = contents[i]
    BY <2>1, Facts, SubSeqProperties
  <2>. QED
    BY <1>4, <2>2, Facts, SeqEqual
<1>7. SubSeq(contents, Len(retrieved) + 1, Len(contents)) = queue
  <2>. HIDE DEF contents
  <2>. DEFINE m == Len(retrieved) + 1
              rest == SubSeq(contents, m, Len(contents))
  <2>1. \A i \in m .. Len(contents) : contents[i] \in Samples
    BY <1>4, Facts, ElementOfSeq
  <2>2. /\ rest \in Seq(Samples) /\ Len(rest) = Len(queue)
        /\ \A i \in 1 .. Len(queue) : rest[i] = contents[m + i - 1]
    <3>1. m \in Int /\ Len(contents) \in Int
      BY <1>4, Facts
    <3>2. /\ rest \in Seq(Samples)
          /\ Len(rest) = IF m <= Len(contents) THEN Len(contents) - m + 1 ELSE 0
          /\ \A i \in 1 .. Len(contents) - m + 1 : rest[i] = contents[m + i - 1]
      <4>. HIDE DEF m
      <4>. QED
        BY <2>1, <3>1, SubSeqProperties
    <3>. QED
      BY <1>4, <3>2, Facts
  <2>3. \A i \in 1 .. Len(queue) : rest[i] = queue[i]
    <3>. TAKE i \in 1 .. Len(queue)
    <3>1. m + i - 1 = Len(retrieved) + i
      BY Facts
    <3>. HIDE DEF m, rest
    <3>. QED
      BY <1>4, <2>2, <3>1
  <2>4. rest = queue
    <3>. HIDE DEF m, rest
    <3>. QED
      BY <2>2, <2>3, Facts, SeqEqual
  <2>. QED
    BY <2>4
<1>8. Fifo!Take(want)
  <2>1. /\ audioData' = SubSeq(contents, 1, Len(retrieved))
        /\ contents' = SubSeq(contents, Len(retrieved) + 1, Len(contents)) /\ sent' = sent
    BY <1>1, <1>3, <1>6, <1>7
  <2>. QED
    BY <1>5, <2>1 DEF Fifo!Take, contents
<1>9. HalfWay'
  BY <1>1, <1>2 DEF HalfWay
<1>. QED
  BY <1>1, <1>8, <1>9

\* Every step of the two threads is a put, a take, or none of the fifo's.
LEMMA FifoStep ==
  IInv /\ HalfWay /\ [Next]_vars => HalfWay' /\ [Fifo!FifoNext]_(Fifo!fifoVars)
<1>. SUFFICES ASSUME IInv, HalfWay, [Next]_vars
              PROVE  HalfWay' /\ [Fifo!FifoNext]_(Fifo!fifoVars)
  OBVIOUS
<1>1. ASSUME HalfWay' /\ UNCHANGED <<contents, sent, audioData>>
      PROVE  HalfWay' /\ [Fifo!FifoNext]_(Fifo!fifoVars)
  BY <1>1 DEF Fifo!fifoVars, contents
<1>2. CASE UNCHANGED vars
  <2>1. HalfWay' /\ UNCHANGED <<contents, sent, audioData>>
    BY <1>2 DEF vars, emulatorVars, callbackVars, HalfWay, contents
  <2>. QED
    BY <1>1, <2>1
<1>3. CASE PlayAudio \/ PushLock \/ PushCheck \/ PushUnlock \/ Callback \/ Fill
  BY <1>1, <1>3, ControlHalfWay
<1>4. CASE PushDiscard
  BY <1>1, <1>4, DiscardHalfWay
<1>5. CASE PopLock
  BY <1>1, <1>5, PopLockHalfWay
<1>6. CASE PopOne
  BY <1>1, <1>6, PopOneHalfWay
<1>7. CASE PushAppend
  BY <1>7, AppendIsPut DEF Fifo!FifoNext
<1>8. CASE PopUnlock
  BY <1>8, PopUnlockIsTake DEF Fifo!FifoNext
<1>. QED
  BY <1>2, <1>3, <1>4, <1>5, <1>6, <1>7, <1>8 DEF Next, EmulatorStep, CallbackStep

\* A push takes effect when it appends and a pop when it returns: whatever
\* steps of the other thread come between, the two threads see the queue
\* pushed to and popped from in one step each.
THEOREM Refinement == Spec => ImplementsFifo
<1>1. Init => Fifo!FifoInit
  <2>1. <<>> \o <<>> = <<>>
    BY EmptySeq, ConcatEmptySeq
  <2>. QED
    BY <2>1 DEF Init, Fifo!FifoInit
<1>. QED
  BY <1>1, InitHalfWay, Invariance, FifoStep, PTL
     DEF Spec, ImplementsFifo, Fifo!FifoSpec

-----------------------------------------------------------------------------
(***************************************************************************)
(* The log server: the inductive invariant.                                *)
(***************************************************************************)
\* The thread that has the other stream.
Partner(s) == IF s = "out" THEN "err" ELSE "out"

\* Past the calls that give a thread a number.
Leaving(s) == at[s] \in {"half", "ended"}

\* Whatever is open is one of the numbers that the threads keep.
NumbersKept ==
  /\ files[1] # Free /\ files[2] # Free
  /\ \A s \in Streams : /\ serverSocket[s] \notin {1, 2} /\ clientSocket[s] \notin {1, 2}
                        /\ at[s] = "socket" => serverSocket[s] = 0
                        /\ at[s] \in {"socket", "bind", "accept", "accepting"} =>
                             clientSocket[s] = 0 /\ printed[s] = <<>>
  /\ \A n \in Descriptors \ {1, 2} :
       files[n] # Free => \E s \in Streams : n \in {serverSocket[s], clientSocket[s]}

\* A thread that has not failed has its own sockets, but for those that the
\* other one has closed at its end, whose numbers nobody gets.
Its(s, number, sockets) == \/ At(files, number) \in sockets
                           \/ At(files, number) = Free /\ (Leaving(Partner(s)) \/ number = 0)

ConnectionsOf(s) == {Connection(s, r) : r \in 1 .. MaxRuns}

InPlace(s) ==
  /\ at[s] = "bind" => Its(s, serverSocket[s], {Listener(s)})
  /\ connected[s] => at[s] \in {"accept", "accepting", "receive"}
  /\ connected[s] /\ at[s] = "accept" => Its(s, serverSocket[s], {Listener(s)})
  /\ connected[s] /\ at[s] = "accepting" => held[s] = Listener(s)
  /\ connected[s] /\ at[s] = "receive" => Its(s, clientSocket[s], ConnectionsOf(s))

SocketsInPlace == \A s \in Streams : InPlace(s)

PortsOpen ==
  /\ \A s \in listening : at[s] \notin {"socket", "bind"}
  /\ \A s \in Streams : at[s] \in {"socket", "bind"} => pending[s] = <<>>
  /\ \A s \in Streams : at[s] = "accepting" => held[s] \in Listeners
  /\ \A s, t \in Streams : held[s] = Listener(t) => t \in listening

\* A connection that has been made: the run that makes them is not yet at it.
Unmade(s) == state = "out" \/ (state = "err" /\ s = "err")
Made(s, r) == r <= runs /\ (r = runs => ~Unmade(s))

ConnectionsMade ==
  /\ \A s \in Streams, r \in 1 .. MaxRuns :
       LET c == Connection(s, r)
       IN \/ Made(s, r)
          \/ /\ \A n \in Descriptors : files[n] # c
             /\ written[c] = 0 /\ wire[c] = <<>>
  /\ \A s \in Streams : \A i \in DOMAIN pending[s] :
       \E r \in 1 .. MaxRuns : Made(s, r) /\ pending[s][i] = Connection(s, r)

\* A connection has one end here.
OneEnd ==
  /\ \A s \in Streams : \A i, j \in DOMAIN pending[s] : pending[s][i] = pending[s][j] => i = j
  /\ \A n \in Descriptors, s \in Streams : \A i \in DOMAIN pending[s] : files[n] # pending[s][i]
  /\ \A m, n \in Descriptors : files[m] = files[n] /\ files[m] \in Connections => m = n

\* The program's streams are what this run has made of them.
OwnStreams ==
  /\ state # "off" => runs > 0
  /\ state \in {"off", "out"} => own = Empty
  /\ state \in {"err", "opening"} =>
       \A n \in Descriptors \ {1, 2} :
         own[n] # Free => n = logger["out"] \/ (state = "opening" /\ n = logger["err"])
  /\ own[1] # Free /\ own[2] # Free
  /\ \A s \in Streams : /\ logger[s] \notin {1, 2}
                        /\ own[Standard[s]] \in Connections =>
                             own[Standard[s]] = Connection(s, runs) /\ ~Unmade(s)

Reads(s, c) == at[s] = "receive" /\ connected[s] /\ At(files, clientSocket[s]) = c

\* What comes next of a connection: after what has been printed, if its own
\* thread reads it, and its first line if not.
Taken(s, c) == IF Reads(s, c) THEN Len(printed[s]) ELSE 0

Flow(s, r) ==
  LET c == Connection(s, r)
  IN Reaches(c) => /\ Len(wire[c]) + Taken(s, c) = written[c]
                   /\ \A i \in DOMAIN wire[c] : wire[c][i] = <<s, r, Taken(s, c) + i>>

PrintedOf(s, r) == /\ Len(printed[s]) <= written[Connection(s, r)]
                   /\ \A i \in DOMAIN printed[s] : printed[s][i] = <<s, r, i>>

Printing ==
  \A s \in Streams :
    /\ \A r \in 1 .. MaxRuns : /\ Flow(s, r)
                               /\ Reads(s, Connection(s, r)) => PrintedOf(s, r)
    /\ \E r \in 1 .. MaxRuns : PrintedOf(s, r)

Sockets == {Free, Terminal} \union Listeners \union Connections

PrintInv == /\ LogTypeOK
            /\ NumbersKept /\ SocketsInPlace /\ PortsOpen
            /\ ConnectionsMade /\ OneEnd /\ OwnStreams
            /\ Printing

\* As long as no call fails: what the destructors will close.
HasItsOwn(s) ==
  /\ at[s] \in {"bind", "accept", "accepting", "receive"} =>
       At(files, serverSocket[s]) = Listener(s)
  /\ at[s] = "accepting" => held[s] = Listener(s)
  /\ at[s] \in {"receive", "half"} =>
       clientSocket[s] = 0 \/ At(files, clientSocket[s]) \in ConnectionsOf(s)

ServerClean == \A s \in Streams : HasItsOwn(s)

Holds(s) == At(own, logger[s]) = Connection(s, runs)

ProgramClean == /\ state \in {"err", "opening", "running"} => Holds("out")
                /\ state \in {"opening", "running", "closing"} => Holds("err")

CleanInv == failed = {} => ServerClean /\ ProgramClean /\ ~foreign

LogInv == PrintInv /\ CleanInv

-----------------------------------------------------------------------------
(***************************************************************************)
(* Sockets and numbers.                                                    *)
(***************************************************************************)
\* What a descriptor stands for can be told apart.
LEMMA SocketsDiffer ==
  /\ \A s, t, r, q : Connection(s, r) = Connection(t, q) => s = t /\ r = q
  /\ \A s, t : Listener(s) = Listener(t) => s = t
  /\ \A s, t, r : Listener(s) # Connection(t, r)
  /\ \A s, r : Connection(s, r) \notin {Free, Terminal, Other}
  /\ \A s : Listener(s) \notin {Free, Terminal, Other}
  /\ Free # Terminal /\ Free # Other
<1>1. \A s, r : /\ Connection(s, r)[1] = "connection"
                /\ Connection(s, r)[2] = s /\ Connection(s, r)[3] = r
  BY DEF Connection
<1>2. \A s : Listener(s)[1] = "listener" /\ Listener(s)[2] = s
  BY DEF Listener
<1>3. Free[1] = "free" /\ Terminal[1] = "terminal" /\ Other[1] = "other"
  BY DEF Free, Terminal, Other
<1>4. \A s, t, r, q : Connection(s, r) = Connection(t, q) => s = t /\ r = q
  <2>. SUFFICES ASSUME NEW s, NEW t, NEW r, NEW q, Connection(s, r) = Connection(t, q)
                PROVE  s = t /\ r = q
    OBVIOUS
  <2>1. Connection(s, r)[2] = Connection(t, q)[2] /\ Connection(s, r)[3] = Connection(t, q)[3]
    OBVIOUS
  <2>. QED
    BY <1>1, <2>1
<1>. QED
  BY <1>1, <1>2, <1>3, <1>4

LEMMA ConnectionSet ==
  \A c : c \in Connections <=> \E s \in Streams, r \in 1 .. MaxRuns : c = Connection(s, r)
  BY DEF Connections

LEMMA ListenerSet == \A l : l \in Listeners <=> \E s \in Streams : l = Listener(s)
  BY DEF Listeners

LEMMA TwoStreams ==
  \A s \in Streams : /\ Partner(s) \in Streams /\ Partner(s) # s
                     /\ \A t \in Streams : t # s => t = Partner(s)
                     /\ Partner(Partner(s)) = s
                     /\ Standard[s] \in {1, 2}
  BY DEF Streams, Partner, Standard

\* The kernel finds a number where there is one.
LEMMA LowestFree ==
  ASSUME NEW table, \E n \in Descriptors : table[n] = Free
  PROVE  Lowest(table) \in Descriptors /\ table[Lowest(table)] = Free
<1>1. \E n \in Descriptors : table[n] = Free /\ \A m \in Descriptors : table[m] = Free => n <= m
  <2>1. Descriptors = {1, 2, 3, 4, 5, 6}
    BY DEF Descriptors
  <2>. QED
    BY <2>1
<1>. QED
  BY <1>1 DEF Lowest

LEMMA OfStreams ==
  \A s, t, r : /\ OfStream(Free, s)
               /\ OfStream(Listener(t), s) <=> t = s
               /\ OfStream(Connection(t, r), s) <=> t = s
<1>. SUFFICES ASSUME NEW s, NEW t, NEW r
              PROVE  /\ OfStream(Free, s)
                     /\ OfStream(Listener(t), s) <=> t = s
                     /\ OfStream(Connection(t, r), s) <=> t = s
  OBVIOUS
<1>1. Len(Listener(t)) = 2 /\ Listener(t)[2] = t
  BY DEF Listener
<1>2. Len(Connection(t, r)) = 3 /\ Connection(t, r)[2] = t
  BY DEF Connection
<1>. QED
  BY <1>1, <1>2, SocketsDiffer DEF OfStream

LEMMA TailEntries ==
  ASSUME NEW V, NEW q \in Seq(V), q # <<>>
  PROVE  \A i \in DOMAIN Tail(q) : /\ i \in Nat /\ i + 1 \in DOMAIN q /\ i + 1 # 1
                                   /\ Tail(q)[i] = q[i + 1]
<1>1. Len(q) \in Nat \ {0} /\ DOMAIN q = 1 .. Len(q)
  OBVIOUS
<1>2. Len(Tail(q)) = Len(q) - 1 /\ DOMAIN Tail(q) = 1 .. Len(q) - 1
  OBVIOUS
<1>. QED
  BY <1>1, <1>2

\* A thread that takes a number finds one, and not one of the standard streams'.
LEMMA RoomForSocket ==
  ASSUME ServerTypes, NumbersKept, NEW s \in Streams, clientSocket[s] = 0
  PROVE  /\ Lowest(files) \in Descriptors \ {1, 2} /\ files[Lowest(files)] = Free
<1>1. PICK t \in Streams : t # s /\ \A u \in Streams : u \in {s, t}
  BY TwoStreams
<1>2. \E n \in 3 .. 6 : n \notin {serverSocket[s], serverSocket[t], clientSocket[t]}
  <2>1. {3, 4, 5, 6} \subseteq 3 .. 6
    OBVIOUS
  <2>2. \A a, b, c : \E n \in {3, 4, 5, 6} : n # a /\ n # b /\ n # c
    OBVIOUS
  <2>. QED
    BY <2>1, <2>2
<1>3. PICK n \in 3 .. 6 : n \notin {serverSocket[s], serverSocket[t], clientSocket[t]}
  BY <1>2
<1>4. files[n] = Free
  BY <1>1, <1>3 DEF NumbersKept, Descriptors
<1>. QED
  BY <1>3, <1>4, LowestFree DEF NumbersKept, Descriptors

LEMMA RoomInProgram ==
  ASSUME ProgramTypes, OwnStreams, state \in {"out", "err", "opening"}
  PROVE  Lowest(own) \in Descriptors \ {1, 2} /\ own[Lowest(own)] = Free
<1>1. \E n \in 3 .. 6 : n # logger["out"] /\ n # logger["err"]
  <2>1. {3, 4, 5} \subseteq 3 .. 6
    OBVIOUS
  <2>2. \A a, b : \E n \in {3, 4, 5} : n # a /\ n # b
    OBVIOUS
  <2>. QED
    BY <2>1, <2>2
<1>2. PICK n \in 3 .. 6 : n # logger["out"] /\ n # logger["err"]
  BY <1>1
<1>3. n \in Descriptors \ {1, 2}
  BY <1>2 DEF Descriptors
<1>4. own[n] = Free
  <2>1. CASE state = "out"
    BY <1>3, <2>1 DEF OwnStreams, Empty
  <2>2. CASE state \in {"err", "opening"}
    BY <1>2, <1>3, <2>2 DEF OwnStreams
  <2>. QED
    BY <2>1, <2>2
<1>. QED
  BY <1>3, <1>4, LowestFree DEF OwnStreams

LEMMA ClosedNumber ==
  ASSUME NEW V, Free \in V, NEW table \in [Descriptors -> V], NEW n
  PROVE  /\ Closed(table, n) \in [Descriptors -> V]
         /\ \A m \in Descriptors : Closed(table, n)[m] = IF m = n THEN Free ELSE table[m]
  BY DEF Closed

\* The same of the server's descriptors.
LEMMA ClosedFiles ==
  ASSUME ServerTypes
  PROVE  /\ files \in [Descriptors -> Sockets]
         /\ \A n : /\ Closed(files, n) \in [Descriptors -> Sockets]
                   /\ \A m \in Descriptors :
                        Closed(files, n)[m] = IF m = n THEN Free ELSE files[m]
<1>1. files \in [Descriptors -> Sockets] /\ Free \in Sockets
  BY DEF ServerTypes, Sockets
<1>. QED
  BY <1>1, ClosedNumber

-----------------------------------------------------------------------------
(***************************************************************************)
(* Types.                                                                  *)
(***************************************************************************)
LEMMA ServerTypesOf ==
  ASSUME LogTypeOK, NumbersKept, NEW s \in Streams,
         Open(s) \/ Bind(s) \/ AcceptCall(s) \/ Destroy(s)
  PROVE  LogTypeOK'
<1>1. LogTypeOK /\ ServerTypes /\ ProgramTypes
  BY DEF LogTypeOK
<1>2. Listener(s) \in Listeners
  BY ListenerSet
<1>3. CASE Open(s)
  <2>1. Lowest(files) \in Descriptors
    BY <1>1, <1>3, RoomForSocket DEF Open, Goes, NumbersKept
  <2>. QED
    BY <1>1, <1>2, <1>3, <2>1 DEF Open, Goes, ServerTypes, ProgramTypes, LogTypeOK, programVars
<1>4. CASE Bind(s)
  <2>1. files' \in [Descriptors -> Sockets]
    BY <1>1, <1>4, ClosedFiles DEF Bind
  <2>2. foreign' \in BOOLEAN /\ failed' \subseteq {"bind", "connect"}
    BY <1>1, <1>4 DEF Bind, LogTypeOK
  <2>. QED
    BY <1>1, <1>4, <2>1, <2>2
       DEF Bind, Goes, ServerTypes, ProgramTypes, LogTypeOK, programVars, Sockets
<1>5. CASE AcceptCall(s)
  <2>1. held' \in [Streams -> {Free} \union Listeners]
    BY <1>1, <1>5, ListenerSet DEF AcceptCall, ServerTypes
  <2>2. at' \in [Streams -> {"socket", "bind", "accept", "accepting", "receive", "half",
                             "ended", "dead"}]
    BY <1>1, <1>5 DEF AcceptCall, Goes, ServerTypes
  <2>. QED
    BY <1>1, <1>5, <2>1, <2>2 DEF AcceptCall, Goes, ServerTypes, ProgramTypes, LogTypeOK, programVars
<1>6. CASE Destroy(s)
  <2>1. files' \in [Descriptors -> Sockets]
    BY <1>1, <1>6, ClosedFiles DEF Destroy, CloseNumber
  <2>2. listening' \subseteq Streams /\ foreign' \in BOOLEAN
    BY <1>1, <1>6 DEF Destroy, CloseNumber, Remaining, ServerTypes, LogTypeOK
  <2>. QED
    BY <1>1, <1>6, <2>1, <2>2
       DEF Destroy, Goes, CloseNumber, ServerTypes, ProgramTypes, LogTypeOK, programVars, Sockets
<1>. QED
  BY <1>3, <1>4, <1>5, <1>6

\* What accept does, once the number and the port are named.
LEMMA AcceptStep ==
  ASSUME ServerTypes, NumbersKept, PortsOpen, NEW s \in Streams, AcceptReturn(s)
  PROVE  \E t \in Streams, n \in Descriptors \ {1, 2} :
           /\ held[s] = Listener(t) /\ pending[t] # <<>> /\ t \in listening
           /\ n = Lowest(files) /\ files[n] = Free
           /\ pending' = [pending EXCEPT ![t] = Tail(@)]
           /\ clientSocket' = [clientSocket EXCEPT ![s] = n]
           /\ files' = [files EXCEPT ![n] = Head(pending[t])]
           /\ Head(pending[t]) \in Connections
<1>1. PICK t \in Streams : held[s] = Listener(t) /\ t \in listening
  BY ListenerSet DEF AcceptReturn, Goes, PortsOpen
<1>2. held[s][2] = t
  BY <1>1 DEF Listener
<1>3. PICK n \in Descriptors \ {1, 2} : n = Lowest(files) /\ files[n] = Free
  BY RoomForSocket DEF AcceptReturn, Goes, NumbersKept
<1>4. pending[t] # <<>> /\ pending[t] \in Seq(Connections)
  BY <1>1, <1>2 DEF AcceptReturn, ServerTypes
<1>5. Head(pending[t]) \in Connections
  BY <1>4
<1>. QED
  BY <1>1, <1>2, <1>3, <1>4, <1>5 DEF AcceptReturn

LEMMA AcceptTypes ==
  ASSUME LogTypeOK, NumbersKept, PortsOpen, NEW s \in Streams, AcceptReturn(s)
  PROVE  LogTypeOK'
<1>1. LogTypeOK /\ ServerTypes /\ ProgramTypes
  BY DEF LogTypeOK
<1>2. PICK t \in Streams, n \in Descriptors \ {1, 2} :
           /\ held[s] = Listener(t) /\ pending[t] # <<>> /\ t \in listening
           /\ n = Lowest(files) /\ files[n] = Free
           /\ pending' = [pending EXCEPT ![t] = Tail(@)]
           /\ clientSocket' = [clientSocket EXCEPT ![s] = n]
           /\ files' = [files EXCEPT ![n] = Head(pending[t])]
           /\ Head(pending[t]) \in Connections
  BY <1>1, AcceptStep
<1>3. pending' \in [Streams -> Seq(Connections)]
  <2>1. Tail(pending[t]) \in Seq(Connections)
    BY <1>1, <1>2 DEF ServerTypes
  <2>. QED
    BY <1>1, <1>2, <2>1 DEF ServerTypes
<1>4. files' \in [Descriptors -> Sockets]
  BY <1>1, <1>2, ClosedFiles DEF Sockets
<1>5. listening' \subseteq Streams
  BY <1>1 DEF AcceptReturn, Remaining, ServerTypes
<1>6. /\ held' \in [Streams -> {Free} \union Listeners]
      /\ clientSocket' \in [Streams -> {0} \union Descriptors]
      /\ at' \in [Streams -> {"socket", "bind", "accept", "accepting", "receive", "half",
                              "ended", "dead"}]
  BY <1>1, <1>2 DEF AcceptReturn, Goes, ServerTypes
<1>. QED
  BY <1>1, <1>3, <1>4, <1>5, <1>6
     DEF AcceptReturn, Goes, ServerTypes, ProgramTypes, LogTypeOK, programVars, Sockets

\* What is received is a line of some connection.
LEMMA ReceiveTypes ==
  ASSUME LogTypeOK, NEW s \in Streams, ReceiveMsg(s)
  PROVE  LogTypeOK'
<1>1. LogTypeOK /\ ServerTypes /\ ProgramTypes
  BY DEF LogTypeOK
<1>2. CASE UNCHANGED <<printed, wire>>
  BY <1>1, <1>2 DEF ReceiveMsg, ServerTypes, ProgramTypes, LogTypeOK, history
<1>3. CASE ~UNCHANGED <<printed, wire>>
  <2>1. PICK c \in Connections :
          /\ wire[c] # <<>>
          /\ printed' = [printed EXCEPT ![s] = Append(@, Head(wire[c]))]
          /\ wire' = [wire EXCEPT ![c] = Tail(@)]
          /\ UNCHANGED connected
    BY <1>3 DEF ReceiveMsg, Broken
  <2>2. wire[c] \in Seq(Line) /\ printed[s] \in Seq(Line)
    BY <1>1 DEF ServerTypes, ProgramTypes
  <2>3. Head(wire[c]) \in Line /\ Tail(wire[c]) \in Seq(Line)
    BY <2>1, <2>2
  <2>4. printed' \in [Streams -> Seq(Line)] /\ wire' \in [Connections -> Seq(Line)]
    BY <1>1, <2>1, <2>2, <2>3 DEF ServerTypes, ProgramTypes
  <2>. QED
    BY <1>1, <2>1, <2>4 DEF ReceiveMsg, ServerTypes, ProgramTypes, LogTypeOK, history
<1>. QED
  BY <1>2, <1>3

LEMMA ProgramTypesOf ==
  ASSUME LogTypeOK, OwnStreams, Program
  PROVE  LogTypeOK'
<1>1. LogTypeOK /\ ServerTypes /\ ProgramTypes
  BY DEF LogTypeOK
<1>2. CASE Start
  BY <1>1, <1>2, BoundAssumption
     DEF Start, serverVars, ServerTypes, ProgramTypes, LogTypeOK, history
<1>3. ASSUME NEW s \in Streams, NewLogger(s) PROVE LogTypeOK'
  <2>1. Lowest(own) \in Descriptors
    BY <1>1, <1>3, RoomInProgram DEF NewLogger, Streams
  <2>2. Connection(s, runs) \in Connections
    BY <1>1, <1>3, ConnectionSet DEF NewLogger, OwnStreams, ProgramTypes, Streams
  <2>3. pending[s] \in Seq(Connections)
    BY <1>1 DEF ServerTypes
  <2>7. Append(pending[s], Connection(s, runs)) \in Seq(Connections)
    BY <2>2, <2>3
  <2>4. pending' \in [Streams -> Seq(Connections)]
    BY <1>1, <1>3, <2>7 DEF NewLogger, ServerTypes
  <2>5. own' \in [Descriptors -> {Free, Terminal, Other} \union Connections]
    BY <1>1, <1>3, <2>2 DEF NewLogger, ProgramTypes
  <2>6. /\ logger' \in [Streams -> {0} \union Descriptors]
        /\ state' \in {"off", "out", "err", "opening", "running", "closing", "closed"}
        /\ failed' \subseteq {"bind", "connect"}
    BY <1>1, <1>3, <2>1 DEF NewLogger, ProgramTypes, LogTypeOK
  <2>. QED
    BY <1>1, <1>3, <2>4, <2>5, <2>6 DEF NewLogger, ServerTypes, ProgramTypes, LogTypeOK
<1>4. ASSUME NEW s \in Streams, Write(s) PROVE LogTypeOK'
  <2>1. PICK c \in Connections :
          /\ c = own[Standard[s]]
          /\ written' = [written EXCEPT ![c] = @ + 1]
          /\ \/ wire' = [wire EXCEPT ![c] = Append(@, <<s, runs, written'[c]>>)]
             \/ wire' = wire
          /\ UNCHANGED <<state, own, logger>> \/ Gone
          /\ UNCHANGED <<serverVars, runs, lost, first, foreign, failed>>
    BY <1>4 DEF Write
  <2>2. written' \in [Connections -> Nat] /\ written'[c] \in Nat \ {0}
    BY <1>1, <2>1 DEF LogTypeOK
  <2>3. <<s, runs, written'[c]>> \in Line
    BY <1>1, <1>4, <2>2 DEF Line, Write, OwnStreams, ProgramTypes
  <2>4. wire[c] \in Seq(Line)
    BY <1>1 DEF ProgramTypes
  <2>7. Append(wire[c], <<s, runs, written'[c]>>) \in Seq(Line)
    BY <2>3, <2>4
  <2>5. wire' \in [Connections -> Seq(Line)]
    BY <1>1, <2>1, <2>7 DEF ProgramTypes
  <2>6. ProgramTypes'
    BY <1>1, <2>1, <2>5 DEF Gone, Empty, ProgramTypes
  <2>. QED
    BY <1>1, <2>1, <2>2, <2>6 DEF serverVars, ServerTypes, LogTypeOK
<1>5. ASSUME NEW s \in Streams, CloseLogger(s) PROVE LogTypeOK'
  <2>1. own' \in [Descriptors -> {Free, Terminal, Other} \union Connections]
    BY <1>1, <1>5, ClosedNumber DEF CloseLogger, ProgramTypes
  <2>. QED
    BY <1>1, <1>5, <2>1 DEF CloseLogger, serverVars, ServerTypes, ProgramTypes, LogTypeOK
<1>6. CASE OpenOther
  BY <1>1, <1>6, RoomInProgram
     DEF OpenOther, serverVars, ServerTypes, ProgramTypes, LogTypeOK, history
<1>7. CASE Exit
  BY <1>1, <1>7 DEF Exit, Gone, Empty, serverVars, ServerTypes, ProgramTypes, LogTypeOK, history
<1>. QED
  BY <1>2, <1>3, <1>4, <1>5, <1>6, <1>7 DEF Program

LEMMA FaultTypes ==
  ASSUME LogTypeOK, KillServer \/ \E c \in Connections : Reset(c)
  PROVE  LogTypeOK'
<1>1. LogTypeOK /\ ServerTypes /\ ProgramTypes
  BY DEF LogTypeOK
<1>2. CASE KillServer
  BY <1>1, <1>2
     DEF KillServer, Empty, programVars, ServerTypes, ProgramTypes, LogTypeOK, history
<1>3. ASSUME NEW c \in Connections, Reset(c) PROVE LogTypeOK'
  BY <1>1, <1>3 DEF Reset, serverVars, ServerTypes, ProgramTypes, LogTypeOK, history
<1>. QED
  BY <1>2, <1>3

LEMMA TypesStep ==
  ASSUME PrintInv, [LogNext]_logVars
  PROVE  LogTypeOK'
<1>1. LogTypeOK /\ NumbersKept /\ PortsOpen /\ OwnStreams
  BY DEF PrintInv
<1>2. CASE UNCHANGED logVars
  BY <1>1, <1>2
     DEF logVars, serverVars, programVars, history, ServerTypes, ProgramTypes, LogTypeOK
<1>. QED
  BY <1>1, <1>2, ServerTypesOf, AcceptTypes, ReceiveTypes, ProgramTypesOf, FaultTypes DEF LogNext

-----------------------------------------------------------------------------
(***************************************************************************)
(* Which number is whose.                                                  *)
(***************************************************************************)
LEMMA NumbersStep ==
  ASSUME PrintInv, [LogNext]_logVars
  PROVE  NumbersKept'
<1>1. LogTypeOK /\ NumbersKept /\ ServerTypes /\ PortsOpen
  BY DEF PrintInv, LogTypeOK
<1>2. CASE UNCHANGED <<at, files, serverSocket, clientSocket, printed>>
  BY <1>1, <1>2 DEF NumbersKept
<1>3. ASSUME NEW s \in Streams, Open(s) PROVE NumbersKept'
  <2>1. Lowest(files) \in Descriptors \ {1, 2} /\ files[Lowest(files)] = Free
    BY <1>1, <1>3, RoomForSocket DEF Open, Goes, NumbersKept
  <2>. QED
    BY <1>1, <1>3, <2>1 DEF Open, Goes, NumbersKept, ServerTypes, Descriptors
<1>4. ASSUME NEW s \in Streams, Bind(s) PROVE NumbersKept'
  <2>1. \A m \in Descriptors :
          files'[m] = files[m] \/ (m = serverSocket[s] /\ files'[m] = Free)
    BY <1>1, <1>4, ClosedFiles DEF Bind
  <2>. QED
    BY <1>1, <1>4, <2>1 DEF Bind, Goes, NumbersKept, ServerTypes, Descriptors
<1>5. ASSUME NEW s \in Streams, AcceptCall(s) PROVE NumbersKept'
  BY <1>1, <1>5 DEF AcceptCall, Goes, NumbersKept, ServerTypes
<1>6. ASSUME NEW s \in Streams, AcceptReturn(s) PROVE NumbersKept'
  <2>1. PICK n \in Descriptors \ {1, 2}, c \in Connections :
          /\ files[n] = Free
          /\ clientSocket' = [clientSocket EXCEPT ![s] = n]
          /\ files' = [files EXCEPT ![n] = c]
    BY <1>1, <1>6, AcceptStep
  <2>2. at[s] = "accepting" /\ at' = [at EXCEPT ![s] = "receive"]
        /\ UNCHANGED <<serverSocket, printed>>
    BY <1>6 DEF AcceptReturn, Goes
  <2>. QED
    BY <1>1, <2>1, <2>2 DEF NumbersKept, ServerTypes, Descriptors
<1>7. ASSUME NEW s \in Streams, ReceiveMsg(s) PROVE NumbersKept'
  <2>1. at[s] = "receive" /\ UNCHANGED <<at, serverSocket, clientSocket, files>>
        /\ \A t \in Streams : t # s => printed'[t] = printed[t]
    BY <1>1, <1>7 DEF ReceiveMsg, ServerTypes
  <2>. QED
    BY <1>1, <2>1 DEF NumbersKept
<1>8. ASSUME NEW s \in Streams, Destroy(s) PROVE NumbersKept'
  <2>1. \A m \in Descriptors :
          files'[m] = files[m] \/ (m \in {serverSocket[s], clientSocket[s]} /\ files'[m] = Free)
    BY <1>1, <1>8, ClosedFiles DEF Destroy, CloseNumber
  <2>2. UNCHANGED <<serverSocket, clientSocket, printed>>
    BY <1>8 DEF Destroy, CloseNumber
  <2>3. /\ at[s] \in {"receive", "half"} /\ at'[s] \in {"half", "ended"}
        /\ \A t \in Streams : t # s => at'[t] = at[t]
    BY <1>1, <1>8 DEF Destroy, Goes, ServerTypes
  <2>4. files'[1] = files[1] /\ files'[2] = files[2]
    BY <1>1, <2>1 DEF NumbersKept, Descriptors
  <2>. QED
    BY <1>1, <2>1, <2>2, <2>3, <2>4 DEF NumbersKept
<1>9. CASE Program
  BY <1>2, <1>9
     DEF Program, Start, NewLogger, OpenOther, Write, CloseLogger, Exit, serverVars
<1>10. CASE KillServer
  BY <1>10, SocketsDiffer DEF KillServer, NumbersKept, Empty, Descriptors
<1>11. ASSUME NEW c \in Connections, Reset(c) PROVE NumbersKept'
  BY <1>2, <1>11 DEF Reset, serverVars
<1>12. CASE UNCHANGED logVars
  BY <1>2, <1>12 DEF logVars, serverVars
<1>. QED
  BY <1>3, <1>4, <1>5, <1>6, <1>7, <1>8, <1>9, <1>10, <1>11, <1>12 DEF LogNext

LEMMA SocketKinds ==
  \A s \in Streams : /\ Free \notin {Listener(s)} /\ Free \notin ConnectionsOf(s)
                     /\ \A t \in Streams : t # s => Listener(t) \notin {Listener(s)}
                     /\ \A t \in Streams : Listener(t) \notin ConnectionsOf(s)
  BY SocketsDiffer DEF ConnectionsOf

\* What a step of one thread leaves to the other: its sockets, or, if the one
\* is leaving, no socket; and a number that it has lost to that nobody gets.
LEMMA OtherKeeps ==
  ASSUME PrintInv, NEW s \in Streams, NEW t \in Streams, t = Partner(s),
         ServerTypes', UNCHANGED <<serverSocket[t], clientSocket[t], connected[t], held[t], at[t]>>,
         \A m \in Descriptors :
           /\ files[m] = Free /\ Leaving(s) => files'[m] = Free /\ Leaving(s)'
           /\ files[m] # Free /\ files[m] # Listener(s) =>
                files'[m] = files[m] \/ (files'[m] = Free /\ Leaving(s)')
  PROVE  InPlace(t)'
<1>. DEFINE Kept(n, S) == At(files, n) \in S \/ (At(files, n) = Free /\ (Leaving(s) \/ n = 0))
            Keeps(n, S) == At(files', n) \in S \/ (At(files', n) = Free /\ (Leaving(s)' \/ n = 0))
<1>1. InPlace(t) /\ Partner(t) = s /\ t # s
  BY TwoStreams DEF PrintInv, SocketsInPlace
<1>2. ASSUME NEW n \in {0} \union Descriptors, NEW S, Free \notin S, Listener(s) \notin S, Kept(n, S)
      PROVE  Keeps(n, S)
  <2>1. CASE n = 0
    BY <2>1 DEF At, Descriptors
  <2>2. CASE n \in Descriptors
    <3>1. CASE files[n] \in S
      BY <1>2, <2>2, <3>1 DEF At
    <3>2. CASE files[n] = Free /\ Leaving(s)
      BY <2>2, <3>2 DEF At
    <3>3. n # 0
      BY <2>2 DEF Descriptors
    <3>. QED
      BY <1>2, <2>2, <3>1, <3>2, <3>3 DEF At
  <2>. QED
    BY <2>1, <2>2
<1>3. /\ Free \notin {Listener(t)} /\ Listener(s) \notin {Listener(t)}
      /\ Free \notin ConnectionsOf(t) /\ Listener(s) \notin ConnectionsOf(t)
  BY <1>1, SocketKinds
<1>4. serverSocket[t] \in {0} \union Descriptors /\ clientSocket[t] \in {0} \union Descriptors
  BY DEF PrintInv, LogTypeOK, ServerTypes
<1>5. /\ Kept(serverSocket[t], {Listener(t)}) => Keeps(serverSocket[t], {Listener(t)})
      /\ Kept(clientSocket[t], ConnectionsOf(t)) => Keeps(clientSocket[t], ConnectionsOf(t))
  <2>. HIDE DEF Kept, Keeps
  <2>. QED
    BY <1>2, <1>3, <1>4
<1>. QED
  BY <1>1, <1>5 DEF InPlace, Its, ConnectionsOf

LEMMA SocketsStep ==
  ASSUME PrintInv, [LogNext]_logVars
  PROVE  SocketsInPlace'
<1>1. LogTypeOK /\ NumbersKept /\ ServerTypes /\ PortsOpen /\ SocketsInPlace /\ ServerTypes'
  BY TypesStep DEF PrintInv, LogTypeOK
<1>2. CASE UNCHANGED <<at, files, serverSocket, clientSocket, connected, held>>
  BY <1>1, <1>2 DEF SocketsInPlace, InPlace, Its, At, Leaving
<1>3. ASSUME NEW s \in Streams, Open(s) \/ Bind(s) \/ AcceptCall(s) \/ AcceptReturn(s)
                                \/ ReceiveMsg(s) \/ Destroy(s)
      PROVE  SocketsInPlace'
  <2>. DEFINE t == Partner(s)
  <2>1. t \in Streams /\ t # s /\ InPlace(s) /\ \A u \in Streams : u = s \/ u = t
    BY <1>1, TwoStreams DEF SocketsInPlace
  <2>2. UNCHANGED <<serverSocket[t], clientSocket[t], connected[t], held[t], at[t]>>
    BY <1>1, <1>3, <2>1
       DEF Open, Bind, AcceptCall, AcceptReturn, ReceiveMsg, Destroy, CloseNumber, Goes, ServerTypes
  <2>3. SUFFICES /\ InPlace(s)'
                 /\ \A m \in Descriptors :
                      /\ files[m] = Free /\ Leaving(s) => files'[m] = Free /\ Leaving(s)'
                      /\ files[m] # Free /\ files[m] # Listener(s) =>
                           files'[m] = files[m] \/ (files'[m] = Free /\ Leaving(s)')
    BY <1>1, <2>1, <2>2, OtherKeeps DEF SocketsInPlace
  <2>4. CASE Open(s)
    <3>1. Lowest(files) \in Descriptors \ {1, 2} /\ files[Lowest(files)] = Free
      BY <1>1, <2>4, RoomForSocket DEF Open, Goes, NumbersKept
    <3>. QED
      BY <1>1, <2>1, <2>4, <3>1 DEF Open, Goes, InPlace, Its, At, Leaving, ServerTypes
  <2>5. CASE Bind(s)
    <3>1. at[s] = "bind" /\ at'[s] = "accept" /\ ~connected[s]
      BY <1>1, <2>1, <2>5 DEF Bind, Goes, ServerTypes, InPlace
    <3>2. CASE files' = files /\ At(files, serverSocket[s]) = Listener(s)
      BY <1>1, <2>1, <2>5, <3>1, <3>2 DEF Bind, InPlace, Its, Leaving
    <3>3. CASE files' = Closed(files, serverSocket[s]) /\ connected' = connected
      <4>1. \A m \in Descriptors :
              files'[m] = files[m] \/ (m = serverSocket[s] /\ files'[m] = Free)
        BY <1>1, <3>3, ClosedFiles
      <4>2. serverSocket[s] \in Descriptors => files[serverSocket[s]] \in {Free, Listener(s)}
        BY <2>1, <3>1 DEF InPlace, Its, At
      <4>. QED
        BY <3>1, <3>3, <4>1, <4>2 DEF InPlace, Leaving
    <3>. QED
      BY <2>5, <3>2, <3>3 DEF Bind
  <2>6. CASE AcceptCall(s)
    <3>1. at[s] = "accept" /\ files' = files /\ connected' = connected
          /\ UNCHANGED clientSocket /\ clientSocket[s] = 0
      BY <1>1, <2>6 DEF AcceptCall, Goes, NumbersKept
    <3>2. \/ at'[s] = "accepting" /\ held'[s] = At(files, serverSocket[s])
             /\ At(files, serverSocket[s]) \in Listeners
          \/ at'[s] = "receive"
      BY <1>1, <2>6, ListenerSet DEF AcceptCall, Goes, ServerTypes
    <3>3. Free \notin Listeners /\ At(files, 0) = Free
      BY SocketsDiffer, ListenerSet DEF At, Descriptors
    <3>. QED
      BY <2>1, <3>1, <3>2, <3>3 DEF InPlace, Its, Leaving
  <2>7. CASE AcceptReturn(s)
    <3>1. PICK u \in Streams, n \in Descriptors \ {1, 2} :
            /\ held[s] = Listener(u) /\ files[n] = Free
            /\ pending[u] # <<>>
            /\ clientSocket' = [clientSocket EXCEPT ![s] = n]
            /\ files' = [files EXCEPT ![n] = Head(pending[u])]
      BY <1>1, <2>7, AcceptStep
    <3>2. at[s] = "accepting" /\ at'[s] = "receive" /\ connected' = connected
      BY <1>1, <2>7 DEF AcceptReturn, Goes, ServerTypes
    <3>3. Head(pending[u]) \in ConnectionsOf(u)
      <4>1. 1 \in DOMAIN pending[u] /\ Head(pending[u]) = pending[u][1]
        BY <1>1, <3>1 DEF ServerTypes
      <4>. QED
        BY <4>1 DEF PrintInv, ConnectionsMade, ConnectionsOf
    <3>4. connected[s] => u = s
      BY <2>1, <3>1, <3>2, SocketsDiffer DEF InPlace
    <3>5. At(files', clientSocket'[s]) = Head(pending[u])
      BY <1>1, <3>1 DEF At, ServerTypes
    <3>. QED
      BY <1>1, <2>1, <3>1, <3>2, <3>3, <3>4, <3>5 DEF InPlace, Its, Leaving, ServerTypes, ConnectionsOf
  <2>8. CASE ReceiveMsg(s)
    <3>1. /\ at[s] = "receive" /\ connected[s] /\ connected'[s] \in {connected[s], FALSE}
          /\ UNCHANGED <<at, serverSocket, clientSocket, files, held>>
      BY <1>1, <2>8 DEF ReceiveMsg, ServerTypes
    <3>. QED
      BY <2>1, <3>1 DEF InPlace, Its, Leaving, ConnectionsOf
  <2>9. CASE Destroy(s)
    <3>1. \A m \in Descriptors : files'[m] = files[m] \/ files'[m] = Free
      BY <1>1, <2>9, ClosedFiles DEF Destroy, CloseNumber
    <3>2. at'[s] \in {"half", "ended"} /\ ~connected'[s]
      BY <1>1, <2>1, <2>9 DEF Destroy, CloseNumber, Goes, ServerTypes, InPlace
    <3>. QED
      BY <3>1, <3>2 DEF InPlace, Leaving
  <2>. QED
    BY <1>3, <2>4, <2>5, <2>6, <2>7, <2>8, <2>9
<1>9. CASE Program
  BY <1>2, <1>9
     DEF Program, Start, NewLogger, OpenOther, Write, CloseLogger, Exit, serverVars
<1>10. CASE KillServer
  BY <1>10 DEF KillServer, SocketsInPlace, InPlace
<1>11. ASSUME NEW c \in Connections, Reset(c) PROVE SocketsInPlace'
  BY <1>2, <1>11 DEF Reset, serverVars
<1>12. CASE UNCHANGED logVars
  BY <1>2, <1>12 DEF logVars, serverVars
<1>. QED
  BY <1>3, <1>9, <1>10, <1>11, <1>12 DEF LogNext

LEMMA PortsStep ==
  ASSUME PrintInv, [LogNext]_logVars
  PROVE  PortsOpen'
<1>1. LogTypeOK /\ NumbersKept /\ ServerTypes /\ PortsOpen
  BY DEF PrintInv, LogTypeOK
<1>2. CASE UNCHANGED <<at, listening, pending, held>>
  BY <1>1, <1>2 DEF PortsOpen
<1>3. ASSUME NEW s \in Streams, Open(s) PROVE PortsOpen'
  BY <1>1, <1>3 DEF Open, Goes, PortsOpen, ServerTypes
<1>4. ASSUME NEW s \in Streams, Bind(s) PROVE PortsOpen'
  BY <1>1, <1>4 DEF Bind, Goes, PortsOpen, ServerTypes
<1>5. ASSUME NEW s \in Streams, AcceptCall(s) PROVE PortsOpen'
  <2>1. PICK socket : socket = At(files, serverSocket[s])
    OBVIOUS
  <2>2. /\ UNCHANGED <<listening, pending>>
        /\ at[s] = "accept"
        /\ \/ /\ \E t \in listening : socket = Listener(t)
              /\ at' = [at EXCEPT ![s] = "accepting"] /\ held' = [held EXCEPT ![s] = socket]
           \/ at' = [at EXCEPT ![s] = "receive"] /\ held' = [held EXCEPT ![s] = Free]
    BY <1>5, <2>1 DEF AcceptCall, Goes
  <2>3. /\ at'[s] \in {"accepting", "receive"}
        /\ at'[s] = "accepting" => \E t \in listening : held'[s] = Listener(t)
        /\ \A t : held'[s] = Listener(t) => t \in listening
        /\ \A t \in Streams : t # s => at'[t] = at[t] /\ held'[t] = held[t]
    BY <1>1, <2>2, SocketsDiffer DEF ServerTypes
  <2>4. \A t \in listening : Listener(t) \in Listeners
    BY <1>1, ListenerSet DEF ServerTypes
  <2>5. \A t \in Streams : at'[t] = "accepting" => held'[t] \in Listeners
    BY <1>1, <2>3, <2>4 DEF PortsOpen
  <2>6. \A t, u \in Streams : held'[t] = Listener(u) => u \in listening'
    BY <1>1, <2>2, <2>3 DEF PortsOpen
  <2>. QED
    BY <1>1, <2>2, <2>3, <2>5, <2>6 DEF PortsOpen, ServerTypes
<1>6. ASSUME NEW s \in Streams, AcceptReturn(s) PROVE PortsOpen'
  <2>1. PICK t \in Streams :
          pending[t] # <<>> /\ pending' = [pending EXCEPT ![t] = Tail(@)]
    BY <1>1, <1>6, AcceptStep
  <2>2. /\ at' = [at EXCEPT ![s] = "receive"] /\ held' = [held EXCEPT ![s] = Free]
        /\ listening' = Remaining(files', held')
    BY <1>6 DEF AcceptReturn, Goes
  <2>3. \A u, v \in Streams : held'[u] = Listener(v) => held[u] = Listener(v)
    BY <1>1, <2>2, SocketsDiffer DEF ServerTypes
  <2>. QED
    BY <1>1, <2>1, <2>2, <2>3 DEF PortsOpen, ServerTypes, Remaining
<1>7. ASSUME NEW s \in Streams, ReceiveMsg(s) PROVE PortsOpen'
  BY <1>2, <1>7 DEF ReceiveMsg
<1>8. ASSUME NEW s \in Streams, Destroy(s) PROVE PortsOpen'
  <2>1. /\ at[s] \in {"receive", "half"} /\ UNCHANGED <<held, pending>>
        /\ \E what \in {"half", "ended"} : at' = [at EXCEPT ![s] = what]
        /\ listening' = Remaining(files', held)
    BY <1>8 DEF Destroy, CloseNumber, Goes
  <2>. QED
    BY <1>1, <2>1 DEF PortsOpen, ServerTypes, Remaining
<1>9. ASSUME NEW s \in Streams, NewLogger(s) PROVE PortsOpen'
  BY <1>1, <1>9 DEF NewLogger, PortsOpen, ServerTypes
<1>10. CASE Start \/ OpenOther \/ Exit \/ \E s \in Streams : Write(s) \/ CloseLogger(s)
  BY <1>2, <1>10 DEF Start, OpenOther, Write, CloseLogger, Exit, serverVars
<1>11. CASE KillServer
  BY <1>11, SocketsDiffer DEF KillServer, PortsOpen
<1>12. ASSUME NEW c \in Connections, Reset(c) PROVE PortsOpen'
  BY <1>2, <1>12 DEF Reset, serverVars
<1>13. CASE UNCHANGED logVars
  BY <1>2, <1>13 DEF logVars, serverVars
<1>. QED
  BY <1>3, <1>4, <1>5, <1>6, <1>7, <1>8, <1>9, <1>10, <1>11, <1>12, <1>13 DEF LogNext, Program

\* What has been made stays made.
LEMMA MadeKept ==
  ASSUME ProgramTypes, [LogNext]_logVars, NEW s \in Streams, NEW r \in 1 .. MaxRuns, Made(s, r)
  PROVE  Made(s, r)'
<1>1. CASE UNCHANGED <<state, runs>>
  BY <1>1 DEF Made, Unmade
<1>2. CASE Start
  BY <1>2 DEF Start, Made, Unmade, ProgramTypes
<1>3. CASE runs' = runs /\ state' \notin {"out", "err"}
  BY <1>3 DEF Made, Unmade
<1>4. ASSUME NEW t \in Streams, NewLogger(t) PROVE Made(s, r)'
  BY <1>4 DEF NewLogger, Made, Unmade, Streams
<1>5. CASE \E t \in Streams : Write(t) \/ CloseLogger(t)
  BY <1>1, <1>3, <1>5 DEF Write, CloseLogger, Gone
<1>6. CASE OpenOther \/ Exit
  BY <1>3, <1>6 DEF OpenOther, Exit, Gone
<1>7. CASE KillServer \/ (\E c \in Connections : Reset(c)) \/ UNCHANGED logVars
  BY <1>1, <1>7 DEF KillServer, Reset, logVars, programVars
<1>8. CASE \E t \in Streams : Open(t) \/ Bind(t) \/ AcceptCall(t) \/ AcceptReturn(t)
                              \/ ReceiveMsg(t) \/ Destroy(t)
  BY <1>1, <1>8
     DEF Open, Bind, AcceptCall, AcceptReturn, ReceiveMsg, Destroy, Goes, programVars
<1>. QED
  BY <1>2, <1>4, <1>5, <1>6, <1>7, <1>8 DEF LogNext, Program

\* The program's own numbers.
LEMMA OwnStep ==
  ASSUME PrintInv, [LogNext]_logVars
  PROVE  OwnStreams'
<1>1. LogTypeOK /\ ProgramTypes /\ OwnStreams
  BY DEF PrintInv, LogTypeOK
<1>2. CASE UNCHANGED <<state, runs, own, logger>>
  BY <1>1, <1>2 DEF OwnStreams, Unmade
<1>3. Empty[1] = Terminal /\ Empty[2] = Terminal /\ Terminal # Free /\ Terminal \notin Connections
      /\ \A n \in Descriptors \ {1, 2} : Empty[n] = Free
  BY SocketsDiffer, ConnectionSet DEF Empty, Descriptors
<1>4. CASE Start
  BY <1>1, <1>3, <1>4, TwoStreams DEF Start, OwnStreams, ProgramTypes
<1>5. ASSUME NEW s \in Streams, NewLogger(s) PROVE OwnStreams'
  <2>1. PICK n \in Descriptors \ {1, 2} : n = Lowest(own) /\ own[n] = Free
    BY <1>1, <1>5, RoomInProgram DEF NewLogger, Streams
  <2>2. /\ state = s /\ state' = (IF s = "out" THEN "err" ELSE "opening")
        /\ logger' = [logger EXCEPT ![s] = n] /\ runs' = runs
        /\ \/ own' = [own EXCEPT ![n] = Connection(s, runs), ![Standard[s]] = Connection(s, runs)]
           \/ own' = own
    BY <1>5, <2>1 DEF NewLogger
  <2>3. Standard["out"] = 1 /\ Standard["err"] = 2 /\ {1, 2} \subseteq Descriptors
    BY DEF Standard, Descriptors
  <2>4. CASE s = "out"
    BY <1>1, <1>3, <2>1, <2>2, <2>3, <2>4, SocketsDiffer
       DEF OwnStreams, ProgramTypes, Streams, Unmade
  <2>5. CASE s = "err"
    BY <1>1, <1>3, <2>1, <2>2, <2>3, <2>5, SocketsDiffer
       DEF OwnStreams, ProgramTypes, Streams, Unmade
  <2>. QED
    BY <2>4, <2>5 DEF Streams
<1>6. CASE Gone /\ runs' = runs
  BY <1>1, <1>3, <1>6, TwoStreams DEF Gone, OwnStreams
<1>7. ASSUME NEW s \in Streams, Write(s) PROVE OwnStreams'
  BY <1>2, <1>6, <1>7 DEF Write
<1>8. ASSUME NEW s \in Streams, CloseLogger(s) PROVE OwnStreams'
  <2>1. \A m \in Descriptors : own'[m] = own[m] \/ (m = logger[s] /\ own'[m] = Free)
    BY <1>1, <1>8 DEF CloseLogger, Closed, ProgramTypes
  <2>2. state \in {"running", "closing"} /\ state' \in {"closing", "closed"}
        /\ UNCHANGED <<runs, logger>>
    BY <1>8 DEF CloseLogger
  <2>3. Free \notin Connections /\ {1, 2} \subseteq Descriptors
    BY SocketsDiffer, ConnectionSet DEF Descriptors
  <2>. QED
    BY <1>1, <2>1, <2>2, <2>3, TwoStreams DEF OwnStreams, Unmade
<1>9. CASE OpenOther
  <2>1. PICK n \in Descriptors \ {1, 2} : n = Lowest(own) /\ own[n] = Free
    BY <1>1, <1>9, RoomInProgram DEF OpenOther
  <2>2. state = "opening" /\ state' = "running" /\ own' = [own EXCEPT ![n] = Other]
        /\ UNCHANGED <<runs, logger>>
    BY <1>9, <2>1 DEF OpenOther
  <2>. QED
    BY <1>1, <2>1, <2>2, TwoStreams DEF OwnStreams, Unmade, ProgramTypes
<1>10. CASE Exit
  BY <1>6, <1>10 DEF Exit
<1>11. CASE KillServer \/ (\E c \in Connections : Reset(c)) \/ UNCHANGED logVars
  BY <1>2, <1>11 DEF KillServer, Reset, logVars, programVars
<1>12. CASE \E t \in Streams : Open(t) \/ Bind(t) \/ AcceptCall(t) \/ AcceptReturn(t)
                               \/ ReceiveMsg(t) \/ Destroy(t)
  BY <1>2, <1>12
     DEF Open, Bind, AcceptCall, AcceptReturn, ReceiveMsg, Destroy, Goes, programVars
<1>. QED
  BY <1>4, <1>5, <1>7, <1>8, <1>9, <1>10, <1>11, <1>12 DEF LogNext, Program

-----------------------------------------------------------------------------
(***************************************************************************)
(* Connections: made once, with one end at the server.                     *)
(***************************************************************************)
LEMMA ConnectionsStep ==
  ASSUME PrintInv, [LogNext]_logVars
  PROVE  ConnectionsMade' /\ OneEnd'
<1>1. /\ LogTypeOK /\ NumbersKept /\ ServerTypes /\ ProgramTypes /\ PortsOpen /\ OwnStreams
      /\ ConnectionsMade /\ OneEnd
  BY DEF PrintInv, LogTypeOK
<1>2. \A s \in Streams, r \in 1 .. MaxRuns : Made(s, r) => Made(s, r)'
  BY <1>1, MadeKept
<1>3. ASSUME \A n \in Descriptors : files'[n] = files[n] \/ files'[n] \notin Connections,
             UNCHANGED <<written, wire>>,
             UNCHANGED pending \/ \A s \in Streams : pending'[s] = <<>>
      PROVE  ConnectionsMade' /\ OneEnd'
  <2>1. \A n \in Descriptors, c \in Connections : files'[n] = c => files[n] = c
    BY <1>3
  <2>2. \A s \in Streams, r \in 1 .. MaxRuns : Connection(s, r) \in Connections
    BY ConnectionSet
  <2>3. ASSUME NEW s \in Streams
        PROVE  pending'[s] = pending[s] \/ DOMAIN pending'[s] = {}
    BY <1>3
  <2>4. ConnectionsMade'
    BY <1>1, <1>2, <1>3, <2>1, <2>2, <2>3 DEF ConnectionsMade
  <2>5. \A s \in Streams : \A i \in DOMAIN pending[s] : pending[s][i] \in Connections
    BY <1>1, <2>2 DEF ConnectionsMade
  <2>6. OneEnd'
    BY <1>1, <2>1, <2>3, <2>5 DEF OneEnd
  <2>. QED
    BY <2>4, <2>6
<1>4. Free \notin Connections /\ Terminal \notin Connections
      /\ \A s : Listener(s) \notin Connections
  BY SocketsDiffer, ConnectionSet
<1>5. ASSUME NEW s \in Streams, Open(s) \/ Bind(s) \/ AcceptCall(s) \/ Destroy(s)
      PROVE  ConnectionsMade' /\ OneEnd'
  <2>1. \A n \in Descriptors : files'[n] = files[n] \/ files'[n] \in {Free, Listener(s)}
    BY <1>1, <1>5, ClosedFiles
       DEF Open, Bind, AcceptCall, Destroy, CloseNumber, ServerTypes
  <2>2. UNCHANGED <<written, wire, pending>>
    BY <1>5 DEF Open, Bind, AcceptCall, Destroy, CloseNumber, Goes, programVars
  <2>. QED
    BY <1>3, <1>4, <2>1, <2>2
<1>6. CASE UNCHANGED <<files, written, wire, pending>>
  BY <1>3, <1>6
<1>7. CASE KillServer
  BY <1>3, <1>4, <1>7 DEF KillServer, Empty, programVars, history
<1>8. ASSUME NEW s \in Streams, AcceptReturn(s) PROVE ConnectionsMade' /\ OneEnd'
  <2>1. PICK t \in Streams, n \in Descriptors \ {1, 2} :
          /\ pending[t] # <<>> /\ files[n] = Free
          /\ pending' = [pending EXCEPT ![t] = Tail(@)]
          /\ files' = [files EXCEPT ![n] = Head(pending[t])]
          /\ Head(pending[t]) \in Connections
    BY <1>1, <1>8, AcceptStep
  <2>2. UNCHANGED <<written, wire>>
    BY <1>8 DEF AcceptReturn, Goes, programVars
  <2>3. pending[t] \in Seq(Connections) /\ Head(pending[t]) = pending[t][1]
        /\ 1 \in DOMAIN pending[t]
    BY <1>1, <2>1 DEF ServerTypes
  <2>4. /\ \A i \in DOMAIN pending'[t] :
             i \in Nat /\ i + 1 \in DOMAIN pending[t] /\ i + 1 # 1
               /\ pending'[t][i] = pending[t][i + 1]
        /\ \A u \in Streams \ {t} : pending'[u] = pending[u]
    <3>1. pending'[t] = Tail(pending[t])
      BY <1>1, <2>1 DEF ServerTypes
    <3>. QED
      BY <1>1, <2>1, <2>3, <3>1 DEF ServerTypes
  <2>5. /\ files'[n] = pending[t][1]
        /\ \A m \in Descriptors \ {n} : files'[m] = files[m]
    BY <1>1, <2>1, <2>3 DEF ServerTypes
  <2>6. \A u \in Streams : \A i \in DOMAIN pending'[u] :
          \E j \in DOMAIN pending[u] : pending'[u][i] = pending[u][j]
    BY <2>4
  <2>7. PICK q \in 1 .. MaxRuns : Made(t, q) /\ pending[t][1] = Connection(t, q)
    BY <1>1, <2>3 DEF ConnectionsMade
  <2>8. ConnectionsMade'
    <3>1. ASSUME NEW u \in Streams, NEW r \in 1 .. MaxRuns, ~Made(u, r)'
          PROVE  /\ \A m \in Descriptors : files'[m] # Connection(u, r)
                 /\ written'[Connection(u, r)] = 0 /\ wire'[Connection(u, r)] = <<>>
      BY <1>1, <1>2, <2>2, <2>5, <2>7, <3>1, SocketsDiffer DEF ConnectionsMade
    <3>2. ASSUME NEW u \in Streams, NEW i \in DOMAIN pending'[u]
          PROVE  \E r \in 1 .. MaxRuns : Made(u, r)' /\ pending'[u][i] = Connection(u, r)
      BY <1>1, <1>2, <2>6 DEF ConnectionsMade
    <3>. QED
      BY <3>1, <3>2 DEF ConnectionsMade
  <2>9. OneEnd'
    <3>1. ASSUME NEW u \in Streams, NEW i \in DOMAIN pending'[u], NEW j \in DOMAIN pending'[u],
                 pending'[u][i] = pending'[u][j]
          PROVE  i = j
      <4>1. CASE u = t
        BY <1>1, <2>4, <3>1, <4>1 DEF OneEnd
      <4>2. CASE u # t
        BY <1>1, <2>4, <3>1, <4>2 DEF OneEnd
      <4>. QED
        BY <4>1, <4>2
    <3>2. ASSUME NEW m \in Descriptors, NEW u \in Streams, NEW i \in DOMAIN pending'[u]
          PROVE  files'[m] # pending'[u][i]
      <4>1. CASE m # n
        BY <1>1, <2>5, <2>6, <4>1 DEF OneEnd
      <4>2. CASE m = n /\ u = t
        BY <1>1, <2>3, <2>4, <2>5, <4>2 DEF OneEnd
      <4>3. CASE m = n /\ u # t
        BY <1>1, <2>4, <2>5, <2>7, <4>3, SocketsDiffer DEF ConnectionsMade
      <4>. QED
        BY <4>1, <4>2, <4>3
    <3>3. ASSUME NEW k \in Descriptors, NEW m \in Descriptors, files'[k] = files'[m],
                 files'[k] \in Connections
          PROVE  k = m
      BY <1>1, <2>3, <2>5, <3>3 DEF OneEnd
    <3>. QED
      BY <3>1, <3>2, <3>3 DEF OneEnd
  <2>. QED
    BY <2>8, <2>9
<1>9. ASSUME NEW s \in Streams, ReceiveMsg(s) PROVE ConnectionsMade' /\ OneEnd'
  <2>1. UNCHANGED <<files, pending, written, state, runs>>
    BY <1>9 DEF ReceiveMsg, history
  <2>2. \A c \in Connections : wire'[c] = wire[c] \/ \E n \in Descriptors : files[n] = c
    BY <1>1, <1>4, <1>9 DEF ReceiveMsg, At, Broken, ProgramTypes
  <2>3. \A u \in Streams, r \in 1 .. MaxRuns : Connection(u, r) \in Connections
    BY ConnectionSet
  <2>. QED
    BY <1>1, <1>2, <2>1, <2>2, <2>3 DEF ConnectionsMade, OneEnd
<1>10. ASSUME NEW s \in Streams, NewLogger(s) PROVE ConnectionsMade' /\ OneEnd'
  <2>1. CASE UNCHANGED pending
    BY <1>6, <1>10, <2>1 DEF NewLogger
  <2>. DEFINE c == Connection(s, runs)
  <2>2. CASE pending' = [pending EXCEPT ![s] = Append(@, c)]
    <3>1. UNCHANGED <<files, written, wire>> /\ state = s /\ runs \in 1 .. MaxRuns
          /\ ~Made(s, runs) /\ Made(s, runs)'
      BY <1>1, <1>10 DEF NewLogger, Made, Unmade, OwnStreams, ProgramTypes, Streams
    <3>2. /\ \A n \in Descriptors : files[n] # c
          /\ \A i \in DOMAIN pending[s] : pending[s][i] # c
      BY <1>1, <3>1, SocketsDiffer DEF ConnectionsMade
    <3>3. /\ pending'[s] = Append(pending[s], c)
          /\ \A u \in Streams \ {s} : pending'[u] = pending[u]
      BY <1>1, <2>2 DEF ServerTypes
    <3>4. pending[s] \in Seq(Connections)
      BY <1>1 DEF ServerTypes
    <3>5. \A i \in DOMAIN pending'[s] :
            \/ i \in DOMAIN pending[s] /\ pending'[s][i] = pending[s][i]
            \/ i = Len(pending[s]) + 1 /\ pending'[s][i] = c
      BY <3>3, <3>4
    <3>6. ConnectionsMade'
      <4>1. ASSUME NEW u \in Streams, NEW r \in 1 .. MaxRuns, ~Made(u, r)'
            PROVE  /\ \A m \in Descriptors : files'[m] # Connection(u, r)
                   /\ written'[Connection(u, r)] = 0 /\ wire'[Connection(u, r)] = <<>>
        BY <1>1, <1>2, <3>1, <4>1 DEF ConnectionsMade
      <4>2. ASSUME NEW u \in Streams, NEW i \in DOMAIN pending'[u]
            PROVE  \E r \in 1 .. MaxRuns : Made(u, r)' /\ pending'[u][i] = Connection(u, r)
        <5>1. CASE u = s
          <6>1. PICK q \in 1 .. MaxRuns : q = runs /\ Made(s, q)'
            BY <1>10, <3>1 DEF NewLogger, Made, Unmade
          <6>2. pending'[s][i] = Connection(s, runs) \/ (i \in DOMAIN pending[s] /\ pending'[s][i] = pending[s][i])
            BY <3>5, <4>2, <5>1
          <6>. QED
            BY <1>1, <1>2, <4>2, <5>1, <6>1, <6>2 DEF ConnectionsMade
        <5>2. CASE u # s
          BY <1>1, <1>2, <3>3, <4>2, <5>2 DEF ConnectionsMade
        <5>. QED
          BY <5>1, <5>2
      <4>. QED
        BY <4>1, <4>2 DEF ConnectionsMade
    <3>7. \A u \in Streams : \A i, j \in DOMAIN pending'[u] : pending'[u][i] = pending'[u][j] => i = j
      BY <1>1, <3>2, <3>3, <3>5 DEF OneEnd
    <3>8. \A n \in Descriptors, u \in Streams : \A i \in DOMAIN pending'[u] : files'[n] # pending'[u][i]
      BY <1>1, <3>1, <3>2, <3>3, <3>5 DEF OneEnd
    <3>9. OneEnd'
      BY <1>1, <3>1, <3>7, <3>8 DEF OneEnd
    <3>. QED
      BY <3>6, <3>9
  <2>. QED
    BY <1>10, <2>1, <2>2 DEF NewLogger
<1>11. ASSUME NEW s \in Streams, Write(s) PROVE ConnectionsMade' /\ OneEnd'
  <2>. DEFINE c == own[Standard[s]]
  <2>1. c \in Connections /\ c = Connection(s, runs) /\ Made(s, runs) /\ runs \in 1 .. MaxRuns
    BY <1>1, <1>11 DEF Write, OwnStreams, Made, ProgramTypes
  <2>2. /\ UNCHANGED <<files, pending, runs>>
        /\ \A d \in Connections \ {c} : written'[d] = written[d] /\ wire'[d] = wire[d]
    BY <1>1, <1>11 DEF Write, serverVars, ProgramTypes, LogTypeOK
  <2>3. \A u \in Streams, r \in 1 .. MaxRuns : Connection(u, r) \in Connections
    BY ConnectionSet
  <2>4. ConnectionsMade'
    BY <1>1, <1>2, <2>1, <2>2, <2>3, SocketsDiffer DEF ConnectionsMade
  <2>. QED
    BY <1>1, <2>2, <2>4 DEF OneEnd
<1>12. ASSUME NEW c \in Connections, Reset(c) PROVE ConnectionsMade' /\ OneEnd'
  <2>1. UNCHANGED <<files, pending, written>> /\ wire' = [wire EXCEPT ![c] = <<>>]
    BY <1>12 DEF Reset, serverVars, history
  <2>2. \A d \in Connections : wire[d] = <<>> => wire'[d] = <<>>
    BY <1>1, <2>1 DEF ProgramTypes
  <2>3. \A u \in Streams, r \in 1 .. MaxRuns : Connection(u, r) \in Connections
    BY ConnectionSet
  <2>. QED
    BY <1>1, <1>2, <2>1, <2>2, <2>3 DEF ConnectionsMade, OneEnd
<1>13. CASE Start \/ OpenOther \/ Exit \/ \E s \in Streams : CloseLogger(s)
  BY <1>6, <1>13 DEF Start, OpenOther, Exit, CloseLogger, serverVars, history
<1>14. CASE UNCHANGED logVars
  BY <1>6, <1>14 DEF logVars, serverVars, programVars, history
<1>. QED
  BY <1>5, <1>7, <1>8, <1>9, <1>10, <1>11, <1>12, <1>13, <1>14 DEF LogNext, Program

-----------------------------------------------------------------------------
(***************************************************************************)
(* What flows through a connection.                                        *)
(***************************************************************************)
LEMMA FlowKept ==
  ASSUME NEW s \in Streams, NEW r \in 1 .. MaxRuns, NEW c, c = Connection(s, r),
         Flow(s, r), UNCHANGED <<written[c], wire[c]>>,
         Reaches(c)' => Reaches(c) /\ Taken(s, c)' = Taken(s, c)
  PROVE  Flow(s, r)'
  BY DEF Flow

LEMMA PrintedKept ==
  ASSUME LogTypeOK, NEW s \in Streams, NEW r \in 1 .. MaxRuns, PrintedOf(s, r),
         printed'[s] = printed[s], written'[Connection(s, r)] \in Nat,
         written'[Connection(s, r)] >= written[Connection(s, r)]
  PROVE  PrintedOf(s, r)'
<1>1. Connection(s, r) \in Connections
  BY ConnectionSet
<1>. QED
  BY <1>1 DEF PrintedOf, LogTypeOK, ServerTypes

\* No step brings back a connection that has gone, or makes one that was.
LEMMA ReachedBefore ==
  ASSUME PrintInv, [LogNext]_logVars, NEW s \in Streams, NEW r \in 1 .. MaxRuns,
         Reaches(Connection(s, r))'
  PROVE  \/ Reaches(Connection(s, r))
         \/ NewLogger(s) /\ r = runs /\ ~Made(s, r)
<1>. DEFINE c == Connection(s, r)
<1>1. /\ LogTypeOK /\ NumbersKept /\ ServerTypes /\ ProgramTypes /\ PortsOpen /\ OwnStreams
      /\ ConnectionsMade
  BY DEF PrintInv, LogTypeOK
<1>2. c \in Connections /\ c # Free /\ c # Terminal /\ \A t : Listener(t) # c
  BY ConnectionSet, SocketsDiffer
<1>3. ASSUME \A n \in Descriptors : files'[n] = files[n] \/ files'[n] # c,
             lost \subseteq lost', UNCHANGED pending,
             \A t \in listening' : t \in listening \/ pending[t] = <<>>
      PROVE  Reaches(c)
  BY <1>3 DEF Reaches
<1>4. ASSUME NEW t \in Streams, Open(t) \/ Bind(t) \/ AcceptCall(t) \/ Destroy(t)
      PROVE  Reaches(c)
  <2>1. \A n \in Descriptors : files'[n] = files[n] \/ files'[n] \in {Free, Listener(t)}
    BY <1>1, <1>4, ClosedFiles
       DEF Open, Bind, AcceptCall, Destroy, CloseNumber, ServerTypes
  <2>2. UNCHANGED <<pending, lost>>
    BY <1>4 DEF Open, Bind, AcceptCall, Destroy, CloseNumber, Goes, programVars
  <2>3. \A u \in listening' : u \in listening \/ pending[u] = <<>>
    BY <1>1, <1>4
       DEF Open, Bind, AcceptCall, Destroy, CloseNumber, Remaining, Goes, PortsOpen, ServerTypes
  <2>. QED
    BY <1>2, <1>3, <2>1, <2>2, <2>3
<1>5. ASSUME NEW t \in Streams, AcceptReturn(t) PROVE Reaches(c)
  <2>1. PICK u \in Streams, n \in Descriptors \ {1, 2} :
          /\ pending[u] # <<>> /\ u \in listening
          /\ pending' = [pending EXCEPT ![u] = Tail(@)]
          /\ files' = [files EXCEPT ![n] = Head(pending[u])]
    BY <1>1, <1>5, AcceptStep
  <2>2. lost' = lost /\ listening' \subseteq listening
    BY <1>5 DEF AcceptReturn, Goes, programVars, Remaining
  <2>3. 1 \in DOMAIN pending[u] /\ Head(pending[u]) = pending[u][1]
    BY <1>1, <2>1 DEF ServerTypes
  <2>4. \A v \in Streams : \A i \in DOMAIN pending'[v] :
          \E j \in DOMAIN pending[v] : pending'[v][i] = pending[v][j]
    <3>1. /\ pending'[u] = Tail(pending[u]) /\ pending[u] \in Seq(Connections)
          /\ \A v \in Streams \ {u} : pending'[v] = pending[v]
      BY <1>1, <2>1 DEF ServerTypes
    <3>2. \A i \in DOMAIN pending'[u] :
            i \in Nat /\ i + 1 \in DOMAIN pending[u] /\ pending'[u][i] = pending[u][i + 1]
      <4>1. \A i \in DOMAIN Tail(pending[u]) :
              /\ i \in Nat /\ i + 1 \in DOMAIN pending[u] /\ i + 1 # 1
              /\ Tail(pending[u])[i] = pending[u][i + 1]
        BY <2>1, <3>1, TailEntries
      <4>. QED
        BY <3>1, <4>1
    <3>. QED
      BY <3>1, <3>2
  <2>5. \A m \in Descriptors : files'[m] = files[m] \/ files'[m] = pending[u][1]
    BY <1>1, <2>1, <2>3 DEF ServerTypes
  <2>. QED
    BY <1>1, <2>1, <2>2, <2>3, <2>4, <2>5 DEF Reaches, ServerTypes
<1>6. ASSUME NEW t \in Streams, NewLogger(t)
      PROVE  Reaches(c) \/ (NewLogger(s) /\ r = runs /\ ~Made(s, r))
  <2>1. UNCHANGED <<files, lost, listening>>
    BY <1>6 DEF NewLogger
  <2>2. CASE UNCHANGED pending
    BY <1>3, <2>1, <2>2
  <2>3. CASE pending' = [pending EXCEPT ![t] = Append(@, Connection(t, runs))]
    <3>1. /\ pending'[t] = Append(pending[t], Connection(t, runs))
          /\ pending[t] \in Seq(Connections)
          /\ \A u \in Streams \ {t} : pending'[u] = pending[u]
      BY <1>1, <2>3 DEF ServerTypes
    <3>2. \A i \in DOMAIN pending'[t] :
            \/ i \in DOMAIN pending[t] /\ pending'[t][i] = pending[t][i]
            \/ pending'[t][i] = Connection(t, runs)
      BY <3>1
    <3>3. Reaches(c) \/ c = Connection(t, runs)
      BY <1>1, <2>1, <3>1, <3>2 DEF Reaches, ServerTypes
    <3>4. ~Made(t, runs)
      BY <1>1, <1>6 DEF NewLogger, Made, Unmade, ProgramTypes, Streams
    <3>. QED
      BY <1>6, <3>3, <3>4, SocketsDiffer
  <2>. QED
    BY <1>6, <2>2, <2>3 DEF NewLogger
<1>7. CASE UNCHANGED <<files, pending, listening>> /\ lost \subseteq lost'
  BY <1>3, <1>7
<1>8. CASE \E t \in Streams : ReceiveMsg(t) \/ Write(t) \/ CloseLogger(t)
  BY <1>7, <1>8 DEF ReceiveMsg, Write, CloseLogger, serverVars
<1>9. CASE Start \/ OpenOther \/ Exit \/ UNCHANGED logVars \/ \E d \in Connections : Reset(d)
  BY <1>7, <1>9 DEF Start, OpenOther, Exit, Reset, logVars, serverVars, programVars
<1>10. CASE KillServer
  BY <1>2, <1>10 DEF KillServer, Empty, Reaches
<1>. QED
  BY <1>4, <1>5, <1>6, <1>8, <1>9, <1>10 DEF LogNext, Program

\* The thread of a stream reads the same connection as long as it is there.
LEMMA ReadsKept ==
  ASSUME PrintInv, [LogNext]_logVars, NEW s \in Streams, NEW r \in 1 .. MaxRuns,
         ~(at[s] = "accepting" /\ at'[s] = "receive")
  PROVE  /\ Reads(s, Connection(s, r))' => Reads(s, Connection(s, r))
         /\ Reads(s, Connection(s, r)) /\ Reaches(Connection(s, r))' => Reads(s, Connection(s, r))'
<1>. DEFINE c == Connection(s, r)
<1>1. /\ LogTypeOK /\ NumbersKept /\ ServerTypes /\ ProgramTypes /\ PortsOpen
      /\ OneEnd /\ InPlace(s)
  BY DEF PrintInv, LogTypeOK, SocketsInPlace
<1>2. c \in Connections /\ c # Free /\ c # Terminal /\ (\A t : Listener(t) # c) /\ At(files, 0) # c
  BY ConnectionSet, SocketsDiffer DEF At, Descriptors
<1>3. CASE UNCHANGED <<at[s], files, clientSocket[s], connected[s]>>
  BY <1>3 DEF Reads, At
<1>4. ASSUME NEW u \in Streams, u # s, UNCHANGED <<at[s], clientSocket[s], connected[s], pending, lost>>,
             \A n \in Descriptors : files'[n] = files[n] \/ files'[n] \in {Free, Listener(u)}
      PROVE  /\ Reads(s, c)' => Reads(s, c)
             /\ Reads(s, c) /\ Reaches(c)' => Reads(s, c)'
  <2>1. Reads(s, c)' => Reads(s, c)
    BY <1>2, <1>4 DEF Reads, At
  <2>2. ASSUME Reads(s, c), Reaches(c)' PROVE Reads(s, c)'
    <3>1. clientSocket[s] \in Descriptors /\ files[clientSocket[s]] = c
      BY <1>2, <2>2 DEF Reads, At
    <3>2. \A t \in Streams : \A i \in DOMAIN pending[t] : pending[t][i] # c
      BY <1>1, <3>1 DEF OneEnd
    <3>3. PICK n \in Descriptors : files'[n] = c
      <4>1. \A t \in listening' : t \in Streams
        BY TypesStep DEF LogTypeOK, ServerTypes
      <4>. QED
        BY <1>4, <2>2, <3>2, <4>1 DEF Reaches
    <3>4. files[n] = c
      BY <1>2, <1>4, <3>3
    <3>5. n = clientSocket[s]
      BY <1>1, <1>2, <3>1, <3>4 DEF OneEnd
    <3>. QED
      BY <1>4, <2>2, <3>3, <3>5 DEF Reads, At
  <2>. QED
    BY <2>1, <2>2
<1>5. CASE ~Reads(s, c) /\ ~Reads(s, c)'
  BY <1>5
<1>6. ASSUME NEW u \in Streams, Open(u) \/ Bind(u) \/ AcceptCall(u) \/ Destroy(u)
      PROVE  /\ Reads(s, c)' => Reads(s, c)
             /\ Reads(s, c) /\ Reaches(c)' => Reads(s, c)'
  <2>1. CASE u = s
    <3>1. CASE Open(s) \/ Bind(s)
      BY <1>1, <1>5, <3>1 DEF Open, Bind, Goes, Reads, ServerTypes
    <3>2. CASE AcceptCall(s)
      <4>1. clientSocket'[s] = 0 /\ files' = files /\ at[s] = "accept"
        BY <1>1, <3>2 DEF AcceptCall, Goes, NumbersKept
      <4>. QED
        BY <1>2, <1>5, <4>1 DEF Reads
    <3>3. CASE Destroy(s)
      <4>1. ~connected[s] /\ ~connected'[s]
        BY <1>1, <3>3 DEF Destroy, CloseNumber, Goes, InPlace
      <4>. QED
        BY <1>5, <4>1 DEF Reads
    <3>. QED
      BY <1>6, <2>1, <3>1, <3>2, <3>3
  <2>2. CASE u # s
    <3>1. \A n \in Descriptors : files'[n] = files[n] \/ files'[n] \in {Free, Listener(u)}
      BY <1>1, <1>6, ClosedFiles
         DEF Open, Bind, AcceptCall, Destroy, CloseNumber, ServerTypes
    <3>2. UNCHANGED <<at[s], clientSocket[s], connected[s], pending, lost>>
      BY <1>1, <1>6, <2>2
         DEF Open, Bind, AcceptCall, Destroy, CloseNumber, Goes, programVars, ServerTypes
    <3>. QED
      BY <1>4, <2>2, <3>1, <3>2
  <2>. QED
    BY <2>1, <2>2
<1>7. ASSUME NEW u \in Streams, AcceptReturn(u)
      PROVE  /\ Reads(s, c)' => Reads(s, c)
             /\ Reads(s, c) /\ Reaches(c)' => Reads(s, c)'
  <2>1. PICK n \in Descriptors \ {1, 2}, d \in Connections :
          /\ files[n] = Free
          /\ clientSocket' = [clientSocket EXCEPT ![u] = n]
          /\ files' = [files EXCEPT ![n] = d]
    BY <1>1, <1>7, AcceptStep
  <2>2. u # s /\ u = Partner(s)
    BY <1>1, <1>7, TwoStreams DEF AcceptReturn, Goes, ServerTypes
  <2>3. /\ at[u] = "accepting" /\ UNCHANGED <<at[s], clientSocket[s], connected[s]>>
    BY <1>1, <1>7, <2>1, <2>2 DEF AcceptReturn, Goes, ServerTypes
  <2>4. at[s] = "receive" /\ connected[s] => clientSocket[s] # n
    <3>1. SUFFICES ASSUME at[s] = "receive", connected[s], clientSocket[s] = n PROVE FALSE
      OBVIOUS
    <3>2. Its(s, clientSocket[s], ConnectionsOf(s)) /\ At(files, n) = Free /\ n # 0
      BY <1>1, <2>1, <3>1 DEF InPlace, At, Descriptors
    <3>. QED
      BY <2>2, <2>3, <3>1, <3>2, SocketKinds DEF Its, Leaving
  <2>5. \A m \in Descriptors : m # n => files'[m] = files[m]
    BY <1>1, <2>1 DEF ServerTypes
  <2>. QED
    BY <1>1, <2>3, <2>4, <2>5 DEF Reads, At, ServerTypes
<1>8. ASSUME NEW u \in Streams, ReceiveMsg(u)
      PROVE  /\ Reads(s, c)' => Reads(s, c)
             /\ Reads(s, c) /\ Reaches(c)' => Reads(s, c)'
  <2>1. UNCHANGED <<at, files, clientSocket, lost>>
    BY <1>8 DEF ReceiveMsg
  <2>2. CASE connected'[s] = connected[s]
    BY <1>3, <2>1, <2>2
  <2>3. CASE connected'[s] # connected[s]
    <3>1. u = s /\ Broken(At(files, clientSocket[s])) /\ ~connected'[s]
      BY <1>1, <1>8, <2>3 DEF ReceiveMsg, ServerTypes
    <3>2. Reads(s, c) => c \in lost'
      BY <1>2, <2>1, <3>1 DEF Broken, Reads
    <3>. QED
      BY <3>1, <3>2 DEF Reads, Reaches
  <2>. QED
    BY <2>2, <2>3
<1>9. CASE Program \/ UNCHANGED logVars \/ \E d \in Connections : Reset(d)
  BY <1>3, <1>9
     DEF Program, Start, NewLogger, OpenOther, Write, CloseLogger, Exit, Reset, logVars, serverVars
<1>10. CASE KillServer
  <2>1. ~Reads(s, c)' /\ ~Reaches(c)'
    BY <1>2, <1>10 DEF KillServer, Reads, Empty, Reaches
  <2>. QED
    BY <2>1
<1>. QED
  BY <1>6, <1>7, <1>8, <1>9, <1>10 DEF LogNext

\* A thread that gets a connection has printed nothing, and reads its own.
LEMMA AcceptReads ==
  ASSUME PrintInv, NEW s \in Streams, AcceptReturn(s)
  PROVE  /\ printed[s] = <<>> /\ printed' = printed
         /\ \A c : ~Reads(s, c)
  BY DEF PrintInv, NumbersKept, AcceptReturn, Goes, Reads

\* Line by line: what comes out is what was next.
LEMMA ReceiveStep ==
  ASSUME PrintInv, NEW s \in Streams, ReceiveMsg(s), ~UNCHANGED <<printed, wire>>
  PROVE  \E r \in 1 .. MaxRuns :
           LET c == Connection(s, r)
           IN /\ Reads(s, c) /\ Reads(s, c)' /\ Reaches(c)
              /\ printed'[s] = Append(printed[s], <<s, r, Len(printed[s]) + 1>>)
              /\ Len(printed[s]) + 1 <= written[c]
              /\ wire[c] # <<>> /\ wire' = [wire EXCEPT ![c] = Tail(@)]
              /\ written' = written /\ \A t \in Streams \ {s} : printed'[t] = printed[t]
              /\ PrintedOf(s, r)
<1>1. LogTypeOK /\ ServerTypes /\ ProgramTypes /\ InPlace(s) /\ Printing
  BY DEF PrintInv, LogTypeOK, SocketsInPlace
<1>2. PICK c : /\ c = At(files, clientSocket[s]) /\ ~Broken(c) /\ wire[c] # <<>>
               /\ at[s] = "receive" /\ connected[s]
               /\ printed' = [printed EXCEPT ![s] = Append(@, Head(wire[c]))]
               /\ wire' = [wire EXCEPT ![c] = Tail(@)]
               /\ UNCHANGED <<connected, at, files, clientSocket, written>>
  BY DEF ReceiveMsg, history
<1>3. c \in Connections /\ c \notin lost /\ c # Free
  BY <1>2, SocketsDiffer, ConnectionSet DEF Broken
<1>4. PICK r \in 1 .. MaxRuns : c = Connection(s, r)
  BY <1>1, <1>2, <1>3 DEF InPlace, Its, ConnectionsOf
<1>5. Reads(s, c) /\ Reads(s, c)' /\ Reaches(c)
  BY <1>2, <1>3 DEF Reads, Reaches, At
<1>6. Flow(s, r) /\ PrintedOf(s, r)
  BY <1>1, <1>4, <1>5 DEF Printing
<1>7. wire[c] \in Seq(Line) /\ Len(wire[c]) \in Nat \ {0} /\ DOMAIN wire[c] = 1 .. Len(wire[c])
      /\ Head(wire[c]) = wire[c][1]
  BY <1>1, <1>2, <1>3 DEF ProgramTypes
<1>8. /\ Len(wire[c]) + Len(printed[s]) = written[c]
      /\ \A i \in DOMAIN wire[c] : wire[c][i] = <<s, r, Len(printed[s]) + i>>
  BY <1>4, <1>5, <1>6 DEF Flow, Taken
<1>9. Len(printed[s]) \in Nat
  BY <1>1 DEF ServerTypes
<1>10. /\ Head(wire[c]) = <<s, r, Len(printed[s]) + 1>>
       /\ Len(printed[s]) + 1 <= written[c]
  <2>1. 1 \in DOMAIN wire[c]
    BY <1>7
  <2>2. Head(wire[c]) = <<s, r, Len(printed[s]) + 1>>
    BY <1>7, <1>8, <2>1
  <2>3. \A a \in Nat \ {0}, b \in Nat : b + 1 <= a + b
    OBVIOUS
  <2>4. Len(printed[s]) + 1 <= Len(wire[c]) + Len(printed[s])
    BY <1>7, <1>9, <2>3
  <2>. QED
    BY <1>8, <2>2, <2>4
<1>. QED
  BY <1>1, <1>2, <1>4, <1>5, <1>6, <1>10 DEF ServerTypes

LEMMA FlowStep ==
  ASSUME PrintInv, [LogNext]_logVars, NEW s \in Streams, NEW r \in 1 .. MaxRuns
  PROVE  Flow(s, r)'
<1>. DEFINE c == Connection(s, r)
<1>1. /\ LogTypeOK /\ ServerTypes /\ ProgramTypes /\ OwnStreams /\ ConnectionsMade
      /\ Flow(s, r)
  BY DEF PrintInv, LogTypeOK, Printing
<1>2. c \in Connections
  BY ConnectionSet
<1>3. wire[c] \in Seq(Line) /\ written[c] \in Nat
  BY <1>1, <1>2 DEF ProgramTypes, LogTypeOK
<1>. SUFFICES ASSUME Reaches(c)' PROVE Flow(s, r)'
  BY DEF Flow
<1>4. CASE ~Reaches(c)
  <2>1. NewLogger(s) /\ r = runs /\ ~Made(s, r)
    BY <1>4, ReachedBefore
  <2>2. wire[c] = <<>> /\ written[c] = 0 /\ \A n \in Descriptors : files[n] # c
    BY <1>1, <2>1 DEF ConnectionsMade
  <2>3. UNCHANGED <<wire, written, files, clientSocket>>
    BY <2>1 DEF NewLogger
  <2>4. ~Reads(s, c)'
    BY <1>2, <2>2, <2>3, SocketsDiffer DEF Reads, At
  <2>. QED
    BY <2>2, <2>3, <2>4 DEF Flow, Taken
<1>5. ASSUME Reaches(c), NEW u \in Streams, AcceptReturn(u) PROVE Flow(s, r)'
  <2>1. UNCHANGED <<wire, written>>
    BY <1>5 DEF AcceptReturn, Goes, programVars
  <2>2. Taken(s, c)' = Taken(s, c)
    <3>1. CASE u = s
      <4>1. Len(printed[s]) = 0 /\ printed' = printed
        BY <1>5, <3>1, AcceptReads
      <4>. QED
        BY <4>1 DEF Taken
    <3>2. CASE u # s
      <4>1. printed' = printed
        BY <1>5 DEF AcceptReturn
      <4>2. at'[s] = at[s]
        BY <1>1, <1>5, <3>2 DEF AcceptReturn, Goes, ServerTypes
      <4>3. Reads(s, c)' <=> Reads(s, c)
        BY <1>5, <4>2, ReadsKept
      <4>. QED
        BY <4>1, <4>3 DEF Taken
    <3>. QED
      BY <3>1, <3>2
  <2>. QED
    BY <1>1, <1>5, <2>1, <2>2, FlowKept
<1>6. ASSUME Reaches(c), UNCHANGED <<wire[c], written[c]>>, ~(at[s] = "accepting" /\ at'[s] = "receive"),
             printed'[s] = printed[s] \/ ~Reads(s, c)
      PROVE  Flow(s, r)'
  <2>1. Reads(s, c)' <=> Reads(s, c)
    BY <1>6, ReadsKept
  <2>. QED
    BY <1>1, <1>6, <2>1, FlowKept DEF Taken
<1>7. ASSUME Reaches(c), NEW u \in Streams, ReceiveMsg(u) PROVE Flow(s, r)'
  <2>1. at' = at /\ written' = written
    BY <1>7 DEF ReceiveMsg, history
  <2>2. CASE UNCHANGED <<wire, printed>>
    BY <1>6, <1>7, <2>1, <2>2
  <2>3. CASE ~UNCHANGED <<printed, wire>>
    <3>1. PICK q \in 1 .. MaxRuns :
            LET d == Connection(u, q)
            IN /\ Reads(u, d) /\ Reads(u, d)' /\ Reaches(d)
               /\ printed'[u] = Append(printed[u], <<u, q, Len(printed[u]) + 1>>)
               /\ wire[d] # <<>> /\ wire' = [wire EXCEPT ![d] = Tail(@)]
               /\ \A t \in Streams \ {u} : printed'[t] = printed[t]
      BY <1>7, <2>3, ReceiveStep
    <3>2. CASE u # s \/ q # r
      <4>1. c # Connection(u, q)
        BY <3>2, SocketsDiffer
      <4>2. wire'[c] = wire[c]
        BY <1>1, <1>2, <3>1, <4>1 DEF ProgramTypes
      <4>3. printed'[s] = printed[s] \/ ~Reads(s, c)
        BY <3>1, <3>2, <4>1 DEF Reads
      <4>. QED
        BY <1>6, <1>7, <2>1, <4>2, <4>3
    <3>3. CASE u = s /\ q = r
      <4>1. /\ Taken(s, c) = Len(printed[s]) /\ Taken(s, c)' = Len(printed'[s])
            /\ Len(printed[s]) \in Nat /\ Len(printed'[s]) = Len(printed[s]) + 1
        <5>1. printed[s] \in Seq(Line)
          BY <1>1 DEF ServerTypes
        <5>. QED
          BY <3>1, <3>3, <5>1 DEF Taken
      <4>2. wire'[c] = Tail(wire[c]) /\ wire[c] # <<>>
        BY <1>1, <1>2, <3>1, <3>3 DEF ProgramTypes
      <4>3. Len(wire'[c]) = Len(wire[c]) - 1 /\ Len(wire[c]) \in Nat
        BY <1>3, <4>2
      <4>4. \A i \in DOMAIN wire'[c] :
              /\ i \in Nat /\ i + 1 \in DOMAIN wire[c] /\ wire'[c][i] = wire[c][i + 1]
        <5>1. \A i \in DOMAIN Tail(wire[c]) :
                /\ i \in Nat /\ i + 1 \in DOMAIN wire[c] /\ i + 1 # 1
                /\ Tail(wire[c])[i] = wire[c][i + 1]
          BY <1>3, <4>2, TailEntries
        <5>. QED
          BY <4>2, <5>1
      <4>5. /\ Len(wire[c]) + Len(printed[s]) = written[c]
            /\ \A i \in DOMAIN wire[c] : wire[c][i] = <<s, r, Len(printed[s]) + i>>
        BY <1>1, <1>7, <4>1 DEF Flow
      <4>6. Len(wire'[c]) + Taken(s, c)' = written'[c]
        <5>1. \A a, b \in Nat : (a - 1) + (b + 1) = a + b
          OBVIOUS
        <5>2. Len(wire'[c]) + Taken(s, c)' = (Len(wire[c]) - 1) + (Len(printed[s]) + 1)
          BY <4>1, <4>3
        <5>3. Len(wire'[c]) + Taken(s, c)' = Len(wire[c]) + Len(printed[s])
          BY <4>1, <4>3, <5>1, <5>2
        <5>. QED
          BY <2>1, <4>5, <5>3
      <4>7. ASSUME NEW i \in DOMAIN wire'[c]
            PROVE  wire'[c][i] = <<s, r, Taken(s, c)' + i>>
        <5>1. i \in Nat /\ wire'[c][i] = <<s, r, Len(printed[s]) + (i + 1)>>
          BY <4>4, <4>5
        <5>2. Len(printed[s]) + (i + 1) = Taken(s, c)' + i
          <6>1. \A a, b \in Nat : a + (b + 1) = (a + 1) + b
            OBVIOUS
          <6>2. Taken(s, c)' = Len(printed[s]) + 1
            BY <4>1
          <6>. QED
            BY <4>1, <5>1, <6>1, <6>2
        <5>. QED
          BY <5>1, <5>2
      <4>. QED
        BY <4>6, <4>7 DEF Flow
    <3>. QED
      BY <3>2, <3>3
  <2>. QED
    BY <2>2, <2>3
<1>8. ASSUME Reaches(c), NEW u \in Streams, Write(u) PROVE Flow(s, r)'
  <2>1. /\ at' = at /\ printed' = printed
        /\ own[Standard[u]] \in Connections /\ own[Standard[u]] = Connection(u, runs)
        /\ runs' = runs
    BY <1>1, <1>8 DEF Write, serverVars, OwnStreams
  <2>. DEFINE d == own[Standard[u]]
  <2>2. CASE d # c
    <3>1. written'[c] = written[c] /\ wire'[c] = wire[c]
      BY <1>1, <1>2, <1>8, <2>2 DEF Write, ProgramTypes, LogTypeOK
    <3>. QED
      BY <1>6, <1>8, <2>1, <3>1
  <2>3. CASE d = c
    <3>1. u = s /\ runs = r
      <4>1. Connection(u, runs) = Connection(s, r)
        BY <2>1, <2>3
      <4>. QED
        BY <4>1, SocketsDiffer
    <3>2. /\ written'[c] = written[c] + 1
          /\ wire'[c] = Append(wire[c], <<s, r, written[c] + 1>>)
      BY <1>1, <1>2, <1>8, <2>3, <3>1 DEF Write, ProgramTypes, LogTypeOK
    <3>3. Taken(s, c)' = Taken(s, c) /\ Taken(s, c) \in Nat
      <4>1. Reads(s, c)' <=> Reads(s, c)
        BY <1>8, <2>1, ReadsKept
      <4>. QED
        BY <1>1, <2>1, <4>1 DEF Taken, ServerTypes
    <3>4. /\ Len(wire[c]) + Taken(s, c) = written[c]
          /\ \A i \in DOMAIN wire[c] : wire[c][i] = <<s, r, Taken(s, c) + i>>
      BY <1>1, <1>8 DEF Flow
    <3>5. Len(wire'[c]) = Len(wire[c]) + 1 /\ Len(wire[c]) \in Nat
      BY <1>3, <3>2
    <3>6. \A i \in DOMAIN wire'[c] :
            \/ i \in DOMAIN wire[c] /\ wire'[c][i] = wire[c][i]
            \/ i = Len(wire[c]) + 1 /\ wire'[c][i] = <<s, r, written[c] + 1>>
      BY <1>3, <3>2
    <3>7. ASSUME NEW i \in DOMAIN wire'[c]
          PROVE  wire'[c][i] = <<s, r, Taken(s, c) + i>>
      <4>1. i = Len(wire[c]) + 1 => Taken(s, c) + i = written[c] + 1
        BY <3>3, <3>4, <3>5
      <4>. QED
        BY <3>4, <3>6, <4>1
    <3>8. Len(wire'[c]) + Taken(s, c) = written'[c]
      BY <3>2, <3>3, <3>4, <3>5
    <3>. QED
      BY <3>3, <3>7, <3>8 DEF Flow
  <2>. QED
    BY <2>2, <2>3
<1>9. ASSUME NEW d \in Connections, Reset(d) PROVE Flow(s, r)'
  <2>1. c # d
    BY <1>9 DEF Reset, Reaches
  <2>2. UNCHANGED <<at, printed, written>> /\ wire'[c] = wire[c]
    BY <1>1, <1>2, <1>9, <2>1 DEF Reset, serverVars, history, ProgramTypes
  <2>. QED
    BY <1>4, <1>6, <2>2
<1>10. CASE Start \/ OpenOther \/ Exit \/ (\E u \in Streams : NewLogger(u) \/ CloseLogger(u))
            \/ UNCHANGED logVars
  <2>1. UNCHANGED <<at, printed, wire, written>>
    BY <1>10
       DEF Start, OpenOther, Exit, NewLogger, CloseLogger, logVars, serverVars, programVars, history
  <2>. QED
    BY <1>4, <1>6, <2>1
<1>11. ASSUME NEW u \in Streams, Open(u) \/ Bind(u) \/ AcceptCall(u) \/ Destroy(u)
       PROVE  Flow(s, r)'
  <2>1. UNCHANGED <<printed, wire, written>>
    BY <1>11 DEF Open, Bind, AcceptCall, Destroy, CloseNumber, Goes, programVars
  <2>2. ~(at[s] = "accepting" /\ at'[s] = "receive")
    BY <1>1, <1>11 DEF Open, Bind, AcceptCall, Destroy, Goes, ServerTypes
  <2>. QED
    BY <1>4, <1>6, <2>1, <2>2
<1>12. CASE KillServer
  BY <1>2, <1>12, SocketsDiffer DEF KillServer, Reaches, Empty
<1>. QED
  BY <1>4, <1>5, <1>7, <1>8, <1>9, <1>10, <1>11, <1>12 DEF LogNext, Program

LEMMA PrintingStep ==
  ASSUME PrintInv, [LogNext]_logVars
  PROVE  Printing'
<1>1. LogTypeOK /\ LogTypeOK' /\ ServerTypes /\ Printing /\ ProgramTypes
  BY TypesStep DEF PrintInv, LogTypeOK
<1>2. \A c \in Connections : written'[c] \in Nat /\ written'[c] >= written[c]
  <2>1. CASE written' = written
    BY <1>1, <2>1 DEF LogTypeOK
  <2>2. ASSUME NEW s \in Streams, Write(s)
        PROVE  \A c \in Connections : written'[c] \in Nat /\ written'[c] >= written[c]
    BY <1>1, <2>2 DEF Write, LogTypeOK
  <2>3. CASE \E s \in Streams : Open(s) \/ Bind(s) \/ AcceptCall(s) \/ AcceptReturn(s)
                               \/ ReceiveMsg(s) \/ Destroy(s)
    BY <2>1, <2>3 DEF Open, Bind, AcceptCall, AcceptReturn, ReceiveMsg, Destroy, Goes, history
  <2>4. CASE Start \/ OpenOther \/ Exit \/ (\E s \in Streams : NewLogger(s) \/ CloseLogger(s))
             \/ KillServer \/ (\E c \in Connections : Reset(c)) \/ UNCHANGED logVars
    BY <2>1, <2>4
       DEF Start, OpenOther, Exit, NewLogger, CloseLogger, KillServer, Reset, logVars, history
  <2>. QED
    BY <2>2, <2>3, <2>4 DEF LogNext, Program
<1>3. ASSUME NEW s \in Streams, NEW r \in 1 .. MaxRuns, PrintedOf(s, r), printed'[s] = printed[s]
      PROVE  PrintedOf(s, r)'
  <2>1. Connection(s, r) \in Connections
    BY ConnectionSet
  <2>. QED
    BY <1>1, <1>2, <1>3, <2>1, PrintedKept
<1>4. \A s \in Streams, r \in 1 .. MaxRuns : Flow(s, r)'
  BY FlowStep
<1>5. SUFFICES ASSUME NEW s \in Streams
               PROVE  /\ \A r \in 1 .. MaxRuns : Reads(s, Connection(s, r))' => PrintedOf(s, r)'
                      /\ \E r \in 1 .. MaxRuns : PrintedOf(s, r)'
  BY <1>4 DEF Printing
<1>6. ASSUME printed'[s] = printed[s], ~(at[s] = "accepting" /\ at'[s] = "receive")
      PROVE  /\ \A r \in 1 .. MaxRuns : Reads(s, Connection(s, r))' => PrintedOf(s, r)'
             /\ \E r \in 1 .. MaxRuns : PrintedOf(s, r)'
  BY <1>1, <1>3, <1>6, ReadsKept DEF Printing
<1>7. ASSUME AcceptReturn(s)
      PROVE  /\ \A r \in 1 .. MaxRuns : Reads(s, Connection(s, r))' => PrintedOf(s, r)'
             /\ \E r \in 1 .. MaxRuns : PrintedOf(s, r)'
  <2>1. printed'[s] = <<>>
    BY <1>7, AcceptReads
  <2>2. \A r \in 1 .. MaxRuns : Connection(s, r) \in Connections
    BY ConnectionSet
  <2>3. \A r \in 1 .. MaxRuns : PrintedOf(s, r)'
    BY <1>2, <2>1, <2>2 DEF PrintedOf
  <2>. QED
    BY <2>3, BoundAssumption
<1>8. ASSUME ReceiveMsg(s), ~UNCHANGED <<printed, wire>>
      PROVE  /\ \A r \in 1 .. MaxRuns : Reads(s, Connection(s, r))' => PrintedOf(s, r)'
             /\ \E r \in 1 .. MaxRuns : PrintedOf(s, r)'
  <2>1. PICK r \in 1 .. MaxRuns :
          LET c == Connection(s, r)
          IN /\ Reads(s, c)'
             /\ printed'[s] = Append(printed[s], <<s, r, Len(printed[s]) + 1>>)
             /\ Len(printed[s]) + 1 <= written[c] /\ written' = written
             /\ PrintedOf(s, r)
    BY <1>8, ReceiveStep
  <2>2. printed[s] \in Seq(Line)
    BY <1>1 DEF ServerTypes
  <2>3. /\ Len(printed'[s]) = Len(printed[s]) + 1
        /\ \A i \in DOMAIN printed'[s] : \/ i \in DOMAIN printed[s] /\ printed'[s][i] = printed[s][i]
                                         \/ printed'[s][i] = <<s, r, i>>
    BY <2>1, <2>2
  <2>4. PrintedOf(s, r)'
    BY <2>1, <2>3 DEF PrintedOf
  <2>5. \A q \in 1 .. MaxRuns : Reads(s, Connection(s, q))' => q = r
    BY <2>1, SocketsDiffer DEF Reads
  <2>. QED
    BY <2>4, <2>5
<1>9. ASSUME NEW u \in Streams, ReceiveMsg(u)
      PROVE  /\ \A r \in 1 .. MaxRuns : Reads(s, Connection(s, r))' => PrintedOf(s, r)'
             /\ \E r \in 1 .. MaxRuns : PrintedOf(s, r)'
  <2>1. at' = at
    BY <1>9 DEF ReceiveMsg
  <2>2. CASE printed'[s] = printed[s]
    BY <1>6, <2>1, <2>2
  <2>3. CASE printed'[s] # printed[s]
    <3>1. u = s
      BY <1>1, <1>9, <2>3 DEF ReceiveMsg, ServerTypes
    <3>. QED
      BY <1>8, <1>9, <2>3, <3>1
  <2>. QED
    BY <2>2, <2>3
<1>10. ASSUME NEW u \in Streams, AcceptReturn(u), u # s
       PROVE  printed'[s] = printed[s] /\ ~(at[s] = "accepting" /\ at'[s] = "receive")
  BY <1>1, <1>10 DEF AcceptReturn, Goes, ServerTypes
<1>11. ASSUME NEW u \in Streams, Open(u) \/ Bind(u) \/ AcceptCall(u) \/ Destroy(u)
       PROVE  printed'[s] = printed[s] /\ ~(at[s] = "accepting" /\ at'[s] = "receive")
  BY <1>1, <1>11 DEF Open, Bind, AcceptCall, Destroy, CloseNumber, Goes, ServerTypes
<1>12. CASE Program \/ UNCHANGED logVars \/ \E c \in Connections : Reset(c)
  <2>1. UNCHANGED <<at, printed>>
    BY <1>12
       DEF Program, Start, OpenOther, Exit, NewLogger, Write, CloseLogger, Reset, logVars, serverVars
  <2>. QED
    BY <1>6, <2>1
<1>13. CASE KillServer
  BY <1>1, <1>6, <1>13 DEF KillServer, ServerTypes
<1>. QED
  BY <1>6, <1>7, <1>9, <1>10, <1>11, <1>12, <1>13 DEF LogNext

LEMMA PrintInit == LogInit => PrintInv
<1>. SUFFICES ASSUME LogInit PROVE PrintInv
  OBVIOUS
<1>1. /\ Empty[1] = Terminal /\ Empty[2] = Terminal
      /\ \A n \in Descriptors \ {1, 2} : Empty[n] = Free
      /\ Empty \in [Descriptors -> {Free, Terminal}]
  BY DEF Empty, Descriptors
<1>2. Free # Terminal /\ {Free, Terminal} \intersect Connections = {} /\ Free \notin Listeners
      /\ \A t : Free # Listener(t)
  BY SocketsDiffer, ConnectionSet, ListenerSet
<1>3. LogTypeOK
  <2>1. \A V : <<>> \in Seq(V)
    OBVIOUS
  <2>2. ServerTypes
    BY <1>1, <2>1 DEF LogInit, ServerTypes
  <2>3. ProgramTypes
    BY <1>1, <2>1, BoundAssumption DEF LogInit, ProgramTypes
  <2>. QED
    BY <2>2, <2>3 DEF LogInit, LogTypeOK
<1>4. NumbersKept /\ OwnStreams
  BY <1>1, <1>2, TwoStreams DEF LogInit, NumbersKept, OwnStreams, Descriptors
<1>5. SocketsInPlace /\ PortsOpen
  BY <1>2 DEF LogInit, SocketsInPlace, InPlace, PortsOpen
<1>6. \A s \in Streams, r \in 1 .. MaxRuns : Connection(s, r) \in Connections
  BY ConnectionSet
<1>7. \A n \in Descriptors : files[n] \notin Connections
  BY <1>1, <1>2 DEF LogInit, Descriptors
<1>8. ConnectionsMade /\ OneEnd
  BY <1>6, <1>7 DEF LogInit, ConnectionsMade, OneEnd
<1>9. \A s \in Streams, r \in 1 .. MaxRuns : ~Reaches(Connection(s, r)) /\ PrintedOf(s, r)
  BY <1>6, <1>7 DEF LogInit, Reaches, PrintedOf
<1>10. Printing
  BY <1>9, BoundAssumption DEF Printing, Flow
<1>. QED
  BY <1>3, <1>4, <1>5, <1>8, <1>10 DEF PrintInv

LEMMA PrintStep == PrintInv /\ [LogNext]_logVars => PrintInv'
<1>. SUFFICES ASSUME PrintInv, [LogNext]_logVars PROVE PrintInv'
  OBVIOUS
<1>. QED
  BY TypesStep, NumbersStep, SocketsStep, PortsStep, ConnectionsStep, OwnStep, PrintingStep
     DEF PrintInv

-----------------------------------------------------------------------------
(***************************************************************************)
(* What is closed, as long as no call fails.                               *)
(***************************************************************************)
\* A step of one thread leaves the other's sockets in their places.
LEMMA OtherHasItsOwn ==
  ASSUME NEW s \in Streams, HasItsOwn(s),
         UNCHANGED <<serverSocket[s], clientSocket[s], held[s], at[s]>>,
         \A m \in Descriptors :
           files[m] = Listener(s) \/ files[m] \in ConnectionsOf(s) => files'[m] = files[m]
  PROVE  HasItsOwn(s)'
<1>1. Free # Listener(s) /\ Free \notin ConnectionsOf(s)
  BY SocketKinds
<1>2. \A n : /\ At(files, n) = Listener(s) => At(files', n) = Listener(s)
             /\ At(files, n) \in ConnectionsOf(s) => At(files', n) \in ConnectionsOf(s)
  BY <1>1 DEF At
<1>. QED
  BY <1>2 DEF HasItsOwn, ConnectionsOf

LEMMA ServerCleanStep ==
  ASSUME PrintInv, [LogNext]_logVars, ServerClean, failed' = {}, ~foreign,
         \E s \in Streams : Open(s) \/ Bind(s) \/ AcceptCall(s) \/ AcceptReturn(s)
                            \/ ReceiveMsg(s) \/ Destroy(s)
  PROVE  ServerClean' /\ ~foreign'
<1>1. /\ LogTypeOK /\ NumbersKept /\ ServerTypes /\ PortsOpen /\ ConnectionsMade
  BY DEF PrintInv, LogTypeOK
<1>2. PICK s \in Streams : Open(s) \/ Bind(s) \/ AcceptCall(s) \/ AcceptReturn(s)
                           \/ ReceiveMsg(s) \/ Destroy(s)
  OBVIOUS
<1>3. PICK t \in Streams : t # s /\ \A u \in Streams : u = s \/ u = t
  BY TwoStreams
<1>4. HasItsOwn(s) /\ HasItsOwn(t)
  BY DEF ServerClean
<1>5. UNCHANGED <<serverSocket[t], clientSocket[t], held[t], at[t]>>
  BY <1>1, <1>2, <1>3
     DEF Open, Bind, AcceptCall, AcceptReturn, ReceiveMsg, Destroy, CloseNumber, Goes, ServerTypes
<1>6. SUFFICES /\ HasItsOwn(s)' /\ ~foreign'
               /\ \A m \in Descriptors :
                    files[m] = Listener(t) \/ files[m] \in ConnectionsOf(t) => files'[m] = files[m]
  BY <1>3, <1>4, <1>5, OtherHasItsOwn DEF ServerClean
<1>7. /\ Free # Listener(t) /\ Free \notin ConnectionsOf(t)
      /\ Listener(s) # Listener(t) /\ Listener(s) \notin ConnectionsOf(t)
      /\ \A c \in ConnectionsOf(s) : c # Listener(t) /\ c \notin ConnectionsOf(t)
      /\ Free # Listener(s) /\ Free \notin ConnectionsOf(s) /\ Listener(s) \notin ConnectionsOf(s)
  BY <1>3, SocketsDiffer DEF ConnectionsOf
<1>8. CASE Open(s)
  <2>1. Lowest(files) \in Descriptors \ {1, 2} /\ files[Lowest(files)] = Free
    BY <1>1, <1>8, RoomForSocket DEF Open, Goes, NumbersKept
  <2>. QED
    BY <1>1, <1>7, <1>8, <2>1 DEF Open, Goes, HasItsOwn, At, ServerTypes
<1>9. CASE Bind(s)
  BY <1>1, <1>4, <1>9 DEF Bind, Goes, HasItsOwn, ServerTypes, ConnectionsOf
<1>10. CASE AcceptCall(s)
  <2>1. /\ at[s] = "accept" /\ files' = files /\ foreign' = foreign
        /\ UNCHANGED <<clientSocket, serverSocket>> /\ clientSocket[s] = 0
        /\ \/ at'[s] = "accepting" /\ held'[s] = At(files, serverSocket[s])
           \/ at'[s] = "receive"
    BY <1>1, <1>10 DEF AcceptCall, Goes, NumbersKept, ServerTypes
  <2>. QED
    BY <1>4, <2>1 DEF HasItsOwn
<1>11. CASE AcceptReturn(s)
  <2>1. PICK u \in Streams, n \in Descriptors \ {1, 2} :
          /\ held[s] = Listener(u) /\ files[n] = Free
          /\ pending[u] # <<>>
          /\ clientSocket' = [clientSocket EXCEPT ![s] = n]
          /\ files' = [files EXCEPT ![n] = Head(pending[u])]
    BY <1>1, <1>11, AcceptStep
  <2>2. /\ at[s] = "accepting" /\ at'[s] = "receive" /\ foreign' = foreign
        /\ serverSocket' = serverSocket
    BY <1>1, <1>11 DEF AcceptReturn, Goes, ServerTypes
  <2>3. u = s
    BY <1>4, <2>1, <2>2, SocketsDiffer DEF HasItsOwn
  <2>4. Head(pending[u]) \in ConnectionsOf(s)
    <3>1. 1 \in DOMAIN pending[u] /\ Head(pending[u]) = pending[u][1]
      BY <1>1, <2>1 DEF ServerTypes
    <3>. QED
      BY <1>1, <2>3, <3>1 DEF ConnectionsMade, ConnectionsOf
  <2>5. \A m \in Descriptors : files[m] # Free => files'[m] = files[m]
    BY <1>1, <2>1 DEF ServerTypes
  <2>6. At(files', clientSocket'[s]) \in ConnectionsOf(s)
    BY <1>1, <2>1, <2>4 DEF At, ServerTypes
  <2>7. At(files', serverSocket[s]) = Listener(s)
    BY <1>4, <1>7, <2>2, <2>5 DEF HasItsOwn, At
  <2>8. HasItsOwn(s)'
    BY <2>2, <2>6, <2>7 DEF HasItsOwn, ConnectionsOf
  <2>. QED
    BY <1>7, <2>2, <2>5, <2>8
<1>12. CASE ReceiveMsg(s)
  BY <1>4, <1>12 DEF ReceiveMsg, HasItsOwn, history, ConnectionsOf
<1>13. CASE Destroy(s)
  <2>1. CASE at[s] = "receive" /\ at'[s] = "half"
    <3>1. /\ files' = Closed(files, serverSocket[s])
          /\ foreign' = (foreign \/ ~OfStream(At(files, serverSocket[s]), s))
          /\ UNCHANGED <<serverSocket, clientSocket, held>>
      <4>1. at[s] # "half"
        BY <2>1
      <4>2. CloseNumber(s, serverSocket[s])
        BY <1>13, <4>1 DEF Destroy, Goes
      <4>. QED
        BY <4>2 DEF CloseNumber
    <3>2. At(files, serverSocket[s]) = Listener(s)
      BY <1>4, <2>1 DEF HasItsOwn
    <3>3. \A m \in Descriptors : files[m] # Listener(s) => files'[m] = files[m]
      <4>1. \A m \in Descriptors : m # serverSocket[s] => files'[m] = files[m]
        BY <1>1, <3>1, ClosedFiles
      <4>. QED
        BY <3>2, <4>1 DEF At
    <3>4. ~foreign'
      <4>1. OfStream(Listener(s), s)
        BY OfStreams
      <4>. QED
        BY <3>1, <3>2, <4>1
    <3>5. HasItsOwn(s)'
      BY <1>4, <1>7, <2>1, <3>1, <3>3 DEF HasItsOwn, At, ConnectionsOf
    <3>. QED
      BY <1>7, <3>3, <3>4, <3>5
  <2>2. CASE at[s] = "half" /\ at'[s] = "ended"
    <3>1. /\ files' = Closed(files, clientSocket[s])
          /\ foreign' = (foreign \/ ~OfStream(At(files, clientSocket[s]), s))
      <4>1. at[s] # "receive"
        BY <2>2
      <4>2. CloseNumber(s, clientSocket[s])
        BY <1>13, <4>1 DEF Destroy, Goes
      <4>. QED
        BY <4>2 DEF CloseNumber
    <3>2. clientSocket[s] = 0 \/ At(files, clientSocket[s]) \in ConnectionsOf(s)
      BY <1>4, <2>2 DEF HasItsOwn
    <3>3. At(files, 0) = Free /\ 0 \notin Descriptors
      BY DEF At, Descriptors
    <3>4. \A m \in Descriptors : files[m] \notin ConnectionsOf(s) => files'[m] = files[m]
      <4>1. \A m \in Descriptors : m # clientSocket[s] => files'[m] = files[m]
        BY <1>1, <3>1, ClosedFiles
      <4>. QED
        BY <3>2, <3>3, <4>1 DEF At
    <3>5. ~foreign'
      <4>1. OfStream(At(files, clientSocket[s]), s)
        BY <3>2, <3>3, OfStreams DEF ConnectionsOf
      <4>. QED
        BY <3>1, <4>1
    <3>6. HasItsOwn(s)'
      BY <2>2 DEF HasItsOwn
    <3>. QED
      BY <1>7, <3>4, <3>5, <3>6
  <2>. QED
    BY <1>1, <1>13, <2>1, <2>2 DEF Destroy, Goes, ServerTypes
<1>. QED
  BY <1>2, <1>8, <1>9, <1>10, <1>11, <1>12, <1>13

LEMMA ProgramCleanStep ==
  ASSUME PrintInv, ProgramClean, Program, failed' = {}, ~foreign
  PROVE  ProgramClean' /\ ~foreign'
<1>1. LogTypeOK /\ ProgramTypes /\ OwnStreams
  BY DEF PrintInv, LogTypeOK
<1>2. CASE Start \/ Exit \/ \E s \in Streams : Write(s) /\ Gone
  BY <1>2 DEF Start, Exit, Write, Gone, ProgramClean, history
<1>3. ASSUME NEW s \in Streams, NewLogger(s) PROVE ProgramClean' /\ ~foreign'
  <2>1. PICK n \in Descriptors \ {1, 2} : n = Lowest(own) /\ own[n] = Free
    BY <1>1, <1>3, RoomInProgram DEF NewLogger, Streams
  <2>2. /\ state = s /\ state' = (IF s = "out" THEN "err" ELSE "opening")
        /\ logger' = [logger EXCEPT ![s] = n] /\ runs' = runs /\ foreign' = foreign
        /\ own' = [own EXCEPT ![n] = Connection(s, runs), ![Standard[s]] = Connection(s, runs)]
    BY <1>3, <2>1 DEF NewLogger
  <2>3. Standard[s] \in {1, 2} /\ \A t \in Streams : logger[t] \notin {1, 2}
    BY <1>1, TwoStreams DEF OwnStreams
  <2>4. logger'[s] = n /\ own'[n] = Connection(s, runs)
    BY <1>1, <2>1, <2>2, <2>3 DEF ProgramTypes
  <2>5. Holds(s)'
    BY <2>1, <2>2, <2>4 DEF Holds, At
  <2>6. CASE s = "out"
    BY <2>2, <2>5, <2>6 DEF ProgramClean
  <2>7. CASE s = "err"
    <3>1. Holds("out") /\ "out" \in Streams
      BY <2>2, <2>7 DEF ProgramClean, Streams
    <3>2. logger["out"] \in Descriptors /\ own[logger["out"]] = Connection("out", runs)
      BY <3>1, SocketsDiffer DEF Holds, At
    <3>3. logger["out"] # n
      BY <2>1, <3>2, SocketsDiffer
    <3>4. logger'["out"] = logger["out"] /\ own'[logger["out"]] = own[logger["out"]]
      <4>1. logger["out"] # n /\ logger["out"] # Standard["err"] /\ Standard[s] = Standard["err"]
        BY <2>3, <2>7, <3>1, <3>3
      <4>2. "out" # s
        BY <2>7
      <4>3. logger'["out"] = logger["out"]
        BY <2>2, <3>1, <4>2, <1>1 DEF ProgramTypes
      <4>4. own'[logger["out"]] = own[logger["out"]]
        BY <1>1, <2>2, <3>2, <4>1 DEF ProgramTypes
      <4>. QED
        BY <4>3, <4>4
    <3>5. Holds("out")'
      BY <2>2, <3>2, <3>4 DEF Holds, At
    <3>. QED
      BY <2>2, <2>5, <2>7, <3>5 DEF ProgramClean
  <2>. QED
    BY <2>6, <2>7 DEF Streams
<1>4. ASSUME NEW s \in Streams, Write(s), UNCHANGED <<state, own, logger>>
      PROVE  ProgramClean' /\ ~foreign'
  BY <1>4 DEF Write, ProgramClean, Holds, At
<1>5. ASSUME NEW s \in Streams, CloseLogger(s) PROVE ProgramClean' /\ ~foreign'
  <2>1. /\ state = (IF s = "out" THEN "running" ELSE "closing")
        /\ state' = (IF s = "out" THEN "closing" ELSE "closed")
        /\ own' = Closed(own, logger[s])
        /\ foreign' = (foreign \/ ~OfStream(At(own, logger[s]), s))
        /\ UNCHANGED <<runs, logger>>
    BY <1>5 DEF CloseLogger
  <2>2. Holds(s)
    BY <2>1 DEF ProgramClean, Streams
  <2>3. ~foreign'
    <3>1. At(own, logger[s]) \in ConnectionsOf(s)
      BY <1>1, <2>1, <2>2 DEF Holds, ConnectionsOf, OwnStreams, ProgramTypes
    <3>2. OfStream(At(own, logger[s]), s)
      BY <3>1, OfStreams DEF ConnectionsOf
    <3>. QED
      BY <2>1, <3>2
  <2>4. CASE s = "out"
    <3>1. Holds("err")
      BY <2>1, <2>4 DEF ProgramClean
    <3>2. logger["err"] # logger["out"]
      BY <2>2, <2>4, <3>1, SocketsDiffer DEF Holds
    <3>3. Holds("err")'
      BY <1>1, <2>1, <2>4, <3>1, <3>2 DEF Holds, At, Closed, ProgramTypes
    <3>. QED
      BY <2>1, <2>3, <2>4, <3>3 DEF ProgramClean
  <2>5. CASE s = "err"
    BY <2>1, <2>3, <2>5 DEF ProgramClean
  <2>. QED
    BY <2>4, <2>5 DEF Streams
<1>6. CASE OpenOther
  <2>1. PICK n \in Descriptors \ {1, 2} : n = Lowest(own) /\ own[n] = Free
    BY <1>1, <1>6, RoomInProgram DEF OpenOther
  <2>2. /\ state = "opening" /\ state' = "running" /\ own' = [own EXCEPT ![n] = Other]
        /\ UNCHANGED <<runs, logger, foreign>>
    BY <1>6, <2>1 DEF OpenOther, history
  <2>3. \A s : Holds(s) => Holds(s)'
    BY <1>1, <2>1, <2>2, SocketsDiffer DEF Holds, At, ProgramTypes
  <2>. QED
    BY <2>2, <2>3 DEF ProgramClean
<1>. QED
  BY <1>2, <1>3, <1>4, <1>5, <1>6 DEF Program, Write

LEMMA CleanStep == PrintInv /\ CleanInv /\ [LogNext]_logVars => CleanInv'
<1>. SUFFICES ASSUME PrintInv, CleanInv, [LogNext]_logVars, failed' = {}
              PROVE  ServerClean' /\ ProgramClean' /\ ~foreign'
  BY DEF CleanInv
<1>1. CASE \E s \in Streams : Open(s) \/ Bind(s) \/ AcceptCall(s) \/ AcceptReturn(s)
                              \/ ReceiveMsg(s) \/ Destroy(s)
  <2>1. failed = {} /\ UNCHANGED <<state, runs, logger, own>>
    BY <1>1 DEF Open, Bind, AcceptCall, AcceptReturn, ReceiveMsg, Destroy, CloseNumber, Goes,
                programVars, history
  <2>2. ServerClean /\ ProgramClean /\ ~foreign
    BY <2>1 DEF CleanInv
  <2>3. ServerClean' /\ ~foreign'
    BY <1>1, <2>2, ServerCleanStep
  <2>4. ProgramClean'
    BY <2>1, <2>2 DEF ProgramClean, Holds, At
  <2>. QED
    BY <2>3, <2>4
<1>2. CASE Program
  <2>1. failed = {} /\ UNCHANGED <<at, serverSocket, clientSocket, held, files>>
    BY <1>2 DEF Program, Start, OpenOther, Exit, NewLogger, Write, CloseLogger, serverVars, history
  <2>2. ServerClean /\ ProgramClean /\ ~foreign
    BY <2>1 DEF CleanInv
  <2>3. ProgramClean' /\ ~foreign'
    BY <1>2, <2>2, ProgramCleanStep
  <2>4. ServerClean'
    BY <2>1, <2>2 DEF ServerClean, HasItsOwn, At
  <2>. QED
    BY <2>3, <2>4
<1>3. CASE KillServer
  <2>1. /\ failed = {} /\ UNCHANGED <<state, runs, logger, own, foreign>>
        /\ \A s \in Streams : at'[s] = "dead"
    BY <1>3 DEF KillServer, programVars, history
  <2>2. ProgramClean /\ ~foreign
    BY <2>1 DEF CleanInv
  <2>3. ProgramClean'
    BY <2>1, <2>2 DEF ProgramClean, Holds, At
  <2>4. ServerClean'
    BY <2>1 DEF ServerClean, HasItsOwn
  <2>. QED
    BY <2>1, <2>2, <2>3, <2>4
<1>4. CASE UNCHANGED logVars \/ \E c \in Connections : Reset(c)
  <2>1. /\ UNCHANGED <<failed, foreign, state, runs, logger, own>>
        /\ UNCHANGED <<at, serverSocket, clientSocket, held, files>>
    BY <1>4 DEF Reset, logVars, serverVars, programVars, history
  <2>. QED
    BY <2>1 DEF CleanInv, ServerClean, ProgramClean, HasItsOwn, Holds, At
<1>. QED
  BY <1>1, <1>2, <1>3, <1>4 DEF LogNext

LEMMA CleanInit == LogInit => CleanInv
  BY DEF LogInit, CleanInv, ServerClean, HasItsOwn, ProgramClean

-----------------------------------------------------------------------------
(***************************************************************************)
(* The theorems.                                                           *)
(***************************************************************************)
\* The strengthening that everything below rests on: as long as a thread has
\* not failed it has its own sockets, or they are closed (SocketsInPlace); a
\* connection has one end at the server, and carries what is written to it
\* next after what has been printed of it (OneEnd, Flow); and as long as no
\* call fails, whoever is about to close a number has his own socket there.
THEOREM LogInvariance == LogSpec => []LogInv
<1>1. LogInit => LogInv
  BY PrintInit, CleanInit DEF LogInv
<1>2. LogInv /\ [LogNext]_logVars => LogInv'
  BY PrintStep, CleanStep DEF LogInv
<1>. QED
  BY <1>1, <1>2, PTL DEF LogSpec

\* The Loggers and the log server keep their types: in particular there always
\* is a number left for what they open, in either of the processes.
THEOREM LogTypes == LogSpec => []LogTypeOK
<1>1. LogInv => LogTypeOK
  BY DEF LogInv, PrintInv
<1>. QED
  BY <1>1, LogInvariance, PTL

\* What a thread of the server prints is what one run of the program has
\* written on that stream, from its first line on and in order, however often
\* the program dies and returns and whatever fails (thread_main's loop, and
\* Logger_server's constructor, which goes on with a number that it closed).
THEOREM PrintsAsWritten == LogSpec => []PrintedAsWritten
<1>1. LogInv => PrintedAsWritten
  BY DEF LogInv, PrintInv, Printing, PrintedOf, PrintedAsWritten
<1>. QED
  BY <1>1, LogInvariance, PTL

\* Until a bind or a connect has failed, Logger::Close and ~Logger_server close
\* their own sockets and no other's, whatever has been opened in between.
THEOREM ClosesItsOwn == LogSpec => []ClosesOnlyItsOwn
<1>1. foreign \in BOOLEAN /\ CleanInv => ClosesOnlyItsOwn
  BY DEF CleanInv, ClosesOnlyItsOwn
<1>2. LogInv => ClosesOnlyItsOwn
  BY <1>1 DEF LogInv, PrintInv, LogTypeOK
<1>. QED
  BY <1>2, LogInvariance, PTL
=============================================================================
