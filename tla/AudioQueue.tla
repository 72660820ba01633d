------------------------------ MODULE AudioQueue ------------------------------
(***************************************************************************)
(* The audio path: Apu::Step pushes a sample into a ThreadSafeQueue on the *)
(* emulator's thread, and AudioMgr::ConsumeAudio pops blocks of them on    *)
(* the thread on which SDL calls back.  Pop empties the queue one sample   *)
(* at a time, and Push makes room before it appends; only the mutex keeps  *)
(* one from seeing the other half done.  SampleFifo states what the two    *)
(* threads should see.                                                     *)
(*                                                                         *)
(* A sample is the number of its production; silence is 0.                 *)
(***************************************************************************)
EXTENDS Integers, Sequences

CONSTANTS MaxSize,    \* ThreadSafeQueue::maxSize: 8820 for the APU; 0 for no limit
          BlockSizes, \* lengths of the blocks SDL asks for
          MaxSent     \* bound: samples the emulator produces

ASSUME SizeAssumption  == MaxSize \in Nat
ASSUME BlockAssumption == BlockSizes \subseteq Nat
ASSUME SentAssumption  == MaxSent \in Nat

VARIABLES queue,     \* ThreadSafeQueue::queue
          mu,        \* who holds ThreadSafeQueue::mu
          playing,   \* the device is unpaused and has a queue to read
          emulator,  \* where the emulator's thread is
          sent,      \* the number of the newest sample
          callback,  \* where the callback is
          want,      \* the samples SDL asks for
          toPop,     \* Pop: samples still to move
          retrieved, \* Pop: retrievedData
          audioData, \* ConsumeAudio: what Pop has returned
          stream     \* what the card plays

\* History: the newest sample played, and the samples the running push has
\* discarded.
VARIABLES heard, discarded

emulatorVars == <<emulator, sent, discarded>>
callbackVars == <<callback, want, toPop, retrieved, audioData, stream, heard>>
vars == <<queue, mu, playing, emulatorVars, callbackVars>>

Samples == 1 .. MaxSent

TypeOK == /\ queue \in Seq(Samples)
          /\ mu \in {"free", "emulator", "callback"}
          /\ playing \in BOOLEAN
          /\ emulator \in {"runs", "check", "discard", "append", "unlock"}
          /\ sent \in 0 .. MaxSent
          /\ discarded \in Seq(Samples)
          /\ callback \in {"returned", "lock", "pop", "fill"}
          /\ want \in Nat
          /\ toPop \in Nat
          /\ retrieved \in Seq(Samples)
          /\ audioData \in Seq(Samples)
          /\ stream \in Seq(0 .. MaxSent)
          /\ heard \in 0 .. MaxSent

Init == /\ queue = <<>>
        /\ mu = "free"
        /\ playing = FALSE
        /\ emulator = "runs"
        /\ sent = 0
        /\ discarded = <<>>
        /\ callback = "returned"
        /\ want = 0
        /\ toPop = 0
        /\ retrieved = <<>>
        /\ audioData = <<>>
        /\ stream = <<>>
        /\ heard = 0

-----------------------------------------------------------------------------
(* The emulator's thread: it also runs the game engine, so it cannot load  *)
(* a cartridge in the middle of a push.                                    *)

\* GameEngine::LoadMedia calls AudioMgr::PlayAudio, which gives the device
\* the one queue there is and unpauses it.
PlayAudio == /\ emulator = "runs"
             /\ playing' = TRUE
             /\ UNCHANGED <<queue, mu, emulatorVars, callbackVars>>

NoLockPushMutant == /\ emulator = "runs" /\ sent < MaxSent
                    /\ mu' = mu
                    /\ emulator' = "check"
                    /\ UNCHANGED <<queue, playing, sent, discarded, callbackVars>>

\* Apu::Step has a sample: Push takes the mutex.
PushLock == /\ emulator = "runs" /\ sent < MaxSent
            /\ mu = "free"
            /\ mu' = "emulator"
            /\ emulator' = "check"
            /\ UNCHANGED <<queue, playing, sent, discarded, callbackVars>>

LateOverflowMutant == Len(queue) - MaxSize

\* Push: overflowAmount.
Overflow == (Len(queue) + 1) - MaxSize

PushCheck == /\ emulator = "check"
             /\ emulator' = IF MaxSize > 0 /\ Overflow > 0 THEN "discard" ELSE "append"
             /\ UNCHANGED <<queue, mu, playing, sent, discarded, callbackVars>>

\* RemoveOldestRecords(maxSize).
PushDiscard == /\ emulator = "discard"
               /\ discarded' = SubSeq(queue, 1, MaxSize)
               /\ queue' = SubSeq(queue, MaxSize + 1, Len(queue))
               /\ emulator' = "append"
               /\ UNCHANGED <<mu, playing, sent, callbackVars>>

PushAppend == /\ emulator = "append"
              /\ sent' = sent + 1
              /\ queue' = Append(queue, sent')
              /\ discarded' = <<>>
              /\ emulator' = "unlock"
              /\ UNCHANGED <<mu, playing, callbackVars>>

ForgottenUnlockMutant == /\ emulator = "unlock"
                         /\ emulator' = "runs"
                         /\ UNCHANGED <<queue, mu, playing, sent, discarded, callbackVars>>

\* The lock_guard goes out of scope.
PushUnlock == /\ emulator = "unlock"
              /\ mu' = "free"
              /\ emulator' = "runs"
              /\ UNCHANGED <<queue, playing, sent, discarded, callbackVars>>

-----------------------------------------------------------------------------
(* The audio thread.                                                       *)

\* SDL needs a block: SdlAudioPlaybackCallback, ConsumeAudio.
Callback == /\ playing /\ callback = "returned"
            /\ want' \in BlockSizes
            /\ callback' = "lock"
            /\ UNCHANGED <<queue, mu, playing, emulatorVars, toPop, retrieved, audioData,
                           stream, heard>>

\* Pop: return_len.
ReturnLen(len, size) == IF len < size THEN len ELSE size

\* Pop takes the mutex, then looks at the size of the queue.
PopLock == /\ callback = "lock"
           /\ mu = "free"
           /\ mu' = "callback"
           /\ toPop' = ReturnLen(want, Len(queue))
           /\ retrieved' = <<>>
           /\ callback' = "pop"
           /\ UNCHANGED <<queue, playing, emulatorVars, want, audioData, stream, heard>>

PopNewestMutant == /\ callback = "pop" /\ toPop > 0
                   /\ retrieved' = Append(retrieved, queue[Len(queue)])
                   /\ queue' = SubSeq(queue, 1, Len(queue) - 1)
                   /\ toPop' = toPop - 1
                   /\ UNCHANGED <<mu, playing, emulatorVars, callback, want, audioData,
                                  stream, heard>>

PopOne == /\ callback = "pop" /\ toPop > 0
          /\ retrieved' = Append(retrieved, Head(queue))
          /\ queue' = Tail(queue)
          /\ toPop' = toPop - 1
          /\ UNCHANGED <<mu, playing, emulatorVars, callback, want, audioData, stream, heard>>

\* Pop returns.
PopUnlock == /\ callback = "pop" /\ toPop = 0
             /\ mu' = "free"
             /\ audioData' = retrieved
             /\ callback' = "fill"
             /\ UNCHANGED <<queue, playing, emulatorVars, want, toPop, retrieved, stream, heard>>

\* ConsumeAudio copies what there is and pads the rest with zero.
Fill == /\ callback = "fill"
        /\ stream' = audioData \o [i \in 1 .. (want - Len(audioData)) |-> 0]
        /\ heard' = IF audioData = <<>> THEN heard ELSE audioData[Len(audioData)]
        /\ callback' = "returned"
        /\ UNCHANGED <<queue, mu, playing, emulatorVars, want, toPop, retrieved, audioData>>

EmulatorStep == PushLock \/ PushCheck \/ PushDiscard \/ PushAppend \/ PushUnlock
CallbackStep == PopLock \/ PopOne \/ PopUnlock \/ Fill

Next == PlayAudio \/ EmulatorStep \/ Callback \/ CallbackStep

\* A thread that is in the middle of a push or a pop goes on.  Nothing is
\* assumed of who gets the mutex, of how often the emulator has a sample or
\* of how often SDL asks for a block.
Fairness == /\ WF_vars(PushCheck \/ PushDiscard \/ PushAppend \/ PushUnlock)
            /\ WF_vars(PopOne \/ PopUnlock \/ Fill)

Spec == Init /\ [][Next]_vars /\ Fairness

-----------------------------------------------------------------------------
(* Properties                                                              *)

\* The queue never outgrows its limit, although the producer looks at its
\* size some steps before it appends.  (ThreadSafeQueue.h:53-69)
QueueBounded == MaxSize > 0 => Len(queue) <= MaxSize

\* std::queue::pop on an empty queue is undefined: RemoveOldestRecords, which
\* does not look, and Pop, which has looked before it loops, always find what
\* they remove.  (ThreadSafeQueue.h:17-23, 75-82)
NeverPopsEmpty == /\ emulator = "discard" => Len(queue) >= MaxSize
                  /\ callback = "pop" => toPop <= Len(queue)

\* The numbers a, a+1, ..., one after the other.
Consecutive(s) == \A i \in 1 .. Len(s) - 1 : s[i+1] = s[i] + 1

\* Samples are lost only between two blocks: whatever the emulator pushes or
\* discards meanwhile, a block is a piece of the stream without a gap.
BlockHasNoGap == Consecutive(retrieved) /\ Consecutive(audioData)

\* Nothing is played twice or out of order: what waits in the queue is newer
\* than what the callback holds, which is newer than all that was played.
InOrder ==
  LET held == CASE callback = "pop"  -> retrieved
                [] callback = "fill" -> audioData
                [] OTHER             -> <<>>
      ahead == held \o queue
  IN /\ \A i \in 1 .. Len(ahead) : heard < ahead[i] /\ ahead[i] <= sent
     /\ \A i \in 1 .. Len(ahead) - 1 : ahead[i] < ahead[i+1]

\* Whoever holds the mutex lets go of it.
LockReleased == /\ mu = "emulator" ~> mu # "emulator"
                /\ mu = "callback" ~> mu # "callback"

\* The two threads see each other's operations in one step each; a push takes
\* effect when it appends, a pop when it returns.
Fifo == INSTANCE SampleFifo
          WITH fifo  <- discarded \o (IF callback = "pop" THEN retrieved \o queue ELSE queue),
               block <- audioData
ImplementsFifo == Fifo!FifoSpec
=============================================================================
