------------------------------ MODULE SampleFifo ------------------------------
(***************************************************************************)
(* The audio stream between the emulator and the sound card, with each     *)
(* operation in one step: a queue that holds the newest samples, at most   *)
(* MaxSize of them, and that a put into a full queue empties first.        *)
(***************************************************************************)
EXTENDS Naturals, Sequences

CONSTANTS MaxSize,   \* samples the queue may hold, or 0 for any number
          BlockSizes \* lengths of the blocks the sound card asks for

VARIABLES fifo, \* the samples, numbered in the order of their production
          sent, \* the number of the newest sample
          block \* what the last take has returned

fifoVars == <<fifo, sent, block>>

FifoInit == fifo = <<>> /\ sent = 0 /\ block = <<>>

Put == /\ sent' = sent + 1
       /\ fifo' = IF MaxSize = 0 \/ Len(fifo) < MaxSize THEN Append(fifo, sent') ELSE <<sent'>>
       /\ block' = block

\* As many as asked for, or as there are.
Take(n) == LET k == IF n < Len(fifo) THEN n ELSE Len(fifo)
           IN /\ block' = SubSeq(fifo, 1, k)
              /\ fifo' = SubSeq(fifo, k + 1, Len(fifo))
              /\ sent' = sent

FifoNext == Put \/ \E n \in BlockSizes : Take(n)

FifoSpec == FifoInit /\ [][FifoNext]_fifoVars
=============================================================================
