------------------------------ MODULE MCApu ------------------------------
(* Apu, for a program that accesses it MaxWrites times.                    *)
EXTENDS Apu

CONSTANT MaxWrites
VARIABLE writes

MCVolumes == {[halt |-> FALSE, volume |-> 1],
              [halt |-> TRUE, volume |-> 0]}
MCSweeps == {[enabled |-> TRUE, period |-> 1, negative |-> n, shift |-> 0] : n \in BOOLEAN}
MCLinears == {[count |-> 1, halt |-> FALSE], [count |-> 0, halt |-> TRUE]}
MCEnables == {[square |-> [n \in Squares |-> b], triangle |-> b, noise |-> b] : b \in BOOLEAN}

\* The APU after a program has written every register once, in the first cycle.
Plain == [halt |-> FALSE, volume |-> 1]
PlayingSquare == [NewSquare EXCEPT !.enabled = TRUE, !.length = Load(@, 3),
                                   !.volume = SetVolume(@, Plain), !.period = 1]
PlayingTriangle == Resume([SetLinearCounter(NewTriangle, [count |-> 1, halt |-> FALSE])
                           EXCEPT !.enabled = TRUE, !.length = Load(@, 3),
                                  !.linearReset = TRUE, !.period = 257])
PlayingNoise == [NewNoise EXCEPT !.enabled = TRUE, !.length = Load(@, 3),
                                 !.volume = SetVolume(@, Plain)]
Playing ==
  LET three == [length |-> 3, halves |-> 0]
  IN /\ square = [n \in Squares |-> PlayingSquare]
     /\ triangle = PlayingTriangle /\ noise = PlayingNoise
     /\ is4StepMode \in BOOLEAN /\ irqInhibit = FALSE
     /\ frameCounterSeqNum = 0 /\ resetFrameCounter = TRUE /\ phase = 0
     /\ irqActive = FALSE
     /\ note = [square |-> [n \in Squares |-> three], triangle |-> three, noise |-> three]
     /\ elapsed = [square |-> [n \in Squares |-> 0], noise |-> 0]
     /\ sinceHalf = 0 /\ sinceQuarter = 0 /\ sinceIrq = 0

MCInit == (Init \/ Playing) /\ writes = 0
MCNext == \/ (Step \/ AcknowledgeIrq) /\ UNCHANGED writes
          \/ writes < MaxWrites /\ writes' = writes + 1 /\ (ProgramStep \/ PowerCycle)
MCSpec == MCInit /\ [][MCNext]_<<vars, writes>>
==========================================================================
