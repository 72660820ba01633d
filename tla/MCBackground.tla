--------------------------- MODULE MCBackground ---------------------------
(* Background, for a program that writes MaxWrites times.                  *)
EXTENDS Background

CONSTANT MaxWrites
VARIABLE writes

\* A frame of a program that has set its scroll before, or not.
MCInit == /\ dot = 0 /\ line = PRE_SCANLINE
          /\ \E x \in ScrollXs : /\ next = [x |-> Coarse(x), y |-> 0]
                                 /\ fineX = x % TILE
          /\ active = Origin /\ rendering = TRUE
          /\ leftmost \in BOOLEAN /\ table = 0
          /\ index = 0 /\ attribute = NoBits /\ lsb = NoRow /\ msb = NoRow
          /\ lower = Empty /\ upper = Empty
          /\ pixel = Nothing
          /\ asked = Origin /\ wanted = Invalid /\ torn = FALSE /\ overrun = FALSE
          /\ writes = 0
MCNext == \/ Step /\ UNCHANGED writes
          \/ writes < MaxWrites /\ writes' = writes + 1 /\ ProgramWrite
MCSpec == MCInit /\ [][MCNext]_<<vars, writes>>
===========================================================================
