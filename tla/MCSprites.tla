---------------------------- MODULE MCSprites ----------------------------
(* Sprites, for a program that writes MaxWrites times.                    *)
EXTENDS Sprites

CONSTANT MaxWrites
VARIABLE writes

Plain  == [behind |-> FALSE, flipX |-> FALSE, flipY |-> FALSE]
Turned == [behind |-> TRUE, flipX |-> TRUE, flipY |-> TRUE]
MCAttrs == {Plain, Turned}

\* One column of each row, another one in every tile and table: with x = 1, in
\* column 1 (the last of the left), 2 or 3 (the last but one of the line).
MCOpaque(t, n, r, c) == (t + n + r + c) % 3 = 0

MCMasks == {NoMask, [NoMask EXCEPT !.sprites = TRUE, !.background = TRUE],
            [sprites |-> TRUE, background |-> TRUE,
             leftSprites |-> TRUE, leftBackground |-> TRUE]}

\* A later frame of a program that has set its registers and OAM before.
MCInit == /\ TopOfPicture
          /\ tall \in BOOLEAN /\ table \in 0 .. 1 /\ mask \in WrittenMasks
          /\ writes = 0
MCNext == \/ (Dot \/ DotFails) /\ UNCHANGED writes
          \/ writes < MaxWrites /\ writes' = writes + 1 /\ (ProgramStep \/ PowerCycle)
MCSpec == MCInit /\ [][MCNext]_<<vars, writes>>
==========================================================================
