----------------------------- MODULE MCNesStep -----------------------------
(* A picture of a few short lines, a two-byte OAM whose second page starts *)
(* with a device register, and one value for a byte: the data of a         *)
(* transfer is OamDma's subject.                                           *)
EXTENDS NesStep

CONSTANTS Ram, Io

MCVolatile == {<<Io, 0>>}
=============================================================================
