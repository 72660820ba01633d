------------------------------ MODULE MCOamDma ------------------------------
(* A three-byte OAM, a page of RAM, and a page with a device register and  *)
(* a hole.                                                                 *)
EXTENDS OamDma

CONSTANTS Ram, Io

MCVolatile == {<<Io, 1>>}
MCUnmapped == {<<Io, 2>>}
=============================================================================
