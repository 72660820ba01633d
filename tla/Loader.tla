------------------------------- MODULE Loader -------------------------------
(***************************************************************************)
(* What a ROM file becomes: Cartridge/CartridgeLoader.cpp, INes.cpp and    *)
(* CartridgeMapping0::LoadINes.                                            *)
(*                                                                         *)
(* A file is its header and the number of units that follow it, where a    *)
(* unit is the trainer or one bank, as the header counts them; a file that *)
(* breaks off inside a unit is one without that unit.  A byte of a bank is *)
(* represented by the number of the unit it was read from, 0 for a byte    *)
(* that no read has filled.                                                *)
(***************************************************************************)
EXTENDS Integers, Sequences

\* exists: it can be opened.  magic: it begins with "NES" and $1A.
File == [exists : BOOLEAN, magic : BOOLEAN, nes2 : BOOLEAN, mapper : 0 .. 255,
         trainer : BOOLEAN, battery : BOOLEAN, prg : 0 .. 255, chr : 0 .. 255,
         units : Nat]

Cartridge == [prg : Seq(Nat), chr : Seq(Nat), ram : BOOLEAN]

\* An ifstream: where it is in the file and whether a read has failed yet.
\* A read that meets the end fills what it can, and every later one nothing.
Stream == [pos : Nat, good : BOOLEAN]

ReadUnits(file, stream, n) ==
  [i \in 1 .. n |-> IF stream.good /\ stream.pos + i <= file.units
                    THEN stream.pos + i ELSE 0]

AfterRead(file, stream, n) ==
  IF stream.good /\ stream.pos + n <= file.units
  THEN [stream EXCEPT !.pos = @ + n]
  ELSE [stream EXCEPT !.good = FALSE]

SkippedTrainerMutant(file, stream) == stream

UpdateTrainer(file, stream) ==
  IF file.trainer THEN AfterRead(file, stream, 1) ELSE stream

\* ParseINes and LoadINes.  No return value of a read is looked at.
LoadINes(file) ==
  LET body   == UpdateTrainer(file, [pos |-> 0, good |-> TRUE])
      behind == AfterRead(file, body, file.prg)
  IN [prg |-> ReadUnits(file, body, file.prg),
      chr |-> ReadUnits(file, behind, file.chr),
      ram |-> file.battery]

\* CartridgeLoader::LoadCartridge: a cartridge, nothing, or an exception.
Rejected(file) == ~file.exists \/ ~file.magic \/ (~file.nes2 /\ file.mapper # 0)
Throws(file)   == file.exists /\ file.magic /\ file.nes2
Accepted(file) == ~Rejected(file) /\ ~Throws(file)

\* Reading a bank of no bytes throws.  (A multiple of 64 KB is 0 as the 16 bit
\* length of a bank, which leaves some byte of it to be read.)
NoProgram(cartridge) == cartridge.prg = <<>>
=============================================================================
