---------------------------------- MODULE Alu ----------------------------------
(***************************************************************************)
(* The arithmetic of the 6502 as Cpu.cpp has it: bytes and words that      *)
(* wrap, the status register, and what each instruction makes of its       *)
(* operand and of the flags.  There is no state here; Cpu uses these       *)
(* operators in its actions.                                               *)
(*                                                                         *)
(* A byte that is looked at bit by bit is the set of its bits, so the      *)
(* status register is the set of the flags that are up.                    *)
(***************************************************************************)
EXTENDS Integers

BYTE == 256
WORD == 65536
Byte == 0 .. BYTE - 1
Word == 0 .. WORD - 1

Signed(v) == IF v < 128 THEN v ELSE v - BYTE

\* The bits of a byte, and the byte that has them.
Weight == <<1, 2, 4, 8, 16, 32, 64, 128>>
Bits(v) == {i \in 0 .. 7 : (v \div Weight[i + 1]) % 2 = 1}
ByteOf(bits) == LET part(i) == IF i \in bits THEN Weight[i + 1] ELSE 0
                IN  part(0) + part(1) + part(2) + part(3) + part(4) + part(5) + part(6) + part(7)

-----------------------------------------------------------------------------
(* The status register, CpuRegisters.                                      *)

C == 0   \* carry
Z == 1   \* zero
I == 2   \* interrupt disable
D == 3   \* decimal mode
B == 4   \* break command
Expansion == 5
V == 6   \* overflow
N == 7   \* negative

Flags == 0 .. 7

With(p, flag, up) == IF up THEN p \union {flag} ELSE p \ {flag}
Carry(p) == IF C \in p THEN 1 ELSE 0

ZeroAndNeg(p, v) == With(With(p, Z, v = 0), N, v >= 128)

-----------------------------------------------------------------------------
(* Each of these gives a value and a status.                               *)

CarrySignedMutant(acc, v, p) ==
  LET exact  == acc + v + Carry(p)
      signed == Signed(acc) + Signed(v) + Carry(p)
  IN  [val |-> exact % BYTE,
       p   |-> ZeroAndNeg(With(With(p, C, signed > 127), V, signed < -128 \/ signed > 127),
                          exact % BYTE)]

AddWithCarry(acc, v, p) ==
  LET exact  == acc + v + Carry(p)
      signed == Signed(acc) + Signed(v) + Carry(p)
  IN  [val |-> exact % BYTE,
       p   |-> ZeroAndNeg(With(With(p, C, exact > 255), V, signed < -128 \/ signed > 127),
                          exact % BYTE)]

\* The borrow is found in a word: the operand is complemented in 16 bits.
SubtractWithCarry(acc, v, p) ==
  LET val    == (acc - (v + 1 - Carry(p))) % BYTE
      word   == (acc + (WORD - 1 - v) + Carry(p)) % WORD
      signed == Signed(acc) - Signed(v) - (1 - Carry(p))
  IN  [val |-> val,
       p   |-> ZeroAndNeg(With(With(p, C, ~(word > 255)), V, signed < -128 \/ signed > 127), val)]

Compare(register, v, p) ==
  With(ZeroAndNeg(p, (register - v) % BYTE), C, register >= v)

\* BIT: Z from the conjunction, V and N from the operand.
BitTest(acc, v, p) ==
  With(With(With(p, Z, Bits(acc) \intersect Bits(v) = {}), V, 6 \in Bits(v)), N, 7 \in Bits(v))

Logic(instr, acc, v) ==
  ByteOf(CASE instr = "AND" -> Bits(acc) \intersect Bits(v)
           [] instr = "ORA" -> Bits(acc) \union Bits(v)
           [] instr = "EOR" -> (Bits(acc) \union Bits(v)) \ (Bits(acc) \intersect Bits(v)))

\* A shift puts the bit that falls out into the carry; a rotation puts the
\* old carry in at the other end.
Shift(instr, v, p) ==
  LET left == instr \in {"ASL", "ROL"}
      in   == IF instr \in {"ROL", "ROR"} THEN Carry(p) ELSE 0
      out  == IF left THEN 7 \in Bits(v) ELSE 0 \in Bits(v)
      val  == IF left THEN ((2 * v) % BYTE) + in ELSE v \div 2 + 128 * in
  IN  [val |-> val, p |-> ZeroAndNeg(With(p, C, out), val)]

-----------------------------------------------------------------------------
(* Addresses.                                                              *)

PageOf(address) == address \div BYTE

\* AdditionalCyclesForPageCross.
PageCross(address1, address2) == IF PageOf(address1) # PageOf(address2) THEN 1 ELSE 0

\* The second byte of an address in memory, GetDWord: a pointer does not leave
\* its page.
SecondByte(address, pageWrap) ==
  IF pageWrap THEN BYTE * PageOf(address) + ((address + 1) % BYTE) ELSE (address + 1) % WORD
=============================================================================
