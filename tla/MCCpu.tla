---------------------------------- MODULE MCCpu ----------------------------------
(***************************************************************************)
(* Cpu with Programs and two more, of which nothing is asked but what must *)
(* hold of any: one that uses every instruction and mistreats the stack,   *)
(* and one that no device answers.                                         *)
(***************************************************************************)
EXTENDS Programs, TLC

\* Code that says nothing of where it lies.
Imp(i)          == <<Code(i, "impl")>>
Acc(i)          == <<Code(i, "acc")>>
Two(i, mode, v) == <<Code(i, mode), v>>
Imm(i, v)       == Two(i, "imm", v)
Zpg(i, v)       == Two(i, "zpg_", v)
Long(i, mode, w) == <<Code(i, mode), Lower(w), Upper(w)>>
Abs(i, w)       == Long(i, "abs_", w)

Place(code, at) == [cell \in at .. at + Len(code) - 1 |-> code[cell - at + 1]]

\* The handlers only return.
Rom(main) ==
  Place(main, Main) @@ Assembled({Implied(NmiAt, "RTI"), Implied(IrqAt, "RTI")}, NmiAt, IrqAt)

\* Every instruction, most modes, pages that are crossed, and a stack whose
\* return addresses are made up, changed and overwritten.
EveryMain ==
  LET one == Imm("LDX", 0) \o Imp("TXS") \o Imp("PHP") \o Imp("PLP") \o Imp("PHA") \o Imp("PLA")
             \o Imp("TAX") \o Imp("TAY") \o Imp("TSX") \o Imp("TXA") \o Imp("TYA")
             \o Imp("SED") \o Imp("CLD") \o Imp("SEI") \o Imp("CLI") \o Imp("CLV") \o Imp("NOP")
             \o Imm("LDY", 255) \o Zpg("STY", 32) \o Imm("LDA", 2) \o Zpg("STA", 33)
             \o Two("LDA", "indY", 32) \o Two("STA", "indY", 32)
             \o Imm("LDX", 32) \o Two("ORA", "Xind", 0) \o Imm("AND", 15) \o Zpg("EOR", 33)
             \o Imm("LDX", 1) \o Long("INC", "absX", 767) \o Two("DEC", "zpgX", 31)
             \o Acc("ASL") \o Acc("ROR") \o Abs("ROL", 768) \o Two("ROR", "zpgX", 31)
             \o Zpg("LSR", 33) \o Zpg("BIT", 32) \o Imm("CPX", 1) \o Imm("CPY", 254)
             \o Long("CMP", "absY", 767) \o Two("STX", "zpgY", 40) \o Two("LDX", "zpgY", 40)
             \o Imp("INX") \o Imp("DEX") \o Imp("INY") \o Imp("DEY")
             \o Long("LDX", "absY", 513) \o Two("LDY", "zpgX", 12)
      two == Two("BCC", "rel", 0) \o Two("BCS", "rel", 0) \o Two("BEQ", "rel", 0)
             \o Two("BNE", "rel", 0) \o Two("BMI", "rel", 0) \o Two("BPL", "rel", 0)
             \o Two("BVC", "rel", 0) \o Two("BVS", "rel", 0)
             \o Imp("SEC") \o Two("BCS", "rel", 254 - 128) \o [k \in 1 .. 126 |-> 2]
             \o Abs("INC", JOY1) \o Abs("LSR", JOY2) \o Abs("STA", DMA_ADDR) \o Abs("STA", Main)
             \o Imp("BRK") \o <<26, 12, 0, 4>>
             \o Two("BCS", "rel", 20) \o [k \in 1 .. 20 |-> 2]
      \* A subroutine that changes its return address, and one that is an RTS in
      \* RAM; then a return to an address that no call has pushed.
      start == Main + Len(one) + Len(two)
      sub   == Imp("TSX") \o Long("INC", "absX", 257) \o Imp("RTS")
      here  == start + 3 + Len(sub)
      last  == here + 19
      three == Abs("JMP", here) \o sub
               \o Imm("LDA", 96) \o Abs("STA", 1024) \o Abs("JSR", 1024)
               \o Abs("JSR", start + 3) \o <<2>>
               \o Imm("LDA", (last - 1) \div 256) \o Imp("PHA")
               \o Imm("LDA", (last - 1) % 256) \o Imp("PHA") \o Imp("RTS")
               \o Abs("JMP", last)
  IN  one \o two \o three
Every == Cartridge(Rom(EveryMain), 1, FALSE, "instructions", Main)

\* A program that leaves something on the stack and reads where nothing answers;
\* its IRQ vector points there, too.
Nowhere ==
  LET main == Imp("CLI") \o Imm("LDA", 5) \o Imp("PHA") \o Imp("PHP") \o Abs("JSR", Main + 8)
              \o Abs("LDA", 20480)
  IN  Cartridge(Place(main, Main) @@ Assembled({Implied(NmiAt, "RTI")}, NmiAt, 20480),
                2, TRUE, "fault", Main)

MCCartridges == {Sum(1), Nest(2), ReadPad(2), Every, Nowhere}
=============================================================================
