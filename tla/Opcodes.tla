-------------------------------- MODULE Opcodes --------------------------------
(***************************************************************************)
(* The opcode table of Instructions.h: for each byte an instruction, an    *)
(* addressing mode, the cycles it takes and whether crossing a page should *)
(* cost one more.  The table is given by its columns: the opcodes of an    *)
(* instruction lie at fixed distances from its first.                      *)
(***************************************************************************)
EXTENDS Naturals

\* What the table's macros make of a byte that has no entry.
NoInstruction == [instr |-> "INVALID", addrm |-> "INVALID", cycles |-> 3, cross |-> FALSE]

Row(code, instr, addrm, count, cross) ==
  [code |-> code, entry |-> [instr |-> instr, addrm |-> addrm, cycles |-> count, cross |-> cross]]

Indexed == {"indY", "absX", "absY"}

\* The accumulator's instructions, which have every mode.
AccPlace  == [Xind |-> 1, zpg_ |-> 5, imm |-> 9, abs_ |-> 13, indY |-> 17, zpgX |-> 21,
              absY |-> 25, absX |-> 29]
AccCycles == [Xind |-> 6, zpg_ |-> 3, imm |-> 2, abs_ |-> 4, indY |-> 5, zpgX |-> 4,
              absY |-> 4, absX |-> 4]
AccFirst  == [ORA |-> 0, AND |-> 32, EOR |-> 64, ADC |-> 96, LDA |-> 160, CMP |-> 192,
              SBC |-> 224]

AccRows ==
  {Row(AccFirst[i] + AccPlace[m], i, m, AccCycles[m], m \in Indexed) :
     i \in DOMAIN AccFirst, m \in DOMAIN AccPlace}

\* Stores never save the cycle, and cannot be immediate.
StaRows ==
  {Row(128 + AccPlace[m], "STA", m, AccCycles[m] + IF m \in Indexed THEN 1 ELSE 0, FALSE) :
     m \in DOMAIN AccPlace \ {"imm"}}

\* Instructions that read, modify and write.
ModifyPlace  == [zpg_ |-> 6, acc |-> 10, abs_ |-> 14, zpgX |-> 22, absX |-> 30]
ModifyCycles == [zpg_ |-> 5, acc |-> 2, abs_ |-> 6, zpgX |-> 6, absX |-> 7]
ModifyFirst  == [ASL |-> 0, ROL |-> 32, LSR |-> 64, ROR |-> 96, DEC |-> 192, INC |-> 224]

ModifyRows ==
  UNION {{Row(ModifyFirst[i] + ModifyPlace[m], i, m, ModifyCycles[m], FALSE) :
            m \in DOMAIN ModifyPlace \ IF i \in {"DEC", "INC"} THEN {"acc"} ELSE {}} :
         i \in DOMAIN ModifyFirst}

\* The index registers' loads, stores and comparisons.
IndexRows ==
  UNION {
    {Row(160, "LDY", "imm", 2, FALSE), Row(164, "LDY", "zpg_", 3, FALSE),
     Row(172, "LDY", "abs_", 4, FALSE), Row(180, "LDY", "zpgX", 4, FALSE),
     Row(188, "LDY", "absX", 4, TRUE)},
    {Row(162, "LDX", "imm", 2, FALSE), Row(166, "LDX", "zpg_", 3, FALSE),
     Row(174, "LDX", "abs_", 4, FALSE), Row(182, "LDX", "zpgY", 4, FALSE),
     Row(190, "LDX", "absY", 4, TRUE)},
    {Row(132, "STY", "zpg_", 3, FALSE), Row(140, "STY", "abs_", 4, FALSE),
     Row(148, "STY", "zpgX", 4, FALSE)},
    {Row(134, "STX", "zpg_", 3, FALSE), Row(142, "STX", "abs_", 4, FALSE),
     Row(150, "STX", "zpgY", 4, FALSE)},
    {Row(192, "CPY", "imm", 2, FALSE), Row(196, "CPY", "zpg_", 3, FALSE),
     Row(204, "CPY", "abs_", 4, FALSE)},
    {Row(224, "CPX", "imm", 2, FALSE), Row(228, "CPX", "zpg_", 3, FALSE),
     Row(236, "CPX", "abs_", 4, FALSE)},
    {Row(36, "BIT", "zpg_", 3, FALSE), Row(44, "BIT", "abs_", 4, FALSE)}}

BranchFirst == [BPL |-> 16, BMI |-> 48, BVC |-> 80, BVS |-> 112, BCC |-> 144, BCS |-> 176,
                BNE |-> 208, BEQ |-> 240]

JumpRows ==
  {Row(BranchFirst[i], i, "rel", 2, FALSE) : i \in DOMAIN BranchFirst}
  \union {Row(32, "JSR", "abs_", 6, FALSE), Row(76, "JMP", "abs_", 3, FALSE),
          Row(108, "JMP", "ind_", 5, FALSE)}

\* Two cycles, but for those that use the stack, and BRK.
ImpliedCode   == [BRK |-> 0, PHP |-> 8, CLC |-> 24, PLP |-> 40, SEC |-> 56, RTI |-> 64, PHA |-> 72,
                  CLI |-> 88, RTS |-> 96, PLA |-> 104, SEI |-> 120, DEY |-> 136, TXA |-> 138,
                  TYA |-> 152, TXS |-> 154, TAY |-> 168, TAX |-> 170, CLV |-> 184, TSX |-> 186,
                  INY |-> 200, DEX |-> 202, CLD |-> 216, INX |-> 232, NOP |-> 234, SED |-> 248]
StackCycles   == [BRK |-> 0, PHP |-> 3, PLP |-> 4, RTI |-> 6, PHA |-> 3, RTS |-> 6, PLA |-> 4]

ImpliedRows ==
  {Row(ImpliedCode[i], i, "impl", IF i \in DOMAIN StackCycles THEN StackCycles[i] ELSE 2, FALSE) :
     i \in DOMAIN ImpliedCode}

\* Bytes that have an addressing mode and no instruction.
IdleRows ==
  {Row(c, "INVALID", "impl", 2, TRUE) : c \in {26, 58, 90, 122, 218, 250}}
  \union {Row(c, "INVALID", "zpgX", 4, TRUE) : c \in {20, 52, 84, 116, 212, 244}}
  \union {Row(c, "INVALID", "absX", 4, TRUE) : c \in {28, 60, 92, 124, 220, 252}}
  \union {Row(12, "INVALID", "abs_", 4, TRUE), Row(128, "INVALID", "imm", 2, TRUE)}

OpcodeRows == UNION {AccRows, StaRows, ModifyRows, IndexRows, JumpRows, ImpliedRows, IdleRows}

\* The rows, and no instruction elsewhere.
Opcodes ==
  [code \in 0 .. 255 |->
     IF \E row \in OpcodeRows : row.code = code
     THEN (CHOOSE row \in OpcodeRows : row.code = code).entry ELSE NoInstruction]

\* The bytes of an instruction, by its mode.
InstLen == [impl |-> 1, acc |-> 1, imm |-> 2, zpg_ |-> 2, zpgX |-> 2, zpgY |-> 2, rel |-> 2,
            Xind |-> 2, indY |-> 2, abs_ |-> 3, absX |-> 3, absY |-> 3, ind_ |-> 3]
=============================================================================
