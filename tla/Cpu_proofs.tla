----------------------------- MODULE Cpu_proofs -----------------------------
(***************************************************************************)
(* For every program, memory and number of interrupts: Cpu keeps its       *)
(* types, a return finds its way back, sums and comparisons are exact, and *)
(* a step is as long as Nes::Step and the DMA count on.  For the programs  *)
(* of Programs, wherever interrupts come: no handler leaves a trace, and   *)
(* the controller's bits arrive as they were latched.                      *)
(***************************************************************************)
EXTENDS Programs, SequenceTheorems, TLAPS

-----------------------------------------------------------------------------
(* Bytes and their bits.                                                   *)

\* Without the literals: what bounds a byte and a word.
LEMMA ConstantInts == WORD = 65536 /\ PRG_START = 32768
BY DEF WORD, PRG_START

LEMMA RomRange ==
  ASSUME NEW y \in Int
  PROVE  y \in PRG_ROM <=> y >= PRG_START /\ y < WORD
<1>1. PRG_START \in Int /\ WORD \in Int
  BY ConstantInts
<1>. QED
  BY <1>1 DEF PRG_ROM

LEMMA Ranges ==
  /\ \A b : b \in Byte <=> b \in Int /\ b >= 0 /\ b < 256
  /\ \A w : w \in Word <=> w \in Int /\ w >= 0 /\ w < 65536
<1>1. BYTE \in Int /\ WORD \in Int
  BY DEF BYTE, WORD
<1>2. /\ \A b : b \in Byte <=> b \in Int /\ b >= 0 /\ b < BYTE
      /\ \A w : w \in Word <=> w \in Int /\ w >= 0 /\ w < WORD
  BY <1>1 DEF Byte, Word
<1>3. BYTE = 256 /\ WORD = 65536
  BY DEF BYTE, WORD
<1>. QED
  BY <1>2, <1>3

LEMMA Bytes ==
  /\ \A n \in Int : n % BYTE \in Byte /\ n % WORD \in Word
  /\ \A w \in Word : Upper(w) \in Byte /\ Lower(w) \in Byte /\ w = Lower(w) + BYTE * Upper(w)
  /\ \A l, h \in Byte : /\ l + BYTE * h \in Word
                        /\ Upper(l + BYTE * h) = h /\ Lower(l + BYTE * h) = l
<1>1. ASSUME NEW n \in Int
      PROVE  n % BYTE \in Byte /\ n % WORD \in Word
  <2>. DEFINE low == n % BYTE
              word == n % WORD
  <2>1. low \in Int /\ low >= 0 /\ low < 256
    BY DEF BYTE
  <2>2. word \in Int /\ word >= 0 /\ word < 65536
    BY DEF WORD
  <2>. HIDE DEF low, word
  <2>3. low \in Byte /\ word \in Word
    BY <2>1, <2>2, Ranges
  <2>. QED
    BY <2>3 DEF low, word
<1>2. ASSUME NEW w \in Word
      PROVE  Upper(w) \in Byte /\ Lower(w) \in Byte /\ w = Lower(w) + BYTE * Upper(w)
  <2>. DEFINE q == w \div 256
              r == w % 256
  <2>1. w \in Int /\ w >= 0 /\ w < 65536
    BY Ranges
  <2>2. q \in Int /\ r \in Int /\ r >= 0 /\ r < 256 /\ w = r + 256 * q
    BY <2>1
  <2>3. Upper(w) = q /\ Lower(w) = r
    BY DEF Upper, Lower, BYTE
  <2>. HIDE DEF q, r
  <2>4. q >= 0 /\ q < 256
    BY <2>1, <2>2
  <2>5. q \in Byte /\ r \in Byte
    BY <2>2, <2>4, Ranges
  <2>6. w = r + BYTE * q
    BY <2>2 DEF BYTE
  <2>. QED
    BY <2>3, <2>5, <2>6, Zenon
<1>3. ASSUME NEW l \in Byte, NEW h \in Byte
      PROVE  /\ l + BYTE * h \in Word
             /\ Upper(l + BYTE * h) = h /\ Lower(l + BYTE * h) = l
  <2>. DEFINE n == l + BYTE * h
  <2>1. l \in Int /\ l >= 0 /\ l < 256 /\ h \in Int /\ h >= 0 /\ h < 256
    BY Ranges
  <2>2. n \in Int /\ n >= 0 /\ n < 65536
    BY <2>1 DEF BYTE
  <2>3. n \div BYTE = h /\ n % BYTE = l
    BY <2>1 DEF BYTE
  <2>. HIDE DEF n
  <2>4. n \in Word
    BY <2>2, Ranges
  <2>5. Upper(n) = h /\ Lower(n) = l
    BY <2>3 DEF Upper, Lower
  <2>. QED
    BY <2>4, <2>5 DEF n
<1>. QED
  BY <1>1, <1>2, <1>3, Zenon

\* A byte put together from bits has just those.
LEMMA BitsOfByte ==
  ASSUME NEW bits \in SUBSET Flags
  PROVE  ByteOf(bits) \in Byte /\ Bits(ByteOf(bits)) = bits
<1>. DEFINE b(i, w) == IF i \in bits THEN w ELSE 0
            v == b(0, 1) + b(1, 2) + b(2, 4) + b(3, 8) + b(4, 16) + b(5, 32) + b(6, 64) + b(7, 128)
<1>1. ByteOf(bits) = v
  BY DEF ByteOf, Weight
<1>2. v \in 0 .. 255
  OBVIOUS
<1>3. /\ (v \div 1) % 2 = 1 <=> 0 \in bits
      /\ (v \div 2) % 2 = 1 <=> 1 \in bits
      /\ (v \div 4) % 2 = 1 <=> 2 \in bits
      /\ (v \div 8) % 2 = 1 <=> 3 \in bits
  OBVIOUS
<1>4. /\ (v \div 16) % 2 = 1 <=> 4 \in bits
      /\ (v \div 32) % 2 = 1 <=> 5 \in bits
      /\ (v \div 64) % 2 = 1 <=> 6 \in bits
      /\ (v \div 128) % 2 = 1 <=> 7 \in bits
  OBVIOUS
<1>. HIDE DEF v
<1>5. ASSUME NEW i \in 0 .. 7
      PROVE  (v \div Weight[i + 1]) % 2 = 1 <=> i \in bits
  <2>1. i \in {0, 1, 2, 3} \/ i \in {4, 5, 6, 7}
    OBVIOUS
  <2>2. CASE i \in {0, 1, 2, 3}
    BY <1>3, <2>2 DEF Weight
  <2>3. CASE i \in {4, 5, 6, 7}
    BY <1>4, <2>3 DEF Weight
  <2>. QED
    BY <2>1, <2>2, <2>3
<1>6. Bits(v) = bits
  BY <1>5 DEF Bits, Flags
<1>7. v \in Byte
  BY <1>2 DEF Byte, BYTE
<1>. QED
  BY <1>1, <1>6, <1>7

LEMMA BitsAreFlags == \A v : Bits(v) \in SUBSET Flags
BY DEF Bits, Flags

LEMMA StatusTypes ==
  ASSUME NEW q \in SUBSET Flags
  PROVE  /\ \A f \in Flags : \A up : With(q, f, up) \in SUBSET Flags
         /\ \A v : ZeroAndNeg(q, v) \in SUBSET Flags
         /\ Carry(q) \in 0 .. 1
<1>1. \A r \in SUBSET Flags, f \in Flags : \A up : With(r, f, up) \in SUBSET Flags
  BY DEF With
<1>2. Z \in Flags /\ N \in Flags
  BY DEF Flags, Z, N
<1>3. \A v : ZeroAndNeg(q, v) \in SUBSET Flags
  BY <1>1, <1>2 DEF ZeroAndNeg
<1>. QED
  BY <1>1, <1>3 DEF Carry

-----------------------------------------------------------------------------
(* The bus.                                                                *)

MemCell(c) == c \in 0 .. RAM_SIZE - 1 \/ c \in PRG_RAM \/ c \in PRG_ROM

BusInv == BusTypeOK /\ cart \in Cartridges

\* What there is to read are bytes.
LEMMA SeekIsByte == BusInv => \A a : Seek(a) \in Byte
<1>1. ASSUME BusInv, NEW a PROVE Seek(a) \in Byte
  <2>. DEFINE cell == Cell(a)
  <2>1. cell \in DOMAIN mem => mem[cell] \in Byte
    BY <1>1 DEF BusInv, BusTypeOK
  <2>2. cell \in DOMAIN cart.rom => cart.rom[cell] \in Byte
    BY <1>1, CartridgeAssumption DEF BusInv
  <2>3. 0 \in Byte
    BY DEF Byte, BYTE
  <2>. HIDE DEF cell
  <2>4. Seek(a) = CASE cell \in DOMAIN mem -> mem[cell]
                    [] cell \notin DOMAIN mem /\ cell \in DOMAIN cart.rom -> cart.rom[cell]
                    [] OTHER -> 0
    BY DEF Seek, cell
  <2>. QED
    BY <2>1, <2>2, <2>3, <2>4
<1>. QED
  BY <1>1

LEMMA WordsInMemory ==
  ASSUME BusInv
  PROVE  /\ \A a, wrap : GetDWord(a, wrap) \in Word
         /\ \A a \in Word : InMemory(a) => MemCell(Cell(a))
<1>1. ASSUME NEW a, NEW wrap PROVE GetDWord(a, wrap) \in Word
  <2>1. Seek(a) \in Byte /\ Seek(SecondByte(a, wrap)) \in Byte
    BY SeekIsByte
  <2>. QED
    BY <2>1, Bytes DEF GetDWord
<1>2. ASSUME NEW a \in Word, InMemory(a) PROVE MemCell(Cell(a))
  <2>. DEFINE n == cart.prgLen
              m == a - 32768
  <2>1. /\ a \in Int /\ a >= 0 /\ a < 65536
        /\ n \in Int /\ n >= 1 /\ n <= 32768
    <3>1. n \in 1 .. PRG_SIZE
      BY CartridgeAssumption DEF BusInv
    <3>. HIDE DEF n
    <3>2. PRG_SIZE = 32768 /\ a \in Int /\ a >= 0 /\ a < 65536
      BY DEF PRG_SIZE, Word, WORD
    <3>. QED
      BY <3>1, <3>2
  <2>. HIDE DEF n
  <2>2. CASE a < RAM_END
    <3>1. a \notin PRG_ROM
      <4>. SUFFICES ASSUME a \in PRG_ROM
                    PROVE  FALSE
        OBVIOUS
      <4>1. a >= PRG_START
        BY <2>1, ConstantInts DEF PRG_ROM
      <4>. QED
        BY <2>1, <2>2, <4>1, ConstantInts DEF RAM_END
    <3>2. Cell(a) = a % RAM_SIZE
      BY <2>2, <3>1 DEF Cell
    <3>3. a % RAM_SIZE \in 0 .. RAM_SIZE - 1
      BY <2>1 DEF RAM_SIZE
    <3>. QED
      BY <3>2, <3>3 DEF MemCell
  <2>3. CASE ~(a < RAM_END) /\ a \in PRG_ROM
    <3>1. Cell(a) = 32768 + (m % n)
      BY <2>3 DEF Cell, n
    <3>2. m \in Nat
      BY <2>1, <2>3, ConstantInts DEF PRG_ROM
    <3>. DEFINE x == m % n
    <3>. HIDE DEF m
    <3>3. x \in Int /\ x >= 0 /\ x < n
      BY <2>1, <3>2
    <3>. HIDE DEF x
    <3>. DEFINE y == 32768 + x
    <3>4. y \in Int /\ y >= 32768 /\ y <= 65535
      BY <2>1, <3>3
    <3>. HIDE DEF y
    <3>5. y \in PRG_ROM
      <4>1. y < WORD /\ y >= PRG_START
        BY <3>4, ConstantInts
      <4>. QED
        BY <3>4, <4>1, RomRange
    <3>. QED
      BY <3>1, <3>5 DEF MemCell, x, y
  <2>4. CASE ~(a < RAM_END) /\ a \notin PRG_ROM
    <3>1. Cell(a) = a /\ a \in PRG_RAM
      BY <1>2, <2>4 DEF Cell, InMemory
    <3>. QED
      BY <3>1 DEF MemCell
  <2>. QED
    BY <2>2, <2>3, <2>4
<1>. QED
  BY <1>1, <1>2

\* Memory after some cells have been overwritten.
LEMMA OverlayKeepsTypes ==
  ASSUME BusInv, NEW cells, \A c \in DOMAIN cells : MemCell(c) /\ cells[c] \in Byte
  PROVE  \A c \in DOMAIN Overlay(cells) : MemCell(c) /\ Overlay(cells)[c] \in Byte
BY DEF BusInv, BusTypeOK, Overlay, MemCell

LEMMA PadTypes ==
  ASSUME NEW pad \in Pad
  PROVE  /\ PadSeek(pad) \in Byte
         /\ PadAfterRead(pad) \in Pad
         /\ \A v : PadAfterWrite(pad, v) \in Pad
         /\ \A buttons \in SUBSET (0 .. 7) : [pad EXCEPT !.pressed = buttons] \in Pad
<1>. USE DEF Pad, PadIndexCap
<1>1. PadSeek(pad) \in Byte
  BY DEF PadSeek, Byte, BYTE
<1>2. PadAfterRead(pad) \in Pad
  <2>1. (IF pad.index < 8 THEN pad.index + 1 ELSE 8) \in 0 .. 8
    OBVIOUS
  <2>. QED
    BY <2>1 DEF PadAfterRead
<1>3. ASSUME NEW v PROVE PadAfterWrite(pad, v) \in Pad
  <2>. DEFINE up == 0 \notin Bits(v)
  <2>1. up \in BOOLEAN
    OBVIOUS
  <2>. HIDE DEF up
  <2>. DEFINE latching == [pad EXCEPT !.latched = pad.pressed]
              first == [latching EXCEPT !.index = 0]
  <2>2. latching \in Pad
    OBVIOUS
  <2>. HIDE DEF latching
  <2>3. first \in Pad
    BY <2>2
  <2>. HIDE DEF first
  <2>4. [first EXCEPT !.strobing = up] \in Pad
    BY <2>1, <2>3
  <2>. QED
    BY <2>4 DEF PadAfterWrite, first, latching, up
<1>. QED
  BY <1>1, <1>2, <1>3

LEMMA ReadsAreBytes ==
  ASSUME BusInv, NEW a
  PROVE  ReadValues(a) \subseteq Byte /\ PadsAfterRead(a) \in [PADS -> Pad]
<1>1. pads \in [PADS -> Pad]
  BY DEF BusInv, BusTypeOK
<1>2. a \in PADS => PadSeek(pads[a]) \in Byte /\ PadAfterRead(pads[a]) \in Pad
  BY <1>1, PadTypes
<1>3. Seek(a) \in Byte
  BY SeekIsByte
<1>4. ReadValues(a) \subseteq Byte
  BY <1>2, <1>3, DeviceByteAssumption DEF ReadValues
<1>5. PadsAfterRead(a) \in [PADS -> Pad]
  BY <1>1, <1>2 DEF PadsAfterRead
<1>. QED
  BY <1>4, <1>5

LEMMA WritesKeepTypes ==
  ASSUME BusInv, NEW a \in Word, NEW v \in Byte, NEW before \in [PADS -> Pad]
  PROVE  /\ \A c \in DOMAIN MemAfterWrite(a, v) : MemCell(c) /\ MemAfterWrite(a, v)[c] \in Byte
         /\ PadsAfterWrite(before, a, v) \in [PADS -> Pad]
<1>1. PadsAfterWrite(before, a, v) \in [PADS -> Pad]
  BY PadTypes DEF PadsAfterWrite
<1>2. CASE InMemory(a)
  <2>. DEFINE cells == [c \in {Cell(a)} |-> v]
  <2>1. \A c \in DOMAIN cells : MemCell(c) /\ cells[c] \in Byte
    BY <1>2, WordsInMemory
  <2>2. MemAfterWrite(a, v) = Overlay(cells)
    BY <1>2 DEF MemAfterWrite
  <2>. HIDE DEF cells
  <2>. QED
    BY <1>1, <2>1, <2>2, OverlayKeepsTypes
<1>3. CASE ~InMemory(a)
  <2>1. MemAfterWrite(a, v) = mem
    BY <1>3 DEF MemAfterWrite
  <2>. QED
    BY <1>1, <2>1 DEF BusInv, BusTypeOK, MemCell
<1>. QED
  BY <1>2, <1>3

-----------------------------------------------------------------------------
(* The opcode table.                                                       *)

\* Modes whose operand lies in the first page, or in no memory.
NearModes == {"imm", "zpg_", "zpgX", "zpgY", "acc"}
FarModes == {"Xind", "abs_", "indY", "absX", "absY"}

\* What the steps' lengths count on in a row of the table.
RowFits(entry) ==
  /\ entry.addrm \in DOMAIN InstLen
  /\ entry.cycles \in {0} \union 2 .. 7
  /\ entry.cycles = 0 <=> entry.instr = "BRK"
  /\ entry.instr = "BRK" => entry.addrm = "impl"
  /\ entry.instr \in DOMAIN Condition => entry.addrm = "rel" /\ entry.cycles = 2
  /\ entry.instr \in WithOperand => \/ entry.addrm \in NearModes
                                    \/ entry.addrm \in FarModes /\ entry.cycles >= 4

Fits(rows) == \A row \in rows : RowFits(row.entry)

LEMMA AccRowsFit == Fits(AccRows)
<1>1. ASSUME NEW i \in DOMAIN AccFirst, NEW m \in DOMAIN AccPlace
      PROVE  RowFits([instr |-> i, addrm |-> m, cycles |-> AccCycles[m], cross |-> m \in Indexed])
  BY DEF RowFits, AccFirst, AccPlace, AccCycles, InstLen, Condition, WithOperand, NearModes,
         FarModes
<1>. QED
  BY <1>1 DEF Fits, AccRows, Row

LEMMA StaRowsFit == Fits(StaRows)
<1>1. ASSUME NEW m \in DOMAIN AccPlace \ {"imm"}
      PROVE  RowFits([instr |-> "STA", addrm |-> m, cross |-> FALSE,
                      cycles |-> AccCycles[m] + IF m \in Indexed THEN 1 ELSE 0])
  BY DEF RowFits, AccPlace, AccCycles, InstLen, Condition, WithOperand, NearModes, FarModes,
         Indexed
<1>. QED
  BY <1>1 DEF Fits, StaRows, Row

LEMMA ModifyRowsFit == Fits(ModifyRows)
<1>1. ASSUME NEW i \in DOMAIN ModifyFirst, NEW m \in DOMAIN ModifyPlace
      PROVE  RowFits([instr |-> i, addrm |-> m, cycles |-> ModifyCycles[m], cross |-> FALSE])
  BY DEF RowFits, ModifyFirst, ModifyPlace, ModifyCycles, InstLen, Condition, WithOperand,
         NearModes, FarModes
<1>. QED
  BY <1>1 DEF Fits, ModifyRows, Row

LEMMA IndexRowsFit == Fits(IndexRows)
BY DEF Fits, IndexRows, Row, RowFits, InstLen, Condition, WithOperand, NearModes, FarModes

LEMMA JumpRowsFit == Fits(JumpRows)
BY DEF Fits, JumpRows, Row, RowFits, BranchFirst, InstLen, Condition, WithOperand

LEMMA ImpliedRowsFit == Fits(ImpliedRows)
<1>1. ASSUME NEW i \in DOMAIN ImpliedCode
      PROVE  RowFits([instr |-> i, addrm |-> "impl", cross |-> FALSE,
                      cycles |-> IF i \in DOMAIN StackCycles THEN StackCycles[i] ELSE 2])
  BY DEF RowFits, ImpliedCode, StackCycles, InstLen, Condition, WithOperand
<1>. QED
  BY <1>1 DEF Fits, ImpliedRows, Row

LEMMA IdleRowsFit == Fits(IdleRows)
BY DEF Fits, IdleRows, Row, RowFits, InstLen, Condition, WithOperand

\* An opcode that decodes has such a row.
LEMMA EntryFits ==
  ASSUME NEW code \in Byte, Opcodes[code].addrm # "INVALID"
  PROVE  RowFits(Opcodes[code])
<1>1. Fits(OpcodeRows)
  BY AccRowsFit, StaRowsFit, ModifyRowsFit, IndexRowsFit, JumpRowsFit, ImpliedRowsFit, IdleRowsFit
     DEF Fits, OpcodeRows
<1>2. code \in 0 .. 255
  BY DEF Byte, BYTE
<1>3. CASE \E row \in OpcodeRows : row.code = code
  <2>. DEFINE chosen == CHOOSE row \in OpcodeRows : row.code = code
  <2>1. chosen \in OpcodeRows
    BY <1>3
  <2>2. Opcodes[code] = chosen.entry
    BY <1>2, <1>3 DEF Opcodes
  <2>. QED
    BY <1>1, <2>1, <2>2 DEF Fits
<1>4. CASE ~ \E row \in OpcodeRows : row.code = code
  BY <1>2, <1>4 DEF Opcodes, NoInstruction
<1>. QED
  BY <1>3, <1>4

-----------------------------------------------------------------------------
(* Decoding.                                                               *)

CpuTypes == TypeOK /\ cart \in Cartridges

LEMMA Typed ==
  ASSUME CpuTypes
  PROVE  /\ BusInv
         /\ pc \in Word
         /\ reg.a \in Byte /\ reg.x \in Byte /\ reg.y \in Byte /\ reg.s \in Byte
         /\ \A b \in Byte : b \in Int /\ b \in Word
         /\ \A w \in Word : w \in Int
         /\ p \in SUBSET Flags
<1>1. TypeOK /\ cart \in Cartridges
  BY DEF CpuTypes
<1>2. /\ \A b \in Byte : b \in Int /\ b \in Word
      /\ \A w \in Word : w \in Int
  <2>1. ASSUME NEW b \in Byte PROVE b \in Int /\ b \in Word
    BY DEF Byte, Word, BYTE, WORD
  <2>2. ASSUME NEW w \in Word PROVE w \in Int
    BY DEF Word, WORD
  <2>. QED
    BY <2>1, <2>2
<1>3. BusInv
  BY <1>1 DEF TypeOK, BusInv
<1>4. pc \in Word /\ p \in SUBSET Flags /\ reg \in [a : Byte, x : Byte, y : Byte, s : Byte]
  BY <1>1 DEF TypeOK
<1>. QED
  BY <1>2, <1>3, <1>4

\* The addresses that an instruction takes.
LEMMA AddressTypes ==
  ASSUME CpuTypes
  PROVE  /\ \A k : Fetch(k) \in Byte
         /\ ArgAddress \in Word
         /\ (pc + 1) % WORD \in Word
<1>1. \A k : Fetch(k) \in Byte
  BY Typed, SeekIsByte DEF Fetch
<1>2. FetchWord \in Word /\ Base \in Word /\ Index \in Byte
  BY <1>1, Typed, Bytes, WordsInMemory DEF FetchWord, Base, Index
<1>3. \A n \in Int : n % BYTE \in Word /\ n % WORD \in Word
  BY Typed, Bytes
<1>4. pc + 1 \in Int /\ Base + Index \in Int
  BY <1>2, Typed
<1>5. Fetch(1) + reg.x \in Int /\ Fetch(1) + reg.y \in Int
  BY <1>1, Typed
<1>6. pc + 2 + Signed(Fetch(1)) \in Int
  <2>1. Fetch(1) \in Int
    BY <1>1, Typed
  <2>. QED
    BY <2>1, Typed DEF Signed, BYTE
<1>7. \A a, wrap : GetDWord(a, wrap) \in Word
  BY Typed, WordsInMemory
<1>8. 0 \in Word
  BY DEF Word, WORD
<1>9. Fetch(1) \in Word
  BY <1>1, Typed
<1>. HIDE DEF Fetch, FetchWord, Base, Index, GetDWord
<1>10. ArgAddress \in Word
  BY <1>2, <1>3, <1>4, <1>5, <1>6, <1>7, <1>8, <1>9 DEF ArgAddress
<1>. QED
  BY <1>1, <1>3, <1>4, <1>10

\* The length of an instruction, in bytes and in cycles.
LEMMA EntryTypes ==
  ASSUME CpuTypes, Decodable
  PROVE  /\ RowFits(Entry)
         /\ NextInstruction \in Word
         /\ CycleCount \in {0} \union 2 .. 8
         /\ CycleCount = 0 <=> Entry.instr = "BRK"
         /\ CycleCount >= Entry.cycles
         /\ Entry.instr \in DOMAIN Condition => CycleCount = 2
         /\ \A a, b : PageCross(a, b) \in 0 .. 1
<1>1. RowFits(Entry)
  BY AddressTypes, EntryFits DEF Decodable, Entry
<1>2. NextInstruction \in Word
  <2>1. InstLen[Entry.addrm] \in Int
    BY <1>1 DEF RowFits, InstLen
  <2>2. pc + InstLen[Entry.addrm] \in Int
    BY <2>1, Typed
  <2>. QED
    BY <2>2, Bytes DEF NextInstruction
<1>3. \A a, b : PageCross(a, b) \in 0 .. 1
  BY DEF PageCross
<1>4. /\ Entry.addrm \in Indexed => CycleCount \in Entry.cycles .. Entry.cycles + 1
      /\ Entry.addrm \notin Indexed => CycleCount = Entry.cycles
  <2>1. Entry.cycles \in Int
    BY <1>1 DEF RowFits
  <2>. QED
    BY <1>3, <2>1 DEF CycleCount
<1>5. "impl" \notin Indexed /\ "rel" \notin Indexed
  BY DEF Indexed
<1>. HIDE DEF Entry
<1>. QED
  BY <1>1, <1>2, <1>3, <1>4, <1>5 DEF RowFits

-----------------------------------------------------------------------------
(* What the instructions make of registers and flags.                      *)

Registers == [a : Byte, x : Byte, y : Byte, s : Byte]

LEMMA AluTypes ==
  ASSUME NEW acc \in Byte, NEW v \in Byte, NEW q \in SUBSET Flags
  PROVE  /\ AddWithCarry(acc, v, q).val \in Byte /\ AddWithCarry(acc, v, q).p \in SUBSET Flags
         /\ SubtractWithCarry(acc, v, q).val \in Byte
         /\ SubtractWithCarry(acc, v, q).p \in SUBSET Flags
         /\ Compare(acc, v, q) \in SUBSET Flags /\ BitTest(acc, v, q) \in SUBSET Flags
         /\ \A instr : Shift(instr, v, q).val \in Byte /\ Shift(instr, v, q).p \in SUBSET Flags
         /\ \A instr \in {"AND", "ORA", "EOR"} : Logic(instr, acc, v) \in Byte
<1>1. /\ \A r \in SUBSET Flags, f \in Flags : \A up : With(r, f, up) \in SUBSET Flags
      /\ \A r \in SUBSET Flags : \A n : ZeroAndNeg(r, n) \in SUBSET Flags
      /\ C \in Flags /\ V \in Flags /\ Z \in Flags /\ N \in Flags
  <2>1. C \in Flags /\ V \in Flags /\ Z \in Flags /\ N \in Flags
    BY DEF Flags, C, V, Z, N
  <2>. QED
    BY <2>1, StatusTypes
<1>2. acc \in Int /\ v \in Int /\ Carry(q) \in Int
  BY StatusTypes DEF Byte, BYTE
<1>3. acc + v + Carry(q) \in Int /\ acc - (v + 1 - Carry(q)) \in Int
  BY <1>2
<1>4. AddWithCarry(acc, v, q).val \in Byte /\ AddWithCarry(acc, v, q).p \in SUBSET Flags
  BY <1>1, <1>3, Bytes DEF AddWithCarry
<1>5. /\ SubtractWithCarry(acc, v, q).val \in Byte
      /\ SubtractWithCarry(acc, v, q).p \in SUBSET Flags
  BY <1>1, <1>3, Bytes DEF SubtractWithCarry
<1>6. Compare(acc, v, q) \in SUBSET Flags /\ BitTest(acc, v, q) \in SUBSET Flags
  BY <1>1 DEF Compare, BitTest
<1>7. ASSUME NEW instr
      PROVE  Shift(instr, v, q).val \in Byte /\ Shift(instr, v, q).p \in SUBSET Flags
  <2>. DEFINE in == IF instr \in {"ROL", "ROR"} THEN Carry(q) ELSE 0
              left == ((2 * v) % BYTE) + in
              right == v \div 2 + 128 * in
  <2>1. in \in 0 .. 1
    BY StatusTypes
  <2>2. left \in Byte /\ right \in Byte
    <3>. HIDE DEF in
    <3>1. v \in 0 .. 255
      BY DEF Byte, BYTE
    <3>2. (2 * v) % 256 \in 0 .. 254
      BY <3>1
    <3>3. v \div 2 \in 0 .. 127
      BY <3>1
    <3>. QED
      BY <2>1, <3>2, <3>3 DEF Byte, BYTE
  <2>3. \/ Shift(instr, v, q).val = left
        \/ Shift(instr, v, q).val = right
    BY DEF Shift
  <2>4. Shift(instr, v, q).p \in SUBSET Flags
    BY <1>1 DEF Shift
  <2>. QED
    BY <2>2, <2>3, <2>4
<1>8. ASSUME NEW instr \in {"AND", "ORA", "EOR"}
      PROVE  Logic(instr, acc, v) \in Byte
  <2>1. Bits(acc) \in SUBSET Flags /\ Bits(v) \in SUBSET Flags
    BY BitsAreFlags
  <2>2. /\ Bits(acc) \intersect Bits(v) \in SUBSET Flags
        /\ Bits(acc) \union Bits(v) \in SUBSET Flags
        /\ (Bits(acc) \union Bits(v)) \ (Bits(acc) \intersect Bits(v)) \in SUBSET Flags
    BY <2>1
  <2>3. \A bits \in SUBSET Flags : ByteOf(bits) \in Byte
    BY BitsOfByte
  <2>. QED
    BY <2>2, <2>3 DEF Logic
<1>. QED
  BY <1>4, <1>5, <1>6, <1>7, <1>8

LEMMA RegisterTypes ==
  ASSUME CpuTypes
  PROVE  /\ reg \in Registers
         /\ \A r \in {"a", "x", "y", "s"}, v \in Byte : [reg EXCEPT ![r] = v] \in Registers
         /\ \A s, a \in Byte : [reg EXCEPT !.s = s, !.a = a] \in Registers
         /\ \A a, x, y \in Byte : [reg EXCEPT !.a = a, !.x = x, !.y = y] \in Registers
         /\ \A n \in Int : Down(n) \in Byte /\ Up(n) \in Byte
         /\ Down(2) \in Byte /\ Down(3) \in Byte
         /\ Up(1) \in Byte /\ Up(2) \in Byte /\ Up(3) \in Byte
         /\ \A n : Popped(n) \in Byte
<1>1. reg \in Registers
  BY DEF CpuTypes, TypeOK, Registers
<1>2. \A r \in {"a", "x", "y", "s"}, v \in Byte : [reg EXCEPT ![r] = v] \in Registers
  BY <1>1 DEF Registers
<1>3. \A s, a \in Byte : [reg EXCEPT !.s = s, !.a = a] \in Registers
  BY <1>1 DEF Registers
<1>4. \A a, x, y \in Byte : [reg EXCEPT !.a = a, !.x = x, !.y = y] \in Registers
  BY <1>1 DEF Registers
<1>5. ASSUME NEW n \in Int PROVE Down(n) \in Byte /\ Up(n) \in Byte
  <2>1. reg.s - n \in Int /\ reg.s + n \in Int
    BY Typed
  <2>. QED
    BY <2>1, Bytes DEF Down, Up
<1>6. \A n : Popped(n) \in Byte
  BY Typed, SeekIsByte DEF Popped
<1>7. 1 \in Int /\ 2 \in Int /\ 3 \in Int
  OBVIOUS
<1>8. /\ Down(2) \in Byte /\ Down(3) \in Byte
      /\ Up(1) \in Byte /\ Up(2) \in Byte /\ Up(3) \in Byte
  BY <1>5, <1>7, Zenon
<1>. QED
  BY <1>1, <1>2, <1>3, <1>4, <1>5, <1>6, <1>8

-----------------------------------------------------------------------------
(* The stack.                                                              *)

\* The cell that the k-th byte is pushed to.
Slot(k) == StackCell((reg.s - k + 1) % BYTE)

LEMMA Around ==
  \A n \in -256 .. 511 : n % BYTE = IF n < 0 THEN n + 256 ELSE IF n < 256 THEN n ELSE n - 256
BY DEF BYTE

LEMMA Slots ==
  ASSUME CpuTypes
  PROVE  /\ \A k \in 1 .. 3 : MemCell(Slot(k))
         /\ \A j, k \in 1 .. 3 : Slot(j) = Slot(k) => j = k
<1>1. reg.s \in 0 .. 255
  <2>1. reg.s \in Byte
    BY Typed
  <2>. QED
    BY <2>1 DEF Byte, BYTE
<1>2. ASSUME NEW k \in 1 .. 3
      PROVE  Slot(k) = 256 + (IF reg.s - k + 1 < 0 THEN reg.s - k + 257 ELSE reg.s - k + 1)
  <2>. DEFINE n == reg.s - k + 1
  <2>1. n \in -256 .. 511 /\ n < 256 /\ n + 256 = reg.s - k + 257
    BY <1>1
  <2>. HIDE DEF n
  <2>2. n % BYTE = IF n < 0 THEN n + 256 ELSE n
    BY <2>1, Around
  <2>. QED
    BY <2>1, <2>2 DEF Slot, StackCell, BYTE, n
<1>3. \A k \in 1 .. 3 : MemCell(Slot(k))
  BY <1>1, <1>2 DEF MemCell, RAM_SIZE
<1>. QED
  BY <1>1, <1>2, <1>3

\* Memory after a push: its bytes, and for the rest as before.
LEMMA PushedBytes ==
  ASSUME CpuTypes, NEW bytes \in Seq(Byte), Len(bytes) \in 1 .. 3
  PROVE  /\ \A c \in DOMAIN Pushed(bytes) : MemCell(c) /\ Pushed(bytes)[c] \in Byte
         /\ \A k \in 1 .. Len(bytes) : /\ Slot(k) \in DOMAIN Pushed(bytes)
                                       /\ Pushed(bytes)[Slot(k)] = bytes[k]
         /\ \A c : c \notin PushedCells(Len(bytes)) =>
              /\ c \in DOMAIN Pushed(bytes) <=> c \in DOMAIN mem
              /\ c \in DOMAIN mem => Pushed(bytes)[c] = mem[c]
<1>. DEFINE n == Len(bytes)
            at(c) == CHOOSE k \in 1 .. n : c = Slot(k)
            cells == [c \in {Slot(k) : k \in 1 .. n} |-> bytes[at(c)]]
<1>1. Pushed(bytes) = Overlay(cells) /\ PushedCells(n) = DOMAIN cells
  BY DEF Pushed, PushedCells, Slot
<1>2. \A k \in 1 .. n : k \in 1 .. 3 /\ bytes[k] \in Byte
  BY ElementOfSeq
<1>3. ASSUME NEW k \in 1 .. n
      PROVE  Slot(k) \in DOMAIN cells /\ cells[Slot(k)] = bytes[k]
  <2>1. at(Slot(k)) \in 1 .. n /\ Slot(k) = Slot(at(Slot(k)))
    OBVIOUS
  <2>2. at(Slot(k)) = k
    BY <1>2, <2>1, Slots
  <2>. QED
    BY <2>2
<1>4. \A c \in DOMAIN cells : \E k \in 1 .. n : c = Slot(k)
  OBVIOUS
<1>. HIDE DEF cells
<1>5. \A c \in DOMAIN cells : MemCell(c) /\ cells[c] \in Byte
  BY <1>2, <1>3, <1>4, Slots
<1>6. BusInv
  BY Typed
<1>7. \A c \in DOMAIN Pushed(bytes) : MemCell(c) /\ Pushed(bytes)[c] \in Byte
  BY <1>1, <1>5, <1>6, OverlayKeepsTypes
<1>8. \A k \in 1 .. n : Slot(k) \in DOMAIN Pushed(bytes) /\ Pushed(bytes)[Slot(k)] = bytes[k]
  BY <1>1, <1>3 DEF Overlay
<1>9. \A c : c \notin PushedCells(n) => /\ c \in DOMAIN Pushed(bytes) <=> c \in DOMAIN mem
                                        /\ c \in DOMAIN mem => Pushed(bytes)[c] = mem[c]
  BY <1>1 DEF Overlay
<1>. QED
  BY <1>7, <1>8, <1>9

\* A push, of a frame or of something else.
LEMMA PushTypes ==
  ASSUME CpuTypes, NEW bytes \in Seq(Byte), Len(bytes) \in 1 .. 3,
         NEW newFrames \in SUBSET Frame, Push(bytes, newFrames)
  PROVE  /\ \A c \in DOMAIN mem' : MemCell(c) /\ mem'[c] \in Byte
         /\ reg' \in Registers
         /\ frames' \subseteq Frame
<1>1. Down(Len(bytes)) \in Byte
  <2>1. Len(bytes) \in Int
    OBVIOUS
  <2>. QED
    BY <2>1, RegisterTypes
<1>2. frames \subseteq Frame
  BY DEF CpuTypes, TypeOK
<1>. QED
  BY <1>1, <1>2, PushedBytes, RegisterTypes DEF Push, Surviving

-----------------------------------------------------------------------------
(* Types, action by action.                                                *)

MemoryTypes == /\ \A c \in DOMAIN mem : MemCell(c) /\ mem[c] \in Byte
               /\ pads \in [PADS -> Pad]

ProgramTypes == /\ pc \in Word /\ reg \in Registers /\ p \in SUBSET Flags
                /\ cycles \in 0 .. 8
                /\ frames \subseteq Frame

LEMMA Held ==
  ASSUME CpuTypes
  PROVE  MemoryTypes /\ reg \in Registers /\ p \in SUBSET Flags /\ frames \subseteq Frame
BY DEF CpuTypes, TypeOK, BusTypeOK, MemoryTypes, MemCell, Registers

\* What the actions have in common.
LEMMA CommonTypes ==
  ASSUME CpuTypes
  PROVE  /\ Decodable /\ GoesOn => pc' \in Word /\ cycles' \in 0 .. 8
         /\ NoStore /\ pads' \in [PADS -> Pad] => MemoryTypes' /\ frames' \subseteq Frame
         /\ \A a : Reads(a) => pads' \in [PADS -> Pad]
         /\ UNCHANGED pads => pads' \in [PADS -> Pad]
         /\ \A before \in [PADS -> Pad], a \in Word, v \in Byte :
              Stores(before, a, v) => MemoryTypes' /\ frames' \subseteq Frame
<1>1. BusInv /\ MemoryTypes /\ frames \subseteq Frame
  BY Typed, Held
<1>2. Decodable /\ GoesOn => pc' \in Word /\ cycles' \in 0 .. 8
  BY EntryTypes DEF GoesOn
<1>3. NoStore /\ pads' \in [PADS -> Pad] => MemoryTypes' /\ frames' \subseteq Frame
  BY <1>1 DEF NoStore, MemoryTypes
<1>4. \A a : Reads(a) => pads' \in [PADS -> Pad]
  BY <1>1, ReadsAreBytes DEF Reads
<1>5. UNCHANGED pads => pads' \in [PADS -> Pad]
  BY <1>1 DEF MemoryTypes
<1>6. ASSUME NEW before \in [PADS -> Pad], NEW a \in Word, NEW v \in Byte, Stores(before, a, v)
      PROVE  MemoryTypes' /\ frames' \subseteq Frame
  BY <1>1, <1>6, WritesKeepTypes DEF Stores, MemoryTypes, Surviving
<1>. QED
  BY <1>2, <1>3, <1>4, <1>5, <1>6

\* Those that read an operand into a register or the flags.
LEMMA OperandTypes ==
  ASSUME CpuTypes, Load \/ Arithmetic \/ Logical \/ Test
  PROVE  ProgramTypes' /\ MemoryTypes'
<1>1. Decodable /\ GoesOn /\ Reads(ArgAddress) /\ NoStore
  BY DEF Load, Arithmetic, Logical, Test, Executes
<1>2. MemoryTypes' /\ pc' \in Word /\ cycles' \in 0 .. 8 /\ frames' \subseteq Frame
  BY <1>1, CommonTypes
<1>3. /\ reg \in Registers /\ p \in SUBSET Flags
      /\ \A r \in {"a", "x", "y", "s"}, v \in Byte : [reg EXCEPT ![r] = v] \in Registers
      /\ ReadValues(ArgAddress) \subseteq Byte
      /\ reg.a \in Byte /\ reg.x \in Byte /\ reg.y \in Byte
      /\ \A v : ZeroAndNeg(p, v) \in SUBSET Flags
  BY Held, Typed, RegisterTypes, ReadsAreBytes, StatusTypes
<1>4. reg' \in Registers /\ p' \in SUBSET Flags
  <2>1. CASE Load
    <3>1. Target[Entry.instr] \in {"a", "x", "y", "s"}
      BY <2>1 DEF Load, Executes, Target
    <3>. HIDE DEF Entry
    <3>. QED
      BY <1>3, <2>1, <3>1 DEF Load
  <2>2. CASE Arithmetic
    <3>1. PICK v \in ReadValues(ArgAddress) :
            \/ /\ reg' = [reg EXCEPT !.a = AddWithCarry(reg.a, v, p).val]
               /\ p' = AddWithCarry(reg.a, v, p).p
            \/ /\ reg' = [reg EXCEPT !.a = SubtractWithCarry(reg.a, v, p).val]
               /\ p' = SubtractWithCarry(reg.a, v, p).p
      BY <2>2 DEF Arithmetic
    <3>. QED
      BY <1>3, <3>1, AluTypes
  <2>3. CASE Logical
    <3>1. PICK v \in ReadValues(ArgAddress) :
            /\ reg' = [reg EXCEPT !.a = Logic(Entry.instr, reg.a, v)]
            /\ p' = ZeroAndNeg(p, Logic(Entry.instr, reg.a, v))
      BY <2>3 DEF Logical
    <3>2. Entry.instr \in {"AND", "ORA", "EOR"}
      BY <2>3 DEF Logical, Executes
    <3>3. Logic(Entry.instr, reg.a, v) \in Byte
      BY <1>3, <3>2, AluTypes
    <3>. QED
      BY <1>3, <3>1, <3>3
  <2>4. CASE Test
    <3>1. PICK v \in ReadValues(ArgAddress) :
            \/ p' = BitTest(reg.a, v, p)
            \/ /\ Entry.instr # "BIT"
               /\ p' = Compare(reg[Target[Entry.instr]], v, p)
      BY <2>4 DEF Test
    <3>2. Entry.instr # "BIT" => reg[Target[Entry.instr]] \in Byte
      BY <1>3, <2>4 DEF Test, Executes, Target
    <3>3. reg' = reg
      BY <2>4 DEF Test
    <3>. QED
      BY <1>3, <3>1, <3>2, <3>3, AluTypes
  <2>. QED
    BY <2>1, <2>2, <2>3, <2>4
<1>. QED
  BY <1>2, <1>4 DEF ProgramTypes

\* Those that write one.
LEMMA StoreTypes ==
  ASSUME CpuTypes, Store \/ ModifyMemory
  PROVE  ProgramTypes' /\ MemoryTypes'
<1>1. Decodable /\ GoesOn /\ UNCHANGED reg
  BY DEF Store, ModifyMemory, Executes
<1>2. pc' \in Word /\ cycles' \in 0 .. 8 /\ reg' \in Registers
  BY <1>1, CommonTypes, Held
<1>3. ArgAddress \in Word /\ pads \in [PADS -> Pad]
  BY AddressTypes, Held DEF MemoryTypes
<1>4. CASE Store
  <2>1. reg[Target[Entry.instr]] \in Byte
    BY <1>4, Typed DEF Store, Executes, Target
  <2>2. Stores(pads, ArgAddress, reg[Target[Entry.instr]]) /\ p' = p
    BY <1>4 DEF Store
  <2>. QED
    BY <1>2, <1>3, <2>1, <2>2, CommonTypes, Held DEF ProgramTypes
<1>5. CASE ModifyMemory
  <2>. DEFINE count(v) == (IF Entry.instr = "INC" THEN v + 1 ELSE v - 1) % BYTE
              result(v) == IF Entry.instr \in {"INC", "DEC"}
                           THEN [val |-> count(v), p |-> ZeroAndNeg(p, count(v))]
                           ELSE Shift(Entry.instr, v, p)
  <2>1. PICK v \in ReadValues(ArgAddress) :
          /\ Stores(PadsAfterRead(ArgAddress), ArgAddress, result(v).val)
          /\ p' = result(v).p
    BY <1>5 DEF ModifyMemory
  <2>2. v \in Byte /\ PadsAfterRead(ArgAddress) \in [PADS -> Pad]
    BY Typed, ReadsAreBytes
  <2>3. count(v) \in Byte
    <3>1. v + 1 \in Int /\ v - 1 \in Int
      BY <2>2, Typed
    <3>. QED
      BY <3>1, Bytes
  <2>4. p \in SUBSET Flags /\ ZeroAndNeg(p, count(v)) \in SUBSET Flags
    BY Held, StatusTypes
  <2>5. Shift(Entry.instr, v, p).val \in Byte /\ Shift(Entry.instr, v, p).p \in SUBSET Flags
    BY <2>2, <2>4, AluTypes
  <2>. HIDE DEF count
  <2>6. result(v).val \in Byte /\ result(v).p \in SUBSET Flags
    BY <2>3, <2>4, <2>5
  <2>. HIDE DEF result
  <2>. QED
    BY <1>2, <1>3, <2>1, <2>2, <2>6, CommonTypes DEF ProgramTypes
<1>. QED
  BY <1>4, <1>5

\* Those that stay within the registers, and the ones that pull.
LEMMA InnerTypes ==
  ASSUME CpuTypes,
         \/ ModifyAccumulator \/ CountRegister \/ Transfer \/ ChangeFlag \/ Idle
         \/ PullAccumulator \/ PullStatus
  PROVE  ProgramTypes' /\ MemoryTypes'
<1>1. Decodable /\ GoesOn /\ NoStore /\ UNCHANGED pads
  BY DEF ModifyAccumulator, CountRegister, Transfer, ChangeFlag, Idle, PullAccumulator, PullStatus,
         Executes
<1>2. MemoryTypes' /\ pc' \in Word /\ cycles' \in 0 .. 8 /\ frames' \subseteq Frame
  BY <1>1, CommonTypes
<1>3. /\ reg \in Registers /\ p \in SUBSET Flags
      /\ \A r \in {"a", "x", "y", "s"}, v \in Byte : [reg EXCEPT ![r] = v] \in Registers
      /\ \A s, a \in Byte : [reg EXCEPT !.s = s, !.a = a] \in Registers
      /\ \A r \in {"a", "x", "y", "s"} : reg[r] \in Byte
      /\ \A v : ZeroAndNeg(p, v) \in SUBSET Flags
      /\ Up(1) \in Byte /\ Popped(1) \in Byte
  <2>1. Up(1) \in Byte /\ Popped(1) \in Byte
    BY RegisterTypes
  <2>2. \A r \in {"a", "x", "y", "s"} : reg[r] \in Byte
    BY Typed
  <2>. QED
    BY <2>1, <2>2, Held, RegisterTypes, StatusTypes
<1>4. reg' \in Registers /\ p' \in SUBSET Flags
  <2>1. CASE ModifyAccumulator
    <3>1. /\ reg' = [reg EXCEPT !.a = Shift(Entry.instr, reg.a, p).val]
          /\ p' = Shift(Entry.instr, reg.a, p).p
      BY <2>1 DEF ModifyAccumulator
    <3>2. /\ Shift(Entry.instr, reg.a, p).val \in Byte
          /\ Shift(Entry.instr, reg.a, p).p \in SUBSET Flags
      BY <1>3, AluTypes
    <3>. QED
      BY <1>3, <3>1, <3>2
  <2>2. CASE CountRegister
    <3>1. Target[Entry.instr] \in {"a", "x", "y", "s"}
      BY <2>2 DEF CountRegister, Executes, Target
    <3>. DEFINE r == Target[Entry.instr]
    <3>2. PICK v : /\ v \in {(reg[r] + 1) % BYTE, (reg[r] - 1) % BYTE}
                   /\ reg' = [reg EXCEPT ![r] = v] /\ p' = ZeroAndNeg(p, v)
      BY <2>2 DEF CountRegister
    <3>. HIDE DEF r
    <3>3. r \in {"a", "x", "y", "s"}
      BY <3>1 DEF r
    <3>4. reg[r] + 1 \in Int /\ reg[r] - 1 \in Int
      <4>1. reg[r] \in Byte
        BY <1>3, <3>3
      <4>2. reg[r] \in Int
        BY <4>1, Typed
      <4>. QED
        BY <4>2
    <3>5. v \in Byte
      BY <3>2, <3>4, Bytes
    <3>. QED
      BY <1>3, <3>2, <3>3, <3>5
  <2>3. CASE Transfer
    <3>1. PICK from \in {"a", "x", "y", "s"}, to \in {"a", "x", "y", "s"} :
            Moves[Entry.instr] = <<from, to>>
      BY <2>3 DEF Transfer, Executes, Moves
    <3>2. /\ reg' = [reg EXCEPT ![to] = reg[from]]
          /\ p' \in {p, ZeroAndNeg(p, reg[from])}
      BY <2>3, <3>1 DEF Transfer
    <3>. QED
      BY <1>3, <3>2
  <2>4. CASE ChangeFlag
    <3>1. /\ \A i \in DOMAIN Raised : Raised[i] \in Flags
          /\ \A i \in DOMAIN Cleared : Cleared[i] \in Flags
      BY DEF Raised, Cleared, Flags, C, D, I, V
    <3>2. \E f \in Flags : p' = p \union {f} \/ p' = p \ {f}
      BY <2>4, <3>1 DEF ChangeFlag, Executes
    <3>3. reg' = reg
      BY <2>4 DEF ChangeFlag
    <3>. QED
      BY <1>3, <3>2, <3>3
  <2>5. CASE Idle
    BY <1>3, <2>5 DEF Idle
  <2>6. CASE PullAccumulator
    BY <1>3, <2>6 DEF PullAccumulator
  <2>7. CASE PullStatus
    <3>1. p' \in SUBSET Flags
      BY <2>7, BitsAreFlags DEF PullStatus, Flags, Expansion
    <3>. QED
      BY <1>3, <2>7, <3>1 DEF PullStatus
  <2>. QED
    BY <2>1, <2>2, <2>3, <2>4, <2>5, <2>6, <2>7
<1>. QED
  BY <1>2, <1>4 DEF ProgramTypes

\* Branches, jumps and returns.
LEMMA FlowTypes ==
  ASSUME CpuTypes, Branch \/ Jump \/ ReturnFromSubroutine \/ ReturnFromInterrupt
  PROVE  ProgramTypes' /\ MemoryTypes'
<1>1. Decodable /\ UNCHANGED mem /\ UNCHANGED pads
  BY DEF Branch, Jump, ReturnFromSubroutine, ReturnFromInterrupt, Executes, NoStore
<1>2. MemoryTypes' /\ frames' \subseteq Frame
  <2>1. frames' \subseteq frames
    BY DEF Branch, Jump, ReturnFromSubroutine, ReturnFromInterrupt, NoStore, Unwound
  <2>. QED
    BY <1>1, <2>1, Held DEF MemoryTypes
<1>3. /\ reg \in Registers /\ p \in SUBSET Flags
      /\ ArgAddress \in Word
      /\ CycleCount \in 0 .. 8
  BY <1>1, Held, AddressTypes, EntryTypes
<1>4. pc' \in Word /\ cycles' \in 0 .. 8 /\ reg' \in Registers /\ p' \in SUBSET Flags
  <2>1. CASE Branch
    <3>1. CASE Taken
      <4>1. CycleCount = 2
        BY <1>1, <2>1, EntryTypes DEF Branch, Executes
      <4>2. PageCross(ArgAddress, NextInstruction) \in 0 .. 1
        BY <1>1, EntryTypes
      <4>3. /\ cycles' = CycleCount + 1 + PageCross(ArgAddress, NextInstruction)
            /\ pc' = ArgAddress /\ reg' = reg /\ p' = p
        BY <2>1, <3>1 DEF Branch
      <4>. QED
        BY <1>3, <4>1, <4>2, <4>3
    <3>2. CASE ~Taken
      BY <1>1, <1>3, <2>1, <3>2, CommonTypes DEF Branch
    <3>. QED
      BY <3>1, <3>2
  <2>2. CASE Jump
    BY <1>3, <2>2 DEF Jump
  <2>3. CASE ReturnFromSubroutine
    <3>1. Popped(1) + BYTE * Popped(2) \in Word /\ Up(2) \in Byte
      <4>1. Popped(1) \in Byte /\ Popped(2) \in Byte /\ Up(2) \in Byte
        BY RegisterTypes
      <4>. QED
        BY <4>1, Bytes
    <3>2. pc' \in Word
      <4>1. Popped(1) + BYTE * Popped(2) \in Int
        BY <3>1, Typed
      <4>2. Popped(1) + BYTE * Popped(2) + 1 \in Int
        BY <4>1
      <4>. QED
        BY <2>3, <4>2, Bytes DEF ReturnFromSubroutine
    <3>3. reg' = [reg EXCEPT !.s = Up(2)]
      BY <2>3 DEF ReturnFromSubroutine
    <3>4. reg' \in Registers
      BY <3>1, <3>3, RegisterTypes
    <3>. QED
      BY <1>3, <2>3, <3>2, <3>4 DEF ReturnFromSubroutine
  <2>4. CASE ReturnFromInterrupt
    <3>1. Popped(2) + BYTE * Popped(3) \in Word /\ Up(3) \in Byte
      <4>1. Popped(2) \in Byte /\ Popped(3) \in Byte /\ Up(3) \in Byte
        BY RegisterTypes
      <4>. QED
        BY <4>1, Bytes
    <3>2. Bits(Popped(1)) \union {Expansion} \in SUBSET Flags
      BY BitsAreFlags DEF Flags, Expansion
    <3>3. reg' = [reg EXCEPT !.s = Up(3)]
      BY <2>4 DEF ReturnFromInterrupt
    <3>4. reg' \in Registers
      BY <3>1, <3>3, RegisterTypes
    <3>. QED
      BY <1>3, <2>4, <3>1, <3>2, <3>4 DEF ReturnFromInterrupt
  <2>. QED
    BY <2>1, <2>2, <2>3, <2>4
<1>. QED
  BY <1>2, <1>4 DEF ProgramTypes

\* What is pushed are bytes, and the frame one of the frames.
LEMMA InterruptTypes ==
  ASSUME CpuTypes, NEW vector, NEW returnTo \in Word, NEW breaks \in SUBSET Flags,
         HandleInterrupt(vector, returnTo, breaks)
  PROVE  /\ \A c \in DOMAIN mem' : MemCell(c) /\ mem'[c] \in Byte
         /\ pc' \in Word /\ reg' \in Registers /\ p' \in SUBSET Flags
         /\ frames' \subseteq Frame
<1>. DEFINE bytes == <<Upper(returnTo), Lower(returnTo),
                       ByteOf(p \union breaks \union {Expansion})>>
            frame == [kind |-> "interrupt", low |-> Down(3), high |-> reg.s, pc |-> returnTo,
                      p |-> p, reg |-> reg]
<1>1. bytes \in Seq(Byte) /\ Len(bytes) = 3
  <2>1. p \union breaks \union {Expansion} \in SUBSET Flags
    <3>1. p \in SUBSET Flags /\ Expansion \in Flags
      BY Typed DEF Flags, Expansion
    <3>. QED
      BY <3>1
  <2>2. Upper(returnTo) \in Byte /\ Lower(returnTo) \in Byte
    BY Bytes
  <2>3. ByteOf(p \union breaks \union {Expansion}) \in Byte
    BY <2>1, BitsOfByte
  <2>. QED
    BY <2>2, <2>3
<1>2. frame \in Frame
  <2>1. Down(3) \in Byte
    BY RegisterTypes
  <2>. QED
    BY <2>1, Typed, Held DEF Frame, Registers
<1>3. Push(bytes, {frame}) /\ p' = p \union {I} /\ pc' = GetDWord(vector, FALSE)
  BY DEF HandleInterrupt
<1>. HIDE DEF bytes, frame
<1>4. /\ \A c \in DOMAIN mem' : MemCell(c) /\ mem'[c] \in Byte
      /\ reg' \in Registers /\ frames' \subseteq Frame
  <2>1. {frame} \in SUBSET Frame /\ Len(bytes) \in 1 .. 3
    BY <1>1, <1>2
  <2>. QED
    BY <1>1, <1>3, <2>1, PushTypes
<1>5. p' \in SUBSET Flags
  BY <1>3, Typed DEF Flags, I
<1>6. pc' \in Word
  BY <1>3, Typed, WordsInMemory
<1>. QED
  BY <1>4, <1>5, <1>6

\* What JSR pushes.
LEMMA CallTypes ==
  ASSUME CpuTypes, Decodable
  PROVE  /\ ReturnMinus1 \in Word
         /\ <<Upper(ReturnMinus1), Lower(ReturnMinus1)>> \in Seq(Byte)
         /\ [kind |-> "call", low |-> Down(2), high |-> reg.s, pc |-> NextInstruction, p |-> p,
             reg |-> reg] \in Frame
<1>1. NextInstruction \in Word
  BY EntryTypes
<1>2. ReturnMinus1 \in Word
  <2>1. NextInstruction \in Int
    BY <1>1, Typed
  <2>2. NextInstruction - 1 \in Int
    BY <2>1
  <2>. QED
    BY <2>2, Bytes DEF ReturnMinus1
<1>3. Upper(ReturnMinus1) \in Byte /\ Lower(ReturnMinus1) \in Byte
  BY <1>2, Bytes
<1>4. Down(2) \in Byte /\ reg.s \in Byte /\ p \in SUBSET Flags /\ reg \in Registers
  BY RegisterTypes, Typed, Held
<1>. QED
  BY <1>1, <1>2, <1>3, <1>4 DEF Frame, Registers

\* Everything that pushes.
LEMMA StackTypes ==
  ASSUME CpuTypes,
         JumpToSubroutine \/ PushRegister \/ Break \/ HandleNmiEvent \/ HandleIrqEvent
  PROVE  ProgramTypes' /\ MemoryTypes'
<1>1. pads' \in [PADS -> Pad]
  <2>1. UNCHANGED pads
    BY DEF JumpToSubroutine, PushRegister, Break, HandleNmiEvent, HandleIrqEvent
  <2>. QED
    BY <2>1, CommonTypes
<1>2. p \in SUBSET Flags /\ frames \subseteq Frame /\ pc \in Word /\ reg \in Registers
  BY Held, Typed
<1>3. CASE JumpToSubroutine
  <2>. DEFINE bytes == <<Upper(ReturnMinus1), Lower(ReturnMinus1)>>
              frame == [kind |-> "call", low |-> Down(2), high |-> reg.s, pc |-> NextInstruction,
                        p |-> p, reg |-> reg]
  <2>1. /\ Decodable /\ Push(bytes, {frame}) /\ pc' = ArgAddress /\ cycles' = CycleCount
        /\ p' = p
    BY <1>3 DEF JumpToSubroutine, Executes
  <2>2. bytes \in Seq(Byte) /\ frame \in Frame /\ Len(bytes) \in 1 .. 3
    BY <2>1, CallTypes
  <2>. HIDE DEF bytes, frame
  <2>3. {frame} \in SUBSET Frame
    BY <2>2
  <2>4. /\ \A c \in DOMAIN mem' : MemCell(c) /\ mem'[c] \in Byte
        /\ reg' \in Registers /\ frames' \subseteq Frame
    BY <2>1, <2>2, <2>3, PushTypes
  <2>5. pc' \in Word /\ cycles' \in 0 .. 8
    BY <2>1, AddressTypes, EntryTypes
  <2>. QED
    BY <1>1, <1>2, <2>1, <2>4, <2>5 DEF ProgramTypes, MemoryTypes
<1>4. CASE PushRegister
  <2>. DEFINE byte == IF Entry.instr = "PHA" THEN reg.a ELSE ByteOf(p \union {B, Expansion})
  <2>1. Decodable /\ Push(<<byte>>, {}) /\ GoesOn /\ p' = p
    BY <1>4 DEF PushRegister, Executes
  <2>2. byte \in Byte
    <3>1. p \union {B, Expansion} \in SUBSET Flags
      BY <1>2 DEF Flags, B, Expansion
    <3>2. ByteOf(p \union {B, Expansion}) \in Byte
      BY <3>1, BitsOfByte
    <3>. QED
      BY <3>2, Typed
  <2>. HIDE DEF byte
  <2>3. <<byte>> \in Seq(Byte) /\ Len(<<byte>>) \in 1 .. 3 /\ {} \in SUBSET Frame
    BY <2>2
  <2>4. /\ \A c \in DOMAIN mem' : MemCell(c) /\ mem'[c] \in Byte
        /\ reg' \in Registers /\ frames' \subseteq Frame
    BY <2>1, <2>3, PushTypes
  <2>5. pc' \in Word /\ cycles' \in 0 .. 8
    BY <2>1, CommonTypes
  <2>. QED
    BY <1>1, <1>2, <2>1, <2>4, <2>5 DEF ProgramTypes, MemoryTypes
<1>5. CASE Break
  <2>1. /\ Decodable /\ HandleInterrupt(IRQ_VECTOR, NextInstruction, {B})
        /\ cycles' = CycleCount
    BY <1>5 DEF Break, Executes
  <2>2. NextInstruction \in Word /\ cycles' \in 0 .. 8
    BY <2>1, EntryTypes
  <2>3. {B} \in SUBSET Flags
    BY DEF Flags, B
  <2>. QED
    BY <1>1, <2>1, <2>2, <2>3, InterruptTypes DEF ProgramTypes, MemoryTypes
<1>6. CASE HandleNmiEvent
  <2>1. HandleInterrupt(NMI_VECTOR, pc, {}) /\ cycles' = 7
    BY <1>6 DEF HandleNmiEvent
  <2>2. {} \in SUBSET Flags /\ 7 \in 0 .. 8
    OBVIOUS
  <2>. QED
    BY <1>1, <1>2, <2>1, <2>2, InterruptTypes DEF ProgramTypes, MemoryTypes
<1>7. CASE HandleIrqEvent
  <2>1. cycles' = 7 /\ 7 \in 0 .. 8
    BY <1>7 DEF HandleIrqEvent
  <2>2. CASE HandleInterrupt(IRQ_VECTOR, pc, {})
    <3>1. {} \in SUBSET Flags
      OBVIOUS
    <3>. QED
      BY <1>1, <1>2, <2>1, <2>2, <3>1, InterruptTypes DEF ProgramTypes, MemoryTypes
  <2>3. CASE UNCHANGED <<pc, reg, p, mem, frames>>
    BY <1>1, <1>2, <2>1, <2>3, Held DEF ProgramTypes, MemoryTypes
  <2>. QED
    BY <1>7, <2>2, <2>3 DEF HandleIrqEvent
<1>. QED
  BY <1>3, <1>4, <1>5, <1>6, <1>7

-----------------------------------------------------------------------------
(* The types.                                                              *)

\* Bytes and words of memory after a step.
LEMMA MemoryIsBytes == BusInv => \A a, wrap : GetDWord(a, wrap) \in Word
BY WordsInMemory

LEMMA TypedAgain ==
  ASSUME MemoryTypes', cart' \in Cartridges,
         pc' \in Word, reg' \in Registers, p' \in SUBSET Flags, frames' \subseteq Frame,
         cycles' \in 0 .. MaxCycles, events' \in 0 .. MaxEvents,
         nmi' \in BOOLEAN, irq' \in BOOLEAN, faulted' \in BOOLEAN
  PROVE  CpuTypes'
<1>1. BusTypeOK'
  BY CartridgeAssumption DEF BusTypeOK, MemoryTypes, MemCell
<1>. QED
  BY <1>1 DEF CpuTypes, TypeOK, Registers

LEMMA InitTypes == Init => CpuTypes
<1>. SUFFICES ASSUME Init
              PROVE  CpuTypes
  OBVIOUS
<1>1. cart \in Cartridges /\ BusTypeOK
  <2>1. PadAfterPowerOn \in Pad
    BY DEF PadAfterPowerOn, Pad, PadIndexCap
  <2>2. cart \in Cartridges /\ mem = NoCells /\ pads = [a \in PADS |-> PadAfterPowerOn]
    BY DEF Init, BusInit
  <2>. QED
    BY <2>1, <2>2, CartridgeAssumption DEF BusTypeOK, NoCells
<1>2. pc \in Word
  BY <1>1, MemoryIsBytes DEF Init, BusInv
<1>3. reg \in Registers /\ p \in SUBSET Flags
  BY DEF Init, Registers, Byte, BYTE, StatusAfterPowerOn, Flags, I, B, Expansion
<1>4. cycles \in 0 .. MaxCycles /\ events \in 0 .. MaxEvents
  BY <1>1, CycleAssumption, EventAssumption DEF Init
<1>. QED
  BY <1>1, <1>2, <1>3, <1>4 DEF CpuTypes, TypeOK, Init, Registers

\* The requests, and what comes from outside.
LEMMA OutsideTypes ==
  ASSUME CpuTypes, RequestInterrupt \/ PressButton \/ PowerCycle
  PROVE  CpuTypes'
<1>1. /\ TypeOK /\ cart \in Cartridges
      /\ MemoryTypes /\ reg \in Registers /\ p \in SUBSET Flags /\ frames \subseteq Frame
      /\ pc \in Word /\ cycles \in 0 .. MaxCycles
      /\ nmi \in BOOLEAN /\ irq \in BOOLEAN /\ faulted \in BOOLEAN
  BY Held, Typed DEF CpuTypes, TypeOK
<1>2. events' \in 0 .. MaxEvents
  <2>1. events' = events + 1 /\ events < cart.budget
    BY DEF RequestInterrupt, PressButton, PowerCycle, Event
  <2>2. /\ events \in 0 .. MaxEvents /\ cart.budget \in 0 .. MaxEvents
        /\ MaxEvents \in Nat
    BY <1>1, EventAssumption DEF TypeOK
  <2>. QED
    BY <2>1, <2>2
<1>3. CASE RequestInterrupt
  <2>1. UNCHANGED <<busVars, cpuVars, faulted, frames>> /\ nmi' \in BOOLEAN /\ irq' \in BOOLEAN
    BY <1>1, <1>3 DEF RequestInterrupt
  <2>2. MemoryTypes'
    BY <1>1, <2>1 DEF MemoryTypes, busVars
  <2>. QED
    BY <1>1, <1>2, <2>1, <2>2, TypedAgain DEF busVars, cpuVars
<1>4. CASE PressButton
  <2>1. UNCHANGED <<cpuVars, requests, faulted, frames, mem, cart>>
    BY <1>4 DEF PressButton, SetKey
  <2>2. PICK a \in PADS, button \in Buttons : SetKey(a, button, button \notin pads[a].pressed)
    BY <1>4 DEF PressButton
  <2>. DEFINE pressed == IF button \notin pads[a].pressed THEN pads[a].pressed \union {button}
                         ELSE pads[a].pressed \ {button}
  <2>3. pads[a] \in Pad
    BY <1>1 DEF MemoryTypes
  <2>4. pressed \in SUBSET (0 .. 7)
    BY <2>3, ButtonAssumption DEF Pad
  <2>5. pads' = [pads EXCEPT ![a] = [pads[a] EXCEPT !.pressed = pressed]]
    BY <2>2 DEF SetKey
  <2>. HIDE DEF pressed
  <2>6. [pads[a] EXCEPT !.pressed = pressed] \in Pad
    BY <2>3, <2>4, PadTypes
  <2>7. MemoryTypes'
    BY <1>1, <2>1, <2>5, <2>6 DEF MemoryTypes
  <2>. QED
    BY <1>1, <1>2, <2>1, <2>7, TypedAgain DEF cpuVars, requests
<1>5. CASE PowerCycle
  <2>1. /\ \E cartridge \in Cartridges : LoadCartridge(cartridge)
        /\ pc' = GetDWord(RESET_VECTOR, FALSE)'
        /\ p' = StatusAfterPowerOn
        /\ reg' = [reg EXCEPT !.a = 0, !.x = 0, !.y = 253]
        /\ cycles' = 0 /\ frames' = {}
        /\ UNCHANGED <<requests, faulted>>
    BY <1>5 DEF PowerCycle
  <2>2. cart' \in Cartridges /\ MemoryTypes'
    BY <1>1, <2>1 DEF LoadCartridge, MemoryTypes
  <2>3. BusInv'
    BY <2>2, CartridgeAssumption DEF BusInv, BusTypeOK, MemoryTypes, MemCell
  <2>4. pc' \in Word
    <3>1. (\A a, wrap : GetDWord(a, wrap) \in Word)'
      BY <2>3, MemoryIsBytes, PTL
    <3>. QED
      BY <2>1, <3>1
  <2>5. reg' \in Registers
    <3>1. 0 \in Byte /\ 253 \in Byte
      BY DEF Byte, BYTE
    <3>. QED
      BY <2>1, <3>1, RegisterTypes
  <2>6. p' \in SUBSET Flags
    BY <2>1 DEF StatusAfterPowerOn, Flags, I, B, Expansion
  <2>7. cycles' \in 0 .. MaxCycles
    BY <2>1, CycleAssumption
  <2>. QED
    BY <1>1, <1>2, <2>1, <2>2, <2>4, <2>5, <2>6, <2>7, TypedAgain DEF requests
<1>. QED
  BY <1>3, <1>4, <1>5

\* No step leaves the types.
LEMMA StepTypes == CpuTypes /\ [Next]_vars => CpuTypes'
<1>. SUFFICES ASSUME CpuTypes, [Next]_vars
              PROVE  CpuTypes'
  OBVIOUS
<1>1. /\ TypeOK /\ cart \in Cartridges
      /\ MemoryTypes /\ reg \in Registers /\ p \in SUBSET Flags /\ frames \subseteq Frame
      /\ pc \in Word /\ cycles \in 0 .. MaxCycles /\ events \in 0 .. MaxEvents
      /\ nmi \in BOOLEAN /\ irq \in BOOLEAN /\ faulted \in BOOLEAN
  BY Held, Typed DEF CpuTypes, TypeOK
<1>2. 0 .. 8 \subseteq 0 .. MaxCycles
  BY CycleAssumption
<1>3. CASE ProgramTypes' /\ MemoryTypes' /\ UNCHANGED <<cart, faulted, events>>
           /\ nmi' \in BOOLEAN /\ irq' \in BOOLEAN
  BY <1>1, <1>2, <1>3, TypedAgain DEF ProgramTypes
<1>4. CASE Instruction
  <2>1. ProgramTypes' /\ MemoryTypes'
    BY <1>4, OperandTypes, StoreTypes, InnerTypes, FlowTypes, StackTypes DEF Instruction
  <2>2. UNCHANGED elsewhere
    BY <1>4 DEF Instruction, Load, Arithmetic, Logical, Test, Store, ModifyAccumulator,
         ModifyMemory, CountRegister, Transfer, ChangeFlag, Idle, Branch, Jump, JumpToSubroutine,
         ReturnFromSubroutine, ReturnFromInterrupt, PushRegister, PullAccumulator, PullStatus, Break
  <2>. QED
    BY <1>1, <1>3, <2>1, <2>2 DEF elsewhere, requests
<1>5. CASE HandleNmiEvent \/ HandleIrqEvent
  BY <1>1, <1>3, <1>5, StackTypes DEF HandleNmiEvent, HandleIrqEvent
<1>6. CASE FailToDecode
  <2>1. pc' \in Word
    BY <1>6, AddressTypes DEF FailToDecode
  <2>2. UNCHANGED <<busVars, reg, p, requests, faulted, frames, events>> /\ cycles' = 0
    BY <1>6 DEF FailToDecode
  <2>3. MemoryTypes'
    BY <1>1, <2>2 DEF MemoryTypes, busVars
  <2>. QED
    BY <1>1, <1>2, <2>1, <2>2, <2>3, CycleAssumption, TypedAgain DEF busVars, requests
<1>7. CASE Fault \/ UNCHANGED vars
  <2>1. /\ UNCHANGED <<busVars, cpuVars, requests, frames, events>>
        /\ faulted' \in BOOLEAN
    BY <1>1, <1>7 DEF Fault, vars
  <2>2. MemoryTypes'
    BY <1>1, <2>1 DEF MemoryTypes, busVars
  <2>. QED
    BY <1>1, <2>1, <2>2, TypedAgain DEF busVars, cpuVars, requests
<1>8. CASE RequestInterrupt \/ PressButton \/ PowerCycle
  BY <1>8, OutsideTypes
<1>. QED
  BY <1>4, <1>5, <1>6, <1>7, <1>8 DEF Next

\* Registers and memory hold bytes, PC is a word, and a frame is a frame: also
\* where PC, an index, a branch or the stack goes round (Cpu::Step, Dma.cpp).
THEOREM TypesHold == Spec => []TypeOK
<1>1. CpuTypes => TypeOK
  BY DEF CpuTypes
<1>. QED
  BY <1>1, InitTypes, StepTypes, PTL DEF Spec

-----------------------------------------------------------------------------
(* The frames.                                                             *)

\* A frame's bytes are in memory, as the call or the interrupt has pushed them.
At(f, k) == Seek(StackCell((f.low + k) % BYTE))

CallIntact(f) ==
  /\ f.high = (f.low + 2) % BYTE
  /\ At(f, 1) = Lower((f.pc - 1) % WORD) /\ At(f, 2) = Upper((f.pc - 1) % WORD)

InterruptIntact(f) ==
  /\ f.high = (f.low + 3) % BYTE
  /\ Bits(At(f, 1)) \ {B} = (f.p \ {B}) \union {Expansion}
  /\ At(f, 2) = Lower(f.pc) /\ At(f, 3) = Upper(f.pc)

FrameIntact(f) == /\ f.kind = "call" => CallIntact(f)
                  /\ f.kind = "interrupt" => InterruptIntact(f)

FramesIntact == \A f \in frames : FrameIntact(f)

CpuInv == CpuTypes /\ FramesIntact

\* A cell of the stack is its own first mirror.
LEMMA StackCells ==
  ASSUME NEW b \in Byte
  PROVE  Cell(StackCell(b)) = StackCell(b) /\ (Cell(StackCell(b)) = StackCell(b))'
<1>. DEFINE c == StackCell(b)
<1>1. c \in 256 .. 511
  BY DEF StackCell, Byte, BYTE
<1>. HIDE DEF c
<1>2. c < RAM_END /\ c % RAM_SIZE = c
  BY <1>1 DEF RAM_END, RAM_SIZE
<1>3. c \notin PRG_ROM
  <2>. SUFFICES ASSUME c \in PRG_ROM
                PROVE  FALSE
    OBVIOUS
  <2>1. c >= PRG_START
    BY <1>1, ConstantInts DEF PRG_ROM
  <2>. QED
    BY <1>1, <2>1, ConstantInts
<1>4. Cell(c) = c
  BY <1>2, <1>3 DEF Cell
<1>5. Cell(c)' = c
  BY <1>2, <1>3 DEF Cell
<1>. QED
  BY <1>4, <1>5 DEF c

\* What the stack shows after a step that keeps the cartridge.
LEMMA StackShows ==
  ASSUME NEW b \in Byte, UNCHANGED cart
  PROVE  /\ StackCell(b) \in DOMAIN mem' => Seek(StackCell(b))' = mem'[StackCell(b)]
         /\ (/\ StackCell(b) \in DOMAIN mem' <=> StackCell(b) \in DOMAIN mem
             /\ StackCell(b) \in DOMAIN mem => mem'[StackCell(b)] = mem[StackCell(b)])
            => Seek(StackCell(b))' = Seek(StackCell(b))
<1>. DEFINE c == StackCell(b)
<1>1. Cell(c) = c /\ Cell(c)' = c
  BY StackCells
<1>. HIDE DEF c
<1>2. c \in DOMAIN mem' => Seek(c)' = mem'[c]
  BY <1>1 DEF Seek
<1>3. (c \in DOMAIN mem' <=> c \in DOMAIN mem) /\ (c \in DOMAIN mem => mem'[c] = mem[c])
        => Seek(c)' = Seek(c)
  BY <1>1 DEF Seek
<1>. QED
  BY <1>2, <1>3 DEF c

\* The frames whose cells a step leaves alone stay as they are.
LEMMA FramesSurvive ==
  ASSUME CpuInv, UNCHANGED cart, NEW cells,
         \A c : c \notin cells => /\ c \in DOMAIN mem' <=> c \in DOMAIN mem
                                  /\ c \in DOMAIN mem => mem'[c] = mem[c]
  PROVE  \A f \in Surviving(cells) : FrameIntact(f)'
<1>. SUFFICES ASSUME NEW f \in Surviving(cells)
              PROVE  FrameIntact(f)'
  OBVIOUS
<1>1. /\ f \in frames /\ FrameIntact(f) /\ f \in Frame
      /\ FrameCells(f) \intersect cells = {}
  BY DEF Surviving, CpuInv, FramesIntact, CpuTypes, TypeOK
<1>2. ASSUME NEW k \in 1 .. IF f.kind = "call" THEN 2 ELSE 3
      PROVE  At(f, k)' = At(f, k)
  <2>. DEFINE b == (f.low + k) % BYTE
  <2>1. b \in Byte
    <3>1. f.low + k \in Int
      BY <1>1 DEF Frame, Byte, BYTE
    <3>. QED
      BY <3>1, Bytes
  <2>2. StackCell(b) \in FrameCells(f)
    BY DEF FrameCells
  <2>. DEFINE c == StackCell(b)
  <2>3. c \notin cells
    BY <1>1, <2>2
  <2>4. /\ c \in DOMAIN mem' <=> c \in DOMAIN mem
        /\ c \in DOMAIN mem => mem'[c] = mem[c]
    <3>. HIDE DEF c
    <3>. QED
      BY <2>3
  <2>. HIDE DEF b
  <2>5. Seek(StackCell(b))' = Seek(StackCell(b))
    BY <2>1, <2>4, StackShows
  <2>. QED
    BY <2>5 DEF At, b
<1>3. CASE f.kind = "call"
  <2>1. At(f, 1)' = At(f, 1) /\ At(f, 2)' = At(f, 2)
    BY <1>2, <1>3
  <2>2. CallIntact(f)
    BY <1>1, <1>3 DEF FrameIntact
  <2>. HIDE DEF At
  <2>3. CallIntact(f)'
    BY <2>1, <2>2 DEF CallIntact
  <2>. QED
    BY <1>3, <2>3 DEF FrameIntact
<1>4. CASE f.kind = "interrupt"
  <2>1. At(f, 1)' = At(f, 1) /\ At(f, 2)' = At(f, 2) /\ At(f, 3)' = At(f, 3)
    BY <1>2, <1>4
  <2>2. InterruptIntact(f)
    BY <1>1, <1>4 DEF FrameIntact
  <2>. HIDE DEF At
  <2>3. InterruptIntact(f)'
    BY <2>1, <2>2 DEF InterruptIntact
  <2>. QED
    BY <1>4, <2>3 DEF FrameIntact
<1>. QED
  BY <1>1, <1>3, <1>4 DEF Frame

\* Going down n and up again.
LEMMA Turns ==
  ASSUME NEW s \in Byte
  PROVE  /\ \A n \in 1 .. 3 : (((s - n) % BYTE) + n) % BYTE = s
         /\ \A n \in 1 .. 3 : \A k \in 1 .. n :
              (((s - n) % BYTE) + k) % BYTE = (s - (n - k + 1) + 1) % BYTE
<1>1. s \in 0 .. 255
  BY DEF Byte, BYTE
<1>2. ASSUME NEW n \in 1 .. 3, NEW k \in 1 .. n
      PROVE  (((s - n) % BYTE) + k) % BYTE = (s - (n - k + 1) + 1) % BYTE
  <2>. DEFINE down == (s - n) % BYTE
  <2>1. /\ s - n \in -256 .. 511
        /\ s - (n - k + 1) + 1 \in -256 .. 511
        /\ s - (n - k + 1) + 1 = s - n + k
    BY <1>1
  <2>2. down = IF s - n < 0 THEN s - n + 256 ELSE s - n
    BY <1>1, <2>1, Around
  <2>. HIDE DEF down
  <2>3. down + k \in -256 .. 511
    BY <1>1, <2>2
  <2>4. /\ (down + k) % BYTE = IF down + k < 256 THEN down + k ELSE down + k - 256
        /\ (s - n + k) % BYTE = IF s - n + k < 0 THEN s - n + k + 256 ELSE s - n + k
    BY <1>1, <2>1, <2>2, <2>3, Around
  <2>5. (down + k) % BYTE = (s - n + k) % BYTE
    BY <1>1, <2>2, <2>4
  <2>. QED
    BY <2>1, <2>5 DEF down
<1>3. ASSUME NEW n \in 1 .. 3
      PROVE  (((s - n) % BYTE) + n) % BYTE = s
  <2>1. (((s - n) % BYTE) + n) % BYTE = (s - (n - n + 1) + 1) % BYTE
    BY <1>2
  <2>2. s - (n - n + 1) + 1 = s /\ s % BYTE = s
    BY <1>1 DEF BYTE
  <2>. QED
    BY <2>1, <2>2
<1>. QED
  BY <1>2, <1>3

\* After a push, the k-th byte that can be popped is the k-th from the last.
LEMMA PushShows ==
  ASSUME CpuInv, UNCHANGED cart, NEW bytes \in Seq(Byte), Len(bytes) \in 1 .. 3,
         NEW newFrames, Push(bytes, newFrames)
  PROVE  /\ \A low : \A k \in 1 .. Len(bytes) :
              low = Down(Len(bytes)) =>
                Seek(StackCell((low + k) % BYTE))' = bytes[Len(bytes) - k + 1]
         /\ \A low : low = Down(Len(bytes)) => (low + Len(bytes)) % BYTE = reg.s
         /\ \A f \in frames' \ newFrames : FrameIntact(f)'
<1>. DEFINE n == Len(bytes)
<1>1. CpuTypes /\ reg.s \in Byte /\ n \in 1 .. 3 /\ mem' = Pushed(bytes)
  BY Typed DEF CpuInv, Push
<1>2. ASSUME NEW k \in 1 .. n, NEW low, low = Down(n)
      PROVE  Seek(StackCell((low + k) % BYTE))' = bytes[n - k + 1]
  <2>. DEFINE b == (low + k) % BYTE
  <2>1. StackCell(b) = Slot(n - k + 1) /\ n - k + 1 \in 1 .. n
    <3>1. b = (reg.s - (n - k + 1) + 1) % BYTE
      BY <1>1, <1>2, Turns DEF Down
    <3>. QED
      BY <1>1, <3>1 DEF Slot
  <2>2. b \in Byte
    <3>1. Down(n) \in Byte
      <4>1. n \in Int
        BY <1>1
      <4>. QED
        BY <1>1, <4>1, RegisterTypes, Zenon
    <3>2. low + k \in Int
      BY <1>1, <1>2, <3>1, Typed
    <3>. QED
      BY <3>2, Bytes
  <2>. DEFINE c == StackCell(b)
  <2>3. c \in DOMAIN mem' /\ mem'[c] = bytes[n - k + 1]
    BY <1>1, <2>1, PushedBytes
  <2>. HIDE DEF b
  <2>4. Seek(StackCell(b))' = mem'[c]
    BY <2>2, <2>3, StackShows
  <2>. QED
    BY <2>3, <2>4 DEF b
<1>3. \A low : low = Down(n) => (low + n) % BYTE = reg.s
  BY <1>1, Turns DEF Down
<1>4. ASSUME NEW f \in frames' \ newFrames
      PROVE  FrameIntact(f)'
  <2>1. f \in Surviving(PushedCells(n))
    BY DEF Push
  <2>2. \A c : c \notin PushedCells(n) => /\ c \in DOMAIN mem' <=> c \in DOMAIN mem
                                          /\ c \in DOMAIN mem => mem'[c] = mem[c]
    BY <1>1, PushedBytes
  <2>. QED
    BY <2>1, <2>2, FramesSurvive
<1>. QED
  BY <1>2, <1>3, <1>4

\* The frame of an interrupt is intact.
LEMMA InterruptFrames ==
  ASSUME CpuInv, UNCHANGED cart,
         NEW vector, NEW returnTo \in Word, NEW breaks \in SUBSET {B},
         HandleInterrupt(vector, returnTo, breaks)
  PROVE  FramesIntact'
<1>. DEFINE status == ByteOf(p \union breaks \union {Expansion})
            bytes == <<Upper(returnTo), Lower(returnTo), status>>
            frame == [kind |-> "interrupt", low |-> Down(3), high |-> reg.s, pc |-> returnTo,
                      p |-> p, reg |-> reg]
<1>1. CpuTypes /\ p \in SUBSET Flags
  BY Typed DEF CpuInv
<1>2. p \union breaks \union {Expansion} \in SUBSET Flags
  <2>1. Expansion \in Flags /\ B \in Flags
    BY DEF Expansion, B, Flags
  <2>. QED
    BY <1>1, <2>1
<1>3. status \in Byte /\ Bits(status) = p \union breaks \union {Expansion}
  BY <1>2, BitsOfByte
<1>. HIDE DEF status
<1>4. bytes \in Seq(Byte) /\ Len(bytes) = 3
      /\ bytes[1] = Upper(returnTo) /\ bytes[2] = Lower(returnTo) /\ bytes[3] = status
  <2>1. Upper(returnTo) \in Byte /\ Lower(returnTo) \in Byte
    BY Bytes
  <2>. QED
    BY <1>3, <2>1
<1>5. Push(bytes, {frame})
  BY DEF HandleInterrupt, status
<1>. HIDE DEF bytes
<1>6. /\ \A low : \A k \in 1 .. 3 : low = Down(3) =>
           Seek(StackCell((low + k) % BYTE))' = bytes[3 - k + 1]
      /\ \A low : low = Down(3) => (low + 3) % BYTE = reg.s
      /\ \A f \in frames' \ {frame} : FrameIntact(f)'
  <2>1. Len(bytes) \in 1 .. 3
    BY <1>4
  <2>. HIDE DEF frame
  <2>. QED
    BY <1>4, <1>5, <2>1, PushShows
<1>7. ASSUME NEW f, f = frame
      PROVE  FrameIntact(f)'
  <2>1. /\ f.kind = "interrupt" /\ f.low = Down(3) /\ f.high = reg.s /\ f.pc = returnTo
        /\ f.p = p
    BY <1>7
  <2>2. At(f, 1)' = status /\ At(f, 2)' = Lower(returnTo) /\ At(f, 3)' = Upper(returnTo)
    <3>1. /\ At(f, 1)' = bytes[3] /\ At(f, 2)' = bytes[2] /\ At(f, 3)' = bytes[1]
      BY <1>6, <2>1 DEF At
    <3>. QED
      BY <1>4, <3>1
  <2>3. f.high = (f.low + 3) % BYTE
    BY <1>6, <2>1
  <2>4. Bits(status) \ {B} = (f.p \ {B}) \union {Expansion}
    <3>1. Expansion # B
      BY DEF Expansion, B
    <3>. QED
      BY <1>3, <2>1, <3>1
  <2>. HIDE DEF At
  <2>. QED
    BY <2>1, <2>2, <2>3, <2>4 DEF FrameIntact, InterruptIntact
<1>. QED
  BY <1>6, <1>7 DEF FramesIntact

\* So is that of a call.
LEMMA CallFrames ==
  ASSUME CpuInv, JumpToSubroutine
  PROVE  FramesIntact'
<1>. DEFINE bytes == <<Upper(ReturnMinus1), Lower(ReturnMinus1)>>
            frame == [kind |-> "call", low |-> Down(2), high |-> reg.s, pc |-> NextInstruction,
                      p |-> p, reg |-> reg]
<1>1. CpuTypes /\ Decodable /\ UNCHANGED cart /\ Push(bytes, {frame})
  BY DEF CpuInv, JumpToSubroutine, Executes, elsewhere
<1>2. bytes \in Seq(Byte) /\ Len(bytes) = 2
      /\ bytes[1] = Upper(ReturnMinus1) /\ bytes[2] = Lower(ReturnMinus1)
  BY <1>1, CallTypes
<1>. HIDE DEF bytes
<1>3. /\ \A low : \A k \in 1 .. 2 : low = Down(2) =>
           Seek(StackCell((low + k) % BYTE))' = bytes[2 - k + 1]
      /\ \A low : low = Down(2) => (low + 2) % BYTE = reg.s
      /\ \A f \in frames' \ {frame} : FrameIntact(f)'
  <2>1. Len(bytes) \in 1 .. 3
    BY <1>2
  <2>. HIDE DEF frame
  <2>. QED
    BY <1>1, <1>2, <2>1, PushShows
<1>4. ASSUME NEW f, f = frame
      PROVE  FrameIntact(f)'
  <2>1. /\ f.kind = "call" /\ f.low = Down(2) /\ f.high = reg.s /\ f.pc = NextInstruction
    BY <1>4
  <2>2. (f.pc - 1) % WORD = ReturnMinus1
    BY <2>1 DEF ReturnMinus1
  <2>3. At(f, 1)' = bytes[2] /\ At(f, 2)' = bytes[1]
    BY <1>3, <2>1 DEF At
  <2>4. f.high = (f.low + 2) % BYTE
    BY <1>3, <2>1
  <2>. HIDE DEF At
  <2>5. At(f, 1)' = Lower((f.pc - 1) % WORD) /\ At(f, 2)' = Upper((f.pc - 1) % WORD)
    BY <1>2, <2>2, <2>3
  <2>. QED
    BY <2>1, <2>4, <2>5 DEF FrameIntact, CallIntact
<1>. QED
  BY <1>3, <1>4 DEF FramesIntact

\* An instruction that writes one byte, or none.
LEMMA FramesOutliveStores ==
  ASSUME CpuInv, UNCHANGED cart
  PROVE  /\ UNCHANGED mem /\ frames' \subseteq frames => FramesIntact'
         /\ \A before, a, v : Stores(before, a, v) => FramesIntact'
<1>1. CASE UNCHANGED mem /\ frames' \subseteq frames
  <2>1. frames' \subseteq Surviving({})
    BY <1>1 DEF Surviving
  <2>2. \A f \in Surviving({}) : FrameIntact(f)'
    BY <1>1, FramesSurvive
  <2>. QED
    BY <2>1, <2>2 DEF FramesIntact
<1>2. ASSUME NEW before, NEW a, NEW v, Stores(before, a, v), InMemory(a)
      PROVE  FramesIntact'
  <2>. DEFINE cells == {Cell(a)}
  <2>1. mem' = Overlay([c \in cells |-> v]) /\ frames' = Surviving(cells)
    BY <1>2 DEF Stores, MemAfterWrite
  <2>. HIDE DEF cells
  <2>2. \A c : c \notin cells => /\ c \in DOMAIN mem' <=> c \in DOMAIN mem
                                 /\ c \in DOMAIN mem => mem'[c] = mem[c]
    BY <2>1 DEF Overlay
  <2>3. \A f \in Surviving(cells) : FrameIntact(f)'
    BY <2>2, FramesSurvive
  <2>. QED
    BY <2>1, <2>3 DEF FramesIntact
<1>3. ASSUME NEW before, NEW a, NEW v, Stores(before, a, v), ~InMemory(a)
      PROVE  FramesIntact'
  <2>1. UNCHANGED mem /\ frames' \subseteq frames
    BY <1>3 DEF Stores, MemAfterWrite
  <2>. QED
    BY <1>1, <2>1
<1>. QED
  BY <1>1, <1>2, <1>3

\* A step leaves no frame behind that is not intact.
LEMMA StepFrames == CpuInv /\ [Next]_vars => FramesIntact'
<1>. SUFFICES ASSUME CpuInv, [Next]_vars
              PROVE  FramesIntact'
  OBVIOUS
<1>1. CpuTypes /\ pc \in Word
  BY Typed DEF CpuInv
<1>2. CASE UNCHANGED <<cart, mem>> /\ frames' \subseteq frames
  BY <1>2, FramesOutliveStores
<1>3. CASE Load \/ Arithmetic \/ Logical \/ Test \/ ModifyAccumulator \/ CountRegister \/ Transfer
           \/ ChangeFlag \/ Idle \/ PullAccumulator \/ PullStatus \/ Branch \/ Jump
  <2>1. UNCHANGED elsewhere /\ NoStore
    BY <1>3 DEF Load, Arithmetic, Logical, Test, ModifyAccumulator, CountRegister, Transfer,
         ChangeFlag, Idle, PullAccumulator, PullStatus, Branch, Jump
  <2>. QED
    BY <1>2, <2>1 DEF elsewhere, NoStore
<1>4. CASE Store \/ ModifyMemory
  <2>1. UNCHANGED cart /\ \E before, v : Stores(before, ArgAddress, v)
    BY <1>4 DEF Store, ModifyMemory, elsewhere
  <2>. QED
    BY <2>1, FramesOutliveStores
<1>5. CASE ReturnFromSubroutine \/ ReturnFromInterrupt
  BY <1>2, <1>5 DEF ReturnFromSubroutine, ReturnFromInterrupt, elsewhere, Unwound
<1>6. CASE JumpToSubroutine
  BY <1>6, CallFrames
<1>7. CASE PushRegister
  <2>. DEFINE byte == IF Entry.instr = "PHA" THEN reg.a ELSE ByteOf(p \union {B, Expansion})
  <2>1. Push(<<byte>>, {}) /\ UNCHANGED cart
    BY <1>7 DEF PushRegister, elsewhere
  <2>2. byte \in Byte
    <3>1. p \union {B, Expansion} \in SUBSET Flags
      BY <1>1, Typed DEF Flags, B, Expansion
    <3>2. ByteOf(p \union {B, Expansion}) \in Byte
      BY <3>1, BitsOfByte
    <3>. QED
      BY <1>1, <3>2, Typed
  <2>. HIDE DEF byte
  <2>3. <<byte>> \in Seq(Byte) /\ Len(<<byte>>) \in 1 .. 3
    BY <2>2
  <2>4. \A f \in frames' \ {} : FrameIntact(f)'
    BY <2>1, <2>3, PushShows
  <2>. QED
    BY <2>4 DEF FramesIntact
<1>8. CASE Break
  <2>1. /\ Decodable /\ UNCHANGED cart
        /\ HandleInterrupt(IRQ_VECTOR, NextInstruction, {B})
    BY <1>8 DEF Break, Executes, elsewhere
  <2>2. NextInstruction \in Word /\ {B} \in SUBSET {B}
    BY <1>1, <2>1, EntryTypes
  <2>. QED
    BY <2>1, <2>2, InterruptFrames
<1>9. CASE HandleNmiEvent
  <2>1. UNCHANGED cart /\ HandleInterrupt(NMI_VECTOR, pc, {}) /\ {} \in SUBSET {B}
    BY <1>9 DEF HandleNmiEvent
  <2>. QED
    BY <1>1, <2>1, InterruptFrames
<1>10. CASE HandleIrqEvent
  <2>1. CASE HandleInterrupt(IRQ_VECTOR, pc, {})
    <3>1. UNCHANGED cart /\ {} \in SUBSET {B}
      BY <1>10 DEF HandleIrqEvent
    <3>. QED
      BY <1>1, <2>1, <3>1, InterruptFrames
  <2>2. CASE UNCHANGED <<pc, reg, p, mem, frames>>
    BY <1>2, <1>10, <2>2 DEF HandleIrqEvent
  <2>. QED
    BY <1>10, <2>1, <2>2 DEF HandleIrqEvent
<1>11. CASE FailToDecode \/ Fault \/ RequestInterrupt \/ UNCHANGED vars
  BY <1>2, <1>11 DEF FailToDecode, Fault, RequestInterrupt, vars, busVars
<1>12. CASE PressButton
  BY <1>2, <1>12 DEF PressButton, SetKey
<1>13. CASE PowerCycle
  BY <1>13 DEF PowerCycle, FramesIntact
<1>. QED
  BY <1>3, <1>4, <1>5, <1>6, <1>7, <1>8, <1>9, <1>10, <1>11, <1>12, <1>13 DEF Next, Instruction

\* What the other theorems rest on: the types, and the frames as they were pushed.
THEOREM CpuInvariance == Spec => []CpuInv
<1>1. Init => CpuInv
  BY InitTypes DEF CpuInv, Init, FramesIntact
<1>2. CpuInv /\ [Next]_vars => CpuInv'
  BY StepTypes, StepFrames DEF CpuInv
<1>. QED
  BY <1>1, <1>2, PTL DEF Spec

\* Every return address that a frame stands for is whole on the stack, low byte
\* below high, at the S that its return will find: also where the stack goes
\* round, and whatever has been pushed, pulled and stored since (Push, Pop,
\* HandleInterrupt).
THEOREM FramesHold == Spec => []FramesIntact
<1>1. CpuInv => FramesIntact
  BY DEF CpuInv
<1>. QED
  BY <1>1, CpuInvariance, PTL

-----------------------------------------------------------------------------
(* Returns.                                                                *)

\* The word before a word, and back.
LEMMA BackAndForth ==
  ASSUME NEW w \in Word
  PROVE  (((w - 1) % WORD) + 1) % WORD = w /\ (w - 1) % WORD \in Word
<1>1. w \in Int /\ w >= 0 /\ w < 65536
  BY DEF Word, WORD
<1>2. (w - 1) % WORD \in Word
  <2>1. w - 1 \in Int
    BY <1>1
  <2>. QED
    BY <2>1, Bytes
<1>3. CASE w = 0
  <2>. DEFINE n == w - 1
  <2>1. n \in Int /\ n < 0 /\ n >= -10
    BY <1>3
  <2>2. n = w - 1
    OBVIOUS
  <2>. HIDE DEF n
  <2>3. n % 65536 = n + 65536
    BY <2>1
  <2>4. (n % 65536) + 1 = w + 65536
    BY <1>1, <2>2, <2>3
  <2>5. (w + 65536) % 65536 = w
    BY <1>1
  <2>. QED
    BY <1>2, <2>2, <2>4, <2>5 DEF WORD
<1>4. CASE w # 0
  <2>1. (w - 1) % 65536 = w - 1 /\ (w - 1 + 1) % 65536 = w
    BY <1>1, <1>4
  <2>. QED
    BY <1>2, <2>1 DEF WORD
<1>. QED
  BY <1>3, <1>4

LEMMA StepReturns == CpuInv => ReturnsWhereCalled
<1>. SUFFICES ASSUME CpuInv, NEW f \in frames, f.low = reg.s
              PROVE  /\ ReturnFromSubroutine /\ f.kind = "call" => pc' = f.pc /\ reg'.s = f.high
                     /\ ReturnFromInterrupt /\ f.kind = "interrupt" =>
                          /\ pc' = f.pc /\ reg'.s = f.high
                          /\ p' \ {B} = (f.p \ {B}) \union {Expansion}
  BY DEF ReturnsWhereCalled
<1>1. FrameIntact(f) /\ f \in Frame /\ CpuTypes /\ reg \in Registers /\ f.pc \in Word
  BY Held DEF CpuInv, FramesIntact, CpuTypes, TypeOK, Frame
<1>2. /\ Popped(1) = At(f, 1) /\ Popped(2) = At(f, 2) /\ Popped(3) = At(f, 3)
      /\ Up(2) = (f.low + 2) % BYTE /\ Up(3) = (f.low + 3) % BYTE
  BY DEF Popped, At, Up
<1>3. ASSUME ReturnFromSubroutine, f.kind = "call"
      PROVE  pc' = f.pc /\ reg'.s = f.high
  <2>. DEFINE last == (f.pc - 1) % WORD
  <2>1. CallIntact(f)
    BY <1>1, <1>3 DEF FrameIntact
  <2>2. last \in Word /\ (last + 1) % WORD = f.pc
    BY <1>1, BackAndForth
  <2>3. Popped(1) = Lower(last) /\ Popped(2) = Upper(last) /\ Up(2) = f.high
    BY <1>2, <2>1 DEF CallIntact
  <2>. HIDE DEF last
  <2>4. last = Popped(1) + BYTE * Popped(2)
    BY <2>2, <2>3, Bytes
  <2>5. pc' = (Popped(1) + BYTE * Popped(2) + 1) % WORD /\ reg' = [reg EXCEPT !.s = Up(2)]
    BY <1>3 DEF ReturnFromSubroutine
  <2>6. reg'.s = Up(2)
    BY <1>1, <2>5 DEF Registers
  <2>. QED
    BY <2>2, <2>3, <2>4, <2>5, <2>6
<1>4. ASSUME ReturnFromInterrupt, f.kind = "interrupt"
      PROVE  /\ pc' = f.pc /\ reg'.s = f.high
             /\ p' \ {B} = (f.p \ {B}) \union {Expansion}
  <2>1. InterruptIntact(f)
    BY <1>1, <1>4 DEF FrameIntact
  <2>2. /\ Popped(2) = Lower(f.pc) /\ Popped(3) = Upper(f.pc) /\ Up(3) = f.high
        /\ Bits(Popped(1)) \ {B} = (f.p \ {B}) \union {Expansion}
    BY <1>2, <2>1 DEF InterruptIntact
  <2>3. f.pc = Popped(2) + BYTE * Popped(3)
    BY <1>1, <2>2, Bytes
  <2>4. /\ p' = Bits(Popped(1)) \union {Expansion}
        /\ pc' = Popped(2) + BYTE * Popped(3)
        /\ reg' = [reg EXCEPT !.s = Up(3)]
    BY <1>4 DEF ReturnFromInterrupt
  <2>5. reg'.s = Up(3)
    BY <1>1, <2>4 DEF Registers
  <2>6. p' \ {B} = (f.p \ {B}) \union {Expansion}
    <3>1. Expansion # B
      BY DEF Expansion, B
    <3>. HIDE DEF B, Expansion, Bits, Popped
    <3>. QED
      BY <2>2, <2>4, <3>1
  <2>. QED
    BY <2>2, <2>3, <2>4, <2>5, <2>6
<1>. QED
  BY <1>3, <1>4

\* An RTS or an RTI that finds S where its call or interrupt has left it, and the
\* bytes it needs intact, goes back to where the program was, with its S and its
\* flags: for every program, however calls and interrupts nest and the stack goes
\* round (JSR, RTS, RTI, HandleInterrupt).
THEOREM Returns == Spec => ReturnResumes
<1>1. CpuInv => [ReturnsWhereCalled]_vars
  BY StepReturns
<1>. QED
  BY <1>1, CpuInvariance, PTL DEF ReturnResumes

-----------------------------------------------------------------------------
(* Sums, differences and comparisons.                                      *)

\* What the four arithmetic flags are.
LEMMA FlagsOfSums ==
  ASSUME NEW q \in SUBSET Flags, NEW carry \in BOOLEAN, NEW overflow \in BOOLEAN, NEW val, NEW r,
         r = ZeroAndNeg(With(With(q, C, carry), V, overflow), val)
  PROVE  /\ C \in r <=> carry
         /\ V \in r <=> overflow
         /\ Z \in r <=> val = 0
         /\ N \in r <=> val >= 128
<1>1. C # V /\ C # Z /\ C # N /\ V # Z /\ V # N /\ Z # N
  BY DEF C, V, Z, N
<1>. HIDE DEF C, V, Z, N
<1>. QED
  BY <1>1, Zenon DEF ZeroAndNeg, With

LEMMA FlagsOfOrder ==
  ASSUME NEW q \in SUBSET Flags, NEW r, NEW v
  PROVE  /\ C \in Compare(r, v, q) <=> r >= v
         /\ Z \in Compare(r, v, q) <=> (r - v) % BYTE = 0
<1>1. C # Z /\ C # N /\ Z # N
  BY DEF C, Z, N
<1>. HIDE DEF C, Z, N
<1>. QED
  BY <1>1, Zenon DEF Compare, ZeroAndNeg, With

\* A sum of bytes, and a difference, as integers and as what is kept of them.
LEMMA Sums ==
  ASSUME NEW a \in Byte, NEW v \in Byte, NEW q \in SUBSET Flags
  PROVE  LET r == AddWithCarry(a, v, q)
         IN  /\ r.val + BYTE * Carry(r.p) = a + v + Carry(q)
             /\ V \in r.p <=> Signed(r.val) # Signed(a) + Signed(v) + Carry(q)
             /\ Z \in r.p <=> r.val = 0
             /\ N \in r.p <=> Signed(r.val) < 0
<1>. DEFINE c == Carry(q)
            exact == a + v + c
            signed == Signed(a) + Signed(v) + c
            val == exact % BYTE
            r == AddWithCarry(a, v, q)
<1>1. a \in 0 .. 255 /\ v \in 0 .. 255 /\ c \in 0 .. 1
  BY StatusTypes DEF Byte, BYTE
<1>. DEFINE up == exact > 255
            over == signed < -128 \/ signed > 127
<1>2. /\ C \in r.p <=> up
      /\ V \in r.p <=> over
      /\ Z \in r.p <=> val = 0
      /\ N \in r.p <=> val >= 128
      /\ r.val = val
  <2>1. up \in BOOLEAN /\ over \in BOOLEAN
    OBVIOUS
  <2>2. r.val = val /\ r.p = ZeroAndNeg(With(With(q, C, up), V, over), val)
    BY DEF AddWithCarry
  <2>. HIDE DEF r, up, over, val
  <2>. QED
    BY <2>1, <2>2, FlagsOfSums
<1>. HIDE DEF c, r
<1>3. val = IF exact > 255 THEN exact - 256 ELSE exact
  BY <1>1 DEF BYTE
<1>. HIDE DEF val
<1>4. val \in 0 .. 255 /\ val + BYTE * Carry(r.p) = exact
  <2>1. Carry(r.p) = IF exact > 255 THEN 1 ELSE 0
    BY <1>2 DEF Carry
  <2>. QED
    BY <1>1, <1>3, <2>1 DEF BYTE
<1>5. /\ (signed < -128 \/ signed > 127) <=> Signed(val) # signed
      /\ val >= 128 <=> Signed(val) < 0
  BY <1>1, <1>3 DEF Signed, BYTE
<1>. QED
  BY <1>2, <1>4, <1>5 DEF c, r

LEMMA Differences ==
  ASSUME NEW a \in Byte, NEW v \in Byte, NEW q \in SUBSET Flags
  PROVE  LET r == SubtractWithCarry(a, v, q)
         IN  /\ r.val - BYTE * (1 - Carry(r.p)) = a - v - (1 - Carry(q))
             /\ V \in r.p <=> Signed(r.val) # Signed(a) - Signed(v) - (1 - Carry(q))
             /\ Z \in r.p <=> r.val = 0
             /\ N \in r.p <=> Signed(r.val) < 0
<1>. DEFINE c == Carry(q)
            exact == a - (v + 1 - c)
            word == (a + (WORD - 1 - v) + c) % WORD
            signed == Signed(a) - Signed(v) - (1 - c)
            val == exact % BYTE
            r == SubtractWithCarry(a, v, q)
<1>1. a \in 0 .. 255 /\ v \in 0 .. 255 /\ c \in 0 .. 1
  BY StatusTypes DEF Byte, BYTE
<1>. DEFINE up == ~(word > 255)
            over == signed < -128 \/ signed > 127
<1>2. /\ C \in r.p <=> up
      /\ V \in r.p <=> over
      /\ Z \in r.p <=> val = 0
      /\ N \in r.p <=> val >= 128
      /\ r.val = val
  <2>1. up \in BOOLEAN /\ over \in BOOLEAN
    OBVIOUS
  <2>2. r.val = val /\ r.p = ZeroAndNeg(With(With(q, C, up), V, over), val)
    BY DEF SubtractWithCarry
  <2>. HIDE DEF r, up, over, val
  <2>. QED
    BY <2>1, <2>2, FlagsOfSums
<1>. HIDE DEF c, r
<1>3. val = IF exact < 0 THEN exact + 256 ELSE exact
  BY <1>1 DEF BYTE
<1>4. word > 255 <=> exact < 0
  <2>. DEFINE n == a + (WORD - 1 - v) + c
  <2>1. n = exact + 65536 /\ exact \in Int /\ exact < 256 /\ exact + 256 >= 0
    BY <1>1 DEF WORD
  <2>2. word = n % 65536
    BY DEF WORD
  <2>. HIDE DEF n, exact, word
  <2>3. CASE exact < 0
    BY <2>1, <2>2, <2>3
  <2>4. CASE exact >= 0
    BY <2>1, <2>2, <2>4
  <2>. QED
    BY <2>1, <2>3, <2>4
<1>. HIDE DEF val, word
<1>5. val \in 0 .. 255 /\ val - BYTE * (1 - Carry(r.p)) = exact
  <2>1. Carry(r.p) = IF exact < 0 THEN 0 ELSE 1
    BY <1>2, <1>4 DEF Carry
  <2>. QED
    BY <1>1, <1>3, <2>1 DEF BYTE
<1>6. /\ (signed < -128 \/ signed > 127) <=> Signed(val) # signed
      /\ val >= 128 <=> Signed(val) < 0
  BY <1>1, <1>3 DEF Signed, BYTE
<1>7. exact = a - v - (1 - c)
  BY <1>1
<1>. HIDE DEF exact, signed
<1>8. /\ val - BYTE * (1 - Carry(r.p)) = a - v - (1 - c)
      /\ V \in r.p <=> Signed(val) # signed
      /\ Z \in r.p <=> val = 0
      /\ N \in r.p <=> Signed(val) < 0
  BY <1>2, <1>5, <1>6, <1>7
<1>. QED
  BY <1>2, <1>8 DEF c, r, signed

LEMMA Orders ==
  ASSUME NEW r \in Byte, NEW v \in Byte, NEW q \in SUBSET Flags
  PROVE  /\ C \in Compare(r, v, q) <=> r >= v
         /\ Z \in Compare(r, v, q) <=> r = v
<1>1. (r - v) % BYTE = 0 <=> r = v
  <2>. DEFINE n == r - v
  <2>1. r \in 0 .. 255 /\ v \in 0 .. 255
    BY DEF Byte, BYTE
  <2>2. n \in -256 .. 511 /\ (n = 0 <=> r = v) /\ n > -256 /\ n < 256
    BY <2>1
  <2>. HIDE DEF n
  <2>3. n % BYTE = IF n < 0 THEN n + 256 ELSE n
    BY <2>2, Around
  <2>4. n % BYTE = 0 <=> n = 0
    BY <2>2, <2>3
  <2>. QED
    BY <2>2, <2>4 DEF n
<1>. QED
  BY <1>1, FlagsOfOrder

LEMMA StepSums == CpuInv => ArithmeticStep
<1>. SUFFICES ASSUME CpuInv
              PROVE  ArithmeticStep
  OBVIOUS
<1>1. /\ BusInv /\ reg \in Registers /\ p \in SUBSET Flags /\ reg.a \in Byte
      /\ reg.x \in Byte /\ reg.y \in Byte
  BY Held, Typed DEF CpuInv
<1>2. ASSUME Arithmetic
      PROVE  /\ \E v \in ReadValues(ArgAddress) :
                  IF Entry.instr = "ADC" THEN SumExact(v) ELSE DifferenceExact(v)
             /\ Z \in p' <=> reg'.a = 0
             /\ N \in p' <=> Signed(reg'.a) < 0
  <2>. DEFINE result(v) == IF Entry.instr = "ADC" THEN AddWithCarry(reg.a, v, p)
                           ELSE SubtractWithCarry(reg.a, v, p)
  <2>1. PICK v \in ReadValues(ArgAddress) :
          reg' = [reg EXCEPT !.a = result(v).val] /\ p' = result(v).p
    BY <1>2 DEF Arithmetic
  <2>2. v \in Byte
    BY <1>1, ReadsAreBytes
  <2>3. reg'.a = result(v).val /\ p' = result(v).p
    BY <1>1, <2>1 DEF Registers
  <2>4. CASE Entry.instr = "ADC"
    <3>1. reg'.a = AddWithCarry(reg.a, v, p).val /\ p' = AddWithCarry(reg.a, v, p).p
      BY <2>3, <2>4
    <3>2. SumExact(v) /\ (Z \in p' <=> reg'.a = 0) /\ (N \in p' <=> Signed(reg'.a) < 0)
      BY <1>1, <2>2, <3>1, Sums DEF SumExact
    <3>. QED
      BY <2>4, <3>2
  <2>5. CASE Entry.instr # "ADC"
    <3>1. reg'.a = SubtractWithCarry(reg.a, v, p).val /\ p' = SubtractWithCarry(reg.a, v, p).p
      BY <2>3, <2>5
    <3>2. DifferenceExact(v) /\ (Z \in p' <=> reg'.a = 0) /\ (N \in p' <=> Signed(reg'.a) < 0)
      BY <1>1, <2>2, <3>1, Differences DEF DifferenceExact
    <3>. QED
      BY <2>5, <3>2
  <2>. QED
    BY <2>4, <2>5
<1>3. ASSUME Test, Entry.instr # "BIT"
      PROVE  \E v \in ReadValues(ArgAddress) : Ordered(reg[Target[Entry.instr]], v)
  <2>1. reg[Target[Entry.instr]] \in Byte
    BY <1>1, <1>3 DEF Test, Executes, Target
  <2>2. PICK v \in ReadValues(ArgAddress) : p' = Compare(reg[Target[Entry.instr]], v, p)
    BY <1>3 DEF Test
  <2>3. v \in Byte
    BY <1>1, ReadsAreBytes
  <2>. QED
    BY <1>1, <2>1, <2>2, <2>3, Orders DEF Ordered
<1>. QED
  BY <1>2, <1>3 DEF ArithmeticStep

\* ADC, SBC and the comparisons are exact, whatever their operands, their carry
\* and the bytes a device gives (UpdateRegsForOverflow, OverflowNeg, Compaire).
THEOREM SumsAreExact == Spec => ArithmeticExact
<1>1. CpuInv => [ArithmeticStep]_vars
  BY StepSums
<1>. QED
  BY <1>1, CpuInvariance, PTL DEF ArithmeticExact

-----------------------------------------------------------------------------
(* How long a step takes.                                                  *)

\* An operand in a device register is far away.
LEMMA DevicesAreFar ==
  ASSUME CpuTypes, CpuRuns, Decodable, Entry.instr \in WithOperand, ~Accumulator,
         IsDevice(ArgAddress)
  PROVE  Entry.cycles >= 4
<1>1. RowFits(Entry) /\ Entry.addrm # "acc"
  BY EntryTypes DEF Accumulator
<1>2. Entry.addrm \in FarModes => Entry.cycles >= 4
  BY <1>1 DEF RowFits, FarModes, NearModes
<1>3. ASSUME Entry.addrm \in NearModes
      PROVE  FALSE
  <2>1. CASE Entry.addrm = "imm"
    <3>1. ArgAddress = (pc + 1) % WORD
      BY <2>1 DEF ArgAddress, Indexed
    <3>2. ArgAddress \in Decoded
      BY <2>1, <3>1 DEF Decoded, InstLen
    <3>. QED
      BY <3>2 DEF CpuRuns
  <2>2. CASE Entry.addrm \in {"zpg_", "zpgX", "zpgY"}
    <3>1. ArgAddress \in {Fetch(1), (Fetch(1) + reg.x) % BYTE, (Fetch(1) + reg.y) % BYTE}
      BY <2>2 DEF ArgAddress, Indexed
    <3>2. ArgAddress \in Byte
      <4>1. Fetch(1) \in Byte /\ reg.x \in Byte /\ reg.y \in Byte
        BY AddressTypes, Typed
      <4>2. Fetch(1) + reg.x \in Int /\ Fetch(1) + reg.y \in Int
        BY <4>1, Typed
      <4>. QED
        BY <3>1, <4>1, <4>2, Bytes
    <3>. DEFINE a == ArgAddress
    <3>3. a \in Int /\ a < 256
      BY <3>2 DEF Byte, BYTE
    <3>. HIDE DEF a
    <3>4. ~IsDevice(a)
      <4>. SUFFICES ASSUME IsDevice(a)
                    PROVE  FALSE
        OBVIOUS
      <4>1. a >= 8192
        <5>1. a \in PPU_START .. 16383 => a >= 8192
          BY <3>3 DEF PPU_START
        <5>2. a \in APU_START .. 16407 => a >= 8192
          BY <3>3 DEF APU_START
        <5>. QED
          BY <5>1, <5>2 DEF IsDevice
      <4>. QED
        BY <3>3, <4>1
    <3>. QED
      BY <3>4 DEF a
  <2>. QED
    BY <1>1, <1>3, <2>1, <2>2 DEF NearModes
<1>. QED
  BY <1>1, <1>2, <1>3 DEF RowFits

LEMMA StepTakes == CpuInv => LengthStep
<1>. SUFFICES ASSUME CpuInv
              PROVE  LengthStep
  OBVIOUS
<1>1. ASSUME Instruction
      PROVE  /\ cycles' = 0 <=> Entry.instr = "BRK"
             /\ cycles' \in {0} \union 2 .. MaxCycles
             /\ Entry.instr \in WithOperand /\ ~Accumulator /\ IsDevice(ArgAddress) =>
                  cycles' >= 4
  <2>1. CpuTypes /\ CpuRuns /\ Decodable
    BY <1>1 DEF CpuInv, Instruction, Executes, Load, Arithmetic, Logical, Test, Store,
         ModifyAccumulator, ModifyMemory, CountRegister, Transfer, ChangeFlag, Idle, Branch, Jump,
         JumpToSubroutine, ReturnFromSubroutine, ReturnFromInterrupt, PushRegister,
         PullAccumulator, PullStatus, Break
  <2>2. /\ CycleCount \in {0} \union 2 .. 8
        /\ CycleCount = 0 <=> Entry.instr = "BRK"
        /\ CycleCount >= Entry.cycles
        /\ Entry.instr \in DOMAIN Condition => CycleCount = 2
        /\ Entry.cycles \in Int
    BY <2>1, EntryTypes DEF RowFits
  <2>3. CASE cycles' = CycleCount
    BY <2>1, <2>2, <2>3, DevicesAreFar, CycleAssumption
  <2>4. CASE Branch /\ cycles' # CycleCount
    <3>1. /\ Entry.instr \in DOMAIN Condition
          /\ cycles' = CycleCount + 1 + PageCross(ArgAddress, NextInstruction)
      BY <2>4 DEF Branch, Executes, GoesOn
    <3>2. PageCross(ArgAddress, NextInstruction) \in 0 .. 1
      BY <2>1, EntryTypes
    <3>3. cycles' \in 3 .. 4
      BY <2>2, <3>1, <3>2
    <3>4. Entry.instr # "BRK" /\ Entry.instr \notin WithOperand
      BY <3>1 DEF Condition, WithOperand
    <3>. QED
      BY <3>3, <3>4, CycleAssumption
  <2>. QED
    BY <1>1, <2>3, <2>4 DEF Instruction, Load, Arithmetic, Logical, Test, Store,
       ModifyAccumulator, ModifyMemory, CountRegister, Transfer, ChangeFlag, Idle, Jump,
       JumpToSubroutine, ReturnFromSubroutine, ReturnFromInterrupt, PushRegister,
       PullAccumulator, PullStatus, Break, GoesOn
<1>2. FailToDecode => cycles' = 0 /\ UNCHANGED busVars
  BY DEF FailToDecode
<1>. QED
  BY <1>1, <1>2 DEF LengthStep

\* An instruction takes no cycle if it is BRK, and otherwise two to MaxCycles, at
\* least four of them where a device register is its operand; a byte that does
\* not decode takes none (DecodeInstruction, the handlers' returns, FailToDecode).
THEOREM LengthsHold == Spec => StepLengths
<1>1. CpuInv => [LengthStep]_vars
  BY StepTakes
<1>. QED
  BY <1>1, CpuInvariance, PTL DEF StepLengths

-----------------------------------------------------------------------------
(* The opcode table: one instruction and one mode for each byte.           *)

\* Rows of one byte are of one instruction, in one mode.
Unambiguous(rows) == \A r, q \in rows : r.code = q.code => /\ r.entry.instr = q.entry.instr
                                                           /\ r.entry.addrm = q.entry.addrm

\* A row of the shifts, INC and DEC, by instruction and mode.
ModifyRow(r, i, m) == /\ r.code = ModifyFirst[i] + ModifyPlace[m]
                      /\ r.entry.instr = i /\ r.entry.addrm = m

LEMMA ModifyUnambiguous == Unambiguous(ModifyRows)
<1>1. ASSUME NEW r \in ModifyRows
      PROVE  \E i \in DOMAIN ModifyFirst, m \in DOMAIN ModifyPlace : ModifyRow(r, i, m)
  BY DEF ModifyRows, Row, ModifyRow
<1>2. ASSUME NEW i \in DOMAIN ModifyFirst, NEW m \in DOMAIN ModifyPlace,
             NEW j \in DOMAIN ModifyFirst, NEW n \in DOMAIN ModifyPlace,
             ModifyFirst[i] + ModifyPlace[m] = ModifyFirst[j] + ModifyPlace[n]
      PROVE  i = j /\ m = n
  BY <1>2 DEF ModifyFirst, ModifyPlace
<1>. QED
  BY <1>1, <1>2 DEF ModifyRow, Unambiguous

LEMMA ImpliedUnambiguous == Unambiguous(ImpliedRows)
<1>1. \A i, j \in DOMAIN ImpliedCode : ImpliedCode[i] = ImpliedCode[j] => i = j
  BY DEF ImpliedCode
<1>2. \A r \in ImpliedRows : /\ r.entry.instr \in DOMAIN ImpliedCode /\ r.entry.addrm = "impl"
                             /\ r.code = ImpliedCode[r.entry.instr]
  BY DEF ImpliedRows, Row
<1>. QED
  BY <1>1, <1>2 DEF Unambiguous

LEMMA JumpUnambiguous == Unambiguous(JumpRows)
<1>1. \A i, j \in DOMAIN BranchFirst : BranchFirst[i] = BranchFirst[j] => i = j
  BY DEF BranchFirst
<1>2. \A i \in DOMAIN BranchFirst : BranchFirst[i] \notin {32, 76, 108}
  BY DEF BranchFirst
<1>3. \A r \in JumpRows :
        \/ /\ r.entry.instr \in DOMAIN BranchFirst /\ r.entry.addrm = "rel"
           /\ r.code = BranchFirst[r.entry.instr]
        \/ r.code = 32 /\ r.entry.instr = "JSR" /\ r.entry.addrm = "abs_"
        \/ r.code = 76 /\ r.entry.instr = "JMP" /\ r.entry.addrm = "abs_"
        \/ r.code = 108 /\ r.entry.instr = "JMP" /\ r.entry.addrm = "ind_"
  BY DEF JumpRows, Row
<1>. QED
  BY <1>1, <1>2, <1>3 DEF Unambiguous

LEMMA IndexUnambiguous == Unambiguous(IndexRows)
<1>1. \A r \in IndexRows :
        r.entry.instr = CASE r.code \in {160, 164, 172, 180, 188} -> "LDY"
                          [] r.code \in {162, 166, 174, 182, 190} -> "LDX"
                          [] r.code \in {132, 140, 148} -> "STY"
                          [] r.code \in {134, 142, 150} -> "STX"
                          [] r.code \in {192, 196, 204} -> "CPY"
                          [] r.code \in {224, 228, 236} -> "CPX"
                          [] OTHER -> "BIT"
  BY DEF IndexRows, Row
<1>2. \A r \in IndexRows :
        r.entry.addrm = CASE r.code \in {160, 162, 192, 224} -> "imm"
                          [] r.code \in {164, 166, 132, 134, 196, 228, 36} -> "zpg_"
                          [] r.code \in {172, 174, 140, 142, 204, 236, 44} -> "abs_"
                          [] r.code \in {180, 148} -> "zpgX"
                          [] r.code \in {182, 150} -> "zpgY"
                          [] r.code = 188 -> "absX"
                          [] OTHER -> "absY"
  BY DEF IndexRows, Row
<1>. QED
  BY <1>1, <1>2 DEF Unambiguous

LEMMA IdleUnambiguous == Unambiguous(IdleRows)
<1>1. \A r \in IdleRows :
        /\ r.entry.instr = "INVALID"
        /\ r.entry.addrm = CASE r.code \in {26, 58, 90, 122, 218, 250} -> "impl"
                             [] r.code \in {20, 52, 84, 116, 212, 244} -> "zpgX"
                             [] r.code \in {28, 60, 92, 124, 220, 252} -> "absX"
                             [] r.code = 12 -> "abs_"
                             [] OTHER -> "imm"
  BY DEF IdleRows, Row
<1>. QED
  BY <1>1 DEF Unambiguous

\* The same for the accumulator's instructions with STA, which lies among them.
AccRow(r, f, m) ==
  /\ r.code = f + AccPlace[m] /\ r.entry.addrm = m
  /\ f = 128 => r.entry.instr = "STA"
  /\ f # 128 => r.entry.instr \in DOMAIN AccFirst /\ f = AccFirst[r.entry.instr]

AccFirsts == {0, 32, 64, 96, 128, 160, 192, 224}

LEMMA AccUnambiguous == Unambiguous(AccRows \union StaRows)
<1>1. \A i \in DOMAIN AccFirst : AccFirst[i] \in AccFirsts /\ AccFirst[i] # 128
  BY DEF AccFirst, AccFirsts
<1>2. ASSUME NEW r \in AccRows \union StaRows
      PROVE  \E f \in AccFirsts, m \in DOMAIN AccPlace : AccRow(r, f, m)
  <2>1. CASE r \in AccRows
    BY <1>1, <2>1 DEF AccRows, Row, AccRow
  <2>2. CASE r \in StaRows
    BY <2>2 DEF StaRows, Row, AccRow, AccFirsts
  <2>. QED
    BY <2>1, <2>2
<1>3. ASSUME NEW f \in AccFirsts, NEW m \in DOMAIN AccPlace,
             NEW g \in AccFirsts, NEW n \in DOMAIN AccPlace,
             f + AccPlace[m] = g + AccPlace[n]
      PROVE  f = g /\ m = n
  BY <1>3 DEF AccPlace, AccFirsts
<1>4. \A i, j \in DOMAIN AccFirst : AccFirst[i] = AccFirst[j] => i = j
  BY DEF AccFirst
<1>. QED
  BY <1>2, <1>3, <1>4 DEF AccRow, Unambiguous

\* The bytes of each family.
AccCode(c) == c \in Byte /\ c % 4 = 1
ModifyCodes == {6, 10, 14, 22, 30, 38, 42, 46, 54, 62, 70, 74, 78, 86, 94, 102, 106, 110, 118,
                126, 198, 206, 214, 222, 230, 238, 246, 254}
IndexCodes == {36, 44, 132, 134, 140, 142, 148, 150, 160, 162, 164, 166, 172, 174, 180, 182, 188,
               190, 192, 196, 204, 224, 228, 236}
JumpCodes == {16, 32, 48, 76, 80, 108, 112, 144, 176, 208, 240}
ImpliedCodes == {0, 8, 24, 40, 56, 64, 72, 88, 96, 104, 120, 136, 138, 152, 154, 168, 170, 184,
                 186, 200, 202, 216, 232, 234, 248}
IdleCodes == {12, 20, 26, 28, 52, 58, 60, 84, 90, 92, 116, 122, 124, 128, 212, 218, 220, 244, 250,
              252}

LEMMA CodesOfRows ==
  /\ \A r \in AccRows \union StaRows : AccCode(r.code)
  /\ \A r \in ModifyRows : r.code \in ModifyCodes
  /\ \A r \in IndexRows : r.code \in IndexCodes
  /\ \A r \in JumpRows : r.code \in JumpCodes
  /\ \A r \in ImpliedRows : r.code \in ImpliedCodes
  /\ \A r \in IdleRows : r.code \in IdleCodes
<1>1. \A r \in AccRows \union StaRows : AccCode(r.code)
  <2>1. \A i \in DOMAIN AccFirst, m \in DOMAIN AccPlace :
          AccCode(AccFirst[i] + AccPlace[m]) /\ AccCode(128 + AccPlace[m])
    BY DEF AccFirst, AccPlace, AccCode, Byte, BYTE
  <2>2. \A r \in AccRows : AccCode(r.code)
    BY <2>1 DEF AccRows, Row
  <2>3. \A r \in StaRows : AccCode(r.code)
    <3>1. \A m \in DOMAIN AccPlace : AccCode(128 + AccPlace[m])
      BY DEF AccPlace, AccCode, Byte, BYTE
    <3>. QED
      BY <3>1 DEF StaRows, Row
  <2>. QED
    BY <2>2, <2>3
<1>2. \A r \in ModifyRows : r.code \in ModifyCodes
  <2>1. \A i \in DOMAIN ModifyFirst, m \in DOMAIN ModifyPlace :
          ModifyFirst[i] + ModifyPlace[m] \in ModifyCodes \/ (i \in {"DEC", "INC"} /\ m = "acc")
    BY DEF ModifyFirst, ModifyPlace, ModifyCodes
  <2>. QED
    BY <2>1 DEF ModifyRows, Row
<1>3. \A r \in IndexRows : r.code \in IndexCodes
  BY DEF IndexRows, IndexCodes, Row
<1>4. \A r \in JumpRows : r.code \in JumpCodes
  BY DEF JumpRows, JumpCodes, Row, BranchFirst
<1>5. \A r \in ImpliedRows : r.code \in ImpliedCodes
  <2>1. \A i \in DOMAIN ImpliedCode : ImpliedCode[i] \in ImpliedCodes
    BY DEF ImpliedCode, ImpliedCodes
  <2>. QED
    BY <2>1 DEF ImpliedRows, Row
<1>6. \A r \in IdleRows : r.code \in IdleCodes
  BY DEF IdleRows, IdleCodes, Row
<1>. QED
  BY <1>1, <1>2, <1>3, <1>4, <1>5, <1>6

\* No two families share one.
LEMMA CodesApart ==
  \A c \in Byte :
    /\ AccCode(c) => c \notin ModifyCodes \union IndexCodes \union JumpCodes \union ImpliedCodes
                               \union IdleCodes
    /\ c \in ModifyCodes => c \notin IndexCodes \union JumpCodes \union ImpliedCodes
                                     \union IdleCodes
    /\ c \in IndexCodes => c \notin JumpCodes \union ImpliedCodes \union IdleCodes
    /\ c \in JumpCodes => c \notin ImpliedCodes \union IdleCodes
    /\ c \in ImpliedCodes => c \notin IdleCodes
BY DEF AccCode, ModifyCodes, IndexCodes, JumpCodes, ImpliedCodes, IdleCodes

LEMMA CodesAreBytes ==
  ModifyCodes \union IndexCodes \union JumpCodes \union ImpliedCodes \union IdleCodes \subseteq Byte
BY DEF ModifyCodes, IndexCodes, JumpCodes, ImpliedCodes, IdleCodes, Byte, BYTE

\* No byte is two instructions, or one in two modes: the one that Opcodes finds in
\* the rows of a byte is the one that Instructions::Opcodes has there.
LEMMA OpcodesUnambiguous == Unambiguous(OpcodeRows)
<1>. SUFFICES ASSUME NEW r \in OpcodeRows, NEW q \in OpcodeRows, r.code = q.code
              PROVE  r.entry.instr = q.entry.instr /\ r.entry.addrm = q.entry.addrm
  BY DEF Unambiguous
<1>1. OpcodeRows = UNION {AccRows \union StaRows, ModifyRows, IndexRows, JumpRows, ImpliedRows,
                          IdleRows}
  BY DEF OpcodeRows
<1>2. PICK rows \in {AccRows \union StaRows, ModifyRows, IndexRows, JumpRows, ImpliedRows,
                      IdleRows} :
        r \in rows /\ q \in rows
  BY <1>1, CodesOfRows, CodesApart, CodesAreBytes DEF AccCode
<1>3. Unambiguous(rows)
  BY AccUnambiguous, ModifyUnambiguous, IndexUnambiguous, JumpUnambiguous, ImpliedUnambiguous,
     IdleUnambiguous
<1>. QED
  BY <1>2, <1>3 DEF Unambiguous

-----------------------------------------------------------------------------
(* The assembler: what a listing puts into ROM, and what the CPU reads.    *)

\* An instruction and a mode that the table has.
Listed(instr, mode) ==
  \E row \in OpcodeRows : row.entry.instr = instr /\ row.entry.addrm = mode

\* What the assembler puts down is what the decoder makes of it.
LEMMA CodeDecodes ==
  ASSUME NEW instr, NEW mode, Listed(instr, mode)
  PROVE  /\ Code(instr, mode) \in Byte
         /\ Opcodes[Code(instr, mode)].instr = instr /\ Opcodes[Code(instr, mode)].addrm = mode
<1>. DEFINE row == CHOOSE row \in OpcodeRows : row.entry.instr = instr /\ row.entry.addrm = mode
            code == Code(instr, mode)
            found == CHOOSE r \in OpcodeRows : r.code = code
<1>1. row \in OpcodeRows /\ row.entry.instr = instr /\ row.entry.addrm = mode
  BY DEF Listed
<1>2. code = row.code
  BY DEF Code
<1>. HIDE DEF row
<1>3. code \in Byte
  <2>1. row.code \in Byte
    BY <1>1, CodesOfRows, CodesAreBytes DEF OpcodeRows, AccCode
  <2>. QED
    BY <1>2, <2>1
<1>. HIDE DEF code
<1>4. found \in OpcodeRows /\ found.code = code
  BY <1>1, <1>2
<1>5. found.entry.instr = instr /\ found.entry.addrm = mode
  BY <1>1, <1>2, <1>4, OpcodesUnambiguous DEF Unambiguous
<1>6. Opcodes[code] = found.entry
  <2>1. code \in 0 .. 255
    BY <1>3 DEF Byte, BYTE
  <2>. QED
    BY <1>1, <1>2, <2>1 DEF Opcodes
<1>. QED
  BY <1>3, <1>5, <1>6 DEF code

LEMMA AccListed ==
  \A i \in DOMAIN AccFirst, m \in DOMAIN AccPlace : Listed(i, m)
<1>1. \A i \in DOMAIN AccFirst, m \in DOMAIN AccPlace :
        Row(AccFirst[i] + AccPlace[m], i, m, AccCycles[m], m \in Indexed) \in OpcodeRows
  BY DEF AccRows, OpcodeRows
<1>. QED
  BY <1>1 DEF Listed, Row

LEMMA StaListed == \A m \in DOMAIN AccPlace \ {"imm"} : Listed("STA", m)
<1>1. \A m \in DOMAIN AccPlace \ {"imm"} :
        Row(128 + AccPlace[m], "STA", m, AccCycles[m] + IF m \in Indexed THEN 1 ELSE 0, FALSE)
          \in OpcodeRows
  BY DEF StaRows, OpcodeRows
<1>. QED
  BY <1>1 DEF Listed, Row

LEMMA ModifyListed ==
  \A i \in DOMAIN ModifyFirst \ {"DEC", "INC"}, m \in DOMAIN ModifyPlace : Listed(i, m)
<1>. SUFFICES ASSUME NEW i \in DOMAIN ModifyFirst \ {"DEC", "INC"}, NEW m \in DOMAIN ModifyPlace
              PROVE  Listed(i, m)
  OBVIOUS
<1>. DEFINE row(n) == Row(ModifyFirst[i] + ModifyPlace[n], i, n, ModifyCycles[n], FALSE)
            rows == {row(n) : n \in DOMAIN ModifyPlace
                                    \ IF i \in {"DEC", "INC"} THEN {"acc"} ELSE {}}
<1>1. rows \subseteq ModifyRows
  BY Zenon DEF ModifyRows
<1>2. row(m) \in rows
  OBVIOUS
<1>3. row(m).entry.instr = i /\ row(m).entry.addrm = m
  BY DEF Row
<1>. HIDE DEF row, rows
<1>. QED
  BY <1>1, <1>2, <1>3 DEF Listed, OpcodeRows

LEMMA OthersListed ==
  /\ Listed("LDX", "imm") /\ Listed("LDY", "imm")
  /\ Listed("JMP", "abs_") /\ Listed("JSR", "abs_")
  /\ \A i \in DOMAIN BranchFirst : Listed(i, "rel")
  /\ \A i \in DOMAIN ImpliedCode : Listed(i, "impl")
<1>1. Listed("LDX", "imm") /\ Listed("LDY", "imm")
  <2>1. /\ Row(160, "LDY", "imm", 2, FALSE) \in OpcodeRows
        /\ Row(162, "LDX", "imm", 2, FALSE) \in OpcodeRows
    BY DEF OpcodeRows, IndexRows
  <2>. QED
    BY <2>1 DEF Listed, Row
<1>2. Listed("JMP", "abs_") /\ Listed("JSR", "abs_")
  <2>1. /\ Row(32, "JSR", "abs_", 6, FALSE) \in OpcodeRows
        /\ Row(76, "JMP", "abs_", 3, FALSE) \in OpcodeRows
    BY DEF OpcodeRows, JumpRows
  <2>. QED
    BY <2>1 DEF Listed, Row
<1>3. \A i \in DOMAIN BranchFirst : Listed(i, "rel")
  <2>1. \A i \in DOMAIN BranchFirst : Row(BranchFirst[i], i, "rel", 2, FALSE) \in OpcodeRows
    BY DEF OpcodeRows, JumpRows
  <2>. QED
    BY <2>1 DEF Listed, Row
<1>4. \A i \in DOMAIN ImpliedCode : Listed(i, "impl")
  <2>1. \A i \in DOMAIN ImpliedCode :
          Row(ImpliedCode[i], i, "impl",
              IF i \in DOMAIN StackCycles THEN StackCycles[i] ELSE 2, FALSE) \in OpcodeRows
    BY DEF OpcodeRows, ImpliedRows
  <2>. QED
    BY <2>1 DEF Listed, Row
<1>. QED
  BY <1>1, <1>2, <1>3, <1>4

\* The listings.
AllLines == UNION {SumLines, NestLines, PadLines, SavingLines, PadHandlerLines}

LEMMA LinesListed == \A l \in AllLines : Listed(l.instr, l.mode)
<1>1. /\ Listed("ADC", "imm") /\ Listed("ADC", "zpg_")
      /\ Listed("SBC", "imm") /\ Listed("SBC", "zpg_")
      /\ Listed("LDA", "imm") /\ Listed("LDA", "zpg_") /\ Listed("LDA", "abs_")
      /\ Listed("CMP", "zpg_") /\ Listed("STA", "zpg_") /\ Listed("STA", "abs_")
  BY AccListed, StaListed DEF AccFirst, AccPlace
<1>2. /\ \A i \in {"TXS", "CLI", "CLC", "SEC", "PHA", "PLA", "TXA", "TAX", "INX", "DEY", "RTI",
                   "PHP", "PLP", "BRK", "RTS"} : Listed(i, "impl")
      /\ Listed("BNE", "rel")
  BY OthersListed DEF ImpliedCode, BranchFirst
<1>3. \A l \in SumLines : Listed(l.instr, l.mode)
  BY <1>1, <1>2, OthersListed DEF SumLines, Line, Implied
<1>4. \A l \in NestLines : Listed(l.instr, l.mode)
  BY <1>1, <1>2, OthersListed DEF NestLines, Line, Implied
<1>5. \A l \in PadLines : Listed(l.instr, l.mode)
  <2>1. Listed("LSR", "acc") /\ Listed("ROL", "zpg_")
    BY ModifyListed DEF ModifyFirst, ModifyPlace
  <2>. QED
    BY <1>1, <1>2, <2>1, OthersListed DEF PadLines, Line, Implied
<1>6. \A l \in SavingLines \union PadHandlerLines : Listed(l.instr, l.mode)
  BY <1>1, <1>2, OthersListed DEF SavingLines, PadHandlerLines, Line, Implied
<1>. QED
  BY <1>3, <1>4, <1>5, <1>6 DEF AllLines

\* Lines that have no byte in common.
Apart(lines) == \A l, m \in lines : \/ l = m
                                    \/ l.at + InstLen[l.mode] <= m.at
                                    \/ m.at + InstLen[m.mode] <= l.at

\* Where lines lie, and the cells of them.
Places == 32768 .. 34000
LineCells == 32768 .. 34002

\* Programs lie well below the handlers.
MainPlaces == 32768 .. 33000
HandlerPlaces == 33200 .. 34000

\* A line has a place, a length, an argument and an opcode.
LineFits(l) == l.at \in Places /\ l.mode \in DOMAIN InstLen /\ l.arg \in Word
Placed(lines) == \A l \in lines : LineFits(l) /\ Listed(l.instr, l.mode)

\* The listings are well formed.
LEMMA AllApart ==
  /\ Apart(SumLines) /\ Apart(NestLines) /\ Apart(PadLines)
  /\ Apart(SavingLines) /\ Apart(PadHandlerLines)
<1>1. Apart(SumLines)
  BY DEF Apart, SumLines, Line, Implied, InstLen, Main
<1>2. Apart(NestLines)
  BY DEF Apart, NestLines, Line, Implied, InstLen, Main
<1>3. Apart(PadLines)
  BY DEF Apart, PadLines, Line, Implied, InstLen, Main
<1>4. Apart(SavingLines)
  BY DEF Apart, SavingLines, Line, Implied, InstLen, NmiAt, IrqAt
<1>5. Apart(PadHandlerLines)
  BY DEF Apart, PadHandlerLines, Line, Implied, InstLen, PadNmiAt
<1>. QED
  BY <1>1, <1>2, <1>3, <1>4, <1>5

\* The modes of the lines.
LineModes == {"impl", "acc", "imm", "zpg_", "abs_", "rel"}

LEMMA LineModesOfAll == \A l \in AllLines : l.mode \in LineModes
<1>1. \A l \in SumLines : l.mode \in LineModes
  BY DEF SumLines, Line, Implied, LineModes
<1>2. \A l \in NestLines : l.mode \in LineModes
  BY DEF NestLines, Line, Implied, LineModes
<1>3. \A l \in PadLines : l.mode \in LineModes
  BY DEF PadLines, Line, Implied, LineModes
<1>4. \A l \in SavingLines \union PadHandlerLines : l.mode \in LineModes
  BY DEF SavingLines, PadHandlerLines, Line, Implied, LineModes
<1>. QED
  BY <1>1, <1>2, <1>3, <1>4 DEF AllLines

LEMMA LinesFit ==
  /\ \A l \in SumLines \union NestLines \union PadLines : LineFits(l) /\ l.at \in MainPlaces
  /\ \A l \in SavingLines \union PadHandlerLines : LineFits(l) /\ l.at \in HandlerPlaces
<1>1. \A l \in AllLines : l.mode \in DOMAIN InstLen
  <2>1. LineModes \subseteq DOMAIN InstLen
    BY DEF LineModes, InstLen
  <2>. QED
    BY <2>1, LineModesOfAll
<1>2. /\ MainPlaces \subseteq Places /\ HandlerPlaces \subseteq Places
  BY DEF MainPlaces, HandlerPlaces, Places
<1>3. \A l \in SumLines \union NestLines \union PadLines : l.at \in MainPlaces
  <2>1. \A l \in SumLines : l.at \in MainPlaces
    BY DEF MainPlaces, SumLines, Line, Implied, Main
  <2>2. \A l \in NestLines : l.at \in MainPlaces
    BY DEF MainPlaces, NestLines, Line, Implied, Main
  <2>3. \A l \in PadLines : l.at \in MainPlaces
    BY DEF MainPlaces, PadLines, Line, Implied, Main
  <2>. QED
    BY <2>1, <2>2, <2>3
<1>4. \A l \in SavingLines \union PadHandlerLines : l.at \in HandlerPlaces
  <2>1. \A l \in SavingLines : l.at \in HandlerPlaces
    BY DEF HandlerPlaces, SavingLines, Line, Implied, NmiAt, IrqAt
  <2>2. \A l \in PadHandlerLines : l.at \in HandlerPlaces
    BY DEF HandlerPlaces, PadHandlerLines, Line, Implied, PadNmiAt
  <2>. QED
    BY <2>1, <2>2
<1>5. \A l \in AllLines : l.arg \in Word
  <2>1. \A l \in SumLines : l.arg \in Word
    BY Ranges DEF SumLines, Line, Implied, Main, PPUSTATUS
  <2>2. \A l \in NestLines : l.arg \in Word
    BY Ranges DEF NestLines, Line, Implied, Main
  <2>3. \A l \in PadLines : l.arg \in Word
    BY Ranges DEF PadLines, Line, Implied, Main, JOY1
  <2>4. \A l \in SavingLines \union PadHandlerLines : l.arg \in Word
    BY Ranges DEF SavingLines, PadHandlerLines, Line, Implied, JOY2
  <2>. QED
    BY <2>1, <2>2, <2>3, <2>4 DEF AllLines
<1>. QED
  BY <1>1, <1>2, <1>3, <1>4, <1>5 DEF LineFits, AllLines

LEMMA AllPlaced == Placed(AllLines)
BY LinesFit, LinesListed DEF Placed, AllLines

LEMMA Lengths == \A mode \in DOMAIN InstLen : InstLen[mode] \in 1 .. 3
BY DEF InstLen

LEMMA Spans ==
  \A at \in Places, n \in 1 .. 3 :
    \A k \in 0 .. n - 1 : /\ at + k \in at .. at + n - 1
                          /\ (at + k) - at = k
                          /\ at + k \in LineCells
BY DEF Places, LineCells

LEMMA SpansApart ==
  \A at, to \in Places, n, m \in 1 .. 3 :
    \A cell \in at .. at + n - 1 :
      cell \in to .. to + m - 1 => ~ (at + n <= to) /\ ~ (to + m <= at)
BY DEF Places

LEMMA MainBelow ==
  \A at \in MainPlaces, to \in HandlerPlaces, n \in 1 .. 3 : at + n <= to
BY DEF MainPlaces, HandlerPlaces

\* A program and its handlers are one listing.
LEMMA BothApart ==
  \A main \in {SumLines, NestLines, PadLines}, handlers \in {SavingLines, PadHandlerLines} :
    Apart(main \union handlers) /\ Placed(main \union handlers)
<1>. SUFFICES ASSUME NEW main \in {SumLines, NestLines, PadLines},
                     NEW handlers \in {SavingLines, PadHandlerLines}
              PROVE  Apart(main \union handlers) /\ Placed(main \union handlers)
  OBVIOUS
<1>1. Placed(main \union handlers)
  BY AllPlaced DEF Placed, AllLines
<1>2. ASSUME NEW l \in main, NEW m \in handlers
      PROVE  l.at + InstLen[l.mode] <= m.at
  <2>1. l.at \in MainPlaces /\ m.at \in HandlerPlaces
    BY LinesFit
  <2>2. InstLen[l.mode] \in 1 .. 3
    BY <1>1, Lengths DEF Placed, LineFits
  <2>. QED
    BY <2>1, <2>2, MainBelow
<1>. QED
  BY <1>1, <1>2, AllApart DEF Apart

\* The bytes of a line are where the line is.
LEMMA LinesAssembled ==
  ASSUME NEW lines, Apart(lines), Placed(lines), NEW nmiAt, NEW irqAt,
         NEW l \in lines, NEW k \in 0 .. InstLen[l.mode] - 1
  PROVE  /\ l.at + k \in DOMAIN Assembled(lines, nmiAt, irqAt)
         /\ Assembled(lines, nmiAt, irqAt)[l.at + k] = LineByte(l, k)
<1>. DEFINE cell == l.at + k
            found == LineAt(lines, cell)
<1>1. l.at \in Places /\ InstLen[l.mode] \in 1 .. 3
  BY Lengths DEF Placed, LineFits
<1>2. cell \in Covered(l) /\ cell - l.at = k /\ cell \in LineCells
  BY <1>1, Spans, Zenon DEF Covered
<1>. HIDE DEF cell
<1>3. found \in lines /\ cell \in Covered(found)
  BY <1>2 DEF LineAt
<1>. HIDE DEF found
<1>8. found = l
  <2>1. found.at \in Places /\ InstLen[found.mode] \in 1 .. 3
    BY <1>3, Lengths DEF Placed, LineFits
  <2>2. ~ (l.at + InstLen[l.mode] <= found.at) /\ ~ (found.at + InstLen[found.mode] <= l.at)
    BY <1>1, <1>2, <1>3, <2>1, SpansApart, Zenon DEF Covered
  <2>. QED
    BY <1>3, <2>2 DEF Apart
<1>4. cell \notin VectorCells
  BY <1>2 DEF VectorCells, LineCells
<1>5. cell \in (UNION {Covered(m) : m \in lines}) \union VectorCells
  BY <1>2
<1>6. Assembled(lines, nmiAt, irqAt)[cell] = LineByte(found, cell - found.at)
  BY <1>4, <1>5 DEF Assembled, found
<1>7. cell \in DOMAIN Assembled(lines, nmiAt, irqAt)
  BY <1>5 DEF Assembled
<1>. QED
  BY <1>2, <1>6, <1>7, <1>8 DEF cell

\* So are the vectors.
LEMMA VectorsAssembled ==
  ASSUME NEW lines, NEW nmiAt, NEW irqAt, NEW cell \in VectorCells
  PROVE  /\ cell \in DOMAIN Assembled(lines, nmiAt, irqAt)
         /\ Assembled(lines, nmiAt, irqAt)[cell] = VectorByte(cell, nmiAt, irqAt)
<1>1. cell \in (UNION {Covered(m) : m \in lines}) \union VectorCells
  OBVIOUS
<1>. QED
  BY <1>1, Zenon DEF Assembled

-----------------------------------------------------------------------------
(***************************************************************************)
(* What is true of the programs wherever interrupts come: the ROM is as it *)
(* was assembled; from some base of the stack the frames lie one below the *)
(* other; and each of what was suspended, and what runs, is at a place of  *)
(* its listing, with what it has saved still on the stack.                 *)
(***************************************************************************)
Shown == cart.shows \in {"handlers", "controller"}

RomIntact == DOMAIN mem \intersect PRG_ROM = {}

\* How far below `base' S has gone.
Depth(base, s) == (base - s) % BYTE

HandlerLines == IF cart.shows = "controller" THEN PadHandlerLines ELSE SavingLines

\* What the handler that answers f has pushed.
ASaved(f) == Seek(StackCell(f.low)) = f.reg.a
XSaved(f) == Seek(StackCell((f.low - 1) % BYTE)) = f.reg.x

\* The stages of a handler: at its first and last line, with A on the stack, on
\* the way of X to and from the stack, and with both there.
Untouched(f, at, r) ==
  /\ at \in {NmiAt, NmiAt + 12, IrqAt, IrqAt + 5, PadNmiAt, PadNmiAt + 5}
  /\ r.s = f.low /\ r.a = f.reg.a /\ r.x = f.reg.x
AIsSaved(f, at, r) ==
  /\ at \in {NmiAt + 1, NmiAt + 11, IrqAt + 1, IrqAt + 2, IrqAt + 4, PadNmiAt + 1, PadNmiAt + 4}
  /\ r.s = (f.low - 1) % BYTE /\ ASaved(f) /\ r.x = f.reg.x
XIsInA(f, at, r) ==
  /\ at \in {NmiAt + 2, NmiAt + 10}
  /\ r.s = (f.low - 1) % BYTE /\ ASaved(f) /\ r.a = f.reg.x
BothAreSaved(f, at, r) ==
  /\ at \in {NmiAt + 3, NmiAt + 5, NmiAt + 6, NmiAt + 7, NmiAt + 9}
  /\ r.s = (f.low - 2) % BYTE /\ ASaved(f) /\ XSaved(f)

\* At `at', with registers r, is the handler that answers f.
Handles(f, at, r) ==
  /\ f.kind = "interrupt"
  /\ \E l \in HandlerLines : l.at = at
  /\ r.y = f.reg.y
  /\ \/ Untouched(f, at, r) \/ AIsSaved(f, at, r) \/ XIsInA(f, at, r) \/ BothAreSaved(f, at, r)

\* There, or with flags q too, is one of the programs: what it has on the stack,
\* and the buttons it has read.
InSum(base, at, r) == /\ cart = Sum(cart.budget)
                      /\ \E l \in SumLines : l.at = at
                      /\ Depth(base, r.s) = 0

Called(base) == \E c \in frames : c.kind = "call" /\ c.pc = Main + 10 /\ Depth(base, c.low) = 2

InNest(base, at, r) ==
  /\ cart = Nest(cart.budget)
  /\ \E l \in NestLines : l.at = at
  /\ IF at <= Main + 10 THEN Depth(base, r.s) = 0
     ELSE /\ Called(base)
          /\ Depth(base, r.s) = IF at \in {Main + 16, Main + 17} THEN 3 ELSE 2

Latched == pads[JOY1].latched
Collected(n) == \A j \in 0 .. n - 1 : n - 1 - j \in Bits(Seek(16)) <=> j \in Latched
Reading(n) == pads[JOY1].index = n /\ pads[JOY1].strobing

\* Y counts down from 8; n buttons read are n bits in cell 16, first at the top,
\* and one more is on its way through A and C.
PadLoop(at, r, q) ==
  \/ at \in {Main, Main + 2, Main + 3}
  \/ at = Main + 5 /\ r.y = 8
  \/ at \in {Main + 7, Main + 10} /\ r.y = 8 /\ r.a = 1
  \/ at = Main + 11 /\ r.y = 8 /\ r.a = 0
  \/ at = Main + 14 /\ r.y \in 1 .. 8 /\ Reading(8 - r.y) /\ Collected(8 - r.y)
  \/ /\ at = Main + 17 /\ r.y \in 1 .. 8 /\ Reading(9 - r.y) /\ Collected(8 - r.y)
     /\ 0 \in Bits(r.a) <=> 8 - r.y \in Latched
  \/ /\ at = Main + 18 /\ r.y \in 1 .. 8 /\ Reading(9 - r.y) /\ Collected(8 - r.y)
     /\ C \in q <=> 8 - r.y \in Latched
  \/ at = Main + 20 /\ r.y \in 1 .. 8 /\ Reading(9 - r.y) /\ Collected(9 - r.y)
  \/ /\ at = Main + 21 /\ r.y \in 0 .. 7 /\ Reading(8 - r.y) /\ Collected(8 - r.y)
     /\ Z \in q <=> r.y = 0
  \/ at = Main + 23 /\ Collected(8)

InPad(base, at, r, q) == /\ cart = ReadPad(cart.budget)
                         /\ PadLoop(at, r, q)
                         /\ Depth(base, r.s) = 0

InMain(base, at, r, q) == InSum(base, at, r) \/ InNest(base, at, r) \/ InPad(base, at, r, q)

Context(base, at, r, q) == InMain(base, at, r, q) \/ \E f \in frames : Handles(f, at, r)

\* The events that have come, without those that wait.
Used == events - (IF nmi THEN 1 ELSE 0) - (IF irq THEN 1 ELSE 0)

Size(f) == IF f.kind = "call" THEN 2 ELSE 3

\* The frames lie apart, above S; an event has brought at most an interrupt's
\* three bytes and the two that its handler saves.
Nested(base) ==
  /\ \A f \in frames : /\ Depth(base, f.low) = Depth(base, f.high) + Size(f)
                       /\ Depth(base, f.low) <= Depth(base, reg.s)
                       /\ Depth(base, f.low) <= 5 * Used + 6
                       /\ f.kind = "call" => Depth(base, f.low) = 2
                       /\ f.reg.s = f.high
  /\ \A f, g \in frames : \/ f = g
                          \/ Depth(base, f.low) <= Depth(base, g.high)
                          \/ Depth(base, g.low) <= Depth(base, f.high)

Follows(base) == /\ Nested(base)
                 /\ Context(base, pc, reg, p)
                 /\ \A g \in frames : g.kind = "interrupt" => Context(base, g.pc, g.reg, g.p)

ProgramInv == /\ Used >= 0
              /\ Shown => RomIntact /\ \E base \in Byte : Follows(base)

-----------------------------------------------------------------------------
(* The listings, as the CPU decodes them.                                  *)

\* A cartridge with a program's listing in its ROM, which nothing has overwritten.
Loaded(lines, nmiAt, irqAt) == /\ cart.rom = Assembled(lines, nmiAt, irqAt)
                               /\ cart.prgLen = 16384 /\ cart.battery = FALSE
                               /\ RomIntact
                               /\ Apart(lines) /\ Placed(lines)

LEMMA DevicesBelow ==
  ASSUME NEW a \in Int, ~(a <= 16407)
  PROVE  ~IsDevice(a)
<1>1. \A lo : a \notin lo .. 16407
  BY SMT
<1>2. \A lo : a \notin lo .. 16383
  <2>1. ~(a <= 16383)
    OBVIOUS
  <2>. QED
    BY <2>1, SMT
<1>. QED
  BY <1>1, <1>2 DEF IsDevice

\* Cells of such a cartridge are their own first mirrors.
LEMMA LineAddresses ==
  ASSUME cart.prgLen = 16384, NEW a \in LineCells
  PROVE  /\ a \in Word /\ a % WORD = a /\ a \in PRG_ROM
         /\ Cell(a) = a /\ InMemory(a) /\ ~IsDevice(a) /\ Mapped(a) /\ a \notin PADS
<1>1. a \in Int /\ a >= 32768 /\ a <= 34002
  BY DEF LineCells
<1>2. a \in PRG_ROM
  BY <1>1, RomRange, ConstantInts
<1>3. a \in Word
  BY <1>1, Ranges
<1>4. a % WORD = a
  BY <1>1 DEF WORD
<1>5. Cell(a) = a
  <2>1. ~(a < RAM_END)
    BY <1>1 DEF RAM_END
  <2>2. Cell(a) = 32768 + ((a - 32768) % 16384)
    BY <1>2, <2>1 DEF Cell
  <2>3. (a - 32768) % 16384 = a - 32768
    BY <1>1
  <2>. QED
    BY <1>1, <2>2, <2>3
<1>6. InMemory(a)
  BY <1>2 DEF InMemory
<1>7. ~IsDevice(a) /\ a \notin PADS
  <2>1. ~(a <= 16407) /\ a \notin {16406, 16407}
    BY <1>1
  <2>. QED
    BY <1>1, <2>1, DevicesBelow DEF PADS
<1>. QED
  BY <1>2, <1>3, <1>4, <1>5, <1>6, <1>7 DEF Mapped

\* What the CPU reads of a line.
LEMMA LineShows ==
  ASSUME NEW lines, NEW nmiAt, NEW irqAt, Loaded(lines, nmiAt, irqAt),
         NEW l \in lines, NEW k \in 0 .. InstLen[l.mode] - 1
  PROVE  /\ l.at + k \in LineCells
         /\ Seek((l.at + k) % WORD) = LineByte(l, k)
<1>. DEFINE a == l.at + k
<1>1. l.at \in Places /\ InstLen[l.mode] \in 1 .. 3
  BY Lengths DEF Loaded, Placed, LineFits
<1>2. a \in LineCells
  BY <1>1, Spans, Zenon
<1>3. a \in DOMAIN cart.rom /\ cart.rom[a] = LineByte(l, k)
  BY LinesAssembled DEF Loaded
<1>. HIDE DEF a
<1>4. a % WORD = a /\ a \in PRG_ROM /\ Cell(a) = a
  BY <1>2, LineAddresses DEF Loaded
<1>5. Seek(a) = LineByte(l, k)
  BY <1>3, <1>4 DEF Seek, Loaded, RomIntact
<1>. QED
  BY <1>2, <1>4, <1>5 DEF a

\* The vectors.
LEMMA VectorShows ==
  ASSUME NEW lines, NEW nmiAt \in Places, NEW irqAt \in Places, Loaded(lines, nmiAt, irqAt)
  PROVE  /\ GetDWord(NMI_VECTOR, FALSE) = nmiAt
         /\ GetDWord(RESET_VECTOR, FALSE) = Main
         /\ GetDWord(IRQ_VECTOR, FALSE) = irqAt
<1>1. ASSUME NEW a \in 65530 .. 65535
      PROVE  Seek(a) = VectorByte(a - 16384, nmiAt, irqAt)
  <2>. DEFINE c == a - 16384
  <2>1. a \in PRG_ROM /\ ~(a < RAM_END)
    BY <1>1, RomRange, ConstantInts DEF RAM_END
  <2>2. c \in VectorCells
    BY DEF VectorCells
  <2>3. Cell(a) = c
    <3>1. Cell(a) = 32768 + ((a - 32768) % 16384)
      BY <2>1 DEF Cell, Loaded
    <3>2. (a - 32768) % 16384 = a - 49152
      OBVIOUS
    <3>. QED
      BY <3>1, <3>2
  <2>4. c \in PRG_ROM
    <3>1. c \in Int /\ c >= 32768 /\ c < 65536
      OBVIOUS
    <3>. QED
      BY <3>1, RomRange, ConstantInts
  <2>. HIDE DEF c
  <2>5. c \in DOMAIN cart.rom /\ cart.rom[c] = VectorByte(c, nmiAt, irqAt)
    BY <2>2, VectorsAssembled DEF Loaded
  <2>6. Seek(a) = VectorByte(c, nmiAt, irqAt)
    BY <2>3, <2>4, <2>5 DEF Seek, Loaded, RomIntact
  <2>. QED
    BY <2>6 DEF c
<1>. DEFINE word(a) == GetDWord(a, FALSE)
<1>2. ASSUME NEW a \in Int, a >= 0, a < 65535
      PROVE  word(a) = Seek(a) + BYTE * Seek(a + 1)
  <2>1. (a + 1) % WORD = a + 1
    BY <1>2 DEF WORD
  <2>. QED
    BY <2>1 DEF GetDWord, SecondByte
<1>3. /\ NMI_VECTOR \in Int /\ NMI_VECTOR = 65530 /\ NMI_VECTOR + 1 = 65531
      /\ RESET_VECTOR \in Int /\ RESET_VECTOR = 65532 /\ RESET_VECTOR + 1 = 65533
      /\ IRQ_VECTOR \in Int /\ IRQ_VECTOR = 65534 /\ IRQ_VECTOR + 1 = 65535
  BY DEF NMI_VECTOR, RESET_VECTOR, IRQ_VECTOR
<1>4. /\ Seek(NMI_VECTOR) = Lower(nmiAt) /\ Seek(NMI_VECTOR + 1) = Upper(nmiAt)
      /\ Seek(RESET_VECTOR) = Lower(Main) /\ Seek(RESET_VECTOR + 1) = Upper(Main)
      /\ Seek(IRQ_VECTOR) = Lower(irqAt) /\ Seek(IRQ_VECTOR + 1) = Upper(irqAt)
  BY <1>1, <1>3 DEF VectorByte
<1>. HIDE DEF word
<1>5. /\ word(NMI_VECTOR) = Lower(nmiAt) + BYTE * Upper(nmiAt)
      /\ word(RESET_VECTOR) = Lower(Main) + BYTE * Upper(Main)
      /\ word(IRQ_VECTOR) = Lower(irqAt) + BYTE * Upper(irqAt)
  <2>1. /\ NMI_VECTOR \in Int /\ NMI_VECTOR >= 0 /\ NMI_VECTOR < 65535
        /\ RESET_VECTOR \in Int /\ RESET_VECTOR >= 0 /\ RESET_VECTOR < 65535
        /\ IRQ_VECTOR \in Int /\ IRQ_VECTOR >= 0 /\ IRQ_VECTOR < 65535
    BY DEF NMI_VECTOR, RESET_VECTOR, IRQ_VECTOR
  <2>. HIDE DEF NMI_VECTOR, RESET_VECTOR, IRQ_VECTOR
  <2>. QED
    BY <1>2, <1>4, <2>1
<1>6. Main \in Word /\ nmiAt \in Word /\ irqAt \in Word
  BY Ranges DEF Places, Main
<1>7. \A w \in Word : Lower(w) + BYTE * Upper(w) = w
  BY Bytes
<1>. HIDE DEF Main, NMI_VECTOR, RESET_VECTOR, IRQ_VECTOR
<1>8. /\ word(NMI_VECTOR) = nmiAt /\ word(RESET_VECTOR) = Main /\ word(IRQ_VECTOR) = irqAt
  BY <1>5, <1>6, <1>7
<1>. QED
  BY <1>8 DEF word

\* The lengths of the modes.
LEMMA LineLengths ==
  /\ InstLen["impl"] = 1 /\ InstLen["acc"] = 1 /\ InstLen["imm"] = 2
  /\ InstLen["zpg_"] = 2 /\ InstLen["rel"] = 2 /\ InstLen["abs_"] = 3
BY DEF InstLen

\* The address of the operand, by mode.
LEMMA Arguing ==
  /\ Entry.addrm = "imm" => ArgAddress = (pc + 1) % WORD
  /\ Entry.addrm = "zpg_" => ArgAddress = Fetch(1)
  /\ Entry.addrm = "rel" => ArgAddress = (pc + 2 + Signed(Fetch(1))) % WORD
  /\ Entry.addrm = "abs_" => ArgAddress = FetchWord
BY DEF ArgAddress, GetDWord, SecondByte, Indexed

\* What decoding makes of the line at PC.
LEMMA LineDecodes ==
  ASSUME NEW lines, NEW nmiAt, NEW irqAt, Loaded(lines, nmiAt, irqAt),
         NEW l \in lines, pc = l.at, l.mode \in LineModes
  PROVE  /\ Entry.instr = l.instr /\ Entry.addrm = l.mode
         /\ Decodable
         /\ NextInstruction = l.at + InstLen[l.mode]
         /\ l.mode = "imm" => /\ ArgAddress = l.at + 1
                              /\ ReadValues(ArgAddress) = {Lower(l.arg)}
                              /\ PadsAfterRead(ArgAddress) = pads
         /\ l.mode = "zpg_" => ArgAddress = Lower(l.arg)
         /\ l.mode = "abs_" => ArgAddress = l.arg
         /\ l.mode = "rel" => ArgAddress = (l.at + 2 + Signed(Lower(l.arg))) % WORD
<1>1. /\ l.at \in Places /\ l.mode \in DOMAIN InstLen /\ l.arg \in Word
      /\ Listed(l.instr, l.mode) /\ InstLen[l.mode] \in 1 .. 3
  BY Lengths DEF Loaded, Placed, LineFits
<1>2. ASSUME NEW k \in 0 .. InstLen[l.mode] - 1
      PROVE  /\ (pc + k) % WORD = l.at + k /\ l.at + k \in LineCells
             /\ Fetch(k) = LineByte(l, k)
  <2>1. l.at + k \in LineCells /\ Seek((l.at + k) % WORD) = LineByte(l, k)
    BY LineShows
  <2>2. (l.at + k) % WORD = l.at + k
    BY <2>1, LineAddresses DEF Loaded
  <2>. QED
    BY <2>1, <2>2 DEF Fetch
<1>3. Entry.instr = l.instr /\ Entry.addrm = l.mode
  <2>1. 0 \in 0 .. InstLen[l.mode] - 1
    BY <1>1
  <2>2. Fetch(0) = Code(l.instr, l.mode)
    BY <1>2, <2>1 DEF LineByte
  <2>. QED
    BY <1>1, <2>2, CodeDecodes DEF Entry
<1>4. Decodable
  <2>1. ASSUME NEW a \in Decoded
        PROVE  a \in LineCells
    <3>1. Entry.addrm # "ind_" /\ Entry.addrm # "INVALID"
      BY <1>3 DEF LineModes
    <3>2. CASE a = pc
      BY <1>1, <3>2 DEF Places, LineCells
    <3>3. CASE \E k \in 1 .. InstLen[l.mode] - 1 : a = (pc + k) % WORD
      <4>1. PICK k \in 1 .. InstLen[l.mode] - 1 : a = (pc + k) % WORD
        BY <3>3
      <4>2. k \in 0 .. InstLen[l.mode] - 1
        BY <1>1
      <4>. QED
        BY <1>2, <4>1, <4>2
    <3>. QED
      BY <1>3, <2>1, <3>1, <3>2, <3>3 DEF Decoded
  <2>2. Entry.addrm # "INVALID"
    BY <1>3 DEF LineModes
  <2>3. \A a \in Decoded : Mapped(a)
    BY <2>1, LineAddresses DEF Loaded
  <2>. QED
    BY <2>2, <2>3 DEF Decodable
<1>5. NextInstruction = l.at + InstLen[l.mode]
  <2>. DEFINE n == InstLen[l.mode]
  <2>1. n \in 1 .. 3 /\ l.at \in Int /\ l.at >= 32768 /\ l.at <= 34000
    BY <1>1 DEF Places
  <2>2. NextInstruction = (l.at + n) % WORD
    BY <1>3 DEF NextInstruction
  <2>. HIDE DEF n
  <2>3. (l.at + n) % WORD = l.at + n
    BY <2>1 DEF WORD
  <2>. QED
    BY <2>2, <2>3 DEF n
<1>6. CASE l.mode = "imm"
  <2>1. 1 \in 0 .. InstLen[l.mode] - 1
    BY <1>6, LineLengths
  <2>2. /\ (pc + 1) % WORD = l.at + 1 /\ l.at + 1 \in LineCells /\ Fetch(1) = Lower(l.arg)
    BY <1>2, <2>1 DEF LineByte
  <2>3. ArgAddress = l.at + 1
    BY <1>3, <1>6, <2>2, Arguing
  <2>4. ReadValues(l.at + 1) = {Seek(l.at + 1)} /\ l.at + 1 \notin PADS
    BY <2>2, LineAddresses DEF Loaded, ReadValues
  <2>5. Seek(l.at + 1) = Lower(l.arg)
    BY <2>2 DEF Fetch
  <2>. QED
    BY <1>3, <1>4, <1>5, <1>6, <2>3, <2>4, <2>5 DEF PadsAfterRead
<1>7. CASE l.mode = "zpg_" \/ l.mode = "rel"
  <2>1. 1 \in 0 .. InstLen[l.mode] - 1
    BY <1>7, LineLengths
  <2>2. Fetch(1) = Lower(l.arg)
    BY <1>2, <2>1 DEF LineByte
  <2>. QED
    BY <1>3, <1>4, <1>5, <1>7, <2>2, Arguing
<1>8. CASE l.mode = "abs_"
  <2>1. 1 \in 0 .. InstLen[l.mode] - 1 /\ 2 \in 0 .. InstLen[l.mode] - 1
    BY <1>8, LineLengths
  <2>2. Fetch(1) = Lower(l.arg) /\ Fetch(2) = Upper(l.arg)
    BY <1>2, <2>1 DEF LineByte
  <2>3. l.arg \in Word
    BY <1>1
  <2>4. FetchWord = l.arg
    BY <2>2, <2>3, Bytes DEF FetchWord
  <2>. QED
    BY <1>3, <1>4, <1>5, <1>8, <2>4, Arguing
<1>. QED
  BY <1>3, <1>4, <1>5, <1>6, <1>7, <1>8 DEF LineModes

\* The action that executes an instruction.
LEMMA Executing ==
  /\ Load => Entry.instr \in {"LDA", "LDX", "LDY"}
  /\ Arithmetic => Entry.instr \in {"ADC", "SBC"}
  /\ Logical => Entry.instr \in {"AND", "ORA", "EOR"}
  /\ Test => Entry.instr \in {"CMP", "CPX", "CPY", "BIT"}
  /\ Store => Entry.instr \in {"STA", "STX", "STY"}
  /\ ModifyAccumulator => Entry.instr \in {"ASL", "LSR", "ROL", "ROR"} /\ Accumulator
  /\ ModifyMemory => Entry.instr \in {"ASL", "LSR", "ROL", "ROR", "INC", "DEC"} /\ ~Accumulator
  /\ CountRegister => Entry.instr \in {"INX", "INY", "DEX", "DEY"}
  /\ Transfer => Entry.instr \in {"TAX", "TAY", "TXA", "TYA", "TSX", "TXS"}
  /\ ChangeFlag => Entry.instr \in {"SEC", "SED", "SEI", "CLC", "CLD", "CLI", "CLV"}
  /\ Idle => Entry.instr \in {"NOP", "INVALID"}
  /\ Branch => Entry.instr \in {"BCC", "BCS", "BNE", "BEQ", "BPL", "BMI", "BVC", "BVS"}
  /\ Jump => Entry.instr = "JMP"
  /\ JumpToSubroutine => Entry.instr = "JSR"
  /\ ReturnFromSubroutine => Entry.instr = "RTS"
  /\ ReturnFromInterrupt => Entry.instr = "RTI"
  /\ PushRegister => Entry.instr \in {"PHA", "PHP"}
  /\ PullAccumulator => Entry.instr = "PLA"
  /\ PullStatus => Entry.instr = "PLP"
  /\ Break => Entry.instr = "BRK"
BY DEF Load, Arithmetic, Logical, Test, Store, ModifyAccumulator, ModifyMemory,
         CountRegister, Transfer, ChangeFlag, Idle, Branch, Jump, JumpToSubroutine,
         ReturnFromSubroutine, ReturnFromInterrupt, PushRegister, PullAccumulator, PullStatus,
         Break, Executes, Moves, Raised, Cleared, Condition

\* The instructions of the programs, and the actions that execute them.
LEMMA Dispatch ==
  ASSUME Instruction
  PROVE  /\ Entry.instr \in {"LDA", "LDX", "LDY"} => Load
         /\ Entry.instr \in {"ADC", "SBC"} => Arithmetic
         /\ Entry.instr = "CMP" => Test
         /\ Entry.instr = "STA" => Store
         /\ Entry.instr \in {"LSR", "ROL"} =>
              IF Accumulator THEN ModifyAccumulator ELSE ModifyMemory
         /\ Entry.instr \in {"INX", "DEY"} => CountRegister
         /\ Entry.instr \in {"TAX", "TXA", "TXS"} => Transfer
         /\ Entry.instr \in {"SEC", "CLC", "CLI"} => ChangeFlag
         /\ Entry.instr = "BNE" => Branch
         /\ Entry.instr = "JMP" => Jump
         /\ Entry.instr = "JSR" => JumpToSubroutine
         /\ Entry.instr = "RTS" => ReturnFromSubroutine
         /\ Entry.instr = "RTI" => ReturnFromInterrupt
         /\ Entry.instr \in {"PHA", "PHP"} => PushRegister
         /\ Entry.instr = "PLA" => PullAccumulator
         /\ Entry.instr = "PLP" => PullStatus
         /\ Entry.instr = "BRK" => Break
BY Executing DEF Instruction

-----------------------------------------------------------------------------
(* The depth of the stack.                                                 *)

\* Pushing goes down, pulling goes up, and one depth is one S.
LEMMA Depths ==
  ASSUME NEW base \in Byte, NEW s \in Byte
  PROVE  /\ Depth(base, s) \in Nat /\ Depth(base, s) <= 255
         /\ \A t \in Byte : Depth(base, s) = Depth(base, t) => s = t
         /\ \A n \in 0 .. 3 : /\ (s - n) % BYTE \in Byte /\ (s + n) % BYTE \in Byte
                              /\ Depth(base, s) + n <= 255 =>
                                   Depth(base, (s - n) % BYTE) = Depth(base, s) + n
                              /\ Depth(base, s) >= n =>
                                   Depth(base, (s + n) % BYTE) = Depth(base, s) - n
<1>1. base \in 0 .. 255 /\ s \in 0 .. 255
  BY DEF Byte, BYTE
<1>2. ASSUME NEW t \in 0 .. 255
      PROVE  Depth(base, t) = IF base < t THEN base - t + 256 ELSE base - t
  <2>1. base - t \in -256 .. 511
    BY <1>1
  <2>2. (base - t) % BYTE = IF base - t < 0 THEN base - t + 256
                            ELSE IF base - t < 256 THEN base - t ELSE base - t - 256
    BY <2>1, Around
  <2>. QED
    BY <1>1, <2>2 DEF Depth
<1>3. ASSUME NEW n \in 0 .. 3
      PROVE  /\ (s - n) % BYTE = IF s < n THEN s - n + 256 ELSE s - n
             /\ (s + n) % BYTE = IF s + n < 256 THEN s + n ELSE s + n - 256
  <2>1. s - n \in -256 .. 511 /\ s + n \in -256 .. 511
    BY <1>1
  <2>. QED
    BY <1>1, <2>1, Around
<1>. DEFINE depth(t) == Depth(base, t)
<1>. HIDE DEF depth
<1>4. depth(s) = (IF base < s THEN base - s + 256 ELSE base - s) /\ depth(s) \in 0 .. 255
  <2>1. depth(s) = IF base < s THEN base - s + 256 ELSE base - s
    BY <1>1, <1>2 DEF depth
  <2>. QED
    BY <1>1, <2>1
<1>5. ASSUME NEW t \in Byte, Depth(base, s) = Depth(base, t)
      PROVE  s = t
  <2>1. t \in 0 .. 255
    BY DEF Byte, BYTE
  <2>2. depth(t) = (IF base < t THEN base - t + 256 ELSE base - t) /\ depth(s) = depth(t)
    BY <1>2, <1>5, <2>1 DEF depth
  <2>. QED
    BY <1>1, <1>4, <2>1, <2>2
<1>6. ASSUME NEW n \in 0 .. 3
      PROVE  /\ (s - n) % BYTE \in Byte /\ (s + n) % BYTE \in Byte
             /\ Depth(base, s) + n <= 255 => Depth(base, (s - n) % BYTE) = Depth(base, s) + n
             /\ Depth(base, s) >= n => Depth(base, (s + n) % BYTE) = Depth(base, s) - n
  <2>. DEFINE below == IF s < n THEN s - n + 256 ELSE s - n
              above == IF s + n < 256 THEN s + n ELSE s + n - 256
  <2>1. below \in 0 .. 255 /\ above \in 0 .. 255
    BY <1>1
  <2>2. /\ depth(below) = IF base < below THEN base - below + 256 ELSE base - below
        /\ depth(above) = IF base < above THEN base - above + 256 ELSE base - above
    <3>. HIDE DEF below, above
    <3>. QED
      BY <1>2, <2>1 DEF depth
  <2>3. /\ depth(s) + n <= 255 => depth(below) = depth(s) + n
        /\ depth(s) >= n => depth(above) = depth(s) - n
    BY <1>1, <1>4, <2>2
  <2>4. (s - n) % BYTE = below /\ (s + n) % BYTE = above
    BY <1>3
  <2>5. below \in Byte /\ above \in Byte
    BY <2>1 DEF Byte, BYTE
  <2>. HIDE DEF below, above
  <2>. QED
    BY <2>3, <2>4, <2>5 DEF depth
<1>. QED
  BY <1>4, <1>5, <1>6 DEF depth

-----------------------------------------------------------------------------
(* What a step leaves alone.                                               *)

\* The stack down to a depth is as it was; so are the bits read so far.
StackKept(base, d) ==
  \A s \in Byte : Depth(base, s) < d => Seek(StackCell(s))' = Seek(StackCell(s))

PadKept == /\ Seek(16)' = Seek(16)
           /\ pads[JOY1].index' = pads[JOY1].index
           /\ pads[JOY1].strobing' = pads[JOY1].strobing
           /\ pads[JOY1].latched' = pads[JOY1].latched

LEMMA FrameTypes ==
  ASSUME CpuTypes, NEW f \in frames
  PROVE  /\ f.kind \in {"call", "interrupt"} /\ f.low \in Byte /\ f.high \in Byte
         /\ f.pc \in Word /\ f.p \in SUBSET Flags /\ f.reg \in Registers
         /\ Size(f) \in {2, 3} /\ (f.kind = "call" <=> Size(f) = 2)
BY DEF CpuTypes, TypeOK, Frame, Registers, Size

\* The count of what has been answered leaves room on the stack.
LEMMA UsedBound ==
  ASSUME CpuTypes
  PROVE  Used \in Int /\ Used <= 49 /\ (nmi => Used <= 48)
<1>1. events \in 0 .. MaxEvents /\ MaxEvents \in Nat /\ MaxEvents <= 49
  BY EventAssumption, NestingAssumption DEF CpuTypes, TypeOK
<1>. QED
  BY <1>1 DEF Used

\* A handler lasts while its frame and the stack down to S are left alone.
LEMMA HandlerKept ==
  ASSUME NEW base \in Byte, UNCHANGED cart, NEW f, f.low \in Byte, NEW at, NEW r,
         r.s \in Byte, Handles(f, at, r), Depth(base, f.low) <= 253,
         StackKept(base, Depth(base, r.s))
  PROVE  Handles(f, at, r)' /\ Depth(base, f.low) <= Depth(base, r.s)
<1>1. \A n \in 0 .. 3 :
        /\ (f.low - n) % BYTE \in Byte
        /\ Depth(base, f.low) + n <= 255 =>
             Depth(base, (f.low - n) % BYTE) = Depth(base, f.low) + n
  BY Depths
<1>2. /\ (f.low - 1) % BYTE \in Byte /\ Depth(base, (f.low - 1) % BYTE) = Depth(base, f.low) + 1
      /\ (f.low - 2) % BYTE \in Byte /\ Depth(base, (f.low - 2) % BYTE) = Depth(base, f.low) + 2
      /\ Depth(base, f.low) \in Int /\ Depth(base, r.s) \in Int
  <2>1. Depth(base, f.low) \in Nat /\ Depth(base, r.s) \in Nat
    BY Depths
  <2>2. 1 \in 0 .. 3 /\ 2 \in 0 .. 3
    OBVIOUS
  <2>3. Depth(base, f.low) + 1 <= 255 /\ Depth(base, f.low) + 2 <= 255
    BY <2>1
  <2>. QED
    BY <1>1, <2>1, <2>2, <2>3
<1>3. \A l : l \in HandlerLines' <=> l \in HandlerLines
  BY DEF HandlerLines
<1>4. CASE Untouched(f, at, r)
  <2>1. Untouched(f, at, r)'
    BY <1>4 DEF Untouched
  <2>. QED
    BY <1>2, <1>3, <1>4, <2>1 DEF Handles, Untouched
<1>5. CASE AIsSaved(f, at, r) \/ XIsInA(f, at, r)
  <2>1. r.s = (f.low - 1) % BYTE /\ ASaved(f)
    BY <1>5 DEF AIsSaved, XIsInA
  <2>2. Depth(base, f.low) < Depth(base, r.s)
    BY <1>2, <2>1
  <2>3. ASaved(f)'
    BY <2>1, <2>2 DEF ASaved, StackKept
  <2>. HIDE DEF ASaved
  <2>4. AIsSaved(f, at, r)' \/ XIsInA(f, at, r)'
    BY <1>5, <2>3 DEF AIsSaved, XIsInA
  <2>. QED
    BY <1>2, <1>3, <2>2, <2>4 DEF Handles
<1>6. CASE BothAreSaved(f, at, r)
  <2>1. r.s = (f.low - 2) % BYTE /\ ASaved(f) /\ XSaved(f)
    BY <1>6 DEF BothAreSaved
  <2>2. /\ Depth(base, f.low) < Depth(base, r.s)
        /\ Depth(base, (f.low - 1) % BYTE) < Depth(base, r.s)
    BY <1>2, <2>1
  <2>3. ASaved(f)'
    BY <2>1, <2>2 DEF ASaved, StackKept
  <2>4. XSaved(f)'
    BY <1>2, <2>1, <2>2 DEF XSaved, StackKept
  <2>5. BothAreSaved(f, at, r)'
    BY <1>6, <2>3, <2>4 DEF BothAreSaved
  <2>. QED
    BY <1>2, <1>3, <2>2, <2>5 DEF Handles
<1>. QED
  BY <1>4, <1>5, <1>6 DEF Handles

\* So does the loop that reads, while the bits and the controller are.
LEMMA PadLoopKept ==
  ASSUME NEW at, NEW r, NEW q, PadLoop(at, r, q), PadKept
  PROVE  PadLoop(at, r, q)'
<1>1. \A n : Reading(n)' <=> Reading(n)
  BY DEF Reading, PadKept
<1>2. Latched' = Latched
  BY DEF Latched, PadKept
<1>3. \A n : Collected(n)' <=> Collected(n)
  <2>1. Bits(Seek(16))' = Bits(Seek(16))
    BY DEF PadKept, Bits
  <2>. HIDE DEF Latched, Bits, Seek
  <2>. QED
    BY <1>2, <2>1 DEF Collected
<1>. HIDE DEF Reading, Latched, Collected
<1>. QED
  BY <1>1, <1>2, <1>3 DEF PadLoop

\* A context lasts while the frame and the cells it counts on are left alone.
LEMMA ContextKept ==
  ASSUME CpuTypes, NEW base \in Byte, UNCHANGED cart, NEW at, NEW r, NEW q, r.s \in Byte,
         Context(base, at, r, q),
         \A f \in frames : Depth(base, f.low) <= Depth(base, r.s) => f \in frames',
         \A f \in frames : Depth(base, f.low) <= 253,
         StackKept(base, Depth(base, r.s)), PadKept
  PROVE  Context(base, at, r, q)'
<1>1. CASE InSum(base, at, r)
  <2>1. InSum(base, at, r)'
    BY <1>1 DEF InSum
  <2>. QED
    BY <2>1 DEF Context, InMain
<1>2. CASE InNest(base, at, r)
  <2>1. CASE at <= Main + 10
    <3>1. InNest(base, at, r)'
      BY <1>2, <2>1 DEF InNest
    <3>. QED
      BY <3>1 DEF Context, InMain
  <2>2. CASE ~(at <= Main + 10)
    <3>1. Called(base) /\ Depth(base, r.s) \in {2, 3}
      BY <1>2, <2>2 DEF InNest
    <3>2. Called(base)'
      BY <3>1 DEF Called
    <3>3. InNest(base, at, r)'
      BY <1>2, <2>2, <3>2 DEF InNest
    <3>. QED
      BY <3>3 DEF Context, InMain
  <2>. QED
    BY <2>1, <2>2
<1>3. CASE InPad(base, at, r, q)
  <2>1. InPad(base, at, r, q)'
    BY <1>3, PadLoopKept DEF InPad
  <2>. QED
    BY <2>1 DEF Context, InMain
<1>4. CASE \E f \in frames : Handles(f, at, r)
  <2>1. PICK f \in frames : Handles(f, at, r)
    BY <1>4
  <2>2. Handles(f, at, r)' /\ Depth(base, f.low) <= Depth(base, r.s)
    BY <2>1, FrameTypes, HandlerKept
  <2>3. f \in frames'
    BY <2>2
  <2>. QED
    BY <2>2, <2>3 DEF Context
<1>. QED
  BY <1>1, <1>2, <1>3, <1>4 DEF Context, InMain

\* The depths of the frames.
LEMMA FrameDepths ==
  ASSUME CpuTypes, NEW base \in Byte, Nested(base)
  PROVE  /\ Depth(base, reg.s) \in Nat
         /\ \A f \in frames : /\ Depth(base, f.low) \in Nat /\ Depth(base, f.high) \in Nat
                              /\ Depth(base, f.low) = Depth(base, f.high) + Size(f)
                              /\ Depth(base, f.low) <= Depth(base, reg.s)
                              /\ Depth(base, f.low) <= 251
                              /\ f.reg.s = f.high
<1>1. reg.s \in Byte
  BY Typed
<1>2. ASSUME NEW f \in frames
      PROVE  /\ Depth(base, f.low) \in Nat /\ Depth(base, f.high) \in Nat
             /\ Depth(base, f.low) <= 251
  <2>1. f.low \in Byte /\ f.high \in Byte
    BY FrameTypes
  <2>2. Depth(base, f.low) \in Nat /\ Depth(base, f.high) \in Nat
    BY <2>1, Depths
  <2>3. Depth(base, f.low) <= 5 * Used + 6 /\ Used \in Int /\ Used <= 49
    BY UsedBound DEF Nested
  <2>4. Depth(base, f.low) <= 251
    BY <2>2, <2>3
  <2>. QED
    BY <2>2, <2>4
<1>. QED
  BY <1>1, <1>2, Depths DEF Nested

\* What an interrupt has suspended lasts, too.
LEMMA SuspendedKept ==
  ASSUME CpuTypes, NEW base \in Byte, Nested(base), UNCHANGED cart,
         NEW g \in frames, Context(base, g.pc, g.reg, g.p),
         \A f \in frames : Depth(base, f.low) <= Depth(base, g.high) => f \in frames',
         StackKept(base, Depth(base, reg.s)), PadKept
  PROVE  Context(base, g.pc, g.reg, g.p)'
<1>1. /\ g.reg.s = g.high /\ g.high \in Byte
      /\ Depth(base, g.high) <= Depth(base, reg.s)
  <2>1. /\ Depth(base, g.low) = Depth(base, g.high) + Size(g)
        /\ Depth(base, g.low) <= Depth(base, reg.s)
        /\ Depth(base, g.high) \in Nat /\ Depth(base, reg.s) \in Nat
        /\ g.reg.s = g.high
    BY FrameDepths
  <2>2. Size(g) \in {2, 3} /\ g.high \in Byte
    BY FrameTypes
  <2>. QED
    BY <2>1, <2>2
<1>2. StackKept(base, Depth(base, g.reg.s))
  <2>1. ASSUME NEW s \in Byte, Depth(base, s) < Depth(base, g.high)
        PROVE  Depth(base, s) < Depth(base, reg.s)
    <3>1. Depth(base, s) \in Nat /\ Depth(base, g.high) \in Nat
      BY <1>1, Depths
    <3>2. Depth(base, reg.s) \in Nat
      BY FrameDepths
    <3>. QED
      BY <1>1, <2>1, <3>1, <3>2
  <2>. QED
    BY <1>1, <2>1 DEF StackKept
<1>3. \A f \in frames : Depth(base, f.low) <= Depth(base, g.reg.s) => f \in frames'
  BY <1>1
<1>4. \A f \in frames : Depth(base, f.low) <= 253
  <2>1. ASSUME NEW f \in frames
        PROVE  Depth(base, f.low) <= 253
    <3>1. Depth(base, f.low) \in Nat /\ Depth(base, f.low) <= 251
      BY FrameDepths
    <3>. QED
      BY <3>1
  <2>. QED
    BY <2>1
<1>5. g.reg.s \in Byte
  BY <1>1
<1>. QED
  BY <1>2, <1>3, <1>4, <1>5, ContextKept

\* A step that pushes no frame.
LEMMA FollowsOn ==
  ASSUME CpuTypes, NEW base \in Byte, Follows(base), UNCHANGED cart, frames' \subseteq frames,
         \A f \in frames' : Depth(base, f.low) <= Depth(base, reg.s)',
         \A g \in frames' : \A f \in frames :
           Depth(base, f.low) <= Depth(base, g.high) => f \in frames',
         frames' # {} => PadKept /\ StackKept(base, Depth(base, reg.s)),
         Used' >= Used, Used' \in Int,
         Context(base, pc, reg, p)'
  PROVE  Follows(base)'
<1>1. Nested(base)
  BY DEF Follows
<1>2. Nested(base)'
  <2>1. ASSUME NEW f \in frames'
        PROVE  Depth(base, f.low) <= 5 * Used' + 6
    <3>1. f \in frames
      OBVIOUS
    <3>2. Depth(base, f.low) <= 5 * Used + 6 /\ Used \in Int
      BY <1>1, <3>1, UsedBound DEF Nested
    <3>3. Depth(base, f.low) \in Int
      BY <1>1, <3>1, FrameDepths
    <3>. QED
      BY <3>2, <3>3
  <2>. QED
    BY <1>1, <2>1 DEF Nested
<1>3. ASSUME NEW g \in frames', g.kind = "interrupt"
      PROVE  Context(base, g.pc, g.reg, g.p)'
  <2>1. g \in frames /\ Context(base, g.pc, g.reg, g.p)
    BY <1>3 DEF Follows
  <2>2. PadKept /\ StackKept(base, Depth(base, reg.s))
    OBVIOUS
  <2>3. \A f \in frames : Depth(base, f.low) <= Depth(base, g.high) => f \in frames'
    OBVIOUS
  <2>. QED
    BY <1>1, <2>1, <2>2, <2>3, SuspendedKept
<1>. QED
  BY <1>2, <1>3 DEF Follows

\* What a push leaves alone: the frames, and the stack above S.
LEMMA PushKept ==
  ASSUME CpuTypes, NEW base \in Byte, Nested(base), UNCHANGED cart,
         NEW bytes \in Seq(Byte), Len(bytes) \in 1 .. 3, NEW newFrames, Push(bytes, newFrames),
         Depth(base, reg.s) + Len(bytes) <= 255
  PROVE  /\ frames' = frames \union newFrames
         /\ reg'.a = reg.a /\ reg'.x = reg.x /\ reg'.y = reg.y
         /\ reg'.s = (reg.s - Len(bytes)) % BYTE
         /\ Depth(base, reg'.s) = Depth(base, reg.s) + Len(bytes)
         /\ StackKept(base, Depth(base, reg.s))
         /\ Seek(16)' = Seek(16)
         /\ RomIntact => RomIntact'
<1>. DEFINE n == Len(bytes)
<1>1. reg.s \in Byte /\ reg \in Registers /\ Depth(base, reg.s) \in Nat
  BY Typed, Held, FrameDepths
<1>2. \A k \in 0 .. 3 : /\ (reg.s - k) % BYTE \in Byte
                        /\ Depth(base, reg.s) + k <= 255 =>
                             Depth(base, (reg.s - k) % BYTE) = Depth(base, reg.s) + k
  BY <1>1, Depths
<1>3. ASSUME NEW c \in PushedCells(n)
      PROVE  \E s \in Byte : c = StackCell(s) /\ Depth(base, s) >= Depth(base, reg.s)
  <2>1. PICK k \in 1 .. n : c = StackCell((reg.s - k + 1) % BYTE)
    BY DEF PushedCells
  <2>2. k - 1 \in 0 .. 3 /\ reg.s - k + 1 = reg.s - (k - 1) /\ Depth(base, reg.s) + (k - 1) <= 255
    <3>1. n \in 1 .. 3 /\ Depth(base, reg.s) + n <= 255 /\ k \in 1 .. n
      OBVIOUS
    <3>2. reg.s \in Int
      BY <1>1 DEF Byte, BYTE
    <3>. HIDE DEF n
    <3>3. n \in Int /\ n >= 1 /\ n <= 3 /\ k \in Int /\ k >= 1 /\ k <= n
      BY <3>1
    <3>. QED
      BY <1>1, <3>1, <3>2, <3>3
  <2>. DEFINE j == k - 1
  <2>3. /\ (reg.s - j) % BYTE \in Byte
        /\ Depth(base, (reg.s - j) % BYTE) = Depth(base, reg.s) + j
    <3>. HIDE DEF j
    <3>. QED
      BY <1>2, <2>2 DEF j
  <2>4. Depth(base, reg.s) + j >= Depth(base, reg.s)
    BY <1>1
  <2>5. c = StackCell((reg.s - j) % BYTE)
    BY <2>1, <2>2
  <2>. HIDE DEF j
  <2>. QED
    BY <2>3, <2>4, <2>5
<1>4. \A s, t \in Byte : StackCell(s) = StackCell(t) => s = t
  BY DEF StackCell, Byte, BYTE
<1>5. mem' = Pushed(bytes) /\ reg' = [reg EXCEPT !.s = Down(n)]
      /\ frames' = Surviving(PushedCells(n)) \union newFrames
  BY DEF Push
<1>6. \A c : c \notin PushedCells(n) => /\ c \in DOMAIN mem' <=> c \in DOMAIN mem
                                        /\ c \in DOMAIN mem => mem'[c] = mem[c]
  BY <1>5, PushedBytes
<1>7. frames' = frames \union newFrames
  <2>1. ASSUME NEW f \in frames
        PROVE  FrameCells(f) \intersect PushedCells(n) = {}
    <3>1. SUFFICES ASSUME NEW k \in 1 .. Size(f), StackCell((f.low + k) % BYTE) \in PushedCells(n)
                   PROVE  FALSE
      BY DEF FrameCells, Size
    <3>2. /\ f.low \in Byte /\ Size(f) \in {2, 3}
          /\ Depth(base, f.low) \in Nat /\ Depth(base, f.high) \in Nat
          /\ Depth(base, f.low) = Depth(base, f.high) + Size(f)
          /\ Depth(base, f.low) <= Depth(base, reg.s)
      BY FrameTypes, FrameDepths
    <3>3. k \in 0 .. 3 /\ k > 0 /\ Depth(base, f.low) >= k
      BY <3>2
    <3>4. /\ (f.low + k) % BYTE \in Byte
          /\ Depth(base, (f.low + k) % BYTE) = Depth(base, f.low) - k
      BY <3>2, <3>3, Depths
    <3>5. PICK s \in Byte : /\ StackCell((f.low + k) % BYTE) = StackCell(s)
                            /\ Depth(base, s) >= Depth(base, reg.s)
      BY <1>3, <3>1
    <3>6. (f.low + k) % BYTE = s
      BY <1>4, <3>4, <3>5
    <3>. QED
      BY <1>1, <3>2, <3>3, <3>4, <3>5, <3>6
  <2>2. Surviving(PushedCells(n)) = frames
    BY <2>1 DEF Surviving
  <2>. QED
    BY <1>5, <2>2
<1>8. /\ reg'.a = reg.a /\ reg'.x = reg.x /\ reg'.y = reg.y /\ reg'.s = (reg.s - n) % BYTE
  BY <1>1, <1>5 DEF Registers, Down
<1>9. Depth(base, reg'.s) = Depth(base, reg.s) + n
  <2>1. n \in 0 .. 3
    OBVIOUS
  <2>. HIDE DEF n
  <2>. QED
    BY <1>2, <1>8, <2>1 DEF n
<1>10. StackKept(base, Depth(base, reg.s))
  <2>1. ASSUME NEW s \in Byte, Depth(base, s) < Depth(base, reg.s)
        PROVE  Seek(StackCell(s))' = Seek(StackCell(s))
    <3>1. StackCell(s) \notin PushedCells(n)
      <4>1. SUFFICES ASSUME StackCell(s) \in PushedCells(n)
                     PROVE  FALSE
        OBVIOUS
      <4>2. PICK t \in Byte : StackCell(s) = StackCell(t) /\ Depth(base, t) >= Depth(base, reg.s)
        BY <1>3, <4>1
      <4>3. s = t /\ Depth(base, s) \in Nat
        BY <1>4, <4>2, Depths
      <4>. QED
        BY <1>1, <2>1, <4>2, <4>3
    <3>2. /\ StackCell(s) \in DOMAIN mem' <=> StackCell(s) \in DOMAIN mem
          /\ StackCell(s) \in DOMAIN mem => mem'[StackCell(s)] = mem[StackCell(s)]
      BY <1>6, <3>1
    <3>. QED
      BY <3>2, StackShows
  <2>. QED
    BY <2>1 DEF StackKept
<1>11. ASSUME NEW c \in PushedCells(n)
       PROVE  c # 16 /\ c \notin PRG_ROM
  <2>1. PICK s \in Byte : c = StackCell(s)
    BY <1>3
  <2>2. c \in Int /\ c >= 256 /\ c < 512
    BY <2>1 DEF StackCell, Byte, BYTE
  <2>. QED
    BY <2>2, RomRange, ConstantInts
<1>12. Seek(16)' = Seek(16)
  <2>1. Cell(16) = 16 /\ Cell(16)' = 16
    <3>1. 16 < RAM_END /\ 16 % RAM_SIZE = 16
      BY DEF RAM_END, RAM_SIZE
    <3>2. 16 \notin PRG_ROM
      BY RomRange, ConstantInts
    <3>3. Cell(16) = 16
      BY <3>1, <3>2 DEF Cell
    <3>4. Cell(16)' = 16
      BY <3>1, <3>2 DEF Cell
    <3>. QED
      BY <3>3, <3>4
  <2>2. /\ 16 \in DOMAIN mem' <=> 16 \in DOMAIN mem
        /\ 16 \in DOMAIN mem => mem'[16] = mem[16]
    BY <1>6, <1>11
  <2>. QED
    BY <2>1, <2>2 DEF Seek
<1>13. RomIntact => RomIntact'
  <2>1. \A c \in PRG_ROM : c \in DOMAIN mem' <=> c \in DOMAIN mem
    BY <1>6, <1>11
  <2>2. PRG_ROM' = PRG_ROM
    BY DEF PRG_ROM, PRG_START
  <2>. QED
    BY <2>1, <2>2 DEF RomIntact
<1>. QED
  BY <1>7, <1>8, <1>9, <1>10, <1>12, <1>13

-----------------------------------------------------------------------------
(* The programs in their ROM.                                              *)

\* Where the vectors lead.
NmiHandler == IF cart.shows = "controller" THEN PadNmiAt ELSE NmiAt
IrqHandler == IF cart.shows = "controller" THEN PadNmiAt + 5 ELSE IrqAt

\* What the CPU makes of a line.
Decodes(l) ==
  /\ Entry.instr = l.instr /\ Entry.addrm = l.mode /\ Decodable
  /\ NextInstruction = l.at + InstLen[l.mode]
  /\ l.mode = "imm" => /\ ArgAddress = l.at + 1
                       /\ ReadValues(ArgAddress) = {Lower(l.arg)}
                       /\ PadsAfterRead(ArgAddress) = pads
  /\ l.mode = "zpg_" => ArgAddress = Lower(l.arg)
  /\ l.mode = "abs_" => ArgAddress = l.arg
  /\ l.mode = "rel" => ArgAddress = (l.at + 2 + Signed(Lower(l.arg))) % WORD

\* One of the three programs.
Programmed == \/ cart = Sum(cart.budget) /\ cart.shows = "handlers"
              \/ cart = Nest(cart.budget) /\ cart.shows = "handlers"
              \/ cart = ReadPad(cart.budget) /\ cart.shows = "controller"

LEMMA ProgramsShown ==
  /\ cart = Sum(cart.budget) => cart.shows = "handlers"
  /\ cart = Nest(cart.budget) => cart.shows = "handlers"
  /\ cart = ReadPad(cart.budget) => cart.shows = "controller"
  /\ cart \in Cartridges /\ Shown => Programmed /\ cart.removable = FALSE
<1>1. /\ cart = Sum(cart.budget) => cart.shows = "handlers" /\ cart.removable = FALSE
      /\ cart = Nest(cart.budget) => cart.shows = "handlers" /\ cart.removable = FALSE
      /\ cart = ReadPad(cart.budget) => cart.shows = "controller" /\ cart.removable = FALSE
  BY DEF Sum, Nest, ReadPad, Cartridge
<1>. QED
  BY <1>1, ProgramAssumption DEF Shown, Programmed

LEMMA ProgramLoaded ==
  ASSUME RomIntact
  PROVE  /\ cart = Sum(cart.budget) =>
              Loaded(SumLines \union HandlerLines, NmiHandler, IrqHandler)
         /\ cart = Nest(cart.budget) =>
              Loaded(NestLines \union HandlerLines, NmiHandler, IrqHandler)
         /\ cart = ReadPad(cart.budget) =>
              Loaded(PadLines \union HandlerLines, NmiHandler, IrqHandler)
<1>1. \A main \in {SumLines, NestLines, PadLines} :
        /\ Apart(main \union SavingLines) /\ Placed(main \union SavingLines)
        /\ Apart(main \union PadHandlerLines) /\ Placed(main \union PadHandlerLines)
  BY BothApart
<1>2. cart.shows = "handlers" =>
        HandlerLines = SavingLines /\ NmiHandler = NmiAt /\ IrqHandler = IrqAt
  BY DEF HandlerLines, NmiHandler, IrqHandler
<1>3. cart.shows = "controller" =>
        HandlerLines = PadHandlerLines /\ NmiHandler = PadNmiAt /\ IrqHandler = PadNmiAt + 5
  BY DEF HandlerLines, NmiHandler, IrqHandler
<1>4. ASSUME cart = Sum(cart.budget)
      PROVE  Loaded(SumLines \union HandlerLines, NmiHandler, IrqHandler)
  <2>1. /\ cart.rom = Assembled(SumLines \union SavingLines, NmiAt, IrqAt)
        /\ cart.prgLen = 16384 /\ cart.battery = FALSE
    BY <1>4 DEF Sum, Cartridge
  <2>2. Apart(SumLines \union SavingLines) /\ Placed(SumLines \union SavingLines)
    BY <1>1
  <2>3. HandlerLines = SavingLines /\ NmiHandler = NmiAt /\ IrqHandler = IrqAt
    BY <1>2, <1>4, ProgramsShown
  <2>. QED
    BY <2>1, <2>2, <2>3 DEF Loaded
<1>5. ASSUME cart = Nest(cart.budget)
      PROVE  Loaded(NestLines \union HandlerLines, NmiHandler, IrqHandler)
  <2>1. /\ cart.rom = Assembled(NestLines \union SavingLines, NmiAt, IrqAt)
        /\ cart.prgLen = 16384 /\ cart.battery = FALSE
    BY <1>5 DEF Nest, Cartridge
  <2>2. Apart(NestLines \union SavingLines) /\ Placed(NestLines \union SavingLines)
    BY <1>1
  <2>3. HandlerLines = SavingLines /\ NmiHandler = NmiAt /\ IrqHandler = IrqAt
    BY <1>2, <1>5, ProgramsShown
  <2>. QED
    BY <2>1, <2>2, <2>3 DEF Loaded
<1>6. ASSUME cart = ReadPad(cart.budget)
      PROVE  Loaded(PadLines \union HandlerLines, NmiHandler, IrqHandler)
  <2>1. /\ cart.rom = Assembled(PadLines \union PadHandlerLines, PadNmiAt, PadNmiAt + 5)
        /\ cart.prgLen = 16384 /\ cart.battery = FALSE
    BY <1>6 DEF ReadPad, Cartridge
  <2>2. Apart(PadLines \union PadHandlerLines) /\ Placed(PadLines \union PadHandlerLines)
    BY <1>1
  <2>3. HandlerLines = PadHandlerLines /\ NmiHandler = PadNmiAt /\ IrqHandler = PadNmiAt + 5
    BY <1>3, <1>6, ProgramsShown
  <2>. QED
    BY <2>1, <2>2, <2>3 DEF Loaded
<1>. QED
  BY <1>4, <1>5, <1>6

\* What the ROM holds is what the listing says.
LEMMA LinesDecode ==
  ASSUME cart \in Cartridges, Shown, RomIntact
  PROVE  /\ cart = Sum(cart.budget) => \A l \in SumLines : pc = l.at => Decodes(l)
         /\ cart = Nest(cart.budget) => \A l \in NestLines : pc = l.at => Decodes(l)
         /\ cart = ReadPad(cart.budget) => \A l \in PadLines : pc = l.at => Decodes(l)
         /\ \A l \in HandlerLines : pc = l.at => Decodes(l)
         /\ GetDWord(NMI_VECTOR, FALSE) = NmiHandler
         /\ GetDWord(RESET_VECTOR, FALSE) = Main
         /\ GetDWord(IRQ_VECTOR, FALSE) = IrqHandler
<1>1. ASSUME NEW main \in {SumLines, NestLines, PadLines},
             Loaded(main \union HandlerLines, NmiHandler, IrqHandler)
      PROVE  /\ \A l \in main \union HandlerLines : pc = l.at => Decodes(l)
             /\ GetDWord(NMI_VECTOR, FALSE) = NmiHandler
             /\ GetDWord(RESET_VECTOR, FALSE) = Main
             /\ GetDWord(IRQ_VECTOR, FALSE) = IrqHandler
  <2>1. ASSUME NEW l \in main \union HandlerLines, pc = l.at
        PROVE  Decodes(l)
    <3>1. l.mode \in LineModes
      BY LineModesOfAll DEF AllLines, HandlerLines
    <3>. QED
      BY <1>1, <2>1, <3>1, LineDecodes DEF Decodes
  <2>2. NmiHandler \in Places /\ IrqHandler \in Places
    BY DEF NmiHandler, IrqHandler, NmiAt, IrqAt, PadNmiAt, Places
  <2>3. /\ GetDWord(NMI_VECTOR, FALSE) = NmiHandler
        /\ GetDWord(RESET_VECTOR, FALSE) = Main
        /\ GetDWord(IRQ_VECTOR, FALSE) = IrqHandler
    BY <1>1, <2>2, VectorShows, Zenon
  <2>. QED
    BY <2>1, <2>3, Zenon
<1>2. Programmed
  BY ProgramsShown
<1>. DEFINE vectors == /\ GetDWord(NMI_VECTOR, FALSE) = NmiHandler
                       /\ GetDWord(RESET_VECTOR, FALSE) = Main
                       /\ GetDWord(IRQ_VECTOR, FALSE) = IrqHandler
<1>3. ASSUME NEW main \in {SumLines, NestLines, PadLines},
             Loaded(main \union HandlerLines, NmiHandler, IrqHandler)
      PROVE  vectors
  BY <1>1, <1>3, Zenon
<1>4. ASSUME NEW main \in {SumLines, NestLines, PadLines},
             Loaded(main \union HandlerLines, NmiHandler, IrqHandler)
      PROVE  \A l \in main \union HandlerLines : pc = l.at => Decodes(l)
  BY <1>1, <1>4, Zenon
<1>. HIDE DEF vectors
<1>5. vectors /\ \A l \in HandlerLines : pc = l.at => Decodes(l)
  BY <1>2, <1>3, <1>4, ProgramLoaded DEF Programmed
<1>6. /\ cart = Sum(cart.budget) => \A l \in SumLines : pc = l.at => Decodes(l)
      /\ cart = Nest(cart.budget) => \A l \in NestLines : pc = l.at => Decodes(l)
      /\ cart = ReadPad(cart.budget) => \A l \in PadLines : pc = l.at => Decodes(l)
  BY <1>4, ProgramLoaded
<1>. QED
  BY <1>5, <1>6, Zenon DEF vectors

-----------------------------------------------------------------------------
(* Entering a handler.                                                     *)

\* An interrupt: what it interrupts is suspended, and its handler begins.
LEMMA InterruptEntered ==
  ASSUME CpuTypes, Shown, RomIntact, NEW base \in Byte, Follows(base), UNCHANGED <<cart, pads>>,
         NEW vector \in {NMI_VECTOR, IRQ_VECTOR}, NEW returnTo \in Word,
         NEW breaks \in SUBSET {B}, HandleInterrupt(vector, returnTo, breaks),
         Context(base, returnTo, reg, p),
         Used' \in Int, Used' >= Used, Used' <= 49,
         Depth(base, reg.s) + 3 <= 5 * Used' + 6
  PROVE  Follows(base)' /\ RomIntact'
<1>. DEFINE status == ByteOf(p \union breaks \union {Expansion})
            bytes == <<Upper(returnTo), Lower(returnTo), status>>
            frame == [kind |-> "interrupt", low |-> Down(3), high |-> reg.s, pc |-> returnTo,
                      p |-> p, reg |-> reg]
<1>1. p \in SUBSET Flags /\ reg.s \in Byte /\ Nested(base) /\ Used \in Int
      /\ Depth(base, reg.s) \in Nat
  BY Typed, UsedBound, Depths DEF Follows
<1>2. bytes \in Seq(Byte) /\ Len(bytes) = 3 /\ 3 \in 1 .. 3
  <2>1. p \union breaks \union {Expansion} \in SUBSET Flags
    BY <1>1 DEF Expansion, B, Flags
  <2>2. status \in Byte
    BY <2>1, BitsOfByte
  <2>. HIDE DEF status
  <2>3. Upper(returnTo) \in Byte /\ Lower(returnTo) \in Byte
    BY Bytes
  <2>. QED
    BY <2>2, <2>3
<1>3. Push(bytes, {frame}) /\ pc' = GetDWord(vector, FALSE)
  BY DEF HandleInterrupt
<1>. HIDE DEF bytes
<1>4. Depth(base, reg.s) + 3 <= 251
  BY <1>1
<1>5. frame.kind = "interrupt" /\ frame.low = (reg.s - 3) % BYTE /\ frame.high = reg.s
      /\ frame.pc = returnTo /\ frame.p = p /\ frame.reg = reg
  BY DEF Down
<1>. HIDE DEF frame
<1>6. /\ frames' = frames \union {frame}
      /\ reg'.a = reg.a /\ reg'.x = reg.x /\ reg'.y = reg.y /\ reg'.s = (reg.s - 3) % BYTE
      /\ Depth(base, reg'.s) = Depth(base, reg.s) + 3
      /\ StackKept(base, Depth(base, reg.s))
      /\ Seek(16)' = Seek(16)
      /\ RomIntact'
  <2>1. Depth(base, reg.s) + Len(bytes) <= 255 /\ Len(bytes) \in 1 .. 3
    BY <1>1, <1>2, <1>4
  <2>2. reg'.s = (reg.s - Len(bytes)) % BYTE
        /\ Depth(base, reg'.s) = Depth(base, reg.s) + Len(bytes)
        /\ frames' = frames \union {frame}
        /\ reg'.a = reg.a /\ reg'.x = reg.x /\ reg'.y = reg.y
        /\ StackKept(base, Depth(base, reg.s))
        /\ Seek(16)' = Seek(16)
        /\ RomIntact'
    BY <1>1, <1>2, <1>3, <2>1, PushKept
  <2>. QED
    BY <1>2, <2>2
<1>7. PadKept
  BY <1>6 DEF PadKept
<1>8. Nested(base)'
  <2>1. \A f \in frames : /\ Depth(base, f.low) \in Nat /\ Depth(base, f.high) \in Nat
                          /\ Depth(base, f.low) <= Depth(base, reg.s)
                          /\ Depth(base, f.low) <= 5 * Used + 6
    BY <1>1, FrameDepths DEF Nested
  <2>2. \A f \in frames' : /\ Depth(base, f.low) = Depth(base, f.high) + Size(f)
                           /\ f.kind = "call" => Depth(base, f.low) = 2
                           /\ f.reg.s = f.high
    BY <1>1, <1>5, <1>6 DEF Nested, Size
  <2>3. ASSUME NEW f \in frames'
        PROVE  /\ Depth(base, f.low) <= Depth(base, reg'.s)
               /\ Depth(base, f.low) <= 5 * Used' + 6
    <3>1. CASE f = frame
      BY <1>1, <1>5, <1>6, <3>1
    <3>2. CASE f \in frames
      <4>1. /\ Depth(base, f.low) \in Nat
            /\ Depth(base, f.low) <= Depth(base, reg.s) /\ Depth(base, f.low) <= 5 * Used + 6
        BY <2>1, <3>2
      <4>. QED
        BY <1>1, <1>6, <4>1
    <3>. QED
      BY <1>6, <3>1, <3>2
  <2>4. \A f, g \in frames' : \/ f = g
                              \/ Depth(base, f.low) <= Depth(base, g.high)
                              \/ Depth(base, g.low) <= Depth(base, f.high)
    BY <1>1, <1>5, <1>6, <2>1 DEF Nested
  <2>. QED
    BY <2>2, <2>3, <2>4 DEF Nested
<1>9. ASSUME NEW g \in frames', g.kind = "interrupt"
      PROVE  Context(base, g.pc, g.reg, g.p)'
  <2>1. CASE g \in frames
    <3>1. Context(base, g.pc, g.reg, g.p)
      BY <1>9, <2>1 DEF Follows
    <3>2. \A f \in frames : Depth(base, f.low) <= Depth(base, g.high) => f \in frames'
      BY <1>6
    <3>. QED
      BY <1>1, <1>6, <1>7, <2>1, <3>1, <3>2, SuspendedKept
  <2>2. CASE g = frame
    <3>1. \A f \in frames : Depth(base, f.low) <= Depth(base, reg.s) => f \in frames'
      BY <1>6
    <3>2. \A f \in frames : Depth(base, f.low) <= 253
      <4>1. ASSUME NEW f \in frames
            PROVE  Depth(base, f.low) <= 253
        <5>1. Depth(base, f.low) \in Nat /\ Depth(base, f.low) <= 251
          BY <1>1, FrameDepths
        <5>. QED
          BY <5>1
      <4>. QED
        BY <4>1
    <3>. DEFINE r == reg
                q == p
    <3>3. Context(base, returnTo, r, q) /\ r.s \in Byte /\ StackKept(base, Depth(base, r.s))
      BY <1>1, <1>6
    <3>4. g.pc = returnTo /\ g.reg = reg /\ g.p = p
      BY <1>5, <2>2
    <3>5. Context(base, g.pc, g.reg, g.p) /\ g.reg.s \in Byte
          /\ StackKept(base, Depth(base, g.reg.s))
      BY <1>1, <1>6, <3>4
    <3>6. \A f \in frames : Depth(base, f.low) <= Depth(base, g.reg.s) => f \in frames'
      BY <3>1, <3>4
    <3>. QED
      BY <1>7, <3>2, <3>5, <3>6, ContextKept
  <2>. QED
    BY <1>6, <2>1, <2>2
<1>10. Context(base, pc, reg, p)'
  <2>1. pc' \in {NmiHandler, IrqHandler}
    BY <1>3, LinesDecode DEF CpuTypes
  <2>2. /\ \E l \in HandlerLines : l.at = pc'
        /\ pc' \in {NmiAt, IrqAt, PadNmiAt, PadNmiAt + 5}
    BY <2>1 DEF NmiHandler, IrqHandler, HandlerLines, SavingLines, PadHandlerLines, Implied, Line
  <2>3. PICK g \in frames' : g = frame
    BY <1>6
  <2>4. g.kind = "interrupt" /\ g.low = (reg.s - 3) % BYTE /\ g.reg = reg
    BY <1>5, <2>3
  <2>5. Untouched(g, pc, reg)'
    BY <1>6, <2>2, <2>4 DEF Untouched, PadNmiAt, NmiAt, IrqAt
  <2>6. (\E l \in HandlerLines : l.at = pc)'
    BY <2>2 DEF HandlerLines
  <2>7. Handles(g, pc, reg)'
    BY <1>6, <2>4, <2>5, <2>6 DEF Handles
  <2>. QED
    BY <2>3, <2>7 DEF Context
<1>. QED
  BY <1>6, <1>8, <1>9, <1>10 DEF Follows

-----------------------------------------------------------------------------
(* What the instructions of the programs do.                               *)

LEMMA LoadDoes ==
  ASSUME CpuTypes, Instruction, Entry.instr \in {"LDA", "LDX", "LDY"}
  PROVE  /\ GoesOn /\ NoStore /\ UNCHANGED elsewhere /\ Reads(ArgAddress)
         /\ reg'.s = reg.s
         /\ Entry.instr # "LDX" => reg'.x = reg.x
         /\ Entry.instr # "LDY" => reg'.y = reg.y
         /\ \E v \in ReadValues(ArgAddress) :
              /\ Entry.instr = "LDA" => reg'.a = v
              /\ Entry.instr = "LDY" => reg'.y = v
<1>1. Load /\ reg \in Registers
  BY Dispatch, Held
<1>2. GoesOn /\ NoStore /\ UNCHANGED elsewhere /\ Reads(ArgAddress)
  BY <1>1 DEF Load
<1>3. PICK v \in ReadValues(ArgAddress) : reg' = [reg EXCEPT ![Target[Entry.instr]] = v]
  BY <1>1 DEF Load
<1>4. CASE Entry.instr = "LDA"
  <2>1. reg' = [reg EXCEPT !["a"] = v]
    BY <1>3, <1>4 DEF Target
  <2>. QED
    BY <1>1, <1>2, <1>4, <2>1 DEF Registers
<1>5. CASE Entry.instr = "LDX"
  <2>1. reg' = [reg EXCEPT !["x"] = v]
    BY <1>3, <1>5 DEF Target
  <2>. QED
    BY <1>1, <1>2, <1>5, <2>1 DEF Registers
<1>6. CASE Entry.instr = "LDY"
  <2>1. reg' = [reg EXCEPT !["y"] = v]
    BY <1>3, <1>6 DEF Target
  <2>. QED
    BY <1>1, <1>2, <1>6, <2>1 DEF Registers
<1>. QED
  BY <1>4, <1>5, <1>6

LEMMA ArithmeticDoes ==
  ASSUME CpuTypes, Instruction, Entry.instr \in {"ADC", "SBC", "CMP"}
  PROVE  /\ GoesOn /\ NoStore /\ UNCHANGED elsewhere /\ Reads(ArgAddress)
         /\ reg'.s = reg.s /\ reg'.x = reg.x /\ reg'.y = reg.y
<1>1. reg \in Registers
  BY Held
<1>2. CASE Entry.instr = "CMP"
  <2>1. Test
    BY <1>2, Dispatch
  <2>. QED
    BY <2>1 DEF Test
<1>3. CASE Entry.instr \in {"ADC", "SBC"}
  <2>1. Arithmetic
    BY <1>3, Dispatch
  <2>2. GoesOn /\ NoStore /\ UNCHANGED elsewhere /\ Reads(ArgAddress)
    BY <2>1 DEF Arithmetic
  <2>3. \E a : reg' = [reg EXCEPT !.a = a]
    BY <2>1 DEF Arithmetic
  <2>. QED
    BY <1>1, <2>2, <2>3 DEF Registers
<1>. QED
  BY <1>2, <1>3

LEMMA InnerDoes ==
  ASSUME CpuTypes, Instruction,
         Entry.instr \in {"INX", "DEY", "TAX", "TXA", "TXS", "SEC", "CLC", "CLI"}
  PROVE  /\ GoesOn /\ NoStore /\ UNCHANGED <<pads, elsewhere>>
         /\ Entry.instr # "TXS" => reg'.s = reg.s
         /\ Entry.instr # "TXA" => reg'.a = reg.a
         /\ Entry.instr # "DEY" => reg'.y = reg.y
         /\ Entry.instr \notin {"INX", "TAX"} => reg'.x = reg.x
         /\ Entry.instr = "TAX" => reg'.x = reg.a
         /\ Entry.instr = "TXA" => reg'.a = reg.x
         /\ Entry.instr = "TXS" => reg'.s = reg.x
         /\ Entry.instr = "DEY" => reg'.y = (reg.y - 1) % BYTE /\ (Z \in p' <=> reg'.y = 0)
<1>1. reg \in Registers /\ p \in SUBSET Flags
  BY Held
<1>2. CASE Entry.instr \in {"INX", "DEY"}
  <2>1. CountRegister
    BY <1>2, Dispatch
  <2>2. GoesOn /\ NoStore /\ UNCHANGED <<pads, elsewhere>>
    BY <2>1 DEF CountRegister
  <2>3. Entry.instr = "INX" => \E v : reg' = [reg EXCEPT !.x = v]
    <3>1. Entry.instr = "INX" => Target[Entry.instr] = "x"
      BY DEF Target
    <3>2. \E v : reg' = [reg EXCEPT ![Target[Entry.instr]] = v]
      BY <2>1 DEF CountRegister
    <3>. QED
      BY <3>1, <3>2
  <2>4. CASE Entry.instr = "DEY"
    <3>. DEFINE v == (reg.y - 1) % BYTE
    <3>1. reg' = [reg EXCEPT !.y = v] /\ p' = ZeroAndNeg(p, v)
      <4>1. Target[Entry.instr] = "y"
        BY <2>4 DEF Target
      <4>2. ~(Entry.instr \in {"INX", "INY"})
        BY <2>4
      <4>. QED
        BY <2>1, <4>1, <4>2 DEF CountRegister
    <3>. HIDE DEF v
    <3>2. Z \in p' <=> v = 0
      BY <1>1, <3>1 DEF ZeroAndNeg, With, Z, N
    <3>3. reg'.y = v /\ reg'.a = reg.a /\ reg'.x = reg.x /\ reg'.s = reg.s
      BY <1>1, <3>1 DEF Registers
    <3>. QED
      BY <2>2, <2>4, <3>2, <3>3 DEF v
  <2>. QED
    BY <1>1, <1>2, <2>2, <2>3, <2>4 DEF Registers
<1>3. CASE Entry.instr \in {"TAX", "TXA", "TXS"}
  <2>1. Transfer
    BY <1>3, Dispatch
  <2>2. GoesOn /\ NoStore /\ UNCHANGED <<pads, elsewhere>>
    BY <2>1 DEF Transfer
  <2>3. /\ Entry.instr = "TAX" => reg' = [reg EXCEPT !.x = reg.a]
        /\ Entry.instr = "TXA" => reg' = [reg EXCEPT !.a = reg.x]
        /\ Entry.instr = "TXS" => reg' = [reg EXCEPT !.s = reg.x]
    <3>1. /\ Moves["TAX"][1] = "a" /\ Moves["TAX"][2] = "x"
          /\ Moves["TXA"][1] = "x" /\ Moves["TXA"][2] = "a"
          /\ Moves["TXS"][1] = "x" /\ Moves["TXS"][2] = "s"
      BY DEF Moves
    <3>2. reg' = [reg EXCEPT ![Moves[Entry.instr][2]] = reg[Moves[Entry.instr][1]]]
      BY <2>1 DEF Transfer
    <3>. QED
      BY <3>1, <3>2
  <2>. QED
    BY <1>1, <1>3, <2>2, <2>3 DEF Registers
<1>4. CASE Entry.instr \in {"SEC", "CLC", "CLI"}
  <2>1. ChangeFlag
    BY <1>4, Dispatch
  <2>. QED
    BY <1>4, <2>1 DEF ChangeFlag
<1>. QED
  BY <1>2, <1>3, <1>4

LEMMA StoreDoes ==
  ASSUME CpuTypes, Instruction, Entry.instr = "STA"
  PROVE  /\ GoesOn /\ UNCHANGED elsewhere /\ reg' = reg
         /\ Stores(pads, ArgAddress, reg.a)
<1>1. Store
  BY Dispatch
<1>. QED
  BY <1>1 DEF Store, Target

LEMMA ShiftDoes ==
  ASSUME CpuTypes, Instruction, Entry.instr \in {"LSR", "ROL"}
  PROVE  /\ GoesOn /\ UNCHANGED elsewhere
         /\ reg'.s = reg.s /\ reg'.x = reg.x /\ reg'.y = reg.y
         /\ Accumulator => /\ NoStore /\ UNCHANGED pads
                           /\ Entry.instr = "LSR" => /\ reg'.a = reg.a \div 2
                                                     /\ C \in p' <=> 0 \in Bits(reg.a)
         /\ ~Accumulator =>
              /\ reg' = reg
              /\ \E v \in ReadValues(ArgAddress) :
                   Stores(PadsAfterRead(ArgAddress), ArgAddress, Shift(Entry.instr, v, p).val)
<1>1. reg \in Registers /\ p \in SUBSET Flags
  BY Held
<1>2. CASE Accumulator
  <2>1. ModifyAccumulator
    BY <1>2, Dispatch
  <2>. DEFINE result == Shift(Entry.instr, reg.a, p)
  <2>2. /\ GoesOn /\ NoStore /\ UNCHANGED <<pads, elsewhere>>
        /\ reg' = [reg EXCEPT !.a = result.val] /\ p' = result.p
    BY <2>1 DEF ModifyAccumulator
  <2>3. Entry.instr = "LSR" => /\ result.val = reg.a \div 2 + 128 * 0
                               /\ result.p = ZeroAndNeg(With(p, C, 0 \in Bits(reg.a)), result.val)
    BY DEF Shift
  <2>. HIDE DEF result
  <2>4. Entry.instr = "LSR" => (C \in p' <=> 0 \in Bits(reg.a))
    BY <1>1, <2>2, <2>3 DEF ZeroAndNeg, With, Z, N, C
  <2>5. reg.a \div 2 + 128 * 0 = reg.a \div 2
    BY <1>1 DEF Registers, Byte, BYTE
  <2>. QED
    BY <1>1, <1>2, <2>2, <2>3, <2>4, <2>5 DEF Registers
<1>3. CASE ~Accumulator
  <2>1. ModifyMemory
    BY <1>3, Dispatch
  <2>. QED
    BY <1>3, <2>1 DEF ModifyMemory
<1>. QED
  BY <1>2, <1>3

LEMMA FlowDoes ==
  ASSUME CpuTypes, Instruction, Entry.instr \in {"BNE", "JMP"}
  PROVE  /\ NoStore /\ UNCHANGED <<pads, elsewhere, reg, p>>
         /\ Entry.instr = "JMP" => pc' = ArgAddress
         /\ Entry.instr = "BNE" => pc' = IF Z \in p THEN NextInstruction ELSE ArgAddress
<1>1. CASE Entry.instr = "BNE"
  <2>1. Branch
    BY <1>1, Dispatch
  <2>2. Taken <=> Z \notin p
    <3>1. Condition["BNE"][1] = Z
      BY DEF Condition
    <3>2. Condition["BNE"][2] = FALSE
      BY DEF Condition
    <3>3. Taken <=> ((Z \in p) = FALSE)
      BY <1>1, <3>1, <3>2, Zenon DEF Taken
    <3>. QED
      BY <3>3
  <2>. QED
    BY <1>1, <2>1, <2>2 DEF Branch, GoesOn
<1>2. CASE Entry.instr = "JMP"
  <2>1. Jump
    BY <1>2, Dispatch
  <2>. QED
    BY <1>2, <2>1 DEF Jump
<1>. QED
  BY <1>1, <1>2

-----------------------------------------------------------------------------
(* The handlers.                                                           *)

\* The listing of the handlers, by place.
HandlerRow(l) ==
  /\ l.at \in {NmiAt, IrqAt, PadNmiAt, NmiAt + 2} => l.instr = "PHA" /\ l.mode = "impl"
  /\ l.at = NmiAt + 1 => l.instr = "TXA" /\ l.mode = "impl"
  /\ l.at = NmiAt + 10 => l.instr = "TAX" /\ l.mode = "impl"
  /\ l.at = NmiAt + 3 => l.instr = "LDX" /\ l.mode = "imm"
  /\ l.at = NmiAt + 5 => l.instr = "INX" /\ l.mode = "impl"
  /\ l.at = NmiAt + 6 => l.instr = "SEC" /\ l.mode = "impl"
  /\ l.at = NmiAt + 7 => l.instr = "SBC" /\ l.mode = "imm"
  /\ l.at = IrqAt + 1 => l.instr = "CLC" /\ l.mode = "impl"
  /\ l.at = IrqAt + 2 => l.instr = "ADC" /\ l.mode = "imm"
  /\ l.at = PadNmiAt + 1 => l.instr = "LDA" /\ l.mode = "abs_" /\ l.arg = JOY2
  /\ l.at \in {NmiAt + 9, NmiAt + 11, IrqAt + 4, PadNmiAt + 4} => l.instr = "PLA" /\ l.mode = "impl"
  /\ l.at \in {NmiAt + 12, IrqAt + 5, PadNmiAt + 5} => l.instr = "RTI" /\ l.mode = "impl"

LEMMA HandlerRows == \A l \in SavingLines \union PadHandlerLines : HandlerRow(l)
<1>1. \A l \in SavingLines : HandlerRow(l)
  BY DEF SavingLines, Line, Implied, HandlerRow, NmiAt, IrqAt, PadNmiAt
<1>2. \A l \in PadHandlerLines : HandlerRow(l)
  BY DEF PadHandlerLines, Line, Implied, HandlerRow, NmiAt, IrqAt, PadNmiAt
<1>. QED
  BY <1>1, <1>2

\* A handler goes on until its RTI.
LEMMA HandlersGoOn ==
  /\ \A l \in SavingLines : l.instr = "RTI" \/ \E m \in SavingLines : m.at = l.at + InstLen[l.mode]
  /\ \A l \in PadHandlerLines :
       l.instr = "RTI" \/ \E m \in PadHandlerLines : m.at = l.at + InstLen[l.mode]
<1>1. \A l \in SavingLines : l.instr = "RTI" \/ \E m \in SavingLines : m.at = l.at + InstLen[l.mode]
  BY LineLengths DEF SavingLines, Line, Implied, NmiAt, IrqAt
<1>2. \A l \in PadHandlerLines :
        l.instr = "RTI" \/ \E m \in PadHandlerLines : m.at = l.at + InstLen[l.mode]
  BY LineLengths DEF PadHandlerLines, Line, Implied, PadNmiAt
<1>. QED
  BY <1>1, <1>2

LEMMA HandlerCode ==
  ASSUME cart \in Cartridges, Shown, RomIntact, NEW l \in HandlerLines, l.at = pc
  PROVE  /\ Entry.instr = l.instr /\ Entry.addrm = l.mode /\ HandlerRow(l)
         /\ NextInstruction = pc + InstLen[l.mode]
         /\ l.instr = "RTI" \/ \E m \in HandlerLines : m.at = NextInstruction
         /\ l.mode = "imm" => PadsAfterRead(ArgAddress) = pads
         /\ l.mode = "abs_" => ArgAddress = l.arg
<1>1. Decodes(l)
  BY LinesDecode
<1>2. HandlerRow(l)
  BY HandlerRows DEF HandlerLines
<1>3. l.instr = "RTI" \/ \E m \in HandlerLines : m.at = l.at + InstLen[l.mode]
  BY HandlersGoOn DEF HandlerLines
<1>. QED
  BY <1>1, <1>2, <1>3 DEF Decodes

\* The frame of the handler that runs keeps what the handler has saved.
LEMMA QuietHandlerStep ==
  ASSUME CpuTypes, Shown, RomIntact, Instruction,
         NEW f \in frames, Handles(f, pc, reg),
         pc \in {NmiAt + 1, NmiAt + 3, NmiAt + 5, NmiAt + 6, NmiAt + 7, NmiAt + 10,
                 IrqAt + 1, IrqAt + 2, PadNmiAt + 1}
  PROVE  /\ Handles(f, pc, reg)' /\ NoStore /\ UNCHANGED elsewhere /\ reg'.s = reg.s
         /\ PadKept
<1>. DEFINE quiet == NoStore /\ UNCHANGED elsewhere /\ reg'.s = reg.s /\ reg'.y = reg.y /\ GoesOn
<1>1. PICK l \in HandlerLines : l.at = pc
  BY DEF Handles
<1>2. /\ Entry.instr = l.instr /\ Entry.addrm = l.mode /\ HandlerRow(l)
      /\ NextInstruction = pc + InstLen[l.mode]
      /\ l.instr = "RTI" \/ \E m \in HandlerLines : m.at = NextInstruction
      /\ l.mode = "imm" => PadsAfterRead(ArgAddress) = pads
      /\ l.mode = "abs_" => ArgAddress = l.arg
  BY <1>1, HandlerCode DEF CpuTypes
<1>3. f.kind = "interrupt" /\ reg.y = f.reg.y
  BY DEF Handles
<1>4. ASSUME quiet, l.instr # "RTI", pads'[JOY1] = pads[JOY1],
             AIsSaved(f, pc, reg)' \/ XIsInA(f, pc, reg)' \/ BothAreSaved(f, pc, reg)'
      PROVE  Handles(f, pc, reg)' /\ NoStore /\ UNCHANGED elsewhere /\ reg'.s = reg.s
             /\ PadKept
  <2>1. PadKept
    BY <1>4 DEF NoStore, PadKept, Seek, Cell, elsewhere
  <2>2. (\E m \in HandlerLines : m.at = pc)'
    BY <1>2, <1>4 DEF GoesOn, elsewhere, HandlerLines
  <2>3. Handles(f, pc, reg)'
    BY <1>3, <1>4, <2>2 DEF Handles
  <2>. QED
    BY <1>4, <2>1, <2>3
<1>5. ASSUME quiet
      PROVE  /\ ASaved(f) => ASaved(f)'
             /\ XSaved(f) => XSaved(f)'
  BY <1>5 DEF NoStore, elsewhere, ASaved, XSaved, Seek, Cell
<1>. HIDE DEF quiet
<1>6. CASE pc = NmiAt + 1
  <2>1. l.instr = "TXA" /\ NextInstruction = NmiAt + 2 /\ AIsSaved(f, pc, reg)
    BY <1>1, <1>2, <1>6, LineLengths
       DEF HandlerRow, Handles, Untouched, AIsSaved, XIsInA, BothAreSaved, NmiAt, IrqAt, PadNmiAt
  <2>2. quiet /\ UNCHANGED pads /\ reg'.a = reg.x
    BY <1>2, <2>1, InnerDoes DEF quiet
  <2>3. XIsInA(f, pc, reg)'
    BY <1>5, <2>1, <2>2 DEF quiet, GoesOn, AIsSaved, XIsInA
  <2>. QED
    BY <1>4, <2>1, <2>2, <2>3
<1>7. CASE pc = NmiAt + 10
  <2>1. l.instr = "TAX" /\ NextInstruction = NmiAt + 11 /\ XIsInA(f, pc, reg)
    BY <1>1, <1>2, <1>7, LineLengths
       DEF HandlerRow, Handles, Untouched, AIsSaved, XIsInA, BothAreSaved, NmiAt, IrqAt, PadNmiAt
  <2>2. quiet /\ UNCHANGED pads /\ reg'.x = reg.a
    BY <1>2, <2>1, InnerDoes DEF quiet
  <2>3. AIsSaved(f, pc, reg)'
    BY <1>5, <2>1, <2>2 DEF quiet, GoesOn, AIsSaved, XIsInA
  <2>. QED
    BY <1>4, <2>1, <2>2, <2>3
<1>8. CASE pc \in {NmiAt + 3, NmiAt + 5, NmiAt + 6, NmiAt + 7}
  <2>1. BothAreSaved(f, pc, reg)
    BY <1>8 DEF Handles, Untouched, AIsSaved, XIsInA, BothAreSaved, NmiAt, IrqAt, PadNmiAt
  <2>2. /\ (l.instr \in {"LDX", "SBC"} /\ l.mode = "imm") \/ l.instr \in {"INX", "SEC"}
        /\ NextInstruction \in {NmiAt + 5, NmiAt + 6, NmiAt + 7, NmiAt + 9}
    BY <1>1, <1>2, <1>8, LineLengths DEF HandlerRow, NmiAt, IrqAt, PadNmiAt
  <2>3. quiet /\ UNCHANGED pads
    BY <1>2, <2>2, LoadDoes, ArithmeticDoes, InnerDoes DEF quiet, Reads
  <2>4. BothAreSaved(f, pc, reg)'
    BY <1>5, <2>1, <2>2, <2>3 DEF quiet, GoesOn, BothAreSaved
  <2>. QED
    BY <1>4, <2>2, <2>3, <2>4
<1>9. CASE pc \in {IrqAt + 1, IrqAt + 2, PadNmiAt + 1}
  <2>1. AIsSaved(f, pc, reg)
    BY <1>9 DEF Handles, Untouched, AIsSaved, XIsInA, BothAreSaved, NmiAt, IrqAt, PadNmiAt
  <2>2. /\ \/ l.instr = "CLC"
           \/ l.instr = "ADC" /\ l.mode = "imm"
           \/ l.instr = "LDA" /\ l.mode = "abs_" /\ l.arg = JOY2
        /\ NextInstruction \in {IrqAt + 2, IrqAt + 4, PadNmiAt + 4}
    BY <1>1, <1>2, <1>9, LineLengths DEF HandlerRow, NmiAt, IrqAt, PadNmiAt
  <2>3. PadsAfterRead(JOY2)[JOY1] = pads[JOY1]
    BY Held DEF PadsAfterRead, MemoryTypes, JOY1, JOY2, PADS
  <2>4. quiet /\ pads'[JOY1] = pads[JOY1] /\ reg'.x = reg.x
    BY <1>2, <2>2, <2>3, LoadDoes, ArithmeticDoes, InnerDoes DEF quiet, Reads
  <2>5. AIsSaved(f, pc, reg)'
    BY <1>5, <2>1, <2>2, <2>4 DEF quiet, GoesOn, AIsSaved
  <2>. QED
    BY <1>4, <2>2, <2>4, <2>5
<1>. QED
  BY <1>6, <1>7, <1>8, <1>9

\* How far below its frame a handler is, and that nothing is in between.
LEMMA HandlerDepth ==
  ASSUME CpuTypes, NEW base \in Byte, Nested(base), NEW f \in frames, Handles(f, pc, reg)
  PROVE  /\ \A g \in frames : Depth(base, g.low) <= Depth(base, f.low)
         /\ Untouched(f, pc, reg) => Depth(base, reg.s) = Depth(base, f.low)
         /\ AIsSaved(f, pc, reg) \/ XIsInA(f, pc, reg) =>
              Depth(base, reg.s) = Depth(base, f.low) + 1
         /\ BothAreSaved(f, pc, reg) => Depth(base, reg.s) = Depth(base, f.low) + 2
         /\ Depth(base, f.low) \in Nat /\ Depth(base, f.low) <= 251
         /\ Depth(base, f.low) = Depth(base, f.high) + 3 /\ Depth(base, f.high) \in Nat
<1>1. /\ f.low \in Byte /\ f.kind = "interrupt" /\ Size(f) = 3
      /\ Depth(base, f.low) \in Nat /\ Depth(base, f.low) <= 251
      /\ Depth(base, f.low) = Depth(base, f.high) + 3 /\ Depth(base, f.high) \in Nat
  BY FrameTypes, FrameDepths DEF Handles, Size
<1>2. /\ Depth(base, (f.low - 1) % BYTE) = Depth(base, f.low) + 1
      /\ Depth(base, (f.low - 2) % BYTE) = Depth(base, f.low) + 2
  <2>1. /\ 1 \in 0 .. 3 /\ Depth(base, f.low) + 1 <= 255
        /\ 2 \in 0 .. 3 /\ Depth(base, f.low) + 2 <= 255
    BY <1>1
  <2>. QED
    BY <1>1, <2>1, Depths
<1>3. /\ Untouched(f, pc, reg) => Depth(base, reg.s) = Depth(base, f.low)
      /\ AIsSaved(f, pc, reg) \/ XIsInA(f, pc, reg) => Depth(base, reg.s) = Depth(base, f.low) + 1
      /\ BothAreSaved(f, pc, reg) => Depth(base, reg.s) = Depth(base, f.low) + 2
  BY <1>2 DEF Untouched, AIsSaved, XIsInA, BothAreSaved
<1>4. Depth(base, reg.s) <= Depth(base, f.low) + 2
  BY <1>1, <1>3 DEF Handles
<1>5. ASSUME NEW g \in frames
      PROVE  Depth(base, g.low) <= Depth(base, f.low)
  <2>1. /\ Depth(base, g.low) \in Nat /\ Depth(base, g.high) \in Nat
        /\ Depth(base, g.low) = Depth(base, g.high) + Size(g)
        /\ Depth(base, g.low) <= Depth(base, reg.s) /\ Depth(base, reg.s) \in Nat
    BY FrameDepths
  <2>2. Size(g) \in {2, 3} /\ (g.kind = "call" <=> Size(g) = 2)
    BY FrameTypes
  <2>3. g.kind = "call" => Depth(base, g.low) = 2
    BY DEF Nested
  <2>4. \/ f = g
        \/ Depth(base, f.low) <= Depth(base, g.high)
        \/ Depth(base, g.low) <= Depth(base, f.high)
    BY DEF Nested
  <2>5. CASE f = g
    BY <2>1, <2>5
  <2>6. CASE Depth(base, g.low) <= Depth(base, f.high)
    BY <1>1, <2>1, <2>6
  <2>7. CASE Depth(base, f.low) <= Depth(base, g.high)
    BY <1>1, <1>4, <2>1, <2>2, <2>3, <2>7
  <2>. QED
    BY <2>4, <2>5, <2>6, <2>7
<1>. QED
  BY <1>1, <1>3, <1>5

\* PHA in a handler.
LEMMA PushHandlerStep ==
  ASSUME CpuInv, Shown, RomIntact, NEW base \in Byte, Nested(base), Instruction,
         NEW f \in frames, Handles(f, pc, reg),
         pc \in {NmiAt, IrqAt, PadNmiAt, NmiAt + 2}
  PROVE  /\ Handles(f, pc, reg)' /\ UNCHANGED elsewhere
         /\ frames' = frames
         /\ Depth(base, reg.s)' = Depth(base, reg.s) + 1
         /\ StackKept(base, Depth(base, reg.s)) /\ PadKept /\ RomIntact'
<1>1. PICK l \in HandlerLines : l.at = pc
  BY DEF Handles
<1>2. CpuTypes /\ reg.s \in Byte /\ reg.a \in Byte /\ f.low \in Byte
  BY Typed, FrameTypes DEF CpuInv
<1>3. /\ Entry.instr = "PHA" /\ NextInstruction = pc + 1
      /\ \E m \in HandlerLines : m.at = NextInstruction
  <2>1. /\ Entry.instr = l.instr /\ HandlerRow(l) /\ NextInstruction = pc + InstLen[l.mode]
        /\ l.instr = "RTI" \/ \E m \in HandlerLines : m.at = NextInstruction
    BY <1>1, <1>2, HandlerCode DEF CpuTypes
  <2>2. l.instr = "PHA" /\ l.mode = "impl"
    BY <1>1, <2>1 DEF HandlerRow
  <2>. QED
    BY <2>1, <2>2, LineLengths
<1>4. Push(<<reg.a>>, {}) /\ pc' = pc + 1 /\ UNCHANGED <<pads, elsewhere>>
  BY <1>3, Dispatch DEF PushRegister, GoesOn
<1>5. <<reg.a>> \in Seq(Byte) /\ Len(<<reg.a>>) = 1 /\ 1 \in 1 .. 3 /\ <<reg.a>>[1] = reg.a
  BY <1>2
<1>6. /\ \A g \in frames : Depth(base, g.low) <= Depth(base, f.low)
      /\ Depth(base, f.low) \in Nat /\ Depth(base, f.low) <= 251
      /\ Untouched(f, pc, reg) => Depth(base, reg.s) = Depth(base, f.low)
      /\ XIsInA(f, pc, reg) => Depth(base, reg.s) = Depth(base, f.low) + 1
  BY <1>2, HandlerDepth
<1>7. /\ pc # NmiAt + 2 => Untouched(f, pc, reg)
      /\ pc = NmiAt + 2 => XIsInA(f, pc, reg)
  BY DEF Handles, Untouched, AIsSaved, XIsInA, BothAreSaved, NmiAt, IrqAt, PadNmiAt
<1>8. /\ frames' = frames
      /\ reg'.a = reg.a /\ reg'.x = reg.x /\ reg'.y = reg.y /\ reg'.s = (reg.s - 1) % BYTE
      /\ Depth(base, reg'.s) = Depth(base, reg.s) + 1
      /\ StackKept(base, Depth(base, reg.s)) /\ Seek(16)' = Seek(16) /\ RomIntact'
  <2>. DEFINE bytes == <<reg.a>>
  <2>1. Depth(base, reg.s) + Len(bytes) <= 255 /\ UNCHANGED cart
    BY <1>4, <1>5, <1>6, <1>7 DEF elsewhere
  <2>2. bytes \in Seq(Byte) /\ Len(bytes) \in 1 .. 3 /\ Len(bytes) = 1 /\ Push(bytes, {})
    BY <1>4, <1>5
  <2>. HIDE DEF bytes
  <2>3. /\ frames' = frames \union {}
        /\ reg'.a = reg.a /\ reg'.x = reg.x /\ reg'.y = reg.y
        /\ reg'.s = (reg.s - Len(bytes)) % BYTE
        /\ Depth(base, reg'.s) = Depth(base, reg.s) + Len(bytes)
        /\ StackKept(base, Depth(base, reg.s)) /\ Seek(16)' = Seek(16) /\ RomIntact'
    BY <1>2, <2>1, <2>2, PushKept
  <2>. QED
    BY <2>2, <2>3
<1>9. ASSUME NEW s, s = reg.s
      PROVE  Seek(StackCell(s))' = reg.a
  <2>. DEFINE bytes == <<reg.a>>
  <2>1. /\ bytes \in Seq(Byte) /\ Len(bytes) \in 1 .. 3 /\ Len(bytes) = 1 /\ Push(bytes, {})
        /\ UNCHANGED cart /\ bytes[1] = reg.a
    BY <1>4, <1>5 DEF elsewhere
  <2>. HIDE DEF bytes
  <2>2. PICK low : low = Down(1)
    OBVIOUS
  <2>3. /\ \A k \in 1 .. 1 : Seek(StackCell((low + k) % BYTE))' = bytes[1 - k + 1]
        /\ (low + 1) % BYTE = reg.s
    BY <2>1, <2>2, PushShows
  <2>4. Seek(StackCell((low + 1) % BYTE))' = bytes[1]
    BY <2>3
  <2>. QED
    BY <1>9, <2>1, <2>3, <2>4
<1>10. UNCHANGED elsewhere /\ PadKept
  BY <1>4, <1>8 DEF PadKept
<1>11. f.kind = "interrupt" /\ reg.y = f.reg.y
  BY DEF Handles
<1>12. (\E m \in HandlerLines : m.at = pc)'
  BY <1>3, <1>4 DEF elsewhere, HandlerLines, GoesOn
<1>13. CASE pc # NmiAt + 2
  <2>1. f.low = reg.s /\ reg.a = f.reg.a /\ reg.x = f.reg.x
    BY <1>7, <1>13 DEF Untouched
  <2>2. Seek(StackCell(f.low))' = f.reg.a
    BY <1>9, <2>1
  <2>3. pc' \in {NmiAt + 1, IrqAt + 1, PadNmiAt + 1}
    BY <1>4, <1>13
  <2>4. AIsSaved(f, pc, reg)'
    BY <1>8, <2>1, <2>2, <2>3 DEF AIsSaved, ASaved
  <2>5. Handles(f, pc, reg)'
    BY <1>8, <1>11, <1>12, <2>4 DEF Handles
  <2>. QED
    BY <1>8, <1>10, <2>5
<1>14. CASE pc = NmiAt + 2
  <2>1. reg.s = (f.low - 1) % BYTE /\ reg.a = f.reg.x /\ ASaved(f)
    BY <1>7, <1>14 DEF XIsInA
  <2>2. XSaved(f)'
    BY <1>9, <2>1 DEF XSaved
  <2>3. ASaved(f)'
    <3>1. Depth(base, f.low) < Depth(base, reg.s)
      BY <1>6, <1>7, <1>14
    <3>. QED
      BY <1>2, <1>8, <2>1, <3>1 DEF StackKept, ASaved
  <2>4. reg'.s = (f.low - 2) % BYTE
    <3>1. f.low \in 0 .. 255
      BY <1>2 DEF Byte, BYTE
    <3>2. (((f.low - 1) % BYTE) - 1) % BYTE = (f.low - 2) % BYTE
      BY <3>1 DEF BYTE
    <3>. QED
      BY <1>8, <2>1, <3>2
  <2>5. pc' = NmiAt + 3
    BY <1>4, <1>14 DEF NmiAt
  <2>. HIDE DEF ASaved, XSaved
  <2>6. BothAreSaved(f, pc, reg)'
    BY <2>2, <2>3, <2>4, <2>5 DEF BothAreSaved
  <2>7. Handles(f, pc, reg)'
    BY <1>8, <1>11, <1>12, <2>6 DEF Handles
  <2>. QED
    BY <1>8, <1>10, <2>7
<1>. QED
  BY <1>13, <1>14

\* PLA in a handler.
LEMMA PullHandlerStep ==
  ASSUME CpuTypes, Shown, RomIntact, NEW base \in Byte, Nested(base), Instruction,
         NEW f \in frames, Handles(f, pc, reg),
         pc \in {NmiAt + 9, NmiAt + 11, IrqAt + 4, PadNmiAt + 4}
  PROVE  /\ Handles(f, pc, reg)' /\ NoStore /\ UNCHANGED <<pads, elsewhere>>
         /\ Depth(base, f.low) <= Depth(base, reg.s)'
<1>1. PICK l \in HandlerLines : l.at = pc
  BY DEF Handles
<1>2. reg.s \in Byte /\ f.low \in Byte /\ reg \in Registers
  BY Typed, FrameTypes, Held
<1>3. /\ Entry.instr = "PLA" /\ NextInstruction = pc + 1
      /\ \E m \in HandlerLines : m.at = NextInstruction
  <2>1. /\ Entry.instr = l.instr /\ HandlerRow(l) /\ NextInstruction = pc + InstLen[l.mode]
        /\ l.instr = "RTI" \/ \E m \in HandlerLines : m.at = NextInstruction
    BY <1>1, HandlerCode DEF CpuTypes
  <2>2. l.instr = "PLA" /\ l.mode = "impl"
    BY <1>1, <2>1 DEF HandlerRow
  <2>. QED
    BY <2>1, <2>2, LineLengths
<1>4. /\ reg' = [reg EXCEPT !.s = Up(1), !.a = Popped(1)]
      /\ pc' = pc + 1 /\ NoStore /\ UNCHANGED <<pads, elsewhere>>
  BY <1>3, Dispatch DEF PullAccumulator, GoesOn
<1>5. /\ reg'.s = (reg.s + 1) % BYTE /\ reg'.a = Seek(StackCell((reg.s + 1) % BYTE))
      /\ reg'.x = reg.x /\ reg'.y = reg.y
  BY <1>2, <1>4 DEF Registers, Up, Popped
<1>6. f.kind = "interrupt" /\ reg.y = f.reg.y
  BY DEF Handles
<1>7. (\E m \in HandlerLines : m.at = pc)'
  BY <1>3, <1>4 DEF elsewhere, HandlerLines, GoesOn
<1>8. ASaved(f) => ASaved(f)'
  BY <1>4 DEF NoStore, elsewhere, ASaved, Seek, Cell
<1>9. f.low \in 0 .. 255
  BY <1>2 DEF Byte, BYTE
<1>10. CASE pc = NmiAt + 9
  <2>1. reg.s = (f.low - 2) % BYTE /\ ASaved(f) /\ XSaved(f)
    BY <1>10 DEF Handles, Untouched, AIsSaved, XIsInA, BothAreSaved, NmiAt, IrqAt, PadNmiAt
  <2>2. (((f.low - 2) % BYTE) + 1) % BYTE = (f.low - 1) % BYTE
    BY <1>9 DEF BYTE
  <2>3. reg'.s = (f.low - 1) % BYTE /\ reg'.a = f.reg.x
    BY <1>5, <2>1, <2>2 DEF XSaved
  <2>4. pc' = NmiAt + 10
    BY <1>4, <1>10 DEF NmiAt
  <2>. HIDE DEF ASaved
  <2>5. XIsInA(f, pc, reg)'
    BY <1>8, <2>1, <2>3, <2>4 DEF XIsInA
  <2>6. Handles(f, pc, reg)'
    BY <1>5, <1>6, <1>7, <2>5 DEF Handles
  <2>7. Depth(base, f.low) <= Depth(base, reg'.s)
    <3>1. 1 \in 0 .. 3 /\ Depth(base, f.low) + 1 <= 255 /\ Depth(base, f.low) \in Nat
      BY HandlerDepth
    <3>2. Depth(base, (f.low - 1) % BYTE) = Depth(base, f.low) + 1
      BY <1>2, <3>1, Depths
    <3>. QED
      BY <2>3, <3>1, <3>2
  <2>. QED
    BY <1>4, <2>6, <2>7
<1>11. CASE pc \in {NmiAt + 11, IrqAt + 4, PadNmiAt + 4}
  <2>1. reg.s = (f.low - 1) % BYTE /\ ASaved(f) /\ reg.x = f.reg.x
    BY <1>11 DEF Handles, Untouched, AIsSaved, XIsInA, BothAreSaved, NmiAt, IrqAt, PadNmiAt
  <2>2. (((f.low - 1) % BYTE) + 1) % BYTE = f.low
    BY <1>9 DEF BYTE
  <2>3. reg'.s = f.low /\ reg'.a = f.reg.a
    BY <1>5, <2>1, <2>2 DEF ASaved
  <2>4. pc' \in {NmiAt + 12, IrqAt + 5, PadNmiAt + 5}
    BY <1>4, <1>11 DEF NmiAt, IrqAt, PadNmiAt
  <2>5. Untouched(f, pc, reg)'
    BY <1>5, <2>1, <2>3, <2>4 DEF Untouched
  <2>6. Handles(f, pc, reg)'
    BY <1>5, <1>6, <1>7, <2>5 DEF Handles
  <2>7. Depth(base, f.low) <= Depth(base, reg'.s)
    BY <2>3, HandlerDepth
  <2>. QED
    BY <1>4, <2>6, <2>7
<1>. QED
  BY <1>10, <1>11

\* A context looks at no flag but C and Z.
LEMMA ContextFlags ==
  ASSUME NEW base, NEW at, NEW r, NEW q, NEW o, C \in q <=> C \in o, Z \in q <=> Z \in o,
         Context(base, at, r, q)'
  PROVE  Context(base, at, r, o)'
<1>1. PadLoop(at, r, q)' => PadLoop(at, r, o)'
  <2>. HIDE DEF Reading, Collected, Latched
  <2>. QED
    BY DEF PadLoop
<1>. QED
  BY <1>1 DEF Context, InMain, InPad

\* RTI in a handler: the program, or the handler that was interrupted, goes on as
\* it was.
LEMMA ReturnHandlerStep ==
  ASSUME CpuInv, NEW f \in frames, Handles(f, pc, reg), ReturnFromInterrupt,
         pc \in {NmiAt + 12, IrqAt + 5, PadNmiAt + 5}
  PROVE  /\ f.low = reg.s /\ pc' = f.pc
         /\ f.reg.s = f.high => reg' = f.reg
         /\ p' \ {B} = (f.p \ {B}) \union {Expansion}
<1>1. Untouched(f, pc, reg) /\ f.kind = "interrupt" /\ reg.y = f.reg.y
  BY DEF Handles, Untouched, AIsSaved, XIsInA, BothAreSaved, NmiAt, IrqAt, PadNmiAt
<1>2. f.low = reg.s /\ reg.a = f.reg.a /\ reg.x = f.reg.x
  BY <1>1 DEF Untouched
<1>3. pc' = f.pc /\ reg'.s = f.high /\ p' \ {B} = (f.p \ {B}) \union {Expansion}
  BY <1>1, <1>2, StepReturns DEF ReturnsWhereCalled
<1>4. reg \in Registers /\ f.reg \in Registers
  BY Held, FrameTypes DEF CpuInv
<1>5. reg' = [reg EXCEPT !.s = Up(3)]
  BY DEF ReturnFromInterrupt
<1>6. f.reg.s = f.high => reg' = f.reg
  <2>1. reg' = [a |-> reg.a, x |-> reg.x, y |-> reg.y, s |-> reg'.s]
    BY <1>4, <1>5 DEF Registers
  <2>2. f.reg = [a |-> f.reg.a, x |-> f.reg.x, y |-> f.reg.y, s |-> f.reg.s]
    BY <1>4 DEF Registers
  <2>. QED
    BY <1>1, <1>2, <1>3, <2>1, <2>2
<1>. QED
  BY <1>2, <1>3, <1>6

\* RTI at the end of a handler.
LEMMA ReturnFollows ==
  ASSUME CpuInv, NEW base \in Byte, Follows(base), NEW f \in frames, Handles(f, pc, reg),
         ReturnFromInterrupt, pc \in {NmiAt + 12, IrqAt + 5, PadNmiAt + 5}
  PROVE  Follows(base)'
<1>1. CpuTypes /\ Nested(base) /\ reg.s \in Byte /\ f.kind = "interrupt"
  BY Typed DEF CpuInv, Follows, Handles
<1>2. /\ f.low = reg.s /\ pc' = f.pc /\ reg' = f.reg /\ f.reg.s = f.high
      /\ p' \ {B} = (f.p \ {B}) \union {Expansion}
  BY <1>1, ReturnHandlerStep DEF Nested
<1>3. frames' = {g \in frames : g.low # reg.s} /\ UNCHANGED <<mem, pads, elsewhere>>
  BY DEF ReturnFromInterrupt, Unwound
<1>4. /\ PadKept /\ StackKept(base, Depth(base, reg.s)) /\ UNCHANGED cart
      /\ Used' = Used /\ Used \in Int
  BY <1>1, <1>3, UsedBound DEF PadKept, StackKept, Seek, Cell, elsewhere, requests, Used
<1>5. \A g \in frames : /\ Depth(base, g.low) \in Nat /\ Depth(base, g.high) \in Nat
                        /\ Depth(base, g.high) < Depth(base, g.low)
                        /\ Depth(base, g.low) <= Depth(base, reg.s)
  <2>1. ASSUME NEW g \in frames
        PROVE  /\ Depth(base, g.low) \in Nat /\ Depth(base, g.high) \in Nat
               /\ Depth(base, g.high) < Depth(base, g.low)
               /\ Depth(base, g.low) <= Depth(base, reg.s)
    <3>1. /\ Depth(base, g.low) \in Nat /\ Depth(base, g.high) \in Nat
          /\ Depth(base, g.low) = Depth(base, g.high) + Size(g) /\ Size(g) \in {2, 3}
          /\ Depth(base, g.low) <= Depth(base, reg.s)
      BY <1>1, FrameDepths, FrameTypes
    <3>. QED
      BY <3>1
  <2>. QED
    BY <2>1
<1>6. Depth(base, reg.s) \in Nat
  BY <1>1, Depths
<1>7. ASSUME NEW g \in frames, NEW h \in frames, Depth(base, h.low) <= Depth(base, g.high)
      PROVE  h \in frames'
  <2>1. Depth(base, h.low) < Depth(base, reg.s)
    BY <1>5, <1>6, <1>7
  <2>. QED
    BY <1>3, <1>6, <2>1
<1>8. ASSUME NEW g \in frames'
      PROVE  Depth(base, g.low) <= Depth(base, reg.s)'
  <2>1. g \in frames /\ g # f
    BY <1>2, <1>3
  <2>2. \/ Depth(base, f.low) <= Depth(base, g.high)
        \/ Depth(base, g.low) <= Depth(base, f.high)
    BY <1>1, <2>1 DEF Nested
  <2>3. /\ Depth(base, g.low) \in Nat /\ Depth(base, g.high) \in Nat
        /\ Depth(base, g.high) < Depth(base, g.low)
        /\ Depth(base, g.low) <= Depth(base, f.low)
    BY <1>2, <1>5, <2>1
  <2>4. Depth(base, g.low) <= Depth(base, f.high)
    BY <1>2, <1>6, <2>2, <2>3
  <2>. QED
    BY <1>2, <2>4
<1>9. Context(base, pc, reg, p)'
  <2>1. Context(base, f.pc, f.reg, f.p)'
    <3>1. Context(base, f.pc, f.reg, f.p)
      BY <1>1 DEF Follows
    <3>. QED
      BY <1>1, <1>4, <1>7, <3>1, SuspendedKept
  <2>2. PICK o : o = p'
    OBVIOUS
  <2>3. (C \in f.p <=> C \in o) /\ (Z \in f.p <=> Z \in o)
    BY <1>2, <2>2 DEF C, Z, B, Expansion
  <2>4. Context(base, f.pc, f.reg, o)'
    BY <2>1, <2>3, ContextFlags
  <2>5. PICK at, r : at = pc' /\ r = reg'
    OBVIOUS
  <2>6. Context(base, at, r, o)'
    BY <1>2, <2>4, <2>5
  <2>. QED
    BY <2>2, <2>5, <2>6
<1>10. frames' \subseteq frames
  BY <1>3
<1>11. \A g \in frames' : \A h \in frames :
         Depth(base, h.low) <= Depth(base, g.high) => h \in frames'
  BY <1>7, <1>10
<1>. QED
  BY <1>1, <1>4, <1>8, <1>9, <1>10, <1>11, FollowsOn

\* An instruction of a handler.
LEMMA HandlerFollows ==
  ASSUME CpuInv, Shown, RomIntact, NEW base \in Byte, Follows(base), Instruction,
         NEW f \in frames, Handles(f, pc, reg)
  PROVE  Follows(base)' /\ RomIntact'
<1>1. CpuTypes /\ Nested(base) /\ reg.s \in Byte /\ Used \in Int
  BY Typed, UsedBound DEF CpuInv, Follows
<1>2. /\ \A g \in frames : Depth(base, g.low) <= Depth(base, f.low)
      /\ \A g \in frames : Depth(base, g.low) \in Nat
      /\ Depth(base, reg.s) \in Nat /\ Depth(base, f.low) \in Nat
      /\ Depth(base, f.low) <= Depth(base, reg.s)
  BY <1>1, HandlerDepth, FrameDepths
<1>3. ASSUME UNCHANGED elsewhere
      PROVE  Used' = Used /\ UNCHANGED cart
  BY <1>3 DEF elsewhere, requests, Used
<1>4. ASSUME Handles(f, pc, reg)', UNCHANGED elsewhere, frames' = frames, PadKept,
             StackKept(base, Depth(base, reg.s)),
             Depth(base, f.low) <= Depth(base, reg.s)', Depth(base, reg.s)' \in Nat
      PROVE  Follows(base)'
  <2>1. Context(base, pc, reg, p)'
    <3>1. PICK g \in frames' : g = f
      BY <1>4
    <3>2. Handles(g, pc, reg)'
      BY <1>4, <3>1
    <3>. QED
      BY <3>2 DEF Context
  <2>2. \A g \in frames' : Depth(base, g.low) <= Depth(base, reg.s)'
    BY <1>2, <1>4
  <2>3. Used' >= Used /\ Used' \in Int /\ UNCHANGED cart
    BY <1>1, <1>3, <1>4
  <2>. QED
    BY <1>1, <1>4, <2>1, <2>2, <2>3, FollowsOn
<1>5. ASSUME NoStore, UNCHANGED elsewhere
      PROVE  frames' = frames /\ StackKept(base, Depth(base, reg.s)) /\ RomIntact'
  BY <1>5 DEF NoStore, StackKept, Seek, Cell, elsewhere, RomIntact
<1>6. \A s \in Byte : Depth(base, s) \in Nat
  BY Depths
<1>7. reg'.s \in Byte
  <2>1. CpuTypes'
    BY <1>1, StepTypes DEF Next
  <2>. QED
    BY <2>1 DEF CpuTypes, TypeOK
<1>8. Depth(base, reg.s)' \in Nat
  <2>1. Depth(base, reg.s)' = Depth(base, reg'.s)
    BY DEF Depth
  <2>. QED
    BY <1>6, <1>7, <2>1
<1>9. CASE pc \in {NmiAt + 1, NmiAt + 3, NmiAt + 5, NmiAt + 6, NmiAt + 7, NmiAt + 10,
                   IrqAt + 1, IrqAt + 2, PadNmiAt + 1}
  <2>1. /\ Handles(f, pc, reg)' /\ NoStore /\ UNCHANGED elsewhere /\ reg'.s = reg.s
        /\ PadKept
    BY <1>1, <1>9, QuietHandlerStep
  <2>2. Depth(base, reg.s)' = Depth(base, reg.s)
    BY <2>1 DEF Depth
  <2>. QED
    BY <1>2, <1>4, <1>5, <1>8, <2>1, <2>2
<1>10. CASE pc \in {NmiAt, IrqAt, PadNmiAt, NmiAt + 2}
  <2>1. /\ Handles(f, pc, reg)' /\ UNCHANGED elsewhere
        /\ frames' = frames
        /\ Depth(base, reg.s)' = Depth(base, reg.s) + 1
        /\ StackKept(base, Depth(base, reg.s)) /\ PadKept /\ RomIntact'
    BY <1>1, <1>10, PushHandlerStep
  <2>2. Depth(base, f.low) <= Depth(base, reg.s)'
    BY <1>2, <2>1
  <2>. QED
    BY <1>4, <1>8, <2>1, <2>2
<1>11. CASE pc \in {NmiAt + 9, NmiAt + 11, IrqAt + 4, PadNmiAt + 4}
  <2>1. /\ Handles(f, pc, reg)' /\ NoStore /\ UNCHANGED <<pads, elsewhere>>
        /\ Depth(base, f.low) <= Depth(base, reg.s)'
    BY <1>1, <1>11, PullHandlerStep
  <2>2. PadKept
    BY <2>1 DEF NoStore, PadKept, Seek, Cell, elsewhere
  <2>. QED
    BY <1>4, <1>5, <1>8, <2>1, <2>2
<1>12. CASE pc \in {NmiAt + 12, IrqAt + 5, PadNmiAt + 5}
  <2>1. PICK l \in HandlerLines : l.at = pc
    BY DEF Handles
  <2>2. Entry.instr = "RTI"
    <3>1. Entry.instr = l.instr /\ HandlerRow(l)
      BY <1>1, <2>1, HandlerCode DEF CpuTypes
    <3>. QED
      BY <1>12, <2>1, <3>1 DEF HandlerRow
  <2>3. ReturnFromInterrupt
    BY <2>2, Dispatch
  <2>4. RomIntact'
    BY <2>3 DEF ReturnFromInterrupt, RomIntact
  <2>. QED
    BY <1>12, <2>3, <2>4, ReturnFollows
<1>13. \/ pc \in {NmiAt + 1, NmiAt + 3, NmiAt + 5, NmiAt + 6, NmiAt + 7, NmiAt + 10,
                  IrqAt + 1, IrqAt + 2, PadNmiAt + 1}
       \/ pc \in {NmiAt, IrqAt, PadNmiAt, NmiAt + 2}
       \/ pc \in {NmiAt + 9, NmiAt + 11, IrqAt + 4, PadNmiAt + 4}
       \/ pc \in {NmiAt + 12, IrqAt + 5, PadNmiAt + 5}
  BY DEF Handles, Untouched, AIsSaved, XIsInA, BothAreSaved
<1>. QED
  BY <1>9, <1>10, <1>11, <1>12, <1>13

-----------------------------------------------------------------------------
(* The programs themselves.                                                *)

\* Where S is at its base there is no frame.
LEMMA NoFrames ==
  ASSUME CpuTypes, NEW base \in Byte, Nested(base), Depth(base, reg.s) = 0
  PROVE  frames = {}
<1>1. ASSUME NEW f \in frames
      PROVE  FALSE
  <2>1. Size(f) \in {2, 3}
    BY FrameTypes
  <2>2. /\ Depth(base, f.low) \in Nat /\ Depth(base, f.high) \in Nat
        /\ Depth(base, f.low) = Depth(base, f.high) + Size(f)
        /\ Depth(base, f.low) <= Depth(base, reg.s)
    BY FrameDepths
  <2>. QED
    BY <2>1, <2>2
<1>. QED
  BY <1>1

\* Without a frame, S is its own base.
AtBase ==
  /\ CpuTypes /\ frames = {}
  /\ \/ cart = Sum(cart.budget) /\ \E l \in SumLines : l.at = pc
     \/ cart = Nest(cart.budget) /\ pc <= Main + 10 /\ \E l \in NestLines : l.at = pc
     \/ cart = ReadPad(cart.budget) /\ PadLoop(pc, reg, p)

AtBaseFollows == AtBase => \E base \in Byte : Follows(base)

LEMMA BaseFollows == AtBaseFollows
<1>. SUFFICES ASSUME AtBase
              PROVE  \E base \in Byte : Follows(base)
  BY DEF AtBaseFollows
<1>1. PICK s : s = reg.s
  OBVIOUS
<1>2. s \in Byte
  BY <1>1 DEF AtBase, CpuTypes, TypeOK
<1>3. Depth(s, reg.s) = 0
  BY <1>1, <1>2 DEF Depth, Byte, BYTE
<1>4. InMain(s, pc, reg, p)
  BY <1>3 DEF AtBase, InMain, InSum, InNest, InPad
<1>5. Follows(s)
  BY <1>4 DEF AtBase, Follows, Nested, Context
<1>. QED
  BY <1>2, <1>5

LEMMA BaseFollowsNext == AtBaseFollows'
BY BaseFollows, PTL

\* After a step that leaves no frame.
LEMMA FreshFollows ==
  ASSUME CpuTypes', frames' = {},
         \/ cart' = Sum(cart'.budget) /\ \E l \in SumLines : l.at = pc'
         \/ cart' = Nest(cart'.budget) /\ pc' <= Main + 10 /\ \E l \in NestLines : l.at = pc'
         \/ cart' = ReadPad(cart'.budget) /\ PadLoop(pc, reg, p)'
  PROVE  \E base \in Byte : Follows(base)'
<1>1. AtBase'
  BY DEF AtBase
<1>. QED
  BY <1>1, BaseFollowsNext DEF AtBaseFollows

\* The cells that the programs store to.
LEMMA ZeroPageStore ==
  ASSUME RomIntact, UNCHANGED cart, NEW a \in {16, 17, 18}, NEW v, NEW before, Stores(before, a, v)
  PROVE  /\ RomIntact' /\ pads' = before /\ frames' \subseteq frames
         /\ a = 16 => Seek(16)' = v
<1>1. a \in Int /\ a < RAM_END /\ a % RAM_SIZE = a /\ a # JOYSTICK_STROBE_ADDRESS /\ a < 32768
  BY DEF RAM_END, RAM_SIZE, JOYSTICK_STROBE_ADDRESS
<1>2. a \notin PRG_ROM
  <2>1. a \in PRG_ROM => a >= PRG_START
    BY <1>1, ConstantInts DEF PRG_ROM
  <2>. QED
    BY <1>1, <2>1, ConstantInts
<1>7. Cell(a) = a /\ InMemory(a)
  BY <1>1, <1>2 DEF Cell, InMemory
<1>8. Cell(a)' = a
  BY <1>1, <1>2 DEF Cell
<1>3. mem' = Overlay([c \in {a} |-> v])
  BY <1>7 DEF Stores, MemAfterWrite
<1>4. DOMAIN mem' = DOMAIN mem \union {a} /\ mem'[a] = v
  BY <1>3 DEF Overlay
<1>5. RomIntact'
  BY <1>2, <1>4 DEF RomIntact
<1>6. a = 16 => Seek(16)' = v
  BY <1>4, <1>8 DEF Seek
<1>. QED
  BY <1>1, <1>5, <1>6 DEF Stores, PadsAfterWrite, Surviving

\* The listing that sums.
SumRow(l) ==
  LET onwards == \E m \in SumLines : m.at = l.at + InstLen[l.mode]
  IN  \/ l.instr \in {"LDX", "LDA", "TXS", "CLI", "CLC", "CMP", "ADC", "SBC"} /\ onwards
      \/ l.instr = "STA" /\ l.mode = "zpg_" /\ l.arg \in {16, 17, 18} /\ onwards
      \/ l.instr = "JMP" /\ l.mode = "abs_" /\ l.arg = l.at

LEMMA SumRows == \A l \in SumLines : SumRow(l)
BY LineLengths DEF SumLines, Line, Implied, SumRow, Main

\* An instruction of the program that sums.
LEMMA SumFollows ==
  ASSUME CpuInv, Shown, RomIntact, NEW base \in Byte, Nested(base), InSum(base, pc, reg),
         Instruction
  PROVE  RomIntact' /\ \E b \in Byte : Follows(b)'
<1>1. CpuTypes /\ cart \in Cartridges /\ CpuTypes'
  BY StepTypes DEF CpuInv, CpuTypes, Next
<1>2. cart = Sum(cart.budget) /\ frames = {}
  BY <1>1, NoFrames DEF InSum
<1>3. PICK l \in SumLines : l.at = pc
  BY DEF InSum
<1>4. Decodes(l) /\ SumRow(l)
  BY <1>1, <1>2, <1>3, LinesDecode, SumRows
<1>5. /\ Entry.instr = l.instr
      /\ NextInstruction = l.at + InstLen[l.mode]
      /\ l.mode = "abs_" => ArgAddress = l.arg
      /\ l.mode = "zpg_" => ArgAddress = Lower(l.arg)
  BY <1>4 DEF Decodes
<1>. DEFINE onwards == \E m \in SumLines : m.at = l.at + InstLen[l.mode]
<1>6. CASE l.instr \in {"LDX", "LDA", "TXS", "CLI", "CLC", "CMP", "ADC", "SBC"} /\ onwards
  <2>1. NoStore /\ GoesOn /\ UNCHANGED elsewhere
    BY <1>1, <1>5, <1>6, LoadDoes, ArithmeticDoes, InnerDoes
  <2>2. pc' = NextInstruction /\ frames' = {} /\ RomIntact' /\ UNCHANGED cart
    BY <1>2, <2>1 DEF NoStore, GoesOn, RomIntact, elsewhere
  <2>3. \E m \in SumLines : m.at = pc'
    BY <1>5, <1>6, <2>2
  <2>. QED
    BY <1>1, <1>2, <2>2, <2>3, FreshFollows
<1>7. CASE l.instr = "STA" /\ l.mode = "zpg_" /\ l.arg \in {16, 17, 18} /\ onwards
  <2>1. ArgAddress \in {16, 17, 18}
    BY <1>5, <1>7 DEF Lower, BYTE
  <2>2. GoesOn /\ UNCHANGED elsewhere /\ Stores(pads, ArgAddress, reg.a)
    BY <1>1, <1>5, <1>7, StoreDoes
  <2>3. pc' = NextInstruction /\ UNCHANGED cart
    BY <2>2 DEF GoesOn, elsewhere
  <2>4. frames' = {} /\ RomIntact'
    BY <1>2, <2>1, <2>2, <2>3, ZeroPageStore
  <2>5. \E m \in SumLines : m.at = pc'
    BY <1>5, <1>7, <2>3
  <2>. QED
    BY <1>1, <1>2, <2>3, <2>4, <2>5, FreshFollows
<1>8. CASE l.instr = "JMP" /\ l.mode = "abs_" /\ l.arg = l.at
  <2>1. NoStore /\ UNCHANGED elsewhere /\ pc' = ArgAddress
    BY <1>1, <1>5, <1>8, FlowDoes
  <2>2. pc' = l.at /\ frames' = {} /\ RomIntact' /\ UNCHANGED cart
    BY <1>2, <1>5, <1>8, <2>1 DEF NoStore, RomIntact, elsewhere
  <2>. QED
    BY <1>1, <1>2, <2>2, FreshFollows
<1>. QED
  BY <1>4, <1>6, <1>7, <1>8 DEF SumRow

\* The listing that nests.
NestRow(l) ==
  \/ /\ l.instr \in {"LDX", "LDA", "TXS", "CLI", "CLC"} /\ l.at < Main + 7
     /\ \E m \in NestLines : m.at = l.at + InstLen[l.mode] /\ m.at <= Main + 10
  \/ l.at = Main + 7 /\ l.instr = "JSR" /\ l.mode = "abs_" /\ l.arg = Main + 13
  \/ l.at = Main + 10 /\ l.instr = "JMP" /\ l.mode = "abs_" /\ l.arg = Main + 10
  \/ l.at = Main + 13 /\ l.instr = "ADC" /\ l.mode = "imm"
  \/ l.at = Main + 15 /\ l.instr = "PHP" /\ l.mode = "impl"
  \/ l.at = Main + 16 /\ l.instr = "BRK" /\ l.mode = "impl"
  \/ l.at = Main + 17 /\ l.instr = "PLP" /\ l.mode = "impl"
  \/ l.at = Main + 18 /\ l.instr = "RTS" /\ l.mode = "impl"

LEMMA NestRows == \A l \in NestLines : NestRow(l)
BY LineLengths DEF NestLines, Line, Implied, NestRow, Main

LEMMA NestPlaces ==
  \A k \in {10, 13, 15, 16, 17, 18} : \E l \in NestLines : l.at = Main + k
BY DEF NestLines, Line, Implied, Main

\* In the subroutine the only frame is that of its call.
LEMMA OneCall ==
  ASSUME CpuTypes, NEW base \in Byte, Nested(base), Called(base), Depth(base, reg.s) <= 3
  PROVE  \E c \in frames : /\ frames = {c} /\ c.kind = "call" /\ c.pc = Main + 10
                           /\ Depth(base, c.low) = 2 /\ c.low \in Byte
<1>1. PICK c \in frames : c.kind = "call" /\ c.pc = Main + 10 /\ Depth(base, c.low) = 2
  BY DEF Called
<1>2. \A f \in frames : /\ Depth(base, f.low) \in Nat /\ Depth(base, f.high) \in Nat
                        /\ Depth(base, f.low) = Depth(base, f.high) + Size(f)
                        /\ Depth(base, f.low) <= Depth(base, reg.s)
                        /\ Size(f) \in {2, 3}
  BY FrameDepths, FrameTypes
<1>3. Depth(base, c.high) = 0 /\ c.low \in Byte /\ Depth(base, reg.s) \in Nat
  <2>1. Size(c) = 2
    BY <1>1 DEF Size
  <2>2. Depth(base, c.low) = Depth(base, c.high) + Size(c) /\ Depth(base, c.high) \in Nat
    BY <1>2
  <2>3. Depth(base, c.high) = 0
    BY <1>1, <2>1, <2>2
  <2>. QED
    BY <2>3, FrameTypes, FrameDepths
<1>4. ASSUME NEW g \in frames, g # c
      PROVE  FALSE
  <2>1. \/ Depth(base, c.low) <= Depth(base, g.high)
        \/ Depth(base, g.low) <= Depth(base, c.high)
    BY <1>4 DEF Nested
  <2>2. /\ Depth(base, g.low) \in Nat /\ Depth(base, g.high) \in Nat
        /\ Depth(base, g.low) = Depth(base, g.high) + Size(g)
        /\ Depth(base, g.low) <= Depth(base, reg.s)
        /\ Size(g) \in {2, 3}
    BY <1>2
  <2>. QED
    BY <1>1, <1>3, <2>1, <2>2
<1>. QED
  BY <1>1, <1>3, <1>4

\* JSR.
LEMMA CallFollows ==
  ASSUME CpuInv, Shown, RomIntact, Used >= 0, NEW base \in Byte, Nested(base),
         cart = Nest(cart.budget), Depth(base, reg.s) = 0, JumpToSubroutine,
         NextInstruction = Main + 10, ArgAddress = Main + 13
  PROVE  RomIntact' /\ Follows(base)'
<1>. DEFINE bytes == <<Upper(ReturnMinus1), Lower(ReturnMinus1)>>
            frame == [kind |-> "call", low |-> Down(2), high |-> reg.s, pc |-> NextInstruction,
                      p |-> p, reg |-> reg]
<1>1. CpuTypes /\ frames = {} /\ Used \in Int /\ reg.s \in Byte
  BY NoFrames, UsedBound, Typed DEF CpuInv
<1>2. bytes \in Seq(Byte) /\ Len(bytes) = 2 /\ 2 \in 1 .. 3
  <2>1. ReturnMinus1 \in Word
    <3>1. ReturnMinus1 = (Main + 9) % WORD
      BY DEF ReturnMinus1, Main
    <3>. QED
      BY <3>1, Ranges DEF Main, WORD
  <2>2. Upper(ReturnMinus1) \in Byte /\ Lower(ReturnMinus1) \in Byte
    BY <2>1, Bytes
  <2>. QED
    BY <2>2
<1>3. Push(bytes, {frame}) /\ pc' = Main + 13 /\ UNCHANGED <<pads, elsewhere>>
  BY DEF JumpToSubroutine
<1>. HIDE DEF bytes
<1>4. /\ frame.kind = "call" /\ frame.low = (reg.s - 2) % BYTE /\ frame.high = reg.s
      /\ frame.pc = Main + 10 /\ frame.reg = reg
  BY DEF Down
<1>. HIDE DEF frame
<1>5. /\ frames' = {frame} /\ reg'.s = frame.low /\ Depth(base, frame.low) = 2 /\ RomIntact'
  <2>1. Depth(base, reg.s) + Len(bytes) <= 255 /\ Len(bytes) \in 1 .. 3 /\ UNCHANGED cart
    BY <1>2, <1>3 DEF elsewhere
  <2>2. /\ frames' = frames \union {frame}
        /\ reg'.s = (reg.s - Len(bytes)) % BYTE
        /\ Depth(base, reg'.s) = Depth(base, reg.s) + Len(bytes)
        /\ RomIntact'
    BY <1>1, <1>2, <1>3, <2>1, PushKept
  <2>. QED
    BY <1>1, <1>2, <1>4, <2>2
<1>6. Used' = Used /\ UNCHANGED cart
  BY <1>3 DEF elsewhere, requests, Used
<1>7. Nested(base)'
  <2>1. ASSUME NEW f \in frames'
        PROVE  /\ Depth(base, f.low) = Depth(base, f.high) + Size(f)
               /\ Depth(base, f.low) <= Depth(base, reg'.s)
               /\ Depth(base, f.low) <= 5 * Used' + 6
               /\ f.kind = "call" => Depth(base, f.low) = 2
               /\ f.reg.s = f.high
    <3>1. f = frame /\ Size(f) = 2
      BY <1>4, <1>5 DEF Size
    <3>. QED
      BY <1>1, <1>4, <1>5, <1>6, <3>1
  <2>2. \A f, g \in frames' : f = g
    BY <1>5
  <2>. QED
    BY <2>1, <2>2 DEF Nested, Depth
<1>8. InNest(base, pc, reg)'
  <2>1. Called(base)'
    BY <1>4, <1>5 DEF Called, Depth
  <2>2. Depth(base, reg.s)' = 2
    BY <1>5 DEF Depth
  <2>3. \E l \in NestLines : l.at = pc'
    BY <1>3, NestPlaces
  <2>4. ~(pc' <= Main + 10) /\ pc' \notin {Main + 16, Main + 17}
    BY <1>3 DEF Main
  <2>5. (cart = Nest(cart.budget))'
    BY <1>6
  <2>. QED
    BY <2>1, <2>2, <2>3, <2>4, <2>5 DEF InNest
<1>9. Context(base, pc, reg, p)'
  BY <1>8 DEF Context, InMain
<1>. QED
  BY <1>4, <1>5, <1>7, <1>9 DEF Follows

\* In the subroutine.
LEMMA CalledFollows ==
  ASSUME CpuTypes, NEW base \in Byte, Follows(base), Called(base), Depth(base, reg.s) <= 3,
         cart = Nest(cart.budget), UNCHANGED <<pads, elsewhere>>, frames' = frames,
         StackKept(base, Depth(base, reg.s)), Seek(16)' = Seek(16),
         NEW k \in {15, 16, 17, 18}, pc' = Main + k,
         Depth(base, reg.s)' = IF k \in {16, 17} THEN 3 ELSE 2
  PROVE  Follows(base)'
<1>1. Nested(base) /\ Used \in Int
  BY UsedBound DEF Follows
<1>2. PICK c \in frames : frames = {c} /\ Depth(base, c.low) = 2
  BY <1>1, OneCall
<1>3. UNCHANGED cart /\ Used' = Used /\ PadKept
  BY DEF elsewhere, requests, Used, PadKept
<1>4. InNest(base, pc, reg)'
  <2>1. Called(base)'
    BY DEF Called, Depth
  <2>2. \E l \in NestLines : l.at = pc'
    BY NestPlaces
  <2>3. ~(pc' <= Main + 10) /\ (pc' \in {Main + 16, Main + 17} <=> k \in {16, 17})
    BY DEF Main
  <2>4. (cart = Nest(cart.budget))'
    BY <1>3
  <2>. QED
    BY <2>1, <2>2, <2>3, <2>4 DEF InNest
<1>5. Context(base, pc, reg, p)'
  BY <1>4 DEF Context, InMain
<1>6. \A f \in frames' : Depth(base, f.low) <= Depth(base, reg.s)'
  BY <1>2
<1>7. Used' >= Used /\ Used' \in Int
  BY <1>1, <1>3
<1>. QED
  BY <1>1, <1>3, <1>5, <1>6, <1>7, FollowsOn

\* PHP, BRK, PLP and RTS in the subroutine.
LEMMA SubroutineFollows ==
  ASSUME CpuInv, Shown, RomIntact, Used >= 0, NEW base \in Byte, Follows(base),
         InNest(base, pc, reg), ~(pc <= Main + 10), Instruction
  PROVE  RomIntact' /\ \E b \in Byte : Follows(b)'
<1>1. CpuTypes /\ cart \in Cartridges /\ CpuTypes' /\ Nested(base) /\ reg.s \in Byte
      /\ Used \in Int /\ Used <= 49 /\ reg \in Registers /\ p \in SUBSET Flags
  BY StepTypes, Typed, UsedBound, Held DEF CpuInv, CpuTypes, Next, Follows
<1>2. /\ cart = Nest(cart.budget) /\ Called(base)
      /\ Depth(base, reg.s) = IF pc \in {Main + 16, Main + 17} THEN 3 ELSE 2
  BY DEF InNest
<1>3. PICK l \in NestLines : l.at = pc
  BY DEF InNest
<1>4. Decodes(l) /\ NestRow(l)
  BY <1>1, <1>2, <1>3, LinesDecode, NestRows
<1>5. Entry.instr = l.instr /\ NextInstruction = l.at + InstLen[l.mode]
  BY <1>4 DEF Decodes
<1>6. PICK c \in frames : /\ frames = {c} /\ c.kind = "call" /\ c.pc = Main + 10
                          /\ Depth(base, c.low) = 2 /\ c.low \in Byte
  BY <1>1, <1>2, OneCall
<1>7. ASSUME NoStore, UNCHANGED elsewhere
      PROVE  /\ frames' = frames /\ StackKept(base, Depth(base, reg.s)) /\ RomIntact'
             /\ Seek(16)' = Seek(16)
  BY <1>7 DEF NoStore, StackKept, Seek, Cell, elsewhere, RomIntact
<1>8. CASE pc = Main + 13
  <2>1. l.instr = "ADC" /\ l.mode = "imm"
    BY <1>3, <1>4, <1>8 DEF NestRow, Main
  <2>2. pc' = Main + 15 /\ NoStore /\ UNCHANGED elsewhere /\ UNCHANGED pads /\ reg'.s = reg.s
    <3>1. PadsAfterRead(ArgAddress) = pads
      BY <1>4, <2>1 DEF Decodes
    <3>2. GoesOn /\ NoStore /\ UNCHANGED elsewhere /\ Reads(ArgAddress) /\ reg'.s = reg.s
      BY <1>1, <1>5, <2>1, ArithmeticDoes
    <3>3. NextInstruction = Main + 15
      BY <1>3, <1>5, <1>8, <2>1, LineLengths DEF Main
    <3>. QED
      BY <3>1, <3>2, <3>3 DEF GoesOn, Reads
  <2>3. Depth(base, reg.s)' = 2 /\ Depth(base, reg.s) = 2
    BY <1>2, <1>8, <2>2 DEF Depth, Main
  <2>4. Follows(base)'
    <3>1. PICK k \in {15, 16, 17, 18} : k = 15
      OBVIOUS
    <3>. QED
      BY <1>1, <1>2, <1>7, <2>2, <2>3, <3>1, CalledFollows
  <2>. QED
    BY <1>7, <2>2, <2>4
<1>9. CASE pc = Main + 15
  <2>1. l.instr = "PHP" /\ l.mode = "impl"
    BY <1>3, <1>4, <1>9 DEF NestRow, Main
  <2>. DEFINE status == ByteOf(p \union {B, Expansion})
              bytes == <<status>>
  <2>2. Push(bytes, {}) /\ pc' = Main + 16 /\ UNCHANGED <<pads, elsewhere>>
    <3>1. PushRegister /\ Entry.instr # "PHA"
      BY <1>5, <2>1, Dispatch
    <3>2. NextInstruction = Main + 16
      BY <1>3, <1>5, <1>9, <2>1, LineLengths DEF Main
    <3>. QED
      BY <3>1, <3>2 DEF PushRegister, GoesOn
  <2>3. bytes \in Seq(Byte) /\ Len(bytes) = 1 /\ 1 \in 1 .. 3
    <3>1. p \union {B, Expansion} \in SUBSET Flags
      BY <1>1 DEF Expansion, B, Flags
    <3>2. status \in Byte
      BY <3>1, BitsOfByte
    <3>. HIDE DEF status
    <3>. QED
      BY <3>2
  <2>. HIDE DEF bytes
  <2>4. Depth(base, reg.s) = 2
    BY <1>2, <1>9 DEF Main
  <2>5. /\ frames' = frames /\ Depth(base, reg'.s) = 3 /\ RomIntact'
        /\ StackKept(base, Depth(base, reg.s)) /\ Seek(16)' = Seek(16)
    <3>1. Depth(base, reg.s) + Len(bytes) <= 255 /\ Len(bytes) \in 1 .. 3 /\ UNCHANGED cart
      BY <2>2, <2>3, <2>4 DEF elsewhere
    <3>2. /\ frames' = frames \union {}
          /\ Depth(base, reg'.s) = Depth(base, reg.s) + Len(bytes)
          /\ RomIntact' /\ StackKept(base, Depth(base, reg.s)) /\ Seek(16)' = Seek(16)
      BY <1>1, <2>2, <2>3, <3>1, PushKept
    <3>. QED
      BY <2>3, <2>4, <3>2
  <2>6. Depth(base, reg.s)' = 3
    BY <2>5 DEF Depth
  <2>7. Follows(base)'
    <3>1. PICK k \in {15, 16, 17, 18} : k = 16
      OBVIOUS
    <3>. QED
      BY <1>1, <1>2, <2>2, <2>4, <2>5, <2>6, <3>1, CalledFollows
  <2>. QED
    BY <2>5, <2>7
<1>10. CASE pc = Main + 16
  <2>1. l.instr = "BRK" /\ l.mode = "impl"
    BY <1>3, <1>4, <1>10 DEF NestRow, Main
  <2>2. NextInstruction = Main + 17 /\ Break
    BY <1>3, <1>5, <1>10, <2>1, LineLengths, Dispatch DEF Main
  <2>3. HandleInterrupt(IRQ_VECTOR, NextInstruction, {B}) /\ UNCHANGED <<pads, elsewhere>>
    BY <2>2 DEF Break
  <2>4. Depth(base, reg.s) = 3
    BY <1>2, <1>10
  <2>5. Context(base, NextInstruction, reg, p)
    <3>1. \E m \in NestLines : m.at = Main + 17
      BY NestPlaces
    <3>2. ~(Main + 17 <= Main + 10) /\ Main + 17 \in {Main + 16, Main + 17}
      BY DEF Main
    <3>3. InNest(base, Main + 17, reg)
      BY <1>2, <2>4, <3>1, <3>2 DEF InNest
    <3>. QED
      BY <2>2, <3>3 DEF Context, InMain
  <2>6. Used' = Used /\ UNCHANGED cart /\ UNCHANGED pads
    BY <2>3 DEF elsewhere, requests, Used
  <2>7. Depth(base, reg.s) + 3 <= 5 * Used' + 6 /\ Used' >= Used /\ Used' \in Int /\ Used' <= 49
    BY <1>1, <2>4, <2>6
  <2>8. NextInstruction \in Word
    BY <2>2, Ranges DEF Main
  <2>9. IRQ_VECTOR \in {NMI_VECTOR, IRQ_VECTOR} /\ {B} \in SUBSET {B} /\ UNCHANGED <<cart, pads>>
    BY <2>6
  <2>. QED
    BY <1>1, <2>3, <2>5, <2>6, <2>7, <2>8, <2>9, InterruptEntered
<1>11. CASE pc = Main + 17
  <2>1. l.instr = "PLP" /\ l.mode = "impl"
    BY <1>3, <1>4, <1>11 DEF NestRow, Main
  <2>2. NextInstruction = Main + 18 /\ PullStatus
    BY <1>3, <1>5, <1>11, <2>1, LineLengths, Dispatch DEF Main
  <2>3. /\ reg'.s = (reg.s + 1) % BYTE /\ pc' = Main + 18 /\ NoStore
        /\ UNCHANGED <<pads, elsewhere>>
    BY <1>1, <2>2 DEF PullStatus, GoesOn, Registers, Up
  <2>4. Depth(base, reg.s) = 3
    BY <1>2, <1>11
  <2>5. Depth(base, reg.s)' = 2
    <3>1. 1 \in 0 .. 3 /\ Depth(base, reg.s) >= 1
      BY <2>4
    <3>2. Depth(base, (reg.s + 1) % BYTE) = Depth(base, reg.s) - 1
      BY <1>1, <3>1, Depths
    <3>3. Depth(base, reg'.s) = 2
      BY <2>3, <2>4, <3>2
    <3>. QED
      BY <3>3 DEF Depth
  <2>6. Follows(base)'
    <3>1. PICK k \in {15, 16, 17, 18} : k = 18
      OBVIOUS
    <3>. QED
      BY <1>1, <1>2, <1>7, <2>3, <2>4, <2>5, <3>1, CalledFollows
  <2>. QED
    BY <1>7, <2>3, <2>6
<1>12. CASE pc = Main + 18
  <2>1. l.instr = "RTS" /\ l.mode = "impl"
    BY <1>3, <1>4, <1>12 DEF NestRow, Main
  <2>2. ReturnFromSubroutine
    BY <1>5, <2>1, Dispatch
  <2>3. Depth(base, reg.s) = 2
    BY <1>2, <1>12 DEF Main
  <2>4. c.low = reg.s
    BY <1>1, <1>6, <2>3, Depths
  <2>5. pc' = Main + 10
    BY <1>6, <2>2, <2>4, StepReturns DEF ReturnsWhereCalled
  <2>6. frames' = {} /\ RomIntact' /\ UNCHANGED cart
    BY <1>6, <2>2, <2>4 DEF ReturnFromSubroutine, Unwound, RomIntact, elsewhere
  <2>7. \E m \in NestLines : m.at = pc'
    BY <2>5, NestPlaces
  <2>8. pc' <= Main + 10
    BY <2>5 DEF Main
  <2>. QED
    BY <1>1, <1>2, <2>6, <2>7, <2>8, FreshFollows
<1>13. pc \in {Main + 13, Main + 15, Main + 16, Main + 17, Main + 18}
  <2>1. pc \in Int
    BY <1>1, Typed
  <2>2. ~(pc < Main + 7) /\ pc # Main + 7 /\ pc # Main + 10
    BY <2>1 DEF Main
  <2>. QED
    BY <1>3, <1>4, <2>2 DEF NestRow
<1>. QED
  BY <1>8, <1>9, <1>10, <1>11, <1>12, <1>13

\* An instruction of the program that nests.
LEMMA NestFollows ==
  ASSUME CpuInv, Shown, RomIntact, Used >= 0, NEW base \in Byte, Follows(base),
         InNest(base, pc, reg), Instruction
  PROVE  RomIntact' /\ \E b \in Byte : Follows(b)'
<1>1. CpuTypes /\ cart \in Cartridges /\ CpuTypes' /\ Nested(base)
  BY StepTypes DEF CpuInv, CpuTypes, Next, Follows
<1>2. CASE pc <= Main + 10
  <2>1. cart = Nest(cart.budget) /\ Depth(base, reg.s) = 0
    BY <1>2 DEF InNest
  <2>2. frames = {}
    BY <1>1, <2>1, NoFrames
  <2>3. PICK l \in NestLines : l.at = pc
    BY DEF InNest
  <2>4. Decodes(l) /\ NestRow(l)
    BY <1>1, <2>1, <2>3, LinesDecode, NestRows
  <2>5. /\ Entry.instr = l.instr /\ NextInstruction = l.at + InstLen[l.mode]
        /\ l.mode = "abs_" => ArgAddress = l.arg
    BY <2>4 DEF Decodes
  <2>6. CASE /\ l.instr \in {"LDX", "LDA", "TXS", "CLI", "CLC"} /\ l.at < Main + 7
             /\ \E m \in NestLines : m.at = l.at + InstLen[l.mode] /\ m.at <= Main + 10
    <3>1. NoStore /\ GoesOn /\ UNCHANGED elsewhere
      BY <1>1, <2>5, <2>6, LoadDoes, InnerDoes
    <3>2. pc' = NextInstruction /\ frames' = {} /\ RomIntact' /\ UNCHANGED cart
      BY <2>2, <3>1 DEF NoStore, GoesOn, RomIntact, elsewhere
    <3>3. pc' <= Main + 10 /\ \E m \in NestLines : m.at = pc'
      BY <2>5, <2>6, <3>2
    <3>. QED
      BY <1>1, <2>1, <3>2, <3>3, FreshFollows
  <2>7. CASE l.at = Main + 7
    <3>1. l.instr = "JSR" /\ l.mode = "abs_" /\ l.arg = Main + 13
      BY <2>4, <2>7 DEF NestRow, Main
    <3>2. JumpToSubroutine /\ ArgAddress = Main + 13
      BY <2>5, <3>1, Dispatch
    <3>3. NextInstruction = Main + 10
      BY <2>5, <2>7, <3>1, LineLengths DEF Main
    <3>. QED
      BY <1>1, <2>1, <3>2, <3>3, CallFollows
  <2>8. CASE l.at = Main + 10
    <3>1. l.instr = "JMP" /\ l.mode = "abs_" /\ l.arg = Main + 10
      BY <2>4, <2>8 DEF NestRow, Main
    <3>2. NoStore /\ UNCHANGED elsewhere /\ pc' = Main + 10
      BY <1>1, <2>5, <3>1, FlowDoes
    <3>3. pc' <= Main + 10 /\ (\E m \in NestLines : m.at = pc') /\ UNCHANGED cart
      BY <2>3, <2>8, <3>2 DEF Main, elsewhere
    <3>4. frames' = {} /\ RomIntact'
      BY <2>2, <3>2 DEF NoStore, RomIntact
    <3>. QED
      BY <1>1, <2>1, <3>3, <3>4, FreshFollows
  <2>. QED
    BY <1>2, <2>3, <2>4, <2>6, <2>7, <2>8 DEF NestRow, Main
<1>3. CASE ~(pc <= Main + 10)
  BY <1>3, SubroutineFollows
<1>. QED
  BY <1>2, <1>3

-----------------------------------------------------------------------------
(* The program that reads a controller.                                    *)

\* What a rotation to the left makes of the bits.
LEMMA RotatedBits ==
  ASSUME NEW v \in Byte, NEW q
  PROVE  LET val == Shift("ROL", v, q).val
         IN  /\ 0 \in Bits(val) <=> C \in q
             /\ \A i \in 0 .. 6 : i + 1 \in Bits(val) <=> i \in Bits(v)
<1>. DEFINE c == Carry(q)
            val == ((2 * v) % BYTE) + c
<1>1. Shift("ROL", v, q).val = val
  BY DEF Shift
<1>2. v \in 0 .. 255 /\ c \in 0 .. 1 /\ (c = 1 <=> C \in q)
  BY DEF Byte, BYTE, Carry
<1>. HIDE DEF c
<1>3. val = (IF v < 128 THEN 2 * v ELSE 2 * v - 256) + c /\ val \in 0 .. 255
  BY <1>2 DEF BYTE
<1>. HIDE DEF val
<1>4. \A w : \A i \in 0 .. 7 : i \in Bits(w) <=> (w \div Weight[i + 1]) % 2 = 1
  BY DEF Bits
<1>5. /\ Weight[1] = 1 /\ Weight[2] = 2 /\ Weight[3] = 4 /\ Weight[4] = 8
      /\ Weight[5] = 16 /\ Weight[6] = 32 /\ Weight[7] = 64 /\ Weight[8] = 128
  BY DEF Weight
<1>6. 0 \in Bits(val) <=> C \in q
  <2>1. 0 \in Bits(val) <=> (val \div 1) % 2 = 1
    BY <1>4, <1>5
  <2>2. (val \div 1) % 2 = c
    BY <1>2, <1>3
  <2>. QED
    BY <1>2, <2>1, <2>2
<1>7. 1 \in Bits(val) <=> 0 \in Bits(v)
  <2>1. (1 \in Bits(val) <=> (val \div 2) % 2 = 1) /\ (0 \in Bits(v) <=> (v \div 1) % 2 = 1)
    BY <1>4, <1>5
  <2>2. (val \div 2) % 2 = (v \div 1) % 2
    BY <1>2, <1>3
  <2>. QED
    BY <2>1, <2>2
<1>8. 2 \in Bits(val) <=> 1 \in Bits(v)
  <2>1. (2 \in Bits(val) <=> (val \div 4) % 2 = 1) /\ (1 \in Bits(v) <=> (v \div 2) % 2 = 1)
    BY <1>4, <1>5
  <2>2. (val \div 4) % 2 = (v \div 2) % 2
    BY <1>2, <1>3
  <2>. QED
    BY <2>1, <2>2
<1>9. 3 \in Bits(val) <=> 2 \in Bits(v)
  <2>1. (3 \in Bits(val) <=> (val \div 8) % 2 = 1) /\ (2 \in Bits(v) <=> (v \div 4) % 2 = 1)
    BY <1>4, <1>5
  <2>2. (val \div 8) % 2 = (v \div 4) % 2
    BY <1>2, <1>3
  <2>. QED
    BY <2>1, <2>2
<1>10. 4 \in Bits(val) <=> 3 \in Bits(v)
  <2>1. (4 \in Bits(val) <=> (val \div 16) % 2 = 1) /\ (3 \in Bits(v) <=> (v \div 8) % 2 = 1)
    BY <1>4, <1>5
  <2>2. (val \div 16) % 2 = (v \div 8) % 2
    BY <1>2, <1>3
  <2>. QED
    BY <2>1, <2>2
<1>11. 5 \in Bits(val) <=> 4 \in Bits(v)
  <2>1. (5 \in Bits(val) <=> (val \div 32) % 2 = 1) /\ (4 \in Bits(v) <=> (v \div 16) % 2 = 1)
    BY <1>4, <1>5
  <2>2. (val \div 32) % 2 = (v \div 16) % 2
    BY <1>2, <1>3
  <2>. QED
    BY <2>1, <2>2
<1>12. 6 \in Bits(val) <=> 5 \in Bits(v)
  <2>1. (6 \in Bits(val) <=> (val \div 64) % 2 = 1) /\ (5 \in Bits(v) <=> (v \div 32) % 2 = 1)
    BY <1>4, <1>5
  <2>2. (val \div 64) % 2 = (v \div 32) % 2
    BY <1>2, <1>3
  <2>. QED
    BY <2>1, <2>2
<1>13. 7 \in Bits(val) <=> 6 \in Bits(v)
  <2>1. (7 \in Bits(val) <=> (val \div 128) % 2 = 1) /\ (6 \in Bits(v) <=> (v \div 64) % 2 = 1)
    BY <1>4, <1>5
  <2>2. (val \div 128) % 2 = (v \div 64) % 2
    BY <1>2, <1>3
  <2>. QED
    BY <2>1, <2>2
<1>14. \A i \in 0 .. 6 : i + 1 \in Bits(val) <=> i \in Bits(v)
  BY <1>7, <1>8, <1>9, <1>10, <1>11, <1>12, <1>13
<1>. QED
  BY <1>1, <1>6, <1>14

\* The rotation takes the next button in.
LEMMA CollectsOneMore ==
  ASSUME NEW n \in 0 .. 7, Collected(n), C \in p <=> n \in Latched, Latched' = Latched,
         Seek(16) \in Byte, Seek(16)' = Shift("ROL", Seek(16), p).val
  PROVE  Collected(n + 1)'
<1>. DEFINE v == Seek(16)
            val == Shift("ROL", v, p).val
<1>1. /\ 0 \in Bits(val) <=> C \in p
      /\ \A i \in 0 .. 6 : i + 1 \in Bits(val) <=> i \in Bits(v)
  BY RotatedBits
<1>. HIDE DEF v, val
<1>2. ASSUME NEW j \in 0 .. n
      PROVE  n - j \in Bits(val) <=> j \in Latched
  <2>1. CASE j = n
    <3>1. n - j = 0
      BY <2>1
    <3>. QED
      BY <1>1, <2>1, <3>1
  <2>2. CASE j # n
    <3>1. j \in 0 .. n - 1 /\ n - 1 - j \in 0 .. 6 /\ n - j = (n - 1 - j) + 1
      BY <2>2
    <3>2. n - 1 - j \in Bits(v) <=> j \in Latched
      BY <3>1 DEF Collected, v
    <3>. QED
      BY <1>1, <3>1, <3>2
  <2>. QED
    BY <2>1, <2>2
<1>3. Bits(Seek(16))' = Bits(val)
  <2>1. Bits(Seek(16))' = Bits(Seek(16)')
    BY DEF Bits
  <2>. QED
    BY <2>1 DEF val, v
<1>. HIDE DEF Latched
<1>4. ASSUME NEW j \in 0 .. (n + 1) - 1
      PROVE  ((n + 1) - 1 - j \in Bits(Seek(16))' <=> j \in Latched')
  <2>1. j \in 0 .. n /\ (n + 1) - 1 - j = n - j
    OBVIOUS
  <2>. QED
    BY <1>2, <1>3, <2>1
<1>. QED
  BY <1>4 DEF Collected

\* The register of a controller is no memory.
LEMMA PadIsNoMemory == ~InMemory(JOY1) /\ JOY1 \in PADS
<1>1. ~(JOY1 < RAM_END) /\ JOY1 \in PADS
  BY DEF JOY1, RAM_END, PADS
<1>2. JOY1 \notin PRG_ROM
  <2>1. JOY1 \in PRG_ROM => JOY1 >= PRG_START
    BY ConstantInts DEF PRG_ROM, JOY1
  <2>. QED
    BY <2>1, ConstantInts DEF JOY1
<1>3. JOY1 \notin PRG_RAM
  <2>1. \A n \in PRG_RAM : n >= 24576
    BY DEF PRG_RAM
  <2>. QED
    BY <2>1 DEF JOY1
<1>. QED
  BY <1>1, <1>2, <1>3 DEF InMemory

\* The strobe.
LEMMA StrobeDoes ==
  ASSUME CpuTypes, NEW v, Stores(pads, JOY1, v)
  PROVE  /\ NoStore
         /\ pads'[JOY1].index = 0
         /\ pads'[JOY1].strobing <=> 0 \notin Bits(v)
<1>1. ~InMemory(JOY1)
  BY PadIsNoMemory
<1>2. NoStore
  BY <1>1 DEF Stores, MemAfterWrite, NoStore
<1>3. pads' = [a \in PADS |-> PadAfterWrite(pads[a], v)]
  BY DEF Stores, PadsAfterWrite, JOY1, JOYSTICK_STROBE_ADDRESS
<1>4. pads'[JOY1] = PadAfterWrite(pads[JOY1], v)
  BY <1>3 DEF PADS, JOY1
<1>5. pads[JOY1] \in Pad
  BY Held DEF MemoryTypes, PADS, JOY1
<1>. DEFINE up == 0 \notin Bits(v)
<1>6. PadAfterWrite(pads[JOY1], v) =
        [pads[JOY1] EXCEPT !.latched = pads[JOY1].pressed, !.index = 0, !.strobing = up]
  BY DEF PadAfterWrite
<1>. HIDE DEF up
<1>7. pads'[JOY1].index = 0 /\ (pads'[JOY1].strobing <=> up)
  BY <1>4, <1>5, <1>6 DEF Pad
<1>. QED
  BY <1>2, <1>7 DEF up

\* A read of the controller.
LEMMA ButtonRead ==
  ASSUME CpuTypes, NEW n \in 0 .. 7, Reading(n), Reads(JOY1), NEW v \in ReadValues(JOY1)
  PROVE  Reading(n + 1)' /\ Latched' = Latched /\ (0 \in Bits(v) <=> n \in Latched)
<1>1. pads[JOY1] \in Pad /\ JOY1 \in PADS /\ pads \in [PADS -> Pad]
  BY Held DEF MemoryTypes, PADS, JOY1
<1>2. v = PadSeek(pads[JOY1])
  BY <1>1, PadIsNoMemory DEF ReadValues
<1>3. pads'[JOY1] = PadAfterRead(pads[JOY1])
  BY <1>1 DEF Reads, PadsAfterRead
<1>4. Reading(n + 1)' /\ Latched' = Latched
  BY <1>1, <1>3 DEF PadAfterRead, Pad, Reading, Latched, PadIndexCap
<1>5. v = IF n \in Latched THEN 65 ELSE 64
  BY <1>2 DEF PadSeek, Reading, Latched
<1>6. \A w : 0 \in Bits(w) <=> (w \div 1) % 2 = 1
  BY DEF Bits, Weight
<1>7. (65 \div 1) % 2 = 1 /\ (64 \div 1) % 2 = 0
  OBVIOUS
<1>. QED
  BY <1>4, <1>5, <1>6, <1>7

\* A read of the cell that the program collects in.
LEMMA ZeroPageRead == ReadValues(16) = {Seek(16)} /\ PadsAfterRead(16) = pads
<1>1. InMemory(16) /\ 16 \notin PADS
  BY DEF InMemory, RAM_END, PADS
<1>2. ~IsDevice(16)
  <2>1. \A hi : 16 \notin PPU_START .. hi
    BY DEF PPU_START
  <2>2. \A hi : 16 \notin APU_START .. hi
    BY DEF APU_START
  <2>. QED
    BY <2>1, <2>2 DEF IsDevice
<1>. QED
  BY <1>1, <1>2 DEF ReadValues, PadsAfterRead

LEMMA SmallBits == 0 \in Bits(1) /\ 0 \notin Bits(0)
<1>1. (1 \div 1) % 2 = 1 /\ (0 \div 1) % 2 = 0
  OBVIOUS
<1>. QED
  BY <1>1 DEF Bits, Weight

\* What the CPU makes of a line of the program that reads.
LEMMA PadCode ==
  ASSUME CpuTypes, Shown, RomIntact, cart = ReadPad(cart.budget), NEW l \in PadLines, l.at = pc
  PROVE  /\ Entry.instr = l.instr /\ NextInstruction = pc + InstLen[l.mode]
         /\ Accumulator <=> l.mode = "acc"
         /\ l.mode = "imm" => /\ ReadValues(ArgAddress) = {Lower(l.arg)}
                              /\ PadsAfterRead(ArgAddress) = pads
         /\ l.mode = "zpg_" => ArgAddress = Lower(l.arg)
         /\ l.mode = "abs_" => ArgAddress = l.arg
         /\ l.mode = "rel" => ArgAddress = (pc + 2 + Signed(Lower(l.arg))) % WORD
<1>1. Decodes(l)
  BY LinesDecode DEF CpuTypes
<1>. QED
  BY <1>1 DEF Decodes, Accumulator

\* The listing that reads.
PadRow(l) ==
  /\ l.at = Main => l.instr = "LDX" /\ l.mode = "imm"
  /\ l.at = Main + 2 => l.instr = "TXS" /\ l.mode = "impl"
  /\ l.at = Main + 3 => l.instr = "LDY" /\ l.mode = "imm" /\ l.arg = 8
  /\ l.at = Main + 5 => l.instr = "LDA" /\ l.mode = "imm" /\ l.arg = 1
  /\ l.at \in {Main + 7, Main + 11} => l.instr = "STA" /\ l.mode = "abs_" /\ l.arg = JOY1
  /\ l.at \in {Main + 10, Main + 17} => l.instr = "LSR" /\ l.mode = "acc"
  /\ l.at = Main + 14 => l.instr = "LDA" /\ l.mode = "abs_" /\ l.arg = JOY1
  /\ l.at = Main + 18 => l.instr = "ROL" /\ l.mode = "zpg_" /\ l.arg = 16
  /\ l.at = Main + 20 => l.instr = "DEY" /\ l.mode = "impl"
  /\ l.at = Main + 21 => l.instr = "BNE" /\ l.mode = "rel" /\ l.arg = 247
  /\ l.at = Main + 23 => l.instr = "JMP" /\ l.mode = "abs_" /\ l.arg = Main + 23

\* Where its lines are, from its beginning.
PadPlaces == {0, 2, 3, 5, 7, 10, 11, 14, 17, 18, 20, 21, 23}

LEMMA PadRows ==
  /\ \A l \in PadLines : PadRow(l)
  /\ \A k \in PadPlaces : \E l \in PadLines : l.at = Main + k
<1>1. \A l \in PadLines : PadRow(l)
  BY DEF PadLines, Line, Implied, PadRow, Main
<1>2. \A k \in PadPlaces : \E l \in PadLines : l.at = Main + k
  BY DEF PadLines, Line, Implied, PadPlaces, Main
<1>. QED
  BY <1>1, <1>2

\* An instruction of the loop that reads.
LEMMA PadSteps ==
  ASSUME CpuTypes, Shown, RomIntact, cart = ReadPad(cart.budget), frames = {},
         PadLoop(pc, reg, p), Instruction
  PROVE  /\ PadLoop(pc, reg, p)' /\ frames' = {} /\ RomIntact' /\ UNCHANGED cart
<1>1. \E k \in PadPlaces : pc = Main + k
  BY DEF PadLoop, PadPlaces, Main
<1>2. PICK l \in PadLines : l.at = pc
  BY <1>1, PadRows
<1>3. /\ Entry.instr = l.instr /\ NextInstruction = pc + InstLen[l.mode]
      /\ Accumulator <=> l.mode = "acc"
      /\ l.mode = "imm" => /\ ReadValues(ArgAddress) = {Lower(l.arg)}
                           /\ PadsAfterRead(ArgAddress) = pads
      /\ l.mode = "zpg_" => ArgAddress = Lower(l.arg)
      /\ l.mode = "abs_" => ArgAddress = l.arg
      /\ l.mode = "rel" => ArgAddress = (pc + 2 + Signed(Lower(l.arg))) % WORD
      /\ PadRow(l)
  BY <1>2, PadCode, PadRows
<1>4. ASSUME NoStore, UNCHANGED elsewhere
      PROVE  frames' = {} /\ RomIntact' /\ UNCHANGED cart /\ Seek(16)' = Seek(16)
  BY <1>4 DEF NoStore, elsewhere, RomIntact, Seek, Cell
<1>5. ASSUME NoStore, UNCHANGED elsewhere, UNCHANGED pads
      PROVE  \A n : /\ Reading(n) => Reading(n)'
                    /\ Collected(n) => Collected(n)'
                    /\ Latched' = Latched
  BY <1>4, <1>5 DEF Reading, Collected, Latched, Bits
<1>6. reg.a \in Byte /\ reg.y \in Byte /\ Seek(16) \in Byte
  BY Typed, SeekIsByte
<1>7. CASE pc \in {Main, Main + 2}
  <2>1. (l.instr = "LDX" /\ l.mode = "imm") \/ (l.instr = "TXS" /\ l.mode = "impl")
    BY <1>2, <1>3, <1>7 DEF PadRow, Main
  <2>2. pc' \in {Main + 2, Main + 3}
    <3>1. GoesOn
      BY <1>3, <2>1, LoadDoes, InnerDoes
    <3>2. NextInstruction \in {Main + 2, Main + 3}
      BY <1>2, <1>3, <1>7, LineLengths DEF PadRow, Main
    <3>. QED
      BY <3>1, <3>2 DEF GoesOn
  <2>3. NoStore /\ UNCHANGED elsewhere
    BY <1>3, <2>1, LoadDoes, InnerDoes
  <2>4. PadLoop(pc, reg, p)'
    BY <2>2 DEF PadLoop
  <2>. QED
    BY <1>4, <2>3, <2>4
<1>8. CASE pc = Main + 3
  <2>1. l.instr = "LDY" /\ l.mode = "imm" /\ l.arg = 8
    BY <1>2, <1>3, <1>8 DEF PadRow, Main
  <2>2. ReadValues(ArgAddress) = {8}
    BY <1>3, <2>1 DEF Lower, BYTE
  <2>3. GoesOn /\ NoStore /\ UNCHANGED elsewhere /\ reg'.y = 8
    BY <1>3, <2>1, <2>2, LoadDoes
  <2>4. pc' = Main + 5
    BY <1>3, <1>8, <2>1, <2>3, LineLengths DEF GoesOn, Main
  <2>5. PadLoop(pc, reg, p)'
    BY <2>3, <2>4 DEF PadLoop
  <2>. QED
    BY <1>4, <2>3, <2>5
<1>9. CASE pc = Main + 5
  <2>1. l.instr = "LDA" /\ l.mode = "imm" /\ l.arg = 1
    BY <1>2, <1>3, <1>9 DEF PadRow, Main
  <2>2. ReadValues(ArgAddress) = {1} /\ reg.y = 8
    BY <1>3, <1>9, <2>1 DEF Lower, BYTE, PadLoop, Main
  <2>3. GoesOn /\ NoStore /\ UNCHANGED elsewhere /\ reg'.a = 1 /\ reg'.y = 8
    BY <1>3, <2>1, <2>2, LoadDoes
  <2>4. pc' = Main + 7
    BY <1>3, <1>9, <2>1, <2>3, LineLengths DEF GoesOn, Main
  <2>5. PadLoop(pc, reg, p)'
    BY <2>3, <2>4 DEF PadLoop
  <2>. QED
    BY <1>4, <2>3, <2>5
<1>10. CASE pc = Main + 7
  <2>1. l.instr = "STA" /\ l.mode = "abs_" /\ l.arg = JOY1
    BY <1>2, <1>3, <1>10 DEF PadRow, Main
  <2>2. GoesOn /\ UNCHANGED elsewhere /\ reg' = reg /\ Stores(pads, JOY1, reg.a)
    BY <1>3, <2>1, StoreDoes
  <2>3. NoStore
    BY <1>6, <2>2, StrobeDoes
  <2>4. pc' = Main + 10 /\ reg.y = 8 /\ reg.a = 1
    BY <1>3, <1>10, <2>1, <2>2, LineLengths DEF GoesOn, Main, PadLoop
  <2>5. PadLoop(pc, reg, p)'
    BY <2>2, <2>4 DEF PadLoop
  <2>. QED
    BY <1>4, <2>2, <2>3, <2>5
<1>11. CASE pc = Main + 10
  <2>1. l.instr = "LSR" /\ l.mode = "acc"
    BY <1>2, <1>3, <1>11 DEF PadRow, Main
  <2>2. GoesOn /\ UNCHANGED elsewhere /\ reg'.y = reg.y /\ NoStore /\ reg'.a = reg.a \div 2
    BY <1>3, <2>1, ShiftDoes
  <2>3. pc' = Main + 11 /\ reg.y = 8 /\ reg.a = 1
    BY <1>3, <1>11, <2>1, <2>2, LineLengths DEF GoesOn, Main, PadLoop
  <2>4. reg'.a = 0
    BY <2>2, <2>3
  <2>5. PadLoop(pc, reg, p)'
    BY <2>2, <2>3, <2>4 DEF PadLoop
  <2>. QED
    BY <1>4, <2>2, <2>5
<1>12. CASE pc = Main + 11
  <2>1. l.instr = "STA" /\ l.mode = "abs_" /\ l.arg = JOY1
    BY <1>2, <1>3, <1>12 DEF PadRow, Main
  <2>2. GoesOn /\ UNCHANGED elsewhere /\ reg' = reg /\ Stores(pads, JOY1, reg.a)
    BY <1>3, <2>1, StoreDoes
  <2>3. pc' = Main + 14 /\ reg.y = 8 /\ reg.a = 0
    BY <1>3, <1>12, <2>1, <2>2, LineLengths DEF GoesOn, Main, PadLoop
  <2>4. NoStore /\ Reading(0)'
    BY <1>6, <2>2, <2>3, StrobeDoes, SmallBits DEF Reading
  <2>5. Collected(0)'
    BY DEF Collected
  <2>. HIDE DEF Reading, Collected
  <2>6. PICK y : y = reg'.y
    OBVIOUS
  <2>7. y = 8 /\ 8 - y = 0 /\ y \in 1 .. 8
    BY <2>2, <2>3, <2>6
  <2>8. Reading(8 - y)' /\ Collected(8 - y)'
    BY <2>4, <2>5, <2>7
  <2>9. PadLoop(pc, reg, p)'
    BY <2>3, <2>6, <2>7, <2>8 DEF PadLoop
  <2>. QED
    BY <1>4, <2>2, <2>4, <2>9
<1>13. CASE pc = Main + 14
  <2>1. l.instr = "LDA" /\ l.mode = "abs_" /\ l.arg = JOY1
    BY <1>2, <1>3, <1>13 DEF PadRow, Main
  <2>2. reg.y \in 1 .. 8 /\ \E n \in 0 .. 7 : n = 8 - reg.y /\ Reading(n) /\ Collected(n)
    <3>1. reg.y \in 1 .. 8 /\ Reading(8 - reg.y) /\ Collected(8 - reg.y)
      BY <1>13 DEF PadLoop, Main
    <3>2. 8 - reg.y \in 0 .. 7
      BY <3>1
    <3>. QED
      BY <3>1, <3>2
  <2>3. GoesOn /\ NoStore /\ UNCHANGED elsewhere /\ reg'.y = reg.y /\ Reads(JOY1)
        /\ reg'.a \in ReadValues(JOY1)
    BY <1>3, <2>1, LoadDoes
  <2>4. pc' = Main + 17
    BY <1>3, <1>13, <2>1, <2>3, LineLengths DEF GoesOn, Main
  <2>. HIDE DEF Reading, Collected, Latched
  <2>7. PICK n, y, a : /\ n \in 0 .. 7 /\ n = 8 - reg.y /\ y = reg'.y /\ a = reg'.a
                       /\ Reading(n) /\ Collected(n)
    BY <2>2
  <2>5. Reading(n + 1)' /\ Latched' = Latched /\ (0 \in Bits(a) <=> n \in Latched)
    BY <2>3, <2>7, ButtonRead
  <2>6. Collected(n)'
    BY <1>4, <2>3, <2>5, <2>7 DEF Collected, Bits
  <2>8. y \in 1 .. 8 /\ n = 8 - y /\ n + 1 = 9 - y
    BY <2>2, <2>3, <2>7
  <2>9. Reading(9 - y)' /\ Collected(8 - y)' /\ (0 \in Bits(a) <=> 8 - y \in Latched')
    BY <2>5, <2>6, <2>7, <2>8
  <2>10. PadLoop(pc, reg, p)'
    BY <2>4, <2>7, <2>8, <2>9 DEF PadLoop
  <2>. QED
    BY <1>4, <2>3, <2>10
<1>14. CASE pc = Main + 17
  <2>1. l.instr = "LSR" /\ l.mode = "acc"
    BY <1>2, <1>3, <1>14 DEF PadRow, Main
  <2>2. /\ reg.y \in 1 .. 8 /\ Reading(9 - reg.y) /\ Collected(8 - reg.y)
        /\ 0 \in Bits(reg.a) <=> 8 - reg.y \in Latched
    BY <1>14 DEF PadLoop, Main
  <2>3. GoesOn /\ UNCHANGED elsewhere /\ reg'.y = reg.y /\ NoStore /\ UNCHANGED pads
        /\ (C \in p' <=> 0 \in Bits(reg.a))
    BY <1>3, <2>1, ShiftDoes
  <2>4. pc' = Main + 18
    BY <1>3, <1>14, <2>1, <2>3, LineLengths DEF GoesOn, Main
  <2>. HIDE DEF Reading, Collected, Latched
  <2>5. PICK y, q : y = reg'.y /\ q = p'
    OBVIOUS
  <2>6. Reading(9 - y)' /\ Collected(8 - y)' /\ (C \in q <=> 8 - y \in Latched') /\ y \in 1 .. 8
    BY <1>5, <2>2, <2>3, <2>5
  <2>7. PadLoop(pc, reg, p)'
    BY <2>4, <2>5, <2>6 DEF PadLoop
  <2>. QED
    BY <1>4, <2>3, <2>7
<1>15. CASE pc = Main + 18
  <2>1. l.instr = "ROL" /\ l.mode = "zpg_" /\ l.arg = 16
    BY <1>2, <1>3, <1>15 DEF PadRow, Main
  <2>2. PICK n : n = 8 - reg.y
    OBVIOUS
  <2>14. /\ reg.y \in 1 .. 8 /\ Reading(n + 1) /\ Collected(n) /\ n \in 0 .. 7
         /\ C \in p <=> n \in Latched
    <3>1. /\ reg.y \in 1 .. 8 /\ Reading(9 - reg.y) /\ Collected(n)
          /\ C \in p <=> n \in Latched
      BY <1>15, <2>2 DEF PadLoop, Main
    <3>2. 9 - reg.y = n + 1 /\ n \in 0 .. 7
      BY <2>2, <3>1
    <3>. QED
      BY <3>1, <3>2
  <2>3. ArgAddress = 16
    BY <1>3, <2>1 DEF Lower, BYTE
  <2>4. GoesOn /\ UNCHANGED elsewhere /\ reg' = reg
        /\ \E v \in ReadValues(16) : Stores(PadsAfterRead(16), 16, Shift("ROL", v, p).val)
    BY <1>3, <2>1, <2>3, ShiftDoes
  <2>5. ReadValues(16) = {Seek(16)} /\ PadsAfterRead(16) = pads
    BY ZeroPageRead
  <2>6. pads' = pads /\ frames' = {} /\ RomIntact' /\ UNCHANGED cart
        /\ Seek(16)' = Shift("ROL", Seek(16), p).val
    <3>1. UNCHANGED cart /\ 16 \in {16, 17, 18}
      BY <2>4 DEF elsewhere
    <3>2. Stores(pads, 16, Shift("ROL", Seek(16), p).val)
      BY <2>4, <2>5
    <3>. QED
      BY <3>1, <3>2, ZeroPageStore
  <2>7. pc' = Main + 20
    BY <1>3, <1>15, <2>1, <2>4, LineLengths DEF GoesOn, Main
  <2>8. Latched' = Latched /\ Reading(n + 1)'
    BY <2>6, <2>14 DEF Latched, Reading
  <2>. HIDE DEF Reading, Collected, Latched
  <2>9. Collected(n + 1)'
    BY <1>6, <2>6, <2>8, <2>14, CollectsOneMore
  <2>10. PICK y : y = reg'.y
    OBVIOUS
  <2>11. y \in 1 .. 8 /\ n + 1 = 9 - y
    BY <2>2, <2>4, <2>10, <2>14
  <2>12. Reading(9 - y)' /\ Collected(9 - y)'
    BY <2>8, <2>9, <2>11
  <2>13. PadLoop(pc, reg, p)'
    BY <2>7, <2>10, <2>11, <2>12 DEF PadLoop
  <2>. QED
    BY <2>6, <2>13
<1>16. CASE pc = Main + 20
  <2>1. l.instr = "DEY" /\ l.mode = "impl"
    BY <1>2, <1>3, <1>16 DEF PadRow, Main
  <2>2. reg.y \in 1 .. 8 /\ Reading(9 - reg.y) /\ Collected(9 - reg.y)
    BY <1>16 DEF PadLoop, Main
  <2>3. GoesOn /\ NoStore /\ UNCHANGED <<pads, elsewhere>>
        /\ reg'.y = (reg.y - 1) % BYTE /\ (Z \in p' <=> reg'.y = 0)
    BY <1>3, <2>1, InnerDoes
  <2>4. pc' = Main + 21
    BY <1>3, <1>16, <2>1, <2>3, LineLengths DEF GoesOn, Main
  <2>5. (reg.y - 1) % BYTE = reg.y - 1
    BY <2>2 DEF BYTE
  <2>. HIDE DEF Reading, Collected, Latched
  <2>6. PICK y, q : y = reg'.y /\ q = p'
    OBVIOUS
  <2>7. y \in 0 .. 7 /\ 9 - reg.y = 8 - y /\ (Z \in q <=> y = 0)
    BY <2>2, <2>3, <2>5, <2>6
  <2>8. Reading(8 - y)' /\ Collected(8 - y)'
    BY <1>5, <2>2, <2>3, <2>7
  <2>9. PadLoop(pc, reg, p)'
    BY <2>4, <2>6, <2>7, <2>8 DEF PadLoop
  <2>. QED
    BY <1>4, <2>3, <2>9
<1>17. CASE pc = Main + 21
  <2>1. l.instr = "BNE" /\ l.mode = "rel" /\ l.arg = 247
    BY <1>2, <1>3, <1>17 DEF PadRow, Main
  <2>2. reg.y \in 0 .. 7 /\ Reading(8 - reg.y) /\ Collected(8 - reg.y) /\ (Z \in p <=> reg.y = 0)
    BY <1>17 DEF PadLoop, Main
  <2>3. NoStore /\ UNCHANGED <<pads, elsewhere, reg, p>>
        /\ pc' = IF Z \in p THEN NextInstruction ELSE ArgAddress
    BY <1>3, <2>1, FlowDoes
  <2>4. NextInstruction = Main + 23
    BY <1>3, <1>17, <2>1, LineLengths DEF Main
  <2>5. ArgAddress = Main + 14
    <3>1. Signed(Lower(247)) = -9
      BY DEF Lower, BYTE, Signed
    <3>. QED
      BY <1>3, <1>17, <2>1, <3>1 DEF Main, WORD
  <2>. HIDE DEF Reading, Collected, Latched
  <2>6. PICK y : y = reg'.y
    OBVIOUS
  <2>7. y = reg.y /\ Reading(8 - y)' /\ Collected(8 - y)'
    BY <1>5, <2>2, <2>3, <2>6
  <2>8. CASE Z \in p
    <3>1. y = 0 /\ 8 - y = 8 /\ pc' = Main + 23
      BY <2>2, <2>3, <2>4, <2>7, <2>8
    <3>2. Collected(8)'
      BY <2>7, <3>1
    <3>3. PadLoop(pc, reg, p)'
      BY <3>1, <3>2 DEF PadLoop
    <3>. QED
      BY <1>4, <2>3, <3>3
  <2>9. CASE Z \notin p
    <3>1. y \in 1 .. 8 /\ pc' = Main + 14
      BY <2>2, <2>3, <2>5, <2>7, <2>9
    <3>2. PadLoop(pc, reg, p)'
      BY <2>6, <2>7, <3>1 DEF PadLoop
    <3>. QED
      BY <1>4, <2>3, <3>2
  <2>. QED
    BY <2>8, <2>9
<1>18. CASE pc = Main + 23
  <2>1. l.instr = "JMP" /\ l.mode = "abs_" /\ l.arg = Main + 23
    BY <1>2, <1>3, <1>18 DEF PadRow, Main
  <2>2. Collected(8)
    BY <1>18 DEF PadLoop, Main
  <2>3. NoStore /\ UNCHANGED <<pads, elsewhere>> /\ pc' = Main + 23
    BY <1>3, <2>1, FlowDoes
  <2>. HIDE DEF Reading, Collected, Latched
  <2>4. Collected(8)'
    BY <1>5, <2>2, <2>3
  <2>5. PadLoop(pc, reg, p)'
    BY <2>3, <2>4 DEF PadLoop
  <2>. QED
    BY <1>4, <2>3, <2>5
<1>19. pc \in {Main, Main + 2, Main + 3, Main + 5, Main + 7, Main + 10, Main + 11, Main + 14,
              Main + 17, Main + 18, Main + 20, Main + 21, Main + 23}
  BY DEF PadLoop
<1>. QED
  BY <1>7, <1>8, <1>9, <1>10, <1>11, <1>12, <1>13, <1>14, <1>15, <1>16, <1>17, <1>18, <1>19

LEMMA PadFollows ==
  ASSUME CpuInv, Shown, RomIntact, NEW base \in Byte, Nested(base), InPad(base, pc, reg, p),
         Instruction
  PROVE  RomIntact' /\ \E b \in Byte : Follows(b)'
<1>1. CpuTypes /\ CpuTypes' /\ cart = ReadPad(cart.budget) /\ frames = {}
  BY StepTypes, NoFrames DEF CpuInv, Next, InPad
<1>2. PadLoop(pc, reg, p)' /\ frames' = {} /\ RomIntact' /\ UNCHANGED cart
  BY <1>1, PadSteps DEF InPad
<1>. QED
  BY <1>1, <1>2, FreshFollows

\* An instruction.
LEMMA InstructionFollows ==
  ASSUME CpuInv, Shown, RomIntact, Used >= 0, NEW base \in Byte, Follows(base), Instruction
  PROVE  RomIntact' /\ \E b \in Byte : Follows(b)'
<1>1. Nested(base)
  BY DEF Follows
<1>2. CASE InSum(base, pc, reg)
  BY <1>1, <1>2, SumFollows
<1>3. CASE InNest(base, pc, reg)
  BY <1>3, NestFollows
<1>4. CASE InPad(base, pc, reg, p)
  BY <1>1, <1>4, PadFollows
<1>5. CASE \E f \in frames : Handles(f, pc, reg)
  BY <1>5, HandlerFollows
<1>. QED
  BY <1>2, <1>3, <1>4, <1>5 DEF Follows, Context, InMain

\* A step that the program does not notice.
LEMMA StillFollows ==
  ASSUME CpuTypes, NEW base \in Byte, Follows(base), UNCHANGED <<mem, cart, pc, reg, p, frames>>,
         pads[JOY1].index' = pads[JOY1].index, pads[JOY1].strobing' = pads[JOY1].strobing,
         pads[JOY1].latched' = pads[JOY1].latched, Used' \in Int, Used' >= Used
  PROVE  Follows(base)'
<1>1. PadKept /\ StackKept(base, Depth(base, reg.s)) /\ UNCHANGED cart
  BY DEF PadKept, StackKept, Seek, Cell
<1>2. PICK at, r, q : at = pc /\ r = reg /\ q = p
  OBVIOUS
<1>3. Nested(base) /\ r.s \in Byte
  BY <1>2, Typed DEF Follows
<1>4. Context(base, at, r, q)
  BY <1>2 DEF Follows
<1>5. \A f \in frames : Depth(base, f.low) <= 253
  <2>1. ASSUME NEW f \in frames
        PROVE  Depth(base, f.low) <= 253
    <3>1. Depth(base, f.low) \in Nat /\ Depth(base, f.low) <= 251
      BY <1>3, FrameDepths
    <3>. QED
      BY <3>1
  <2>. QED
    BY <2>1
<1>6. StackKept(base, Depth(base, r.s)) /\ \A f \in frames : f \in frames'
  BY <1>1, <1>2
<1>7. Context(base, at, r, q)'
  BY <1>1, <1>3, <1>4, <1>5, <1>6, ContextKept
<1>8. Context(base, pc, reg, p)'
  <2>1. at = pc' /\ r = reg' /\ q = p'
    BY <1>2
  <2>. QED
    BY <1>7, <2>1
<1>9. \A f \in frames' : Depth(base, f.low) <= Depth(base, reg.s)'
  <2>1. Depth(base, reg.s)' = Depth(base, reg.s)
    OBVIOUS
  <2>. QED
    BY <1>3, <2>1 DEF Nested
<1>. QED
  BY <1>1, <1>6, <1>8, <1>9, FollowsOn

\* Where the programs are, there is something to decode.
LEMMA ProgramsDecode ==
  ASSUME CpuTypes, Shown, RomIntact, NEW base, Context(base, pc, reg, p)
  PROVE  Decodable
<1>1. cart \in Cartridges
  BY DEF CpuTypes
<1>2. CASE InSum(base, pc, reg)
  <2>1. PICK l \in SumLines : l.at = pc
    BY <1>2 DEF InSum
  <2>2. Decodes(l)
    BY <1>1, <1>2, <2>1, LinesDecode DEF InSum
  <2>. QED
    BY <2>2 DEF Decodes
<1>3. CASE InNest(base, pc, reg)
  <2>1. PICK l \in NestLines : l.at = pc
    BY <1>3 DEF InNest
  <2>2. Decodes(l)
    BY <1>1, <1>3, <2>1, LinesDecode DEF InNest
  <2>. QED
    BY <2>2 DEF Decodes
<1>4. CASE InPad(base, pc, reg, p)
  <2>1. \E k \in PadPlaces : pc = Main + k
    BY <1>4 DEF InPad, PadLoop, PadPlaces, Main
  <2>2. PICK l \in PadLines : l.at = pc
    BY <2>1, PadRows
  <2>3. Decodes(l)
    BY <1>1, <1>4, <2>2, LinesDecode DEF InPad
  <2>. QED
    BY <2>3 DEF Decodes
<1>5. CASE \E f \in frames : Handles(f, pc, reg)
  <2>1. PICK l \in HandlerLines : l.at = pc
    BY <1>5 DEF Handles
  <2>2. Decodes(l)
    BY <1>1, <2>1, LinesDecode
  <2>. QED
    BY <2>2 DEF Decodes
<1>. QED
  BY <1>2, <1>3, <1>4, <1>5 DEF Context, InMain

\* How deep the stack can be.
LEMMA StackDepth ==
  ASSUME CpuTypes, Used >= 0, NEW base \in Byte, Follows(base)
  PROVE  Depth(base, reg.s) <= 5 * Used + 8
<1>1. Nested(base) /\ Used \in Int
  BY UsedBound DEF Follows
<1>2. CASE InMain(base, pc, reg, p)
  <2>1. Depth(base, reg.s) \in {0, 2, 3}
    BY <1>2 DEF InMain, InSum, InNest, InPad
  <2>. QED
    BY <1>1, <2>1
<1>3. CASE \E f \in frames : Handles(f, pc, reg)
  <2>1. PICK f \in frames : Handles(f, pc, reg)
    BY <1>3
  <2>2. /\ Untouched(f, pc, reg) => Depth(base, reg.s) = Depth(base, f.low)
        /\ AIsSaved(f, pc, reg) \/ XIsInA(f, pc, reg) => Depth(base, reg.s) = Depth(base, f.low) + 1
        /\ BothAreSaved(f, pc, reg) => Depth(base, reg.s) = Depth(base, f.low) + 2
        /\ Depth(base, f.low) \in Nat
    BY <1>1, <2>1, HandlerDepth
  <2>3. Depth(base, f.low) <= 5 * Used + 6
    BY <1>1 DEF Nested
  <2>. QED
    BY <1>1, <2>1, <2>2, <2>3 DEF Handles
<1>. QED
  BY <1>2, <1>3 DEF Follows, Context

-----------------------------------------------------------------------------
(* The invariant, and what follows.                                        *)

\* A cartridge with one of the programs begins at its main listing.
ResetsToMain == cart \in Cartridges /\ Shown /\ RomIntact => GetDWord(RESET_VECTOR, FALSE) = Main

LEMMA ResetVector == ResetsToMain
BY LinesDecode DEF ResetsToMain

LEMMA ResetVectorNext == ResetsToMain'
BY ResetVector, PTL

\* Where that is, no call has been made.
Beginnings == cart \in Cartridges /\ Shown /\ pc = Main =>
                \/ cart = Sum(cart.budget) /\ \E l \in SumLines : l.at = pc
                \/ cart = Nest(cart.budget) /\ pc <= Main + 10 /\ \E l \in NestLines : l.at = pc
                \/ cart = ReadPad(cart.budget) /\ PadLoop(pc, reg, p)

LEMMA ProgramsBegin == Beginnings
<1>. SUFFICES ASSUME cart \in Cartridges, Shown, pc = Main
              PROVE  \/ cart = Sum(cart.budget) /\ \E l \in SumLines : l.at = pc
                     \/ /\ cart = Nest(cart.budget) /\ pc <= Main + 10
                        /\ \E l \in NestLines : l.at = pc
                     \/ cart = ReadPad(cart.budget) /\ PadLoop(pc, reg, p)
  BY DEF Beginnings
<1>1. \E l \in SumLines : l.at = Main
  BY DEF SumLines, Line
<1>2. \E l \in NestLines : l.at = Main
  BY DEF NestLines, Line
<1>3. pc <= Main + 10 /\ PadLoop(pc, reg, p)
  BY DEF Main, PadLoop
<1>. QED
  BY <1>1, <1>2, <1>3, ProgramsShown DEF Programmed

LEMMA ProgramsBeginNext == Beginnings'
BY ProgramsBegin, PTL

\* The invariant is one.
LEMMA InitFollows == Init => ProgramInv
<1>. SUFFICES ASSUME Init
              PROVE  ProgramInv
  OBVIOUS
<1>1. CpuTypes /\ frames = {} /\ cart \in Cartridges
  BY InitTypes DEF Init, CpuTypes
<1>2. Used >= 0
  BY DEF Init, Used
<1>3. RomIntact
  BY DEF Init, BusInit, NoCells, RomIntact
<1>4. ASSUME Shown
      PROVE  \E base \in Byte : Follows(base)
  <2>1. pc = Main
    BY <1>1, <1>3, <1>4, ResetVector DEF ResetsToMain, Init
  <2>2. AtBase
    BY <1>1, <1>4, <2>1, ProgramsBegin DEF AtBase, Beginnings
  <2>. QED
    BY <2>2, BaseFollows DEF AtBaseFollows
<1>. QED
  BY <1>2, <1>3, <1>4 DEF ProgramInv

\* The count of what has been answered, and what answers.
LEMMA InstructionsStay == Instruction => UNCHANGED elsewhere
BY DEF Instruction, Load, Arithmetic, Logical, Test, Store, ModifyAccumulator, ModifyMemory,
       CountRegister, Transfer, ChangeFlag, Idle, Branch, Jump, JumpToSubroutine,
       ReturnFromSubroutine, ReturnFromInterrupt, PushRegister, PullAccumulator, PullStatus, Break

\* Each interrupt that is entered is one more of those that came.
LEMMA StepUses ==
  ASSUME CpuTypes, CpuTypes', [Next]_vars, Used >= 0
  PROVE  /\ Used' \in Int /\ Used' >= Used
         /\ HandleNmiEvent \/ HandleIrqEvent => Used' = Used + 1 /\ Used' <= 49
         /\ ~PowerCycle => UNCHANGED cart
<1>1. /\ events \in Int /\ events' \in Int /\ nmi \in BOOLEAN /\ irq \in BOOLEAN
      /\ Used \in Int /\ Used <= 49 /\ (nmi => Used <= 48) /\ (~nmi /\ irq => Used <= 48)
  <2>1. events \in 0 .. MaxEvents /\ MaxEvents \in Nat /\ MaxEvents <= 49
        /\ nmi \in BOOLEAN /\ irq \in BOOLEAN /\ events' \in 0 .. MaxEvents
    BY EventAssumption, NestingAssumption DEF CpuTypes, TypeOK
  <2>. QED
    BY <2>1 DEF Used
<1>2. Used' \in Int
  BY <1>1 DEF Used
<1>3. ASSUME Instruction \/ FailToDecode \/ Fault \/ UNCHANGED vars
      PROVE  Used' = Used /\ UNCHANGED cart
  <2>1. UNCHANGED <<cart, nmi, irq, events>>
    BY <1>3, InstructionsStay DEF FailToDecode, Fault, vars, busVars, requests, elsewhere
  <2>. QED
    BY <2>1 DEF Used
<1>4. ASSUME HandleNmiEvent
      PROVE  Used' = Used + 1 /\ Used' <= 49 /\ UNCHANGED cart
  <2>1. nmi /\ ~nmi' /\ irq' = irq /\ events' = events /\ UNCHANGED cart
    BY <1>4 DEF HandleNmiEvent
  <2>2. Used' = Used + 1
    BY <1>1, <2>1 DEF Used
  <2>. QED
    BY <1>1, <2>1, <2>2
<1>5. ASSUME HandleIrqEvent
      PROVE  Used' = Used + 1 /\ Used' <= 49 /\ UNCHANGED cart
  <2>1. irq /\ ~irq' /\ ~nmi /\ nmi' = nmi /\ events' = events /\ UNCHANGED cart
    BY <1>5 DEF HandleIrqEvent
  <2>2. Used' = Used + 1
    BY <1>1, <2>1 DEF Used
  <2>. QED
    BY <1>1, <2>1, <2>2
<1>6. ASSUME RequestInterrupt
      PROVE  Used' = Used /\ UNCHANGED cart
  <2>1. events' = events + 1 /\ UNCHANGED cart
        /\ \/ ~nmi /\ nmi' /\ irq' = irq
           \/ ~irq /\ irq' /\ nmi' = nmi
    BY <1>6 DEF RequestInterrupt, Event, busVars
  <2>. QED
    BY <1>1, <2>1 DEF Used
<1>7. ASSUME PressButton \/ PowerCycle
      PROVE  Used' = Used + 1 /\ (PressButton => UNCHANGED cart)
  <2>1. events' = events + 1 /\ nmi' = nmi /\ irq' = irq /\ (PressButton => UNCHANGED cart)
    BY <1>7 DEF PressButton, PowerCycle, Event, SetKey, requests
  <2>. QED
    BY <1>1, <2>1 DEF Used
<1>8. HandleNmiEvent \/ HandleIrqEvent => Used' = Used + 1 /\ Used' <= 49
  BY <1>4, <1>5
<1>9. Used' >= Used /\ (~PowerCycle => UNCHANGED cart)
  BY <1>1, <1>2, <1>3, <1>4, <1>5, <1>6, <1>7 DEF Next
<1>. QED
  BY <1>2, <1>8, <1>9

\* NMI and IRQ.
LEMMA InterruptFollows ==
  ASSUME CpuTypes, CpuTypes', Shown, RomIntact, Used >= 0, NEW base \in Byte, Follows(base),
         HandleNmiEvent \/ HandleIrqEvent
  PROVE  Follows(base)' /\ RomIntact'
<1>1. /\ Used' \in Int /\ Used' = Used + 1 /\ Used' <= 49 /\ Used \in Int
      /\ Depth(base, reg.s) <= 5 * Used + 8 /\ Depth(base, reg.s) \in Nat /\ pc \in Word
  BY StepUses, UsedBound, StackDepth, Typed, Depths DEF Next
<1>2. /\ Used' >= Used /\ Depth(base, reg.s) + 3 <= 5 * Used' + 6
  BY <1>1
<1>3. UNCHANGED <<cart, pads>> /\ Context(base, pc, reg, p)
  BY DEF HandleNmiEvent, HandleIrqEvent, Follows
<1>4. ASSUME NEW vector \in {NMI_VECTOR, IRQ_VECTOR}, HandleInterrupt(vector, pc, {})
      PROVE  Follows(base)' /\ RomIntact'
  <2>1. {} \in SUBSET {B}
    OBVIOUS
  <2>. QED
    BY <1>1, <1>2, <1>3, <1>4, <2>1, InterruptEntered
<1>5. CASE UNCHANGED <<pc, reg, p, mem, frames>>
  <2>1. UNCHANGED <<mem, cart, pc, reg, p, frames>> /\ UNCHANGED pads
    BY <1>3, <1>5
  <2>2. RomIntact'
    BY <2>1 DEF RomIntact
  <2>3. pads[JOY1].index' = pads[JOY1].index /\ pads[JOY1].strobing' = pads[JOY1].strobing
        /\ pads[JOY1].latched' = pads[JOY1].latched
    BY <2>1
  <2>. QED
    BY <1>1, <1>2, <2>1, <2>2, <2>3, StillFollows
<1>6. \/ HandleInterrupt(NMI_VECTOR, pc, {}) \/ HandleInterrupt(IRQ_VECTOR, pc, {})
      \/ UNCHANGED <<pc, reg, p, mem, frames>>
  BY DEF HandleNmiEvent, HandleIrqEvent
<1>. QED
  BY <1>4, <1>5, <1>6

\* Every step.
LEMMA StepFollows == CpuInv /\ ProgramInv /\ [Next]_vars => ProgramInv'
<1>. SUFFICES ASSUME CpuInv, ProgramInv, [Next]_vars
              PROVE  ProgramInv'
  OBVIOUS
<1>1. CpuTypes /\ CpuTypes' /\ cart \in Cartridges /\ cart' \in Cartridges
  BY StepTypes DEF CpuInv, CpuTypes
<1>2. Used >= 0 /\ (Shown => RomIntact /\ \E base \in Byte : Follows(base)) /\ Used \in Int
  BY <1>1, UsedBound DEF ProgramInv
<1>3. Used' \in Int /\ Used' >= Used /\ Used' >= 0 /\ (~PowerCycle => UNCHANGED cart)
  <2>1. Used' \in Int /\ Used' >= Used /\ (~PowerCycle => UNCHANGED cart)
    BY <1>1, <1>2, StepUses
  <2>. QED
    BY <1>2, <2>1
<1>4. CASE PowerCycle
  <2>1. ASSUME Shown'
        PROVE  RomIntact' /\ \E base \in Byte : Follows(base)'
    <3>1. RomIntact'
      <4>1. \A c \in DOMAIN mem' : c \in 0 .. RAM_SIZE - 1
        BY <1>4 DEF PowerCycle, LoadCartridge
      <4>2. \A c \in 0 .. RAM_SIZE - 1 : c \notin PRG_ROM
        <5>1. ASSUME NEW c \in 0 .. RAM_SIZE - 1
              PROVE  c \notin PRG_ROM
          <6>1. c \in Int /\ c < 32768
            BY DEF RAM_SIZE
          <6>2. c \in PRG_ROM => c >= PRG_START
            BY <6>1, ConstantInts DEF PRG_ROM
          <6>. QED
            BY <6>1, <6>2, ConstantInts
        <5>. QED
          BY <5>1
      <4>. QED
        BY <4>1, <4>2 DEF RomIntact
    <3>2. pc' = Main
      BY <1>1, <1>4, <2>1, <3>1, ResetVectorNext DEF ResetsToMain, PowerCycle
    <3>3. AtBase'
      BY <1>1, <1>4, <2>1, <3>2, ProgramsBeginNext DEF AtBase, Beginnings, PowerCycle
    <3>. QED
      BY <3>1, <3>3, BaseFollowsNext DEF AtBaseFollows
  <2>. QED
    BY <1>3, <2>1 DEF ProgramInv
<1>5. CASE ~PowerCycle
  <2>1. ASSUME Shown'
        PROVE  RomIntact' /\ \E base \in Byte : Follows(base)'
    <3>1. Shown /\ RomIntact
      BY <1>2, <1>3, <1>5, <2>1 DEF Shown
    <3>2. PICK base \in Byte : Follows(base)
      BY <1>2, <3>1
    <3>3. Context(base, pc, reg, p)
      BY <3>2 DEF Follows
    <3>4. CASE Instruction
      BY <1>2, <3>1, <3>2, <3>4, InstructionFollows
    <3>5. CASE HandleNmiEvent \/ HandleIrqEvent
      BY <1>1, <1>2, <3>1, <3>2, <3>5, InterruptFollows
    <3>6. CASE FailToDecode
      BY <1>1, <3>1, <3>3, <3>6, ProgramsDecode DEF FailToDecode
    <3>7. CASE UNCHANGED <<mem, cart, pc, reg, p, frames>>
               /\ pads[JOY1].index' = pads[JOY1].index /\ pads[JOY1].strobing' = pads[JOY1].strobing
               /\ pads[JOY1].latched' = pads[JOY1].latched
      <4>1. RomIntact'
        BY <3>1, <3>7 DEF RomIntact
      <4>2. /\ UNCHANGED <<mem, cart, pc, reg, p, frames>>
            /\ pads[JOY1].index' = pads[JOY1].index
        BY <3>7
      <4>3. /\ pads[JOY1].strobing' = pads[JOY1].strobing
            /\ pads[JOY1].latched' = pads[JOY1].latched
        BY <3>7
      <4>4. Follows(base)'
        BY <1>1, <1>3, <3>2, <4>2, <4>3, StillFollows
      <4>. QED
        BY <4>1, <4>4
    <3>8. ASSUME Fault \/ RequestInterrupt \/ UNCHANGED vars
          PROVE  UNCHANGED <<mem, cart, pc, reg, p, frames>> /\ UNCHANGED pads
      BY <3>8 DEF Fault, RequestInterrupt, vars, busVars, cpuVars
    <3>9. ASSUME PressButton
          PROVE  UNCHANGED <<mem, cart, pc, reg, p, frames>>
                 /\ pads'[JOY1].index = pads[JOY1].index
                 /\ pads'[JOY1].strobing = pads[JOY1].strobing
                 /\ pads'[JOY1].latched = pads[JOY1].latched
      <4>1. UNCHANGED <<mem, cart, pc, reg, p, frames>>
        BY <3>9 DEF PressButton, SetKey, cpuVars
      <4>2. pads \in [PADS -> Pad] /\ JOY1 \in PADS
        BY <1>1, Held, PadIsNoMemory DEF MemoryTypes
      <4>3. \E controller \in PADS : \E pressed :
              pads' = [pads EXCEPT ![controller].pressed = pressed]
        BY <3>9 DEF PressButton, SetKey
      <4>. QED
        BY <4>1, <4>2, <4>3 DEF Pad
    <3>. QED
      BY <1>5, <3>4, <3>5, <3>6, <3>7, <3>8, <3>9 DEF Next
  <2>. QED
    BY <1>3, <2>1 DEF ProgramInv
<1>. QED
  BY <1>4, <1>5

\* The inductive invariant of the programs: what is on the stack is what the calls,
\* the interrupts and the handlers that are under way have put there, and each of
\* them is at a place of its listing.
THEOREM ProgramInvariance == Spec => []ProgramInv
<1>1. CpuInv /\ ProgramInv /\ [Next]_vars => ProgramInv'
  BY StepFollows
<1>. QED
  BY <1>1, InitFollows, CpuInvariance, PTL DEF Spec

\* An RTI in one of the programs is a handler's.
LEMMA ReturnsAreHandlers ==
  ASSUME CpuTypes, Shown, RomIntact, NEW base, Context(base, pc, reg, p), ReturnFromInterrupt
  PROVE  \E f \in frames : /\ Handles(f, pc, reg)
                           /\ pc \in {NmiAt + 12, IrqAt + 5, PadNmiAt + 5}
<1>1. Entry.instr = "RTI" /\ cart \in Cartridges
  BY Executing DEF CpuTypes
<1>2. CASE InSum(base, pc, reg)
  <2>1. PICK l \in SumLines : l.at = pc
    BY <1>2 DEF InSum
  <2>2. Entry.instr = l.instr
    BY <1>1, <1>2, <2>1, LinesDecode DEF InSum, Decodes
  <2>. QED
    BY <1>1, <2>2, SumRows DEF SumRow
<1>3. CASE InNest(base, pc, reg)
  <2>1. PICK l \in NestLines : l.at = pc
    BY <1>3 DEF InNest
  <2>2. Entry.instr = l.instr
    BY <1>1, <1>3, <2>1, LinesDecode DEF InNest, Decodes
  <2>. QED
    BY <1>1, <2>2, NestRows DEF NestRow
<1>4. CASE InPad(base, pc, reg, p)
  <2>1. \E k \in PadPlaces : pc = Main + k
    BY <1>4 DEF InPad, PadLoop, PadPlaces, Main
  <2>2. PICK l \in PadLines : l.at = pc
    BY <2>1, PadRows
  <2>3. Entry.instr = l.instr /\ PadRow(l)
    BY <1>4, <2>2, PadCode, PadRows DEF InPad
  <2>. QED
    BY <1>1, <2>1, <2>2, <2>3 DEF PadRow, PadPlaces, Main
<1>5. CASE \E f \in frames : Handles(f, pc, reg)
  <2>1. PICK f \in frames : Handles(f, pc, reg)
    BY <1>5
  <2>2. PICK l \in HandlerLines : l.at = pc
    BY <2>1 DEF Handles
  <2>3. Entry.instr = l.instr /\ HandlerRow(l)
    BY <1>1, <2>2, HandlerCode
  <2>4. pc \in {NmiAt + 12, IrqAt + 5, PadNmiAt + 5}
    BY <1>1, <2>1, <2>2, <2>3
       DEF HandlerRow, Handles, Untouched, AIsSaved, XIsInA, BothAreSaved, NmiAt, IrqAt, PadNmiAt
  <2>. QED
    BY <2>1, <2>4
<1>. QED
  BY <1>2, <1>3, <1>4, <1>5 DEF Context, InMain

\* The programs' handlers put back what they use: an RTI gives back to whatever
\* was interrupted, the sum, the subroutine or another handler, PC, every
\* register, S and the flags but B, however often interrupts have nested and the
\* stack has wrapped (HandleInterrupt, Push, Pop, PHA, PLA, RTI).
THEOREM HandlersLeaveNoTrace == Spec => HandlersUnseen
<1>1. CpuInv /\ ProgramInv => HandlerStep
  <2>. SUFFICES ASSUME CpuInv, ProgramInv, ReturnFromInterrupt, cart.shows = "handlers"
                PROVE  \E f \in frames : /\ f.low = reg.s /\ f.kind = "interrupt"
                                         /\ pc' = f.pc
                                         /\ reg' = f.reg
                                         /\ p' \ {B} = (f.p \ {B}) \union {Expansion}
    BY DEF HandlerStep
  <2>1. Shown /\ CpuTypes
    BY DEF Shown, CpuInv
  <2>2. RomIntact /\ \E base \in Byte : Follows(base)
    BY <2>1 DEF ProgramInv
  <2>3. PICK base \in Byte : Follows(base)
    BY <2>2
  <2>4. PICK f \in frames : Handles(f, pc, reg) /\ pc \in {NmiAt + 12, IrqAt + 5, PadNmiAt + 5}
    BY <2>1, <2>2, <2>3, ReturnsAreHandlers DEF Follows
  <2>5. f.reg.s = f.high /\ f.kind = "interrupt"
    BY <2>3, <2>4 DEF Follows, Nested, Handles
  <2>. QED
    BY <2>4, <2>5, ReturnHandlerStep
<1>. QED
  BY <1>1, CpuInvariance, ProgramInvariance, PTL DEF HandlersUnseen

\* The byte that the program has put together from eight reads of $4016 holds a
\* bit for each button, A first and at the top, as it was when the strobe went
\* down: also when the user presses other buttons, and an NMI reads $4017,
\* between any two instructions (NesController, ControllerManager, ROL, BNE).
THEOREM PadBytes == Spec => []PadByteAsLatched
<1>1. CpuInv /\ ProgramInv => PadByteAsLatched
  <2>. SUFFICES ASSUME CpuInv, ProgramInv, cart.shows = "controller", pc = cart.done
                PROVE  Bits(Seek(16)) = {7 - button : button \in pads[JOY1].latched}
    BY DEF PadByteAsLatched
  <2>1. Shown /\ CpuTypes /\ cart \in Cartridges
    BY DEF Shown, CpuInv, CpuTypes
  <2>2. PICK base \in Byte : Follows(base)
    BY <2>1 DEF ProgramInv
  <2>3. cart = ReadPad(cart.budget)
    BY <2>1, ProgramAssumption
  <2>4. pc = Main + 23
    BY <2>3 DEF ReadPad, Cartridge, PadDone
  <2>5. Collected(8)
    <3>1. CASE InSum(base, pc, reg) \/ InNest(base, pc, reg)
      BY <3>1, ProgramsShown DEF InSum, InNest
    <3>2. CASE InPad(base, pc, reg, p)
      BY <2>4, <3>2 DEF InPad, PadLoop, Main
    <3>3. CASE \E f \in frames : Handles(f, pc, reg)
      BY <2>4, <3>3
         DEF Handles, Untouched, AIsSaved, XIsInA, BothAreSaved, NmiAt, IrqAt, PadNmiAt, Main
    <3>. QED
      BY <2>2, <3>1, <3>2, <3>3 DEF Follows, Context, InMain
  <2>6. Latched \subseteq 0 .. 7
    BY <2>1, Held, PadIsNoMemory DEF MemoryTypes, Pad, Latched
  <2>. DEFINE bits == Bits(Seek(16))
  <2>7. bits \subseteq 0 .. 7
    BY DEF Bits
  <2>8. \A j \in 0 .. 7 : 7 - j \in bits <=> j \in Latched
    BY <2>5 DEF Collected
  <2>. HIDE DEF bits
  <2>9. \A i \in 0 .. 7 : 7 - i \in 0 .. 7 /\ 7 - (7 - i) = i
    OBVIOUS
  <2>10. bits = {7 - button : button \in Latched}
    BY <2>6, <2>7, <2>8, <2>9
  <2>. QED
    BY <2>10 DEF bits, Latched
<1>. QED
  BY <1>1, CpuInvariance, ProgramInvariance, PTL
=============================================================================
