-------------------------- MODULE PpuPorts_proofs --------------------------
(***************************************************************************)
(* Theorems about PpuPorts: its types, and that the two loopy registers    *)
(* hold what the program's writes mean, for every program, every memory    *)
(* and every moment at which the picture copies the scroll.                *)
(***************************************************************************)
EXTENDS PpuPorts, TLAPS

\* The ranges of the fields, as the provers use them.
LEMMA LoopyFields ==
  ASSUME NEW r \in Loopy
  PROVE  /\ r.xCourse \in 0 .. 31 /\ r.yCourse \in 0 .. 31 /\ r.xMsb \in 0 .. 1
         /\ r.yMsb \in 0 .. 1 /\ r.yFine \in 0 .. 7 /\ r.unused \in 0 .. 1
BY DEF Loopy

\* The range of a word, with its bound kept out of the provers' sight.
LEMMA InWord ==
  ASSUME NEW m \in Int, 0 <= m, m <= 65535
  PROVE  m \in Word
<1> DEFINE last == 65535
<1>1. last \in Int /\ m <= last
  OBVIOUS
<1>2. Word = 0 .. last
  BY DEF Word
<1> HIDE DEF last
<1> QED BY <1>1, <1>2

LEMMA ZeroInWord == 0 \in Word
BY InWord

\* A sum of two parts of a word.
LEMMA SumInWord ==
  ASSUME NEW x \in Nat, NEW y \in Nat, x + y <= 65535
  PROVE  x + y \in Word
<1> DEFINE s == x + y
<1>1. s \in Int /\ 0 <= s /\ s <= 65535
  OBVIOUS
<1> HIDE DEF s
<1>2. s \in Word
  BY <1>1, InWord
<1> QED BY <1>2 DEF s

\* The union of PpuRegisters.h reads back as the address that was put in.
LEMMA LoopyOfAddress ==
  ASSUME NEW a \in Word
  PROVE  LoopyOf(a) \in Loopy /\ AddressOf(LoopyOf(a)) = a
<1>1. LoopyOf(a) \in Loopy
  BY DEF Word, LoopyOf, Loopy
<1>2. AddressOf(LoopyOf(a)) = a
  <2>1. a = (a % 32) + 32 * (a \div 32)
    BY DEF Word
  <2>2. a \div 32 = ((a \div 32) % 32) + 32 * (a \div 1024)
    BY DEF Word
  <2>3. a \div 1024 = ((a \div 1024) % 2) + 2 * (a \div 2048)
    BY DEF Word
  <2>4. a \div 2048 = ((a \div 2048) % 2) + 2 * (a \div 4096)
    BY DEF Word
  <2>5. a \div 4096 = ((a \div 4096) % 8) + 8 * (a \div 32768)
    BY DEF Word
  <2>6. (a \div 32768) % 2 = a \div 32768
    BY DEF Word
  <2> QED BY <2>1, <2>2, <2>3, <2>4, <2>5, <2>6 DEF LoopyOf, AddressOf
<1> QED BY <1>1, <1>2

\* An address, and the halves of one, stay within a word.
LEMMA AddressOfLoopy ==
  ASSUME NEW r \in Loopy
  PROVE  /\ AddressOf(r) \in Word
         /\ AddressOf(r) % 32 = r.xCourse
<1> DEFINE f == r.yFine + 8 * r.unused
           m == r.yMsb + 2 * f
           n == r.xMsb + 2 * m
           y == r.yCourse + 32 * n
<1>1. f \in 0 .. 15
  BY LoopyFields
<1>2. m \in 0 .. 31
  BY <1>1, LoopyFields
<1>3. n \in 0 .. 63
  BY <1>2, LoopyFields
<1>4. y \in 0 .. 2047
  BY <1>3, LoopyFields
<1> DEFINE x == r.xCourse
<1>5. AddressOf(r) = x + 32 * y
  BY DEF AddressOf
<1>6. x \in Nat /\ x < 32
  BY LoopyFields
<1> HIDE DEF x, y
<1>7. y \in Nat /\ y < 2048
  BY <1>4
<1>8. x + 32 * y \in Word
  <2> DEFINE z == 32 * y
  <2>1. z \in Nat /\ x + z <= 65535
    BY <1>6, <1>7
  <2> HIDE DEF z
  <2>2. x + z \in Word
    BY <1>6, <2>1, SumInWord
  <2> QED BY <2>2 DEF z
<1>9. (x + 32 * y) % 32 = x
  BY <1>6, <1>7
<1> USE DEF x
<1> QED BY <1>5, <1>8, <1>9

LEMMA HighHalf ==
  ASSUME NEW a \in Word, NEW v \in Byte
  PROVE  /\ 256 * (v % 64) + (a % 256) \in Word
         /\ (256 * (v % 64) + (a % 256)) \div 256 = v % 64
<1>1. v % 64 \in 0 .. 63 /\ a % 256 \in 0 .. 255
  BY DEF Word, Byte
<1>2. \A h \in 0 .. 63, l \in 0 .. 255 :
        256 * h + l \in Word /\ (256 * h + l) \div 256 = h
  <2> SUFFICES ASSUME NEW h \in 0 .. 63, NEW l \in 0 .. 255
               PROVE  256 * h + l \in Word /\ (256 * h + l) \div 256 = h
    OBVIOUS
  <2>1. 256 * h + l \in Word
    <3> DEFINE g == 256 * h
    <3>1. g \in Nat /\ l \in Nat /\ g + l <= 65535
      OBVIOUS
    <3> HIDE DEF g
    <3>2. g + l \in Word
      BY <3>1, SumInWord
    <3> QED BY <3>2 DEF g
  <2>2. (256 * h + l) \div 256 = h
    BY SMTT(20)
  <2> QED BY <2>1, <2>2
<1> QED BY <1>1, <1>2

LEMMA LowHalf ==
  ASSUME NEW a \in Word, NEW v \in Byte
  PROVE  256 * (a \div 256) + v \in Word
<1> DEFINE g == 256 * (a \div 256)
<1>1. g \in Nat /\ v \in Nat /\ g + v <= 65535
  <2>1. a \div 256 \in 0 .. 255
    BY DEF Word
  <2> QED BY <2>1 DEF Byte
<1> HIDE DEF g
<1>2. g + v \in Word
  BY <1>1, SumInWord
<1> QED BY <1>2 DEF g

\* Writing the high half of an address leaves the coarse X, in the low half,
\* as it was.
LEMMA HighHalfKeepsX ==
  ASSUME NEW r \in Loopy, NEW v \in Byte
  PROVE  LoopyOf(256 * (v % 64) + (AddressOf(r) % 256)).xCourse = r.xCourse
<1>1. v % 64 \in 0 .. 63
  BY DEF Byte
<1>2. \A h \in 0 .. 63, a \in Word : (256 * h + (a % 256)) % 32 = a % 32
  <2> SUFFICES ASSUME NEW h \in 0 .. 63, NEW a \in Word
               PROVE  (256 * h + (a % 256)) % 32 = a % 32
    OBVIOUS
  <2> DEFINE q == a \div 256
             l == a % 256
  <2>1. a = 256 * q + l /\ q \in 0 .. 255 /\ l \in 0 .. 255
    <3>1. a \in Int /\ 0 <= a /\ a < 65536
      BY DEF Word
    <3>2. a = 256 * (a \div 256) + (a % 256)
      BY <3>1
    <3>3. a \div 256 \in 0 .. 255
      BY <3>1
    <3>4. a % 256 \in 0 .. 255
      BY <3>1
    <3> QED BY <3>2, <3>3, <3>4
  <2>2. \A k \in 0 .. 255, i \in 0 .. 255 : (256 * k + i) % 32 = i % 32
    OBVIOUS
  <2> HIDE DEF q, l
  <2>3. a % 32 = l % 32
    BY <2>1, <2>2
  <2>4. (256 * h + l) % 32 = l % 32
    BY <2>1, <2>2
  <2> QED BY <2>3, <2>4 DEF l
<1> QED BY <1>1, <1>2, AddressOfLoopy DEF LoopyOf

-----------------------------------------------------------------------------
\* The program's count of the halves is the code's latch.
LatchAsCounted == latch <=> half.port # "none"

\* An address whose first half is written has that half.
PendingAddress ==
  half.port = "address" => AddressOf(next) \div 256 = half.value % 64

\* What the program has asked for stands in the first register.
WantedIsNext ==
  /\ want.table # Unknown => /\ next.xMsb = want.table % 2
                             /\ next.yMsb = want.table \div 2
  /\ want.x # Unknown => next.xCourse = want.x \div 8 /\ fineX = want.x % 8
  /\ want.y # Unknown => next.yCourse = want.y \div 8 /\ next.yFine = want.y % 8

\* Where a run of reads is: at the pointer, with the byte before it fetched.
StreamAtPointer ==
  stream.start # Unknown =>
    /\ pointer = ReadAddress(stream.count)
    /\ stream.count >= 1 /\ ReadAddress(stream.count - 1) # OamDataAddr
         => readBuffer = Stored(Place(ReadAddress(stream.count - 1)))

PortInv == /\ TypeOK
           /\ LatchAsCounted
           /\ PendingAddress
           /\ WantedIsNext
           /\ AddressAsWritten
           /\ ScrollAsAsked
           /\ StreamAtPointer
           /\ ReadsFollowThePointer

LEMMA PortInit == Init => PortInv
<1> SUFFICES ASSUME Init PROVE PortInv
  OBVIOUS
<1>1. LoopyOf(0) \in Loopy /\ AddressOf(LoopyOf(0)) = 0
  BY LoopyOfAddress, ZeroInWord
<1>2. /\ LoopyOf(0).xCourse = 0 /\ LoopyOf(0).yCourse = 0 /\ LoopyOf(0).xMsb = 0
      /\ LoopyOf(0).yMsb = 0 /\ LoopyOf(0).yFine = 0
  BY DEF LoopyOf
<1>3. TypeOK
  <2>0. latch \in BOOLEAN /\ down \in BOOLEAN /\ rendering \in BOOLEAN
    BY ZenonT(10) DEF Init
  <2>1. next \in Loopy /\ active \in Loopy /\ fineX \in 0 .. 7
    BY <1>1 DEF Init
  <2>2. readBuffer \in Byte
    BY DEF Init, Byte
  <2>3. DOMAIN vram = {}
    BY DEF Init
  <2>4. half \in Half
    BY DEF Init, NoHalf, Half, Byte
  <2>5. pointer \in WordOrNot
    BY DEF Init, WordOrNot, Unknown
  <2>6. want \in [table : Unknown .. 3, x : ByteOrNot, y : ByteOrNot]
    BY DEF Init, ZeroScroll, ByteOrNot, Unknown
  <2>7. drawn \in [x : Unknown .. 511, y : Unknown .. 511]
    BY DEF Init, Unknown
  <2>8. stream \in [start : WordOrNot, count : Nat, last : Byte]
    BY DEF Init, NoStream, WordOrNot, Byte, Unknown
  <2> QED BY <2>0, <2>1, <2>2, <2>3, <2>4, <2>5, <2>6, <2>7, <2>8 DEF TypeOK
<1>4. LatchAsCounted /\ PendingAddress
  BY DEF Init, LatchAsCounted, PendingAddress, NoHalf
<1>5. WantedIsNext
  BY <1>2 DEF Init, WantedIsNext, ZeroScroll
<1>6. AddressAsWritten /\ ScrollAsAsked
  BY <1>1, <1>2 DEF Init, AddressAsWritten, ScrollAsAsked, ScrollX, ScrollY
<1>7. stream.start = Unknown
  BY DEF Init, NoStream
<1>8. StreamAtPointer /\ ReadsFollowThePointer
  BY <1>7 DEF StreamAtPointer, ReadsFollowThePointer
<1> QED BY <1>3, <1>4, <1>5, <1>6, <1>8 DEF PortInv

-----------------------------------------------------------------------------
\* Where an address leads, and what is read there.
LEMMA PlaceInWord ==
  ASSUME NEW a \in Word
  PROVE  Place(a) \in Word \/ Place(a) = Unknown
<1>0. /\ PrgLen \in Nat /\ PrgLen > 0 /\ PrgLen <= 32768
      /\ ChrLen \in Nat /\ ChrLen > 0 /\ ChrLen <= 8192
      /\ a \in Nat
  BY BankAssumption DEF Word
<1>1. a >= 32768 => 32768 + ((a - 32768) % PrgLen) \in Word
  <2> SUFFICES ASSUME a >= 32768
               PROVE  32768 + ((a - 32768) % PrgLen) \in Word
    OBVIOUS
  <2> DEFINE d == a - 32768
             m == d % PrgLen
  <2>1. d \in Nat
    BY <1>0
  <2> HIDE DEF d
  <2>2. m \in Int /\ 0 <= m /\ m < 32768
    <3>1. m \in Int /\ 0 <= m /\ m < PrgLen
      BY <1>0, <2>1
    <3> HIDE DEF m
    <3>2. m < 32768
      BY <1>0, <3>1
    <3> QED BY <3>1, <3>2
  <2> HIDE DEF m
  <2>3. 32768 + m \in Word
    <3> DEFINE s == 32768 + m
    <3>1. s \in Int /\ 0 <= s /\ s <= 65535
      BY <2>2
    <3> HIDE DEF s
    <3>2. s \in Word
      BY <3>1, InWord
    <3> QED BY <3>2 DEF s
  <2> QED BY <2>3 DEF m, d
<1>2. a < 8192 => a % ChrLen \in Word
  <2> DEFINE m == a % ChrLen
  <2>1. m \in 0 .. 8191
    <3>1. m \in Nat /\ m < ChrLen
      BY <1>0
    <3> HIDE DEF m
    <3> QED BY <1>0, <3>1
  <2> HIDE DEF m
  <2>2. m \in Word
    <3>1. m \in Int /\ 0 <= m /\ m <= 65535
      BY <2>1
    <3> QED BY <3>1, InWord
  <2> QED BY <2>2 DEF m
<1>3. a >= 8192 /\ a < 16128 => NameTableAt(a) \in Word
  <2> SUFFICES ASSUME a >= 8192, a < 16128 PROVE NameTableAt(a) \in Word
    OBVIOUS
  <2> DEFINE offset == (a - 8192) % 4096
  <2>1. offset \in 0 .. 4095
    BY DEF Word
  <2> HIDE DEF offset
  <2> DEFINE back == IF Vertical THEN IF offset >= 2048 THEN 2048 ELSE 0
                     ELSE IF \/ offset >= 1024 /\ offset < 2048
                             \/ offset >= 3072 THEN 1024 ELSE 0
  <2>2. back \in 0 .. 2048 /\ back <= offset
    BY <2>1
  <2> HIDE DEF back
  <2>3. 8192 + (offset - back) \in Word
    <3> DEFINE d == offset - back
    <3>1. d \in Nat /\ 8192 + d <= 65535
      BY <2>1, <2>2
    <3> HIDE DEF d
    <3>2. 8192 + d \in Word
      BY <3>1, SumInWord
    <3> QED BY <3>2 DEF d
  <2> QED BY <2>3 DEF NameTableAt, offset, back
<1>4. a >= 16128 /\ a < 16384 => PaletteAt(a) \in Word
  <2> SUFFICES ASSUME a >= 16128, a < 16384 PROVE PaletteAt(a) \in Word
    OBVIOUS
  <2> DEFINE offset == (a - 16128) % 32
  <2>1. offset \in 0 .. 31
    BY DEF Word
  <2> HIDE DEF offset
  <2> DEFINE kept == IF offset \in {16, 20, 24, 28} THEN offset - 16 ELSE offset
  <2>2. kept \in 0 .. 31
    BY <2>1
  <2> HIDE DEF kept
  <2>3. 16128 + kept \in Word
    BY <2>2, SumInWord
  <2> QED BY <2>3 DEF PaletteAt, offset, kept
<1> QED BY <1>1, <1>2, <1>3, <1>4 DEF Place

LEMMA ReadsBytes ==
  ASSUME TypeOK, NEW a \in Word, NEW b \in PpuRead(a)
  PROVE  b \in Byte
<1>2. 0 \in Byte
  BY DEF Byte
<1>3. \A p \in DOMAIN vram : vram[p] \in Byte
  BY ByteAssumption DEF TypeOK
<1>1. Stored(Place(a)) \in Byte
  BY <1>2, <1>3, PlaceInWord, ByteAssumption DEF Stored
<1> QED BY <1>1, <1>2, ByteAssumption DEF PpuRead

LEMMA WriteKeepsVram ==
  ASSUME TypeOK, NEW a \in Word, NEW b \in DataBytes, PpuWrite(a, b)
  PROVE  DOMAIN vram' \subseteq Word /\ \A p \in DOMAIN vram' : vram'[p] \in DataBytes
<1>1. CASE Place(a) = Unknown
  BY <1>1 DEF PpuWrite, TypeOK
<1>2. CASE Place(a) # Unknown
  BY <1>2, PlaceInWord DEF PpuWrite, TypeOK
<1> QED BY <1>1, <1>2

\* The parts of a byte, as the loopy register takes them.
LEMMA ByteParts ==
  ASSUME NEW v \in Byte
  PROVE  /\ v \div 8 \in 0 .. 31 /\ v % 8 \in 0 .. 7 /\ v = 8 * (v \div 8) + (v % 8)
         /\ v % 2 \in 0 .. 1 /\ (v \div 2) % 2 \in 0 .. 1
         /\ v % 4 \in 0 .. 3 /\ (v % 4) % 2 = v % 2 /\ (v % 4) \div 2 = (v \div 2) % 2
BY DEF Byte

\* The two halves of $2006, each giving a word.
LEMMA HalvesInLoopy ==
  ASSUME NEW r \in Loopy, NEW v \in Byte
  PROVE  /\ LoopyOf(256 * (v % 64) + (AddressOf(r) % 256)) \in Loopy
         /\ AddressOf(LoopyOf(256 * (v % 64) + (AddressOf(r) % 256))) \div 256 = v % 64
         /\ LoopyOf(256 * (AddressOf(r) \div 256) + v) \in Loopy
         /\ AddressOf(LoopyOf(256 * (AddressOf(r) \div 256) + v))
            = 256 * (AddressOf(r) \div 256) + v
BY AddressOfLoopy, HighHalf, LowHalf, LoopyOfAddress

LEMMA IncrementInWord ==
  ASSUME NEW a \in Word
  PROVE  (a + Increment) % 65536 \in Word
<1>1. a + Increment \in Nat
  BY DEF Increment, Word
<1> DEFINE m == (a + Increment) % 65536
<1>2. m \in Int /\ 0 <= m /\ m <= 65535
  BY <1>1
<1> HIDE DEF m
<1>3. m \in Word
  BY <1>2, InWord
<1> QED BY <1>3 DEF m

-----------------------------------------------------------------------------
\* TypeOK in the groups in which the actions change it.
RegisterTypes == next \in Loopy /\ active \in Loopy /\ fineX \in 0 .. 7
FlagTypes     == latch \in BOOLEAN /\ down \in BOOLEAN /\ rendering \in BOOLEAN
MemoryTypes   == /\ readBuffer \in Byte /\ DOMAIN vram \subseteq Word
                 /\ \A p \in DOMAIN vram : vram[p] \in DataBytes
ClaimTypes    == /\ half \in Half /\ pointer \in WordOrNot
                 /\ want \in [table : Unknown .. 3, x : ByteOrNot, y : ByteOrNot]
DrawnTypes    == /\ drawn \in [x : Unknown .. 511, y : Unknown .. 511]
                 /\ stream \in [start : WordOrNot, count : Nat, last : Byte]

LEMMA RegisterStep == TypeOK /\ Next => RegisterTypes'
<1> SUFFICES ASSUME TypeOK, Next PROVE RegisterTypes'
  OBVIOUS
<1>0. next \in Loopy /\ active \in Loopy /\ fineX \in 0 .. 7
  BY DEF TypeOK
<1>1. ASSUME NEW b \in CtrlBytes, WriteCtrl(b) PROVE RegisterTypes'
  <2>1. b \in Byte
    BY ByteAssumption
  <2>2. b % 2 \in 0 .. 1 /\ (b \div 2) % 2 \in 0 .. 1
    BY <2>1, ByteParts
  <2> QED BY <1>0, <1>1, <2>2 DEF WriteCtrl, RegisterTypes, Loopy
<1>2. ASSUME NEW b \in CtrlBytes, WriteCtrlMirror(b) PROVE RegisterTypes'
  BY <1>0, <1>2 DEF WriteCtrlMirror, RegisterTypes
<1>3. ASSUME NEW r \in BOOLEAN, WriteMask(r) PROVE RegisterTypes'
  BY <1>0, <1>3 DEF WriteMask, RegisterTypes
<1>4. ASSUME NEW b \in ScrollBytes, WriteScroll(b) PROVE RegisterTypes'
  <2>1. b \in Byte
    BY ByteAssumption
  <2>2. b \div 8 \in 0 .. 31 /\ b % 8 \in 0 .. 7
    BY <2>1, ByteParts
  <2>3. CASE WriteScrollX(b)
    BY <1>0, <2>2, <2>3 DEF WriteScrollX, RegisterTypes, Loopy
  <2>4. CASE WriteScrollY(b)
    BY <1>0, <2>2, <2>4 DEF WriteScrollY, RegisterTypes, Loopy
  <2> QED BY <1>4, <2>3, <2>4 DEF WriteScroll
<1>5. ASSUME NEW b \in AddrBytes, WriteAddr(b) PROVE RegisterTypes'
  <2>1. b \in Byte
    BY ByteAssumption
  <2>2. fineX' = fineX
    BY <1>5 DEF WriteAddr
  <2>3. CASE WriteAddrHigh(b)
    BY <1>0, <2>1, <2>2, <2>3, HalvesInLoopy DEF WriteAddrHigh, RegisterTypes
  <2>4. CASE WriteAddrLow(b)
    BY <1>0, <2>1, <2>2, <2>4, HalvesInLoopy DEF WriteAddrLow, RegisterTypes
  <2> QED BY <1>5, <2>3, <2>4 DEF WriteAddr
<1>6. CASE ReadStatus
  BY <1>0, <1>6 DEF ReadStatus, RegisterTypes
<1>7. ASSUME IncrementVRamAddress, next' = next, fineX' = fineX PROVE RegisterTypes'
  BY <1>0, <1>7, AddressOfLoopy, IncrementInWord, LoopyOfAddress
     DEF IncrementVRamAddress, RegisterTypes
<1>8. CASE ReadData
  BY <1>7, <1>8 DEF ReadData
<1>9. ASSUME NEW b \in DataBytes, WriteData(b) PROVE RegisterTypes'
  BY <1>7, <1>9 DEF WriteData
<1>10. CASE TransferScrollX
  BY <1>0, <1>10 DEF TransferScrollX, RegisterTypes, Loopy
<1>11. CASE TransferScrollY
  BY <1>0, <1>11 DEF TransferScrollY, RegisterTypes, Loopy
<1>12. CASE PowerCycle
  <2>1. LoopyOf(0) \in Loopy
    BY LoopyOfAddress, ZeroInWord
  <2> QED BY <1>12, <2>1 DEF PowerCycle, Reset, RegisterTypes
<1> QED BY <1>1, <1>2, <1>3, <1>4, <1>5, <1>6, <1>8, <1>9, <1>10, <1>11, <1>12
        DEF Next, ProgramStep

LEMMA FlagStep == TypeOK /\ Next => FlagTypes'
BY DEF TypeOK, FlagTypes, Next, ProgramStep, WriteCtrl, WriteCtrlMirror, WriteMask,
       WriteScroll, WriteScrollX, WriteScrollY, WriteAddr, WriteAddrHigh,
       WriteAddrLow, ReadStatus, ReadData, WriteData, TransferScrollX,
       TransferScrollY, PowerCycle, Reset

LEMMA MemoryStep == TypeOK /\ Next => MemoryTypes'
<1> SUFFICES ASSUME TypeOK, Next PROVE MemoryTypes'
  OBVIOUS
<1>0. MemoryTypes /\ AddressOf(active) \in Word
  BY AddressOfLoopy DEF TypeOK, MemoryTypes
<1>1. CASE UNCHANGED <<readBuffer, vram>>
  BY <1>0, <1>1 DEF MemoryTypes
<1>2. CASE ReadData
  <2> PICK fetched \in PpuRead(AddressOf(active)) : readBuffer' = fetched /\ vram' = vram
    BY <1>2 DEF ReadData
  <2>1. fetched \in Byte
    BY <1>0, ReadsBytes
  <2> QED BY <1>0, <2>1 DEF MemoryTypes
<1>3. ASSUME NEW b \in DataBytes, WriteData(b) PROVE MemoryTypes'
  <2>1. PpuWrite(AddressOf(active), b) /\ readBuffer' = readBuffer
    BY <1>3 DEF WriteData
  <2> QED BY <1>0, <2>1, WriteKeepsVram DEF MemoryTypes
<1>4. CASE PowerCycle
  BY <1>0, <1>4 DEF PowerCycle, Reset, MemoryTypes, Byte
<1> QED BY <1>1, <1>2, <1>3, <1>4 DEF Next, ProgramStep, WriteCtrl, WriteCtrlMirror,
           WriteMask, WriteScroll, WriteAddr, ReadStatus, TransferScrollX,
           TransferScrollY, ports

\* The claims of the history are words and bytes, or Unknown.
LEMMA WordsAreClaims ==
  /\ \A a \in Word : a \in WordOrNot /\ a # Unknown
  /\ \A a \in WordOrNot : a # Unknown => a \in Word
<1> DEFINE last == 65535
<1>1. Word = 0 .. last /\ WordOrNot = -1 .. last
  BY DEF Word, WordOrNot, Unknown
<1>2. last \in Int
  OBVIOUS
<1> HIDE DEF last
<1> QED BY <1>1, <1>2 DEF Unknown

LEMMA ClaimRanges ==
  /\ Byte \subseteq ByteOrNot /\ Unknown \in ByteOrNot
  /\ Unknown \in WordOrNot /\ 0 \in WordOrNot
<1>1. Byte \subseteq ByteOrNot /\ Unknown \in ByteOrNot
  BY DEF Byte, ByteOrNot, Unknown
<1>2. Unknown \in WordOrNot /\ 0 \in WordOrNot
  BY DEF WordOrNot, Unknown
<1> QED BY <1>1, <1>2

LEMMA ClaimStep == TypeOK /\ Next => ClaimTypes'
<1> SUFFICES ASSUME TypeOK, Next PROVE ClaimTypes'
  OBVIOUS
<1>0. /\ half \in Half /\ pointer \in WordOrNot
      /\ want \in [table : Unknown .. 3, x : ByteOrNot, y : ByteOrNot]
  BY DEF TypeOK
<1>a. NoHalf \in Half
  BY DEF NoHalf, Half, Byte
<1>1. ASSUME NEW b \in CtrlBytes, WriteCtrl(b) PROVE ClaimTypes'
  <2>1. b \in Byte
    BY ByteAssumption
  <2>2. b % 4 \in Unknown .. 3
    BY <2>1, ByteParts DEF Unknown
  <2>3. half' \in Half
    BY <1>0, <1>1 DEF WriteCtrl, Half
  <2>4. want' \in [table : Unknown .. 3, x : ByteOrNot, y : ByteOrNot]
    BY <1>0, <1>1, <2>2 DEF WriteCtrl
  <2>5. pointer' = pointer
    BY <1>1 DEF WriteCtrl
  <2> QED BY <1>0, <2>3, <2>4, <2>5 DEF ClaimTypes
<1>2. CASE UNCHANGED <<half, pointer, want>>
  BY <1>0, <1>2 DEF ClaimTypes
<1>4. ASSUME NEW b \in ScrollBytes, WriteScroll(b) PROVE ClaimTypes'
  <2>1. b \in ByteOrNot
    BY ByteAssumption, ClaimRanges
  <2>2. half' \in Half
    BY <1>a, <1>4 DEF WriteScroll, Half, Byte
  <2>3. want' \in [table : Unknown .. 3, x : ByteOrNot, y : ByteOrNot]
    BY <1>0, <1>4, <2>1 DEF WriteScroll
  <2>4. pointer' = pointer
    BY <1>4 DEF WriteScroll
  <2> QED BY <1>0, <2>2, <2>3, <2>4 DEF ClaimTypes
<1>5. ASSUME NEW b \in AddrBytes, WriteAddr(b) PROVE ClaimTypes'
  <2>1. b \in Byte
    BY ByteAssumption
  <2>2. half' \in Half
    BY <1>a, <1>5, <2>1 DEF WriteAddr, Half
  <2>3. want' \in [table : Unknown .. 3, x : ByteOrNot, y : ByteOrNot]
    <3>1. Unknown \in Unknown .. 3
      BY DEF Unknown
    <3> QED BY <1>0, <1>5, <3>1, ClaimRanges DEF WriteAddr
  <2>4. 256 * (half.value % 64) + b \in WordOrNot
    <3>1. half.value \in Byte
      BY <1>0 DEF Half
    <3> DEFINE g == 256 * (half.value % 64)
    <3>2. g \in Nat /\ b \in Nat /\ g + b <= 65535
      BY <2>1, <3>1 DEF Byte
    <3> HIDE DEF g
    <3>3. g + b \in Word
      BY <3>2, SumInWord
    <3>4. g + b \in WordOrNot
      BY <3>3, WordsAreClaims
    <3> QED BY <3>4 DEF g
  <2>5. pointer' \in WordOrNot
    BY <1>0, <1>5, <2>4, ClaimRanges DEF WriteAddr
  <2> QED BY <2>2, <2>3, <2>5 DEF ClaimTypes
<1>6. CASE ReadStatus
  BY <1>0, <1>a, <1>6 DEF ReadStatus, ClaimTypes
<1>7. ASSUME IncrementVRamAddress, half' = half, want' = want PROVE ClaimTypes'
  <2>1. pointer # Unknown => (pointer + Increment) % 65536 \in WordOrNot
    BY <1>0, ClaimRanges, IncrementInWord, WordsAreClaims
  <2>2. pointer' \in WordOrNot
    BY <1>7, <2>1, ClaimRanges DEF IncrementVRamAddress
  <2> QED BY <1>0, <1>7, <2>2 DEF ClaimTypes
<1>8. CASE ReadData
  BY <1>7, <1>8 DEF ReadData
<1>9. ASSUME NEW b \in DataBytes, WriteData(b) PROVE ClaimTypes'
  BY <1>7, <1>9 DEF WriteData
<1>10. CASE TransferScrollX \/ TransferScrollY
  BY <1>0, <1>10, ClaimRanges DEF TransferScrollX, TransferScrollY, ClaimTypes
<1>12. CASE PowerCycle
  <2>1. ZeroScroll \in [table : Unknown .. 3, x : ByteOrNot, y : ByteOrNot]
    BY DEF ZeroScroll, ByteOrNot, Unknown
  <2> QED BY <1>12, <1>a, <2>1, ClaimRanges DEF PowerCycle, Reset, ClaimTypes
<1> QED BY <1>1, <1>2, <1>4, <1>5, <1>6, <1>8, <1>9, <1>10, <1>12
        DEF Next, ProgramStep, WriteCtrlMirror, WriteMask, history

\* What was asked for gives a position in the two tables.
LEMMA WantedRange ==
  ASSUME TypeOK
  PROVE  WantedX \in Unknown .. 511 /\ WantedY \in Unknown .. 511
<1>1. want.table \in Unknown .. 3 /\ want.x \in ByteOrNot /\ want.y \in ByteOrNot
  BY DEF TypeOK
<1>2. \A t \in Unknown .. 3, b \in ByteOrNot :
        t # Unknown /\ b # Unknown => /\ 256 * (t % 2) + b \in Unknown .. 511
                                     /\ 256 * (t \div 2) + b \in Unknown .. 511
  BY DEF Unknown, ByteOrNot
<1>3. Unknown \in Unknown .. 511
  BY DEF Unknown
<1> QED BY <1>1, <1>2, <1>3 DEF WantedX, WantedY

LEMMA DrawnStep == TypeOK /\ Next => DrawnTypes'
<1> SUFFICES ASSUME TypeOK, Next PROVE DrawnTypes'
  OBVIOUS
<1>0. /\ drawn \in [x : Unknown .. 511, y : Unknown .. 511]
      /\ stream \in [start : WordOrNot, count : Nat, last : Byte]
  BY DEF TypeOK
<1>a. NoStream \in [start : WordOrNot, count : Nat, last : Byte]
  BY ClaimRanges DEF NoStream, Byte
<1>b. Unknown \in Unknown .. 511 /\ 0 \in Unknown .. 511
  BY DEF Unknown
<1>1. CASE UNCHANGED <<drawn, stream>>
  BY <1>0, <1>1 DEF DrawnTypes
<1>2. ASSUME NEW b \in CtrlBytes, WriteCtrl(b) \/ WriteCtrlMirror(b) PROVE DrawnTypes'
  BY <1>0, <1>2, <1>a DEF WriteCtrl, WriteCtrlMirror, DrawnTypes
<1>4. ASSUME NEW b \in ScrollBytes, WriteScroll(b) PROVE DrawnTypes'
  BY <1>0, <1>4, <1>b DEF WriteScroll, DrawnTypes
<1>5. ASSUME NEW b \in AddrBytes, WriteAddr(b) PROVE DrawnTypes'
  <2>1. pointer' \in WordOrNot
    BY ClaimStep DEF ClaimTypes
  <2>2. drawn' \in [x : Unknown .. 511, y : Unknown .. 511]
    BY <1>0, <1>5, <1>b DEF WriteAddr
  <2>3. stream' = stream \/ stream' = [NoStream EXCEPT !.start = pointer']
    BY <1>5 DEF WriteAddr
  <2> QED BY <1>0, <1>a, <2>1, <2>2, <2>3 DEF DrawnTypes
<1>7. ASSUME IncrementVRamAddress
      PROVE  drawn' \in [x : Unknown .. 511, y : Unknown .. 511]
  BY <1>7, <1>b DEF IncrementVRamAddress
<1>8. CASE ReadData
  <2>1. PICK fetched \in PpuRead(AddressOf(active)) :
          stream' = StreamAfter(Returned(fetched))
    BY <1>8 DEF ReadData
  <2>2. Returned(fetched) \in Byte
    BY AddressOfLoopy, ReadsBytes DEF TypeOK, Returned
  <2>3. \A byte \in Byte :
          StreamAfter(byte) \in [start : WordOrNot, count : Nat, last : Byte]
    <3> SUFFICES ASSUME NEW byte \in Byte
                 PROVE  StreamAfter(byte) \in [start : WordOrNot, count : Nat, last : Byte]
      OBVIOUS
    <3>1. stream.count + 1 \in Nat
      BY <1>0
    <3>2. CASE stream.start = Unknown
      BY <1>0, <3>2 DEF StreamAfter
    <3>3. CASE stream.start # Unknown
      <4>1. StreamAfter(byte) = [stream EXCEPT !.count = stream.count + 1, !.last = byte]
        BY <3>3 DEF StreamAfter
      <4> QED BY <1>0, <3>1, <4>1
    <3> QED BY <3>2, <3>3
  <2>4. stream' \in [start : WordOrNot, count : Nat, last : Byte]
    BY <2>1, <2>2, <2>3
  <2>5. IncrementVRamAddress
    BY <1>8 DEF ReadData
  <2> QED BY <1>7, <2>4, <2>5 DEF DrawnTypes
<1>9. ASSUME NEW b \in DataBytes, WriteData(b) PROVE DrawnTypes'
  BY <1>7, <1>9, <1>a DEF WriteData, DrawnTypes
<1>10. CASE TransferScrollX \/ TransferScrollY
  BY <1>0, <1>10, <1>a, WantedRange DEF TransferScrollX, TransferScrollY, DrawnTypes
<1>12. CASE PowerCycle
  BY <1>12, <1>a, <1>b DEF PowerCycle, Reset, DrawnTypes
<1> QED BY <1>1, <1>2, <1>4, <1>5, <1>8, <1>9, <1>10, <1>12
        DEF Next, ProgramStep, WriteMask, ReadStatus, history

LEMMA TypeStep == TypeOK /\ [Next]_vars => TypeOK'
<1>1. TypeOK /\ Next => TypeOK'
  <2>1. RegisterTypes' /\ FlagTypes' /\ MemoryTypes' /\ ClaimTypes' /\ DrawnTypes' => TypeOK'
    BY DEF TypeOK, RegisterTypes, FlagTypes, MemoryTypes, ClaimTypes, DrawnTypes
  <2> QED BY <2>1, RegisterStep, FlagStep, MemoryStep, ClaimStep, DrawnStep
<1>2. TypeOK /\ UNCHANGED vars => TypeOK'
  BY DEF TypeOK, vars, ports, history
<1> QED BY <1>1, <1>2

-----------------------------------------------------------------------------
\* Writing the low half of an address leaves the table bits as they were.
LEMMA LowHalfKeepsTable ==
  ASSUME NEW r \in Loopy, NEW v \in Byte
  PROVE  /\ LoopyOf(256 * (AddressOf(r) \div 256) + v).xMsb = r.xMsb
         /\ LoopyOf(256 * (AddressOf(r) \div 256) + v).yMsb = r.yMsb
<1> DEFINE f == r.yFine + 8 * r.unused
           m == r.yMsb + 2 * f
           n == r.xMsb + 2 * m
           low == r.xCourse + 32 * r.yCourse
           a == AddressOf(r)
<1> DEFINE x == r.xCourse
           y == r.yCourse
<1>a. a = x + 32 * (y + 32 * n)
  BY DEF AddressOf
<1>1. f \in Nat
  BY LoopyFields
<1> HIDE DEF f
<1>2. m \in Nat /\ m % 2 = r.yMsb
  BY <1>1, LoopyFields
<1> HIDE DEF m
<1>3. n \in Nat /\ n % 2 = r.xMsb /\ n \div 2 = m
  BY <1>2, LoopyFields
<1>b. low = x + 32 * y
  OBVIOUS
<1>c. x \in 0 .. 31 /\ y \in 0 .. 31
  BY LoopyFields
<1> HIDE DEF a, low, n, x, y
<1>4. low \in 0 .. 1023 /\ x \in Nat /\ y \in Nat
  BY <1>b, <1>c
<1>5. a = low + 1024 * n
  BY <1>a, <1>b, <1>3, <1>4
<1>6. a \in Nat
  BY <1>3, <1>4, <1>5
<1>7. a \div 1024 = n
  BY <1>3, <1>4, <1>5
<1>8. (256 * (a \div 256) + v) \div 1024 = a \div 1024
  BY <1>6 DEF Byte
<1>9. (256 * (a \div 256) + v) \div 2048 = a \div 2048
  BY <1>6 DEF Byte
<1>10. a \div 2048 = n \div 2
  BY <1>6, <1>7
<1> QED BY <1>2, <1>3, <1>7, <1>8, <1>9, <1>10 DEF LoopyOf, a

LEMMA LatchStep == TypeOK /\ LatchAsCounted /\ Next => LatchAsCounted'
<1> SUFFICES ASSUME TypeOK, LatchAsCounted, Next PROVE LatchAsCounted'
  OBVIOUS
<1>1. CASE UNCHANGED <<latch, half>>
  BY <1>1 DEF LatchAsCounted
<1>2. ASSUME NEW b \in CtrlBytes, WriteCtrl(b) PROVE LatchAsCounted'
  <2>1. half'.port # "none" <=> half.port # "none"
    BY <1>2 DEF WriteCtrl, TypeOK, Half
  <2>2. latch' <=> latch
    BY <1>2 DEF WriteCtrl
  <2> QED BY <2>1, <2>2 DEF LatchAsCounted
<1>3. ASSUME NEW b \in ScrollBytes, WriteScroll(b) PROVE LatchAsCounted'
  BY <1>3 DEF WriteScroll, WriteScrollX, WriteScrollY, LatchAsCounted, NoHalf
<1>4. ASSUME NEW b \in AddrBytes, WriteAddr(b) PROVE LatchAsCounted'
  BY <1>4 DEF WriteAddr, WriteAddrHigh, WriteAddrLow, LatchAsCounted, NoHalf
<1>5. CASE ReadStatus
  BY <1>5 DEF ReadStatus, LatchAsCounted, NoHalf
<1>6. CASE PowerCycle
  BY <1>6 DEF PowerCycle, Reset, LatchAsCounted, NoHalf
<1>7. CASE TransferScrollX \/ TransferScrollY \/ ReadData
  BY <1>7, <1>1 DEF TransferScrollX, TransferScrollY, ReadData
<1> QED BY <1>1, <1>2, <1>3, <1>4, <1>5, <1>6, <1>7
        DEF Next, ProgramStep, WriteCtrlMirror, WriteMask, WriteData, history

LEMMA PendingStep ==
  TypeOK /\ LatchAsCounted /\ PendingAddress /\ Next => PendingAddress'
<1> SUFFICES ASSUME TypeOK, LatchAsCounted, PendingAddress, Next PROVE PendingAddress'
  OBVIOUS
<1>1. CASE UNCHANGED <<next, half>>
  BY <1>1 DEF PendingAddress
<1>2. ASSUME NEW b \in CtrlBytes, WriteCtrl(b) PROVE PendingAddress'
  <2>1. half'.port # "address"
    BY <1>2 DEF WriteCtrl, TypeOK, Half
  <2> QED BY <2>1 DEF PendingAddress
<1>3. ASSUME NEW b \in ScrollBytes, WriteScroll(b) PROVE PendingAddress'
  BY <1>3 DEF WriteScroll, PendingAddress, NoHalf
<1>4. ASSUME NEW b \in AddrBytes, WriteAddr(b) PROVE PendingAddress'
  <2>1. CASE half.port = "none"
    <3>1. next' = LoopyOf(256 * (b % 64) + (AddressOf(next) % 256))
      BY <1>4, <2>1 DEF WriteAddr, WriteAddrHigh, WriteAddrLow, LatchAsCounted
    <3>2. half' = [port |-> "address", value |-> b]
      BY <1>4, <2>1 DEF WriteAddr
    <3>3. b \in Byte /\ next \in Loopy
      BY ByteAssumption DEF TypeOK
    <3> QED BY <3>1, <3>2, <3>3, HalvesInLoopy DEF PendingAddress
  <2>2. CASE half.port # "none"
    BY <1>4, <2>2 DEF WriteAddr, PendingAddress, NoHalf
  <2> QED BY <2>1, <2>2
<1>5. CASE ReadStatus \/ PowerCycle
  BY <1>5 DEF ReadStatus, PowerCycle, Reset, PendingAddress, NoHalf
<1>7. CASE TransferScrollX \/ TransferScrollY \/ ReadData
  BY <1>7, <1>1 DEF TransferScrollX, TransferScrollY, ReadData
<1> QED BY <1>1, <1>2, <1>3, <1>4, <1>5, <1>7
        DEF Next, ProgramStep, WriteCtrlMirror, WriteMask, WriteData, history

LEMMA WantedStep ==
  TypeOK /\ LatchAsCounted /\ WantedIsNext /\ Next => WantedIsNext'
<1> SUFFICES ASSUME TypeOK, LatchAsCounted, WantedIsNext, Next PROVE WantedIsNext'
  OBVIOUS
<1>0. next \in Loopy /\ want \in [table : Unknown .. 3, x : ByteOrNot, y : ByteOrNot]
  BY DEF TypeOK
<1>1. CASE UNCHANGED <<next, fineX, want>>
  BY <1>1 DEF WantedIsNext
<1>2. ASSUME NEW b \in CtrlBytes, WriteCtrl(b) PROVE WantedIsNext'
  <2>1. b \in Byte
    BY ByteAssumption
  <2>2. /\ next' = [next EXCEPT !.xMsb = b % 2, !.yMsb = (b \div 2) % 2]
        /\ want' = [want EXCEPT !.table = b % 4]
        /\ fineX' = fineX
    BY <1>2 DEF WriteCtrl
  <2>3. /\ next'.xMsb = b % 2 /\ next'.yMsb = (b \div 2) % 2
        /\ next'.xCourse = next.xCourse /\ next'.yCourse = next.yCourse
        /\ next'.yFine = next.yFine
    BY <1>0, <2>2 DEF Loopy
  <2>4. want'.table = b % 4 /\ want'.x = want.x /\ want'.y = want.y
    BY <1>0, <2>2
  <2>5. (b % 4) % 2 = b % 2 /\ (b % 4) \div 2 = (b \div 2) % 2
    BY <2>1, ByteParts
  <2> QED BY <2>2, <2>3, <2>4, <2>5 DEF WantedIsNext
<1>3. ASSUME NEW b \in ScrollBytes, WriteScroll(b) PROVE WantedIsNext'
  <2>1. CASE half.port = "none"
    <3>1. /\ next' = [next EXCEPT !.xCourse = b \div 8]
          /\ fineX' = b % 8
          /\ want' = [want EXCEPT !.x = b]
      BY <1>3, <2>1 DEF WriteScroll, WriteScrollX, WriteScrollY, LatchAsCounted
    <3>2. /\ next'.xCourse = b \div 8 /\ next'.xMsb = next.xMsb /\ next'.yMsb = next.yMsb
          /\ next'.yCourse = next.yCourse /\ next'.yFine = next.yFine
          /\ want'.x = b /\ want'.table = want.table /\ want'.y = want.y
      BY <1>0, <3>1 DEF Loopy
    <3> QED BY <3>1, <3>2 DEF WantedIsNext
  <2>2. CASE half.port # "none"
    <3>1. /\ next' = [next EXCEPT !.yCourse = b \div 8, !.yFine = b % 8]
          /\ fineX' = fineX
          /\ want' = [want EXCEPT !.y = b]
      BY <1>3, <2>2 DEF WriteScroll, WriteScrollX, WriteScrollY, LatchAsCounted
    <3>2. /\ next'.yCourse = b \div 8 /\ next'.yFine = b % 8
          /\ next'.xCourse = next.xCourse /\ next'.xMsb = next.xMsb /\ next'.yMsb = next.yMsb
          /\ want'.y = b /\ want'.table = want.table /\ want'.x = want.x
      BY <1>0, <3>1 DEF Loopy
    <3> QED BY <3>1, <3>2 DEF WantedIsNext
  <2> QED BY <2>1, <2>2
<1>4. ASSUME NEW b \in AddrBytes, WriteAddr(b) PROVE WantedIsNext'
  <2>1. b \in Byte
    BY ByteAssumption
  <2>2. CASE half.port = "none"
    <3>1. /\ next' = LoopyOf(256 * (b % 64) + (AddressOf(next) % 256))
          /\ fineX' = fineX
          /\ want' = [want EXCEPT !.table = Unknown, !.y = Unknown]
      BY <1>4, <2>2 DEF WriteAddr, WriteAddrHigh, WriteAddrLow, LatchAsCounted
    <3>2. next'.xCourse = next.xCourse
      BY <1>0, <2>1, <3>1, HighHalfKeepsX
    <3>3. want'.table = Unknown /\ want'.y = Unknown /\ want'.x = want.x
      BY <1>0, <3>1
    <3> QED BY <3>1, <3>2, <3>3 DEF WantedIsNext
  <2>3. CASE half.port # "none"
    <3>1. /\ next' = LoopyOf(256 * (AddressOf(next) \div 256) + b)
          /\ want' = [want EXCEPT !.x = Unknown, !.y = Unknown]
      BY <1>4, <2>3 DEF WriteAddr, WriteAddrHigh, WriteAddrLow, LatchAsCounted
    <3>2. next'.xMsb = next.xMsb /\ next'.yMsb = next.yMsb
      BY <1>0, <2>1, <3>1, LowHalfKeepsTable
    <3>3. want'.table = want.table /\ want'.y = Unknown /\ want'.x = Unknown
      BY <1>0, <3>1
    <3> QED BY <3>2, <3>3 DEF WantedIsNext
  <2> QED BY <2>2, <2>3
<1>5. CASE ReadStatus \/ TransferScrollX \/ TransferScrollY \/ ReadData
  BY <1>1, <1>5 DEF ReadStatus, TransferScrollX, TransferScrollY, ReadData
<1>6. CASE PowerCycle
  <2>1. /\ LoopyOf(0).xCourse = 0 /\ LoopyOf(0).yCourse = 0 /\ LoopyOf(0).xMsb = 0
        /\ LoopyOf(0).yMsb = 0 /\ LoopyOf(0).yFine = 0
    BY DEF LoopyOf
  <2> QED BY <1>6, <2>1 DEF PowerCycle, Reset, ZeroScroll, WantedIsNext
<1> QED BY <1>1, <1>2, <1>3, <1>4, <1>5, <1>6
        DEF Next, ProgramStep, WriteCtrlMirror, WriteMask, WriteData, history

LEMMA AddressStep ==
  TypeOK /\ LatchAsCounted /\ PendingAddress /\ AddressAsWritten /\ Next
    => AddressAsWritten'
<1> SUFFICES ASSUME TypeOK, LatchAsCounted, PendingAddress, AddressAsWritten, Next
             PROVE  AddressAsWritten'
  OBVIOUS
<1>1. CASE UNCHANGED <<active, pointer>>
  BY <1>1 DEF AddressAsWritten
<1>2. ASSUME NEW b \in CtrlBytes, WriteCtrl(b) PROVE AddressAsWritten'
  BY <1>1, <1>2 DEF WriteCtrl
<1>3. ASSUME NEW b \in ScrollBytes, WriteScroll(b) PROVE AddressAsWritten'
  BY <1>1, <1>3 DEF WriteScroll, WriteScrollX, WriteScrollY
<1>4. ASSUME NEW b \in AddrBytes, WriteAddr(b) PROVE AddressAsWritten'
  <2>1. b \in Byte /\ next \in Loopy
    BY ByteAssumption DEF TypeOK
  <2>2. CASE half.port = "none"
    BY <1>1, <1>4, <2>2 DEF WriteAddr, WriteAddrHigh, WriteAddrLow, LatchAsCounted
  <2>3. CASE half.port # "none" /\ half.port # "address"
    BY <1>4, <2>3 DEF WriteAddr, AddressAsWritten
  <2>4. CASE half.port = "address"
    <3>1. active' = LoopyOf(256 * (AddressOf(next) \div 256) + b)
      BY <1>4, <2>4 DEF WriteAddr, WriteAddrHigh, WriteAddrLow, LatchAsCounted
    <3>2. pointer' = 256 * (half.value % 64) + b
      BY <1>4, <2>4 DEF WriteAddr
    <3>3. AddressOf(next) \div 256 = half.value % 64
      BY <2>4 DEF PendingAddress
    <3> QED BY <2>1, <3>1, <3>2, <3>3, HalvesInLoopy DEF AddressAsWritten
  <2> QED BY <2>2, <2>3, <2>4
<1>5. ASSUME IncrementVRamAddress PROVE AddressAsWritten'
  <2>1. active \in Loopy /\ pointer \in WordOrNot
    BY DEF TypeOK
  <2>2. (AddressOf(active) + Increment) % 65536 \in Word
    BY <2>1, AddressOfLoopy, IncrementInWord
  <2>3. AddressOf(active') = (AddressOf(active) + Increment) % 65536
    BY <1>5, <2>2, LoopyOfAddress DEF IncrementVRamAddress
  <2> QED BY <1>5, <2>3 DEF IncrementVRamAddress, AddressAsWritten
<1>6. CASE ReadData
  BY <1>5, <1>6 DEF ReadData
<1>7. ASSUME NEW b \in DataBytes, WriteData(b) PROVE AddressAsWritten'
  BY <1>5, <1>7 DEF WriteData
<1>8. CASE TransferScrollX \/ TransferScrollY
  BY <1>8 DEF TransferScrollX, TransferScrollY, AddressAsWritten
<1>9. CASE PowerCycle
  <2>0. 0 \in Word
    BY InWord
  <2>1. AddressOf(LoopyOf(0)) = 0
    BY <2>0, LoopyOfAddress
  <2> QED BY <1>9, <2>1 DEF PowerCycle, Reset, AddressAsWritten
<1> QED BY <1>1, <1>2, <1>3, <1>4, <1>6, <1>7, <1>8, <1>9
        DEF Next, ProgramStep, WriteCtrlMirror, WriteMask, ReadStatus, history

LEMMA ScrollStep ==
  TypeOK /\ LatchAsCounted /\ WantedIsNext /\ ScrollAsAsked /\ Next
    => ScrollAsAsked'
<1> SUFFICES ASSUME TypeOK, LatchAsCounted, WantedIsNext, ScrollAsAsked, Next
             PROVE  ScrollAsAsked'
  OBVIOUS
<1>0. /\ active \in Loopy /\ next \in Loopy
      /\ drawn \in [x : Unknown .. 511, y : Unknown .. 511]
      /\ want.table \in Unknown .. 3 /\ want.x \in ByteOrNot /\ want.y \in ByteOrNot
  BY DEF TypeOK
<1>1. CASE UNCHANGED <<active, fineX, drawn>>
  BY <1>1 DEF ScrollAsAsked
<1>2. ASSUME NEW b \in CtrlBytes, WriteCtrl(b) PROVE ScrollAsAsked'
  BY <1>1, <1>2 DEF WriteCtrl
<1>3. ASSUME NEW b \in ScrollBytes, WriteScroll(b) PROVE ScrollAsAsked'
  <2>1. CASE half.port = "none"
    <3>1. active' = active /\ drawn' = [drawn EXCEPT !.x = Unknown]
      BY <1>3, <2>1 DEF WriteScroll, WriteScrollX, WriteScrollY, LatchAsCounted
    <3>2. drawn'.x = Unknown /\ drawn'.y = drawn.y
      BY <1>0, <3>1
    <3> QED BY <3>1, <3>2 DEF ScrollAsAsked
  <2>2. CASE half.port # "none"
    BY <1>1, <1>3, <2>2 DEF WriteScroll, WriteScrollX, WriteScrollY, LatchAsCounted
  <2> QED BY <2>1, <2>2
<1>4. ASSUME NEW b \in AddrBytes, WriteAddr(b) PROVE ScrollAsAsked'
  <2>1. CASE half.port = "none"
    BY <1>1, <1>4, <2>1 DEF WriteAddr, WriteAddrHigh, WriteAddrLow, LatchAsCounted
  <2>2. CASE half.port # "none"
    BY <1>4, <2>2 DEF WriteAddr, ScrollAsAsked
  <2> QED BY <2>1, <2>2
<1>5. ASSUME IncrementVRamAddress PROVE ScrollAsAsked'
  BY <1>5 DEF IncrementVRamAddress, ScrollAsAsked
<1>6. CASE ReadData
  BY <1>5, <1>6 DEF ReadData
<1>7. ASSUME NEW b \in DataBytes, WriteData(b) PROVE ScrollAsAsked'
  BY <1>5, <1>7 DEF WriteData
<1>8. CASE TransferScrollX
  <2>1. /\ active'.xMsb = next.xMsb /\ active'.xCourse = next.xCourse
        /\ active'.yMsb = active.yMsb /\ active'.yCourse = active.yCourse
        /\ active'.yFine = active.yFine
    BY <1>0, <1>8 DEF TransferScrollX, Loopy
  <2>2. fineX' = fineX /\ drawn'.x = WantedX /\ drawn'.y = drawn.y
    BY <1>0, <1>8 DEF TransferScrollX
  <2>3. ASSUME want.table # Unknown, want.x # Unknown
        PROVE  256 * next.xMsb + 8 * next.xCourse + fineX
               = 256 * (want.table % 2) + want.x
    <3>1. /\ next.xMsb = want.table % 2
          /\ next.xCourse = want.x \div 8 /\ fineX = want.x % 8
      BY <2>3 DEF WantedIsNext
    <3>2. want.x = 8 * (want.x \div 8) + (want.x % 8)
      BY <1>0, <2>3 DEF ByteOrNot, Unknown
    <3>3. want.x \in Int /\ want.table \in Int
      BY <1>0 DEF ByteOrNot, Unknown
    <3> QED BY <3>1, <3>2, <3>3
  <2>4. WantedX # Unknown => ScrollX(active', fineX') = WantedX
    BY <2>1, <2>2, <2>3 DEF WantedX, ScrollX
  <2>5. ScrollY(active') = ScrollY(active)
    BY <2>1 DEF ScrollY
  <2> QED BY <2>2, <2>4, <2>5 DEF ScrollAsAsked
<1>9. CASE TransferScrollY
  <2>1. /\ active'.xMsb = active.xMsb /\ active'.xCourse = active.xCourse
        /\ active'.yMsb = next.yMsb /\ active'.yCourse = next.yCourse
        /\ active'.yFine = next.yFine
    BY <1>0, <1>9 DEF TransferScrollY, Loopy
  <2>2. fineX' = fineX /\ drawn'.x = drawn.x /\ drawn'.y = WantedY
    BY <1>0, <1>9 DEF TransferScrollY
  <2>3. ASSUME want.table # Unknown, want.y # Unknown
        PROVE  256 * next.yMsb + 8 * next.yCourse + next.yFine
               = 256 * (want.table \div 2) + want.y
    <3>1. /\ next.yMsb = want.table \div 2
          /\ next.yCourse = want.y \div 8 /\ next.yFine = want.y % 8
      BY <2>3 DEF WantedIsNext
    <3>2. want.y = 8 * (want.y \div 8) + (want.y % 8)
      BY <1>0, <2>3 DEF ByteOrNot, Unknown
    <3>3. want.y \in Int /\ want.table \in Int
      BY <1>0 DEF ByteOrNot, Unknown
    <3> QED BY <3>1, <3>2, <3>3
  <2>4. WantedY # Unknown => ScrollY(active') = WantedY
    BY <2>1, <2>2, <2>3 DEF WantedY, ScrollY
  <2>5. ScrollX(active', fineX') = ScrollX(active, fineX)
    BY <2>1, <2>2 DEF ScrollX
  <2> QED BY <2>2, <2>4, <2>5 DEF ScrollAsAsked
<1>10. CASE PowerCycle
  <2>1. /\ LoopyOf(0).xCourse = 0 /\ LoopyOf(0).yCourse = 0 /\ LoopyOf(0).xMsb = 0
        /\ LoopyOf(0).yMsb = 0 /\ LoopyOf(0).yFine = 0
    BY DEF LoopyOf
  <2>2. active' = LoopyOf(0) /\ fineX' = 0 /\ drawn' = [x |-> 0, y |-> 0]
    BY <1>10 DEF PowerCycle, Reset
  <2> QED BY <2>1, <2>2 DEF ScrollAsAsked, ScrollX, ScrollY
<1> QED BY <1>1, <1>2, <1>3, <1>4, <1>6, <1>7, <1>8, <1>9, <1>10
        DEF Next, ProgramStep, WriteCtrlMirror, WriteMask, ReadStatus, history

\* The addresses of a run of reads, one after the other, round the whole space.
LEMMA NextReadAddress ==
  ASSUME NEW s \in Word, NEW k \in Nat, NEW i \in {1, 32}
  PROVE  (s + (k + 1) * i) % 65536 = (((s + k * i) % 65536) + i) % 65536
<1>1. s \in Nat
  BY DEF Word
<1>2. CASE i = 1
  <2>1. (k + 1) * i = k + 1 /\ k * i = k
    BY <1>2
  <2>2. (s + (k + 1)) % 65536 = (((s + k) % 65536) + 1) % 65536
    BY <1>1
  <2> QED BY <1>2, <2>1, <2>2
<1>3. CASE i = 32
  <2>1. (k + 1) * i = 32 * k + 32 /\ k * i = 32 * k
    BY <1>3
  <2>2. (s + (32 * k + 32)) % 65536 = (((s + 32 * k) % 65536) + 32) % 65536
    BY <1>1
  <2> QED BY <1>3, <2>1, <2>2
<1> QED BY <1>2, <1>3

\* An address brought back into a word, with the word's size kept out of the
\* provers' sight.
Wrapped(m) == m % 65536

LEMMA FirstReadAddress ==
  ASSUME NEW a \in Word, NEW i \in {1, 32}
  PROVE  a \in Nat /\ Wrapped(a + 0 * i) = a
<1>1. a \in Int /\ 0 <= a /\ a < 65536
  BY DEF Word
<1>2. a + 0 * i = a
  BY <1>1
<1>3. a % 65536 = a
  BY <1>1
<1> QED BY <1>1, <1>2, <1>3 DEF Wrapped

LEMMA ClaimedWord == \A a \in WordOrNot : a # Unknown => a \in Word
<1> SUFFICES ASSUME NEW a \in WordOrNot, a # Unknown PROVE a \in Word
  OBVIOUS
<1>1. a \in Int /\ 0 <= a /\ a <= 65535
  BY DEF WordOrNot, Unknown
<1> QED BY <1>1, InWord

LEMMA StreamStep ==
  PortInv /\ Next => StreamAtPointer' /\ ReadsFollowThePointer'
<1> SUFFICES ASSUME PortInv, Next PROVE StreamAtPointer' /\ ReadsFollowThePointer'
  OBVIOUS
<1>1. CASE stream'.start = Unknown
  BY <1>1 DEF StreamAtPointer, ReadsFollowThePointer
<1>2. CASE UNCHANGED <<stream, pointer, down, readBuffer, vram>>
  BY <1>2 DEF PortInv, StreamAtPointer, ReadsFollowThePointer, ReadAddress, Increment, Stored
<1>3. ASSUME NEW b \in AddrBytes, WriteAddr(b)
      PROVE  StreamAtPointer' /\ ReadsFollowThePointer'
  <2>1. CASE half.port = "none"
    BY <1>2, <1>3, <2>1 DEF WriteAddr
  <2>2. CASE half.port # "none"
    <3>1. stream' = [NoStream EXCEPT !.start = pointer']
      BY <1>3, <2>2 DEF WriteAddr
    <3>2. stream'.start = pointer' /\ stream'.count = 0
      BY <3>1 DEF NoStream
    <3>3. pointer' \in WordOrNot
      BY ClaimStep DEF PortInv, ClaimTypes
    <3>4. CASE pointer' # Unknown
      <4>1. pointer' \in Word
        BY <3>3, <3>4, ClaimedWord
      <4>2. Increment' \in {1, 32}
        BY DEF Increment
      <4>3. Wrapped(pointer' + 0 * Increment') = pointer'
        BY <4>1, <4>2, FirstReadAddress
      <4>5. ReadAddress(0)' = pointer'
        BY <3>2, <4>3 DEF ReadAddress, Wrapped
      <4>4. StreamAtPointer'
        BY <3>2, <4>5 DEF StreamAtPointer
      <4>6. ReadsFollowThePointer'
        BY <3>2 DEF ReadsFollowThePointer
      <4> QED BY <4>4, <4>6
    <3> QED BY <1>1, <3>2, <3>4
  <2> QED BY <2>1, <2>2
<1>4. CASE ReadData /\ stream.start # Unknown
  <2> DEFINE k == stream.count  a == AddressOf(active)
  <2>1. PICK fetched \in PpuRead(a) : /\ readBuffer' = fetched
                                      /\ stream' = StreamAfter(Returned(fetched))
    BY <1>4 DEF ReadData
  <2>2. /\ UNCHANGED <<down, vram>>
        /\ pointer' = IF pointer = Unknown THEN Unknown ELSE (pointer + Increment) % 65536
    BY <1>4 DEF ReadData, IncrementVRamAddress
  <2>3. stream.start \in WordOrNot /\ k \in Nat
        /\ stream \in [start : WordOrNot, count : Nat, last : Byte]
    BY DEF PortInv, TypeOK
  <2>4. stream.start \in Word
    BY <1>4, <2>3, ClaimedWord
  <2>5. stream'.start = stream.start /\ stream'.count = k + 1
        /\ stream'.last = Returned(fetched)
    BY <1>4, <2>1, <2>3 DEF StreamAfter
  <2>6. \A j : ReadAddress(j)' = ReadAddress(j)
    BY <2>2, <2>5 DEF ReadAddress, Increment
  <2>7. pointer = ReadAddress(k)
    BY <1>4 DEF PortInv, StreamAtPointer
  <2>8. Increment \in {1, 32} /\ Increment \in Nat
    BY DEF Increment
  <2>9. ReadAddress(k) \in Nat
    <3>1. stream.start \in Nat /\ k * Increment \in Nat
      <4>1. stream.start \in Nat
        BY <2>4, <2>8, FirstReadAddress
      <4>2. k * 1 \in Nat /\ k * 32 \in Nat
        BY <2>3
      <4> QED BY <2>8, <4>1, <4>2
    <3> DEFINE m == stream.start + k * Increment
    <3>2. m \in Nat
      BY <3>1
    <3> HIDE DEF m
    <3>3. m % 65536 \in Nat
      BY <3>2
    <3> QED BY <3>3 DEF ReadAddress, m
  <2>10. pointer # Unknown /\ a = ReadAddress(k)
    BY <2>7, <2>9 DEF PortInv, AddressAsWritten, Unknown
  <2>11. ReadAddress(k + 1) = (ReadAddress(k) + Increment) % 65536
    BY <2>3, <2>4, <2>8, NextReadAddress DEF ReadAddress
  <2>12. \A j : j = k + 1 => pointer' = ReadAddress(j)'
    BY <2>2, <2>6, <2>7, <2>10, <2>11
  <2>13. \A p : Stored(p)' = Stored(p)
    BY <2>2 DEF Stored
  <2>14. a # OamDataAddr => fetched = Stored(Place(a))
    BY <2>1 DEF PpuRead
  <2>15. (k + 1) - 1 = k /\ (k + 1) - 2 = k - 1
    BY <2>3
  <2>16. StreamAtPointer'
    BY <2>1, <2>5, <2>6, <2>10, <2>12, <2>13, <2>14, <2>15 DEF StreamAtPointer
  <2>17. CASE a >= 16128
    <3>1. stream'.last = fetched /\ a # OamDataAddr
      BY <2>5, <2>17 DEF Returned, OamDataAddr
    <3> QED BY <2>5, <2>6, <2>10, <2>13, <2>14, <2>15, <2>16, <2>17, <3>1
            DEF ReadsFollowThePointer
  <2>18. CASE ~(a >= 16128)
    <3>1. stream'.last = readBuffer
      BY <2>5, <2>18 DEF Returned
    <3>2. k >= 1 /\ ReadAddress(k - 1) # OamDataAddr
            => readBuffer = Stored(Place(ReadAddress(k - 1)))
      BY <1>4 DEF PortInv, StreamAtPointer
    <3>3. k + 1 >= 2 <=> k >= 1
      BY <2>3
    <3> QED BY <2>5, <2>6, <2>10, <2>13, <2>15, <2>16, <2>18, <3>1, <3>2, <3>3
            DEF ReadsFollowThePointer
  <2> QED BY <2>16, <2>17, <2>18
<1>5. CASE ReadData /\ stream.start = Unknown
  <2>1. stream' = stream
    BY <1>5 DEF ReadData, StreamAfter
  <2> QED BY <1>1, <1>5, <2>1
<1>6. NoStream.start = Unknown
  BY DEF NoStream
<1>7. ASSUME NEW b \in ScrollBytes, WriteScroll(b)
      PROVE  StreamAtPointer' /\ ReadsFollowThePointer'
  BY <1>2, <1>7 DEF WriteScroll
<1>8. CASE (\E b \in CtrlBytes : WriteCtrl(b) \/ WriteCtrlMirror(b))
           \/ (\E b \in DataBytes : WriteData(b)) \/ TransferScrollX \/ TransferScrollY
           \/ PowerCycle
  BY <1>1, <1>6, <1>8 DEF WriteCtrl, WriteCtrlMirror, WriteData, TransferScrollX,
     TransferScrollY, PowerCycle, Reset
<1> QED BY <1>2, <1>3, <1>4, <1>5, <1>7, <1>8
        DEF Next, ProgramStep, WriteMask, ReadStatus, history

LEMMA PortStep == PortInv /\ [Next]_vars => PortInv'
<1>1. PortInv /\ Next => PortInv'
  BY TypeStep, LatchStep, PendingStep, WantedStep, AddressStep, ScrollStep, StreamStep
     DEF PortInv
<1>2. PortInv /\ UNCHANGED vars => PortInv'
  <2> SUFFICES ASSUME PortInv, UNCHANGED vars PROVE PortInv'
    OBVIOUS
  <2> USE DEF vars, ports, history
  <2>1. TypeOK'
    BY TypeStep DEF PortInv
  <2>2. LatchAsCounted' /\ PendingAddress' /\ WantedIsNext' /\ AddressAsWritten'
        /\ ScrollAsAsked'
    BY DEF PortInv, LatchAsCounted, PendingAddress, WantedIsNext, AddressAsWritten,
           ScrollAsAsked
  <2>3. StreamAtPointer' /\ ReadsFollowThePointer'
    BY DEF PortInv, StreamAtPointer, ReadsFollowThePointer, ReadAddress, Increment, Stored
  <2> QED BY <2>1, <2>2, <2>3 DEF PortInv
<1> QED BY <1>1, <1>2

-----------------------------------------------------------------------------
\* The ports hold what their registers can hold, whatever is written.
THEOREM TypesHold == Spec => []TypeOK
BY PortInit, PortStep, PTL DEF Spec, PortInv

\* $2007 uses the address that the program wrote to $2006, from any state of
\* the latch that the program can be in.
THEOREM AddressHolds == Spec => []AddressAsWritten
BY PortInit, PortStep, PTL DEF Spec, PortInv

\* The picture is scrolled as asked when the scroll was copied.
THEOREM ScrollHolds == Spec => []ScrollAsAsked
BY PortInit, PortStep, PTL DEF Spec, PortInv

\* $2007 reads the bytes in order, late or at once, wherever the run crosses
\* into the palettes and however far it wraps round.
THEOREM ReadsHold == Spec => []ReadsFollowThePointer
BY PortInit, PortStep, PTL DEF Spec, PortInv
=============================================================================
