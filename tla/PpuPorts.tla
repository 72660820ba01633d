------------------------------ MODULE PpuPorts ------------------------------
(***************************************************************************)
(* The PPU's scroll and address ports: PPU/PpuRegisters.cpp, the accesses  *)
(* of $2007 in Memory/Dma.cpp, and the memory behind them.                 *)
(*                                                                         *)
(* $2005 and $2006 are written twice and share the latch that says which   *)
(* half comes next; both end up in one "loopy" register, which is scroll   *)
(* and address at once.  A second one, the active register, is what the    *)
(* picture and $2007 use: the last half of $2006 copies the first register *)
(* into it, and the picture copies the scroll fields once a line and once  *)
(* a frame.  Any interleaving of the program's accesses with these copies  *)
(* is possible here; Background says at which dots they come.              *)
(***************************************************************************)
EXTENDS Integers

CONSTANTS CtrlBytes,    \* values written to $2000, of which bits 0 to 2 count
          ScrollBytes,  \* values written to $2005
          AddrBytes,    \* values written to $2006
          DataBytes,    \* values written to $2007
          Vertical,     \* the cartridge's name table mirroring
          PrgLen, ChrLen,  \* bytes of its banks
          HasRam,       \* it has RAM at $6000
          Initial(_)    \* what the memory holds when the program begins

Byte == 0 .. 255
Word == 0 .. 65535

ASSUME ByteAssumption == /\ CtrlBytes \subseteq Byte /\ ScrollBytes \subseteq Byte
                         /\ AddrBytes \subseteq Byte /\ DataBytes \subseteq Byte
                         /\ \A a \in Word : Initial(a) \in Byte
ASSUME BankAssumption == /\ PrgLen \in 1 .. 32768 /\ ChrLen \in 1 .. 8192
                         /\ Vertical \in BOOLEAN /\ HasRam \in BOOLEAN

VARIABLES next, active,    \* nextLoopyReg and activeLoopyReg
          fineX,           \* scrollXFine
          latch,           \* loopyLatch
          down,            \* vramDirrection: $2007 goes down, not across
          rendering,       \* showBackground or showSprites
          readBuffer,      \* ppuDataReadBuffer
          vram             \* the bytes written so far, by their place

ports == <<next, active, fineX, latch, down, rendering, readBuffer, vram>>

\* History, read by no action.  half: the first half of a pair that the
\* program has written, or that there is none.  pointer: the address it has
\* set.  want: the scroll it has asked for.  drawn: the scroll of the picture
\* since it was last copied.  stream: where it has begun to read, how many
\* bytes it has read since, and the last of them.  A field is Unknown when
\* what the program did in between leaves nothing to count on.
VARIABLES half, pointer, want, drawn, stream

history == <<half, pointer, want, drawn, stream>>
vars == <<ports, history>>

Unknown == -1

-----------------------------------------------------------------------------
(***************************************************************************)
(* The union LoopyRegister: one word, as fields and as an address.         *)
(***************************************************************************)
Loopy == [xCourse : 0 .. 31, yCourse : 0 .. 31, xMsb : 0 .. 1, yMsb : 0 .. 1,
          yFine : 0 .. 7, unused : 0 .. 1]

AddressOf(r) ==
  r.xCourse + 32 * (r.yCourse + 32 * (r.xMsb + 2 * (r.yMsb
                     + 2 * (r.yFine + 8 * r.unused))))

LoopyOf(a) == [xCourse |-> a % 32,           yCourse |-> (a \div 32) % 32,
               xMsb    |-> (a \div 1024) % 2, yMsb    |-> (a \div 2048) % 2,
               yFine   |-> (a \div 4096) % 8, unused  |-> (a \div 32768) % 2]

\* GetActiveScrollX and Y.
ScrollX(r, fine) == 256 * r.xMsb + 8 * r.xCourse + fine
ScrollY(r)       == 256 * r.yMsb + 8 * r.yCourse + r.yFine

-----------------------------------------------------------------------------
(***************************************************************************)
(* The memory behind $2007.  Place is the byte that an address stands for, *)
(* by its lowest address, or Unknown where there is none.                  *)
(***************************************************************************)
NameTableAt(a) ==
  LET offset == (a - 8192) % 4096
      back   == IF Vertical THEN IF offset >= 2048 THEN 2048 ELSE 0
                ELSE IF \/ offset >= 1024 /\ offset < 2048
                        \/ offset >= 3072 THEN 1024 ELSE 0
  IN 8192 + (offset - back)

PaletteAt(a) ==
  LET offset == (a - 16128) % 32
  IN 16128 + (IF offset \in {16, 20, 24, 28} THEN offset - 16 ELSE offset)

Place(a) == CASE a >= 32768           -> 32768 + ((a - 32768) % PrgLen)
              [] a < 8192             -> a % ChrLen
              [] a >= 24576 /\ a < 32768 /\ HasRam -> a
              [] a >= 8192 /\ a < 16128  -> NameTableAt(a)
              [] a >= 16128 /\ a < 16384 -> PaletteAt(a)
              [] OTHER                -> Unknown

Stored(place) == IF place = Unknown THEN 0
                 ELSE IF place \in DOMAIN vram THEN vram[place] ELSE Initial(place)

\* PpuMemoryMap::Read takes the address of the CPU's OAMDATA port, $2004, for
\* that port, and answers with a byte of OAM: here, any byte.
OamDataAddr == 8196

PpuRead(a) == IF a = OamDataAddr THEN DataBytes \union {0} ELSE {Stored(Place(a))}

PpuWrite(a, value) ==
  vram' = IF Place(a) = Unknown THEN vram
          ELSE [p \in DOMAIN vram \union {Place(a)} |->
                  IF p = Place(a) THEN value ELSE vram[p]]

-----------------------------------------------------------------------------
NoHalf == [port |-> "none", value |-> 0]
Half   == [port : {"none", "scroll", "address", "spoilt"}, value : Byte]

ZeroScroll == [table |-> 0, x |-> 0, y |-> 0]
NoStream   == [start |-> Unknown, count |-> 0, last |-> 0]

Reset == /\ next' = LoopyOf(0)
         /\ active' = LoopyOf(0)
         /\ fineX' = 0
         /\ latch' = FALSE
         /\ down' = FALSE
         /\ rendering' = FALSE
         /\ readBuffer' = 0
         /\ half' = NoHalf
         /\ pointer' = 0
         /\ want' = ZeroScroll
         /\ drawn' = [x |-> 0, y |-> 0]
         /\ stream' = NoStream

Init == /\ next = LoopyOf(0)
        /\ active = LoopyOf(0)
        /\ fineX = 0
        /\ latch = FALSE
        /\ down = FALSE
        /\ rendering = FALSE
        /\ readBuffer = 0
        /\ vram = [p \in {} |-> 0]
        /\ half = NoHalf
        /\ pointer = 0
        /\ want = ZeroScroll
        /\ drawn = [x |-> 0, y |-> 0]
        /\ stream = NoStream

-----------------------------------------------------------------------------
\* The CPU writes $2000.  The scroll it asks for gets its table bits at once,
\* and so does an address that is half written.
WriteCtrl(value) ==
  /\ next' = [next EXCEPT !.xMsb = value % 2, !.yMsb = (value \div 2) % 2]
  /\ down' = ((value \div 4) % 2 = 1)
  /\ UNCHANGED <<active, fineX, latch, rendering, readBuffer, vram>>
  /\ half' = IF half.port = "address" THEN [half EXCEPT !.port = "spoilt"] ELSE half
  /\ want' = [want EXCEPT !.table = value % 4]
  /\ stream' = NoStream
  /\ UNCHANGED <<pointer, drawn>>

\* The same through a mirror, $2008 and so on: the switch of
\* PpuRegisters::Write knows the first address of each register only, so the
\* raw register changes and the loopy register does not.  (A mirror of $2005
\* or $2006 changes nothing that is kept here, nor does reading one of $2002.)
WriteCtrlMirror(value) ==
  /\ down' = ((value \div 4) % 2 = 1)
  /\ UNCHANGED <<next, active, fineX, latch, rendering, readBuffer, vram>>
  /\ stream' = NoStream
  /\ UNCHANGED <<half, pointer, want, drawn>>

\* The CPU writes $2001, itself or through a mirror.
WriteMask(value) ==
  /\ rendering' = value
  /\ UNCHANGED <<next, active, fineX, latch, down, readBuffer, vram, history>>

WriteScrollX(value) ==
  /\ ~latch
  /\ next' = [next EXCEPT !.xCourse = value \div 8]
  /\ fineX' = value % 8
  /\ latch' = TRUE
  /\ UNCHANGED active

WriteScrollY(value) ==
  /\ latch
  /\ next' = [next EXCEPT !.yCourse = value \div 8, !.yFine = value % 8]
  /\ latch' = FALSE
  /\ UNCHANGED <<active, fineX>>

\* The program goes by its own count of the halves.  The fine part of a new X
\* shows at once, the rest when it is copied.
WriteScroll(value) ==
  /\ WriteScrollX(value) \/ WriteScrollY(value)
  /\ UNCHANGED <<down, rendering, readBuffer, vram>>
  /\ IF half.port = "none"
     THEN /\ half' = [port |-> "scroll", value |-> 0]
          /\ want' = [want EXCEPT !.x = value]
          /\ drawn' = [drawn EXCEPT !.x = Unknown]
     ELSE /\ half' = NoHalf
          /\ want' = [want EXCEPT !.y = value]
          /\ UNCHANGED drawn
  /\ UNCHANGED <<pointer, stream>>

WriteAddrHigh(value) ==
  /\ ~latch
  /\ next' = LoopyOf(256 * (value % 64) + (AddressOf(next) % 256))
  /\ latch' = TRUE
  /\ UNCHANGED active

WriteAddrLow(value) ==
  /\ latch
  /\ next' = LoopyOf(256 * (AddressOf(next) \div 256) + value)
  /\ active' = next'
  /\ latch' = FALSE

WriteAddr(value) ==
  /\ WriteAddrHigh(value) \/ WriteAddrLow(value)
  /\ UNCHANGED <<fineX, down, rendering, readBuffer, vram>>
  /\ IF half.port = "none"
     THEN /\ half' = [port |-> "address", value |-> value]
          /\ want' = [want EXCEPT !.table = Unknown, !.y = Unknown]
          /\ UNCHANGED <<pointer, drawn, stream>>
     ELSE /\ half' = NoHalf
          /\ pointer' = IF half.port = "address"
                        THEN 256 * (half.value % 64) + value ELSE Unknown
          /\ want' = [want EXCEPT !.x = Unknown, !.y = Unknown]
          /\ drawn' = [x |-> Unknown, y |-> Unknown]
          /\ stream' = [NoStream EXCEPT !.start = pointer']

KeepLatchMutant ==
  /\ UNCHANGED ports
  /\ half' = NoHalf
  /\ UNCHANGED <<pointer, want, drawn, stream>>

\* The CPU reads $2002.
ReadStatus ==
  /\ latch' = FALSE
  /\ UNCHANGED <<next, active, fineX, down, rendering, readBuffer, vram>>
  /\ half' = NoHalf
  /\ UNCHANGED <<pointer, want, drawn, stream>>

-----------------------------------------------------------------------------
Increment == IF down THEN 32 ELSE 1

IncrementVRamAddress ==
  /\ active' = LoopyOf((AddressOf(active) + Increment) % 65536)
  /\ pointer' = IF pointer = Unknown THEN Unknown
                ELSE (pointer + Increment) % 65536
  /\ drawn' = [x |-> Unknown, y |-> Unknown]

\* The byte a read of $2007 returns: the one that the last read fetched, or,
\* from the palettes up, the one that it has fetched itself.
LatePaletteMutant(fetched) == IF AddressOf(active) > 16128 THEN fetched ELSE readBuffer

Returned(fetched) == IF AddressOf(active) >= 16128 THEN fetched ELSE readBuffer

StreamAfter(byte) == IF stream.start = Unknown THEN stream
                     ELSE [stream EXCEPT !.count = @ + 1, !.last = byte]

\* The CPU reads $2007.
ReadData ==
  \E fetched \in PpuRead(AddressOf(active)) :
    /\ readBuffer' = fetched
    /\ IncrementVRamAddress
    /\ UNCHANGED <<next, fineX, latch, down, rendering, vram>>
    /\ stream' = StreamAfter(Returned(fetched))
    /\ UNCHANGED <<half, want>>

\* The CPU writes $2007.
WriteData(value) ==
  /\ PpuWrite(AddressOf(active), value)
  /\ IncrementVRamAddress
  /\ UNCHANGED <<next, fineX, latch, down, rendering, readBuffer>>
  /\ stream' = NoStream
  /\ UNCHANGED <<half, want>>

-----------------------------------------------------------------------------
WantedX == IF want.table = Unknown \/ want.x = Unknown THEN Unknown
           ELSE 256 * (want.table % 2) + want.x
WantedY == IF want.table = Unknown \/ want.y = Unknown THEN Unknown
           ELSE 256 * (want.table \div 2) + want.y

CourseOnlyMutant ==
  /\ rendering
  /\ active' = [active EXCEPT !.xCourse = next.xCourse]
  /\ UNCHANGED <<next, fineX, latch, down, rendering, readBuffer, vram>>
  /\ drawn' = [drawn EXCEPT !.x = WantedX]
  /\ pointer' = Unknown
  /\ stream' = NoStream
  /\ UNCHANGED <<half, want>>

\* The picture copies the scroll, across or down, if it is shown at all.
TransferScrollX ==
  /\ rendering
  /\ active' = [active EXCEPT !.xMsb = next.xMsb, !.xCourse = next.xCourse]
  /\ UNCHANGED <<next, fineX, latch, down, rendering, readBuffer, vram>>
  /\ drawn' = [drawn EXCEPT !.x = WantedX]
  /\ pointer' = Unknown
  /\ stream' = NoStream
  /\ UNCHANGED <<half, want>>

TransferScrollY ==
  /\ rendering
  /\ active' = [active EXCEPT !.yMsb = next.yMsb, !.yCourse = next.yCourse,
                              !.yFine = next.yFine]
  /\ UNCHANGED <<next, fineX, latch, down, rendering, readBuffer, vram>>
  /\ drawn' = [drawn EXCEPT !.y = WantedY]
  /\ pointer' = Unknown
  /\ stream' = NoStream
  /\ UNCHANGED <<half, want>>

PowerCycle == Reset /\ UNCHANGED vram

ProgramStep == \/ \E b \in CtrlBytes : WriteCtrl(b) \/ WriteCtrlMirror(b)
               \/ \E r \in BOOLEAN : WriteMask(r)
               \/ \E b \in ScrollBytes : WriteScroll(b)
               \/ \E b \in AddrBytes : WriteAddr(b)
               \/ ReadStatus
               \/ ReadData
               \/ \E b \in DataBytes : WriteData(b)

Next == ProgramStep \/ TransferScrollX \/ TransferScrollY \/ PowerCycle

Spec == Init /\ [][Next]_vars

-----------------------------------------------------------------------------
\* Unknown is one below each of these ranges.
WordOrNot == Unknown .. 65535
ByteOrNot == Unknown .. 255

TypeOK == /\ next \in Loopy /\ active \in Loopy
          /\ fineX \in 0 .. 7
          /\ latch \in BOOLEAN /\ down \in BOOLEAN /\ rendering \in BOOLEAN
          /\ readBuffer \in Byte
          /\ DOMAIN vram \subseteq Word /\ \A p \in DOMAIN vram : vram[p] \in DataBytes
          /\ half \in Half
          /\ pointer \in WordOrNot
          /\ want \in [table : Unknown .. 3, x : ByteOrNot, y : ByteOrNot]
          /\ drawn \in [x : Unknown .. 511, y : Unknown .. 511]
          /\ stream \in [start : WordOrNot, count : Nat, last : Byte]

(***************************************************************************)
(* Two writes of $2006 that begin a pair set the address that $2007 uses,  *)
(* whatever half pairs, status reads, scroll writes and power cycles came  *)
(* before, and each access moves it on by 1 or 32, as long as the program  *)
(* writes no $2000 between the halves and the picture does not copy its    *)
(* scroll.                                                                 *)
(***************************************************************************)
AddressAsWritten == pointer # Unknown => AddressOf(active) = pointer

(***************************************************************************)
(* The picture is scrolled as the program last asked for with $2000 and    *)
(* $2005 when the scroll was copied, although writes of $2006 and accesses *)
(* of $2007 use the same registers: what they spoil, the next full set of  *)
(* writes repairs.                                                         *)
(***************************************************************************)
ScrollAsAsked ==
  /\ drawn.x # Unknown => ScrollX(active, fineX) = drawn.x
  /\ drawn.y # Unknown => ScrollY(active) = drawn.y

\* The i-th address of a run of reads, and what it holds.
ReadAddress(i) == (stream.start + i * Increment) % 65536

(***************************************************************************)
(* Reads of $2007 after an address was set give the bytes from there on,   *)
(* one read late below the palettes and at once in them, across the        *)
(* border.  Nothing is promised of the address that the OAM port shadows.  *)
(***************************************************************************)
ReadsFollowThePointer ==
  LET k == stream.count
      late == IF ReadAddress(k - 1) >= 16128 THEN 1 ELSE 2
      source == ReadAddress(k - late)
  IN (/\ stream.start # Unknown
      /\ k >= late
      /\ source # OamDataAddr)
     => stream.last = Stored(Place(source))
=============================================================================
