----------------------------- MODULE Background -----------------------------
(***************************************************************************)
(* The PPU's background: Ppu::Step, backgroundFetch, CalcNextFetchPixel    *)
(* and CalcBackgroundPixel of PPU/Ppu.cpp, with the name tables' addresses *)
(* of PPU/NameTables.cpp.                                                  *)
(*                                                                         *)
(* The picture is fetched a tile at a time, eight dots to a tile, into     *)
(* four latches, and shifted from there into registers that hold two       *)
(* tiles.  The first two tiles of a line are fetched at the end of the     *)
(* line above.  What is kept here of a fetched byte is where it came from, *)
(* so that a pixel tells which byte of which table it was drawn with.      *)
(* The lines are as long as the constants say; tiles, tables and the dots  *)
(* of a fetch have their real sizes.                                       *)
(*                                                                         *)
(* The registers' bits are PpuPorts'; here a scroll is a position in the   *)
(* plane of the four tables, across without its fine part.                 *)
(***************************************************************************)
EXTENDS Integers

CONSTANTS LAST_VISIBLE_FETCH_CYCLE,          \* 249
          LAST_VISIBLE_CYCLE,                \* 256
          TRANSFER_SCOLLX_CYCLE,             \* 257
          TRANSFER_SCROLLY_CYCLE,            \* 304, both first and last
          START_NEXT_SCANLINE_FETCHING_CYCLE,\* 321
          LAST_NEXT_SCANLINE_FETCHING_CYCLE, \* 336
          LAST_CYCLE,                        \* 340
          LAST_VISIBLE_SCANLINE,             \* 239
          LAST_SCANLINE,                     \* 260
          Vertical,                          \* the cartridge's mirroring
          ScrollXs, ScrollYs                 \* scrolls the program asks for

PRE_SCANLINE == -1
START_VISIBLE_SCANLINE == 0
START_VISIBLE_CYCLE == 1
END_OF_LEFT_MOST_TILE_CYCLE == 8
nametablesWidth == 512
nametablesHeight == 480
TILE == 8

\* A line is whole tiles; a fetch begins at every dot that is 1 modulo 8, the
\* first two tiles of a line are fetched after the scroll has been copied, and
\* the line ends before a third.
ASSUME PictureAssumption ==
  /\ LAST_VISIBLE_CYCLE \in Nat /\ LAST_VISIBLE_CYCLE % TILE = 0
  /\ LAST_VISIBLE_CYCLE >= 2 * TILE
  /\ LAST_VISIBLE_FETCH_CYCLE = LAST_VISIBLE_CYCLE - TILE + 1
  /\ TRANSFER_SCOLLX_CYCLE = LAST_VISIBLE_CYCLE + 1
  /\ TRANSFER_SCROLLY_CYCLE \in Nat /\ START_NEXT_SCANLINE_FETCHING_CYCLE \in Nat
  /\ TRANSFER_SCROLLY_CYCLE > TRANSFER_SCOLLX_CYCLE
  /\ START_NEXT_SCANLINE_FETCHING_CYCLE > TRANSFER_SCROLLY_CYCLE
  /\ START_NEXT_SCANLINE_FETCHING_CYCLE % TILE = 1
  /\ LAST_NEXT_SCANLINE_FETCHING_CYCLE = START_NEXT_SCANLINE_FETCHING_CYCLE + 2 * TILE - 1
  /\ LAST_CYCLE = LAST_NEXT_SCANLINE_FETCHING_CYCLE + 4
  /\ LAST_VISIBLE_SCANLINE \in Nat /\ LAST_SCANLINE \in Nat
  /\ LAST_SCANLINE > LAST_VISIBLE_SCANLINE
  /\ Vertical \in BOOLEAN
  /\ ScrollXs \subseteq 0 .. 511 /\ ScrollYs \subseteq 0 .. 511

VARIABLES dot, line,        \* scanCycleNum, scanlineNum: the dot that is next
          next, active,     \* the scroll fields of the two loopy registers
          fineX,            \* scrollXFine
          rendering,        \* showBackground or showSprites
          leftmost,         \* showBackgroundLeftmost
          table,            \* backgroundPatternTable
          index,            \* nextNametableIndex: where it was read
          attribute,        \* nextAttributeIndex: where, and which bits
          lsb, msb,         \* the two pattern bytes: of which tile and row
          lower, upper,     \* the halves of the shift registers
          pixel             \* what the last dot has drawn

latches == <<index, attribute, lsb, msb>>
registers == <<next, active, fineX, rendering, leftmost, table>>

\* History, read by no action.  asked: the scroll the program has set, as the
\* end of the last line and the top of the last frame found it.  wanted: where
\* in the plane that puts the pixel of the last dot.  torn: the program has
\* set or used an address, or exchanged the pattern table, since the line's
\* fetch began.  overrun: the scroll was greater than 0 both across and down at some dot
\* between the fetch of the line's first two tiles and the line.
VARIABLES asked, wanted, torn, overrun

picture == <<dot, line, latches, lower, upper>>
history == <<asked, wanted, torn, overrun>>
vars == <<dot, line, registers, latches, lower, upper, pixel, history>>

-----------------------------------------------------------------------------
(***************************************************************************)
(* The plane of the four name tables, 64 by 60 tiles.                      *)
(***************************************************************************)
Invalid == [x |-> -1, y |-> -1]

\* NameTables::Redirect, for an offset into the four tables.
Redirect(offset) ==
  IF Vertical THEN IF offset >= 2048 THEN offset - 2048 ELSE offset
  ELSE IF offset \in 1024 .. 2047 \/ offset >= 3072 THEN offset - 1024 ELSE offset

\* LocalFromGlobalPos, which throws for a tile that is not in the plane.
InPlane(tile) == tile.x \in 0 .. 63 /\ tile.y \in 0 .. 59

LocalFromGlobalPos(tile) ==
  [table |-> (IF tile.x >= 32 THEN 1 ELSE 0) + (IF tile.y >= 30 THEN 2 ELSE 0),
   x |-> tile.x % 32, y |-> tile.y % 30]

GetPatternIndex(tile) ==
  LET pos == LocalFromGlobalPos(tile)
  IN Redirect(1024 * pos.table + 32 * pos.y + pos.x)

\* The attribute byte of a square of four by four tiles, and the bits of it
\* that stand for the tile's quarter.
GetPaletteIndex(tile) ==
  LET pos == LocalFromGlobalPos(tile)
  IN [area |-> Redirect(960 + 1024 * pos.table + 8 * (pos.y \div 4) + (pos.x \div 4)),
      bit  |-> (IF pos.y % 4 >= 2 THEN 4 ELSE 0) + (IF pos.x % 4 >= 2 THEN 2 ELSE 0)]

CalcBgrFetchTile(point) ==
  IF point.x < 0 THEN Invalid ELSE [x |-> point.x \div TILE, y |-> point.y \div TILE]

-----------------------------------------------------------------------------
ScrollX(a, fine) == a.x + fine
Coarse(s) == s - (s % TILE)

\* % of C++ leaves a negative number negative.
Wrap(n, size) == IF n < 0 THEN n ELSE n % size

AheadWindow(d, l) ==
  /\ l >= PRE_SCANLINE /\ l < LAST_VISIBLE_SCANLINE
  /\ d \in START_NEXT_SCANLINE_FETCHING_CYCLE .. LAST_NEXT_SCANLINE_FETCHING_CYCLE

LateWindowMutant(d, l) ==
  /\ l >= START_VISIBLE_SCANLINE /\ l <= LAST_VISIBLE_SCANLINE
  /\ d \in START_VISIBLE_CYCLE + 1 .. LAST_VISIBLE_FETCH_CYCLE

LineWindow(d, l) ==
  /\ l >= START_VISIBLE_SCANLINE /\ l <= LAST_VISIBLE_SCANLINE
  /\ d \in START_VISIBLE_CYCLE .. LAST_VISIBLE_FETCH_CYCLE

\* The pixel without the scroll: Invalid outside both windows.
ScreenPixel(d, l) ==
  IF AheadWindow(d, l)
  THEN [x |-> d - START_NEXT_SCANLINE_FETCHING_CYCLE, y |-> l - START_VISIBLE_SCANLINE + 1]
  ELSE IF LineWindow(d, l)
  THEN [x |-> d - START_VISIBLE_CYCLE + 2 * TILE, y |-> l - START_VISIBLE_SCANLINE]
  ELSE Invalid

\* The scroll is added to the -1 of Invalid as well.
CalcNextFetchPixel(d, l, a) ==
  LET screen == ScreenPixel(d, l)
  IN [x |-> Wrap(screen.x + ScrollX(a, fineX), nametablesWidth),
      y |-> Wrap(screen.y + a.y, nametablesHeight)]

-----------------------------------------------------------------------------
(***************************************************************************)
(* One dot: the scroll is copied, a quarter of a tile fetched, the         *)
(* registers shifted, a pixel drawn, in this order.                        *)
(***************************************************************************)
PictureLine == line \in PRE_SCANLINE .. LAST_VISIBLE_SCANLINE

LateTransferMutant ==
  [x |-> IF PictureLine /\ dot = START_NEXT_SCANLINE_FETCHING_CYCLE + 1 /\ rendering
         THEN next.x ELSE active.x,
   y |-> IF line = PRE_SCANLINE /\ dot = TRANSFER_SCROLLY_CYCLE /\ rendering
         THEN next.y ELSE active.y]

\* TransferScrollX after each line of the picture and the one before it,
\* TransferScrollY before the first.
Transferred ==
  [x |-> IF PictureLine /\ dot = TRANSFER_SCOLLX_CYCLE /\ rendering
         THEN next.x ELSE active.x,
   y |-> IF line = PRE_SCANLINE /\ dot = TRANSFER_SCROLLY_CYCLE /\ rendering
         THEN next.y ELSE active.y]

FetchPixel(back) == CalcNextFetchPixel(dot - back, line, Transferred)
FetchTile(back)  == CalcBgrFetchTile(FetchPixel(back))

\* The scroll makes valid pixels of most invalid ones.
Fetching(phase) == /\ dot % TILE = phase
                   /\ FetchPixel(0).x >= 0 /\ FetchPixel(0).y >= 0

\* What backgroundFetch or the name tables throw for.
FetchThrows == \/ Fetching(1) /\ ~InPlane(FetchTile(0))
               \/ Fetching(3) /\ ~InPlane(FetchTile(2))
               \/ Fetching(5) /\ FetchPixel(4).y < 0
               \/ Fetching(7) /\ FetchPixel(6).y < 0

TileRow(back) == [table |-> table, tile |-> index, row |-> FetchPixel(back).y % TILE]

Fetch ==
  /\ index' = IF Fetching(1) THEN GetPatternIndex(FetchTile(0)) ELSE index
  /\ attribute' = IF Fetching(3) THEN GetPaletteIndex(FetchTile(2)) ELSE attribute
  /\ lsb' = IF Fetching(5) THEN TileRow(4) ELSE lsb
  /\ msb' = IF Fetching(7) THEN TileRow(6) ELSE msb

Fetched == [lsb |-> lsb, msb |-> msb, attribute |-> attribute]

\* With the next tile's fetch the last one's goes into the upper half.
Shift == IF Fetching(1) THEN lower' = upper /\ upper' = Fetched
         ELSE UNCHANGED <<lower, upper>>

Nothing == [kind |-> "none"]

Visible == /\ line \in START_VISIBLE_SCANLINE .. LAST_VISIBLE_SCANLINE
           /\ dot \in START_VISIBLE_CYCLE .. LAST_VISIBLE_CYCLE

\* CalcBackgroundPixel: the shift registers at the fine part of the scroll.
CalcBackgroundPixel ==
  IF dot < END_OF_LEFT_MOST_TILE_CYCLE /\ ~leftmost
  THEN [kind |-> "backdrop", x |-> dot - START_VISIBLE_CYCLE]
  ELSE LET x == dot - START_VISIBLE_CYCLE
           bufferOffset == (x % TILE) + (ScrollX(Transferred, fineX) % TILE)
       IN [kind |-> "tile", x |-> x, offset |-> bufferOffset,
           half |-> IF bufferOffset < TILE THEN lower' ELSE upper']

\* Ppu::calcNextPosition.
NextPosition ==
  IF dot < LAST_CYCLE THEN dot' = dot + 1 /\ UNCHANGED line
  ELSE /\ dot' = 0
       /\ line' = IF line = LAST_SCANLINE THEN PRE_SCANLINE ELSE line + 1

Record ==
  /\ asked' = [x |-> IF PictureLine /\ dot = LAST_VISIBLE_CYCLE + 1 /\ rendering
                     THEN next.x ELSE asked.x,
               y |-> IF line = PRE_SCANLINE /\ dot = TRANSFER_SCROLLY_CYCLE /\ rendering
                     THEN next.y ELSE asked.y]
  /\ wanted' = IF Visible THEN [x |-> (dot - 1 + asked.x + fineX) % nametablesWidth,
                                y |-> (line + asked.y) % nametablesHeight]
               ELSE Invalid
  /\ torn' = (torn /\ dot # START_NEXT_SCANLINE_FETCHING_CYCLE)
  /\ overrun' = \/ overrun /\ dot # START_NEXT_SCANLINE_FETCHING_CYCLE
                \/ /\ dot > LAST_NEXT_SCANLINE_FETCHING_CYCLE
                   /\ asked.x + fineX > 0 /\ asked.y > 0

\* Ppu::Step, of what the background takes part in.
Step ==
  /\ ~FetchThrows
  /\ active' = Transferred
  /\ Fetch
  /\ Shift
  /\ pixel' = IF Visible THEN CalcBackgroundPixel ELSE Nothing
  /\ NextPosition
  /\ UNCHANGED <<next, fineX, rendering, leftmost, table>>
  /\ Record

-----------------------------------------------------------------------------
(***************************************************************************)
(* The program's registers, which it may write between any two dots.       *)
(***************************************************************************)
\* $2005 and the table bits of $2000: the fine part shows at once.
WriteScrollX(s) ==
  /\ next' = [next EXCEPT !.x = Coarse(s)]
  /\ fineX' = s % TILE
  /\ pixel' = Nothing
  /\ UNCHANGED <<picture, active, rendering, leftmost, table, history>>

WriteScrollY(s) ==
  /\ next' = [next EXCEPT !.y = s]
  /\ pixel' = Nothing
  /\ UNCHANGED <<picture, active, fineX, rendering, leftmost, table, history>>

\* The second half of $2006, which is a scroll as well: of the whole tiles.
WriteAddress(x, y) ==
  /\ next' = [x |-> Coarse(x), y |-> y]
  /\ active' = next'
  /\ pixel' = Nothing
  /\ asked' = next'
  /\ torn' = TRUE
  /\ UNCHANGED <<picture, fineX, rendering, leftmost, table, wanted, overrun>>

\* The other view of a loopy register, an address: LoopyRegister's fields.
AddressOf(a) == (a.x % 256) \div 8 + 32 * ((a.y % 256) \div 8)
                + 1024 * (a.x \div 256) + 2048 * (a.y \div 256) + 4096 * (a.y % 8)

ScrollOf(n) == [x |-> 256 * ((n \div 1024) % 2) + 8 * (n % 32),
                y |-> 256 * ((n \div 2048) % 2) + 8 * ((n \div 32) % 32) + ((n \div 4096) % 8)]

\* $2007, which moves the address, and so the scroll, by a tile or a row of them.
IncrementVRamAddress(amount) ==
  /\ active' = ScrollOf(AddressOf(active) + amount)
  /\ pixel' = Nothing
  /\ asked' = active'
  /\ torn' = TRUE
  /\ UNCHANGED <<picture, next, fineX, rendering, leftmost, table, wanted, overrun>>

\* $2001.
WriteMask(shown, left) ==
  /\ rendering' = shown
  /\ leftmost' = left
  /\ pixel' = Nothing
  /\ UNCHANGED <<picture, next, active, fineX, table, history>>

\* The bit of $2000 that selects the pattern table.
WriteTable(t) ==
  /\ table' = t
  /\ torn' = TRUE
  /\ pixel' = Nothing
  /\ UNCHANGED <<picture, next, active, fineX, rendering, leftmost, asked, wanted, overrun>>

ProgramWrite == \/ \E s \in ScrollXs : WriteScrollX(s)
                \/ \E s \in ScrollYs : WriteScrollY(s)
                \/ \E x \in ScrollXs, y \in ScrollYs : WriteAddress(x, y)
                \/ \E amount \in {1, 32} : IncrementVRamAddress(amount)
                \/ \E shown, left \in BOOLEAN : WriteMask(shown, left)
                \/ \E t \in 0 .. 1 : WriteTable(t)

-----------------------------------------------------------------------------
Origin  == [x |-> 0, y |-> 0]
NoBits  == [area |-> 0, bit |-> 0]
NoRow   == [table |-> 0, tile |-> 0, row |-> 0]
Empty   == [lsb |-> NoRow, msb |-> NoRow, attribute |-> NoBits]

\* PpuRegisters::PowerCycle.
Init ==
  /\ dot = 0 /\ line = PRE_SCANLINE
  /\ next = Origin /\ active = Origin /\ fineX = 0
  /\ rendering = FALSE /\ leftmost = FALSE /\ table = 0
  /\ index = 0 /\ attribute = NoBits /\ lsb = NoRow /\ msb = NoRow
  /\ lower = Empty /\ upper = Empty
  /\ pixel = Nothing
  /\ asked = Origin /\ wanted = Invalid /\ torn = FALSE /\ overrun = FALSE

Next == Step \/ ProgramWrite

Spec == Init /\ [][Next]_vars

-----------------------------------------------------------------------------
Offsets == 0 .. 4095
Rows == [table : 0 .. 1, tile : Offsets, row : 0 .. TILE - 1]
Quarters == [area : Offsets, bit : {0, 2, 4, 6}]
Tiles == [lsb : Rows, msb : Rows, attribute : Quarters]
Scrolls == [x : {8 * n : n \in 0 .. 63}, y : 0 .. 511]

PlaceTypes    == dot \in 0 .. LAST_CYCLE /\ line \in PRE_SCANLINE .. LAST_SCANLINE
RegisterTypes == /\ next \in Scrolls /\ active \in Scrolls /\ fineX \in 0 .. TILE - 1
                 /\ rendering \in BOOLEAN /\ leftmost \in BOOLEAN /\ table \in 0 .. 1
LatchTypes    == index \in Offsets /\ attribute \in Quarters /\ lsb \in Rows /\ msb \in Rows
ShiftTypes    == lower \in Tiles /\ upper \in Tiles
HistoryTypes  == asked \in Scrolls /\ torn \in BOOLEAN /\ overrun \in BOOLEAN

TypeOK == PlaceTypes /\ RegisterTypes /\ LatchTypes /\ ShiftTypes /\ HistoryTypes

\* A fetch never throws, whatever the program does to the scroll meanwhile: a
\* fetch outside the windows, which the scroll lets through, is of a tile in
\* the plane, and the later dots of a fetch lie in the same window as its
\* first (backgroundFetch and LocalFromGlobalPos; nothing catches what they
\* throw).
FetchIsValid == ~FetchThrows

\* The tile of the plane at a pixel, from the layout of the tables.
Screen(p)   == (p.x \div 256) + 2 * (p.y \div 240)
Memory(p)   == 1024 * (IF Vertical THEN Screen(p) % 2 ELSE 2 * (Screen(p) \div 2))
TileAt(p)   == Memory(p) + 32 * ((p.y % 240) \div 8) + ((p.x % 256) \div 8)
QuarterAt(p) == [area |-> Memory(p) + 960 + 8 * ((p.y % 240) \div 32) + (p.x % 256) \div 32,
                 bit  |-> 4 * (((p.y % 240) \div 16) % 2) + 2 * (((p.x % 256) \div 16) % 2)]

TilesDrawnBefore == pixel.x \div TILE + pixel.offset \div TILE

\* Each pixel of the background is the one that the program's scroll puts
\* there: both planes of its pattern and its palette come from the tile that
\* lies there, and from its row and column, though they have been fetched by
\* up to sixteen dots before, through a wrap of the plane or its mirrors, and
\* shifted in between.  What is excepted is a line in which the program sets an
\* address, uses it, or exchanges the table, and the first two tiles after an overrun:
\* where the scroll makes a valid pixel of the dots past the last window, the
\* code fetches and shifts at dot 337 once more than the two tiles it has, although
\* the comment in backgroundFetch has it "called between cycles 1-248 and 321-336".
PixelAsScrolled ==
  pixel.kind = "tile" /\ ~torn /\ (overrun => TilesDrawnBefore >= 2) =>
    LET row == [table |-> table, tile |-> TileAt(wanted), row |-> (wanted.y % 240) % TILE]
    IN /\ pixel.half = [lsb |-> row, msb |-> row, attribute |-> QuarterAt(wanted)]
       /\ pixel.offset % TILE = wanted.x % TILE
=============================================================================
