-------------------------- MODULE Background_proofs --------------------------
(***************************************************************************)
(* For a picture of any size, either mirroring and every scroll: a fetch   *)
(* of Background is of a tile in the plane, and each pixel is the one that *)
(* the program's scroll puts there.                                        *)
(***************************************************************************)
EXTENDS Background, TLAPS

-----------------------------------------------------------------------------
(* The plane.  64 tiles lie side by side, 32 of them in a table; 60 lie one *)
(* below the other, 30 in a table.                                          *)

\* What a position across is made of.
LEMMA Across ==
  ASSUME NEW x \in 0 .. 511
  PROVE  /\ x \div 8 \in 0 .. 63
         /\ x \div 256 = IF x \div 8 >= 32 THEN 1 ELSE 0
         /\ (x % 256) \div 8 = (x \div 8) % 32
         /\ (x % 256) \div 32 = ((x \div 8) % 32) \div 4
         /\ ((x % 256) \div 16) % 2 = IF ((x \div 8) % 32) % 4 >= 2 THEN 1 ELSE 0
<1>. DEFINE c == x \div 8
            f == x % 8
            h == IF c >= 32 THEN 1 ELSE 0
            w == c % 32
            a == w \div 4
            b == w % 4
            r == 8 * w + f
<1>1. c \in 0 .. 63 /\ f \in 0 .. 7 /\ x = 8 * c + f
  OBVIOUS
<1>2. h \in 0 .. 1 /\ w \in 0 .. 31 /\ c = 32 * h + w
  <2>. HIDE DEF c
  <2>. QED
    BY <1>1
<1>3. a \in 0 .. 7 /\ b \in 0 .. 3 /\ w = 4 * a + b
  <2>. HIDE DEF w
  <2>. QED
    BY <1>2
<1>4. r \in 0 .. 255 /\ x = 256 * h + r
  <2>. HIDE DEF c, f, h, w
  <2>. QED
    BY <1>1, <1>2
<1>5. x \div 256 = h /\ x % 256 = r
  <2>. HIDE DEF h, r
  <2>. QED
    BY <1>2, <1>4
<1>6. r \div 8 = w
  <2>. HIDE DEF w, f
  <2>. QED
    BY <1>1, <1>2
<1>7. r \div 32 = a
  <2>1. r = 32 * a + (8 * b + f) /\ 8 * b + f \in 0 .. 31
    <3>. HIDE DEF w, a, b, f
    <3>. QED
      BY <1>1, <1>3
  <2>. HIDE DEF r, a, b, f
  <2>. QED
    BY <1>1, <1>3, <2>1
<1>8. (r \div 16) % 2 = IF b >= 2 THEN 1 ELSE 0
  <2>. DEFINE u == IF b >= 2 THEN 1 ELSE 0
              d == 8 * (b - 2 * u) + f
  <2>1. u \in 0 .. 1 /\ d \in 0 .. 15 /\ r = 16 * (2 * a + u) + d
    <3>. HIDE DEF w, a, b, f
    <3>. QED
      BY <1>1, <1>3
  <2>2. r \div 16 = 2 * a + u
    <3>1. \A q \in Nat, i \in 0 .. 15 : (16 * q + i) \div 16 = q
      OBVIOUS
    <3>2. 2 * a + u \in Nat
      BY <1>3, <2>1
    <3>. HIDE DEF r, d, a, u
    <3>. QED
      BY <2>1, <3>1, <3>2
  <2>3. (2 * a + u) % 2 = u
    <3>. HIDE DEF a, u
    <3>. QED
      BY <1>3, <2>1
  <2>. QED
    BY <2>2, <2>3
<1>. QED
  <2>. HIDE DEF r
  <2>. QED
    BY <1>1, <1>5, <1>6, <1>7, <1>8

\* What a position down is made of.
LEMMA Down ==
  ASSUME NEW y \in 0 .. 479
  PROVE  /\ y \div 8 \in 0 .. 59
         /\ y \div 240 = IF y \div 8 >= 30 THEN 1 ELSE 0
         /\ (y % 240) \div 8 = (y \div 8) % 30
         /\ (y % 240) \div 32 = ((y \div 8) % 30) \div 4
         /\ ((y % 240) \div 16) % 2 = IF ((y \div 8) % 30) % 4 >= 2 THEN 1 ELSE 0
         /\ (y % 240) % 8 = y % 8
<1>. DEFINE e == y \div 8
            g == y % 8
            t == IF e >= 30 THEN 1 ELSE 0
            w == e % 30
            a == w \div 4
            b == w % 4
            r == 8 * w + g
<1>1. e \in 0 .. 59 /\ g \in 0 .. 7 /\ y = 8 * e + g
  OBVIOUS
<1>2. t \in 0 .. 1 /\ w \in 0 .. 29 /\ e = 30 * t + w
  <2>. HIDE DEF e
  <2>. QED
    BY <1>1
<1>3. a \in 0 .. 7 /\ b \in 0 .. 3 /\ w = 4 * a + b
  <2>. HIDE DEF w
  <2>. QED
    BY <1>2
<1>4. r \in 0 .. 239 /\ y = 240 * t + r
  <2>. HIDE DEF e, g, t, w
  <2>. QED
    BY <1>1, <1>2
<1>5. y \div 240 = t /\ y % 240 = r
  <2>. HIDE DEF t, r
  <2>. QED
    BY <1>2, <1>4
<1>6. r \div 8 = w /\ r % 8 = g
  <2>. HIDE DEF w, g
  <2>. QED
    BY <1>1, <1>2
<1>7. r \div 32 = a
  <2>1. r = 32 * a + (8 * b + g) /\ 8 * b + g \in 0 .. 31
    <3>. HIDE DEF w, a, b, g
    <3>. QED
      BY <1>1, <1>3
  <2>. HIDE DEF r, a, b, g
  <2>. QED
    BY <1>1, <1>3, <2>1
<1>8. (r \div 16) % 2 = IF b >= 2 THEN 1 ELSE 0
  <2>. DEFINE u == IF b >= 2 THEN 1 ELSE 0
              d == 8 * (b - 2 * u) + g
  <2>1. u \in 0 .. 1 /\ d \in 0 .. 15 /\ r = 16 * (2 * a + u) + d
    <3>. HIDE DEF w, a, b, g
    <3>. QED
      BY <1>1, <1>3
  <2>2. r \div 16 = 2 * a + u
    <3>1. \A q \in Nat, i \in 0 .. 15 : (16 * q + i) \div 16 = q
      OBVIOUS
    <3>2. 2 * a + u \in Nat
      BY <1>3, <2>1
    <3>. HIDE DEF r, d, a, u
    <3>. QED
      BY <2>1, <3>1, <3>2
  <2>3. (2 * a + u) % 2 = u
    <3>. HIDE DEF a, u
    <3>. QED
      BY <1>3, <2>1
  <2>. QED
    BY <2>2, <2>3
<1>. QED
  <2>. HIDE DEF r
  <2>. QED
    BY <1>1, <1>5, <1>6, <1>7, <1>8

\* Mirroring leaves of a table's number what tells two of them apart.
LEMMA RedirectAs ==
  ASSUME NEW h \in 0 .. 1, NEW t \in 0 .. 1, NEW o \in 0 .. 1023
  PROVE  Redirect(1024 * (h + 2 * t) + o) = 1024 * (IF Vertical THEN h ELSE 2 * t) + o
<1>1. CASE h = 0 /\ t = 0
  BY <1>1 DEF Redirect
<1>2. CASE h = 1 /\ t = 0
  BY <1>2 DEF Redirect
<1>3. CASE h = 0 /\ t = 1
  BY <1>3 DEF Redirect
<1>4. CASE h = 1 /\ t = 1
  BY <1>4 DEF Redirect
<1>. QED
  BY <1>1, <1>2, <1>3, <1>4

\* The code finds the tile by its column and row, the properties by a pixel.
LEMMA TileAndOffset ==
  ASSUME NEW x \in 0 .. 511, NEW y \in 0 .. 479
  PROVE  /\ InPlane([x |-> x \div 8, y |-> y \div 8])
         /\ GetPatternIndex([x |-> x \div 8, y |-> y \div 8]) = TileAt([x |-> x, y |-> y])
         /\ GetPaletteIndex([x |-> x \div 8, y |-> y \div 8]) = QuarterAt([x |-> x, y |-> y])
         /\ TileAt([x |-> x, y |-> y]) \in Offsets
         /\ QuarterAt([x |-> x, y |-> y]) \in Quarters
<1>. DEFINE p    == [x |-> x, y |-> y]
            c    == x \div 8
            tile == [x |-> c, y |-> y \div 8]
            h == IF c >= 32 THEN 1 ELSE 0
            t == IF y \div 8 >= 30 THEN 1 ELSE 0
            v == c % 32
            w == (y \div 8) % 30
            m == 1024 * (IF Vertical THEN h ELSE 2 * t)
<1>1. /\ y \div 8 \in 0 .. 59 /\ h \in 0 .. 1 /\ t \in 0 .. 1 /\ v \in 0 .. 31 /\ w \in 0 .. 29
      /\ v \div 4 \in 0 .. 7 /\ w \div 4 \in 0 .. 7
  <2>1. y \div 8 \in 0 .. 59 /\ h \in 0 .. 1 /\ t \in 0 .. 1 /\ v \in 0 .. 31
    BY Down
  <2>2. w \in 0 .. 29
    BY <2>1
  <2>. HIDE DEF v, w
  <2>. QED
    BY <2>1, <2>2
<1>2. m \in 0 .. 3072 /\ m + 1023 \in 0 .. 4095
  <2>. HIDE DEF h, t
  <2>. QED
    BY <1>1
<1>3. LocalFromGlobalPos(tile) = [table |-> h + 2 * t, x |-> v, y |-> w]
  BY DEF LocalFromGlobalPos
<1>4. Memory(p) = m
  <2>1. Screen(p) = h + 2 * t
    BY Across, Down DEF Screen
  <2>2. (h + 2 * t) % 2 = h /\ (h + 2 * t) \div 2 = t
    <3>. HIDE DEF h, t
    <3>. QED
      BY <1>1
  <2>. QED
    BY <2>1, <2>2 DEF Memory
<1>5. GetPatternIndex(tile) = m + (32 * w + v)
  <2>1. 32 * w + v \in 0 .. 1023
    <3>. HIDE DEF v, w
    <3>. QED
      BY <1>1
  <2>2. GetPatternIndex(tile) = Redirect(1024 * (h + 2 * t) + (32 * w + v))
    <3>1. GetPatternIndex(tile) = Redirect(1024 * (h + 2 * t) + 32 * w + v)
      <4>. HIDE DEF tile, h, t, v, w
      <4>. QED
        BY <1>3 DEF GetPatternIndex
    <3>2. 1024 * (h + 2 * t) + 32 * w + v = 1024 * (h + 2 * t) + (32 * w + v)
      <4>. HIDE DEF h, t, v, w
      <4>. QED
        BY <1>1
    <3>. QED
      BY <3>1, <3>2
  <2>. DEFINE o == 32 * w + v
  <2>3. Redirect(1024 * (h + 2 * t) + o) = m + o
    <3>1. o \in 0 .. 1023
      BY <2>1
    <3>. HIDE DEF o, h, t
    <3>. QED
      BY <1>1, <3>1, RedirectAs
  <2>. QED
    BY <2>2, <2>3
<1>6. TileAt(p) = m + (32 * w + v)
  <2>1. TileAt(p) = m + 32 * w + v
    BY <1>4, Across, Down DEF TileAt
  <2>. HIDE DEF m, v, w
  <2>. QED
    BY <1>1, <1>2, <2>1
<1>7. TileAt(p) \in Offsets
  <2>. HIDE DEF m, v, w
  <2>. QED
    BY <1>1, <1>2, <1>6 DEF Offsets
<1>. DEFINE area == m + (960 + 8 * (w \div 4) + (v \div 4))
            bit  == (IF w % 4 >= 2 THEN 4 ELSE 0) + (IF v % 4 >= 2 THEN 2 ELSE 0)
<1>8. GetPaletteIndex(tile) = [area |-> area, bit |-> bit]
  <2>. DEFINE o == 960 + 8 * (w \div 4) + (v \div 4)
              i == w \div 4
              j == v \div 4
  <2>1. o \in 0 .. 1023
    <3>1. i \in 0 .. 7 /\ j \in 0 .. 7 /\ o = 960 + 8 * i + j
      BY <1>1
    <3>. HIDE DEF i, j, o
    <3>. QED
      BY <3>1
  <2>2. 960 + 1024 * (h + 2 * t) + 8 * i + j = 1024 * (h + 2 * t) + o
    <3>1. i \in 0 .. 7 /\ j \in 0 .. 7 /\ o = 960 + 8 * i + j
      BY <1>1
    <3>. HIDE DEF i, j, o, h, t
    <3>. QED
      BY <1>1, <3>1
  <2>3. Redirect(1024 * (h + 2 * t) + o) = m + o
    <3>. HIDE DEF o, h, t
    <3>. QED
      BY <1>1, <2>1, RedirectAs
  <2>4. GetPaletteIndex(tile) = [area |-> Redirect(960 + 1024 * (h + 2 * t) + 8 * i + j),
                                 bit  |-> bit]
    BY <1>3 DEF GetPaletteIndex
  <2>. QED
    BY <2>2, <2>3, <2>4
<1>9. QuarterAt(p) = [area |-> area, bit |-> bit]
  <2>1. QuarterAt(p) = [area |-> m + 960 + 8 * (w \div 4) + (v \div 4),
                        bit  |-> 4 * (IF w % 4 >= 2 THEN 1 ELSE 0)
                                 + 2 * (IF v % 4 >= 2 THEN 1 ELSE 0)]
    <3>1. /\ (p.y % 240) \div 32 = w \div 4 /\ (p.x % 256) \div 32 = v \div 4
          /\ ((p.y % 240) \div 16) % 2 = IF w % 4 >= 2 THEN 1 ELSE 0
          /\ ((p.x % 256) \div 16) % 2 = IF v % 4 >= 2 THEN 1 ELSE 0
      BY Across, Down
    <3>. HIDE DEF p, m, v, w
    <3>. QED
      BY <1>4, <3>1 DEF QuarterAt
  <2>2. m + 960 + 8 * (w \div 4) + (v \div 4) = area
    <3>. DEFINE i == w \div 4
                j == v \div 4
    <3>1. i \in 0 .. 7 /\ j \in 0 .. 7
      BY <1>1
    <3>2. m + 960 + 8 * i + j = m + (960 + 8 * i + j)
      <4>. HIDE DEF i, j, m
      <4>. QED
        BY <1>2, <3>1
    <3>. QED
      BY <3>2
  <2>3. 4 * (IF w % 4 >= 2 THEN 1 ELSE 0) + 2 * (IF v % 4 >= 2 THEN 1 ELSE 0) = bit
    OBVIOUS
  <2>. QED
    BY <2>1, <2>2, <2>3
<1>10. QuarterAt(p) \in Quarters
  <2>1. area \in 0 .. 4095
    <3>. DEFINE i == w \div 4
                j == v \div 4
    <3>1. i \in 0 .. 7 /\ j \in 0 .. 7 /\ area = m + (960 + 8 * i + j)
      BY <1>1
    <3>. HIDE DEF i, j, m, area
    <3>. QED
      BY <1>2, <3>1
  <2>2. bit \in {0, 2, 4, 6}
    OBVIOUS
  <2>. HIDE DEF p, area, bit
  <2>. QED
    BY <1>9, <2>1, <2>2 DEF Quarters, Offsets
<1>11. InPlane(tile)
  BY <1>1, Across DEF InPlane
<1>. HIDE DEF p, tile, m, area, bit, v, w
<1>12. /\ InPlane(tile)
       /\ GetPatternIndex(tile) = TileAt(p) /\ TileAt(p) \in Offsets
       /\ GetPaletteIndex(tile) = QuarterAt(p) /\ QuarterAt(p) \in Quarters
  BY <1>5, <1>6, <1>7, <1>8, <1>9, <1>10, <1>11
<1>. QED
  BY <1>12 DEF p, tile

-----------------------------------------------------------------------------
(* Where a fetch is.                                                        *)

\* The first dot of the first fetch for the next line.
FIRST == START_NEXT_SCANLINE_FETCHING_CYCLE

LEMMA Sizes ==
  /\ {LAST_VISIBLE_CYCLE, LAST_VISIBLE_SCANLINE, LAST_SCANLINE, TRANSFER_SCOLLX_CYCLE,
      TRANSFER_SCROLLY_CYCLE, FIRST} \subseteq Int
  /\ LAST_VISIBLE_CYCLE >= 16 /\ LAST_VISIBLE_SCANLINE >= 0
  /\ LAST_SCANLINE > LAST_VISIBLE_SCANLINE
  /\ LAST_VISIBLE_CYCLE % 8 = 0 /\ FIRST % 8 = 1
  /\ LAST_VISIBLE_FETCH_CYCLE = LAST_VISIBLE_CYCLE - 7
  /\ TRANSFER_SCOLLX_CYCLE = LAST_VISIBLE_CYCLE + 1
  /\ TRANSFER_SCROLLY_CYCLE > LAST_VISIBLE_CYCLE + 1
  /\ FIRST > TRANSFER_SCROLLY_CYCLE
  /\ LAST_NEXT_SCANLINE_FETCHING_CYCLE = FIRST + 15 /\ LAST_CYCLE = FIRST + 19
<1>1. /\ LAST_VISIBLE_CYCLE \in Int /\ LAST_VISIBLE_SCANLINE \in Int /\ LAST_SCANLINE \in Int
      /\ TRANSFER_SCROLLY_CYCLE \in Int /\ FIRST \in Int
  BY PictureAssumption DEF FIRST
<1>2. TRANSFER_SCOLLX_CYCLE \in Int
  BY <1>1, PictureAssumption
<1>. QED
  BY <1>1, <1>2, PictureAssumption DEF TILE, FIRST

\* Tile k of line l, counted on the screen, lies here in the plane if the
\* scroll is a.
Place(a, k, l) == [x |-> (TILE * k + a.x) % nametablesWidth,
                   y |-> (l + a.y) % nametablesHeight]

Column(a, k) == (k + (a.x \div TILE)) % 64

\* A scroll by whole tiles moves tiles to tiles, and the pixels in them along.
LEMMA Moved ==
  ASSUME NEW a \in Scrolls, NEW k \in Nat, NEW f \in 0 .. 7
  PROVE  /\ Column(a, k) \in 0 .. 63
         /\ (8 * k + a.x + f) % 512 = 8 * Column(a, k) + f
<1>1. PICK n \in 0 .. 63 : a.x = 8 * n
  BY DEF Scrolls
<1>. DEFINE c == (k + n) % 64
            q == (k + n) \div 64
<1>2. c \in 0 .. 63 /\ q \in Int /\ k + n = 64 * q + c
  OBVIOUS
<1>3. Column(a, k) = c
  <2>1. (8 * n) \div 8 = n
    OBVIOUS
  <2>. QED
    BY <1>1, <2>1 DEF Column, TILE
<1>4. (8 * k + a.x + f) % 512 = 8 * c + f
  <2>. HIDE DEF c, q
  <2>1. 8 * k + a.x + f = 512 * q + (8 * c + f) /\ 8 * c + f \in 0 .. 511
    BY <1>1, <1>2
  <2>2. \A i \in Int, j \in 0 .. 511 : (512 * i + j) % 512 = j
    OBVIOUS
  <2>. QED
    BY <1>2, <2>1, <2>2
<1>. HIDE DEF c
<1>. QED
  BY <1>2, <1>3, <1>4

LEMMA PlaceOfTile ==
  ASSUME NEW a \in Scrolls, NEW k \in Nat, NEW l \in Nat
  PROVE  /\ Place(a, k, l) = [x |-> 8 * Column(a, k), y |-> (l + a.y) % 480]
         /\ 8 * Column(a, k) \in 0 .. 511 /\ (8 * Column(a, k)) \div 8 = Column(a, k)
         /\ (l + a.y) % 480 \in 0 .. 479
<1>1. 0 \in 0 .. 7
  OBVIOUS
<1>2. Column(a, k) \in 0 .. 63 /\ (8 * k + a.x + 0) % 512 = 8 * Column(a, k) + 0
  BY <1>1, Moved
<1>3. a.x \in Nat /\ a.y \in Nat
  BY DEF Scrolls
<1>4. Place(a, k, l) = [x |-> 8 * Column(a, k), y |-> (l + a.y) % 480]
  BY <1>2, <1>3 DEF Place, TILE, nametablesWidth, nametablesHeight
<1>5. (l + a.y) % 480 \in 0 .. 479
  <2>1. \A i \in Nat : i % 480 \in 0 .. 479
    OBVIOUS
  <2>. QED
    BY <1>3, <2>1
<1>. QED
  BY <1>2, <1>4, <1>5

\* A pixel on the screen is one in the plane.
LEMMA OnScreen ==
  ASSUME NEW a \in Scrolls, fineX \in 0 .. 7, NEW d, NEW n, NEW m \in Nat, NEW l \in Nat,
         ScreenPixel(d, n) = [x |-> m, y |-> l]
  PROVE  CalcNextFetchPixel(d, n, a) = [x |-> (m + a.x + fineX) % 512, y |-> (l + a.y) % 480]
<1>1. a.x \in Nat /\ a.y \in Nat
  BY DEF Scrolls
<1>. DEFINE i == m + a.x + fineX
            j == l + a.y
<1>2. m + (a.x + fineX) = i /\ ~(i < 0) /\ ~(j < 0)
  BY <1>1
<1>3. CalcNextFetchPixel(d, n, a) = [x |-> Wrap(i, 512), y |-> Wrap(j, 480)]
  BY <1>2 DEF CalcNextFetchPixel, ScrollX, nametablesWidth, nametablesHeight
<1>4. Wrap(i, 512) = i % 512 /\ Wrap(j, 480) = j % 480
  BY <1>2 DEF Wrap
<1>. QED
  BY <1>3, <1>4

\* The first dot of a tile's fetch finds the tile and its row, whatever the
\* fine part of the scroll.
LEMMA AtTile ==
  ASSUME NEW a \in Scrolls, fineX \in 0 .. 7, NEW d, NEW n, NEW k \in Nat, NEW l \in Nat,
         ScreenPixel(d, n) = [x |-> 8 * k, y |-> l]
  PROVE  LET pixelAt == CalcNextFetchPixel(d, n, a)
             tile    == CalcBgrFetchTile(pixelAt)
             p       == Place(a, k, l)
         IN /\ pixelAt.x >= 0 /\ pixelAt.y >= 0 /\ InPlane(tile)
            /\ GetPatternIndex(tile) = TileAt(p) /\ GetPaletteIndex(tile) = QuarterAt(p)
            /\ pixelAt.y % TILE = (p.y % 240) % TILE
<1>. DEFINE pixelAt == CalcNextFetchPixel(d, n, a)
            tile    == CalcBgrFetchTile(pixelAt)
            p       == Place(a, k, l)
            c       == Column(a, k)
            y       == (l + a.y) % 480
<1>1. c \in 0 .. 63 /\ y \in 0 .. 479
  BY Moved, PlaceOfTile
<1>2. p = [x |-> 8 * c, y |-> y] /\ 8 * c \in 0 .. 511 /\ (8 * c) \div 8 = c
  BY PlaceOfTile
<1>3. pixelAt = [x |-> 8 * c + fineX, y |-> y]
  <2>1. 8 * k \in Nat
    OBVIOUS
  <2>2. pixelAt = [x |-> (8 * k + a.x + fineX) % 512, y |-> y]
    BY <2>1, OnScreen
  <2>. QED
    BY <2>2, Moved
<1>. HIDE DEF c, y
<1>4. 8 * c + fineX >= 0 /\ (8 * c + fineX) \div 8 = c
  BY <1>1
<1>5. tile = [x |-> c, y |-> y \div 8]
  <2>. DEFINE z == 8 * c + fineX
  <2>1. ~(z < 0) /\ z \div 8 = c /\ pixelAt = [x |-> z, y |-> y]
    BY <1>1, <1>3, <1>4
  <2>. HIDE DEF z, pixelAt
  <2>. QED
    BY <2>1 DEF CalcBgrFetchTile, TILE
<1>6. /\ InPlane(tile)
      /\ GetPatternIndex(tile) = TileAt(p) /\ GetPaletteIndex(tile) = QuarterAt(p)
  <2>. DEFINE z == 8 * c
  <2>1. z \in 0 .. 511 /\ z \div 8 = c /\ p = [x |-> z, y |-> y]
    BY <1>2
  <2>. HIDE DEF z
  <2>2. /\ InPlane([x |-> z \div 8, y |-> y \div 8])
        /\ GetPatternIndex([x |-> z \div 8, y |-> y \div 8]) = TileAt([x |-> z, y |-> y])
        /\ GetPaletteIndex([x |-> z \div 8, y |-> y \div 8]) = QuarterAt([x |-> z, y |-> y])
    BY <1>1, <2>1, TileAndOffset, Zenon
  <2>. QED
    BY <1>5, <2>1, <2>2
<1>7. pixelAt.y % TILE = (p.y % 240) % TILE
  <2>1. (y % 240) % 8 = y % 8
    BY <1>1, Down
  <2>. QED
    BY <1>2, <1>3, <2>1 DEF TILE
<1>8. pixelAt.x >= 0 /\ pixelAt.y >= 0
  BY <1>1, <1>3, <1>4
<1>. HIDE DEF pixelAt, tile, p
<1>9. /\ pixelAt.x >= 0 /\ pixelAt.y >= 0 /\ InPlane(tile)
      /\ GetPatternIndex(tile) = TileAt(p) /\ GetPaletteIndex(tile) = QuarterAt(p)
      /\ pixelAt.y % TILE = (p.y % 240) % TILE
  BY <1>6, <1>7, <1>8
<1>. QED
  BY <1>9 DEF pixelAt, tile, p

\* Of the same tile and row, a pixel has the same bytes.
LEMMA SameTile ==
  ASSUME NEW x \in 0 .. 511, NEW z \in 0 .. 511, NEW y \in 0 .. 479, x \div 8 = z \div 8
  PROVE  /\ TileAt([x |-> x, y |-> y]) = TileAt([x |-> z, y |-> y])
         /\ QuarterAt([x |-> x, y |-> y]) = QuarterAt([x |-> z, y |-> y])
<1>1. /\ GetPatternIndex([x |-> x \div 8, y |-> y \div 8]) = TileAt([x |-> x, y |-> y])
      /\ GetPaletteIndex([x |-> x \div 8, y |-> y \div 8]) = QuarterAt([x |-> x, y |-> y])
  BY TileAndOffset, Zenon
<1>2. /\ GetPatternIndex([x |-> z \div 8, y |-> y \div 8]) = TileAt([x |-> z, y |-> y])
      /\ GetPaletteIndex([x |-> z \div 8, y |-> y \div 8]) = QuarterAt([x |-> z, y |-> y])
  BY TileAndOffset, Zenon
<1>. QED
  BY <1>1, <1>2

\* A valid pixel is one of the plane.
LEMMA ValidPixel ==
  ASSUME NEW a \in Scrolls, fineX \in 0 .. 7, NEW d, NEW n,
         ScreenPixel(d, n).x \in Int, ScreenPixel(d, n).y \in Int,
         CalcNextFetchPixel(d, n, a).x >= 0, CalcNextFetchPixel(d, n, a).y >= 0
  PROVE  /\ CalcNextFetchPixel(d, n, a).x \in 0 .. 511
         /\ CalcNextFetchPixel(d, n, a).y \in 0 .. 479
         /\ InPlane(CalcBgrFetchTile(CalcNextFetchPixel(d, n, a)))
<1>. DEFINE p == CalcNextFetchPixel(d, n, a)
            i == ScreenPixel(d, n).x + (a.x + fineX)
            j == ScreenPixel(d, n).y + a.y
<1>1. i \in Int /\ j \in Int
  BY DEF Scrolls
<1>2. p = [x |-> Wrap(i, 512), y |-> Wrap(j, 480)]
  BY DEF CalcNextFetchPixel, ScrollX, nametablesWidth, nametablesHeight
<1>. HIDE DEF i, j
<1>3. p.x = Wrap(i, 512) /\ p.y = Wrap(j, 480)
  BY <1>2
<1>4. p.x \in 0 .. 511
  <2>1. \A r \in Nat : r % 512 \in 0 .. 511
    OBVIOUS
  <2>2. i < 0 => Wrap(i, 512) = i
    BY DEF Wrap
  <2>3. i >= 0 => Wrap(i, 512) = i % 512
    BY <1>1 DEF Wrap
  <2>. QED
    BY <1>1, <1>3, <2>1, <2>2, <2>3
<1>5. p.y \in 0 .. 479
  <2>1. \A r \in Nat : r % 480 \in 0 .. 479
    OBVIOUS
  <2>2. j < 0 => Wrap(j, 480) = j
    BY DEF Wrap
  <2>3. j >= 0 => Wrap(j, 480) = j % 480
    BY <1>1 DEF Wrap
  <2>. QED
    BY <1>1, <1>3, <2>1, <2>2, <2>3
<1>. HIDE DEF p
<1>6. InPlane(CalcBgrFetchTile(p))
  <2>1. p.x \div 8 \in 0 .. 63 /\ p.y \div 8 \in 0 .. 59
    BY <1>4, <1>5
  <2>2. CalcBgrFetchTile(p) = [x |-> p.x \div 8, y |-> p.y \div 8]
    BY <1>4 DEF CalcBgrFetchTile, TILE
  <2>. QED
    BY <2>1, <2>2 DEF InPlane
<1>. QED
  BY <1>4, <1>5, <1>6 DEF p

\* The two windows.
LEMMA Windows ==
  ASSUME NEW d \in Int, NEW n \in Int
  PROVE  /\ AheadWindow(d, n) <=> /\ -1 <= n /\ n < LAST_VISIBLE_SCANLINE
                                  /\ FIRST <= d /\ d <= FIRST + 15
         /\ LineWindow(d, n) <=> /\ 0 <= n /\ n <= LAST_VISIBLE_SCANLINE
                                 /\ 1 <= d /\ d <= LAST_VISIBLE_CYCLE - 7
         /\ AheadWindow(d, n) => ScreenPixel(d, n) = [x |-> d - FIRST, y |-> n + 1]
         /\ LineWindow(d, n) => ScreenPixel(d, n) = [x |-> d + 15, y |-> n]
         /\ ~AheadWindow(d, n) /\ ~LineWindow(d, n) => ScreenPixel(d, n) = Invalid
<1>1. AheadWindow(d, n) <=> /\ -1 <= n /\ n < LAST_VISIBLE_SCANLINE
                            /\ FIRST <= d /\ d <= FIRST + 15
  BY Sizes DEF AheadWindow, PRE_SCANLINE, FIRST
<1>2. LineWindow(d, n) <=> /\ 0 <= n /\ n <= LAST_VISIBLE_SCANLINE
                           /\ 1 <= d /\ d <= LAST_VISIBLE_CYCLE - 7
  BY Sizes DEF LineWindow, START_VISIBLE_SCANLINE, START_VISIBLE_CYCLE
<1>3. ~(AheadWindow(d, n) /\ LineWindow(d, n))
  BY <1>1, <1>2, Sizes
<1>4. AheadWindow(d, n) => ScreenPixel(d, n) = [x |-> d - FIRST, y |-> n + 1]
  <2>1. n - 0 + 1 = n + 1
    OBVIOUS
  <2>. QED
    BY <2>1 DEF ScreenPixel, START_VISIBLE_SCANLINE, FIRST
<1>5. LineWindow(d, n) => ScreenPixel(d, n) = [x |-> d + 15, y |-> n]
  <2>1. d - 1 + 2 * 8 = d + 15 /\ n - 0 = n
    OBVIOUS
  <2>. QED
    BY <1>3, <2>1 DEF ScreenPixel, START_VISIBLE_SCANLINE, START_VISIBLE_CYCLE, TILE
<1>6. ~AheadWindow(d, n) /\ ~LineWindow(d, n) => ScreenPixel(d, n) = Invalid
  BY DEF ScreenPixel
<1>. QED
  BY <1>1, <1>2, <1>4, <1>5, <1>6

LEMMA AheadPixel ==
  ASSUME NEW d \in Int, NEW n \in -1 .. LAST_VISIBLE_SCANLINE - 1,
         FIRST <= d, d <= FIRST + 15
  PROVE  ScreenPixel(d, n) = [x |-> d - FIRST, y |-> n + 1]
<1>1. n \in Int /\ -1 <= n /\ n < LAST_VISIBLE_SCANLINE
  BY Sizes
<1>2. AheadWindow(d, n)
  BY <1>1, Windows
<1>. QED
  BY <1>1, <1>2, Windows

LEMMA LinePixel ==
  ASSUME NEW d \in Int, NEW n \in 0 .. LAST_VISIBLE_SCANLINE,
         1 <= d, d <= LAST_VISIBLE_CYCLE - 7
  PROVE  ScreenPixel(d, n) = [x |-> d + 15, y |-> n]
<1>1. n \in Int /\ 0 <= n /\ n <= LAST_VISIBLE_SCANLINE
  BY Sizes
<1>2. LineWindow(d, n)
  BY <1>1, Windows
<1>. QED
  BY <1>1, <1>2, Windows

\* The first dot of a fetch is in the window of its later ones.
LEMMA FirstDotInWindow ==
  ASSUME NEW d \in Nat, NEW n \in Int, NEW b \in 0 .. 6, d % 8 = b + 1
  PROVE  \/ AheadWindow(d - b, n) \/ LineWindow(d - b, n)
         \/ ScreenPixel(d - b, n) = ScreenPixel(d, n)
<1>. DEFINE i == d \div 8
            j == FIRST \div 8
<1>1. i \in Nat /\ d = 8 * i + b + 1 /\ j \in Int /\ FIRST = 8 * j + 1 /\ FIRST \in Int
  <2>1. FIRST \in Int /\ FIRST % 8 = 1
    BY Sizes
  <2>2. d = 8 * i + (d % 8) /\ i \in Nat
    OBVIOUS
  <2>3. FIRST = 8 * j + (FIRST % 8) /\ j \in Int
    BY <2>1
  <2>. QED
    BY <2>1, <2>2, <2>3
<1>. HIDE DEF i, j
<1>2. d >= FIRST => d - b >= FIRST
  BY <1>1
<1>3. d - b >= 1 /\ d - b <= d /\ d - b \in Int
  BY <1>1
<1>4. AheadWindow(d, n) => AheadWindow(d - b, n)
  BY <1>1, <1>2, <1>3, Windows
<1>5. LineWindow(d, n) => LineWindow(d - b, n)
  BY <1>3, Windows, Sizes
<1>6. /\ ~AheadWindow(d, n) /\ ~LineWindow(d, n) => ScreenPixel(d, n) = Invalid
      /\ ~AheadWindow(d - b, n) /\ ~LineWindow(d - b, n) => ScreenPixel(d - b, n) = Invalid
  BY <1>3, Windows
<1>. QED
  BY <1>4, <1>5, <1>6

\* The scroll that a dot's fetch uses.
LEMMA TransferredScroll ==
  ASSUME RegisterTypes
  PROVE  Transferred \in Scrolls
  BY DEF RegisterTypes, Transferred, Scrolls

\* A dot whose own pixel is valid has a valid pixel at its fetch's first dot.
LEMMA FetchStaysValid ==
  ASSUME PlaceTypes, RegisterTypes, NEW b \in 0 .. 6, dot % 8 = b + 1,
         FetchPixel(0).x >= 0, FetchPixel(0).y >= 0
  PROVE  /\ FetchPixel(b).x \in 0 .. 511 /\ FetchPixel(b).y \in 0 .. 479
         /\ InPlane(FetchTile(b))
<1>1. /\ dot \in Nat /\ dot - b \in Int /\ line \in Int /\ dot - 0 = dot
      /\ fineX \in 0 .. 7 /\ Transferred \in Scrolls
  BY TransferredScroll, Sizes DEF PlaceTypes, RegisterTypes, PRE_SCANLINE, TILE
<1>2. ScreenPixel(dot - b, line).x \in Int /\ ScreenPixel(dot - b, line).y \in Int
  <2>1. CASE AheadWindow(dot - b, line)
    <3>1. ScreenPixel(dot - b, line) = [x |-> dot - b - FIRST, y |-> line + 1]
      BY <1>1, <2>1, Windows
    <3>. QED
      BY <1>1, <3>1, Sizes
  <2>2. CASE LineWindow(dot - b, line)
    <3>1. ScreenPixel(dot - b, line) = [x |-> dot - b + 15, y |-> line]
      BY <1>1, <2>2, Windows
    <3>. QED
      BY <1>1, <3>1
  <2>3. CASE ~AheadWindow(dot - b, line) /\ ~LineWindow(dot - b, line)
    <3>1. ScreenPixel(dot - b, line) = Invalid
      BY <1>1, <2>3, Windows
    <3>. QED
      BY <3>1 DEF Invalid
  <2>. QED
    BY <2>1, <2>2, <2>3
<1>3. FetchPixel(b).x >= 0 /\ FetchPixel(b).y >= 0
  <2>1. CASE AheadWindow(dot - b, line) \/ LineWindow(dot - b, line)
    <3>1. PICK m \in Nat, l \in Nat : ScreenPixel(dot - b, line) = [x |-> m, y |-> l]
      <4>1. CASE AheadWindow(dot - b, line)
        <5>1. /\ dot - b - FIRST \in Nat /\ line + 1 \in Nat
              /\ ScreenPixel(dot - b, line) = [x |-> dot - b - FIRST, y |-> line + 1]
          BY <1>1, <4>1, Windows, Sizes
        <5>. QED
          BY <5>1
      <4>2. CASE LineWindow(dot - b, line)
        <5>1. /\ dot - b + 15 \in Nat /\ line \in Nat
              /\ ScreenPixel(dot - b, line) = [x |-> dot - b + 15, y |-> line]
          BY <1>1, <4>2, Windows, Sizes
        <5>. QED
          BY <5>1
      <4>. QED
        BY <2>1, <4>1, <4>2
    <3>2. FetchPixel(b) = [x |-> (m + Transferred.x + fineX) % 512,
                           y |-> (l + Transferred.y) % 480]
      BY <1>1, <3>1, OnScreen DEF FetchPixel
    <3>3. m + Transferred.x + fineX \in Nat /\ l + Transferred.y \in Nat
      BY <1>1 DEF Scrolls
    <3>4. \A i \in Nat : i % 512 >= 0 /\ i % 480 >= 0
      OBVIOUS
    <3>. QED
      BY <3>2, <3>3, <3>4
  <2>2. CASE ScreenPixel(dot - b, line) = ScreenPixel(dot, line)
    BY <1>1, <2>2 DEF FetchPixel, CalcNextFetchPixel
  <2>. QED
    BY <1>1, <2>1, <2>2, FirstDotInWindow
<1>. QED
  BY <1>1, <1>2, <1>3, ValidPixel DEF FetchPixel, FetchTile

LEMMA FetchIsValidFromTypes == TypeOK => FetchIsValid
<1>. SUFFICES ASSUME TypeOK PROVE ~FetchThrows
  BY DEF FetchIsValid
<1>1. PlaceTypes /\ RegisterTypes
  BY DEF TypeOK
<1>2. ~(Fetching(1) /\ ~InPlane(FetchTile(0)))
  BY <1>1, FetchStaysValid DEF Fetching, TILE
<1>3. ~(Fetching(3) /\ ~InPlane(FetchTile(2)))
  BY <1>1, FetchStaysValid DEF Fetching, TILE
<1>4. ~(Fetching(5) /\ FetchPixel(4).y < 0)
  BY <1>1, FetchStaysValid DEF Fetching, TILE
<1>5. ~(Fetching(7) /\ FetchPixel(6).y < 0)
  BY <1>1, FetchStaysValid DEF Fetching, TILE
<1>. QED
  BY <1>2, <1>3, <1>4, <1>5 DEF FetchThrows

-----------------------------------------------------------------------------
(* Types.                                                                   *)

\* A scroll has a column in the plane and a row in what its bits can name.
LEMMA AsScroll ==
  ASSUME NEW n \in 0 .. 63, NEW y \in 0 .. 511
  PROVE  [x |-> 8 * n, y |-> y] \in Scrolls
  BY DEF Scrolls

LEMMA CoarseScroll ==
  ASSUME NEW s \in 0 .. 511, NEW y \in 0 .. 511
  PROVE  [x |-> Coarse(s), y |-> y] \in Scrolls /\ s % TILE \in 0 .. TILE - 1
<1>1. s \div 8 \in 0 .. 63 /\ s - (s % 8) = 8 * (s \div 8)
  OBVIOUS
<1>2. [x |-> 8 * (s \div 8), y |-> y] \in Scrolls
  BY <1>1, AsScroll
<1>. QED
  BY <1>1, <1>2 DEF Coarse, TILE

LEMMA AddressAsScroll ==
  ASSUME NEW n \in Nat
  PROVE  ScrollOf(n) \in Scrolls
<1>. DEFINE h == (n \div 1024) % 2
            c == n % 32
            v == (n \div 2048) % 2
            w == (n \div 32) % 32
            g == (n \div 4096) % 8
<1>1. h \in 0 .. 1 /\ c \in 0 .. 31 /\ v \in 0 .. 1 /\ w \in 0 .. 31 /\ g \in 0 .. 7
  OBVIOUS
<1>2. ScrollOf(n) = [x |-> 256 * h + 8 * c, y |-> 256 * v + 8 * w + g]
  BY DEF ScrollOf
<1>. HIDE DEF h, c, v, w, g
<1>3. /\ 32 * h + c \in 0 .. 63 /\ 256 * h + 8 * c = 8 * (32 * h + c)
      /\ 256 * v + 8 * w + g \in 0 .. 511
  BY <1>1
<1>. QED
  BY <1>2, <1>3, AsScroll

LEMMA ScrollAsAddress ==
  ASSUME NEW a \in Scrolls
  PROVE  AddressOf(a) \in Nat
<1>1. PICK n \in 0 .. 63 : a.x = 8 * n
  BY DEF Scrolls
<1>2. a.y \in 0 .. 511 /\ a.x \in 0 .. 511
  BY <1>1 DEF Scrolls
<1>3. /\ (a.x % 256) \div 8 \in Nat /\ (a.y % 256) \div 8 \in Nat
      /\ a.x \div 256 \in Nat /\ a.y \div 256 \in Nat /\ a.y % 8 \in Nat
  BY <1>2
<1>. QED
  BY <1>3 DEF AddressOf

\* What a fetch brings is something there is.
LEMMA FetchTypes ==
  ASSUME PlaceTypes, RegisterTypes, NEW b \in 0 .. 6, dot % 8 = b + 1,
         FetchPixel(0).x >= 0, FetchPixel(0).y >= 0
  PROVE  /\ GetPatternIndex(FetchTile(b)) \in Offsets
         /\ GetPaletteIndex(FetchTile(b)) \in Quarters
         /\ FetchPixel(b).y % TILE \in 0 .. TILE - 1
<1>. DEFINE x == FetchPixel(b).x
            y == FetchPixel(b).y
<1>1. x \in 0 .. 511 /\ y \in 0 .. 479
  BY FetchStaysValid
<1>2. FetchTile(b) = [x |-> x \div 8, y |-> y \div 8]
  <2>1. ~(x < 0)
    BY <1>1
  <2>. QED
    BY <2>1 DEF FetchTile, CalcBgrFetchTile, TILE
<1>. HIDE DEF x, y
<1>3. /\ GetPatternIndex([x |-> x \div 8, y |-> y \div 8]) \in Offsets
      /\ GetPaletteIndex([x |-> x \div 8, y |-> y \div 8]) \in Quarters
  <2>1. /\ GetPatternIndex([x |-> x \div 8, y |-> y \div 8]) = TileAt([x |-> x, y |-> y])
        /\ GetPaletteIndex([x |-> x \div 8, y |-> y \div 8]) = QuarterAt([x |-> x, y |-> y])
        /\ TileAt([x |-> x, y |-> y]) \in Offsets
        /\ QuarterAt([x |-> x, y |-> y]) \in Quarters
    BY <1>1, TileAndOffset, Zenon
  <2>. QED
    BY <2>1
<1>4. y % 8 \in 0 .. 7
  BY <1>1
<1>. QED
  BY <1>2, <1>3, <1>4 DEF y, TILE

LEMMA StepTypes ==
  ASSUME TypeOK, Step
  PROVE  TypeOK'
<1>1. PlaceTypes /\ RegisterTypes /\ LatchTypes /\ ShiftTypes /\ HistoryTypes
  BY DEF TypeOK
<1>2. PlaceTypes'
  BY <1>1, Sizes DEF PlaceTypes, Step, NextPosition, PRE_SCANLINE
<1>3. RegisterTypes'
  BY <1>1, TransferredScroll DEF RegisterTypes, Step
<1>4. LatchTypes'
  <2>1. index' \in Offsets
    <3>1. Fetching(1) => GetPatternIndex(FetchTile(0)) \in Offsets
      BY <1>1, FetchTypes DEF Fetching, TILE
    <3>. QED
      BY <1>1, <3>1 DEF Step, Fetch, LatchTypes
  <2>2. attribute' \in Quarters
    <3>1. Fetching(3) => GetPaletteIndex(FetchTile(2)) \in Quarters
      BY <1>1, FetchTypes DEF Fetching, TILE
    <3>. QED
      BY <1>1, <3>1 DEF Step, Fetch, LatchTypes
  <2>3. lsb' \in Rows
    <3>1. Fetching(5) => FetchPixel(4).y % TILE \in 0 .. TILE - 1
      BY <1>1, FetchTypes DEF Fetching, TILE
    <3>2. Fetching(5) => TileRow(4) \in Rows
      BY <1>1, <3>1 DEF TileRow, Rows, RegisterTypes, LatchTypes
    <3>. QED
      BY <1>1, <3>2 DEF Step, Fetch, LatchTypes
  <2>4. msb' \in Rows
    <3>1. Fetching(7) => FetchPixel(6).y % TILE \in 0 .. TILE - 1
      BY <1>1, FetchTypes DEF Fetching, TILE
    <3>2. Fetching(7) => TileRow(6) \in Rows
      BY <1>1, <3>1 DEF TileRow, Rows, RegisterTypes, LatchTypes
    <3>. QED
      BY <1>1, <3>2 DEF Step, Fetch, LatchTypes
  <2>. QED
    BY <2>1, <2>2, <2>3, <2>4 DEF LatchTypes
<1>5. ShiftTypes'
  <2>1. Fetched \in Tiles
    BY <1>1 DEF Fetched, Tiles, LatchTypes
  <2>. QED
    BY <1>1, <2>1 DEF Step, Shift, ShiftTypes
<1>6. HistoryTypes'
  <2>1. asked' \in Scrolls
    BY <1>1 DEF Step, Record, HistoryTypes, RegisterTypes, Scrolls
  <2>2. torn' \in BOOLEAN /\ overrun' \in BOOLEAN
    BY <1>1 DEF Step, Record, HistoryTypes
  <2>. QED
    BY <2>1, <2>2 DEF HistoryTypes
<1>. QED
  BY <1>2, <1>3, <1>4, <1>5, <1>6 DEF TypeOK

LEMMA WriteTypes ==
  ASSUME TypeOK, ProgramWrite
  PROVE  TypeOK'
<1>. USE DEF TypeOK, PlaceTypes, RegisterTypes, LatchTypes, ShiftTypes, HistoryTypes,
             picture, latches, history
<1>1. ASSUME NEW s \in ScrollXs, WriteScrollX(s) PROVE TypeOK'
  <2>1. s \in 0 .. 511 /\ next.y \in 0 .. 511 /\ next = [x |-> next.x, y |-> next.y]
    BY PictureAssumption DEF Scrolls
  <2>2. next' = [x |-> Coarse(s), y |-> next.y]
    BY <1>1, <2>1 DEF WriteScrollX
  <2>3. next' \in Scrolls /\ fineX' \in 0 .. TILE - 1
    <3>1. [x |-> Coarse(s), y |-> next.y] \in Scrolls /\ s % TILE \in 0 .. TILE - 1
      BY <2>1, CoarseScroll
    <3>. QED
      BY <1>1, <2>2, <3>1 DEF WriteScrollX
  <2>. QED
    BY <1>1, <2>3 DEF WriteScrollX
<1>2. ASSUME NEW s \in ScrollYs, WriteScrollY(s) PROVE TypeOK'
  <2>1. s \in 0 .. 511
    BY PictureAssumption
  <2>2. next' \in Scrolls
    BY <1>2, <2>1 DEF WriteScrollY, Scrolls
  <2>. QED
    BY <1>2, <2>2 DEF WriteScrollY
<1>3. ASSUME NEW x \in ScrollXs, NEW y \in ScrollYs, WriteAddress(x, y) PROVE TypeOK'
  <2>1. x \in 0 .. 511 /\ y \in 0 .. 511
    BY PictureAssumption
  <2>2. next' \in Scrolls
    BY <1>3, <2>1, CoarseScroll DEF WriteAddress
  <2>. QED
    BY <1>3, <2>2 DEF WriteAddress
<1>4. ASSUME NEW amount \in {1, 32}, IncrementVRamAddress(amount) PROVE TypeOK'
  <2>1. AddressOf(active) + amount \in Nat
    BY ScrollAsAddress
  <2>2. active' \in Scrolls
    BY <1>4, <2>1, AddressAsScroll DEF IncrementVRamAddress
  <2>. QED
    BY <1>4, <2>2 DEF IncrementVRamAddress
<1>5. ASSUME NEW shown \in BOOLEAN, NEW left \in BOOLEAN, WriteMask(shown, left) PROVE TypeOK'
  BY <1>5 DEF WriteMask
<1>6. ASSUME NEW t \in 0 .. 1, WriteTable(t) PROVE TypeOK'
  BY <1>6 DEF WriteTable
<1>. QED
  BY <1>1, <1>2, <1>3, <1>4, <1>5, <1>6 DEF ProgramWrite

LEMMA InitTypes == Init => TypeOK
<1>. SUFFICES ASSUME Init PROVE TypeOK
  OBVIOUS
<1>1. 0 \in Offsets
  BY DEF Offsets
<1>2. NoRow \in Rows /\ NoBits \in Quarters
  BY <1>1 DEF NoRow, NoBits, Rows, Quarters, TILE
<1>3. Empty \in Tiles
  BY <1>2 DEF Empty, Tiles
<1>4. Origin \in Scrolls
  <2>1. 0 \in 0 .. 63 /\ 0 \in 0 .. 511 /\ 8 * 0 = 0
    OBVIOUS
  <2>. QED
    BY <2>1, AsScroll DEF Origin
<1>5. 0 \in 0 .. LAST_CYCLE /\ PRE_SCANLINE \in PRE_SCANLINE .. LAST_SCANLINE
  BY Sizes DEF PRE_SCANLINE
<1>6. PlaceTypes
  BY <1>5 DEF Init, PlaceTypes
<1>7. RegisterTypes
  <2>1. 0 \in 0 .. TILE - 1 /\ 0 \in 0 .. 1
    BY DEF TILE
  <2>. QED
    BY <1>4, <2>1 DEF Init, RegisterTypes
<1>8. LatchTypes /\ ShiftTypes
  BY <1>1, <1>2, <1>3 DEF Init, LatchTypes, ShiftTypes
<1>9. HistoryTypes
  BY <1>4 DEF Init, HistoryTypes
<1>. QED
  BY <1>6, <1>7, <1>8, <1>9 DEF TypeOK

-----------------------------------------------------------------------------
(* What the latches and the shift registers hold between two dots.          *)

\* A row of the tile at a place, and all of a tile that a pixel is made of.
RowAt(t, p) == [table |-> t, tile |-> TileAt(p), row |-> (p.y % 240) % TILE]
Drawn(t, p) == [lsb |-> RowAt(t, p), msb |-> RowAt(t, p), attribute |-> QuarterAt(p)]

\* The latches, e dots into the fetch of the tile at p.
FetchedOf(p, e) == /\ e >= 1 => index = TileAt(p)
                   /\ e >= 3 => attribute = QuarterAt(p)
                   /\ e >= 5 => lsb = RowAt(table, p)
                   /\ e >= 7 => msb = RowAt(table, p)

\* The end of a line: the first two tiles of the next are fetched, and what
\* remains of the dots leaves them alone unless the scroll overruns.
AheadInv ==
  ~torn /\ line \in PRE_SCANLINE .. LAST_VISIBLE_SCANLINE - 1 =>
    /\ dot \in FIRST + 1 .. FIRST + 8 =>
         FetchedOf(Place(active, 0, line + 1), dot - FIRST)
    /\ dot \in FIRST + 9 .. FIRST + 16 =>
         /\ FetchedOf(Place(active, 1, line + 1), dot - (FIRST + 8))
         /\ upper = Drawn(table, Place(active, 0, line + 1))
    /\ dot \in FIRST + 17 .. FIRST + 19 /\ ~overrun =>
         /\ FetchedOf(Place(active, 1, line + 1), 8)
         /\ upper = Drawn(table, Place(active, 0, line + 1))

\* A line: while tile k is drawn, the registers hold it and the one after it,
\* and the one after that is fetched.
LineInv ==
  ~torn /\ line \in START_VISIBLE_SCANLINE .. LAST_VISIBLE_SCANLINE =>
    /\ dot \in 0 .. 1 /\ ~overrun =>
         /\ FetchedOf(Place(active, 1, line), 8)
         /\ upper = Drawn(table, Place(active, 0, line))
    /\ \A k \in Nat :
         dot \in 8*k + 2 .. 8*k + 9 /\ 8*k + 8 <= LAST_VISIBLE_CYCLE =>
           /\ k >= 2 \/ ~overrun => lower = Drawn(table, Place(active, k, line))
           /\ k >= 1 \/ ~overrun => upper = Drawn(table, Place(active, k + 1, line))
           /\ 8*k + 16 <= LAST_VISIBLE_CYCLE =>
                FetchedOf(Place(active, k + 2, line), dot - (8*k + 1))

IInv == /\ TypeOK /\ asked = active
        /\ AheadInv /\ LineInv
        /\ PixelAsScrolled

\* The scroll as the program has set it is the one in use.
LEMMA AskedInv ==
  ASSUME TypeOK, asked = active, Step \/ ProgramWrite
  PROVE  (asked = active)'
<1>1. CASE Step
  <2>1. LAST_VISIBLE_CYCLE + 1 = TRANSFER_SCOLLX_CYCLE
    BY Sizes
  <2>. QED
    BY <1>1, <2>1 DEF Step, Record, Transferred
<1>2. CASE ProgramWrite
  BY <1>2 DEF ProgramWrite, WriteScrollX, WriteScrollY, WriteAddress, IncrementVRamAddress,
              WriteMask, WriteTable, history
<1>. QED
  BY <1>1, <1>2

\* What the program writes either moves none of this or tears the line.
LEMMA WriteInv ==
  ASSUME IInv, ProgramWrite
  PROVE  AheadInv' /\ LineInv' /\ PixelAsScrolled'
<1>1. pixel' = Nothing
  BY DEF ProgramWrite, WriteScrollX, WriteScrollY, WriteAddress, IncrementVRamAddress,
         WriteMask, WriteTable
<1>2. \/ torn' = TRUE
      \/ UNCHANGED <<dot, line, index, attribute, lsb, msb, lower, upper, active, table,
                     torn, overrun>>
  BY DEF ProgramWrite, WriteScrollX, WriteScrollY, WriteAddress, IncrementVRamAddress,
         WriteMask, WriteTable, picture, latches, history
<1>3. PixelAsScrolled'
  BY <1>1 DEF PixelAsScrolled, Nothing
<1>4. CASE torn' = TRUE
  BY <1>3, <1>4 DEF AheadInv, LineInv
<1>5. CASE UNCHANGED <<dot, line, index, attribute, lsb, msb, lower, upper, active, table,
                       torn, overrun>>
  BY <1>3, <1>5 DEF IInv, AheadInv, LineInv, FetchedOf
<1>. QED
  BY <1>2, <1>4, <1>5

\* The latches after a dot, e dots into the fetch of the tile at p.
LatchedNext(p, e) == /\ e >= 1 => index' = TileAt(p)
                     /\ e >= 3 => attribute' = QuarterAt(p)
                     /\ e >= 5 => lsb' = RowAt(table, p)
                     /\ e >= 7 => msb' = RowAt(table, p)

\* A dot of a fetch, e dots after its first.
LEMMA FetchDot ==
  ASSUME TypeOK, Fetch, Transferred = active, NEW k \in Nat, NEW l \in Nat, NEW e \in 0 .. 7,
         dot % 8 = (1 + e) % 8,
         ScreenPixel(dot - e, line) = [x |-> 8 * k, y |-> l],
         ScreenPixel(dot, line) = [x |-> 8 * k + e, y |-> l],
         FetchedOf(Place(active, k, l), e)
  PROVE  /\ LatchedNext(Place(active, k, l), e + 1)
         /\ Fetching(1) <=> e = 0
<1>. DEFINE p == Place(active, k, l)
<1>1. /\ fineX \in 0 .. 7 /\ active \in Scrolls /\ dot \in Nat /\ dot - 0 = dot
      /\ 8 * k + e \in Nat
  BY DEF TypeOK, PlaceTypes, RegisterTypes, TILE
<1>2. FetchPixel(0).x >= 0 /\ FetchPixel(0).y >= 0
  <2>1. FetchPixel(0) = [x |-> (8 * k + e + active.x + fineX) % 512, y |-> (l + active.y) % 480]
    BY <1>1, OnScreen DEF FetchPixel
  <2>2. 8 * k + e + active.x + fineX \in Nat /\ l + active.y \in Nat
    BY <1>1 DEF Scrolls
  <2>3. \A i \in Nat : i % 512 >= 0 /\ i % 480 >= 0
    OBVIOUS
  <2>. QED
    BY <2>1, <2>2, <2>3
<1>3. \A phase \in 0 .. 7 : Fetching(phase) <=> phase = (1 + e) % 8
  BY <1>2 DEF Fetching, TILE
<1>4. /\ GetPatternIndex(FetchTile(e)) = TileAt(p) /\ GetPaletteIndex(FetchTile(e)) = QuarterAt(p)
      /\ FetchPixel(e).y % TILE = (p.y % 240) % TILE
  BY <1>1, AtTile DEF FetchPixel, FetchTile
<1>5. CASE e = 0
  <2>1. index' = GetPatternIndex(FetchTile(0)) /\ Fetching(1)
    BY <1>3, <1>5 DEF Fetch
  <2>. QED
    BY <1>4, <1>5, <2>1 DEF LatchedNext
<1>6. CASE e = 2
  <2>1. attribute' = GetPaletteIndex(FetchTile(2)) /\ index' = index /\ ~Fetching(1)
    BY <1>3, <1>6 DEF Fetch
  <2>. QED
    BY <1>4, <1>6, <2>1 DEF LatchedNext, FetchedOf
<1>7. CASE e = 4
  <2>1. lsb' = TileRow(4) /\ index' = index /\ attribute' = attribute /\ ~Fetching(1)
    BY <1>3, <1>7 DEF Fetch
  <2>2. TileRow(4) = RowAt(table, p)
    BY <1>4, <1>7 DEF TileRow, RowAt, FetchedOf
  <2>. QED
    BY <1>7, <2>1, <2>2 DEF LatchedNext, FetchedOf
<1>8. CASE e = 6
  <2>1. /\ msb' = TileRow(6) /\ index' = index /\ attribute' = attribute /\ lsb' = lsb
        /\ ~Fetching(1)
    BY <1>3, <1>8 DEF Fetch
  <2>2. TileRow(6) = RowAt(table, p)
    BY <1>4, <1>8 DEF TileRow, RowAt, FetchedOf
  <2>. QED
    BY <1>8, <2>1, <2>2 DEF LatchedNext, FetchedOf
<1>9. CASE e \in {1, 3, 5, 7}
  <2>1. /\ index' = index /\ attribute' = attribute /\ lsb' = lsb /\ msb' = msb
        /\ ~Fetching(1)
    BY <1>3, <1>9 DEF Fetch
  <2>. QED
    BY <1>9, <2>1 DEF LatchedNext, FetchedOf
<1>. QED
  BY <1>5, <1>6, <1>7, <1>8, <1>9

\* What a dot shifts in is what a fetch of eight dots has left.
LEMMA ShiftedIn ==
  ASSUME NEW p, FetchedOf(p, 8)
  PROVE  Fetched = Drawn(table, p)
  BY DEF FetchedOf, Fetched, Drawn

\* After the last fetch for the next line, a scroll that does not overrun
\* makes no pixel valid.
LEMMA QuietDot ==
  ASSUME TypeOK, asked = active, Transferred = active, Record, ~overrun',
         dot > LAST_NEXT_SCANLINE_FETCHING_CYCLE
  PROVE  \A phase : ~Fetching(phase)
<1>1. /\ line \in Int /\ dot \in Nat /\ dot - 0 = dot /\ dot > FIRST + 15
      /\ fineX \in 0 .. 7 /\ active.x \in Nat /\ active.y \in Nat
  BY Sizes DEF TypeOK, PlaceTypes, RegisterTypes, PRE_SCANLINE, TILE, Scrolls
<1>2. ScreenPixel(dot, line) = Invalid
  BY <1>1, Windows, Sizes
<1>3. active.x + fineX = 0 \/ active.y = 0
  BY <1>1 DEF Record
<1>4. FetchPixel(0) = [x |-> Wrap(-1 + (active.x + fineX), nametablesWidth),
                       y |-> Wrap(-1 + active.y, nametablesHeight)]
  BY <1>1, <1>2 DEF FetchPixel, CalcNextFetchPixel, ScrollX, Invalid
<1>5. \A size : Wrap(-1, size) = -1
  BY DEF Wrap
<1>6. FetchPixel(0).x = -1 \/ FetchPixel(0).y = -1
  <2>1. CASE active.x + fineX = 0
    <3>1. -1 + (active.x + fineX) = -1
      BY <2>1
    <3>. QED
      BY <1>4, <1>5, <3>1
  <2>2. CASE active.y = 0
    <3>1. -1 + active.y = -1
      BY <2>2
    <3>. QED
      BY <1>4, <1>5, <3>1
  <2>. QED
    BY <1>3, <2>1, <2>2
<1>. QED
  BY <1>6 DEF Fetching

\* The scroll is copied between the end of a line and the first fetch for the
\* next.
LEMMA NoTransfer ==
  ASSUME TypeOK, dot <= LAST_VISIBLE_CYCLE \/ dot >= FIRST
  PROVE  Transferred = active
<1>1. dot \in Int /\ dot # TRANSFER_SCOLLX_CYCLE /\ dot # TRANSFER_SCROLLY_CYCLE
  BY Sizes DEF TypeOK, PlaceTypes
<1>2. active = [x |-> active.x, y |-> active.y]
  BY DEF TypeOK, RegisterTypes, Scrolls
<1>. QED
  BY <1>1, <1>2 DEF Transferred

\* Nothing is claimed of the registers past a line, nor of the next line's
\* tiles before they are fetched.
LEMMA PastLine ==
  ASSUME TypeOK', dot' > LAST_VISIBLE_CYCLE + 1 \/ line' \notin 0 .. LAST_VISIBLE_SCANLINE
  PROVE  LineInv'
<1>1. dot' \in Nat
  BY DEF TypeOK, PlaceTypes
<1>2. dot' \in 0 .. 1 => dot' <= LAST_VISIBLE_CYCLE + 1
  BY Sizes
<1>3. \A k \in Nat : dot' \in 8*k + 2 .. 8*k + 9 /\ 8*k + 8 <= LAST_VISIBLE_CYCLE
                       => dot' <= LAST_VISIBLE_CYCLE + 1
  BY <1>1, Sizes
<1>4. dot' > LAST_VISIBLE_CYCLE + 1 => ~(dot' <= LAST_VISIBLE_CYCLE + 1)
  BY <1>1, Sizes
<1>. QED
  BY <1>2, <1>3, <1>4 DEF LineInv, START_VISIBLE_SCANLINE

LEMMA BeforeAhead ==
  ASSUME TypeOK', dot' <= FIRST \/ line' >= LAST_VISIBLE_SCANLINE
  PROVE  AheadInv'
<1>1. dot' \in Nat /\ line' \in Int
  BY DEF TypeOK, PlaceTypes, PRE_SCANLINE
<1>. QED
  BY <1>1, Sizes DEF AheadInv, PRE_SCANLINE

\* What a step does to a picture whose scroll it leaves alone.
LEMMA Stays ==
  ASSUME TypeOK, Step, dot <= LAST_VISIBLE_CYCLE \/ dot >= FIRST
  PROVE  /\ Transferred = active /\ active' = active /\ table' = table
         /\ dot < LAST_CYCLE => dot' = dot + 1 /\ line' = line
         /\ dot \in Nat /\ line \in Int
         /\ Fetch /\ Shift /\ Record
         /\ dot # FIRST => torn' = torn
  BY NoTransfer DEF Step, NextPosition, Record, FIRST, TypeOK, PlaceTypes, HistoryTypes,
                    PRE_SCANLINE

\* The first two tiles of the next line.
LEMMA AheadStep ==
  ASSUME IInv, Step, TypeOK', line \in -1 .. LAST_VISIBLE_SCANLINE - 1,
         dot \in FIRST .. FIRST + 15
  PROVE  AheadInv' /\ LineInv'
<1>1. TypeOK /\ FIRST \in Nat /\ LAST_CYCLE = FIRST + 19 /\ FIRST % 8 = 1
  <2>1. FIRST \in Int /\ FIRST >= 0
    BY Sizes
  <2>. QED
    BY <2>1, Sizes DEF IInv
<1>2. /\ Transferred = active /\ active' = active /\ table' = table
      /\ dot' = dot + 1 /\ line' = line /\ Fetch /\ Shift /\ dot \in Nat /\ line + 1 \in Nat
      /\ dot # FIRST => torn' = torn
  BY <1>1, Stays
<1>3. LineInv'
  BY <1>1, <1>2, PastLine, Sizes
<1>4. ScreenPixel(dot, line) = [x |-> dot - FIRST, y |-> line + 1]
  BY <1>1, <1>2, AheadPixel
<1>5. AheadInv'
  <2>. SUFFICES ASSUME ~torn' PROVE AheadInv'
    BY DEF AheadInv
  <2>1. CASE dot \in FIRST .. FIRST + 7
    <3>. DEFINE e == dot - FIRST
                p == Place(active, 0, line + 1)
    <3>1. e \in 0 .. 7 /\ dot - e = FIRST /\ dot = FIRST + e
      BY <1>1, <1>2, <2>1
    <3>2. dot % 8 = (1 + e) % 8
      <4>. HIDE DEF e
      <4>. QED
        BY <1>1, <3>1
    <3>3. ScreenPixel(dot - e, line) = [x |-> 8 * 0, y |-> line + 1]
      <4>1. FIRST - FIRST = 8 * 0
        BY <1>1
      <4>2. ScreenPixel(FIRST, line) = [x |-> FIRST - FIRST, y |-> line + 1]
        BY <1>1, <1>2, AheadPixel
      <4>. QED
        BY <3>1, <4>1, <4>2
    <3>4. ScreenPixel(dot, line) = [x |-> 8 * 0 + e, y |-> line + 1]
      BY <1>2, <1>4, <3>1
    <3>5. FetchedOf(p, e)
      <4>1. CASE e = 0
        BY <4>1 DEF FetchedOf
      <4>2. CASE e # 0
        <5>1. ~torn /\ dot \in FIRST + 1 .. FIRST + 8
          BY <1>1, <1>2, <3>1, <4>2
        <5>. QED
          BY <5>1 DEF IInv, AheadInv, PRE_SCANLINE
      <4>. QED
        BY <4>1, <4>2
    <3>6. LatchedNext(p, e + 1)
      <4>1. 0 \in Nat
        OBVIOUS
      <4>. HIDE DEF e
      <4>. QED
        BY <1>1, <1>2, <3>1, <3>2, <3>3, <3>4, <3>5, <4>1, FetchDot
    <3>7. FetchedOf(Place(active, 0, line + 1), dot - FIRST)'
      <4>1. dot' - FIRST = e + 1
        BY <1>1, <1>2
      <4>. HIDE DEF e
      <4>. QED
        BY <1>2, <3>6, <4>1 DEF FetchedOf, LatchedNext
    <3>. QED
      BY <1>1, <1>2, <2>1, <3>7 DEF AheadInv
  <2>2. CASE dot \in FIRST + 8 .. FIRST + 15
    <3>. DEFINE e == dot - (FIRST + 8)
                p == Place(active, 1, line + 1)
                q == Place(active, 0, line + 1)
    <3>1. e \in 0 .. 7 /\ dot - e = FIRST + 8 /\ dot = FIRST + 8 + e
      BY <1>1, <1>2, <2>2
    <3>2. dot % 8 = (1 + e) % 8
      <4>. HIDE DEF e
      <4>. QED
        BY <1>1, <3>1
    <3>3. ScreenPixel(dot - e, line) = [x |-> 8 * 1, y |-> line + 1]
      <4>. DEFINE d == FIRST + 8
      <4>1. d \in Int /\ FIRST <= d /\ d <= FIRST + 15 /\ d - FIRST = 8 * 1
        BY <1>1
      <4>2. ScreenPixel(d, line) = [x |-> d - FIRST, y |-> line + 1]
        <5>. HIDE DEF d
        <5>. QED
          BY <4>1, AheadPixel
      <4>. QED
        BY <3>1, <4>1, <4>2
    <3>4. ScreenPixel(dot, line) = [x |-> 8 * 1 + e, y |-> line + 1]
      <4>1. dot - FIRST = 8 * 1 + e
        BY <1>1, <1>2
      <4>. QED
        BY <1>4, <4>1
    <3>5. ~torn
      BY <1>1, <1>2, <2>2
    <3>6. FetchedOf(p, e)
      <4>1. CASE e = 0
        BY <4>1 DEF FetchedOf
      <4>2. CASE e # 0
        <5>1. dot \in FIRST + 9 .. FIRST + 16
          BY <1>1, <1>2, <3>1, <4>2
        <5>. QED
          BY <3>5, <5>1 DEF IInv, AheadInv, PRE_SCANLINE
      <4>. QED
        BY <4>1, <4>2
    <3>7. LatchedNext(p, e + 1) /\ (Fetching(1) <=> e = 0)
      <4>1. 1 \in Nat
        OBVIOUS
      <4>. HIDE DEF e
      <4>. QED
        BY <1>1, <1>2, <3>1, <3>2, <3>3, <3>4, <3>6, <4>1, FetchDot
    <3>8. FetchedOf(Place(active, 1, line + 1), dot - (FIRST + 8))'
      <4>1. dot' - (FIRST + 8) = e + 1
        BY <1>1, <1>2
      <4>. HIDE DEF e
      <4>. QED
        BY <1>2, <3>7, <4>1 DEF FetchedOf, LatchedNext
    <3>9. upper' = Drawn(table, q)
      <4>1. CASE e = 0
        <5>1. dot \in FIRST + 1 .. FIRST + 8 /\ dot - FIRST = 8
          BY <1>1, <3>1, <4>1
        <5>2. FetchedOf(q, 8)
          BY <3>5, <5>1 DEF IInv, AheadInv, PRE_SCANLINE
        <5>. QED
          BY <1>2, <3>7, <4>1, <5>2, ShiftedIn DEF Shift
      <4>2. CASE e # 0
        <5>1. dot \in FIRST + 9 .. FIRST + 16
          BY <1>1, <1>2, <3>1, <4>2
        <5>2. upper = Drawn(table, q)
          BY <3>5, <5>1 DEF IInv, AheadInv, PRE_SCANLINE
        <5>. QED
          BY <1>2, <3>7, <4>2, <5>2 DEF Shift
      <4>. QED
        BY <4>1, <4>2
    <3>. QED
      BY <1>1, <1>2, <2>2, <3>8, <3>9 DEF AheadInv
  <2>. QED
    BY <1>1, <1>2, <2>1, <2>2
<1>. QED
  BY <1>3, <1>5

\* The dots between the last fetch and the next line.
LEMMA RestStep ==
  ASSUME IInv, Step, TypeOK', line \in -1 .. LAST_VISIBLE_SCANLINE - 1,
         dot \in FIRST + 16 .. FIRST + 19
  PROVE  AheadInv' /\ LineInv'
<1>. DEFINE p == Place(active, 1, line + 1)
            q == Place(active, 0, line + 1)
<1>1. TypeOK /\ FIRST \in Nat /\ LAST_CYCLE = FIRST + 19
  <2>1. FIRST \in Int /\ FIRST >= 0
    BY Sizes
  <2>. QED
    BY <2>1, Sizes DEF IInv
<1>2. /\ Transferred = active /\ active' = active /\ table' = table
      /\ dot < LAST_CYCLE => dot' = dot + 1 /\ line' = line
      /\ Fetch /\ Shift /\ Record /\ dot \in Nat /\ line \in Int /\ torn' = torn
  BY <1>1, Stays
<1>3. ASSUME ~torn', ~overrun'
      PROVE  /\ FetchedOf(p, 8) /\ upper = Drawn(table, q)
             /\ UNCHANGED <<index, attribute, lsb, msb, upper>>
  <2>1. ~torn /\ ~overrun
    BY <1>1, <1>2, <1>3 DEF Record, FIRST
  <2>2. FetchedOf(p, 8) /\ upper = Drawn(table, q)
    <3>1. CASE dot = FIRST + 16
      <4>1. dot \in FIRST + 9 .. FIRST + 16 /\ dot - (FIRST + 8) = 8
        BY <1>1, <3>1
      <4>. QED
        BY <2>1, <4>1 DEF IInv, AheadInv, PRE_SCANLINE
    <3>2. CASE dot # FIRST + 16
      <4>1. dot \in FIRST + 17 .. FIRST + 19
        BY <1>1, <1>2, <3>2
      <4>. QED
        BY <2>1, <4>1 DEF IInv, AheadInv, PRE_SCANLINE
    <3>. QED
      BY <3>1, <3>2
  <2>3. \A phase : ~Fetching(phase)
    <3>1. dot > LAST_NEXT_SCANLINE_FETCHING_CYCLE
      BY <1>1, <1>2, Sizes
    <3>. QED
      BY <1>1, <1>2, <1>3, <3>1, QuietDot DEF IInv
  <2>4. UNCHANGED <<index, attribute, lsb, msb, upper>>
    BY <1>2, <2>3 DEF Fetch, Shift
  <2>. QED
    BY <2>2, <2>4
<1>4. CASE dot < LAST_CYCLE
  <2>1. LineInv'
    BY <1>1, <1>2, <1>4, PastLine, Sizes
  <2>2. ASSUME ~torn', ~overrun'
        PROVE  FetchedOf(Place(active, 1, line + 1), 8)'
               /\ (upper = Drawn(table, Place(active, 0, line + 1)))'
    BY <1>2, <1>3, <1>4, <2>2 DEF FetchedOf
  <2>3. dot' \in FIRST + 17 .. FIRST + 19
    BY <1>1, <1>2, <1>4
  <2>4. dot' \notin FIRST + 1 .. FIRST + 8 /\ dot' \notin FIRST + 9 .. FIRST + 16
    BY <1>1, <2>3
  <2>. QED
    BY <2>1, <2>2, <2>4 DEF AheadInv
<1>5. CASE dot = LAST_CYCLE
  <2>1. dot' = 0 /\ line' = line + 1
    BY <1>1, <1>2, <1>5, Sizes DEF Step, NextPosition
  <2>2. AheadInv'
    BY <1>1, <2>1, BeforeAhead
  <2>3. ASSUME ~torn', ~overrun'
        PROVE  FetchedOf(Place(active, 1, line), 8)'
               /\ (upper = Drawn(table, Place(active, 0, line)))'
    BY <1>2, <1>3, <2>1, <2>3 DEF FetchedOf
  <2>4. \A k \in Nat : dot' \notin 8*k + 2 .. 8*k + 9
    BY <2>1
  <2>5. LineInv'
    BY <2>3, <2>4 DEF LineInv
  <2>. QED
    BY <2>2, <2>5
<1>. QED
  BY <1>1, <1>2, <1>4, <1>5

\* The dot before the first of a line.
LEMMA LineStart ==
  ASSUME IInv, Step, TypeOK', line \in 0 .. LAST_VISIBLE_SCANLINE, dot = 0
  PROVE  AheadInv' /\ LineInv'
<1>1. TypeOK /\ FIRST \in Nat /\ LAST_CYCLE > 0 /\ dot <= LAST_VISIBLE_CYCLE /\ dot # FIRST
  <2>1. FIRST \in Int /\ FIRST > 0
    BY Sizes
  <2>. QED
    BY <2>1, Sizes DEF IInv
<1>2. /\ active' = active /\ table' = table /\ dot' = 1 /\ line' = line
      /\ Fetch /\ Shift /\ Record /\ torn' = torn
  BY <1>1, Stays
<1>3. \A phase \in 1 .. 7 : ~Fetching(phase)
  <2>1. 0 % 8 = 0
    OBVIOUS
  <2>. QED
    BY <2>1 DEF Fetching, TILE
<1>4. UNCHANGED <<index, attribute, lsb, msb, upper>>
  BY <1>2, <1>3 DEF Fetch, Shift
<1>5. overrun' = overrun
  <2>1. ~(dot > LAST_NEXT_SCANLINE_FETCHING_CYCLE)
    BY Sizes
  <2>. QED
    BY <1>1, <1>2, <2>1 DEF Record, FIRST, TypeOK, HistoryTypes
<1>6. AheadInv'
  BY <1>1, <1>2, BeforeAhead
<1>7. LineInv'
  <2>1. ASSUME ~torn', ~overrun'
        PROVE  FetchedOf(Place(active, 1, line), 8)'
               /\ (upper = Drawn(table, Place(active, 0, line)))'
    <3>1. FetchedOf(Place(active, 1, line), 8) /\ upper = Drawn(table, Place(active, 0, line))
      BY <1>2, <1>5, <2>1 DEF IInv, LineInv, START_VISIBLE_SCANLINE
    <3>. QED
      BY <1>2, <1>4, <3>1 DEF FetchedOf
  <2>2. \A k \in Nat : dot' \notin 8*k + 2 .. 8*k + 9
    BY <1>2
  <2>. QED
    BY <2>1, <2>2 DEF LineInv
<1>. QED
  BY <1>6, <1>7

\* A dot of a line, in tile k of it.
LEMMA LineStep ==
  ASSUME IInv, Step, TypeOK', line \in 0 .. LAST_VISIBLE_SCANLINE,
         NEW k \in Nat, NEW e \in 0 .. 7, dot = 8 * k + 1 + e, 8 * k + 8 <= LAST_VISIBLE_CYCLE
  PROVE  /\ AheadInv' /\ LineInv'
         /\ ~torn' /\ (k >= 2 \/ ~overrun') => lower' = Drawn(table, Place(active, k, line))
         /\ ~torn' /\ (k >= 1 \/ ~overrun') => upper' = Drawn(table, Place(active, k + 1, line))
<1>1. /\ TypeOK /\ FIRST \in Nat /\ LAST_VISIBLE_CYCLE \in Nat /\ LAST_CYCLE = FIRST + 19
      /\ dot <= LAST_VISIBLE_CYCLE /\ LAST_VISIBLE_CYCLE < FIRST
  <2>1. FIRST \in Int /\ FIRST >= 0 /\ LAST_VISIBLE_CYCLE \in Int
    BY Sizes
  <2>. QED
    BY <2>1, Sizes DEF IInv
<1>2. /\ Transferred = active /\ active' = active /\ table' = table
      /\ dot' = dot + 1 /\ line' = line /\ Fetch /\ Shift /\ Record
      /\ dot \in Nat /\ line \in Nat /\ torn' = torn
  <2>1. line \in Nat
    BY Sizes
  <2>. QED
    BY <1>1, <2>1, Stays
<1>3. overrun' = overrun
  <2>1. ~(dot > LAST_NEXT_SCANLINE_FETCHING_CYCLE) /\ dot # FIRST
    BY <1>1, <1>2, Sizes
  <2>. QED
    BY <1>1, <1>2, <2>1 DEF Record, FIRST, TypeOK, HistoryTypes
<1>4. AheadInv'
  BY <1>1, <1>2, BeforeAhead
<1>5. dot % 8 = (1 + e) % 8 /\ (dot - e) = 8 * k + 1
  <2>1. \A d \in Nat : (8 * k + d) % 8 = d % 8
    OBVIOUS
  <2>2. dot = 8 * k + (1 + e)
    OBVIOUS
  <2>. QED
    BY <2>1, <2>2
<1>6. ASSUME dot <= LAST_VISIBLE_CYCLE - 7
      PROVE  /\ ScreenPixel(dot, line) = [x |-> 8 * (k + 2) + e, y |-> line]
             /\ ScreenPixel(dot - e, line) = [x |-> 8 * (k + 2), y |-> line]
  <2>1. dot + 15 = 8 * (k + 2) + e
    OBVIOUS
  <2>2. ScreenPixel(dot, line) = [x |-> dot + 15, y |-> line]
    BY <1>2, <1>6, LinePixel
  <2>. DEFINE d == dot - e
  <2>3. d \in Int /\ 1 <= d /\ d <= LAST_VISIBLE_CYCLE - 7 /\ d + 15 = 8 * (k + 2)
    BY <1>1, <1>5, <1>6
  <2>4. ScreenPixel(d, line) = [x |-> d + 15, y |-> line]
    <3>. HIDE DEF d
    <3>. QED
      BY <2>3, LinePixel
  <2>. QED
    BY <2>1, <2>2, <2>3, <2>4
<1>7. ASSUME ~torn, e > 0
      PROVE  /\ k >= 2 \/ ~overrun => lower = Drawn(table, Place(active, k, line))
             /\ k >= 1 \/ ~overrun => upper = Drawn(table, Place(active, k + 1, line))
             /\ 8 * k + 16 <= LAST_VISIBLE_CYCLE => FetchedOf(Place(active, k + 2, line), e)
  <2>1. dot \in 8 * k + 2 .. 8 * k + 9 /\ dot - (8 * k + 1) = e
    BY <1>7
  <2>. QED
    BY <1>7, <2>1 DEF IInv, LineInv, START_VISIBLE_SCANLINE
<1>8. ASSUME ~torn, e = 0
      PROVE  /\ k >= 2 \/ ~overrun => upper = Drawn(table, Place(active, k, line))
             /\ k >= 1 \/ ~overrun => FetchedOf(Place(active, k + 1, line), 8)
  <2>1. CASE k = 0
    <3>1. dot \in 0 .. 1 /\ 0 + 1 = 1
      BY <1>8, <2>1
    <3>2. ~overrun => /\ FetchedOf(Place(active, 1, line), 8)
                      /\ upper = Drawn(table, Place(active, 0, line))
      BY <1>8, <3>1 DEF IInv, LineInv, START_VISIBLE_SCANLINE
    <3>. QED
      BY <2>1, <3>1, <3>2
  <2>2. CASE k # 0
    <3>1. PICK j \in Nat : k = j + 1
      <4>1. k - 1 \in Nat /\ k = (k - 1) + 1
        BY <2>2
      <4>. QED
        BY <4>1
    <3>2. /\ dot \in 8*j + 2 .. 8*j + 9 /\ 8*j + 8 <= LAST_VISIBLE_CYCLE
          /\ 8*j + 16 <= LAST_VISIBLE_CYCLE /\ dot - (8*j + 1) = 8
          /\ (k >= 2 => j >= 1) /\ j + 2 = k + 1
      BY <1>1, <1>8, <3>1
    <3>3. /\ j >= 1 \/ ~overrun => upper = Drawn(table, Place(active, j + 1, line))
          /\ FetchedOf(Place(active, j + 2, line), 8)
      BY <1>8, <3>2 DEF IInv, LineInv, START_VISIBLE_SCANLINE
    <3>. QED
      BY <3>1, <3>2, <3>3
  <2>. QED
    BY <2>1, <2>2
<1>9. Fetching(1) <=> e = 0
  <2>1. CASE e = 0
    <3>1. dot <= LAST_VISIBLE_CYCLE - 7
      BY <1>1, <2>1
    <3>2. FetchedOf(Place(active, k + 2, line), 0) /\ k + 2 \in Nat
      BY DEF FetchedOf
    <3>3. FetchedOf(Place(active, k + 2, line), e)
      BY <2>1, <3>2
    <3>. DEFINE j == k + 2
    <3>. HIDE DEF j
    <3>4. /\ j \in Nat /\ FetchedOf(Place(active, j, line), e)
          /\ ScreenPixel(dot, line) = [x |-> 8 * j + e, y |-> line]
          /\ ScreenPixel(dot - e, line) = [x |-> 8 * j, y |-> line]
      BY <1>6, <3>1, <3>2, <3>3 DEF j
    <3>. QED
      BY <1>1, <1>2, <1>5, <3>4, FetchDot
  <2>2. CASE e # 0
    <3>1. (1 + e) % 8 # 1
      BY <2>2
    <3>. QED
      BY <1>5, <2>2, <3>1 DEF Fetching, TILE
  <2>. QED
    BY <2>1, <2>2
<1>10. ASSUME ~torn, 8 * k + 16 <= LAST_VISIBLE_CYCLE
       PROVE  LatchedNext(Place(active, k + 2, line), e + 1)
  <2>. DEFINE j == k + 2
  <2>1. j \in Nat /\ dot <= LAST_VISIBLE_CYCLE - 7
    BY <1>1, <1>10
  <2>2. FetchedOf(Place(active, j, line), e)
    <3>1. CASE e = 0
      BY <3>1 DEF FetchedOf
    <3>2. CASE e > 0
      BY <1>7, <1>10, <3>2
    <3>. QED
      BY <3>1, <3>2
  <2>3. /\ ScreenPixel(dot, line) = [x |-> 8 * j + e, y |-> line]
        /\ ScreenPixel(dot - e, line) = [x |-> 8 * j, y |-> line]
    BY <1>6, <2>1
  <2>4. LatchedNext(Place(active, j, line), e + 1)
    <3>. HIDE DEF j
    <3>. QED
      BY <1>1, <1>2, <1>5, <2>1, <2>2, <2>3, FetchDot
  <2>. QED
    BY <2>4
<1>11. ASSUME ~torn
       PROVE  /\ k >= 2 \/ ~overrun => lower' = Drawn(table, Place(active, k, line))
              /\ k >= 1 \/ ~overrun => upper' = Drawn(table, Place(active, k + 1, line))
  <2>1. CASE e = 0
    <3>1. lower' = upper /\ upper' = Fetched
      BY <1>2, <1>9, <2>1 DEF Shift
    <3>. QED
      BY <1>8, <1>11, <2>1, <3>1, ShiftedIn
  <2>2. CASE e > 0
    <3>1. lower' = lower /\ upper' = upper
      BY <1>2, <1>9, <2>2 DEF Shift
    <3>. QED
      BY <1>7, <1>11, <2>2, <3>1
  <2>. QED
    BY <2>1, <2>2
<1>12. LineInv'
  <2>1. dot' \notin 0 .. 1 /\ \A j \in Nat : dot' \in 8*j + 2 .. 8*j + 9 => j = k
    BY <1>2
  <2>2. ASSUME ~torn'
        PROVE  /\ (k >= 2 \/ ~overrun => lower = Drawn(table, Place(active, k, line)))'
               /\ (k >= 1 \/ ~overrun => upper = Drawn(table, Place(active, k + 1, line)))'
               /\ 8*k + 16 <= LAST_VISIBLE_CYCLE =>
                    FetchedOf(Place(active, k + 2, line), dot - (8*k + 1))'
    <3>1. dot' - (8*k + 1) = e + 1
      BY <1>2
    <3>2. 8*k + 16 <= LAST_VISIBLE_CYCLE =>
            FetchedOf(Place(active, k + 2, line), dot - (8*k + 1))'
      BY <1>2, <1>10, <2>2, <3>1 DEF FetchedOf, LatchedNext
    <3>. QED
      BY <1>2, <1>3, <1>11, <2>2, <3>2
  <2>. QED
    BY <2>1, <2>2 DEF LineInv
<1>. QED
  BY <1>2, <1>3, <1>4, <1>11, <1>12

\* A pixel f to the right of a tile's left edge lies in that tile.
LEMMA PixelInTile ==
  ASSUME NEW a \in Scrolls, NEW k \in Nat, NEW l \in Nat, NEW f \in 0 .. 7, NEW t, NEW w,
         w = [x |-> (8 * k + a.x + f) % 512, y |-> (l + a.y) % 480]
  PROVE  /\ RowAt(t, w) = RowAt(t, Place(a, k, l))
         /\ QuarterAt(w) = QuarterAt(Place(a, k, l))
         /\ w.x % 8 = f
<1>. DEFINE c == Column(a, k)
            x == 8 * c + f
            z == 8 * c
            y == (l + a.y) % 480
<1>1. c \in 0 .. 63 /\ w = [x |-> x, y |-> y]
  BY Moved
<1>2. Place(a, k, l) = [x |-> z, y |-> y] /\ y \in 0 .. 479
  BY PlaceOfTile
<1>3. /\ x \in 0 .. 511 /\ z \in 0 .. 511 /\ x \div 8 = z \div 8 /\ x % 8 = f
  <2>. HIDE DEF c
  <2>. QED
    BY <1>1
<1>. HIDE DEF c, x, z, y
<1>4. /\ TileAt([x |-> x, y |-> y]) = TileAt([x |-> z, y |-> y])
      /\ QuarterAt([x |-> x, y |-> y]) = QuarterAt([x |-> z, y |-> y])
  BY <1>2, <1>3, SameTile
<1>. QED
  BY <1>1, <1>2, <1>3, <1>4 DEF RowAt

LEMMA PixelStep ==
  ASSUME IInv, Step, TypeOK'
  PROVE  PixelAsScrolled'
<1>1. CASE ~Visible
  BY <1>1 DEF Step, PixelAsScrolled, Nothing
<1>2. CASE Visible
  <2>1. /\ line \in 0 .. LAST_VISIBLE_SCANLINE /\ dot \in 1 .. LAST_VISIBLE_CYCLE
        /\ TypeOK /\ asked = active
    BY <1>2 DEF IInv, Visible, START_VISIBLE_SCANLINE, START_VISIBLE_CYCLE
  <2>2. /\ Transferred = active /\ active' = active /\ table' = table
        /\ dot \in Nat /\ line \in Nat /\ LAST_VISIBLE_CYCLE \in Int
        /\ active \in Scrolls /\ fineX \in 0 .. 7
    <3>1. dot <= LAST_VISIBLE_CYCLE /\ line \in Nat /\ LAST_VISIBLE_CYCLE \in Int
      BY <2>1, Sizes
    <3>. QED
      BY <2>1, <3>1, Stays DEF TypeOK, RegisterTypes, TILE
  <2>. DEFINE k == (dot - 1) \div 8
              e == (dot - 1) % 8
  <2>3. /\ k \in Nat /\ e \in 0 .. 7 /\ dot - 1 = 8 * k + e /\ dot = 8 * k + 1 + e
    <3>1. dot - 1 \in Nat
      BY <2>1, <2>2
    <3>. QED
      BY <2>2, <3>1
  <2>4. 8 * k + 8 <= LAST_VISIBLE_CYCLE
    <3>. DEFINE n == LAST_VISIBLE_CYCLE \div 8
    <3>1. n \in Int /\ LAST_VISIBLE_CYCLE = 8 * n
      BY <2>2, Sizes
    <3>2. dot <= LAST_VISIBLE_CYCLE
      BY <2>1, <2>2
    <3>. HIDE DEF k, e, n
    <3>. QED
      BY <2>3, <3>1, <3>2
  <2>. HIDE DEF k, e
  <2>5. /\ ~torn' /\ (k >= 2 \/ ~overrun') => lower' = Drawn(table, Place(active, k, line))
        /\ ~torn' /\ (k >= 1 \/ ~overrun') => upper' = Drawn(table, Place(active, k + 1, line))
    BY <2>1, <2>3, <2>4, LineStep
  <2>. SUFFICES ASSUME pixel'.kind = "tile", ~torn', (overrun => TilesDrawnBefore >= 2)'
                PROVE  LET row == RowAt(table, wanted')
                       IN /\ pixel'.half = [lsb |-> row, msb |-> row,
                                            attribute |-> QuarterAt(wanted')]
                          /\ pixel'.offset % TILE = wanted'.x % TILE
    BY <2>2 DEF PixelAsScrolled, RowAt
  <2>6. /\ pixel'.x = 8 * k + e /\ pixel'.offset = e + fineX
        /\ pixel'.half = IF e + fineX < 8 THEN lower' ELSE upper'
    <3>1. pixel' = CalcBackgroundPixel
      BY <1>2 DEF Step
    <3>2. (8 * k + e) % 8 = e
      BY <2>3
    <3>3. (active.x + fineX) % 8 = fineX
      <4>1. PICK n \in 0 .. 63 : active.x = 8 * n
        BY <2>2 DEF Scrolls
      <4>. QED
        BY <2>2, <4>1
    <3>4. ~(dot < END_OF_LEFT_MOST_TILE_CYCLE /\ ~leftmost)
      BY <3>1 DEF CalcBackgroundPixel
    <3>5. CalcBackgroundPixel = [kind |-> "tile", x |-> 8 * k + e, offset |-> e + fineX,
                                 half |-> IF e + fineX < 8 THEN lower' ELSE upper']
      BY <2>2, <2>3, <3>2, <3>3, <3>4
         DEF CalcBackgroundPixel, START_VISIBLE_CYCLE, TILE, ScrollX
    <3>. QED
      BY <3>1, <3>5
  <2>7. wanted' = [x |-> (8 * k + e + active.x + fineX) % 512, y |-> (line + active.y) % 480]
    BY <1>2, <2>1, <2>3 DEF Step, Record, nametablesWidth, nametablesHeight
  <2>8. active.x \in Nat
    BY <2>2 DEF Scrolls
  <2>9. TilesDrawnBefore' = k + ((e + fineX) \div 8)
    <3>1. (8 * k + e) \div 8 = k
      BY <2>3
    <3>. QED
      BY <2>6, <3>1 DEF TilesDrawnBefore, TILE
  <2>10. CASE e + fineX < 8
    <3>. DEFINE f == e + fineX
    <3>1. f \in 0 .. 7 /\ 8 * k + e + active.x + fineX = 8 * k + active.x + f
      BY <2>2, <2>3, <2>8, <2>10
    <3>2. /\ RowAt(table, wanted') = RowAt(table, Place(active, k, line))
          /\ QuarterAt(wanted') = QuarterAt(Place(active, k, line)) /\ wanted'.x % 8 = f
      <4>1. wanted' = [x |-> (8 * k + active.x + f) % 512, y |-> (line + active.y) % 480]
        BY <2>7, <3>1
      <4>2. \A w : w = [x |-> (8 * k + active.x + f) % 512, y |-> (line + active.y) % 480]
                  => /\ RowAt(table, w) = RowAt(table, Place(active, k, line))
                     /\ QuarterAt(w) = QuarterAt(Place(active, k, line)) /\ w.x % 8 = f
        <5>1. f \in 0 .. 7 /\ k \in Nat /\ line \in Nat /\ active \in Scrolls
          BY <2>2, <2>3, <3>1
        <5>. HIDE DEF f
        <5>2. TAKE w
        <5>3. HAVE w = [x |-> (8 * k + active.x + f) % 512, y |-> (line + active.y) % 480]
        <5>. QED
          BY <5>1, <5>3, PixelInTile
      <4>. QED
        BY <4>1, <4>2
    <3>3. overrun' => k >= 2
      <4>1. f \div 8 = 0
        <5>. HIDE DEF f
        <5>. QED
          BY <3>1
      <4>. QED
        BY <2>3, <2>9, <4>1
    <3>4. pixel'.half = Drawn(table, Place(active, k, line))
      BY <2>3, <2>5, <2>6, <2>10, <3>3
    <3>5. pixel'.offset % 8 = f
      BY <2>6, <3>1
    <3>. HIDE DEF f
    <3>. QED
      BY <3>2, <3>4, <3>5 DEF Drawn, TILE
  <2>11. CASE e + fineX >= 8
    <3>. DEFINE f == e + fineX - 8
                j == k + 1
    <3>1. /\ f \in 0 .. 7 /\ 8 * k + e + active.x + fineX = 8 * j + active.x + f
          /\ j \in Nat /\ e + fineX = 8 + f
      BY <2>2, <2>3, <2>8, <2>11
    <3>2. /\ RowAt(table, wanted') = RowAt(table, Place(active, j, line))
          /\ QuarterAt(wanted') = QuarterAt(Place(active, j, line)) /\ wanted'.x % 8 = f
      <4>1. wanted' = [x |-> (8 * j + active.x + f) % 512, y |-> (line + active.y) % 480]
        BY <2>7, <3>1
      <4>2. \A w : w = [x |-> (8 * j + active.x + f) % 512, y |-> (line + active.y) % 480]
                  => /\ RowAt(table, w) = RowAt(table, Place(active, j, line))
                     /\ QuarterAt(w) = QuarterAt(Place(active, j, line)) /\ w.x % 8 = f
        <5>. HIDE DEF f, j
        <5>. QED
          BY <2>2, <2>3, <3>1, PixelInTile
      <4>. QED
        BY <4>1, <4>2
    <3>3. overrun' => k >= 1
      <4>1. (8 + f) \div 8 = 1
        <5>. HIDE DEF f
        <5>. QED
          BY <3>1
      <4>. QED
        BY <2>3, <2>9, <3>1, <4>1
    <3>4. pixel'.half = Drawn(table, Place(active, j, line))
      <4>1. ~(e + fineX < 8)
        BY <2>2, <2>3, <2>11
      <4>. QED
        BY <2>5, <2>6, <3>3, <4>1
    <3>5. pixel'.offset % 8 = f
      <4>1. (8 + f) % 8 = f
        <5>. HIDE DEF f
        <5>. QED
          BY <3>1
      <4>. QED
        BY <2>6, <3>1, <4>1
    <3>. HIDE DEF f, j
    <3>. QED
      BY <3>2, <3>4, <3>5 DEF Drawn, TILE
  <2>. QED
    BY <2>2, <2>3, <2>10, <2>11
<1>. QED
  BY <1>1, <1>2

\* A step, wherever in the picture.
LEMMA DotInv ==
  ASSUME IInv, Step, TypeOK'
  PROVE  AheadInv' /\ LineInv'
<1>1. /\ TypeOK /\ dot \in Nat /\ line \in Int /\ dot <= LAST_CYCLE /\ line >= -1
      /\ LAST_CYCLE = FIRST + 19 /\ FIRST \in Int /\ LAST_VISIBLE_CYCLE \in Int
      /\ LAST_VISIBLE_SCANLINE \in Int /\ LAST_VISIBLE_SCANLINE >= 0
      /\ FIRST > LAST_VISIBLE_CYCLE + 2 /\ LAST_VISIBLE_CYCLE >= 16
  BY Sizes DEF IInv, TypeOK, PlaceTypes, PRE_SCANLINE
<1>2. /\ dot < LAST_CYCLE => dot' = dot + 1 /\ line' = line
      /\ dot = LAST_CYCLE => dot' = 0 /\ (line' = -1 \/ line' = line + 1)
  BY <1>1 DEF Step, NextPosition, PRE_SCANLINE
<1>3. CASE dot \in LAST_VISIBLE_CYCLE + 1 .. FIRST - 1
  BY <1>1, <1>2, <1>3, PastLine, BeforeAhead
<1>4. CASE dot <= LAST_VISIBLE_CYCLE /\ line \notin 0 .. LAST_VISIBLE_SCANLINE
  BY <1>1, <1>2, <1>4, PastLine, BeforeAhead
<1>5. CASE dot >= FIRST /\ line >= LAST_VISIBLE_SCANLINE
  <2>1. CASE dot < LAST_CYCLE
    BY <1>1, <1>2, <1>5, <2>1, PastLine, BeforeAhead
  <2>2. CASE dot = LAST_CYCLE
    BY <1>1, <1>2, <1>5, <2>2, PastLine, BeforeAhead
  <2>. QED
    BY <1>1, <2>1, <2>2
<1>6. CASE dot >= FIRST /\ line < LAST_VISIBLE_SCANLINE
  <2>1. line \in -1 .. LAST_VISIBLE_SCANLINE - 1
    BY <1>1, <1>6
  <2>2. dot \in FIRST .. FIRST + 15 \/ dot \in FIRST + 16 .. FIRST + 19
    BY <1>1, <1>6
  <2>. QED
    BY <2>1, <2>2, AheadStep, RestStep
<1>7. CASE dot = 0 /\ line \in 0 .. LAST_VISIBLE_SCANLINE
  BY <1>7, LineStart
<1>8. CASE dot \in 1 .. LAST_VISIBLE_CYCLE /\ line \in 0 .. LAST_VISIBLE_SCANLINE
  <2>. DEFINE k == (dot - 1) \div 8
              e == (dot - 1) % 8
              n == LAST_VISIBLE_CYCLE \div 8
  <2>1. k \in Nat /\ e \in 0 .. 7 /\ dot = 8 * k + 1 + e
    <3>1. dot - 1 \in Nat
      BY <1>1, <1>8
    <3>. QED
      BY <1>1, <3>1
  <2>2. n \in Int /\ LAST_VISIBLE_CYCLE = 8 * n
    BY <1>1, Sizes
  <2>. HIDE DEF k, e, n
  <2>3. 8 * k + 8 <= LAST_VISIBLE_CYCLE
    BY <1>1, <1>8, <2>1, <2>2
  <2>. QED
    BY <1>8, <2>1, <2>3, LineStep
<1>. QED
  BY <1>1, <1>3, <1>4, <1>5, <1>6, <1>7, <1>8

-----------------------------------------------------------------------------
LEMMA InitInv ==
  ASSUME Init
  PROVE  IInv
<1>1. TypeOK
  BY InitTypes
<1>2. /\ dot = 0 /\ line = -1 /\ asked = active /\ pixel.kind # "tile"
      /\ FIRST > 0
  BY Sizes DEF Init, Nothing, PRE_SCANLINE
<1>3. AheadInv
  BY <1>2, Sizes DEF AheadInv
<1>4. LineInv
  BY <1>2 DEF LineInv, START_VISIBLE_SCANLINE
<1>. QED
  BY <1>1, <1>2, <1>3, <1>4 DEF IInv, PixelAsScrolled

\* The invariant is of the variables alone.
LEMMA StutterInv ==
  ASSUME IInv, UNCHANGED vars
  PROVE  IInv'
<1>. USE DEF vars, registers, latches, history
<1>1. TypeOK' /\ (asked = active)'
  BY DEF IInv, TypeOK, PlaceTypes, RegisterTypes, LatchTypes, ShiftTypes, HistoryTypes
<1>2. AheadInv'
  BY DEF IInv, AheadInv, FetchedOf, Drawn
<1>3. LineInv'
  BY DEF IInv, LineInv, FetchedOf, Drawn
<1>4. PixelAsScrolled'
  BY DEF IInv, PixelAsScrolled, TilesDrawnBefore
<1>. QED
  BY <1>1, <1>2, <1>3, <1>4 DEF IInv

LEMMA StepInv ==
  ASSUME IInv, [Next]_vars
  PROVE  IInv'
<1>1. CASE Step
  <2>1. TypeOK'
    BY <1>1, StepTypes DEF IInv
  <2>. QED
    BY <1>1, <2>1, AskedInv, DotInv, PixelStep DEF IInv
<1>2. CASE ProgramWrite
  <2>1. TypeOK'
    BY <1>2, WriteTypes DEF IInv
  <2>. QED
    BY <1>2, <2>1, AskedInv, WriteInv DEF IInv
<1>3. CASE UNCHANGED vars
  BY <1>3, StutterInv
<1>. QED
  BY <1>1, <1>2, <1>3 DEF Next

-----------------------------------------------------------------------------
(***************************************************************************)
(* What holds of the background for every length of the lines, every       *)
(* mirroring and every scroll the program asks for.                        *)
(***************************************************************************)
\* The invariant: what the four latches hold at each dot of a fetch, and the
\* two halves of the registers at each dot of a line.
THEOREM BackgroundInvariance == Spec => []IInv
<1>1. Init => IInv
  BY InitInv
<1>2. IInv /\ [Next]_vars => IInv'
  BY StepInv
<1>. QED
  BY <1>1, <1>2, PTL DEF Spec

\* The dot stays on the picture and every latch holds what a fetch may put
\* there (Ppu::calcNextPosition, the fields of PpuRegisters).
THEOREM BackgroundTypes == Spec => []TypeOK
<1>1. IInv => TypeOK
  BY DEF IInv
<1>. QED
  BY <1>1, BackgroundInvariance, PTL

\* No dot makes backgroundFetch or LocalFromGlobalPos throw, whatever scroll
\* the program sets between the four dots of a fetch.
THEOREM FetchNeverThrows == Spec => []FetchIsValid
<1>. QED
  BY BackgroundTypes, FetchIsValidFromTypes, PTL

\* Each pixel is drawn with the bytes of the tile that the scroll puts there,
\* fetched by up to sixteen dots before (backgroundFetch, CalcNextFetchPixel
\* and CalcBackgroundPixel together).
THEOREM PixelsAsScrolled == Spec => []PixelAsScrolled
<1>1. IInv => PixelAsScrolled
  BY DEF IInv
<1>. QED
  BY <1>1, BackgroundInvariance, PTL
=============================================================================
