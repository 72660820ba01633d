------------------------------ MODULE Sprites ------------------------------
(***************************************************************************)
(* The sprites of a line: Ppu::SpriteFetch, CalcForgroundPixel and         *)
(* CalcFinalPixel in PPU/Ppu.cpp, and PPU/OamSecondary.cpp.                *)
(*                                                                         *)
(* A line's sprites are chosen at one dot of the line before, their tiles  *)
(* are fetched at a later one, and they are shown in the line itself, while*)
(* the program may change OAM and the registers between any two dots.      *)
(*                                                                         *)
(* Secondary OAM and the active buffer are lists in the order of the       *)
(* sprites' numbers; here they are functions on sets of those numbers.     *)
(* The background of a pixel is opaque or not as it may be.                *)
(***************************************************************************)
EXTENDS Integers, FiniteSets

CONSTANTS Count,            \* sprites in OAM: 64
          Limit,            \* sprites on a line before it overflows: 8
          TileWidth, TileHeight,
          Ys, Tiles, Attrs, Xs,   \* what the four bytes of a sprite may be
          WrittenMasks,     \* what the program writes to $2001
          Opaque(_, _, _, _),     \* a pixel of a table's tile, by row, column
          LastVisibleLine, LastLine,
          LeftEnd,          \* END_OF_LEFT_MOST_TILE_CYCLE: 8
          Evaluation,       \* START_SPRITE_EVALUATION_CYCLE: 65
          LastVisible,      \* LAST_VISIBLE_CYCLE: 256
          Fetch,            \* START_SPRITE_TILE_FETCH_CYCLE: 261
          LastDot

Byte == 0 .. 255
Indices == 0 .. Count - 1
PreLine == -1
Unknown == -1

Sprite == [y : Ys, tile : Tiles, attr : Attrs, x : Xs]
Masks == [sprites : BOOLEAN, background : BOOLEAN,
          leftSprites : BOOLEAN, leftBackground : BOOLEAN]
NoMask == [sprites |-> FALSE, background |-> FALSE,
           leftSprites |-> FALSE, leftBackground |-> FALSE]

ASSUME SpriteAssumption ==
  /\ Count \in Nat \ {0} /\ Limit \in Nat
  /\ TileWidth \in Nat \ {0} /\ TileHeight \in Nat \ {0}
  /\ Ys \subseteq Byte /\ Tiles \subseteq Byte /\ Xs \subseteq Byte
  /\ WrittenMasks \subseteq Masks
  /\ Attrs \subseteq [behind : BOOLEAN, flipX : BOOLEAN, flipY : BOOLEAN]
  /\ \A t \in 0 .. 1, n \in Byte, r \in 0 .. TileHeight - 1, c \in 0 .. TileWidth - 1 :
       Opaque(t, n, r, c) \in BOOLEAN
ASSUME PictureAssumption ==
  /\ LastVisibleLine \in Nat /\ LastLine \in Nat /\ LastVisibleLine < LastLine
  /\ LeftEnd \in Nat /\ Evaluation \in Nat /\ LastVisible \in Nat
  /\ Fetch \in Nat /\ LastDot \in Nat
  /\ 1 < LeftEnd /\ LeftEnd < Evaluation /\ Evaluation < LastVisible
  /\ LastVisible < Fetch /\ Fetch < LastDot

VARIABLES line, dot,
          oam,             \* OamPrimary
          tall, table,     \* spriteSize and sprite8x8PatternTable
          mask,            \* the bits of PPUMASK
          fetched,         \* OamSecondary's sprites and fetchSpritesOamIndex
          buffer,          \* activeSpriteBuffer
          overflow, zeroHit,
          faulted          \* an exception has ended the emulator

registers == <<tall, table, mask>>
ports == <<overflow, zeroHit>>

\* History, read by no action.  pixel: what the last dot has drawn, until the
\* mask changes.  seen: what the last evaluation had before it, and for which
\* line.  shown: the same of the last fetch.  met: where in this frame sprite
\* zero has met the background, or that the program has written so.  meddled:
\* the program has written $2002 since the last evaluation.
VARIABLES pixel, seen, shown, met, meddled

history == <<pixel, seen, shown, met, meddled>>
vars == <<line, dot, oam, registers, fetched, buffer, ports, faulted, history>>

NoPixel == [x |-> Unknown, sprite |-> Unknown, background |-> FALSE, from |-> "none"]
NothingSeen(o) == [line |-> PreLine, oam |-> o, tall |-> FALSE]
NothingShown(o) == [line |-> PreLine, oam |-> o, tall |-> FALSE,
                    fetchTall |-> FALSE, table |-> 0]

\* OAM begins as whatever an earlier cartridge has left there.
TopOfPicture ==
        /\ line = PreLine /\ dot = 0
        /\ oam \in [Indices -> Sprite]
        /\ fetched = [i \in {} |-> 0] /\ buffer = [i \in {} |-> 0]
        /\ overflow = FALSE /\ zeroHit = FALSE
        /\ faulted = FALSE
        /\ pixel = NoPixel
        /\ seen = NothingSeen(oam) /\ shown = NothingShown(oam)
        /\ met = {} /\ meddled = FALSE

Init == TopOfPicture /\ tall = FALSE /\ table = 0 /\ mask = NoMask

-----------------------------------------------------------------------------
(***************************************************************************)
(* SpriteFetch, for the line that follows.                                 *)
(***************************************************************************)
Height(t) == IF t THEN 2 * TileHeight ELSE TileHeight

TooFarMutant(s, l, t) == s.y <= l /\ l <= s.y + Height(t)

Covers(s, l, t) == s.y <= l /\ l < s.y + Height(t)

LateOverflowMutant(sprites) == Cardinality(DOMAIN sprites) > Limit + 1

TooMany(sprites) == Cardinality(DOMAIN sprites) > Limit

\* CalcSpriteBuffer: the row of the sprite that line l shows, over both of its
\* tiles; there may be none, if the sprite was chosen by another height.
Row(s, l, t) == IF s.attr.flipY THEN Height(t) - 1 - (l - s.y) ELSE l - s.y

NotContained(s, l, t) == Row(s, l, t) < 0 \/ (~t /\ Row(s, l, t) >= TileHeight)

\* An 8 x 16 sprite's number says the table and the first of its two tiles.
Columns(s, l, t, tab) ==
  LET row    == Row(s, l, t)
      fromTable == IF t THEN s.tile % 2 ELSE tab
      tile   == IF ~t THEN s.tile
                ELSE (s.tile \div 2) + (IF row < TileHeight THEN 0 ELSE 1)
      Column(c) == IF s.attr.flipX THEN TileWidth - 1 - c ELSE c
  IN {c \in 0 .. TileWidth - 1 : Opaque(fromTable, tile, row % TileHeight, Column(c))}

ForNextLine == line + 1 <= LastVisibleLine

ClearFetchData == /\ fetched' = [i \in {} |-> 0]
                  /\ UNCHANGED <<buffer, overflow, seen, shown, meddled>>

Evaluate ==
  /\ fetched' = [i \in {j \in Indices : Covers(oam[j], line + 1, tall)} |-> oam[i]]
  /\ overflow' = TooMany(fetched')
  /\ UNCHANGED buffer
  /\ seen' = [line |-> line + 1, oam |-> oam, tall |-> tall]
  /\ meddled' = FALSE
  /\ UNCHANGED shown

FetchTiles ==
  /\ \A i \in DOMAIN fetched : ~NotContained(fetched[i], line + 1, tall)
  /\ buffer' = [i \in DOMAIN fetched |->
                  [sprite  |-> fetched[i],
                   columns |-> Columns(fetched[i], line + 1, tall, table)]]
  /\ UNCHANGED <<fetched, overflow>>
  /\ shown' = [line |-> line + 1, oam |-> seen.oam, tall |-> seen.tall,
               fetchTall |-> tall, table |-> table]
  /\ UNCHANGED <<seen, meddled>>

NoFetch == UNCHANGED <<fetched, buffer, overflow, seen, shown, meddled>>

SpriteFetch ==
  IF ~ForNextLine THEN NoFetch
  ELSE CASE dot = 1          -> ClearFetchData
         [] dot = Evaluation -> Evaluate
         [] dot = Fetch      -> FetchTiles
         [] OTHER            -> NoFetch

-----------------------------------------------------------------------------
(***************************************************************************)
(* The pixel of a dot.                                                     *)
(***************************************************************************)
X == dot - 1

Candidates == {i \in DOMAIN buffer : X - buffer[i].sprite.x \in buffer[i].columns}

Least(S) == CHOOSE i \in S : \A j \in S : i <= j

LastMutant == IF Candidates = {} \/ (dot < LeftEnd /\ ~mask.leftSprites) THEN Unknown
              ELSE CHOOSE i \in Candidates : \A j \in Candidates : i >= j

\* CalcForgroundPixel, of the PPU and of OamSecondary.
Frontmost == IF Candidates = {} \/ (dot < LeftEnd /\ ~mask.leftSprites) THEN Unknown
             ELSE Least(Candidates)

\* CalcBackgroundPixel, where the tile at that place is opaque, or is not.
BackgroundAt(opaque) == opaque /\ (dot >= LeftEnd \/ mask.leftBackground)

\* CalcFinalPixel.
Source(sprite, background) ==
  LET under == IF background THEN "background" ELSE "backdrop"
  IN IF ~mask.sprites \/ sprite = Unknown THEN under
     ELSE IF ~mask.background \/ ~background THEN "sprite"
     ELSE IF buffer[sprite].sprite.attr.behind THEN under ELSE "sprite"

HitsHere == /\ mask.sprites /\ mask.background
            /\ dot > LeftEnd \/ (mask.leftBackground /\ mask.leftSprites)
            /\ dot # LastVisible - 1

\* What the picture should have there: sprite i of the OAM that was evaluated
\* for this line, in the tiles of the registers that they were fetched with.
Shows(i, x) ==
  LET s == shown.oam[i]
  IN Covers(s, line, shown.tall)
     /\ x - s.x \in Columns(s, line, shown.fetchTall, shown.table)

\* A nonzero pixel of sprite 0 overlaps a nonzero background pixel
\* (PpuRegisters.h:67): both are shown, and neither is hidden at the left.
Overlap(opaque) ==
  /\ mask.sprites /\ mask.background
  /\ Shows(0, X) /\ opaque
  /\ X + 1 < LeftEnd => mask.leftSprites /\ mask.leftBackground

\* Two columns at which the code takes no notice of an overlap: the last but
\* one, and the one beside the hidden part of the line, which the picture shows.
Uncounted == {"lastButOne", "besideHidden"}

Place == CASE X = LastVisible - 2 -> "lastButOne"
           [] X = LeftEnd - 1 /\ ~(mask.leftSprites /\ mask.leftBackground) -> "besideHidden"
           [] OTHER -> "elsewhere"

DrawPixel ==
  \E opaque \in BOOLEAN :
    LET sprite == Frontmost
        background == BackgroundAt(opaque)
    IN /\ zeroHit' = (zeroHit \/ (sprite = 0 /\ background /\ HitsHere))
       /\ pixel' = [x |-> X, sprite |-> sprite, background |-> background,
                    from |-> Source(sprite, background)]
       /\ met' = IF Overlap(opaque) THEN met \cup {Place} ELSE met

Visible == line \in 0 .. LastVisibleLine /\ dot \in 1 .. LastVisible

-----------------------------------------------------------------------------
NextPosition ==
  IF dot < LastDot THEN dot' = dot + 1 /\ line' = line
  ELSE dot' = 0 /\ line' = IF line < LastLine THEN line + 1 ELSE PreLine

KeepHitMutant == /\ line = PreLine /\ dot = 1
                 /\ fetched' = [i \in {} |-> 0]
                 /\ overflow' = FALSE /\ zeroHit' = zeroHit
                 /\ met' = {}
                 /\ pixel' = NoPixel
                 /\ UNCHANGED <<buffer, seen, shown, meddled>>

\* Dot 1 of the pre-render line clears the flags, and the fetch data with them.
StartFrame == /\ line = PreLine /\ dot = 1
              /\ fetched' = [i \in {} |-> 0]
              /\ overflow' = FALSE /\ zeroHit' = FALSE
              /\ met' = {}
              /\ pixel' = NoPixel
              /\ UNCHANGED <<buffer, seen, shown, meddled>>

DrawDot == Visible /\ SpriteFetch /\ DrawPixel

BlankDot == /\ ~Visible /\ ~(line = PreLine /\ dot = 1)
            /\ SpriteFetch
            /\ pixel' = NoPixel
            /\ UNCHANGED <<zeroHit, met>>

Dot == /\ ~faulted
       /\ StartFrame \/ DrawDot \/ BlankDot
       /\ NextPosition
       /\ UNCHANGED <<oam, registers, faulted>>

\* CalcSpriteBuffer throws; nothing catches it.
DotFails == /\ ~faulted
            /\ ForNextLine /\ dot = Fetch
            /\ \E i \in DOMAIN fetched : NotContained(fetched[i], line + 1, tall)
            /\ faulted' = TRUE
            /\ UNCHANGED <<line, dot, oam, registers, fetched, buffer, ports, history>>

-----------------------------------------------------------------------------
WriteCtrl(size, tab) ==
  /\ ~faulted
  /\ tall' = size /\ table' = tab
  /\ UNCHANGED <<line, dot, oam, mask, fetched, buffer, ports, faulted, history>>

WriteMask(m) ==
  /\ ~faulted
  /\ mask' = m
  /\ pixel' = NoPixel
  /\ UNCHANGED <<line, dot, oam, tall, table, fetched, buffer, ports, faulted,
                 seen, shown, met, meddled>>

\* A write of $2002 stores its bits.
WriteStatus(o, z) ==
  /\ ~faulted
  /\ overflow' = o /\ zeroHit' = z
  /\ met' = {w \in {"written"} : z} /\ meddled' = TRUE
  /\ UNCHANGED <<line, dot, oam, registers, fetched, buffer, faulted, pixel, seen, shown>>

\* One byte of OAM, by $2004 or by the DMA.
WriteOam(i) ==
  /\ ~faulted
  /\ \/ \E y \in Ys : oam' = [oam EXCEPT ![i].y = y]
     \/ \E n \in Tiles : oam' = [oam EXCEPT ![i].tile = n]
     \/ \E a \in Attrs : oam' = [oam EXCEPT ![i].attr = a]
     \/ \E x \in Xs : oam' = [oam EXCEPT ![i].x = x]
  /\ UNCHANGED <<line, dot, registers, fetched, buffer, ports, faulted, history>>

\* OAM, secondary OAM and the active buffer stay as they are.
PowerCycle ==
  /\ ~faulted
  /\ line' = PreLine /\ dot' = 0
  /\ tall' = FALSE /\ table' = 0 /\ mask' = NoMask
  /\ overflow' = FALSE /\ zeroHit' = FALSE
  /\ UNCHANGED <<oam, fetched, buffer, faulted>>
  /\ pixel' = NoPixel
  /\ met' = {} /\ meddled' = TRUE
  /\ UNCHANGED <<seen, shown>>

ProgramStep == \/ \E size \in BOOLEAN, tab \in 0 .. 1 : WriteCtrl(size, tab)
               \/ \E m \in WrittenMasks : WriteMask(m)
               \/ \E o, z \in BOOLEAN : WriteStatus(o, z)
               \/ \E i \in Indices : WriteOam(i)

Next == Dot \/ DotFails \/ ProgramStep \/ PowerCycle

Spec == Init /\ [][Next]_vars

-----------------------------------------------------------------------------
Entry == [sprite : Sprite, columns : SUBSET (0 .. TileWidth - 1)]

TypeOK ==
  /\ line \in PreLine .. LastLine /\ dot \in 0 .. LastDot
  /\ oam \in [Indices -> Sprite]
  /\ tall \in BOOLEAN /\ table \in 0 .. 1 /\ mask \in Masks
  /\ DOMAIN fetched \subseteq Indices /\ \A i \in DOMAIN fetched : fetched[i] \in Sprite
  /\ DOMAIN buffer \subseteq Indices /\ \A i \in DOMAIN buffer : buffer[i] \in Entry
  /\ overflow \in BOOLEAN /\ zeroHit \in BOOLEAN /\ faulted \in BOOLEAN
  /\ pixel \in [x : Unknown .. LastVisible, sprite : Unknown .. Count - 1,
                background : BOOLEAN,
                from : {"none", "background", "backdrop", "sprite"}]
  /\ seen \in [line : PreLine .. LastLine, oam : [Indices -> Sprite], tall : BOOLEAN]
  /\ shown \in [line : PreLine .. LastLine, oam : [Indices -> Sprite],
                tall : BOOLEAN, fetchTall : BOOLEAN, table : 0 .. 1]
  /\ met \subseteq {"lastButOne", "besideHidden", "elsewhere", "written"}
  /\ meddled \in BOOLEAN

(***************************************************************************)
(* A pixel shows the first sprite in OAM, as it was when the line was      *)
(* evaluated, that is opaque there, and none if there is none or the left  *)
(* of the line hides them.  OAM, the registers and the next line's sprites *)
(* may all have changed since.                                             *)
(***************************************************************************)
PixelAsEvaluated ==
  LET opaque == {i \in Indices : Shows(i, pixel.x)}
  IN pixel.x # Unknown =>
       pixel.sprite = IF opaque = {} \/ (pixel.x + 1 < LeftEnd /\ ~mask.leftSprites)
                      THEN Unknown ELSE Least(opaque)

(***************************************************************************)
(* The sprite zero flag is up if and only if in this frame's picture an    *)
(* opaque pixel of sprite zero, as it was evaluated, has lain over an      *)
(* opaque one of the background, or the program has written the flag: no   *)
(* other sprite hides a hit and none counts for sprite zero.  Uncounted is *)
(* where the code falls short of PpuRegisters.h:67: an overlap at x = 254  *)
(* (Ppu.cpp:315 tests dot 255, where x is one less), or at x = 7 beside a  *)
(* hidden left of the line, sets no flag, though the picture shows it.     *)
(***************************************************************************)
ZeroHitMeansMet == zeroHit <=> met \ Uncounted # {}

(***************************************************************************)
(* From the fetch of a line's sprites until the next evaluation, the       *)
(* overflow flag says whether more than eight are shown, unless the program*)
(* has written it.                                                         *)
(***************************************************************************)
OverflowAnnounced ==
  (/\ line \in 0 .. LastVisibleLine /\ dot <= Evaluation
   /\ ~meddled) => (overflow <=> Cardinality(DOMAIN buffer) > Limit)

(***************************************************************************)
(* The fetch fails only if the program has switched from 8 x 16 sprites to *)
(* 8 x 8 since the evaluation.                                             *)
(***************************************************************************)
FailsOnlyBySwitch == faulted => seen.tall /\ ~tall

(***************************************************************************)
(* CalcSpriteBuffer's check, that the line contains the sprite, never      *)
(* fails.                                                                  *)
(***************************************************************************)
LineContainsSprites == ~faulted
=============================================================================
