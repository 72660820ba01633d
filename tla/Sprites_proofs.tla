--------------------------- MODULE Sprites_proofs ---------------------------
(***************************************************************************)
(* Theorems about Sprites: whatever the program changes and whenever, a    *)
(* line shows the sprites it was evaluated with, sprite zero hits when it  *)
(* is seen, and the fetch fails for one reason only.                       *)
(***************************************************************************)
EXTENDS Sprites, TLAPS, WellFoundedInduction

\* The line that a fetch or an evaluation before this dot was for, if the
\* fetch or evaluation is at dot d of each line.
LineAfter(d) == IF dot > d THEN line + 1 ELSE line

\* The active buffer is made of the sprites of the last fetch.
BufferOf(s) == [i \in {j \in Indices : Covers(s.oam[j], s.line, s.tall)} |->
                  [sprite  |-> s.oam[i],
                   columns |-> Columns(s.oam[i], s.line, s.fetchTall, s.table)]]
FetchedOf(s) == [i \in {j \in Indices : Covers(s.oam[j], s.line, s.tall)} |-> s.oam[i]]

FetchedAsSeen ==
  (line < LastVisibleLine /\ dot > Evaluation)
    => seen.line = line + 1 /\ fetched = FetchedOf(seen)

BufferAsShown ==
  LineAfter(Fetch) \in 0 .. LastVisibleLine
    => shown.line = LineAfter(Fetch) /\ buffer = BufferOf(shown)

\* The flag is ahead of the buffer from the evaluation to the fetch.
OverflowIsAhead ==
  ~meddled =>
    /\ line < LastVisibleLine /\ dot > Evaluation /\ dot <= Fetch
         => (overflow <=> Cardinality(DOMAIN fetched) > Limit)
    /\ line < LastVisibleLine /\ dot > Fetch
         => (overflow <=> Cardinality(DOMAIN buffer) > Limit)

PixelPlace == pixel.x # Unknown => /\ line \in 0 .. LastVisibleLine
                                   /\ pixel.x \in 0 .. LastVisible - 1
                                   /\ dot = pixel.x + 2

SpriteInv == /\ TypeOK
             /\ FetchedAsSeen
             /\ BufferAsShown
             /\ OverflowIsAhead /\ OverflowAnnounced
             /\ PixelPlace /\ PixelAsEvaluated
             /\ ZeroHitMeansMet
             /\ FailsOnlyBySwitch

-----------------------------------------------------------------------------
\* The constants, as the provers use them.
LEMMA Dots ==
  /\ LastVisibleLine \in Int /\ LastLine \in Int /\ 0 <= LastVisibleLine
  /\ LastVisibleLine < LastLine
  /\ LeftEnd \in Int /\ Evaluation \in Int /\ LastVisible \in Int /\ Fetch \in Int
  /\ LastDot \in Int
  /\ 1 < LeftEnd /\ LeftEnd < Evaluation /\ Evaluation < LastVisible
  /\ LastVisible < Fetch /\ Fetch < LastDot
BY PictureAssumption

LEMMA FetchCases ==
  ASSUME SpriteFetch
  PROVE  \/ ForNextLine /\ dot = 1 /\ ClearFetchData
         \/ ForNextLine /\ dot = Evaluation /\ Evaluate
         \/ ForNextLine /\ dot = Fetch /\ FetchTiles
         \/ (ForNextLine => dot # 1 /\ dot # Evaluation /\ dot # Fetch) /\ NoFetch
BY Dots DEF SpriteFetch

\* The least of some numbers of sprites, and when it is zero.
LEMMA LeastIndex ==
  ASSUME NEW S \in SUBSET Indices, S # {}
  PROVE  /\ Least(S) \in S
         /\ Least(S) = 0 <=> 0 \in S
<1>1. S \subseteq Nat
  BY SpriteAssumption DEF Indices
<1>2. \E x \in S : \A y \in S : ~(<<y, x>> \in OpToRel(<, Nat))
  BY <1>1, NatLessThanWellFounded, WFMin
<1>3. \A x, y \in Nat : y < x => <<y, x>> \in OpToRel(<, Nat)
  BY DEF OpToRel
<1>4. \A x, y \in Nat : ~(y < x) => x <= y
  OBVIOUS
<1>5. \E x \in S : \A y \in S : x <= y
  BY <1>1, <1>2, <1>3, <1>4
<1>6. Least(S) \in S /\ \A y \in S : Least(S) <= y
  BY <1>5 DEF Least
<1>7. \A m \in Nat : m <= 0 => m = 0
  OBVIOUS
<1> QED BY <1>1, <1>6, <1>7

-----------------------------------------------------------------------------
\* A sprite has columns of its tile, if anything.
LEMMA ColumnsType ==
  ASSUME NEW s, NEW l, NEW t, NEW tab
  PROVE  Columns(s, l, t, tab) \in SUBSET (0 .. TileWidth - 1)
BY DEF Columns

\* The buffer of a line has the candidates that it should have.
LEMMA CandidatesShow ==
  ASSUME TypeOK, BufferAsShown, Visible
  PROVE  Candidates = {i \in Indices : Shows(i, X)}
<1>1. LineAfter(Fetch) = line /\ line \in 0 .. LastVisibleLine
  BY Dots DEF Visible, LineAfter
<1>2. shown.line = line /\ buffer = BufferOf(shown)
  BY <1>1 DEF BufferAsShown
<1> QED BY <1>2 DEF Candidates, Shows, BufferOf

LEMMA FrontmostShows ==
  ASSUME TypeOK, BufferAsShown, Visible
  PROVE  /\ Frontmost \in Unknown .. Count - 1
         /\ Frontmost = IF {i \in Indices : Shows(i, X)} = {}
                           \/ (dot < LeftEnd /\ ~mask.leftSprites)
                        THEN Unknown ELSE Least({i \in Indices : Shows(i, X)})
         /\ Frontmost = 0 <=> Shows(0, X) /\ (dot >= LeftEnd \/ mask.leftSprites)
<1> DEFINE S == {i \in Indices : Shows(i, X)}
<1>1. Frontmost = IF S = {} \/ (dot < LeftEnd /\ ~mask.leftSprites)
                  THEN Unknown ELSE Least(S)
  BY CandidatesShow DEF Frontmost
<1>2. S # {} => Least(S) \in S /\ (Least(S) = 0 <=> 0 \in S)
  BY LeastIndex
<1>3. S \subseteq Indices /\ (0 \in S <=> Shows(0, X)) /\ Count \in Nat
  BY SpriteAssumption DEF Indices
<1>4. dot \in Int
  BY Dots DEF TypeOK
<1>5. dot >= LeftEnd <=> ~(dot < LeftEnd)
  BY <1>4, Dots
<1> HIDE DEF S
<1>6. Frontmost \in Unknown .. Count - 1
  BY <1>1, <1>2, <1>3 DEF Indices, Unknown
<1>7. Frontmost = 0 <=> Shows(0, X) /\ (dot >= LeftEnd \/ mask.leftSprites)
  BY <1>1, <1>2, <1>3, <1>5 DEF Unknown
<1> QED BY <1>1, <1>6, <1>7 DEF S

-----------------------------------------------------------------------------
LEMMA NoPixelType == NoPixel \in [x : Unknown .. LastVisible, sprite : Unknown .. Count - 1,
                                  background : BOOLEAN,
                                  from : {"none", "background", "backdrop", "sprite"}]
BY Dots, SpriteAssumption DEF NoPixel, Unknown

LEMMA SpriteInit == Init => SpriteInv
<1> SUFFICES ASSUME Init PROVE SpriteInv
  OBVIOUS
<1> USE DEF Init, TopOfPicture
<1>1. TypeOK
  <2>1. PreLine \in PreLine .. LastLine /\ 0 \in 0 .. LastDot /\ 0 \in 0 .. 1
    BY Dots DEF PreLine
  <2>2. NothingSeen(oam) \in [line : PreLine .. LastLine, oam : [Indices -> Sprite],
                              tall : BOOLEAN]
    BY <2>1 DEF NothingSeen
  <2>3. NothingShown(oam) \in [line : PreLine .. LastLine, oam : [Indices -> Sprite],
                               tall : BOOLEAN, fetchTall : BOOLEAN, table : 0 .. 1]
    BY <2>1 DEF NothingShown
  <2>4. NoMask \in Masks
    BY DEF NoMask, Masks
  <2> QED BY <2>1, <2>2, <2>3, <2>4, NoPixelType DEF TypeOK
<1>2. FetchedAsSeen /\ BufferAsShown /\ OverflowIsAhead /\ OverflowAnnounced
  BY Dots DEF FetchedAsSeen, BufferAsShown, OverflowIsAhead, OverflowAnnounced,
              LineAfter, PreLine
<1>3. PixelPlace /\ PixelAsEvaluated /\ ZeroHitMeansMet /\ FailsOnlyBySwitch
  BY DEF PixelPlace, PixelAsEvaluated, ZeroHitMeansMet, FailsOnlyBySwitch, NoPixel
<1> QED BY <1>1, <1>2, <1>3 DEF SpriteInv

-----------------------------------------------------------------------------
(***************************************************************************)
(* Types, in the groups in which the actions change them.                  *)
(***************************************************************************)
PlaceType == line \in PreLine .. LastLine /\ dot \in 0 .. LastDot
RegisterType == /\ oam \in [Indices -> Sprite]
                /\ tall \in BOOLEAN /\ table \in 0 .. 1 /\ mask \in Masks
ListType ==
  /\ DOMAIN fetched \subseteq Indices /\ \A i \in DOMAIN fetched : fetched[i] \in Sprite
  /\ DOMAIN buffer \subseteq Indices /\ \A i \in DOMAIN buffer : buffer[i] \in Entry
  /\ seen \in [line : PreLine .. LastLine, oam : [Indices -> Sprite], tall : BOOLEAN]
  /\ shown \in [line : PreLine .. LastLine, oam : [Indices -> Sprite],
                tall : BOOLEAN, fetchTall : BOOLEAN, table : 0 .. 1]
FlagType == /\ overflow \in BOOLEAN /\ zeroHit \in BOOLEAN /\ faulted \in BOOLEAN
            /\ met \subseteq {"lastButOne", "besideHidden", "elsewhere", "written"}
            /\ meddled \in BOOLEAN
PixelType == pixel \in [x : Unknown .. LastVisible, sprite : Unknown .. Count - 1,
                        background : BOOLEAN,
                        from : {"none", "background", "backdrop", "sprite"}]

LEMMA TypeGroups ==
  /\ TypeOK <=> PlaceType /\ RegisterType /\ ListType /\ FlagType /\ PixelType
  /\ TypeOK' <=> PlaceType' /\ RegisterType' /\ ListType' /\ FlagType' /\ PixelType'
BY DEF TypeOK, PlaceType, RegisterType, ListType, FlagType, PixelType

\* A dot's place in the picture, before and after.
LEMMA Advance ==
  ASSUME TypeOK, NextPosition
  PROVE  /\ PlaceType'
         /\ dot < LastDot => dot' = dot + 1 /\ line' = line
         /\ dot >= LastDot => dot' = 0 /\ (line' = line + 1 \/ line' = PreLine)
BY Dots DEF TypeOK, NextPosition, PlaceType, PreLine

LEMMA FetchTypes ==
  ASSUME TypeOK, SpriteFetch
  PROVE  ListType' /\ overflow' \in BOOLEAN /\ meddled' \in BOOLEAN
<1>0. ListType /\ FlagType /\ RegisterType /\ PlaceType
  BY TypeGroups
<1>1. CASE ForNextLine /\ ClearFetchData
  BY <1>0, <1>1 DEF ClearFetchData, ListType, FlagType
<1>2. CASE ForNextLine /\ Evaluate
  <2>1. line + 1 \in PreLine .. LastLine
    BY <1>0, <1>2, Dots DEF ForNextLine, PlaceType, PreLine
  <2>2. overflow' \in BOOLEAN /\ meddled' \in BOOLEAN
    <3> DEFINE many == Cardinality(DOMAIN fetched') > Limit
    <3>1. overflow' = many /\ meddled' = FALSE
      BY <1>2 DEF Evaluate, TooMany
    <3>2. many \in BOOLEAN
      OBVIOUS
    <3> HIDE DEF many
    <3> QED BY <3>1, <3>2
  <2>3. UNCHANGED <<buffer, shown>>
    BY <1>2 DEF Evaluate
  <2>4. DOMAIN fetched' \subseteq Indices /\ \A i \in DOMAIN fetched' : fetched'[i] \in Sprite
    BY <1>0, <1>2 DEF Evaluate, RegisterType
  <2>5. seen' \in [line : PreLine .. LastLine, oam : [Indices -> Sprite], tall : BOOLEAN]
    BY <1>0, <1>2, <2>1 DEF Evaluate, RegisterType
  <2> QED BY <1>0, <2>2, <2>3, <2>4, <2>5 DEF ListType
<1>3. CASE ForNextLine /\ FetchTiles
  <2>1. line + 1 \in PreLine .. LastLine
    BY <1>0, <1>3, Dots DEF ForNextLine, PlaceType, PreLine
  <2>2. overflow' \in BOOLEAN /\ meddled' \in BOOLEAN /\ UNCHANGED <<fetched, seen>>
    BY <1>0, <1>3 DEF FetchTiles, FlagType
  <2>3. DOMAIN buffer' \subseteq Indices /\ \A i \in DOMAIN buffer' : buffer'[i] \in Entry
    <3>1. buffer' = [i \in DOMAIN fetched |->
                       [sprite |-> fetched[i],
                        columns |-> Columns(fetched[i], line + 1, tall, table)]]
      BY <1>3 DEF FetchTiles
    <3>2. \A i \in DOMAIN fetched : fetched[i] \in Sprite
      BY <1>0 DEF ListType
    <3>3. \A i \in DOMAIN fetched :
            Columns(fetched[i], line + 1, tall, table) \in SUBSET (0 .. TileWidth - 1)
      BY ColumnsType
    <3>4. DOMAIN buffer' \subseteq Indices
      BY <1>0, <3>1 DEF ListType
    <3> QED BY <3>1, <3>2, <3>3, <3>4 DEF Entry
  <2>4. shown' \in [line : PreLine .. LastLine, oam : [Indices -> Sprite],
                    tall : BOOLEAN, fetchTall : BOOLEAN, table : 0 .. 1]
    BY <1>0, <1>3, <2>1 DEF FetchTiles, ListType, RegisterType
  <2> QED BY <1>0, <2>2, <2>3, <2>4 DEF ListType
<1>4. CASE NoFetch
  BY <1>0, <1>4 DEF NoFetch, ListType, FlagType
<1> QED BY <1>1, <1>2, <1>3, <1>4, FetchCases

LEMMA DrawTypes ==
  ASSUME TypeOK, BufferAsShown, DrawDot
  PROVE  /\ PixelType' /\ zeroHit' \in BOOLEAN
         /\ met' \subseteq {"lastButOne", "besideHidden", "elsewhere", "written"}
<1>1. PICK opaque \in BOOLEAN :
        LET sprite == Frontmost
            background == BackgroundAt(opaque)
        IN /\ zeroHit' = (zeroHit \/ (sprite = 0 /\ background /\ HitsHere))
           /\ pixel' = [x |-> X, sprite |-> sprite, background |-> background,
                        from |-> Source(sprite, background)]
           /\ met' = IF Overlap(opaque) THEN met \cup {Place} ELSE met
  BY DEF DrawDot, DrawPixel
<1>2. Frontmost \in Unknown .. Count - 1
  BY FrontmostShows DEF DrawDot
<1>3. X \in Unknown .. LastVisible
  BY Dots DEF DrawDot, Visible, X, Unknown
<1>4. Source(Frontmost, BackgroundAt(opaque)) \in {"none", "background", "backdrop", "sprite"}
  BY DEF Source
<1>5. BackgroundAt(opaque) \in BOOLEAN
  BY DEF BackgroundAt
<1>6. PixelType'
  BY <1>1, <1>2, <1>3, <1>4, <1>5 DEF PixelType
<1>7. zeroHit' \in BOOLEAN
  BY <1>1, Zenon
<1>8. met' \subseteq {"lastButOne", "besideHidden", "elsewhere", "written"}
  <2>1. Place \in {"lastButOne", "besideHidden", "elsewhere"}
    BY DEF Place
  <2>2. met \subseteq {"lastButOne", "besideHidden", "elsewhere", "written"}
    BY DEF TypeOK
  <2> QED BY <1>1, <2>1, <2>2
<1> QED BY <1>6, <1>7, <1>8

LEMMA TypeStep == TypeOK /\ BufferAsShown /\ Next => TypeOK'
<1> SUFFICES ASSUME TypeOK, BufferAsShown, Next PROVE TypeOK'
  OBVIOUS
<1>0. PlaceType /\ RegisterType /\ ListType /\ FlagType /\ PixelType
  BY TypeGroups
<1>1. CASE Dot /\ StartFrame
  <2>1. PlaceType' /\ RegisterType'
    BY <1>0, <1>1, Advance DEF Dot, RegisterType, registers
  <2>2. ListType'
    BY <1>0, <1>1 DEF StartFrame, ListType
  <2>3. FlagType'
    BY <1>0, <1>1 DEF Dot, StartFrame, FlagType
  <2>4. PixelType'
    BY <1>1, NoPixelType DEF StartFrame, PixelType
  <2> QED BY <2>1, <2>2, <2>3, <2>4, TypeGroups
<1>2. CASE Dot /\ DrawDot
  <2>1. PlaceType' /\ RegisterType'
    BY <1>0, <1>2, Advance DEF Dot, RegisterType, registers
  <2>2. ListType' /\ overflow' \in BOOLEAN /\ meddled' \in BOOLEAN
    BY <1>2, FetchTypes DEF DrawDot
  <2>3. /\ PixelType' /\ zeroHit' \in BOOLEAN
        /\ met' \subseteq {"lastButOne", "besideHidden", "elsewhere", "written"}
    BY <1>2, DrawTypes
  <2>4. FlagType'
    BY <1>0, <1>2, <2>2, <2>3 DEF Dot, FlagType
  <2> QED BY <2>1, <2>2, <2>3, <2>4, TypeGroups
<1>3. CASE Dot /\ BlankDot
  <2>1. PlaceType' /\ RegisterType'
    BY <1>0, <1>3, Advance DEF Dot, RegisterType, registers
  <2>2. ListType' /\ overflow' \in BOOLEAN /\ meddled' \in BOOLEAN
    BY <1>3, FetchTypes DEF BlankDot
  <2>3. PixelType'
    BY <1>3, NoPixelType DEF BlankDot, PixelType
  <2>4. FlagType'
    BY <1>0, <1>3, <2>2 DEF Dot, BlankDot, FlagType
  <2> QED BY <2>1, <2>2, <2>3, <2>4, TypeGroups
<1>4. CASE DotFails
  <2>1. FlagType'
    BY <1>0, <1>4 DEF DotFails, FlagType, ports, history
  <2>2. PlaceType' /\ RegisterType' /\ ListType' /\ PixelType'
    BY <1>0, <1>4 DEF DotFails, PlaceType, RegisterType, ListType, PixelType,
                      registers, history
  <2> QED BY <2>1, <2>2, TypeGroups
<1>5. ASSUME NEW size \in BOOLEAN, NEW tab \in 0 .. 1, WriteCtrl(size, tab) PROVE TypeOK'
  <2>1. RegisterType'
    BY <1>0, <1>5 DEF WriteCtrl, RegisterType
  <2>2. PlaceType' /\ ListType' /\ FlagType' /\ PixelType'
    BY <1>0, <1>5 DEF WriteCtrl, PlaceType, ListType, FlagType, PixelType, ports, history
  <2> QED BY <2>1, <2>2, TypeGroups
<1>6. ASSUME NEW m \in WrittenMasks, WriteMask(m) PROVE TypeOK'
  <2>1. RegisterType'
    BY <1>0, <1>6, SpriteAssumption DEF WriteMask, RegisterType
  <2>2. PlaceType' /\ ListType' /\ FlagType'
    BY <1>0, <1>6 DEF WriteMask, PlaceType, ListType, FlagType, ports
  <2>3. PixelType'
    BY <1>6, NoPixelType DEF WriteMask, PixelType
  <2> QED BY <2>1, <2>2, <2>3, TypeGroups
<1>7. ASSUME NEW o \in BOOLEAN, NEW z \in BOOLEAN, WriteStatus(o, z) PROVE TypeOK'
  <2>1. FlagType'
    BY <1>0, <1>7 DEF WriteStatus, FlagType
  <2>2. PlaceType' /\ RegisterType' /\ ListType' /\ PixelType'
    BY <1>0, <1>7 DEF WriteStatus, PlaceType, RegisterType, ListType, PixelType, registers
  <2> QED BY <2>1, <2>2, TypeGroups
<1>8. ASSUME NEW i \in Indices, WriteOam(i) PROVE TypeOK'
  <2>1. oam' \in [Indices -> Sprite]
    BY <1>0, <1>8 DEF WriteOam, RegisterType, Sprite
  <2>2. RegisterType' /\ PlaceType' /\ ListType' /\ FlagType' /\ PixelType'
    BY <1>0, <1>8, <2>1 DEF WriteOam, RegisterType, PlaceType, ListType, FlagType,
                            PixelType, ports, history, registers
  <2> QED BY <2>2, TypeGroups
<1>9. CASE PowerCycle
  <2>1. PlaceType'
    BY <1>9, Dots DEF PowerCycle, PlaceType, PreLine
  <2>2. RegisterType'
    <3>1. NoMask \in Masks /\ 0 \in 0 .. 1 /\ FALSE \in BOOLEAN
      BY DEF NoMask, Masks
    <3> QED BY <1>0, <1>9, <3>1 DEF PowerCycle, RegisterType
  <2>3. ListType' /\ FlagType'
    BY <1>0, <1>9 DEF PowerCycle, ListType, FlagType
  <2>4. PixelType'
    BY <1>9, NoPixelType DEF PowerCycle, PixelType
  <2> QED BY <2>1, <2>2, <2>3, <2>4, TypeGroups
<1> QED BY <1>1, <1>2, <1>3, <1>4, <1>5, <1>6, <1>7, <1>8, <1>9
        DEF Next, Dot, ProgramStep

-----------------------------------------------------------------------------
(***************************************************************************)
(* The lists.  Everything but Dot and PowerCycle leaves them, the place    *)
(* and what was seen as they are.                                          *)
(***************************************************************************)
Lists == <<line, dot, fetched, buffer, seen, shown>>

LEMMA ListsKept ==
  ASSUME Next
  PROVE  Dot \/ PowerCycle \/ UNCHANGED Lists
BY DEF Next, DotFails, ProgramStep, WriteCtrl, WriteMask, WriteStatus, WriteOam,
       history, Lists

\* A dot does its part of the fetch, or begins the frame.
LEMMA DotFetches ==
  ASSUME Dot
  PROVE  \/ StartFrame
         \/ ~(line = PreLine /\ dot = 1) /\ SpriteFetch
BY Dots DEF Dot, StartFrame, DrawDot, BlankDot, Visible, PreLine

LEMMA FetchedStep == TypeOK /\ FetchedAsSeen /\ Next => FetchedAsSeen'
<1> SUFFICES ASSUME TypeOK, FetchedAsSeen, Next PROVE FetchedAsSeen'
  OBVIOUS
<1>0. dot \in Int /\ line \in Int /\ dot <= LastDot /\ line <= LastLine /\ -1 <= line
  BY Dots DEF TypeOK, PreLine
<1>1. CASE Dot
  <2>0. /\ dot < LastDot => dot' = dot + 1 /\ line' = line
        /\ dot >= LastDot => dot' = 0
    BY <1>1, Advance DEF Dot
  <2>1. CASE dot < Evaluation \/ dot = LastDot
    <3>1. ~(dot' > Evaluation)
      BY <1>0, <2>0, <2>1, Dots
    <3> QED BY <3>1 DEF FetchedAsSeen
  <2>2. CASE dot >= Evaluation /\ dot < LastDot
    <3>1. dot # 1 /\ ~StartFrame
      BY <1>0, <2>2, Dots DEF StartFrame
    <3>2. SpriteFetch
      BY <1>1, <3>1, DotFetches
    <3>3. line' = line /\ dot' = dot + 1
      BY <2>0, <2>2
    <3>4. CASE ForNextLine /\ dot = Evaluation /\ Evaluate
      BY <3>3, <3>4 DEF Evaluate, FetchedAsSeen, FetchedOf
    <3>5. CASE ForNextLine /\ dot = Fetch /\ FetchTiles
      BY <1>0, <3>3, <3>5, Dots DEF FetchTiles, FetchedAsSeen, FetchedOf
    <3>6. CASE (ForNextLine => dot # 1 /\ dot # Evaluation /\ dot # Fetch) /\ NoFetch
      <4>1. line' < LastVisibleLine /\ dot' > Evaluation => line < LastVisibleLine /\ dot > Evaluation
        BY <1>0, <2>2, <3>3, <3>6, Dots DEF ForNextLine
      <4> QED BY <3>3, <3>6, <4>1 DEF NoFetch, FetchedAsSeen, FetchedOf
    <3> QED BY <3>1, <3>2, <3>4, <3>5, <3>6, FetchCases
  <2> QED BY <1>0, <2>1, <2>2, Dots
<1>2. CASE PowerCycle
  BY <1>2, Dots DEF PowerCycle, FetchedAsSeen
<1>3. CASE UNCHANGED Lists
  BY <1>3 DEF Lists, FetchedAsSeen, FetchedOf
<1> QED BY <1>1, <1>2, <1>3, ListsKept

\* The fetch makes the buffer that the evaluation called for.
LEMMA FetchMakesBuffer ==
  ASSUME TypeOK, FetchedAsSeen, ForNextLine, dot = Fetch, FetchTiles
  PROVE  shown'.line = line + 1 /\ buffer' = BufferOf(shown')
<1>1. line \in Int /\ line < LastVisibleLine /\ dot > Evaluation
  BY Dots DEF TypeOK, PreLine, ForNextLine
<1>2. seen.line = line + 1 /\ fetched = FetchedOf(seen)
  BY <1>1 DEF FetchedAsSeen
<1>3. shown' = [line |-> line + 1, oam |-> seen.oam, tall |-> seen.tall,
                fetchTall |-> tall, table |-> table]
  BY DEF FetchTiles
<1>4. DOMAIN fetched = {j \in Indices : Covers(seen.oam[j], line + 1, seen.tall)}
      /\ \A i \in DOMAIN fetched : fetched[i] = seen.oam[i]
  BY <1>2 DEF FetchedOf
<1>5. buffer' = [i \in DOMAIN fetched |->
                   [sprite  |-> fetched[i],
                    columns |-> Columns(fetched[i], line + 1, tall, table)]]
  BY DEF FetchTiles
<1> QED BY <1>3, <1>4, <1>5 DEF BufferOf

LEMMA BufferStep == TypeOK /\ FetchedAsSeen /\ BufferAsShown /\ Next => BufferAsShown'
<1> SUFFICES ASSUME TypeOK, FetchedAsSeen, BufferAsShown, Next PROVE BufferAsShown'
  OBVIOUS
<1>0. dot \in Int /\ line \in Int /\ dot <= LastDot /\ line <= LastLine /\ -1 <= line
  BY Dots DEF TypeOK, PreLine
<1>1. CASE Dot
  <2>0. /\ dot < LastDot => dot' = dot + 1 /\ line' = line
        /\ dot >= LastDot => dot' = 0 /\ (line' = line + 1 \/ line' = PreLine)
    BY <1>1, Advance DEF Dot
  <2>1. CASE ForNextLine /\ dot = Fetch /\ FetchTiles
    <3>1. LineAfter(Fetch)' = line + 1
      BY <1>0, <2>0, <2>1, Dots DEF LineAfter
    <3> QED BY <2>1, <3>1, FetchMakesBuffer DEF BufferAsShown, BufferOf
  <2>2. CASE UNCHANGED <<buffer, shown>> /\ (ForNextLine => dot # Fetch)
    <3>1. LineAfter(Fetch)' \in 0 .. LastVisibleLine => LineAfter(Fetch)' = LineAfter(Fetch)
      BY <1>0, <2>0, <2>2, Dots DEF LineAfter, PreLine, ForNextLine
    <3> QED BY <2>2, <3>1 DEF BufferAsShown, BufferOf
  <2>3. StartFrame => UNCHANGED <<buffer, shown>> /\ dot # Fetch
    BY Dots DEF StartFrame
  <2>4. SpriteFetch => \/ ForNextLine /\ dot = Fetch /\ FetchTiles
                       \/ UNCHANGED <<buffer, shown>> /\ (ForNextLine => dot # Fetch)
    <3> SUFFICES ASSUME SpriteFetch
                 PROVE  \/ ForNextLine /\ dot = Fetch /\ FetchTiles
                        \/ UNCHANGED <<buffer, shown>> /\ (ForNextLine => dot # Fetch)
      OBVIOUS
    <3>1. CASE ForNextLine /\ dot = 1 /\ ClearFetchData
      BY <3>1, Dots DEF ClearFetchData
    <3>2. CASE ForNextLine /\ dot = Evaluation /\ Evaluate
      BY <3>2, Dots DEF Evaluate
    <3>3. CASE (ForNextLine => dot # 1 /\ dot # Evaluation /\ dot # Fetch) /\ NoFetch
      BY <3>3 DEF NoFetch
    <3> QED BY <3>1, <3>2, <3>3, FetchCases
  <2> QED BY <1>1, <2>1, <2>2, <2>3, <2>4, DotFetches
<1>2. CASE PowerCycle
  BY <1>2, Dots DEF PowerCycle, BufferAsShown, LineAfter, PreLine
<1>3. CASE UNCHANGED Lists
  BY <1>3 DEF Lists, BufferAsShown, BufferOf, LineAfter
<1> QED BY <1>1, <1>2, <1>3, ListsKept

-----------------------------------------------------------------------------
LEMMA OverflowStep ==
  TypeOK /\ OverflowIsAhead /\ OverflowAnnounced /\ Next
    => OverflowIsAhead' /\ OverflowAnnounced'
<1> SUFFICES ASSUME TypeOK, OverflowIsAhead, OverflowAnnounced, Next
             PROVE  OverflowIsAhead' /\ OverflowAnnounced'
  OBVIOUS
<1>0. dot \in Int /\ line \in Int /\ dot <= LastDot /\ line <= LastLine /\ -1 <= line
  BY Dots DEF TypeOK, PreLine
<1>1. CASE Dot
  <2>0. /\ dot < LastDot => dot' = dot + 1 /\ line' = line
        /\ dot >= LastDot => dot' = 0 /\ (line' = line + 1 \/ line' = PreLine)
    BY <1>1, Advance DEF Dot
  <2>1. CASE StartFrame
    <3>1. line' = -1 /\ dot' = 2 /\ ~(dot' > Evaluation)
      BY <2>0, <2>1, Dots DEF StartFrame, PreLine
    <3> QED BY <3>1, Dots DEF OverflowIsAhead, OverflowAnnounced
  <2>2. CASE ForNextLine /\ dot = 1 /\ ClearFetchData
    <3>1. line' = line /\ dot' = 2 /\ ~(dot' > Evaluation) /\ dot <= Evaluation
      BY <2>0, <2>2, Dots
    <3>2. UNCHANGED <<buffer, overflow, meddled>>
      BY <2>2 DEF ClearFetchData
    <3> QED BY <3>1, <3>2, Dots DEF OverflowIsAhead, OverflowAnnounced
  <2>3. CASE ForNextLine /\ dot = Evaluation /\ Evaluate
    <3>1. line' = line /\ dot' > Evaluation /\ ~(dot' <= Evaluation) /\ ~(dot' > Fetch)
      BY <2>0, <2>3, Dots
    <3>2. overflow' <=> Cardinality(DOMAIN fetched') > Limit
      BY <2>3 DEF Evaluate, TooMany
    <3> QED BY <3>1, <3>2 DEF OverflowIsAhead, OverflowAnnounced
  <2>4. CASE ForNextLine /\ dot = Fetch /\ FetchTiles
    <3>1. line' = line /\ ~(dot' <= Fetch) /\ ~(dot' <= Evaluation)
          /\ dot > Evaluation /\ dot <= Fetch /\ line < LastVisibleLine
      BY <1>0, <2>0, <2>4, Dots DEF ForNextLine
    <3>2. UNCHANGED <<overflow, meddled>> /\ DOMAIN buffer' = DOMAIN fetched
      BY <2>4 DEF FetchTiles
    <3> QED BY <3>1, <3>2 DEF OverflowIsAhead, OverflowAnnounced
  <2>5. CASE (ForNextLine => dot # 1 /\ dot # Evaluation /\ dot # Fetch) /\ NoFetch
    <3>1. UNCHANGED <<fetched, buffer, overflow, meddled>>
      BY <2>5 DEF NoFetch
    <3>2. line' < LastVisibleLine /\ dot' > Evaluation /\ dot' <= Fetch
            => line < LastVisibleLine /\ dot > Evaluation /\ dot <= Fetch
      BY <1>0, <2>0, <2>5, Dots DEF ForNextLine
    <3>3. line' < LastVisibleLine /\ dot' > Fetch
            => line < LastVisibleLine /\ dot > Fetch
      BY <1>0, <2>0, <2>5, Dots DEF ForNextLine
    <3>4. line' \in 0 .. LastVisibleLine /\ dot' <= Evaluation
            => \/ line \in 0 .. LastVisibleLine /\ dot <= Evaluation
               \/ line < LastVisibleLine /\ dot > Fetch
      BY <1>0, <2>0, Dots DEF PreLine
    <3>5. OverflowIsAhead'
      BY <3>1, <3>2, <3>3 DEF OverflowIsAhead
    <3>6. OverflowAnnounced'
      BY <3>1, <3>4 DEF OverflowIsAhead, OverflowAnnounced
    <3> QED BY <3>5, <3>6
  <2> QED BY <1>1, <2>1, <2>2, <2>3, <2>4, <2>5, FetchCases, DotFetches
<1>2. CASE PowerCycle
  BY <1>2 DEF PowerCycle, OverflowIsAhead, OverflowAnnounced
<1>3. CASE meddled'
  BY <1>3 DEF OverflowIsAhead, OverflowAnnounced
<1>4. CASE UNCHANGED <<line, dot, fetched, buffer, overflow, meddled>>
  BY <1>4 DEF OverflowIsAhead, OverflowAnnounced
<1>5. Dot \/ PowerCycle \/ meddled' \/ UNCHANGED <<line, dot, fetched, buffer, overflow, meddled>>
  BY DEF Next, DotFails, ProgramStep, WriteCtrl, WriteMask, WriteStatus, WriteOam,
         history, ports
<1> QED BY <1>1, <1>2, <1>3, <1>4, <1>5

\* What PixelAsEvaluated reads does not change while there is a pixel.
LEMMA PixelStep ==
  TypeOK /\ BufferAsShown /\ PixelPlace /\ PixelAsEvaluated /\ Next
    => PixelPlace' /\ PixelAsEvaluated'
<1> SUFFICES ASSUME TypeOK, BufferAsShown, PixelPlace, PixelAsEvaluated, Next
             PROVE  PixelPlace' /\ PixelAsEvaluated'
  OBVIOUS
<1>0. dot \in Int
  BY DEF TypeOK
<1>1. CASE Dot /\ DrawDot
  <2>1. pixel'.x = X /\ pixel'.sprite = Frontmost
    BY <1>1 DEF DrawDot, DrawPixel
  <2>2. dot' = dot + 1 /\ line' = line /\ dot \in 1 .. LastVisible
    BY <1>0, <1>1, Advance, Dots DEF Dot, DrawDot, Visible
  <2>3. line \in 0 .. LastVisibleLine /\ X \in 0 .. LastVisible - 1 /\ dot = X + 1
    BY <1>0, <1>1, <2>2, Dots DEF DrawDot, Visible, X
  <2>4. PixelPlace'
    BY <2>1, <2>2, <2>3 DEF PixelPlace
  <2>5. UNCHANGED <<mask, shown>>
    <3>1. dot # Fetch
      BY <2>2, Dots
    <3> QED BY <1>1, <3>1, FetchCases
            DEF Dot, DrawDot, registers, ClearFetchData, Evaluate, NoFetch
  <2>6. Frontmost = IF {i \in Indices : Shows(i, X)} = {}
                         \/ (X + 1 < LeftEnd /\ ~mask.leftSprites)
                    THEN Unknown ELSE Least({i \in Indices : Shows(i, X)})
    BY <1>1, <2>3, FrontmostShows DEF DrawDot
  <2> DEFINE P(l, s, m, x, found) ==
        LET opaque == {i \in Indices :
              /\ Covers(s.oam[i], l, s.tall)
              /\ x - s.oam[i].x \in Columns(s.oam[i], l, s.fetchTall, s.table)}
        IN found = IF opaque = {} \/ (x + 1 < LeftEnd /\ ~m.leftSprites)
                   THEN Unknown ELSE Least(opaque)
  <2>7. P(line, shown, mask, X, Frontmost)
    BY <2>6 DEF Shows
  <2>8. P(line', shown', mask', pixel'.x, pixel'.sprite)
    BY <2>1, <2>2, <2>5, <2>7
  <2>9. PixelAsEvaluated'
    BY <2>8 DEF PixelAsEvaluated, Shows
  <2> QED BY <2>4, <2>9
<1>2. CASE pixel' = NoPixel
  BY <1>2 DEF PixelPlace, PixelAsEvaluated, NoPixel
<1>3. CASE UNCHANGED <<line, dot, shown, mask, pixel>>
  BY <1>3 DEF PixelPlace, PixelAsEvaluated, Shows
<1>4. \/ Dot /\ DrawDot
      \/ pixel' = NoPixel
      \/ UNCHANGED <<line, dot, shown, mask, pixel>>
  BY DEF Next, Dot, StartFrame, BlankDot, DotFails, ProgramStep, PowerCycle,
         WriteCtrl, WriteMask, WriteStatus, WriteOam, history, registers
<1> QED BY <1>1, <1>2, <1>3, <1>4

\* The code counts an overlap of the picture, wherever it counts any: sprite zero
\* is in front wherever it is seen.
LEMMA HitIsOverlap ==
  ASSUME TypeOK, BufferAsShown, DrawDot, NEW opaque \in BOOLEAN
  PROVE  Frontmost = 0 /\ BackgroundAt(opaque) /\ HitsHere
           <=> Overlap(opaque) /\ Place \notin Uncounted
<1>1. Frontmost = 0 <=> Shows(0, X) /\ (dot >= LeftEnd \/ mask.leftSprites)
  BY FrontmostShows DEF DrawDot
<1>2. dot \in Int /\ LeftEnd \in Int /\ LastVisible \in Int
  BY Dots, PictureAssumption DEF TypeOK
<1>3. /\ X + 1 < LeftEnd <=> ~(dot >= LeftEnd)
      /\ X = LastVisible - 2 <=> dot = LastVisible - 1
      /\ X = LeftEnd - 1 <=> dot = LeftEnd
      /\ dot > LeftEnd <=> dot >= LeftEnd /\ dot # LeftEnd
  BY <1>2 DEF X
<1>4. Place \notin Uncounted <=>
        /\ X # LastVisible - 2
        /\ X # LeftEnd - 1 \/ (mask.leftSprites /\ mask.leftBackground)
  BY DEF Place, Uncounted
<1> QED BY <1>1, <1>3, <1>4, Zenon DEF BackgroundAt, HitsHere, Overlap

LEMMA ZeroHitStep == TypeOK /\ BufferAsShown /\ ZeroHitMeansMet /\ Next => ZeroHitMeansMet'
<1> SUFFICES ASSUME TypeOK, BufferAsShown, ZeroHitMeansMet, Next PROVE ZeroHitMeansMet'
  OBVIOUS
<1>1. CASE DrawDot
  <2>1. PICK opaque \in BOOLEAN :
          /\ zeroHit' = (zeroHit \/ (Frontmost = 0 /\ BackgroundAt(opaque) /\ HitsHere))
          /\ met' = IF Overlap(opaque) THEN met \cup {Place} ELSE met
    BY <1>1 DEF DrawDot, DrawPixel
  <2>2. zeroHit' <=> zeroHit \/ (Overlap(opaque) /\ Place \notin Uncounted)
    BY <1>1, <2>1, HitIsOverlap
  <2>3. met' \ Uncounted # {} <=>
          met \ Uncounted # {} \/ (Overlap(opaque) /\ Place \notin Uncounted)
    BY <2>1
  <2> QED BY <2>2, <2>3 DEF ZeroHitMeansMet
<1>2. CASE zeroHit' = FALSE /\ met' = {}
  BY <1>2 DEF ZeroHitMeansMet
<1>3. CASE \E o, z \in BOOLEAN : WriteStatus(o, z)
  BY <1>3 DEF WriteStatus, ZeroHitMeansMet, Uncounted
<1>4. CASE UNCHANGED <<zeroHit, met>>
  BY <1>4 DEF ZeroHitMeansMet
<1>5. \/ DrawDot
      \/ zeroHit' = FALSE /\ met' = {}
      \/ \E o, z \in BOOLEAN : WriteStatus(o, z)
      \/ UNCHANGED <<zeroHit, met>>
  BY DEF Next, Dot, StartFrame, BlankDot, DotFails, ProgramStep, PowerCycle,
         WriteCtrl, WriteMask, WriteOam, history, ports
<1> QED BY <1>1, <1>2, <1>3, <1>4, <1>5

\* A sprite that was chosen by the height with which it is fetched is found on
\* its line; a short one is found in a tall one as well.
LEMMA ContainedUnlessShrunk ==
  ASSUME NEW s \in Sprite, NEW l \in Int, NEW t \in BOOLEAN, NEW u \in BOOLEAN,
         Covers(s, l, t), NotContained(s, l, u)
  PROVE  t /\ ~u
<1> DEFINE d == l - s.y
<1>1. s.y \in Int /\ TileHeight \in Int /\ TileHeight > 0
  <2>1. s.y \in Ys
    BY DEF Sprite
  <2>2. Ys \subseteq Byte /\ TileHeight \in Nat /\ TileHeight # 0
    BY SpriteAssumption
  <2>3. \A n \in Byte : n \in Int
    BY DEF Byte
  <2> QED BY <2>1, <2>2, <2>3
<1>2. d \in Int /\ 0 <= d /\ d < Height(t)
  BY <1>1 DEF Covers, Height
<1>3. Row(s, l, u) = d \/ Row(s, l, u) = Height(u) - 1 - d
  BY DEF Row
<1> HIDE DEF d
<1> QED BY <1>1, <1>2, <1>3 DEF NotContained, Height

LEMMA FailStep == TypeOK /\ FetchedAsSeen /\ FailsOnlyBySwitch /\ Next => FailsOnlyBySwitch'
<1> SUFFICES ASSUME TypeOK, FetchedAsSeen, FailsOnlyBySwitch, Next
             PROVE  FailsOnlyBySwitch'
  OBVIOUS
<1>1. CASE DotFails
  <2>1. PICK i \in DOMAIN fetched : NotContained(fetched[i], line + 1, tall)
    BY <1>1 DEF DotFails
  <2>2. line \in Int /\ line < LastVisibleLine /\ dot > Evaluation
    BY <1>1, Dots DEF DotFails, ForNextLine, TypeOK, PreLine
  <2>3. seen.line = line + 1 /\ fetched = FetchedOf(seen)
    BY <2>2 DEF FetchedAsSeen
  <2>4. fetched[i] \in Sprite /\ Covers(fetched[i], line + 1, seen.tall)
    BY <2>1, <2>3 DEF FetchedOf, TypeOK
  <2>5. seen.tall \in BOOLEAN /\ tall \in BOOLEAN
    BY DEF TypeOK
  <2>6. seen.tall /\ ~tall
    BY <2>1, <2>2, <2>4, <2>5, ContainedUnlessShrunk
  <2> QED BY <1>1, <2>6 DEF DotFails, FailsOnlyBySwitch, registers, history
<1>2. CASE ~faulted'
  BY <1>2 DEF FailsOnlyBySwitch
<1>3. DotFails \/ ~faulted'
  BY DEF Next, Dot, ProgramStep, PowerCycle, WriteCtrl, WriteMask, WriteStatus, WriteOam
<1> QED BY <1>1, <1>2, <1>3

-----------------------------------------------------------------------------
LEMMA SpriteStep == SpriteInv /\ [Next]_vars => SpriteInv'
<1>1. SpriteInv /\ Next => SpriteInv'
  BY TypeStep, FetchedStep, BufferStep, OverflowStep, PixelStep, ZeroHitStep, FailStep
     DEF SpriteInv
<1>2. SpriteInv /\ UNCHANGED vars => SpriteInv'
  <2> SUFFICES ASSUME SpriteInv, UNCHANGED vars PROVE SpriteInv'
    OBVIOUS
  <2> USE DEF SpriteInv, vars, registers, ports, history
  <2>1. TypeOK'
    BY DEF TypeOK
  <2>2. FetchedAsSeen' /\ BufferAsShown'
    BY DEF FetchedAsSeen, FetchedOf, BufferAsShown, BufferOf, LineAfter
  <2>3. OverflowIsAhead' /\ OverflowAnnounced'
    BY DEF OverflowIsAhead, OverflowAnnounced
  <2>4. PixelPlace' /\ PixelAsEvaluated'
    BY DEF PixelPlace, PixelAsEvaluated, Shows
  <2>5. ZeroHitMeansMet' /\ FailsOnlyBySwitch'
    BY DEF ZeroHitMeansMet, FailsOnlyBySwitch
  <2> QED BY <2>1, <2>2, <2>3, <2>4, <2>5
<1> QED BY <1>1, <1>2

\* The inductive invariant: the fetched sprites and the buffer are what the
\* last evaluation and the last fetch have seen, and the flags follow them.
THEOREM SpriteInvariance == Spec => []SpriteInv
BY SpriteInit, SpriteStep, PTL DEF Spec

\* Registers, OAM, lists and flags keep their ranges.
THEOREM SpriteTypes == Spec => []TypeOK
BY SpriteInvariance, PTL DEF SpriteInv

\* Every pixel of every line shows the sprite it should, for all sizes of OAM,
\* tiles and picture, all patterns and all changes in between.
THEOREM PixelsAreAsEvaluated == Spec => []PixelAsEvaluated
BY SpriteInvariance, PTL DEF SpriteInv

\* The sprite zero flag reports every hit and no other.
THEOREM ZeroHitIsExact == Spec => []ZeroHitMeansMet
BY SpriteInvariance, PTL DEF SpriteInv

\* The overflow flag is right while a line's sprites are shown.
THEOREM OverflowIsAnnounced == Spec => []OverflowAnnounced
BY SpriteInvariance, PTL DEF SpriteInv

\* Nothing but a switch to smaller sprites makes the emulator stop.
THEOREM OnlyASwitchFails == Spec => []FailsOnlyBySwitch
BY SpriteInvariance, PTL DEF SpriteInv
=============================================================================
