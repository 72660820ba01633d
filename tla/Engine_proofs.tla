---------------------------- MODULE Engine_proofs ----------------------------
(***************************************************************************)
(* Theorems about Engine: for any folders, files and layout of the windows,*)
(* the program ends of itself only where the user has led it to something  *)
(* that cannot be opened, or where the inserted program makes the console  *)
(* throw; it opens what was chosen; and the cartridge is the file's.       *)
(***************************************************************************)
EXTENDS Engine, FiniteSetTheorems, SequenceTheorems, TLAPS

Live == pc \in {"start", "input"}

\* The console's cartridge came from a file; one that lacks the pattern bank
\* from one that has none.
CartridgeKnown ==
  /\ pc = "start" => inserted = {}
  /\ \A cartridge \in inserted : /\ loaded \in DOMAIN Image
                                 /\ cartridge.chr = <<>> => Image[loaded].chr = 0

\* The navigator shows the folder that the file system is in, or nothing yet.
\* (The file system may be in what was a file, once that file is gone.)
FolderShown ==
  /\ deleted \subseteq DOMAIN Image
  /\ folder \in Folders \union deleted
  /\ Live /\ files # <<>> => /\ filePath = folder /\ folder \in Folders
                             /\ files = Listing[folder]

CurserInList == files # <<>> => curser \in DOMAIN files

\* Whoever can choose, or has chosen, has a list.
ListIsThere ==
  Live => /\ view = "OpenRom" => files # <<>>
          /\ Selections(posted) # {} => files # <<>>

\* A choice that still stands is the path at the curser, and no highlighted
\* line is about to draw the curser elsewhere.
Stands(path) == /\ files # <<>>
                /\ path = Child[filePath, files[curser]]
                /\ view = "OpenRom" /\ highlighted # 0 => curser = highlighted

ChoicesStand == Live => \A i \in DOMAIN chosen : chosen[i] # None => Stands(chosen[i])

NavigatorInv == FolderShown /\ CurserInList /\ ListIsThere /\ ChoicesStand

EngineInv == /\ TypeOK
             /\ CartridgeKnown
             /\ NavigatorInv
             /\ DiesAsListed /\ OpensWhatWasChosen
             /\ BanksAsFiled /\ OneMenuOpen
-----------------------------------------------------------------------------
(***************************************************************************)
(* What the loader makes of a file.                                        *)
(***************************************************************************)
First(file) == IF file.trainer THEN 1 ELSE 0
Unit(file, i) == IF i <= file.units THEN i ELSE 0

\* A read from a stream that is where n units have been, if it has not failed.
LEMMA ReadGoesOn ==
  ASSUME NEW file \in File, NEW n \in Nat, NEW m \in Nat, NEW stream \in Stream,
         stream.good => stream.pos = n, ~stream.good => file.units < n
  PROVE  /\ AfterRead(file, stream, m) \in Stream
         /\ AfterRead(file, stream, m).good => AfterRead(file, stream, m).pos = n + m
         /\ ~AfterRead(file, stream, m).good => file.units < n + m
<1>1. file.units \in Nat /\ stream.pos \in Nat /\ stream.good \in BOOLEAN
  BY DEF File, Stream
<1>2. CASE stream.good /\ stream.pos + m <= file.units
  <2>1. AfterRead(file, stream, m) = [stream EXCEPT !.pos = stream.pos + m]
    BY <1>2 DEF AfterRead
  <2>2. [stream EXCEPT !.pos = stream.pos + m] = [pos |-> stream.pos + m, good |-> stream.good]
    BY DEF Stream
  <2> QED BY <1>1, <1>2, <2>1, <2>2 DEF Stream
<1>3. CASE ~(stream.good /\ stream.pos + m <= file.units)
  <2>1. AfterRead(file, stream, m) = [stream EXCEPT !.good = FALSE]
    BY <1>3 DEF AfterRead
  <2>2. [stream EXCEPT !.good = FALSE] = [pos |-> stream.pos, good |-> FALSE]
    <3>1. \A b : [stream EXCEPT !.good = b] = [pos |-> stream.pos, good |-> b]
      BY DEF Stream
    <3> QED BY <3>1
  <2>3. file.units < n + m
    BY <1>1, <1>3
  <2> QED BY <1>1, <2>1, <2>2, <2>3 DEF Stream
<1> QED BY <1>2, <1>3

LEMMA BanksOfFile ==
  ASSUME NEW file \in File
  PROVE  /\ LoadINes(file).prg = [i \in 1 .. file.prg |-> Unit(file, First(file) + i)]
         /\ LoadINes(file).chr =
              [i \in 1 .. file.chr |-> Unit(file, First(file) + file.prg + i)]
<1> DEFINE start  == [pos |-> 0, good |-> TRUE]
           body   == UpdateTrainer(file, start)
           behind == AfterRead(file, body, file.prg)
<1>1. file.prg \in Nat /\ file.chr \in Nat /\ file.units \in Nat /\ file.trainer \in BOOLEAN
  BY DEF File
<1>2. First(file) \in Nat
  BY DEF First
<1>3. /\ body \in Stream
      /\ body.good => body.pos = First(file)
      /\ ~body.good => file.units < First(file)
  <2>1. start \in Stream /\ start.pos = 0 /\ start.good
    BY DEF Stream
  <2>2. CASE file.trainer
    BY <2>1, <2>2, ReadGoesOn, 0 + 1 = 1 DEF UpdateTrainer, First
  <2>3. CASE ~file.trainer
    BY <2>1, <2>3 DEF UpdateTrainer, First
  <2> QED BY <2>2, <2>3
<1> HIDE DEF body
<1>4. /\ behind \in Stream
      /\ behind.good => behind.pos = First(file) + file.prg
      /\ ~behind.good => file.units < First(file) + file.prg
  BY <1>1, <1>2, <1>3, ReadGoesOn
<1>5. LoadINes(file) = [prg |-> ReadUnits(file, body, file.prg),
                        chr |-> ReadUnits(file, behind, file.chr), ram |-> file.battery]
  BY DEF LoadINes, body
<1> HIDE DEF behind
<1>6. ReadUnits(file, body, file.prg) = [i \in 1 .. file.prg |-> Unit(file, First(file) + i)]
  BY <1>1, <1>2, <1>3 DEF ReadUnits, Unit, Stream
<1>7. ReadUnits(file, behind, file.chr)
        = [i \in 1 .. file.chr |-> Unit(file, First(file) + file.prg + i)]
  BY <1>1, <1>2, <1>4 DEF ReadUnits, Unit, Stream
<1> QED BY <1>5, <1>6, <1>7

\* A bank is missing only if the header has none.
LEMMA BankIsMissing ==
  ASSUME NEW file \in File
  PROVE  /\ NoProgram(LoadINes(file)) => file.prg = 0
         /\ LoadINes(file).chr = <<>> => file.chr = 0
<1>1. file.prg \in Nat /\ file.chr \in Nat
  BY DEF File
<1>2. DOMAIN LoadINes(file).prg = 1 .. file.prg /\ DOMAIN LoadINes(file).chr = 1 .. file.chr
  BY BanksOfFile
<1>3. \A n \in Nat : 1 .. n = {} => n = 0
  <2>1. \A n \in Nat : n # 0 => 1 \in 1 .. n
    OBVIOUS
  <2> QED BY <2>1
<1>4. DOMAIN <<>> = {}
  OBVIOUS
<1> QED BY <1>1, <1>2, <1>3, <1>4 DEF NoProgram

-----------------------------------------------------------------------------
(***************************************************************************)
(* Counting the choices in a queue.                                        *)
(***************************************************************************)
LEMMA SelectionsAreFinite ==
  ASSUME NEW S, NEW q \in Seq(S)
  PROVE  IsFiniteSet(Selections(q)) /\ Cardinality(Selections(q)) \in Nat
<1>1. DOMAIN q = 1 .. Len(q) /\ Len(q) \in Nat
  BY LenProperties
<1>2. IsFiniteSet(1 .. Len(q))
  BY <1>1, FS_Interval
<1>3. Selections(q) \subseteq 1 .. Len(q)
  BY <1>1 DEF Selections
<1>4. IsFiniteSet(Selections(q))
  BY <1>2, <1>3, FS_Subset
<1> QED BY <1>4, FS_CardinalityType

LEMMA SelectionsAppend ==
  ASSUME NEW S, NEW q \in Seq(S), NEW e \in S
  PROVE  /\ Cardinality(Selections(Append(q, e)))
              = Cardinality(Selections(q)) + (IF e = "FileSelected" THEN 1 ELSE 0)
         /\ Selections(Append(q, e)) # {} => Selections(q) # {} \/ e = "FileSelected"
         /\ (\E i \in DOMAIN Append(q, e) \ DOMAIN q : Append(q, e)[i] = "FileSelected")
              <=> e = "FileSelected"
<1>1. /\ DOMAIN q = 1 .. Len(q) /\ Len(q) \in Nat
      /\ DOMAIN Append(q, e) = 1 .. (Len(q) + 1)
      /\ \A i \in 1 .. Len(q) : Append(q, e)[i] = q[i]
      /\ Append(q, e)[Len(q) + 1] = e
  BY LenProperties, AppendProperties
<1>2. Selections(Append(q, e)) = IF e = "FileSelected" THEN Selections(q) \union {Len(q) + 1}
                                 ELSE Selections(q)
  BY <1>1 DEF Selections
<1>3. Len(q) + 1 \notin Selections(q)
  BY <1>1 DEF Selections
<1>4. Cardinality(Selections(q) \union {Len(q) + 1}) = Cardinality(Selections(q)) + 1
  BY <1>3, SelectionsAreFinite, FS_AddElement
<1>5. DOMAIN Append(q, e) \ DOMAIN q = {Len(q) + 1}
  BY <1>1
<1>6. (\E i \in DOMAIN Append(q, e) \ DOMAIN q : Append(q, e)[i] = "FileSelected")
        <=> e = "FileSelected"
  BY <1>1, <1>5
<1>7. Cardinality(Selections(q)) \in Nat
  BY SelectionsAreFinite
<1> QED BY <1>2, <1>4, <1>6, <1>7

LEMMA SelectionsTail ==
  ASSUME NEW S, NEW q \in Seq(S), q # <<>>
  PROVE  /\ Cardinality(Selections(Tail(q)))
              = Cardinality(Selections(q)) - (IF Head(q) = "FileSelected" THEN 1 ELSE 0)
         /\ Selections(Tail(q)) # {} => Selections(q) # {}
         /\ Head(q) = "FileSelected" => Selections(q) # {}
<1> DEFINE rest == Selections(q) \ {1}
           back == [i \in rest |-> i - 1]
<1>1. /\ DOMAIN q = 1 .. Len(q) /\ Len(q) \in Nat \ {0}
      /\ Tail(q) \in Seq(S) /\ DOMAIN Tail(q) = 1 .. (Len(q) - 1)
      /\ \A i \in 1 .. (Len(q) - 1) : Tail(q)[i] = q[i + 1]
      /\ Head(q) = q[1]
  BY LenProperties, HeadTailProperties, EmptySeq
<1>2. Selections(Tail(q)) = {i \in 1 .. (Len(q) - 1) : q[i + 1] = "FileSelected"}
  BY <1>1 DEF Selections
<1>3. rest = {i \in 2 .. Len(q) : q[i] = "FileSelected"}
  BY <1>1 DEF Selections
<1>4. rest \subseteq Nat /\ \A i \in rest : back[i] = i - 1
  BY <1>3
<1> HIDE DEF rest
<1>5. back \in Bijection(rest, Selections(Tail(q)))
  <2>1. back \in [rest -> Selections(Tail(q))]
    BY <1>1, <1>2, <1>3
  <2>2. \A i, j \in rest : back[i] = back[j] => i = j
    BY <1>4
  <2>3. \A j \in Selections(Tail(q)) : j + 1 \in rest /\ back[j + 1] = j
    BY <1>1, <1>2, <1>3
  <2>4. \A j \in Selections(Tail(q)) : \E i \in rest : back[i] = j
    BY <2>3
  <2> QED BY <2>1, <2>2, <2>4 DEF Bijection, Injection, Surjection, IsInjective
<1>6. IsFiniteSet(Selections(q))
  BY SelectionsAreFinite
<1>7. IsFiniteSet(rest) /\ Cardinality(rest) = IF 1 \in Selections(q)
                                              THEN Cardinality(Selections(q)) - 1
                                              ELSE Cardinality(Selections(q))
  BY <1>6, FS_RemoveElement DEF rest
<1>8. ExistsBijection(rest, Selections(Tail(q)))
  BY <1>5 DEF ExistsBijection
<1>9. Cardinality(Selections(Tail(q))) = Cardinality(rest)
  BY <1>7, <1>8, FS_Bijection
<1>10. 1 \in Selections(q) <=> Head(q) = "FileSelected"
  BY <1>1 DEF Selections
<1>11. Selections(Tail(q)) # {} => Selections(q) # {}
  <2>1. rest \subseteq Selections(q)
    BY DEF rest
  <2>2. Selections(Tail(q)) # {} => rest # {}
    <3>1. \A j \in Selections(Tail(q)) : j + 1 \in rest
      BY <1>1, <1>2, <1>3
    <3> QED BY <3>1
  <2> QED BY <2>1, <2>2
<1>12. Cardinality(Selections(q)) \in Nat
  BY SelectionsAreFinite
<1> QED BY <1>7, <1>9, <1>10, <1>11, <1>12

-----------------------------------------------------------------------------
(***************************************************************************)
(* Files and cartridges.                                                   *)
(***************************************************************************)
LEMMA FilesAreFiles ==
  ASSUME NEW path \in DOMAIN Image
  PROVE  /\ FileAt(path) \in File /\ Image[path] \in File
         /\ FileAt(path).exists => path \notin deleted /\ FileAt(path) = Image[path]
<1>1. Image[path] \in File
  BY FileAssumption
<1>2. \A b \in BOOLEAN : /\ [Image[path] EXCEPT !.exists = b] \in File
                         /\ [Image[path] EXCEPT !.exists = b].exists = b
  BY <1>1 DEF File
<1>3. CASE path \in deleted
  BY <1>1, <1>2, <1>3 DEF FileAt
<1>4. CASE path \notin deleted
  BY <1>1, <1>4 DEF FileAt
<1> QED BY <1>3, <1>4

\* A path is of a folder or of a file.
LEMMA PathKinds ==
  /\ \A path \in DOMAIN Image : path \notin Folders
  /\ \A path \in Paths : path \in Folders \/ path \in DOMAIN Image
BY FileAssumption DEF Paths

LEMMA CrashIsDangerous ==
  ASSUME NEW path \in DOMAIN Image, Crash(path)
  PROVE  Dangerous(path)
<1>1. path \notin Folders
  BY PathKinds
<1>2. FileAt(path) \in File /\ FileAt(path).exists /\ FileAt(path) = Image[path]
  BY FilesAreFiles DEF Crash, Throws, Accepted, Rejected
<1>3. Image[path].nes2 \/ Image[path].prg = 0
  BY <1>2, BankIsMissing DEF Crash, Throws
<1> QED BY <1>1, <1>3 DEF Dangerous

\* A cartridge that goes in is the file's.
LEMMA InsertedIsFiled ==
  ASSUME NEW path \in DOMAIN Image, Insert(path)
  PROVE  /\ BanksAsFiled'
         /\ loaded' = path
         /\ \A cartridge \in inserted' : cartridge.chr = <<>> => Image[path].chr = 0
<1>1. path \notin Folders
  BY PathKinds
<1>2. /\ FileAt(path) \in File /\ FileAt(path) = Image[path] /\ Accepted(Image[path])
      /\ loaded' = path /\ inserted' = {LoadINes(Image[path])}
  BY FilesAreFiles DEF Insert, Throws, Accepted, Rejected
<1>3. BanksAsFiled'
  BY <1>2, BanksOfFile DEF BanksAsFiled, First, Unit
<1>4. \A cartridge \in inserted' : cartridge.chr = <<>> => Image[path].chr = 0
  BY <1>2, BankIsMissing
<1> QED BY <1>2, <1>3, <1>4

\* A file is tried: refused, inserted, or fatal.
LEMMA FileTried ==
  ASSUME CartridgeKnown, BanksAsFiled, DiesAsListed,
         TypeOK, Live, pc' # "start",
         NEW path \in DOMAIN Image,
         \/ (Refuse(path) \/ Insert(path)) /\ pc' # "dead"
         \/ Crash(path) /\ pc' = "dead",
         warranted' = (pc' = "dead" /\ Dangerous(path))
  PROVE  (CartridgeKnown /\ BanksAsFiled /\ DiesAsListed)'
<1>1. CASE Refuse(path) /\ pc' # "dead"
  BY <1>1 DEF Refuse, CartridgeKnown, BanksAsFiled, DiesAsListed
<1>2. CASE Insert(path) /\ pc' # "dead"
  BY <1>2, InsertedIsFiled DEF CartridgeKnown, DiesAsListed
<1>3. CASE Crash(path) /\ pc' = "dead"
  BY <1>3, CrashIsDangerous DEF Crash, CartridgeKnown, BanksAsFiled, DiesAsListed
<1> QED BY <1>1, <1>2, <1>3

-----------------------------------------------------------------------------
(***************************************************************************)
(* The list and the curser.                                                *)
(***************************************************************************)
LEMMA LinesArePaths ==
  ASSUME TypeOK, NavigatorInv, Live, files # <<>>, NEW line \in DOMAIN files
  PROVE  Child[folder, files[line]] \in Paths /\ filePath = folder
BY FileAssumption DEF NavigatorInv, FolderShown, Paths

LEMMA CurserAttracted ==
  ASSUME TypeOK, NavigatorInv
  PROVE  /\ DOMAIN files = 1 .. Len(files) /\ Len(files) \in Nat
         /\ files # <<>> => Here \in DOMAIN files /\ Attracted(highlighted) \in DOMAIN files
         /\ Here \in Nat \ {0} /\ Attracted(highlighted) \in Nat \ {0}
<1>1. files \in Seq(STRING) /\ highlighted \in 0 .. Len(files) /\ curser \in Nat \ {0}
  BY DEF TypeOK, NavigatorTypes
<1>2. DOMAIN files = 1 .. Len(files) /\ Len(files) \in Nat
  BY <1>1, LenProperties
<1> QED BY <1>1, <1>2 DEF NavigatorInv, CurserInList, Here, Attracted

\* Where a choice is handled there is a line at the curser.
LEMMA SelectionHasLine ==
  ASSUME TypeOK, NavigatorInv, Posted("FileSelected")
  PROVE  /\ files # <<>> /\ Here \in DOMAIN files /\ filePath = folder
         /\ Child[folder, files[Here]] \in Paths
<1>1. pc = "input" /\ posted # <<>> /\ Head(posted) = "FileSelected"
  BY DEF Posted, Polling
<1>2. posted \in Seq(CustomEvents \union {"FileSelected"})
  BY DEF TypeOK, QueueTypes
<1>3. Selections(posted) # {}
  BY <1>1, <1>2, SelectionsTail
<1>4. files # <<>>
  BY <1>1, <1>3 DEF NavigatorInv, ListIsThere, Live
<1> QED BY <1>1, <1>4, CurserAttracted, LinesArePaths DEF Live

LEMMA UndangerousFolder ==
  ASSUME NEW path, path \in Folders \union deleted, deleted \subseteq DOMAIN Image,
         ~Lists(path)
  PROVE  Dangerous(path)
BY PathKinds DEF Dangerous, Lists

LEMMA CartridgeStep ==
  ASSUME EngineInv, [Next]_vars
  PROVE  (CartridgeKnown /\ BanksAsFiled /\ DiesAsListed)'
<1> DEFINE Same == UNCHANGED <<inserted, loaded>>
<1>1. /\ CartridgeKnown /\ BanksAsFiled /\ DiesAsListed /\ TypeOK /\ NavigatorInv
      /\ deleted \subseteq DOMAIN Image /\ folder \in Folders \union deleted
  BY DEF EngineInv, NavigatorInv, FolderShown
<1> USE DEF CartridgeKnown, BanksAsFiled, DiesAsListed
<1>2. ASSUME UNCHANGED <<inserted, loaded>>, pc' = "start" => pc = "start",
             pc' = "dead" => warranted' \/ (pc = "dead" /\ UNCHANGED warranted)
      PROVE  (CartridgeKnown /\ BanksAsFiled /\ DiesAsListed)'
  BY <1>1, <1>2
<1>3. CASE Start
  <2>1. CASE UNCHANGED <<inserted, loaded>> /\ pc' = "input"
    BY <1>2, <2>1
  <2>2. ASSUME NEW path \in Arguments \ {None},
               \/ Refuse(path) /\ pc' = "failed"
               \/ Insert(path) /\ pc' = "input"
               \/ Crash(path) /\ pc' = "dead",
               warranted' = (pc' = "dead" /\ Dangerous(path))
        PROVE  (CartridgeKnown /\ BanksAsFiled /\ DiesAsListed)'
    <3>1. path \in DOMAIN Image
      BY FileAssumption
    <3>2. Live /\ inserted = {}
      BY <1>1, <1>3 DEF Start, Live
    <3> QED BY <1>1, <2>2, <3>1, <3>2, FileTried
  <2> QED BY <1>3, <2>1, <2>2 DEF Start
<1>4. CASE UserEvent
  <2>1. UNCHANGED <<inserted, loaded, pc, warranted>>
    BY <1>4 DEF UserEvent, Press, Release, Move, Key, Quit, OtherEvent, engineVars, flags
  <2> QED BY <1>2, <2>1
<1>5. CASE ChangeView
  BY <1>2, <1>5 DEF ChangeView, engineVars
<1>6. CASE EmulatorEvent
  BY <1>2, <1>6 DEF EmulatorEvent
<1>7. CASE DumpCrashes
  BY <1>2, <1>7 DEF DumpCrashes, Posted, Polling
<1>8. CASE OpenRom
  <2>1. /\ UNCHANGED <<inserted, loaded>> /\ pc = "input"
        /\ warranted' = (pc' = "dead" /\ Dangerous(folder))
        /\ pc' = pc \/ (pc' = "dead" /\ ~Lists(folder))
    BY <1>8 DEF OpenRom, ShowFolder, Posted, Polling
  <2> QED BY <1>1, <1>2, <2>1, UndangerousFolder
<1>9. CASE FileSelected
  <2> DEFINE path == Child[folder, files[Here]]
  <2>1. Posted("FileSelected") /\ pc = "input"
    BY <1>9 DEF FileSelected, Posted, Polling
  <2>2. path \in Paths /\ Here \in DOMAIN files
    BY <1>1, <2>1, SelectionHasLine
  <2>3. /\ SelectFolder(path) \/ SelectFile(path)
        /\ warranted' = (pc' = "dead" /\ Dangerous(path))
    BY <1>9, <2>2 DEF FileSelected
  <2> HIDE DEF path
  <2>4. CASE SelectFolder(path)
    <3>1. path \in Folders \union deleted
      BY <2>4 DEF SelectFolder, IsDir
    <3>2. UNCHANGED <<inserted, loaded>> /\ (pc' = pc \/ (pc' = "dead" /\ ~Lists(path)))
      BY <2>4 DEF SelectFolder, ShowFolder
    <3> QED BY <1>1, <1>2, <2>1, <2>3, <3>1, <3>2, UndangerousFolder
  <2>5. CASE SelectFile(path)
    <3>1. CASE path \in DOMAIN Image
      <4>1. \/ (Refuse(path) \/ Insert(path)) /\ pc' = "input"
            \/ Crash(path) /\ pc' = "dead"
        BY <2>1, <2>5 DEF SelectFile
      <4> QED BY <1>1, <2>1, <2>3, <3>1, <4>1, FileTried DEF Live
    <3>2. CASE path \in Folders
      BY <1>1, <2>5, <3>2, PathKinds DEF SelectFile, IsDir
    <3> QED BY <2>2, <3>1, <3>2, PathKinds
  <2> QED BY <2>3, <2>4, <2>5
<1>10. CASE Process
  BY <1>2, <1>10 DEF Process, Polling, history
<1>11. CASE ConsoleThrows \/ ProcessCrashes
  BY <1>1, <1>2, <1>11 DEF ConsoleThrows, ProcessCrashes, Polling, history
<1>12. ASSUME NEW path \in Deletable, Delete(path)
       PROVE  (CartridgeKnown /\ BanksAsFiled /\ DiesAsListed)'
  BY <1>2, <1>12 DEF Delete, history
<1>13. CASE Finished \/ UNCHANGED vars
  BY <1>2, <1>13 DEF Finished, vars, history
<1> QED
  BY <1>3, <1>4, <1>5, <1>6, <1>7, <1>8, <1>9, <1>10, <1>11, <1>12, <1>13 DEF Next, HandlePosted

-----------------------------------------------------------------------------
(***************************************************************************)
(* Menus, and the types of what no choice depends on.                      *)
(***************************************************************************)
LEMMA MenuStep ==
  ASSUME EngineInv, [Next]_vars
  PROVE  OneMenuOpen' /\ open' \subseteq Menus
<1> USE DEF OneMenuOpen
<1>1. open \subseteq Menus /\ (~held => Cardinality(open) <= 1)
  BY DEF EngineInv, TypeOK
<1>2. \A x : IsFiniteSet({x}) /\ Cardinality({x}) = 1
  BY FS_Singleton
<1>3. ASSUME NEW point \in Points, Press(point) PROVE OneMenuOpen' /\ open' \subseteq Menus
  <2>1. point.bar \in Menus \union {None}
    BY LayoutAssumption
  <2> QED BY <1>1, <1>3, <2>1 DEF Press, MousePressed
<1>4. ASSUME NEW point \in Points, Release(point) PROVE OneMenuOpen' /\ open' \subseteq Menus
  <2>1. open' = open \intersect {point.bar}
    BY <1>4 DEF Release, MouseReleased
  <2>2. IsFiniteSet({point.bar}) /\ open' \in SUBSET {point.bar}
    BY <1>2, <2>1
  <2>3. Cardinality(open') <= Cardinality({point.bar})
    BY <2>2, FS_Subset
  <2>4. Cardinality(open') <= 1
    BY <1>2, <2>3
  <2> QED BY <1>1, <2>1, <2>4
<1>5. ASSUME NEW point \in Points, Move(point) PROVE OneMenuOpen' /\ open' \subseteq Menus
  <2>1. point.bar \in Menus \union {None}
    BY LayoutAssumption
  <2>2. UNCHANGED held /\ (open' = open \/ (open' = {point.bar} /\ point.bar \in Menus))
    BY <1>5, <2>1 DEF Move, MouseMoved
  <2>3. Cardinality({point.bar}) <= 1
    BY <1>2
  <2> QED BY <1>1, <2>2, <2>3
<1>6. CASE UNCHANGED <<open, held>>
  BY <1>1, <1>6
<1>7. CASE UserEvent
  BY <1>3, <1>4, <1>5, <1>6, <1>7 DEF UserEvent, Key, KeyPressed, Quit, OtherEvent
<1>8. CASE HandlePosted
  BY <1>6, <1>8 DEF HandlePosted, ChangeView, EmulatorEvent, DumpCrashes, OpenRom, FileSelected,
                    Posted
<1>9. CASE \/ Start \/ Process \/ ConsoleThrows \/ ProcessCrashes
           \/ (\E path \in Deletable : Delete(path)) \/ Finished \/ UNCHANGED vars
  BY <1>6, <1>9 DEF Start, Process, ConsoleThrows, ProcessCrashes, Delete, Finished, vars,
                    windowVars, history
<1> QED BY <1>7, <1>8, <1>9 DEF Next

PlainTypes == /\ view \in Views /\ FlagTypes
              /\ pc \in {"start", "input", "closed", "failed", "dead", "thrown"}
              /\ folder \in Paths /\ deleted \subseteq Paths /\ loaded \in Paths \union {None}

LEMMA PlainStep ==
  ASSUME EngineInv, [Next]_vars
  PROVE  PlainTypes'
<1> USE DEF PlainTypes, FlagTypes
<1>1. PlainTypes /\ TypeOK /\ NavigatorInv
  BY DEF EngineInv, TypeOK
<1>2. CASE Start
  <2>1. \A path \in Arguments \ {None} : path \in Paths
    BY FileAssumption DEF Paths
  <2>2. UNCHANGED <<view, isActive, shouldExit, frameStep, assemblyStep, folder, deleted, astray,
                    held>>
        /\ pc' \in {"input", "failed", "dead"}
    BY <1>2 DEF Start, windowVars
  <2>3. loaded' \in Paths \union {None} /\ run' \in BOOLEAN /\ debugPoint' \in BOOLEAN
    BY <1>1, <1>2, <2>1 DEF Start, Refuse, Insert, Crash
  <2>4. warranted' \in BOOLEAN
    BY <1>1, <1>2 DEF Start, Dangerous
  <2> QED BY <1>1, <2>2, <2>3, <2>4
<1>3. CASE UserEvent
  <2>1. UNCHANGED <<view, debugPoint, folder, deleted, astray, loaded, warranted, pc>>
    BY <1>3 DEF UserEvent, Press, Release, Move, Key, Quit, OtherEvent, MousePressed,
                MouseReleased, MouseMoved, KeyPressed, engineVars, flags
  <2>2. shouldExit' \in BOOLEAN /\ run' \in BOOLEAN /\ frameStep' \in BOOLEAN
        /\ assemblyStep' \in BOOLEAN
    BY <1>1, <1>3 DEF UserEvent, Press, Release, Move, Key, Quit, OtherEvent, engineVars, flags
  <2>3. isActive' \in BOOLEAN /\ held' \in BOOLEAN
    BY <1>1, <1>3 DEF UserEvent, Press, Release, Move, Key, Quit, OtherEvent, MousePressed,
                      MouseReleased, MouseMoved, KeyPressed
  <2> QED BY <1>1, <2>1, <2>2, <2>3
<1>4. CASE ChangeView
  BY <1>1, <1>4 DEF ChangeView, Posted, engineVars, flags, Views
<1>5. CASE EmulatorEvent
  <2>1. UNCHANGED <<view, isActive, shouldExit, folder, deleted, astray, loaded, warranted, pc,
                    held>>
    BY <1>5 DEF EmulatorEvent, Posted
  <2>2. /\ run' \in BOOLEAN /\ frameStep' \in BOOLEAN /\ assemblyStep' \in BOOLEAN
        /\ debugPoint' \in BOOLEAN
    BY <1>1, <1>5 DEF EmulatorEvent
  <2> QED BY <1>1, <2>1, <2>2
<1>6. CASE DumpCrashes
  BY <1>1, <1>6 DEF DumpCrashes, Posted, flags
<1>7. CASE OpenRom
  <2>1. warranted' \in BOOLEAN
    BY <1>1, <1>7 DEF OpenRom, Dangerous
  <2>2. view' \in Views /\ pc' \in {pc, "dead"}
    BY <1>7 DEF OpenRom, ShowFolder, Views
  <2>3. UNCHANGED <<isActive, flags, folder, deleted, astray, loaded, held>>
    BY <1>7 DEF OpenRom, Posted
  <2> QED BY <1>1, <2>1, <2>2, <2>3 DEF flags
<1>8. CASE FileSelected
  <2> DEFINE path == Child[folder, files[Here]]
  <2>1. path \in Paths /\ Here \in DOMAIN files /\ Posted("FileSelected")
    BY <1>1, <1>8, SelectionHasLine DEF FileSelected
  <2>2. /\ SelectFolder(path) \/ SelectFile(path)
        /\ astray' \in BOOLEAN /\ warranted' \in BOOLEAN
    BY <1>1, <1>8, <2>1 DEF FileSelected, Dangerous
  <2> HIDE DEF path
  <2>3. /\ view' \in Views /\ run' \in BOOLEAN /\ folder' \in Paths
        /\ loaded' \in Paths \union {None} /\ pc' \in {pc, "dead"}
    BY <1>1, <2>1, <2>2 DEF SelectFolder, SelectFile, ShowFolder, Refuse, Insert, Crash, Views
  <2>4. UNCHANGED <<isActive, held, shouldExit, frameStep, assemblyStep, debugPoint, deleted>>
    BY <1>8 DEF FileSelected, Posted
  <2> QED BY <1>1, <2>2, <2>3, <2>4
<1>9. CASE Process \/ ConsoleThrows \/ ProcessCrashes
  <2>1. UNCHANGED <<view, isActive, shouldExit, debugPoint, folder, deleted, loaded, astray, held>>
        /\ pc' \in {"closed", "input", "dead", "thrown"}
    BY <1>9 DEF Process, ConsoleThrows, ProcessCrashes, windowVars, flags, history
  <2>2. run' \in BOOLEAN /\ frameStep' \in BOOLEAN /\ assemblyStep' \in BOOLEAN
    BY <1>1, <1>9 DEF Process, ConsoleThrows, ProcessCrashes, Idle, Advance, flags
  <2>3. warranted' \in BOOLEAN
    BY <1>1, <1>9 DEF Process, ConsoleThrows, ProcessCrashes, history
  <2> QED BY <1>1, <2>1, <2>2, <2>3
<1>10. CASE \E path \in Deletable : Delete(path)
  <2>1. Deletable \subseteq Paths
    BY FileAssumption DEF Paths
  <2> QED BY <1>1, <1>10, <2>1 DEF Delete, windowVars, flags, history
<1>11. CASE Finished \/ UNCHANGED vars
  BY <1>1, <1>11 DEF Finished, vars, windowVars, flags, history
<1> QED BY <1>2, <1>3, <1>4, <1>5, <1>6, <1>7, <1>8, <1>9, <1>10, <1>11 DEF Next, HandlePosted

-----------------------------------------------------------------------------
(***************************************************************************)
(* The queue and the choices in it.                                        *)
(***************************************************************************)
Codes == CustomEvents \union {"FileSelected"}
Choices == Paths \union {None}

LEMMA NoItemSelects == "FileSelected" \notin CustomEvents /\ "FileSelected" \in Codes
BY DEF CustomEvents, Codes

\* Choices are kept as they stand, or none of them.
LEMMA KeptChoices ==
  ASSUME chosen \in Seq(Choices)
  PROVE  /\ Kept \in Seq(Choices) /\ Len(Kept) = Len(chosen) /\ DOMAIN Kept = DOMAIN chosen
         /\ \A i \in DOMAIN Kept : Kept[i] # None =>
              Kept[i] = chosen[i] /\ UNCHANGED <<filePath, files, curser>>
<1> DEFINE none == [i \in DOMAIN chosen |-> None]
<1>1. Len(chosen) \in Nat /\ DOMAIN chosen = 1 .. Len(chosen) /\ None \in Choices
  BY LenProperties DEF Choices
<1>2. none \in Seq(Choices) /\ Len(none) = Len(chosen) /\ DOMAIN none = DOMAIN chosen
  BY <1>1
<1>3. \A i \in DOMAIN none : none[i] = None
  OBVIOUS
<1> HIDE DEF none
<1>4. Kept = IF <<filePath, files, curser>>' = <<filePath, files, curser>> THEN chosen ELSE none
  BY DEF Kept, none
<1>5. CASE <<filePath, files, curser>>' = <<filePath, files, curser>>
  BY <1>4, <1>5
<1>6. CASE ~(<<filePath, files, curser>>' = <<filePath, files, curser>>)
  BY <1>2, <1>3, <1>4, <1>6
<1> QED BY <1>5, <1>6

\* A press selects a file when it is on a line of the navigator.
Selects(point) == view = "OpenRom" /\ LineAt(point) # 0

LEMMA PressPosts ==
  ASSUME posted \in Seq(Codes), open \subseteq Menus, NEW point \in Points, MousePressed(point)
  PROVE  /\ posted' \in Seq(Codes)
         /\ Cardinality(Selections(posted'))
              = Cardinality(Selections(posted)) + (IF Selects(point) THEN 1 ELSE 0)
         /\ (\E i \in DOMAIN posted' \ DOMAIN posted : posted'[i] = "FileSelected")
              <=> Selects(point)
         /\ Selections(posted') # {} => Selections(posted) # {} \/ Selects(point)
<1> DEFINE items == ItemsPressed(open', point)
           mid   == posted \o items
<1>1. items = <<>> \/ \E e \in CustomEvents : items = <<e>>
  <2>1. open' \subseteq Menus
    BY LayoutAssumption DEF MousePressed
  <2>2. \A m \in Menus : Items[m] \subseteq CustomEvents
    BY LayoutAssumption
  <2>3. CASE \E m \in open' : point.item \in Items[m]
    <3>1. items = <<point.item>>
      BY <2>3 DEF ItemsPressed
    <3> QED BY <2>1, <2>2, <2>3, <3>1
  <2>4. CASE ~\E m \in open' : point.item \in Items[m]
    BY <2>4 DEF ItemsPressed
  <2> QED BY <2>3, <2>4
<1>2. posted' = mid \o LinePressed(point)
  BY DEF MousePressed
<1> HIDE DEF items
<1>3. mid = posted \/ \E e \in Codes : e # "FileSelected" /\ mid = Append(posted, e)
  <2>1. CASE items = <<>>
    BY <2>1, ConcatEmptySeq
  <2>2. ASSUME NEW e \in CustomEvents, items = <<e>> PROVE mid = Append(posted, e)
    BY <2>2, AppendIsConcat DEF Codes
  <2> QED BY <1>1, <2>1, <2>2, NoItemSelects DEF Codes
<1> HIDE DEF mid
<1>4. /\ mid \in Seq(Codes) /\ Cardinality(Selections(mid)) = Cardinality(Selections(posted))
      /\ Selections(mid) # {} => Selections(posted) # {}
      /\ \A i \in DOMAIN mid \ DOMAIN posted : mid[i] # "FileSelected"
      /\ Len(posted) <= Len(mid)
  <2>1. Cardinality(Selections(posted)) \in Nat /\ Len(posted) \in Nat
    BY SelectionsAreFinite, LenProperties
  <2>2. CASE mid = posted
    BY <2>1, <2>2
  <2>3. CASE \E e \in Codes : e # "FileSelected" /\ mid = Append(posted, e)
    <3>1. PICK e \in Codes : e # "FileSelected" /\ mid = Append(posted, e)
      BY <2>3
    <3> QED BY <2>1, <3>1, SelectionsAppend, AppendProperties
  <2> QED BY <1>3, <2>2, <2>3
<1>5. /\ Len(posted) \in Nat /\ DOMAIN posted = 1 .. Len(posted)
      /\ Len(mid) \in Nat /\ DOMAIN mid = 1 .. Len(mid)
  BY <1>4, LenProperties
<1>6. CASE Selects(point)
  <2>1. posted' = Append(mid, "FileSelected")
    BY <1>2, <1>4, <1>6, AppendIsConcat, NoItemSelects DEF LinePressed, Selects
  <2>2. posted' \in Seq(Codes) /\ DOMAIN posted' = 1 .. (Len(mid) + 1)
        /\ posted'[Len(mid) + 1] = "FileSelected"
    BY <1>4, <2>1, NoItemSelects, AppendProperties, LenProperties
  <2>3. Cardinality(Selections(posted')) = Cardinality(Selections(mid)) + 1
    BY <1>4, <2>1, NoItemSelects, SelectionsAppend
  <2>4. Len(mid) + 1 \in DOMAIN posted' \ DOMAIN posted
    BY <1>4, <1>5, <2>2
  <2> QED BY <1>4, <1>6, <2>2, <2>3, <2>4
<1>7. CASE ~Selects(point)
  <2>1. posted' = mid
    BY <1>2, <1>4, <1>7, ConcatEmptySeq DEF LinePressed, Selects
  <2>2. Cardinality(Selections(posted)) \in Nat
    BY SelectionsAreFinite
  <2> QED BY <1>4, <1>7, <2>1, <2>2
<1> QED BY <1>6, <1>7

\* A choice joins the others, as the event that makes it joins the queue.
LEMMA ChoiceMade ==
  ASSUME QueueTypes, posted' \in Seq(Codes), NEW line, PathAt(line) \in Choices,
         ChosenAt(line), NEW new \in BOOLEAN,
         (\E i \in DOMAIN posted' \ DOMAIN posted : posted'[i] = "FileSelected") <=> new,
         Cardinality(Selections(posted'))
           = Cardinality(Selections(posted)) + (IF new THEN 1 ELSE 0)
  PROVE  /\ QueueTypes'
         /\ chosen' = IF new THEN Append(Kept, PathAt(line)) ELSE Kept
<1>1. chosen' = IF new THEN Append(Kept, PathAt(line)) ELSE Kept
  BY DEF ChosenAt
<1>2. chosen \in Seq(Choices) /\ Len(chosen) = Cardinality(Selections(posted))
  BY DEF QueueTypes, Choices
<1>3. Kept \in Seq(Choices) /\ Len(Kept) = Len(chosen)
  BY <1>2, KeptChoices
<1>4. Len(chosen) \in Nat
  BY <1>2, LenProperties
<1>5. CASE new
  <2>1. chosen' \in Seq(Choices) /\ Len(chosen') = Len(chosen) + 1
    BY <1>1, <1>3, <1>5, AppendProperties
  <2> QED BY <1>1, <1>2, <1>5, <2>1 DEF QueueTypes, Choices, Codes
<1>6. CASE ~new
  BY <1>1, <1>2, <1>3, <1>4, <1>6 DEF QueueTypes, Choices, Codes
<1> QED BY <1>5, <1>6

\* An event is taken from the queue, and its choice with it if it is one.
LEMMA EventTaken ==
  ASSUME QueueTypes, NEW code, Posted(code)
  PROVE  /\ posted' \in Seq(Codes)
         /\ Selections(posted') # {} => Selections(posted) # {}
         /\ code # "FileSelected" /\ chosen' = Kept => QueueTypes'
         /\ code = "FileSelected" => /\ chosen # <<>> /\ Kept # <<>>
                                     /\ chosen' = Tail(Kept) => QueueTypes'
<1>1. posted \in Seq(Codes) /\ posted # <<>> /\ posted' = Tail(posted) /\ Head(posted) = code
  BY DEF QueueTypes, Posted, Codes
<1>2. posted' \in Seq(Codes)
  BY <1>1, HeadTailProperties
<1>3. Cardinality(Selections(posted'))
        = Cardinality(Selections(posted)) - (IF code = "FileSelected" THEN 1 ELSE 0)
      /\ (Selections(posted') # {} => Selections(posted) # {})
      /\ (code = "FileSelected" => Selections(posted) # {})
  BY <1>1, SelectionsTail
<1>4. chosen \in Seq(Choices) /\ Len(chosen) = Cardinality(Selections(posted))
      /\ Kept \in Seq(Choices) /\ Len(Kept) = Len(chosen) /\ Len(chosen) \in Nat
  BY KeptChoices, LenProperties DEF QueueTypes, Choices
<1>5. ASSUME code # "FileSelected", chosen' = Kept PROVE QueueTypes'
  BY <1>2, <1>3, <1>4, <1>5 DEF QueueTypes, Choices, Codes
<1>6. ASSUME code = "FileSelected" PROVE chosen # <<>> /\ Kept # <<>>
  <2>1. Cardinality(Selections(posted)) # 0
    BY <1>1, <1>3, <1>6, SelectionsAreFinite, FS_EmptySet
  <2> QED BY <1>4, <2>1, EmptySeq
<1>7. ASSUME code = "FileSelected", chosen' = Tail(Kept) PROVE QueueTypes'
  <2>1. chosen' \in Seq(Choices) /\ Len(chosen') = Len(chosen) - 1
    BY <1>4, <1>6, <1>7, HeadTailProperties
  <2> QED BY <1>2, <1>3, <1>4, <1>7, <2>1 DEF QueueTypes, Choices, Codes
<1> QED BY <1>2, <1>3, <1>5, <1>6, <1>7

-----------------------------------------------------------------------------
(***************************************************************************)
(* The navigator.                                                          *)
(***************************************************************************)
\* What every event leaves of the list, but those that replace it: the curser
\* stays in the list, and only comes off a line that stays highlighted by itself.
Browsed == /\ UNCHANGED <<filePath, files, folder, deleted>>
           /\ curser' \in Nat \ {0} /\ (files # <<>> => curser' \in DOMAIN files)
           /\ highlighted' \in 0 .. Len(files)
           /\ view' = "OpenRom" => view = "OpenRom"
           /\ view' = "OpenRom" /\ highlighted' # 0
                => curser' = highlighted' \/ highlighted' = highlighted

StandsAfter(path) ==
  /\ files' # <<>>
  /\ path = Child[filePath', files'[curser']]
  /\ view' = "OpenRom" /\ highlighted' # 0 => curser' = highlighted'

LEMMA AllStandAfter ==
  ASSUME \A i \in DOMAIN chosen' : chosen'[i] # None => StandsAfter(chosen'[i])
  PROVE  ChoicesStand'
BY DEF ChoicesStand, Stands, StandsAfter

\* A choice that stands does so after an event that keeps it.
LEMMA KeptStand ==
  ASSUME TypeOK, NavigatorInv, Live, Browsed, NEW i \in DOMAIN Kept, Kept[i] # None
  PROVE  StandsAfter(Kept[i])
<1>1. chosen \in Seq(Choices)
  BY DEF TypeOK, QueueTypes, Choices
<1>2. i \in DOMAIN chosen /\ Kept[i] = chosen[i] /\ UNCHANGED <<filePath, files, curser>>
  BY <1>1, KeptChoices
<1>3. Stands(chosen[i])
  BY <1>2 DEF NavigatorInv, ChoicesStand
<1> QED BY <1>2, <1>3 DEF Stands, StandsAfter, Browsed

LEMMA ListKept ==
  ASSUME TypeOK, NavigatorInv, Live, Browsed, QueueTypes',
         Selections(posted') # {} => Selections(posted) # {} \/ files # <<>>,
         \/ chosen' = Kept
         \/ /\ chosen' = Append(Kept, PathAt(curser')) /\ files # <<>>
            /\ view' = "OpenRom" /\ highlighted' # 0 => curser' = highlighted'
  PROVE  NavigatorTypes' /\ NavigatorInv'
<1>1. NavigatorTypes'
  BY DEF TypeOK, NavigatorTypes, Browsed
<1>2. FolderShown' /\ CurserInList' /\ ListIsThere'
  BY DEF NavigatorInv, FolderShown, CurserInList, ListIsThere, Browsed, Live
<1>3. chosen \in Seq(Choices)
  BY DEF TypeOK, QueueTypes, Choices
<1>4. Kept \in Seq(Choices)
  BY <1>3, KeptChoices
<1>5. CASE chosen' = Kept
  BY <1>1, <1>2, <1>5, KeptStand, AllStandAfter DEF NavigatorInv
<1>6. CASE /\ chosen' = Append(Kept, PathAt(curser')) /\ files # <<>>
           /\ view' = "OpenRom" /\ highlighted' # 0 => curser' = highlighted'
  <2>1. curser' \in DOMAIN files
    BY <1>6 DEF Browsed
  <2>2. PathAt(curser') = Child[filePath, files[curser']]
    BY <2>1 DEF PathAt
  <2>3. PathAt(curser') \in Choices
    BY <1>6, <2>1, <2>2, LinesArePaths DEF Choices
  <2>4. StandsAfter(PathAt(curser'))
    BY <1>6, <2>2 DEF StandsAfter, Browsed
  <2>5. ASSUME NEW i \in DOMAIN chosen', chosen'[i] # None PROVE StandsAfter(chosen'[i])
    <3>1. /\ Len(Kept) \in Nat /\ DOMAIN Kept = 1 .. Len(Kept)
          /\ DOMAIN chosen' = 1 .. (Len(Kept) + 1)
          /\ \A j \in 1 .. Len(Kept) : chosen'[j] = Kept[j]
          /\ chosen'[Len(Kept) + 1] = PathAt(curser')
      BY <1>4, <1>6, <2>3, AppendProperties, LenProperties
    <3>2. CASE i \in DOMAIN Kept
      BY <2>5, <3>1, <3>2, KeptStand
    <3>3. CASE i = Len(Kept) + 1
      BY <2>4, <3>1, <3>3
    <3> QED BY <3>1, <3>2, <3>3
  <2> QED BY <1>1, <1>2, <2>5, AllStandAfter DEF NavigatorInv
<1> QED BY <1>5, <1>6

\* The list is replaced: another folder is shown, or none can be.
LEMMA ListShown ==
  ASSUME TypeOK, NavigatorInv, Live, UNCHANGED deleted, NEW path, folder' = path, path \in Paths,
         path \in Folders \union deleted, ShowFolder(path),
         QueueTypes', pc' = pc \/ pc' = "dead",
         \A i \in DOMAIN chosen' : chosen'[i] # None =>
           \E j \in DOMAIN Kept : chosen'[i] = Kept[j]
  PROVE  NavigatorTypes' /\ NavigatorInv'
<1>1. CASE Lists(path) /\ SetFileSystemData(path, Listing[path])
  <2>1. path \in Folders /\ Listing[path] \in Seq(STRING) /\ Listing[path] # <<>>
    BY <1>1, FileAssumption DEF Lists
  <2>2. Len(Listing[path]) \in Nat \ {0} /\ DOMAIN Listing[path] = 1 .. Len(Listing[path])
    BY <2>1, EmptySeq, LenProperties
  <2>3. filePath' = path /\ files' = Listing[path] /\ highlighted' = 0 /\ curser' = 1
    BY <1>1 DEF SetFileSystemData
  <2>4. NavigatorTypes' /\ FolderShown' /\ CurserInList' /\ ListIsThere'
    BY <2>1, <2>2, <2>3 DEF NavigatorTypes, FolderShown, CurserInList, ListIsThere, NavigatorInv,
                           Paths
  <2>5. ASSUME NEW i \in DOMAIN chosen', chosen'[i] # None PROVE StandsAfter(chosen'[i])
    <3>1. PICK j \in DOMAIN Kept : chosen'[i] = Kept[j]
      BY <2>5
    <3>2. chosen \in Seq(Choices)
      BY DEF TypeOK, QueueTypes, Choices
    <3>3. j \in DOMAIN chosen /\ Kept[j] = chosen[j] /\ UNCHANGED <<filePath, files, curser>>
      BY <2>5, <3>1, <3>2, KeptChoices
    <3>4. Stands(chosen[j])
      BY <2>5, <3>1, <3>3 DEF NavigatorInv, ChoicesStand
    <3> QED BY <2>3, <3>1, <3>3, <3>4 DEF Stands, StandsAfter
  <2> QED BY <2>4, <2>5, AllStandAfter DEF NavigatorInv
<1>2. CASE ~Lists(path) /\ pc' = "dead" /\ UNCHANGED navigator
  BY <1>2 DEF navigator, TypeOK, NavigatorTypes, NavigatorInv, FolderShown, CurserInList,
              ListIsThere, ChoicesStand, Live
<1> QED BY <1>1, <1>2 DEF ShowFolder

\* Any event on its way past the navigator.
LEMMA NotifiedBrowsed ==
  ASSUME TypeOK, NavigatorInv, NavigatorNotified, UNCHANGED <<view, folder, deleted>>
  PROVE  Browsed
<1>1. highlighted \in 0 .. Len(files) /\ curser \in Nat \ {0}
  BY DEF TypeOK, NavigatorTypes
<1>2. curser' = Here
  BY DEF NavigatorNotified, Here
<1> QED BY <1>1, <1>2, CurserAttracted DEF Browsed, NavigatorNotified

LEMMA PointedBrowsed ==
  ASSUME TypeOK, NavigatorInv, NEW point \in Points, NavigatorPointed(point),
         UNCHANGED <<view, folder, deleted>>
  PROVE  /\ Browsed
         /\ Selects(point) => /\ files # <<>> /\ curser' = LineAt(point)
                              /\ highlighted' = LineAt(point)
         /\ ~Selects(point) => LineAt(point) \in DOMAIN files \/ LineAt(point) = 0
<1>1. /\ highlighted \in 0 .. Len(files) /\ curser \in Nat \ {0}
      /\ DOMAIN files = 1 .. Len(files) /\ Len(files) \in Nat
  BY CurserAttracted DEF TypeOK, NavigatorTypes
<1>2. point.line \in Nat
  BY LayoutAssumption
<1>3. LineAt(point) \in 0 .. Len(files)
  BY <1>1, <1>2 DEF LineAt
<1>4. LineAt(point) # 0 => LineAt(point) \in DOMAIN files /\ files # <<>>
  BY <1>1, <1>3
<1>5. files # <<>> => curser \in DOMAIN files
  BY DEF NavigatorInv, CurserInList
<1>6. CASE view # "OpenRom"
  BY <1>1, <1>4, <1>5, <1>6 DEF NavigatorPointed, navigator, Browsed, Selects
<1>7. CASE view = "OpenRom"
  <2>1. /\ highlighted' = LineAt(point) /\ UNCHANGED <<filePath, files>>
        /\ curser' = IF LineAt(point) # 0 THEN LineAt(point) ELSE curser
    BY <1>7 DEF NavigatorPointed, Attracted
  <2> QED BY <1>1, <1>3, <1>4, <1>5, <1>7, <2>1 DEF Browsed, Selects
<1> QED BY <1>6, <1>7

LEMMA KeyBrowsed ==
  ASSUME TypeOK, NavigatorInv, pc = "input", NEW key \in Keys, KeyPressed(key),
         UNCHANGED <<folder, deleted>>
  PROVE  /\ Browsed
         /\ posted' = IF view = "OpenRom" /\ key = "Return"
                      THEN Append(posted, "FileSelected") ELSE posted
         /\ view = "OpenRom" /\ key = "Return" =>
              /\ files # <<>>
              /\ view' = "OpenRom" /\ highlighted' # 0 => curser' = highlighted'
<1>1. /\ highlighted \in 0 .. Len(files) /\ curser \in Nat \ {0}
      /\ DOMAIN files = 1 .. Len(files) /\ Len(files) \in Nat
      /\ Attracted(highlighted) \in Nat \ {0}
      /\ files # <<>> => curser \in DOMAIN files /\ Attracted(highlighted) \in DOMAIN files
  BY CurserAttracted DEF TypeOK, NavigatorTypes, NavigatorInv, CurserInList
<1>2. view = "OpenRom" => files # <<>>
  BY DEF NavigatorInv, ListIsThere, Live
<1>3. UNCHANGED <<view, filePath, files, highlighted>> /\ NavigatorKey(key)
  BY DEF KeyPressed
<1>4. CASE view # "OpenRom"
  BY <1>1, <1>3, <1>4 DEF NavigatorKey, Browsed
<1>5. CASE view = "OpenRom"
  <2> DEFINE here == Attracted(highlighted)
  <2>1. /\ curser' = CASE key = "Up" /\ here > 1            -> here - 1
                       [] key = "Down" /\ here < Len(files) -> here + 1
                       [] OTHER                             -> here
        /\ posted' = IF key = "Return" THEN Append(posted, "FileSelected") ELSE posted
    BY <1>3, <1>5 DEF NavigatorKey
  <2>2. highlighted # 0 => here = highlighted
    BY DEF Attracted
  <2>3. here \in Nat \ {0} /\ here \in DOMAIN files
    BY <1>1, <1>2, <1>5
  <2> HIDE DEF here
  <2>4. curser' \in DOMAIN files /\ curser' \in Nat \ {0} /\ (key = "Return" => curser' = here)
    BY <1>1, <2>1, <2>3
  <2> QED BY <1>1, <1>2, <1>3, <1>5, <2>1, <2>2, <2>4 DEF Browsed
<1> QED BY <1>4, <1>5

-----------------------------------------------------------------------------
LEMMA UserStep ==
  ASSUME EngineInv, UserEvent
  PROVE  NavigatorTypes' /\ QueueTypes' /\ NavigatorInv'
<1>1. /\ TypeOK /\ NavigatorInv /\ QueueTypes /\ posted \in Seq(Codes) /\ open \subseteq Menus
      /\ chosen \in Seq(Choices) /\ Len(chosen) = Cardinality(Selections(posted))
      /\ Cardinality(Selections(posted)) \in Nat
  BY SelectionsAreFinite DEF EngineInv, TypeOK, QueueTypes, Codes, Choices
<1>2. Live /\ pc = "input" /\ UNCHANGED <<folder, deleted>>
  BY DEF UserEvent, Press, Release, Move, Key, Quit, OtherEvent, Polling, Live, engineVars
<1>3. Kept \in Seq(Choices) /\ Len(Kept) = Len(chosen)
  BY <1>1, KeptChoices
<1>4. \A line : line \in DOMAIN files => PathAt(line) \in Choices
  <2>1. ASSUME NEW line \in DOMAIN files PROVE PathAt(line) \in Choices
    <3>1. files # <<>>
      BY <2>1
    <3> QED BY <1>1, <1>2, <2>1, <3>1, LinesArePaths DEF PathAt, Choices
  <2> QED BY <2>1
<1>5. ASSUME NEW point \in Points, Press(point)
      PROVE  NavigatorTypes' /\ QueueTypes' /\ NavigatorInv'
  <2>1. MousePressed(point) /\ NavigatorPointed(point) /\ UNCHANGED view
        /\ ChosenAt(LineAt(point))
    BY <1>5 DEF Press, MousePressed
  <2>2. /\ Browsed
        /\ Selects(point) => /\ files # <<>> /\ curser' = LineAt(point)
                             /\ highlighted' = LineAt(point)
    BY <1>1, <1>2, <2>1, PointedBrowsed
  <2>3. PathAt(LineAt(point)) \in Choices
    BY <1>4 DEF PathAt, Choices
  <2>4. /\ posted' \in Seq(Codes)
        /\ Cardinality(Selections(posted'))
             = Cardinality(Selections(posted)) + (IF Selects(point) THEN 1 ELSE 0)
        /\ (\E i \in DOMAIN posted' \ DOMAIN posted : posted'[i] = "FileSelected")
             <=> Selects(point)
        /\ Selections(posted') # {} => Selections(posted) # {} \/ Selects(point)
    BY <1>1, <2>1, PressPosts
  <2>5. Selects(point) \in BOOLEAN
    BY DEF Selects
  <2>6. QueueTypes' /\ chosen' = IF Selects(point) THEN Append(Kept, PathAt(LineAt(point))) ELSE Kept
    BY <1>1, <2>1, <2>3, <2>4, <2>5, ChoiceMade
  <2>7. Selects(point) => /\ chosen' = Append(Kept, PathAt(curser')) /\ files # <<>>
                          /\ view' = "OpenRom" /\ highlighted' # 0 => curser' = highlighted'
    BY <2>2, <2>6
  <2> QED BY <1>1, <1>2, <2>2, <2>4, <2>6, <2>7, ListKept
<1>6. ASSUME NEW key \in UserKeys, Key(key)
      PROVE  NavigatorTypes' /\ QueueTypes' /\ NavigatorInv'
  <2> DEFINE returned == view = "OpenRom" /\ key = "Return"
  <2>1. key \in Keys /\ KeyPressed(key) /\ ChosenAt(curser')
    BY <1>6, FileAssumption DEF Key
  <2>2. /\ Browsed
        /\ posted' = IF returned THEN Append(posted, "FileSelected") ELSE posted
        /\ returned => /\ files # <<>>
                       /\ view' = "OpenRom" /\ highlighted' # 0 => curser' = highlighted'
    BY <1>1, <1>2, <2>1, KeyBrowsed
  <2>3. PathAt(curser') \in Choices
    BY <1>4 DEF PathAt, Choices
  <2>4. returned \in BOOLEAN
    OBVIOUS
  <2> HIDE DEF returned
  <2>5. /\ posted' \in Seq(Codes)
        /\ Cardinality(Selections(posted'))
             = Cardinality(Selections(posted)) + (IF returned THEN 1 ELSE 0)
        /\ (\E i \in DOMAIN posted' \ DOMAIN posted : posted'[i] = "FileSelected") <=> returned
        /\ Selections(posted') # {} => Selections(posted) # {} \/ returned
    <3>1. CASE returned
      BY <1>1, <2>2, <3>1, NoItemSelects, SelectionsAppend, AppendProperties
    <3>2. CASE ~returned
      BY <1>1, <2>2, <3>2
    <3> QED BY <3>1, <3>2
  <2>6. QueueTypes' /\ chosen' = IF returned THEN Append(Kept, PathAt(curser')) ELSE Kept
    BY <1>1, <2>1, <2>3, <2>4, <2>5, ChoiceMade
  <2> QED BY <1>1, <1>2, <2>2, <2>5, <2>6, ListKept
<1>7. ASSUME Browsed, UNCHANGED posted, chosen' = Kept
      PROVE  NavigatorTypes' /\ QueueTypes' /\ NavigatorInv'
  <2>1. QueueTypes'
    BY <1>1, <1>3, <1>7 DEF QueueTypes, Choices, Codes
  <2> QED BY <1>1, <1>2, <1>7, <2>1, ListKept
<1>8. ASSUME NEW point \in Points, Move(point)
      PROVE  NavigatorTypes' /\ QueueTypes' /\ NavigatorInv'
  <2>1. NavigatorPointed(point) /\ UNCHANGED <<view, posted>> /\ chosen' = Kept
    BY <1>8 DEF Move, MouseMoved, Chosen
  <2> QED BY <1>1, <1>2, <1>7, <2>1, PointedBrowsed
<1>9. ASSUME NavigatorNotified, UNCHANGED <<view, posted>>, chosen' = Kept
      PROVE  NavigatorTypes' /\ QueueTypes' /\ NavigatorInv'
  BY <1>1, <1>2, <1>7, <1>9, NotifiedBrowsed
<1>10. ASSUME NEW point \in Points, Release(point)
       PROVE  NavigatorTypes' /\ QueueTypes' /\ NavigatorInv'
  BY <1>9, <1>10 DEF Release, MouseReleased, Chosen
<1>11. CASE Quit \/ OtherEvent
  BY <1>9, <1>11 DEF Quit, OtherEvent, Chosen
<1> QED BY <1>5, <1>6, <1>8, <1>10, <1>11 DEF UserEvent

\* A choice is handled: its path is the one that is opened, if it stands.
LEMMA OpensHead ==
  ASSUME TypeOK, NavigatorInv, OpensWhatWasChosen, FileSelected
  PROVE  OpensWhatWasChosen'
<1> DEFINE path == Child[folder, files[Here]]
<1>1. Posted("FileSelected") /\ pc = "input"
  BY DEF FileSelected, Posted, Polling
<1>2. files # <<>> /\ Here \in DOMAIN files /\ filePath = folder
  BY <1>1, SelectionHasLine
<1>3. chosen # <<>> /\ chosen \in Seq(Choices)
  BY <1>1, EventTaken DEF TypeOK, QueueTypes, Choices
<1>4. Head(chosen) = chosen[1] /\ 1 \in DOMAIN chosen
  <2>1. Len(chosen) \in Nat \ {0} /\ DOMAIN chosen = 1 .. Len(chosen)
    BY <1>3, EmptySeq, LenProperties
  <2> QED BY <1>3, <2>1
<1>5. chosen[1] # None => chosen[1] = path
  <2>1. ASSUME chosen[1] # None PROVE chosen[1] = path
    <3>1. Stands(chosen[1])
      BY <1>1, <1>4, <2>1 DEF NavigatorInv, ChoicesStand, Live
    <3>2. curser = Here
      BY <3>1 DEF Stands, Here, Attracted
    <3> QED BY <1>2, <3>1, <3>2 DEF Stands
  <2> QED BY <2>1
<1>6. astray' = (astray \/ Head(chosen) \notin {None, path})
  BY <1>2 DEF FileSelected
<1> QED BY <1>4, <1>5, <1>6 DEF OpensWhatWasChosen

LEMMA SelectStep ==
  ASSUME TypeOK, NavigatorInv, FileSelected
  PROVE  NavigatorTypes' /\ QueueTypes' /\ NavigatorInv'
<1> DEFINE path == Child[folder, files[Here]]
<1>1. Posted("FileSelected") /\ Live /\ QueueTypes /\ chosen \in Seq(Choices)
  BY DEF FileSelected, Posted, Polling, Live, TypeOK, QueueTypes, Choices
<1>2. files # <<>> /\ Here \in DOMAIN files /\ path \in Paths
  BY <1>1, SelectionHasLine
<1>3. /\ SelectFolder(path) \/ SelectFile(path)
      /\ chosen' = Tail(Kept) /\ UNCHANGED deleted
  BY <1>2 DEF FileSelected
<1> HIDE DEF path
<1>4. Kept \in Seq(Choices) /\ DOMAIN Kept = DOMAIN chosen
  BY <1>1, KeptChoices
<1>5. QueueTypes' /\ Kept # <<>> /\ (Selections(posted') # {} => Selections(posted) # {})
  BY <1>1, <1>3, EventTaken
<1>6. \A i \in DOMAIN chosen' : i + 1 \in DOMAIN Kept /\ chosen'[i] = Kept[i + 1]
  <2>1. /\ Tail(Kept) \in Seq(Choices) /\ Len(Tail(Kept)) = Len(Kept) - 1
        /\ \A i \in 1 .. Len(Tail(Kept)) : Tail(Kept)[i] = Kept[i + 1]
    BY <1>4, <1>5, HeadTailProperties
  <2>2. /\ DOMAIN Tail(Kept) = 1 .. Len(Tail(Kept)) /\ DOMAIN Kept = 1 .. Len(Kept)
        /\ Len(Kept) \in Nat
    BY <1>4, <2>1, LenProperties
  <2> QED BY <1>3, <2>1, <2>2
<1>7. CASE SelectFolder(path)
  <2>1. /\ folder' = path /\ ShowFolder(path) /\ path \in Folders \union deleted
        /\ pc' = pc \/ pc' = "dead"
    BY <1>7 DEF SelectFolder, ShowFolder, IsDir
  <2>2. \A i \in DOMAIN chosen' : chosen'[i] # None =>
          \E j \in DOMAIN Kept : chosen'[i] = Kept[j]
    BY <1>6
  <2> QED BY <1>1, <1>2, <1>3, <1>5, <2>1, <2>2, ListShown
<1>8. CASE SelectFile(path)
  <2>1. /\ UNCHANGED <<filePath, files, highlighted, folder>> /\ curser' = Here
        /\ view' = "Simple" /\ pc' \in {"input", "dead"} /\ pc = "input"
    BY <1>1, <1>8 DEF SelectFile, Posted, Polling
  <2>2. highlighted \in 0 .. Len(files)
    BY DEF TypeOK, NavigatorTypes
  <2>3. Browsed
    BY <1>2, <1>3, <2>1, <2>2, CurserAttracted DEF Browsed
  <2>4. NavigatorTypes'
    BY <2>3 DEF TypeOK, NavigatorTypes, Browsed
  <2>5. FolderShown' /\ CurserInList' /\ ListIsThere'
    BY <1>1, <1>2, <1>3, <2>1, <2>3
       DEF NavigatorInv, FolderShown, CurserInList, ListIsThere, Browsed, Live
  <2>6. \A i \in DOMAIN chosen' : chosen'[i] # None => StandsAfter(chosen'[i])
    BY <1>1, <1>6, <2>3, KeptStand
  <2> QED BY <1>5, <2>4, <2>5, <2>6, AllStandAfter DEF NavigatorInv
<1> QED BY <1>3, <1>7, <1>8

LEMMA PostedStep ==
  ASSUME EngineInv, HandlePosted
  PROVE  NavigatorTypes' /\ QueueTypes' /\ NavigatorInv' /\ OpensWhatWasChosen'
<1>1. TypeOK /\ NavigatorInv /\ QueueTypes /\ OpensWhatWasChosen
  BY DEF EngineInv, TypeOK
<1>2. ASSUME NEW code, code # "FileSelected", Posted(code), chosen' = Kept
      PROVE  QueueTypes' /\ Live /\ (Selections(posted') # {} => Selections(posted) # {})
  BY <1>1, <1>2, EventTaken DEF Posted, Polling, Live
<1>3. CASE ChangeView
  <2>1. chosen' = Kept
    BY <1>3 DEF ChangeView, navigator, Kept
  <2>2. QueueTypes' /\ Live /\ (Selections(posted') # {} => Selections(posted) # {})
    BY <1>2, <1>3, <2>1 DEF ChangeView
  <2>3. UNCHANGED <<filePath, files, highlighted, curser, folder, deleted, astray>>
        /\ view' # "OpenRom"
    BY <1>3 DEF ChangeView, navigator, engineVars
  <2>4. Browsed
    BY <1>1, <2>3 DEF Browsed, TypeOK, NavigatorTypes, NavigatorInv, CurserInList
  <2> QED BY <1>1, <2>1, <2>2, <2>3, <2>4, ListKept DEF OpensWhatWasChosen
<1>4. CASE EmulatorEvent \/ DumpCrashes
  <2>1. /\ chosen' = Kept /\ NavigatorNotified
        /\ UNCHANGED <<view, folder, deleted, astray>>
    BY <1>4 DEF EmulatorEvent, DumpCrashes, Chosen
  <2>2. QueueTypes' /\ Live /\ (Selections(posted') # {} => Selections(posted) # {})
    BY <1>2, <1>4, <2>1 DEF EmulatorEvent, DumpCrashes
  <2> QED BY <1>1, <2>1, <2>2, NotifiedBrowsed, ListKept DEF OpensWhatWasChosen
<1>5. CASE OpenRom
  <2>1. /\ chosen' = Kept /\ UNCHANGED <<folder, deleted, astray>> /\ ShowFolder(folder)
        /\ pc' = pc \/ pc' = "dead"
    BY <1>5 DEF OpenRom, Chosen, ShowFolder, Posted
  <2>2. QueueTypes' /\ Live
    BY <1>2, <1>5, <2>1 DEF OpenRom
  <2>3. folder \in Folders \union deleted /\ folder \in Paths
    BY <1>1 DEF NavigatorInv, FolderShown, TypeOK
  <2> QED BY <1>1, <2>1, <2>2, <2>3, ListShown DEF OpensWhatWasChosen
<1>6. CASE FileSelected
  BY <1>1, <1>6, SelectStep, OpensHead
<1> QED BY <1>3, <1>4, <1>5, <1>6 DEF HandlePosted

\* What leaves the windows, the queue and the folder alone.
LEMMA OtherStep ==
  ASSUME EngineInv,
         \/ Start \/ Process \/ ConsoleThrows \/ ProcessCrashes
         \/ (\E path \in Deletable : Delete(path)) \/ Finished \/ UNCHANGED vars
  PROVE  NavigatorTypes' /\ QueueTypes' /\ NavigatorInv' /\ OpensWhatWasChosen'
<1>1. /\ UNCHANGED <<windowVars, folder, chosen, astray>>
      /\ pc' \in {"start", "input"} => Live
      /\ deleted \subseteq deleted' /\ deleted' \subseteq deleted \union Deletable
  BY DEF Start, Process, ConsoleThrows, ProcessCrashes, Delete, Finished, vars, history, Live,
         Polling
<1>2. UNCHANGED <<view, filePath, files, highlighted, curser, posted>>
  BY <1>1 DEF windowVars, navigator
<1>3. TypeOK /\ NavigatorInv /\ OpensWhatWasChosen /\ Deletable \subseteq DOMAIN Image
  BY FileAssumption DEF EngineInv
<1>4. NavigatorTypes' /\ QueueTypes'
  BY <1>1, <1>2, <1>3 DEF TypeOK, NavigatorTypes, QueueTypes
<1>5. FolderShown' /\ CurserInList' /\ ListIsThere' /\ ChoicesStand'
  BY <1>1, <1>2, <1>3 DEF NavigatorInv, FolderShown, CurserInList, ListIsThere, ChoicesStand,
                         Stands, Live
<1> QED BY <1>1, <1>3, <1>4, <1>5 DEF NavigatorInv, OpensWhatWasChosen

-----------------------------------------------------------------------------
LEMMA EngineInit == Init => EngineInv
<1> SUFFICES ASSUME Init PROVE EngineInv
  OBVIOUS
<1> USE DEF Init, WindowsInit
<1>1. Selections(<<>>) = {}
  BY DEF Selections
<1>2. NavigatorTypes /\ QueueTypes
  BY <1>1, EmptySeq, FS_EmptySet DEF NavigatorTypes, QueueTypes
<1>3. TypeOK
  BY <1>2, FileAssumption DEF TypeOK, FlagTypes, Views, Paths
<1>4. NavigatorInv
  <2>1. FolderShown /\ CurserInList /\ ListIsThere
    BY <1>1, FileAssumption DEF FolderShown, CurserInList, ListIsThere
  <2>2. DOMAIN chosen = {}
    OBVIOUS
  <2>3. ChoicesStand
    BY <2>2 DEF ChoicesStand
  <2> QED BY <2>1, <2>3 DEF NavigatorInv
<1>5. CartridgeKnown /\ BanksAsFiled /\ DiesAsListed /\ OpensWhatWasChosen
  BY DEF CartridgeKnown, BanksAsFiled, DiesAsListed, OpensWhatWasChosen
<1>6. OneMenuOpen
  BY FS_EmptySet DEF OneMenuOpen
<1> QED BY <1>3, <1>4, <1>5, <1>6 DEF EngineInv

LEMMA EngineStep == EngineInv /\ [Next]_vars => EngineInv'
<1> SUFFICES ASSUME EngineInv, [Next]_vars PROVE EngineInv'
  OBVIOUS
<1>1. CartridgeKnown' /\ BanksAsFiled' /\ DiesAsListed'
  BY CartridgeStep
<1>2. OneMenuOpen' /\ open' \subseteq Menus /\ PlainTypes'
  BY MenuStep, PlainStep
<1>3. NavigatorTypes' /\ QueueTypes' /\ NavigatorInv' /\ OpensWhatWasChosen'
  <2>1. CASE UserEvent
    <3>1. UNCHANGED astray
      BY <2>1 DEF UserEvent, Press, Release, Move, Key, Quit, OtherEvent, engineVars
    <3> QED BY <2>1, <3>1, UserStep DEF EngineInv, OpensWhatWasChosen
  <2>2. CASE HandlePosted
    BY <2>2, PostedStep
  <2> QED BY <2>1, <2>2, OtherStep DEF Next
<1> QED BY <1>1, <1>2, <1>3 DEF EngineInv, TypeOK, PlainTypes

\* EngineInv is an invariant: the queue, the navigator, the file system and the
\* console stay together, whatever the user does and whatever disappears.
THEOREM EngineInvariance == Spec => []EngineInv
BY EngineInit, EngineStep, PTL DEF Spec

\* Types: the curser is a line, and each choice under way has its event.
THEOREM EngineTypes == Spec => []TypeOK
BY EngineInvariance, PTL DEF EngineInv

\* Unless a step of the console throws, the program ends by itself only at a
\* folder, a file or a dump that cannot be had, or for want of a pattern bank:
\* for any folders and files, a choice that is handled late always finds the
\* list and the line it needs.
THEOREM DeathsAreListed == Spec => []DiesAsListed
BY EngineInvariance, PTL DEF EngineInv

\* What is opened is what was clicked on, or stood at the curser, for any
\* layout of the windows and however long the queue.
THEOREM OpensTheChosen == Spec => []OpensWhatWasChosen
BY EngineInvariance, PTL DEF EngineInv

\* The cartridge's banks are the file's units, for every header and length.
THEOREM BanksAreFiled == Spec => []BanksAsFiled
BY EngineInvariance, PTL DEF EngineInv

\* With the mouse button up no two menus are open, however many there are.
THEOREM OneMenuAtMost == Spec => []OneMenuOpen
BY EngineInvariance, PTL DEF EngineInv
=============================================================================
