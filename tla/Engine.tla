------------------------------- MODULE Engine -------------------------------
(***************************************************************************)
(* The game engine: main.cpp and GameEngine/GameEngine.cpp, which compose  *)
(* the windows, the file system, the loader and the console.               *)
(*                                                                         *)
(* Each pass of the loop polls SDL's queue until it is empty, one event an *)
(* action here, then runs the console and draws.  The user may do anything *)
(* at any time, so what is queued of it is not kept: an event of the       *)
(* user's is chosen when it is polled, before or after each event that the *)
(* windows have posted.                                                    *)
(*                                                                         *)
(* A file system is what its folders list and what each name stands for;   *)
(* a file may be deleted while the program runs.                           *)
(***************************************************************************)
EXTENDS Windows, Loader

CONSTANTS Folders,      \* paths of folders
          Home,         \* the one the program is in
          Listing,      \* what ListFilesInPath makes of each: <<>> if it fails
          Child,        \* path and name to the path they are combined to
          Image,        \* every other path to its file
          Deletable,    \* paths that may disappear
          Arguments,    \* ROMs the program may be started with, or None
          UserKeys,     \* the keys that the user touches
          MaxPosted     \* bound on the events that wait

Keys == {"p", "n", "m", "Up", "Down", "Return", "Left"}

ASSUME FileAssumption ==
  /\ Home \in Folders
  /\ Folders \intersect DOMAIN Image = {}
  /\ DOMAIN Listing = Folders
  /\ \A d \in Folders : Listing[d] \in Seq(STRING)
  /\ \A d \in Folders : \A i \in DOMAIN Listing[d] :
       Child[d, Listing[d][i]] \in Folders \union DOMAIN Image
  /\ \A p \in DOMAIN Image : Image[p] \in File
  /\ Deletable \subseteq DOMAIN Image
  /\ Arguments \subseteq DOMAIN Image \union {None}
  /\ UserKeys \subseteq Keys

VARIABLES pc,            \* where the program is, and how it has ended: it was
                         \* "closed", has "failed" to begin, is "dead" of what
                         \* it was given, or a step of the console has "thrown"
          shouldExit, run, frameStep, assemblyStep,
          debugPoint,    \* one is set
          folder,        \* FileSystem::currentFilesystemPath
          deleted,       \* paths that have disappeared
          inserted       \* the console's cartridge, if it has one: a set

flags == <<shouldExit, run, frameStep, assemblyStep, debugPoint>>

\* History, read by no action.  chosen: for each choice in the file list that
\* is posted, the path that the user has clicked on, or that was at the curser,
\* or None when the curser or the list has changed since.  astray: another path
\* has been opened than was chosen.  loaded: the path the cartridge came from.
\* warranted: the very event or file that has killed the program was bad.  held:
\* the mouse button is down.
VARIABLES chosen, astray, loaded, warranted, held

history == <<chosen, astray, loaded, warranted, held>>
vars == <<windowVars, pc, flags, folder, deleted, inserted, history>>

Init ==
  /\ WindowsInit
  /\ pc = "start"
  /\ shouldExit = FALSE /\ run = FALSE /\ frameStep = FALSE /\ assemblyStep = FALSE
  /\ debugPoint = FALSE
  /\ folder = Home
  /\ deleted = {}
  /\ inserted = {}
  /\ chosen = <<>> /\ astray = FALSE /\ loaded = None
  /\ warranted = FALSE /\ held = FALSE

-----------------------------------------------------------------------------
FileAt(path) ==
  IF path \in deleted THEN [Image[path] EXCEPT !.exists = FALSE] ELSE Image[path]

\* IsDir looks at what stat has written, which is nothing for a lost file.
IsDir(path) == IF path \in deleted THEN BOOLEAN ELSE {path \in Folders}

Lists(path) == path \in Folders /\ Listing[path] # <<>>

\* GameEngine::LoadMedia as it ends: with false, true, or an exception.  The
\* console keeps the cartridge it has unless there is another one, whose reset
\* vector the power cycle reads.  (PlayAudio is AudioQueue's matter.)
Refuse(path) == /\ Rejected(FileAt(path))
                /\ UNCHANGED <<inserted, loaded, run>>

Insert(path) == /\ Accepted(FileAt(path))
                /\ ~NoProgram(LoadINes(FileAt(path)))
                /\ inserted' = {LoadINes(FileAt(path))}
                /\ loaded' = path
                /\ run' = TRUE

Crash(path) == /\ \/ Throws(FileAt(path))
                  \/ Accepted(FileAt(path)) /\ NoProgram(LoadINes(FileAt(path)))
               /\ UNCHANGED <<inserted, loaded, run>>

\* What should not be opened: a folder that cannot be listed, a file that is
\* gone, and a ROM that is NES 2.0 or has no program.
Dangerous(path) ==
  IF path \in Folders THEN ~Lists(path)
  ELSE path \in deleted \/ Image[path].nes2 \/ Image[path].prg = 0

-----------------------------------------------------------------------------
\* main: the first of one or three arguments is a ROM; the last of three is a
\* debug point, if it is announced as one.
Start ==
  /\ pc = "start"
  /\ \/ /\ None \in Arguments
        /\ pc' = "input"
        /\ UNCHANGED <<inserted, loaded, run, debugPoint, warranted>>
     \/ \E path \in Arguments \ {None} :
          /\ \/ Refuse(path) /\ pc' = "failed" /\ UNCHANGED debugPoint
             \/ Insert(path) /\ pc' = "input" /\ debugPoint' \in BOOLEAN
             \/ Crash(path) /\ pc' = "dead" /\ UNCHANGED debugPoint
          /\ warranted' = (pc' = "dead" /\ Dangerous(path))
  /\ UNCHANGED <<windowVars, shouldExit, frameStep, assemblyStep, folder, deleted,
                 chosen, astray, held>>

-----------------------------------------------------------------------------
(***************************************************************************)
(* The user's events, as UserInput polls them.                             *)
(***************************************************************************)
engineVars == <<pc, flags, folder, deleted, inserted, astray, loaded, warranted>>

\* The choices that are still what the navigator shows.
Kept == IF <<filePath, files, curser>>' = <<filePath, files, curser>> THEN chosen
        ELSE [i \in DOMAIN chosen |-> None]

Chosen == chosen' = Kept

\* The user has meant this line, if that has chosen anything.
PathAt(line) == IF line \in DOMAIN files THEN Child[filePath, files[line]] ELSE None

ChosenAt(line) ==
  chosen' = IF \E i \in DOMAIN posted' \ DOMAIN posted : posted'[i] = "FileSelected"
            THEN Append(Kept, PathAt(line)) ELSE Kept

Polling == pc = "input"
RoomToPost == Len(posted) < MaxPosted

Press(point) == /\ Polling /\ RoomToPost /\ ~held
                /\ MousePressed(point)
                /\ ChosenAt(LineAt(point))
                /\ held' = TRUE
                /\ UNCHANGED engineVars

Release(point) == /\ Polling /\ held
                  /\ MouseReleased(point)
                  /\ Chosen
                  /\ held' = FALSE
                  /\ UNCHANGED engineVars

Move(point) == /\ Polling
               /\ MouseMoved(point)
               /\ Chosen
               /\ UNCHANGED <<engineVars, held>>

\* The keys that the engine knows itself, and those of the game, which go to
\* its controller (and to the navigator as well).
Key(key) ==
  /\ Polling /\ RoomToPost
  /\ KeyPressed(key)
  /\ ChosenAt(curser')
  /\ frameStep' = (frameStep \/ key = "n")
  /\ assemblyStep' = (assemblyStep \/ key = "m")
  /\ run' = (run # (key = "p"))
  /\ UNCHANGED <<pc, shouldExit, debugPoint, folder, deleted, inserted,
                 astray, loaded, warranted, held>>

\* Closing the window.
Quit ==
  /\ Polling
  /\ NavigatorNotified
  /\ shouldExit' = TRUE
  /\ UNCHANGED <<view, open, isActive, posted, pc, run, frameStep, assemblyStep, debugPoint,
                 folder, deleted, inserted, astray, loaded, warranted, held>>
  /\ Chosen

\* Any other event, the release of a key for one.
OtherEvent ==
  /\ Polling
  /\ NavigatorNotified
  /\ UNCHANGED <<view, open, isActive, posted, engineVars, held>>
  /\ Chosen

-----------------------------------------------------------------------------
(***************************************************************************)
(* The events that the windows have posted.                                *)
(***************************************************************************)
Posted(code) == /\ Polling /\ posted # <<>> /\ Head(posted) = code
                /\ posted' = Tail(posted)
                /\ UNCHANGED <<open, isActive, held>>

ChangeView ==
  /\ \/ Posted("SimpleView") /\ view' = "Simple"
     \/ Posted("DisassembleView") /\ view' = "Disassemble"
  /\ UNCHANGED <<navigator, engineVars, chosen>>

\* Those that leave the windows alone.  Without a cartridge a step is
\* remembered, and running is not.  (The dump goes to a file of its own.)
EmulatorEvent ==
  /\ \/ /\ Posted("ContinuePauseEmulator")
        /\ run' = IF inserted # {} THEN ~run ELSE run
        /\ UNCHANGED <<frameStep, assemblyStep>>
     \/ Posted("Other") /\ UNCHANGED <<run, frameStep, assemblyStep>>
     \/ Posted("StepEmulator") /\ frameStep' = TRUE /\ UNCHANGED <<run, assemblyStep>>
     \/ Posted("StepAssembly") /\ assemblyStep' = TRUE /\ UNCHANGED <<run, frameStep>>
     \/ /\ Posted("DumpProgramRom")
        /\ inserted # {}
        /\ UNCHANGED <<run, frameStep, assemblyStep>>
  /\ NavigatorNotified
  /\ Chosen
  /\ UNCHANGED <<view, pc, shouldExit, debugPoint, folder, deleted, inserted,
                 astray, loaded, warranted>>

\* There is no cartridge to dump, and nothing tests for it.
DumpCrashes ==
  /\ Posted("DumpProgramRom")
  /\ inserted = {}
  /\ NavigatorNotified
  /\ Chosen
  /\ pc' = "dead"
  /\ warranted' = TRUE
  /\ UNCHANGED <<view, flags, folder, deleted, inserted, astray, loaded>>

\* ListFilesInPath and SetFileSystemData, which an empty list ends.
ShowFolder(path) ==
  \/ /\ Lists(path)
     /\ SetFileSystemData(path, Listing[path])
     /\ UNCHANGED pc
  \/ /\ ~Lists(path)
     /\ pc' = "dead"
     /\ UNCHANGED navigator

OpenRom ==
  /\ Posted("OpenRom")
  /\ view' = "OpenRom"
  /\ ShowFolder(folder)
  /\ Chosen
  /\ warranted' = (pc' = "dead" /\ Dangerous(folder))
  /\ UNCHANGED <<flags, folder, deleted, inserted, astray, loaded>>

\* The line at the curser, once the navigator has had the event itself.
Here == IF view = "OpenRom" THEN Attracted(highlighted) ELSE curser

SelectFolder(path) ==
  /\ TRUE \in IsDir(path)
  /\ folder' = path
  /\ ShowFolder(path)
  /\ UNCHANGED <<view, run, inserted, loaded>>

SelectFile(path) ==
  /\ FALSE \in IsDir(path)
  /\ view' = "Simple"
  /\ curser' = Here
  /\ \/ (Refuse(path) \/ Insert(path)) /\ UNCHANGED pc
     \/ Crash(path) /\ pc' = "dead"
  /\ UNCHANGED <<filePath, files, highlighted, folder>>

\* GetSelectedFile throws for a curser beyond the list.
FileSelected ==
  /\ Posted("FileSelected")
  /\ UNCHANGED <<shouldExit, frameStep, assemblyStep, debugPoint, deleted>>
  /\ IF Here \in DOMAIN files
     THEN LET path == Child[folder, files[Here]]
          IN /\ SelectFolder(path) \/ SelectFile(path)
             /\ astray' = (astray \/ Head(chosen) \notin {None, path})
             /\ warranted' = (pc' = "dead" /\ Dangerous(path))
     ELSE /\ pc' = "dead"
          /\ UNCHANGED <<view, navigator, run, folder, inserted, astray, loaded, warranted>>
  /\ chosen' = Tail(Kept)

-----------------------------------------------------------------------------
\* GameEngine::Processing.  A step takes the console's frame count along at
\* times, the debug point may be met at any of them.  What the program makes the
\* console do is a matter of the other modules, but for how it may end: a step
\* throws at an address that no device answers (Cpu's and OamDma's faults) or at
\* a line that has lost its sprite (Sprites'), and nothing in GameEngine or main
\* catches it.
ConsoleSteps == inserted # {} /\ (run \/ frameStep \/ assemblyStep)

Idle == ~ConsoleSteps /\ UNCHANGED <<run, frameStep, assemblyStep>>

Advance ==
  /\ ConsoleSteps
  /\ run' \in IF debugPoint /\ run /\ ~assemblyStep THEN BOOLEAN ELSE {run}
  /\ frameStep' = FALSE
  /\ assemblyStep' = FALSE

QuitIfPausedMutant ==
  /\ Polling /\ posted = <<>>
  /\ Idle \/ Advance
  /\ pc' = IF shouldExit /\ ~run THEN "closed" ELSE "input"
  /\ UNCHANGED <<windowVars, shouldExit, debugPoint, folder, deleted, inserted, history>>

\* The queue is empty: the rest of a pass, and the test for the next one.
Process ==
  /\ Polling /\ posted = <<>>
  /\ Idle \/ Advance
  /\ pc' = IF shouldExit THEN "closed" ELSE "input"
  /\ UNCHANGED <<windowVars, shouldExit, debugPoint, folder, deleted, inserted, history>>

ConsoleThrows ==
  /\ Polling /\ posted = <<>>
  /\ ConsoleSteps
  /\ pc' = "thrown"
  /\ UNCHANGED <<windowVars, flags, folder, deleted, inserted, history>>

\* A step needs the pattern bank, and so does the view of the debugger: without
\* one they read at a null pointer, unless the step renders nothing.
ProcessCrashes ==
  /\ Polling /\ posted = <<>>
  /\ Advance \/ (Idle /\ view = "Disassemble")
  /\ \E cartridge \in inserted : cartridge.chr = <<>>
  /\ pc' = "dead"
  /\ warranted' = (Image[loaded].chr = 0)
  /\ UNCHANGED <<windowVars, shouldExit, debugPoint, folder, deleted, inserted,
                 chosen, astray, loaded, held>>

\* Somebody deletes a file.
Delete(path) == /\ path \notin deleted
                /\ deleted' = deleted \union {path}
                /\ UNCHANGED <<windowVars, pc, flags, folder, inserted, history>>

Finished == /\ pc \in {"closed", "failed", "dead", "thrown"}
            /\ UNCHANGED vars

UserEvent == \/ \E point \in Points : Press(point) \/ Release(point) \/ Move(point)
             \/ \E key \in UserKeys : Key(key)
             \/ Quit
             \/ OtherEvent

HandlePosted == \/ ChangeView
                \/ EmulatorEvent
                \/ DumpCrashes
                \/ OpenRom
                \/ FileSelected

Next == \/ Start
        \/ UserEvent
        \/ HandlePosted
        \/ Process
        \/ ConsoleThrows
        \/ ProcessCrashes
        \/ \E path \in Deletable : Delete(path)
        \/ Finished

\* The program runs on while it can, and faster than the user: it comes to the
\* end of the queue, and with it to the end of a pass, again and again.  (That
\* a frame returns is NesStep's FrameEnds, for programs that do not run
\* instructions of no cycles for ever.)
Fairness == /\ WF_vars(Start)
            /\ WF_vars(HandlePosted)
            /\ SF_vars(HandlePosted /\ posted' = <<>>)
            /\ SF_vars(Process \/ ConsoleThrows \/ ProcessCrashes)

Spec == Init /\ [][Next]_vars /\ Fairness

-----------------------------------------------------------------------------
Paths == Folders \union DOMAIN Image

\* The places in a queue of the choices of a file.
Selections(queue) == {i \in DOMAIN queue : queue[i] = "FileSelected"}

NavigatorTypes ==
  /\ filePath \in Paths \union {None} /\ files \in Seq(STRING)
  /\ highlighted \in 0 .. Len(files) /\ curser \in Nat \ {0}

QueueTypes ==
  /\ posted \in Seq(CustomEvents \union {"FileSelected"})
  /\ chosen \in Seq(Paths \union {None})
  /\ Len(chosen) = Cardinality(Selections(posted))

FlagTypes ==
  /\ isActive \in BOOLEAN /\ shouldExit \in BOOLEAN /\ run \in BOOLEAN
  /\ frameStep \in BOOLEAN /\ assemblyStep \in BOOLEAN /\ debugPoint \in BOOLEAN
  /\ astray \in BOOLEAN /\ warranted \in BOOLEAN /\ held \in BOOLEAN

TypeOK ==
  /\ view \in Views /\ open \subseteq Menus
  /\ NavigatorTypes /\ QueueTypes /\ FlagTypes
  /\ pc \in {"start", "input", "closed", "failed", "dead", "thrown"}
  /\ folder \in Paths /\ deleted \subseteq Paths /\ loaded \in Paths \union {None}

\* Apart from what the inserted program makes the console throw ("thrown"), the
\* program ends by itself only at the very event that leads it to a folder that
\* cannot be listed, a file that has disappeared, a ROM that is NES 2.0 or has
\* no program, or a dump without a cartridge, and in a pass only with a ROM
\* whose header has no pattern bank: the file list is never empty nor the
\* curser beyond it, whatever is posted, late or twice (FileNavigator's .at,
\* CartridgeLoader's throw, the banks of CartridgeMapping0).
DiesAsListed == pc = "dead" => warranted

\* What is opened is what the user has clicked on, or what was at the curser
\* when Return was pressed, as long as no other event has moved the curser or
\* changed the list before the choice is handled: the navigator's folder and
\* list, the file system's and the curser belong together across two modules
\* and the queue.
OpensWhatWasChosen == ~astray

\* The cartridge in the console is that of a file that the loader accepts, and
\* each of its banks holds the unit that the header puts there, or nothing
\* where the file has ended before; a refused file leaves it alone.
BanksAsFiled ==
  \A cartridge \in inserted :
    LET file  == Image[loaded]
        first == IF file.trainer THEN 1 ELSE 0
        Unit(i) == IF i <= file.units THEN i ELSE 0
    IN /\ Accepted(file)
       /\ cartridge.prg = [i \in 1 .. file.prg |-> Unit(first + i)]
       /\ cartridge.chr = [i \in 1 .. file.chr |-> Unit(first + file.prg + i)]

\* At most one menu is open, however the mouse is dragged between headers and
\* items, once its button is up again (MenuBar::HandleEvent lets a second one
\* open while it is down).
OneMenuOpen == ~held => Cardinality(open) <= 1

\* A quit ends the program, even if the windows have posted events or the
\* console is at its debug point, unless an exception ends it before.
QuitEnds == shouldExit ~> (pc \in {"closed", "dead", "thrown"})
=============================================================================
