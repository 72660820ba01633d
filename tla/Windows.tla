------------------------------ MODULE Windows ------------------------------
(***************************************************************************)
(* The window, its menu bar and the file navigator: GameEngine/Graphics.   *)
(* Each gets every event, in the order menu bar, submenus, navigator, and  *)
(* answers by pushing events of its own (CustomEvents) onto SDL's queue,   *)
(* where they wait behind whatever the user has done meanwhile.            *)
(*                                                                         *)
(* The layout is what a point lies on: a header of the menu bar, an item   *)
(* of a menu, which counts only while that menu is open, and a line of the *)
(* file list, which a menu may cover.  Colours, scale and the frame rate   *)
(* are left out, and buttons of the mouse other than the left.             *)
(***************************************************************************)
EXTENDS Integers, Sequences, FiniteSets

CONSTANTS Menus,    \* the submenus
          Items,    \* the events of each
          Points    \* what the user may point at

None == "none"
CustomEvents == {"OpenRom", "SimpleView", "DisassembleView", "ContinuePauseEmulator",
                 "StepEmulator", "StepAssembly", "DumpProgramRom", "Other"}

ASSUME LayoutAssumption ==
  /\ Items \in [Menus -> SUBSET CustomEvents]
  /\ None \notin Menus
  /\ Points \subseteq [bar : Menus \union {None}, item : CustomEvents \union {None},
                       line : Nat]

VARIABLES view,        \* curWindowView
          open,        \* the submenus that are pressed
          isActive,    \* MenuBar::isActive
          filePath,    \* the navigator's folder
          files,       \* and the names in it
          highlighted, \* the line that the mouse is over, or 0
          curser,      \* curFileIndex, from 1
          posted       \* the events pushed that are not polled yet

navigator == <<filePath, files, highlighted, curser>>
windowVars == <<view, open, isActive, navigator, posted>>

Views == {"Simple", "Disassemble", "OpenRom"}

WindowsInit ==
  /\ view = "Simple"
  /\ open = {}
  /\ isActive = FALSE
  /\ filePath = None
  /\ files = <<>>
  /\ highlighted = 0
  /\ curser = 1
  /\ posted = <<>>

-----------------------------------------------------------------------------
KeptCurserMutant(path, names) ==
  /\ names # <<>>
  /\ filePath' = path
  /\ files' = names
  /\ highlighted' = 0
  /\ curser' = curser

\* SetFileSystemData: false where files.at(0) throws, of an empty list.  The
\* lines are new buttons, none of them highlighted.
SetFileSystemData(path, names) ==
  /\ names # <<>>
  /\ filePath' = path
  /\ files' = names
  /\ highlighted' = 0
  /\ curser' = 1

-----------------------------------------------------------------------------
\* What a menu's items push for a press at point, with these menus open.
ItemsPressed(menus, point) ==
  IF \E m \in menus : point.item \in Items[m] THEN <<point.item>> ELSE <<>>

\* FileNavigator::HandleEvent for the mouse: the highlighted line draws the
\* curser to it, whatever the event is.
LineAt(point) == IF point.line <= Len(files) THEN point.line ELSE 0

Attracted(line) == IF line # 0 THEN line ELSE curser

StaleHighlightMutant(point) ==
  IF view # "OpenRom" THEN UNCHANGED navigator
  ELSE /\ curser' = Attracted(highlighted)
       /\ UNCHANGED <<highlighted, filePath, files>>

NavigatorPointed(point) ==
  IF view # "OpenRom" THEN UNCHANGED navigator
  ELSE /\ highlighted' = LineAt(point)
       /\ curser' = Attracted(LineAt(point))
       /\ UNCHANGED <<filePath, files>>

LinePressed(point) ==
  IF view = "OpenRom" /\ LineAt(point) # 0 THEN <<"FileSelected">> ELSE <<>>

\* The mouse is pressed at point.
MousePressed(point) ==
  /\ isActive' = (point.bar # None)
  /\ open' = open \union ({point.bar} \ {None})
  /\ posted' = posted \o ItemsPressed(open', point) \o LinePressed(point)
  /\ NavigatorPointed(point)
  /\ UNCHANGED view

\* Any event moves the curser to the highlighted line, if only the navigator
\* is shown.
NavigatorNotified == /\ curser' = IF view = "OpenRom" THEN Attracted(highlighted) ELSE curser
                     /\ UNCHANGED <<highlighted, filePath, files>>

KeepOpenMutant(point) ==
  /\ UNCHANGED open
  /\ NavigatorNotified
  /\ UNCHANGED <<view, isActive, posted>>

\* The mouse is released: the menus elsewhere close.
MouseReleased(point) ==
  /\ open' = open \intersect {point.bar}
  /\ NavigatorNotified
  /\ UNCHANGED <<view, isActive, posted>>

\* The mouse moves: in an active menu bar the header under it is pressed.
MouseMoved(point) ==
  /\ open' = IF isActive /\ point.bar # None THEN {point.bar} ELSE open
  /\ NavigatorPointed(point)
  /\ UNCHANGED <<view, isActive, posted>>

\* A key, in the navigator: the arrows, and Return.
NavigatorKey(key) ==
  IF view # "OpenRom" THEN UNCHANGED <<curser, posted>>
  ELSE LET here == Attracted(highlighted)
       IN /\ curser' = CASE key = "Up" /\ here > 1            -> here - 1
                         [] key = "Down" /\ here < Len(files) -> here + 1
                         [] OTHER                             -> here
          /\ posted' = IF key = "Return" THEN Append(posted, "FileSelected") ELSE posted

KeyPressed(key) ==
  /\ NavigatorKey(key)
  /\ UNCHANGED <<view, open, isActive, filePath, files, highlighted>>
=============================================================================
