------------------------------ MODULE MCEngine ------------------------------
(* Engine, with two folders, one that cannot be read, and ROMs that are     *)
(* whole, cut short, without a bank, of another format or another mapper.   *)
EXTENDS Engine

MCMenus == {"File", "Emulator"}
MCItems == [File |-> {"OpenRom", "SimpleView"}, Emulator |-> {"StepAssembly", "DumpProgramRom"}]

Nowhere == [bar |-> None, item |-> None, line |-> 0]
MCPoints == {Nowhere,
             [Nowhere EXCEPT !.bar = "File"], [Nowhere EXCEPT !.bar = "Emulator"],
             [Nowhere EXCEPT !.item = "OpenRom", !.line = 1],
             [Nowhere EXCEPT !.item = "SimpleView", !.line = 2],
             [Nowhere EXCEPT !.item = "DumpProgramRom"]}

MCFolders == {"home", "games", "locked"}
MCListing == [home   |-> <<"games", "rom">>,
              games  |-> <<"locked", "rom", "..">>,
              locked |-> <<>>]

Names == {"locked", "games", "rom", ".."}
MCChild == [path \in MCFolders, name \in Names |->
              CASE name = ".."  -> "home"
                [] name = "rom" -> IF path = "home" THEN "whole" ELSE "noChr"
                [] OTHER        -> name]

Rom == [exists |-> TRUE, magic |-> TRUE, nes2 |-> FALSE, mapper |-> 0, trainer |-> FALSE,
        battery |-> FALSE, prg |-> 2, chr |-> 1, units |-> 3]
MCImage == [whole  |-> [Rom EXCEPT !.trainer = TRUE, !.battery = TRUE, !.units = 4],
            noChr  |-> [Rom EXCEPT !.chr = 0, !.units = 2],
            nes2   |-> [Rom EXCEPT !.nes2 = TRUE],
            mapper |-> [Rom EXCEPT !.mapper = 1],
            text   |-> [Rom EXCEPT !.magic = FALSE],
            noPrg  |-> [Rom EXCEPT !.prg = 0],
            short  |-> [Rom EXCEPT !.prg = 4, !.trainer = TRUE, !.units = 3]]
MCArguments == {None, "nes2", "mapper", "text", "noPrg", "short"}
=============================================================================
