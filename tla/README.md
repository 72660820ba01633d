# A verification of NANE

NANE is a Nintendo Entertainment System emulator in C++ (`NANE/`), with a small
server that collects its logs (`LogServer/`). This directory keeps TLA+ models
of its core, the TLC runs that check them on small instances, and TLAPS proofs
of what matters most, for every instance. `PROJECT.json` lists components,
runs, the lines of the source each definition stands for, the hazards and the
theorems. Paths below are relative to `NANE/src/` unless they say otherwise.

## The system

NANE is a cycle-counting emulator in one thread, with SDL's audio callback in
another, and the log server, a program of its own with two threads.

| Component | State | Operations | Talks to |
|---|---|---|---|
| Console loop, `NES/Nes.cpp` | none of its own | `Step`, `processFrame`, `PowerCycle`, `LoadCartridge` | steps CPU, APU, PPU, DMA in turn |
| CPU, `NES/CPU/Cpu.cpp` | A X Y P S PC, cycle count | `Step` (stall, NMI, IRQ, decode, execute) | everything through `Dma::Read/Write/Seek` |
| Bus and OAM DMA, `NES/Memory/Dma.cpp` | `nmiActive`, `irqActive`, the transfer (`dmaActive`, `dmaGoodCycle`, base, offset, buffer) | `Read`, `Write`, `Seek`, `IsDmaActive`, `ProcessDma` | owns the memories of all components |
| PPU clock, `NES/PPU/Ppu.cpp` | line, cycle, total cycles, frame count | `Step`, `PowerCycle` | raises NMI, sets PPUSTATUS, draws |
| PPU ports, `NES/PPU/PpuRegisters.cpp` | eight registers, write latch, two loopy registers, read buffer | `Read`, `Write`, `TransferScrollX/Y`, `IncrementVRamAddress` | CPU on one side, background fetch on the other |
| Background, `Ppu::backgroundFetch` ff. | tile and shift registers | one fetch a dot | ports, name tables, pattern tables |
| Sprites, `NES/PPU/OamSecondary.cpp` | primary OAM, secondary OAM, two sprite buffers | evaluate, fetch, show | OAM DMA, ports |
| PPU memory | name tables, palettes, pattern tables | read and write with mirroring | cartridge |
| APU, `NES/APU/` | frame counter, per channel: sequencer, envelope, sweep, length | `Step`, register writes | raises IRQ, pushes samples |
| Audio queue, `NES/Memory/ThreadSafeQueue.h`, `GameEngine/Audio/AudioMgr.cpp` | queue, mutex | `Push`, `Pop`, SDL's callback | emulator thread and audio thread |
| Controllers, `NES/Controller/` | keys, strobe, shift register | `SetKey`, `Write`, `Read` | game engine, CPU |
| Cartridge, `NES/Cartridge/` | PRG and CHR banks, header | load, `Read`, `Write` | bus, PPU memory |
| Game engine, `GameEngine/GameEngine.cpp` | run, step and exit flags | `LoadMedia`, `UserInput`, `Processing`, `Display` | all of the above |
| Windows, `GameEngine/Graphics/` | view, open menus, the navigator's list and curser | `HandleEvent`, `ChangeViewType`, `SetFileSystemData` | post events onto SDL's queue, for the engine |
| File system, `GameEngine/Storage/FileSystem.cpp` | current path | list, `IsDir`, set the path | the engine |
| Logger, `GameEngine/Network/Logger.cpp` | two sockets, stdout and stderr redirected | connect, close | log server |
| Log server, `LogServer/src` (from the root) | a listening socket and a connection for each stream | bind, accept, receive, close | Loggers |

What makes each correct, and what is hard about it:

- **Console loop.** CPU, PPU, APU and DMA take turns in a fixed order, but tell
  each other things through flags that the other reads some cycles later. The
  CPU sees NMI, IRQ and DMA only between its steps; a step may take no cycles
  at all. `processFrame` must return after exactly one frame.
- **OAM DMA.** Two half-steps a byte, on alternating PPU cycles, through a
  buffer; a query (`IsDmaActive`) with a side effect; a `PowerCycle` that
  resets half of the state. A transfer must look like one copy by a CPU that is
  held meanwhile.
- **PPU clock.** One dot too many or too few would go unnoticed in any short
  test and drift the picture.
- **PPU ports.** Two registers share a latch that a third clears; reads are one
  behind.
- **Sprites and background.** Registers may change between the evaluation, the
  fetch and the display of one line.
- **APU.** Several dividers, counters and flags that writes reset at any cycle.
- **Audio queue.** Two threads, a bound, and loops over a size read before.
- **CPU.** Two hundred rows of a table, a stack that wraps, returns of two kinds
  and interrupts between any two instructions; sums that need three widths.
- **Controllers.** Keys change while the program shifts them out.
- **Cartridge.** A file is checked piece by piece while banks are filled, and no
  read of it is tested.
- **Engine and windows.** What the user chooses becomes an event that waits while
  the user does other things; three places hold a part of what it means.
- **Log server.** A client may leave at any time; descriptors are numbers that
  are used again.

## The modules

`OamCopy` (abstract) says what a program that writes `$4014` may count on: the
bytes of a page arrive in OAM one by one, in order, as they were when it asked,
while it is suspended. The one exception the code makes is part of it: after a
power cycle in the middle, one byte arrives as zero.

`OamDma` is the machinery: `Nes::Step`'s loop as `ppuSteps`, the cycles that
remain of the current step; `Stall`, `Execute`, `CpuFaults`, `WriteOamAddr`,
`WriteOamData` and `WriteDma` for what `Cpu::Step` may do; `PpuIdles`,
`DmaReads` and `DmaWrites` for a PPU cycle, each with both calls of
`IsDmaActive`; `PowerCycle`. `totalPpuCycles` is kept as its parity, which is
all the DMA asks. The program is any program: an instruction may change memory
as it likes. An exception of `Dma::Read` or `Write` ends the run (`faulted`):
nothing catches it. (`DecodeInstruction` has a handler of its own; what it
catches is `Undecodable` below, unless PC itself has no device: then the message
about it, at `NES/CPU/Cpu.cpp:77`, seeks there once more, outside the handler, which is
`CpuFaults`.)

`NesStep` extends `OamDma`: each of its actions is an action of `OamDma`
together with what it does to the PPU's position, the interrupt flags and the
host. `HandleNmiEvent` and `HandleIrqEvent` come before `CpuDecodes`, in the
code's order. `ApuSteps` abstracts the APU to the IRQ it may raise in any cycle
(`Apu::ClockFrameCounter`); a step of no cycles runs no APU. `Dot` is one turn
of the PPU loop. The host calls `processFrame` (`host = "frame"`), one `Step`
(`"step"`), or power cycles between the two. With a `debugPoint` the
engine makes its frames of single steps, which adds nothing here; that it may stop
in the middle of one is in `Engine`.

`SampleFifo` (abstract) is a queue with atomic puts and takes; `AudioQueue` has
the emulator's thread inside `ThreadSafeQueue::Push` and SDL's thread inside
`AudioMgr::ConsumeAudio` and `Pop`, one action for each access of the shared
queue. A sample is the number of its production, so that order, loss and
duplication are visible.

`PpuPorts` is what a program sees of `$2000`, `$2001`, `$2002`, `$2005`,
`$2006` and `$2007`: `next` and `active` are the two loopy registers, field by
field (`AddressOf` is the union's other view), `latch` the shared latch. The
picture's copies, `TransferScrollX` and `TransferScrollY`, may come between any
two accesses; which dots they come at is left to `Background`. `vram` is the
memory behind `$2007`, `Place` the way an address takes through the cartridge,
the name tables' mirroring and the palettes' aliases. `half`, `pointer`,
`want`, `drawn` and `stream` are history: what the program has reason to
expect. A write to a mirror of `$2000` and the map's answer for address `$2004`
are modelled as the code has them. OAM, and therefore that answer, is any byte.

`Sprites` follows `Ppu::Step` for the sprites, one `Dot` at a time: `SpriteFetch`
chooses (`Evaluate`), fetches (`FetchTiles`) and clears; `DrawPixel` is the three
`Calc...Pixel` functions. Secondary OAM and the active buffer are functions on
the indices of OAM, which is the order the code keeps them in; a fetched row is
the set of its opaque columns. `DotFails` is the exception of
`CalcSpriteBuffer`. The program writes `$2000`, `$2001`, `$2002` and any byte of
OAM between any two dots. `seen` and `shown` are history: the OAM and the
registers that the last evaluation and the last fetch had. `met` is history as
well: the places where, in this frame's picture, an opaque pixel of sprite zero as it
was evaluated has lain over an opaque one of the background (`Overlap`, which is what
`PpuRegisters.h:67` calls a hit, and owes nothing to the code's own test,
`HitsHere`). Where the code departs from the console, the model
follows the code: the left column is 7 dots wide (`< 8`) although
`PpuRegisters.h:51-52` says 8; the number of an 8 x 16 tile is the index shifted
right; all sprites of a crowded line are shown; two places of overlap set no flag
(`Uncounted`, below).

`Apu` is the frame counter and what it clocks. `Sequencer`, `VolumeEnvelope`,
`SquareWave`, `TriangleWave` and `NoiseWave` are operators on records
(`Clock`, `EnvelopeClock`, `SweepClock`, `LinearCounterClock` ...), named after
the methods; `Step` is `Apu::Step`, with the half frame a `$4017` write has asked
for first, then what the tick brings, in the code's order. Each register has an
action. A sequencer whose period was never set counts down for ever in the code
(and would overflow after 2^31 clocks); `Unset` stands for all of that. `note`,
`elapsed` and `since...` are history: what was loaded and how often time has
passed since. The model follows the code where it is not the console's APU: the
first square wave is clocked twice in a half frame and the second never; pulse 1
sweeps down by one less, not one more; enabling the noise channel is what
silences it; bit 7 of `$4017` means four steps, although
`APU/ApuRegisters.h:162` says it means five.

`Cpu` is `Cpu::Step` with programs: one action per kind of instruction
(`Load`, `Arithmetic`, `ModifyMemory`, `Branch`, `JumpToSubroutine` ...), the
two interrupts, a byte that does not decode (`FailToDecode`) and an access that
nothing answers (`Fault`). A byte that does not decode is skipped in no time; where PC
itself has no device the report of it throws (`Cpu.cpp:77`), which is a `Fault`. `Entry`, `ArgAddress` and `CycleCount` are what
`DecodeInstruction` makes of the bytes at PC; the flags that are up are the set
`p`. `Alu` has the arithmetic, `Opcodes` the table of `Instructions.h` by its
columns, `Bus` the memory map with RAM, cartridge and the two controllers.
`mem` holds only what has been written: the rest is the cartridge's or zero. A
device register reads as any of `DeviceBytes`. `frames` is history: for each call
and interrupt whose bytes on the stack have not been overwritten, where it should
return to and what the registers were. The model follows the code where it is
not the console's CPU: BRK pushes the address after its opcode and takes no
cycles; read-modify-write instructions cost a cycle more across a page; ROM is
written; P keeps B after power on, and RTI brings it back.

`Programs` is `Cpu` with three programs, in an assembler's listings: `Sum` adds
and compares two bytes of a device, `Nest` nests calls, BRK and interrupts on a
stack that wraps, `ReadPad` reads a controller by eight reads. `Assembled` puts a
listing into the cartridge, by the opcode table, with its vectors; the handlers
(`SavingLines`, `PadHandlerLines`) save what they use. The programs are not in
the repository: they are what a cartridge may hold that relies on the whole of
CPU, stack, bus and controllers at once, and whose user knows what must come out.
Each may come with any budget of events. `MCCpu` adds two that promise nothing
but what holds of any program.

`Background` is `Ppu::Step` for the background: `Transferred` copies the scroll,
`Fetch` makes a quarter of a fetch, `Shift` moves the registers,
`CalcBackgroundPixel` draws, one `Step` a dot. A fetched byte is kept as the
place it was read from (table, tile and row; attribute byte and bits), so that a
pixel tells where it came from; the two halves of each shift register are one
record each. Redirection, the tables' layout and the wraps have their real
sizes, lines and frames are as long as the constants say. The program writes
`$2000`, `$2001`, `$2005` and `$2006` between any two dots, in the form of the
scroll they make, which is the subject of `PpuPorts`, and uses `$2007`, which
moves the scroll as well. `asked`, `wanted`, `torn` and `overrun` are history.
Where the scroll is greater than zero both across and down the code fetches between and behind its windows as well, and at
dot 337 it shifts once too often: the first two tiles of the next line are one
tile off (`overrun`). A comment at `NES/PPU/Ppu.cpp:82` has the fetches in the
windows only.

`Loader` is what a file becomes: its checks, and which bank of the file fills
which bank of the cartridge, when it breaks off anywhere. `Windows` has the view,
the menu bar and the file navigator, as operators on what an event does to them;
`Engine` extends both and is the loop: one action for each kind of event of the
user's (`Press`, `Release`, `Move`, `Key`, `Quit`), one for each that the windows
have posted (`ChangeView`, `EmulatorEvent`, `OpenRom`, `FileSelected`,
`DumpCrashes`), and `Process` for the rest of a pass, when the queue is empty. A
file may be deleted at any time. An exception of the engine or the loader, which
nothing catches, or a read
through a null pointer, ends in `pc = "dead"`. An exception of the console, in any step
of it, ends in `pc = "thrown"` (`ConsoleThrows`): which programs cause one is a
matter of `Cpu`, `OamDma` and `Sprites`, here any may. `chosen` is history: what the user
meant by each choice that waits.

`LogServer` has the two threads of the server (`Open`, `Bind`, `AcceptCall`,
`AcceptReturn`, `ReceiveMsg`, `Destroy`, of each stream) and the program
(`Start`, `NewLogger`, `OpenOther`, `Write`, `CloseLogger`, `Exit`), each with a
table of descriptors that the kernel fills from the lowest. The code keeps
numbers of sockets that it has closed (`network/Logger_server.cpp:37`,
`Network/Logger.cpp:52`), and the model follows them to whatever has that number
next. A server's thread whose client has gone receives 0 bytes for ever and
never accepts another.

`*_proofs` hold the theorems. `MC*` fix the small instances.

## The runs

| Run | Instance | What it shows |
|---|---|---|
| `oam_dma` | OAM of 3 bytes, 2 pages of which one has a register and a hole, 2 byte values, instructions of 0, 1 and 2 cycles; 78 032 states | a transfer is the copy of `OamCopy` (refinement), never stores what it has not read, never runs beside the program, and ends |
| `nes_step` | lines of 8 dots, 6 lines, blank at line 2, OAM of 2 bytes, instructions of 0 to 2 cycles, frame count modulo 3; 885 552 states | see below |
| `audio_queue` | limit 3, blocks of 2 and 4, 8 samples; 8 779 states | the two threads implement `SampleFifo`; bound, blocks without a gap, mutex always released |
| `ppu_ports` | programs of 7 accesses, 2 bytes for `$2000` and for `$2005`, 5 for `$2006`, 1 for `$2007`, vertical mirroring; 1 674 391 states | address, scroll and data are what the program asked for, whatever came before |
| `sprites` | 2 sprites of which 1 is the limit, tiles 3 wide and 2 high, 3 visible lines of 5 pixels, 2 writes or power cycles after any setting of the registers and OAM; 2 180 306 states | pixels and flags are those of the sprites evaluated for the line, but for two places where a hit is missed; what makes the fetch fail |
| `apu` | ticks of 2 cycles, step numbers modulo 16 (256 and 16 leave the same remainders), envelopes from 2, lengths of 3; 2 accesses by the program, at power on and after it has set everything up; 1 953 740 states | lengths, envelopes, the rhythm of the frame and the IRQ are as the time gone by says |
| `cpu` | five programs of up to a hundred instructions, device registers that read as 0, 1, 127, 128 or 255, one or two interrupts, buttons or changes of cartridge in between; 55 648 states | returns, handlers, sums, cycles and the controllers' bytes, see below |
| `square_length` | as `apu` | violation: the second square wave's length counter is never clocked |
| `sprite_size` | as `sprites` | violation: a size switched between evaluation and fetch makes `CalcSpriteBuffer` throw, and nothing catches it |
| `background` | a picture of 3 tiles by 2 lines in a plane of the real size, scrolls of 0 and 501 across, 0, 239 and 479 down, horizontal mirroring; 2 writes at any dots of a frame; 3 163 442 states | every pixel is of the tile, row and palette that the scroll puts there, and no fetch leaves the plane |
| `engine` | 2 menus with 4 items, 3 folders of which 1 cannot be listed, 7 ROMs good and bad, 2 events waiting; 235 780 states | what is opened is what was chosen; the program ends by itself only where listed, or where the console throws; quitting ends it |
| `log_server` | 2 runs of the program, 2 lines, 1 connection reset; 287 771 states | what is printed is what was written, and all of it unless something has failed |

`nes_step` checks that the parity the DMA goes by is the parity of the picture
position (`ParityIsPositional`); that a polled blank flag is up only in a blank
or because the program wrote it (`BlankOnlyInBlank`); that an NMI waits for one
instruction or one transfer and never for both in turn (`NmiLatency`), and is
never raised while another is pending, not even across a power cycle
(`NmiNotMerged`); that `processFrame` returns after one frame, still on the
pre-render line (`OneWholeFrame`); and that it returns (`FrameEnds`).

No run has a type invariant: those of the modules with proofs are theorems, for
every instance.

`ppu_ports` checks that `$2007` uses the address the program wrote
(`AddressAsWritten`) and the picture the scroll it asked for (`ScrollAsAsked`)
although both live in the same two registers, and that a run of reads returns
the bytes from that address on, with the delay changing at the palettes
(`ReadsFollowThePointer`). The copies of the picture and power cycles count as
accesses. Seven of them are enough to spoil the latch (one), repair it (one),
set an address (two) and read twice, or to write, set the address again and read
back across the border. The bytes make, among others, the addresses 0x2004
(shadowed by the OAM port), 0x23FE (names), 0x3EFE (2 below the palettes), 0x3F3F
(a mirror in them) and 0x3FFE (from where the pointer runs into the hole past
0x3FFF); 96 and 254 have bits that the high half drops; 5 and 250 scroll by coarse
and by fine steps. Not reached: PRG-ROM above 0x8000, which takes hundreds of
accesses, and the cartridge's RAM.

`sprites` checks that a pixel shows the first opaque sprite of the OAM that was
evaluated for its line, whatever changed since (`PixelAsEvaluated`); that the
sprite zero flag is up if and only if sprite zero and the background have overlapped in
the picture (`ZeroHitMeansMet`), with two exceptions that the code makes: it tests
dot 255 where it means the last column, so that an overlap at x = 254 is missed
(`NES/PPU/Ppu.cpp:315`), and it asks for a dot past 8 beside a hidden left, which hides
only the dots before 8, so that one at x = 7 is missed (`Ppu.cpp:313`); that the overflow flag
says, while a line is shown, whether that line is crowded (`OverflowAnnounced`);
and that the fetch can fail only after a switch from tall sprites to short ones
(`FailsOnlyBySwitch`). Two writes are the least that change both OAM and a
register between evaluation, fetch and display. Tiles of three columns reach both
exceptions. Two sprites overlap, overflow a
limit of one, and hide each other; they begin on the first line or past the
middle, so that a tall one reaches rows a short one has not. `CHECK_DEADLOCK` is
off because an exception ends the emulator.

`apu` checks each channel's length against the half frames since it was loaded
(`LengthsAsClocked`), each envelope against the quarter frames since it began
(`EnvelopeAsElapsed`), that quarter and half frames are never too far apart
(`FrameRhythm`), and that the IRQ is due in every fourth tick since the program
asked (`IrqEveryFourthTick`). Two accesses after a prepared state show each
register's effect on a running note and that of a second one on the first.
There is no bound on the time: every state recurs.

`cpu` runs the programs of `Programs` and of `MCCpu`. `ReturnResumes`
says that an RTS or RTI which finds S where a call or interrupt left it, and its
bytes intact, resumes the program there, whatever has run in between; the
program `Nest` wraps the stack in the middle of a return address, and `Every`
makes addresses up, changes and overwrites them, where nothing is promised.
`HandlersUnseen` asks more of the two programs whose handlers save what they use:
at the end every register is as at the interrupt. `ArithmeticExact` compares
sums, differences and comparisons with those of the integers, over the operands
that sit at the boundaries of a byte, signed and unsigned, with and without
carry. `StepLengths` is what `Nes::Step` and the DMA count on. `PadByteAsLatched`
says that eight reads give the buttons of the strobe, with the user and an NMI
in between. `CHECK_DEADLOCK` is off because an exception ends the emulator.
Each program ends in a loop, so no bound on steps is needed; `MaxEvents` bounds
what comes from outside, two being the least for an interrupt in an interrupt's
handler.

`background` checks `PixelAsScrolled`, against the layout of the tables written
down a second time (`TileAt`, `QuarterAt`), and `FetchIsValid`: the exceptions of
`backgroundFetch` and `LocalFromGlobalPos` are never thrown, although the scroll
lets fetches through that are in no window. 501 wraps across with a fine part, 239
and 479 are the last rows of a table and of the plane, so that a line begins in one
table and the next in another. Lines have the two tiles fetched ahead and one
more, with the gaps between the windows that the console has, eightfold dots
kept; two writes are the least that set both halves of a scroll, or a scroll
and then the mask or the table in the middle of a line.

`engine` checks that a choice opens what was pointed at unless the curser or the
list has changed since (`OpensWhatWasChosen`); that the engine and the loader end the
program only at the very event that leads it to a folder that cannot be
listed, a lost file, a file that is NES 2.0 or has no program, or a dump without a
cartridge, and a pass only for want of a pattern bank (`DiesAsListed`): never because
the list, the curser and the queue have gone apart. It does not say that good files
keep the program going: a step of the console may throw with any ROM, at an
address that no device answers (`oam_dma`, `cpu`) or for a sprite whose size was switched
(`sprite_size`), and the model has that step; that
banks hold what the header says, of the file that was opened last
(`BanksAsFiled`); that dragging never leaves two menus open (`OneMenuOpen`); and
`QuitEnds`. Two waiting events are the least for a choice made before another is
handled. The points lie on the headers, on items that cover lines of the list,
and on nothing.

`log_server` checks that what comes out on a stream is a beginning of what one
run wrote there, even if a thread accepts the other's connection by a stale number
(`PrintedAsWritten`); that without a failed call no socket is closed but one's
own (`ClosesOnlyItsOwn`); and that the first connection's lines are all printed
(`AllIsPrinted`). After a failed call another's socket may well be closed, by its stale
number, and the model has those steps; what then still holds is
`PrintedAsWritten`. A `recv` that waits keeps its socket, on Linux, when another thread
closes the number, and may print the next line of it; the model ends the wait at once.
That line comes in its place, so `PrintedAsWritten` is not affected. Two runs show the client that comes after the first. The system
may stop: `CHECK_DEADLOCK` is off.

Bounds. Three bytes of OAM show a first, a middle and a last byte (two, where
the data of the transfer does not matter); the page
with a register and a hole shows a volatile byte and a fault at either half.
Cycle counts 0, 1 and 2 are the two that steps of the PPU cannot tell from
longer ones (three PPU cycles, an odd number; six, an even one) and the special
one that runs nothing. The picture is as small as the assumptions of `NesStep`
allow: no instruction longer than a line, no transfer longer than two, an even
number of dots. (The console: 24, 515, 341 x 262 = 89 342.) `elapsed` and
`nmiAge` are history variables that stop one past the bound they are checked
against. `FrameWrap` stands for 2^64. `MaxSent` bounds the samples; eight is
enough to fill, overflow and refill a queue of three with blocks in between.
The block sizes are one below and one above the limit.

Fairness. `Fairness` of `OamDma` and `HostFairness` of `NesStep` say that the
loops of `Nes::Step` and `processFrame` go on: they are plain code that waits
for nothing. `ProgramFairness` is an assumption about the program in the
cartridge: it does not for ever execute only instructions that take no time.
It is needed: BRK takes none in this emulator, although
`NES/CPU/Instructions.h:90` says seven, and a program of nothing but BRK keeps
`processFrame` in its loop. In `AudioQueue` a thread that is
inside `Push` or `Pop` goes on; nothing is assumed about who gets the mutex.
Power cycles and calls of the host are never forced. In `Engine` the loop handles
events faster than the user makes them: again and again it comes to the end of
the queue, which is what strong fairness of the handling of the last event and of
`Process`, `ConsoleThrows` and `ProcessCrashes` say; without it a user who never pauses would keep the inner loop of
`UserInput` from ending. That a pass ends takes for granted that its frame
returns, which is `FrameEnds` of `NesStep`, and holds under `ProgramFairness` only; it
may also throw, which ends the program as well. Nothing is assumed of the user. In `LogServer` the
server's threads run; nothing is assumed of the program.

## The proofs

Proved with TLAPS, for all constants that satisfy the modules' ASSUMEs:

- `NesStep_proofs`, with `OamDma`, which it extends: `IInv` adds to the types
  that a transfer that is not yet released still has an odd cycle before it in
  the current step (`ReleaseIsComing`: `CpuHeldDuringDma` alone is not
  inductive, because it says nothing in the middle of a step), and where the
  transfer stands in OAM (`TransferInOam`). From it follow `CpuHeldDuringDma`,
  `BufferIsFresh` and, with `ElapsedSoFar`, which tells the bound apart by the
  half of the byte, `ElapsedBound`. `CopyStep` maps each step to a step of
  `OamCopy`, so `Spec => ImplementsCopy`. Each step of `NesStep` is a step of
  `OamDma` (`OamSteps`), so `IInv` carries over. `NmiWaits` adds up the age of a
  pending NMI and the cycles left of what it waits for; `NmiPlace` says where
  the PPU must be by then, which shows that it has not come round to the next
  edge; `FrameInv` keeps the PPU near the dot that ended the frame.
  `ParityFollowsBeam` is the arithmetic of an even number of dots.
- `Threads_proofs`, of `AudioQueue`: the invariant ties the mutex to the threads' positions,
  and says that everything in flight (held by the callback, then queued) is a
  sorted run of samples newer than what was heard. Types, bound, no pop of an
  empty queue, blocks without a gap and order follow. For the refinement,
  `HalfWay` says what a push that has discarded and not yet appended, and a pop
  that has moved some of its samples, have done to the abstract queue
  (`contents`): a push counts when it appends, a pop when it returns, and every
  other step stutters.
- `Threads_proofs`, of `LogServer`: `SocketsInPlace` says that a thread whose
  calls have succeeded has its own sockets behind its numbers, or nothing, once
  the other thread has closed them at its end: then that thread opens no more,
  and nobody is given the number. `OneEnd` and `Flow` say that a connection
  has one end at the server, and carries next what follows the lines printed of
  it. `PrintedAsWritten` is not inductive without them. As long as no
  call fails (`CleanInv`), whoever will close a number has a socket of his own
  there: `ClosesOnlyItsOwn`. There is always a number left to open (`RoomForSocket`,
  `RoomInProgram`), so the six of the model are all it needs. For any number of
  runs, resets and lines.
- `PpuPorts_proofs`: `PortInv` ties the latch to the program's own count of
  halves (`LatchAsCounted`), the register's upper byte to a half-written address
  (`PendingAddress`), the next scroll to the one asked for (`WantedIsNext`), and
  a run of reads to the pointer, with the byte before it in the buffer
  (`StreamAtPointer`); without these, nothing is known at the moment of the copy
  or of the next read. Types, `AddressAsWritten`, `ScrollAsAsked` and
  `ReadsFollowThePointer` follow, for all byte sets, banks and mirrorings, and
  however far the address wraps.
- `Sprites_proofs`: `SpriteInv` says that between two evaluations the fetched
  list is the one made of `seen` (`FetchedAsSeen`), that the buffer on a line is
  the one made of `shown` (`BufferAsShown`), where the overflow flag belongs
  between evaluation and display (`OverflowIsAhead`), and at which dot the last
  pixel was drawn (`PixelPlace`). None of the run's properties is inductive
  without them: they speak of the line on the screen, and the flag and the list
  of the next. All five follow, for any number of sprites, any tile and
  picture, and any order of the dots that `PictureAssumption` names.
- `Background_proofs`: `IInv` is about places. As long as nothing has torn the
  line, the latches hold, e dots into a fetch, what e dots fetch of the tile at
  `Place`, at the end of a line for the next one (`AheadInv`) and on it, while
  the registers hold the tile under the beam and the one after it (`LineInv`).
  The dots between the windows change neither, unless the line has been
  overrun: then the first two tiles are promised nothing. `FetchIsValid` needs the
  types and where the latches' index may lie, for every scroll that may be written
  between the four dots; `PixelAsScrolled` the rest, and the arithmetic of 64
  columns and 480 rows. For pictures of any width and height.
- `Apu_proofs`: per channel, the counter is the note's length less the half
  frames since, at the channel's rate (`Runs`); decay and counter of an envelope
  together tell the quarter frames since it began, until one that does not loop
  has run out (`Envelops`). `Rhythm` bounds the ticks since the last half and
  quarter frame by the sequence number, in either mode and across the byte's
  wrap, and `IrqCounted` tells those since the last IRQ by its remainder. For all
  lengths, periods and sizes of a tick.
- `Engine_proofs`: `NavigatorInv` is what three objects must agree on:
  the list is the shown folder's (`FolderShown`), the curser lies in it
  (`CurserInList`), a list is there when its view is, or a choice waits
  (`ListIsThere`), and a choice that nothing has overtaken is the path at the
  curser, with no highlighted line about to move it (`ChoicesStand`).
  `CartridgeKnown` says which file the console's banks are
  of, and with it whether they lack the patterns. From these and the lemmas of `Loader` (which unit fills which bank)
  follow all four safety properties, for any layout of the windows, any
  folders and files and any length of the queue.
- `Cpu_proofs`: `FramesIntact` says that the bytes of every surviving frame are
  on the stack as they were pushed, below and above the wrap of S.
  `ReturnResumes` is not inductive without it. It is kept because a frame survives
  only what is written elsewhere, and one step writes either
  beside it or below S: the cells of the stack are told apart by their distance
  from S modulo 256. The types rest on the memory map (every access is to a
  cell of some memory, or a device, or the fault). `ArithmeticExact` is
  proved from lemmas of `Alu` about all pairs of bytes, and `StepLengths` from
  `RowFits`, a bound on the rows of the opcode table. For all programs,
  cartridges, device bytes and schedules of interrupts.
- `Cpu_proofs`, of `Programs`: that a listing is what the CPU executes is a chain
  of its own: no byte of the table is two instructions (`OpcodesUnambiguous`),
  lines that lie apart are found in ROM where they were put (`LinesAssembled`,
  `LineShows`), and decoding gives the line back (`LineDecodes`). `ProgramInv`
  then says that ROM is intact and that there is a base of the stack from which
  the frames lie one below the other, all above S (`Nested`), and that what
  runs, and what each interrupt has suspended, is at a place of its listing
  (`Context`): the main program at its depth of the stack, `ReadPad` with as many
  bits collected as buttons read, a handler at one of four stages, with A and X
  in the registers or on the stack. Neither property is inductive without it,
  since an RTI brings back a context that was suspended long before. It is kept
  because a step writes only below what is suspended (`StackKept`,
  `ContextKept`), and the depth is bounded by what has been answered: three
  bytes and the two its handler saves for each event, and eight for the call with
  PHP, BRK and its handler (`StackDepth`). Hence `NestingAssumption`, at most 49
  events: with more handlers inside each other the stack of 256 bytes may meet itself,
  and then no handler can put back what it has saved. `HandlersUnseen` and
  `PadByteAsLatched` follow.

What they assume of the constants is in the modules' ASSUMEs, which the runs
evaluate on their instances. Those that say something about the world: a
cartridge's bank has at most 32 KiB of bytes (`CartridgeAssumption`); a CPU step
takes at most `MaxCycles`, which is at least 8, the longest row of the table
with the cycle a page costs (`CycleAssumption` of `Cpu`); a cartridge that claims to show
handlers or the controller holds one of the three programs (`ProgramAssumption`), and at
most 49 events come (`NestingAssumption`, both of `Programs`); a listed name is a folder
or a file (`FileAssumption`); the windows of the fetches follow each other on the
line as in the code, apart (`PictureAssumption`).

Only model-checked:

- the liveness properties `DmaEnds`, `LockReleased`, `FrameEnds`, `QuitEnds` and
  `AllIsPrinted`, which are out of TLAPS's reach (fairness and ENABLED);
- the two properties of the runs that find a violation, which are false.

No module uses RECURSIVE operators, and nothing proved needs induction over data,
which TLAPS does not have either.

## Where the code is not what it says

Two runs show a disagreement of the code with its own words: `sprite_size` and
`square_length`. These others were met while modelling, and the models follow the
code in each:

- an overflow of the audio queue by one sample discards all of it
  (`NES/Memory/ThreadSafeQueue.h:64`, which says how many it discards);
- BRK takes no cycles (`NES/CPU/Cpu.cpp:587`, `Instructions.h:90` says seven);
- the background is drawn although PPUMASK hides it (`NES/PPU/Ppu.cpp:297`,
  `PpuRegisters.h:53`), and its left column is 7 dots wide (`Ppu.cpp:225`);
- the background is fetched past its windows (`Ppu.cpp:82`), above;
- sprite zero's hits at x = 254, and at x = 7 beside a hidden left, are missed
  (`Ppu.cpp:313-315`; `PpuRegisters.h:67` makes no exception);
- a byte that does not decode is skipped, but not where PC has no device: there
  reporting it ends the emulator (`NES/CPU/Cpu.cpp:77`);
- `FileSelected` trusts that the folder can be listed and that `stat` succeeds
  (`GameEngine/Graphics/FileNavigator.cpp:44`, `GameEngine/Storage/FileSystem.cpp:43`),
  and the dump of the program that there is a cartridge (`GameEngine.cpp:144`);
- a bank that a file lacks is found missing when it is first read, not when it is
  loaded (`NES/Cartridge/CartridgeLoader.cpp:82`);
- sockets' numbers outlive the sockets, and a server never learns that its
  client has gone, see `LogServer`.

## Not modelled

Out of scope for good: the mixing and filters of the APU (floating point), where
each channel stands in its wave (which only the mixer sees), drawing, fonts,
layout and scale of the windows and the frame rate (SDL), writing a dump to a
file, disassembly and debug pictures (they only read), build files and tests.

Not followed: programs that execute from device registers or jump through them,
the registers after an exception has ended the emulator, `totalClockCycles`,
which only counts, buttons of the mouse other
than the left, failures to open a window or the sound, and lines that TCP splits.
