-------------------------------- MODULE Programs --------------------------------
(***************************************************************************)
(* Three programs for Cpu, as an assembler lists them: one that sums and   *)
(* is interrupted, one whose calls and interrupts nest on a stack that     *)
(* wraps, and one that reads a controller.  What a user would say of them  *)
(* is a property of the whole of the CPU and its bus.                      *)
(***************************************************************************)
EXTENDS Cpu

Main == 32768      \* where each begins
NmiAt == 33280
IrqAt == 33408
PadNmiAt == 33536

PPUSTATUS == 8194
JOY1 == 16406
JOY2 == 16407

-----------------------------------------------------------------------------
(* The assembler.                                                          *)

Line(at, instr, mode, arg) == [at |-> at, instr |-> instr, mode |-> mode, arg |-> arg]
Implied(at, instr) == Line(at, instr, "impl", 0)

Code(instr, mode) ==
  (CHOOSE row \in OpcodeRows : row.entry.instr = instr /\ row.entry.addrm = mode).code

Covered(l) == l.at .. l.at + InstLen[l.mode] - 1

LineByte(l, k) == CASE k = 0 -> Code(l.instr, l.mode)
                    [] k = 1 -> Lower(l.arg)
                    [] k = 2 -> Upper(l.arg)

\* A cartridge of 16 KB is seen at $8000 and at $C000, with the vectors at its
\* end.
VectorCells == 49146 .. 49151
VectorByte(cell, nmiAt, irqAt) ==
  LET word == CASE cell \in {49146, 49147} -> nmiAt
                [] cell \in {49148, 49149} -> Main
                [] cell \in {49150, 49151} -> irqAt
  IN  IF cell \in {49146, 49148, 49150} THEN Lower(word) ELSE Upper(word)

LineAt(lines, cell) == CHOOSE l \in lines : cell \in Covered(l)

Assembled(lines, nmiAt, irqAt) ==
  [cell \in (UNION {Covered(l) : l \in lines}) \union VectorCells |->
     IF cell \in VectorCells THEN VectorByte(cell, nmiAt, irqAt)
     ELSE LineByte(LineAt(lines, cell), cell - LineAt(lines, cell).at)]

\* What is in it, how many events it meets, whether one may be its removal, what
\* it is there to show, and where it is done.
Cartridge(rom, budget, removable, shows, done) ==
  [prgLen |-> 16384, battery |-> FALSE, rom |-> rom, budget |-> budget,
   removable |-> removable, shows |-> shows, done |-> done]

-----------------------------------------------------------------------------
(* The handlers.                                                           *)

\* Two that upset the registers and the flags, and put them back.
SavingLines ==
  {Implied(NmiAt, "PHA"), Implied(NmiAt + 1, "TXA"), Implied(NmiAt + 2, "PHA"),
   Line(NmiAt + 3, "LDX", "imm", 127), Implied(NmiAt + 5, "INX"), Implied(NmiAt + 6, "SEC"),
   Line(NmiAt + 7, "SBC", "imm", 1), Implied(NmiAt + 9, "PLA"), Implied(NmiAt + 10, "TAX"),
   Implied(NmiAt + 11, "PLA"), Implied(NmiAt + 12, "RTI"),

   Implied(IrqAt, "PHA"), Implied(IrqAt + 1, "CLC"), Line(IrqAt + 2, "ADC", "imm", 200),
   Implied(IrqAt + 4, "PLA"), Implied(IrqAt + 5, "RTI")}

\* One that reads the other controller.
PadHandlerLines ==
  {Implied(PadNmiAt, "PHA"), Line(PadNmiAt + 1, "LDA", "abs_", JOY2),
   Implied(PadNmiAt + 4, "PLA"), Implied(PadNmiAt + 5, "RTI")}

-----------------------------------------------------------------------------
(* The programs.                                                           *)

\* The sum of two bytes, their order and their difference.
SumLines ==
  {Line(Main, "LDX", "imm", 255), Implied(Main + 2, "TXS"), Implied(Main + 3, "CLI"),
   Line(Main + 4, "LDA", "abs_", PPUSTATUS), Line(Main + 7, "STA", "zpg_", 16),
   Line(Main + 9, "LDA", "abs_", PPUSTATUS), Line(Main + 12, "CMP", "zpg_", 16),
   Implied(Main + 14, "CLC"), Line(Main + 15, "ADC", "zpg_", 16),
   Line(Main + 17, "STA", "zpg_", 17), Line(Main + 19, "LDA", "imm", 0),
   Line(Main + 21, "ADC", "imm", 0), Line(Main + 23, "STA", "zpg_", 18),
   Line(Main + 25, "LDA", "zpg_", 17), Line(Main + 27, "SBC", "zpg_", 16),
   Line(Main + 29, "JMP", "abs_", Main + 29)}

\* Calls and interrupts that nest, on a stack that wraps.
NestLines ==
  {Line(Main, "LDX", "imm", 2), Implied(Main + 2, "TXS"), Implied(Main + 3, "CLI"),
   Line(Main + 4, "LDA", "imm", 129), Implied(Main + 6, "CLC"),
   Line(Main + 7, "JSR", "abs_", Main + 13), Line(Main + 10, "JMP", "abs_", Main + 10),

   Line(Main + 13, "ADC", "imm", 129), Implied(Main + 15, "PHP"), Implied(Main + 16, "BRK"),
   Implied(Main + 17, "PLP"), Implied(Main + 18, "RTS")}

\* Eight reads of the first controller, from the first button to the last.
PadLines ==
  {Line(Main, "LDX", "imm", 255), Implied(Main + 2, "TXS"), Line(Main + 3, "LDY", "imm", 8),
   Line(Main + 5, "LDA", "imm", 1), Line(Main + 7, "STA", "abs_", JOY1),
   Line(Main + 10, "LSR", "acc", 0), Line(Main + 11, "STA", "abs_", JOY1),

   Line(Main + 14, "LDA", "abs_", JOY1), Line(Main + 17, "LSR", "acc", 0),
   Line(Main + 18, "ROL", "zpg_", 16), Implied(Main + 20, "DEY"),
   Line(Main + 21, "BNE", "rel", 247), Line(Main + 23, "JMP", "abs_", Main + 23)}
PadDone == Main + 23

Sum(budget) ==
  Cartridge(Assembled(SumLines \union SavingLines, NmiAt, IrqAt), budget, FALSE, "handlers", Main)
Nest(budget) ==
  Cartridge(Assembled(NestLines \union SavingLines, NmiAt, IrqAt), budget, FALSE, "handlers", Main)
ReadPad(budget) ==
  Cartridge(Assembled(PadLines \union PadHandlerLines, PadNmiAt, PadNmiAt + 5), budget, FALSE,
            "controller", PadDone)

ASSUME ProgramAssumption ==
  \A c \in Cartridges :
    /\ c.shows = "handlers" => c \in {Sum(c.budget), Nest(c.budget)}
    /\ c.shows = "controller" => c = ReadPad(c.budget)

\* More handlers than that, one within the other, do not fit on the stack.
ASSUME NestingAssumption == MaxEvents <= 49

-----------------------------------------------------------------------------
(* What must hold.                                                         *)

\* The programs whose handlers put back what they use: for them a handler is not
\* to be noticed at all, whatever it interrupts, another handler included.  At an
\* RTI the registers, S, PC and the flags but B are those of the program at the
\* interrupt that it answers (HandleInterrupt, Push, Pop, PHA, PLA, RTI).
HandlerStep ==
  ReturnFromInterrupt /\ cart.shows = "handlers" =>
    \E f \in frames : /\ f.low = reg.s /\ f.kind = "interrupt"
                      /\ pc' = f.pc
                      /\ reg' = f.reg
                      /\ p' \ {B} = (f.p \ {B}) \union {Expansion}
HandlersUnseen == [][HandlerStep]_vars

\* The byte that the program has put together from eight reads is that of the
\* buttons at the strobe, although the user goes on pressing, and an NMI may
\* read the other controller, between any two instructions (NesController,
\* ControllerManager, ROL, LSR, BNE, RTI).
PadByteAsLatched ==
  cart.shows = "controller" /\ pc = cart.done =>
    Bits(Seek(16)) = {7 - button : button \in pads[JOY1].latched}
=============================================================================
