----------------------------------- MODULE Cpu -----------------------------------
(***************************************************************************)
(* The CPU: Cpu::Step decodes the instruction at PC and executes it, or    *)
(* enters an interrupt that the PPU or the APU has requested since its     *)
(* last step.  Programs are bytes in the cartridge or in RAM; an           *)
(* instruction is what the opcode table makes of them.                     *)
(*                                                                         *)
(* The stall for the OAM DMA is in OamDma, and what the devices do with    *)
(* the requests, before and after, in NesStep.  A program that executes    *)
(* from, or jumps through, device registers is not followed further.       *)
(***************************************************************************)
EXTENDS Bus, Opcodes, Sequences

CONSTANTS MaxCycles,  \* the longest step, 8
          MaxEvents   \* bound: interrupts, buttons and cartridges of a behaviour

\* STA and INC with an index across a page, or a taken branch, take no more.
ASSUME CycleAssumption == MaxCycles \in Nat /\ MaxCycles >= 8

\* A cartridge's share of that bound, and whether it may be taken out.
ASSUME EventAssumption ==
  /\ MaxEvents \in Nat
  /\ \A c \in Cartridges : c.budget \in 0 .. MaxEvents /\ c.removable \in BOOLEAN

VARIABLES pc,         \* PC
          reg,        \* A, X, Y and S
          p,          \* P, the flags that are up
          cycles,     \* what Cpu::Step returned last
          nmi, irq,   \* Dma.h: the requests
          faulted,    \* Dma::Read, Write or Seek has thrown
          frames,     \* history: the return addresses that are intact in memory
          events      \* bound: how much has come from outside

cpuVars  == <<pc, reg, p, cycles>>
requests == <<nmi, irq>>
vars     == <<busVars, cpuVars, requests, faulted, frames, events>>

\* What a call or an interrupt has left on the stack: S below and above it, the
\* address at which the program should go on, and the registers it had.
Frame == [kind : {"call", "interrupt"}, low : Byte, high : Byte, pc : Word,
          p : SUBSET Flags, reg : [a : Byte, x : Byte, y : Byte, s : Byte]]

TypeOK == /\ BusTypeOK
          /\ pc \in Word
          /\ reg \in [a : Byte, x : Byte, y : Byte, s : Byte]
          /\ p \in SUBSET Flags
          /\ cycles \in 0 .. MaxCycles
          /\ nmi \in BOOLEAN /\ irq \in BOOLEAN /\ faulted \in BOOLEAN
          /\ frames \subseteq Frame
          /\ events \in 0 .. MaxEvents

-----------------------------------------------------------------------------
(* DecodeInstruction.                                                      *)

Fetch(k) == Seek((pc + k) % WORD)
Entry    == Opcodes[Fetch(0)]

FetchWord == Fetch(1) + BYTE * Fetch(2)
GetDWord(address, pageWrap) == Seek(address) + BYTE * Seek(SecondByte(address, pageWrap))

\* The address that an index is added to, and the index.
Base == IF Entry.addrm = "indY" THEN GetDWord(Fetch(1), TRUE) ELSE FetchWord
Index == IF Entry.addrm = "absX" THEN reg.x ELSE reg.y

ArgAddress == LET mode == Entry.addrm IN
  CASE mode = "imm"     -> (pc + 1) % WORD
    [] mode = "zpg_"    -> Fetch(1)
    [] mode = "zpgX"    -> (Fetch(1) + reg.x) % BYTE
    [] mode = "zpgY"    -> (Fetch(1) + reg.y) % BYTE
    [] mode = "rel"     -> (pc + 2 + Signed(Fetch(1))) % WORD
    [] mode = "Xind"    -> GetDWord((Fetch(1) + reg.x) % BYTE, TRUE)
    [] mode = "abs_"    -> FetchWord
    [] mode \in Indexed -> (Base + Index) % WORD
    [] mode = "ind_"    -> GetDWord(FetchWord, TRUE)
    [] OTHER            -> 0

IndexedCostsOneMutant == Entry.cycles + IF Entry.addrm \in Indexed /\ Entry.instr # "STA"
                                        THEN 1 + PageCross(Base, ArgAddress) ELSE 0

\* Crossing a page costs a cycle, except for STA.
CycleCount == Entry.cycles + IF Entry.addrm \in Indexed /\ Entry.instr # "STA"
                             THEN PageCross(Base, ArgAddress) ELSE 0

\* The addresses that decoding looks at, besides those in the zero page.
Decoded == LET mode == Entry.addrm IN
  {pc} \union (IF mode = "INVALID" THEN {} ELSE {(pc + k) % WORD : k \in 1 .. InstLen[mode] - 1})
       \union (IF mode = "ind_" THEN {FetchWord, SecondByte(FetchWord, TRUE)} ELSE {})

CpuRuns   == ~faulted /\ ~nmi /\ ~irq /\ \A a \in Decoded : ~IsDevice(a)
Decodable == Entry.addrm # "INVALID" /\ \A a \in Decoded : Mapped(a)

\* The next step executes one of `instrs'.
Executes(instrs) == CpuRuns /\ Decodable /\ Entry.instr \in instrs

NextInstruction == (pc + InstLen[Entry.addrm]) % WORD

\* The instruction is not a jump.
GoesOn == pc' = NextInstruction /\ cycles' = CycleCount

Accumulator == Entry.addrm = "acc"

-----------------------------------------------------------------------------
(* Memory as the instructions use it, and the frames that survive it.      *)

StackCell(s) == BYTE + s

\* The cells a frame occupies: two bytes, or three.
FrameCells(f) == {StackCell((f.low + k) % BYTE) : k \in 1 .. IF f.kind = "call" THEN 2 ELSE 3}

Surviving(cells) == {f \in frames : FrameCells(f) \intersect cells = {}}

\* An instruction that leaves memory alone.
NoStore == UNCHANGED <<mem, frames>>

\* Reads the operand, if the instruction has one.
Reads(address) == pads' = PadsAfterRead(address)

Stores(before, address, value) ==
  /\ Mapped(address)
  /\ mem' = MemAfterWrite(address, value)
  /\ pads' = PadsAfterWrite(before, address, value)
  /\ frames' = IF InMemory(address) THEN Surviving({Cell(address)}) ELSE frames

\* Memory after the bytes have been pushed, the first of them first.
Pushed(bytes) ==
  Overlay([c \in {StackCell((reg.s - k + 1) % BYTE) : k \in 1 .. Len(bytes)} |->
             bytes[CHOOSE k \in 1 .. Len(bytes) : c = StackCell((reg.s - k + 1) % BYTE)]])

PushedCells(n) == {StackCell((reg.s - k + 1) % BYTE) : k \in 1 .. n}

\* S after n bytes have been pushed, the n-th byte that is popped, and S then.
Down(n) == (reg.s - n) % BYTE
Popped(n) == Seek(StackCell((reg.s + n) % BYTE))
Up(n) == (reg.s + n) % BYTE

Upper(word) == word \div BYTE
Lower(word) == word % BYTE

-----------------------------------------------------------------------------
(* The instructions that work on registers and operands.                   *)

Target == [LDA |-> "a", LDX |-> "x", LDY |-> "y", STA |-> "a", STX |-> "x", STY |-> "y",
           CMP |-> "a", CPX |-> "x", CPY |-> "y", INX |-> "x", DEX |-> "x", INY |-> "y",
           DEY |-> "y"]

elsewhere == <<cart, requests, faulted, events>>

Load == /\ Executes({"LDA", "LDX", "LDY"})
        /\ \E v \in ReadValues(ArgAddress) :
             /\ reg' = [reg EXCEPT ![Target[Entry.instr]] = v]
             /\ p' = ZeroAndNeg(p, v)
        /\ GoesOn /\ Reads(ArgAddress) /\ NoStore
        /\ UNCHANGED elsewhere

Arithmetic == /\ Executes({"ADC", "SBC"})
              /\ \E v \in ReadValues(ArgAddress) :
                   LET result == IF Entry.instr = "ADC" THEN AddWithCarry(reg.a, v, p)
                                 ELSE SubtractWithCarry(reg.a, v, p)
                   IN  /\ reg' = [reg EXCEPT !.a = result.val]
                       /\ p' = result.p
              /\ GoesOn /\ Reads(ArgAddress) /\ NoStore
              /\ UNCHANGED elsewhere

Logical == /\ Executes({"AND", "ORA", "EOR"})
           /\ \E v \in ReadValues(ArgAddress) :
                LET result == Logic(Entry.instr, reg.a, v)
                IN  /\ reg' = [reg EXCEPT !.a = result]
                    /\ p' = ZeroAndNeg(p, result)
           /\ GoesOn /\ Reads(ArgAddress) /\ NoStore
           /\ UNCHANGED elsewhere

Test == /\ Executes({"CMP", "CPX", "CPY", "BIT"})
        /\ \E v \in ReadValues(ArgAddress) :
             p' = IF Entry.instr = "BIT" THEN BitTest(reg.a, v, p)
                  ELSE Compare(reg[Target[Entry.instr]], v, p)
        /\ GoesOn /\ Reads(ArgAddress) /\ NoStore
        /\ UNCHANGED <<reg, elsewhere>>

Store == /\ Executes({"STA", "STX", "STY"})
         /\ Stores(pads, ArgAddress, reg[Target[Entry.instr]])
         /\ GoesOn
         /\ UNCHANGED <<reg, p, elsewhere>>

ModifyAccumulator ==
  /\ Executes({"ASL", "LSR", "ROL", "ROR"}) /\ Accumulator
  /\ LET result == Shift(Entry.instr, reg.a, p)
     IN  /\ reg' = [reg EXCEPT !.a = result.val]
         /\ p' = result.p
  /\ GoesOn /\ NoStore
  /\ UNCHANGED <<pads, elsewhere>>

\* One byte is read, changed and written back.
ModifyMemory ==
  /\ Executes({"ASL", "LSR", "ROL", "ROR", "INC", "DEC"}) /\ ~Accumulator
  /\ \E v \in ReadValues(ArgAddress) :
       LET count  == (IF Entry.instr = "INC" THEN v + 1 ELSE v - 1) % BYTE
           result == IF Entry.instr \in {"INC", "DEC"}
                     THEN [val |-> count, p |-> ZeroAndNeg(p, count)]
                     ELSE Shift(Entry.instr, v, p)
       IN  /\ Stores(PadsAfterRead(ArgAddress), ArgAddress, result.val)
           /\ p' = result.p
  /\ GoesOn
  /\ UNCHANGED <<reg, elsewhere>>

CountRegister ==
  /\ Executes({"INX", "INY", "DEX", "DEY"})
  /\ LET r == Target[Entry.instr]
         v == (IF Entry.instr \in {"INX", "INY"} THEN reg[r] + 1 ELSE reg[r] - 1) % BYTE
     IN  /\ reg' = [reg EXCEPT ![r] = v]
         /\ p' = ZeroAndNeg(p, v)
  /\ GoesOn /\ NoStore
  /\ UNCHANGED <<pads, elsewhere>>

\* From where, to where.
Moves == [TAX |-> <<"a", "x">>, TAY |-> <<"a", "y">>, TXA |-> <<"x", "a">>,
          TYA |-> <<"y", "a">>, TSX |-> <<"s", "x">>, TXS |-> <<"x", "s">>]

Transfer == /\ Executes(DOMAIN Moves)
            /\ LET move == Moves[Entry.instr] IN
                 /\ reg' = [reg EXCEPT ![move[2]] = reg[move[1]]]
                 /\ p' = IF Entry.instr = "TXS" THEN p ELSE ZeroAndNeg(p, reg[move[1]])
            /\ GoesOn /\ NoStore
            /\ UNCHANGED <<pads, elsewhere>>

Raised  == [SEC |-> C, SED |-> D, SEI |-> I]
Cleared == [CLC |-> C, CLD |-> D, CLI |-> I, CLV |-> V]

ChangeFlag == /\ \/ /\ Executes(DOMAIN Raised)
                    /\ p' = p \union {Raised[Entry.instr]}
                 \/ /\ Executes(DOMAIN Cleared)
                    /\ p' = p \ {Cleared[Entry.instr]}
              /\ GoesOn /\ NoStore
              /\ UNCHANGED <<reg, pads, elsewhere>>

\* NOP, and the opcodes that have a mode only.
Idle == /\ Executes({"NOP", "INVALID"})
        /\ GoesOn /\ NoStore
        /\ UNCHANGED <<reg, p, pads, elsewhere>>

-----------------------------------------------------------------------------
(* Branches, jumps and the stack.                                          *)

\* The flag a branch looks at, and what it wants of it.
Condition == [BCC |-> <<C, FALSE>>, BCS |-> <<C, TRUE>>, BNE |-> <<Z, FALSE>>,
              BEQ |-> <<Z, TRUE>>, BPL |-> <<N, FALSE>>, BMI |-> <<N, TRUE>>,
              BVC |-> <<V, FALSE>>, BVS |-> <<V, TRUE>>]

Taken == LET condition == Condition[Entry.instr]
         IN  (condition[1] \in p) = condition[2]

Branch == /\ Executes(DOMAIN Condition)
          /\ \/ /\ Taken
                /\ pc' = ArgAddress
                /\ cycles' = CycleCount + 1 + PageCross(ArgAddress, NextInstruction)
             \/ /\ ~Taken
                /\ GoesOn
          /\ NoStore
          /\ UNCHANGED <<reg, p, pads, elsewhere>>

Jump == /\ Executes({"JMP"})
        /\ pc' = ArgAddress
        /\ cycles' = CycleCount
        /\ NoStore
        /\ UNCHANGED <<reg, p, pads, elsewhere>>

\* The bytes go on the stack, and a frame if they are a return address.
Push(bytes, newFrames) ==
  /\ mem' = Pushed(bytes)
  /\ reg' = [reg EXCEPT !.s = Down(Len(bytes))]
  /\ frames' = Surviving(PushedCells(Len(bytes))) \union newFrames

WholeAddressMutant == NextInstruction

\* What JSR pushes: the last byte of itself.
ReturnMinus1 == (NextInstruction - 1) % WORD

JumpToSubroutine ==
  /\ Executes({"JSR"})
  /\ Push(<<Upper(ReturnMinus1), Lower(ReturnMinus1)>>,
          {[kind |-> "call", low |-> Down(2), high |-> reg.s, pc |-> NextInstruction, p |-> p,
            reg |-> reg]})
  /\ pc' = ArgAddress
  /\ cycles' = CycleCount
  /\ UNCHANGED <<p, pads, elsewhere>>

\* A return takes its frame off the stack.
Unwound == {f \in frames : f.low # reg.s}

ReturnFromSubroutine ==
  /\ Executes({"RTS"})
  /\ pc' = (Popped(1) + BYTE * Popped(2) + 1) % WORD
  /\ reg' = [reg EXCEPT !.s = Up(2)]
  /\ cycles' = CycleCount
  /\ frames' = Unwound
  /\ UNCHANGED <<p, mem, pads, elsewhere>>

ReturnFromInterrupt ==
  /\ Executes({"RTI"})
  /\ p' = Bits(Popped(1)) \union {Expansion}
  /\ pc' = Popped(2) + BYTE * Popped(3)
  /\ reg' = [reg EXCEPT !.s = Up(3)]
  /\ cycles' = CycleCount
  /\ frames' = Unwound
  /\ UNCHANGED <<mem, pads, elsewhere>>

PushRegister == /\ Executes({"PHA", "PHP"})
                /\ Push(<<IF Entry.instr = "PHA" THEN reg.a ELSE ByteOf(p \union {B, Expansion})>>,
                        {})
                /\ GoesOn
                /\ UNCHANGED <<p, pads, elsewhere>>

PullAccumulator == /\ Executes({"PLA"})
                   /\ reg' = [reg EXCEPT !.s = Up(1), !.a = Popped(1)]
                   /\ p' = ZeroAndNeg(p, Popped(1))
                   /\ GoesOn /\ NoStore
                   /\ UNCHANGED <<pads, elsewhere>>

PullStatus == /\ Executes({"PLP"})
              /\ reg' = [reg EXCEPT !.s = Up(1)]
              /\ p' = (Bits(Popped(1)) \ {B}) \union {Expansion}
              /\ GoesOn /\ NoStore
              /\ UNCHANGED <<pads, elsewhere>>

-----------------------------------------------------------------------------
(* Interrupts.                                                             *)

NMI_VECTOR == 65530    \* $FFFA
RESET_VECTOR == 65532  \* $FFFC
IRQ_VECTOR == 65534    \* $FFFE

DisableFirstMutant(vector, returnTo, breaks) ==
  /\ Push(<<Upper(returnTo), Lower(returnTo), ByteOf(p \union breaks \union {I, Expansion})>>,
          {[kind |-> "interrupt", low |-> Down(3), high |-> reg.s, pc |-> returnTo, p |-> p,
            reg |-> reg]})
  /\ p' = p \union {I}
  /\ pc' = GetDWord(vector, FALSE)

\* HandleInterrupt.
HandleInterrupt(vector, returnTo, breaks) ==
  /\ Push(<<Upper(returnTo), Lower(returnTo), ByteOf(p \union breaks \union {Expansion})>>,
          {[kind |-> "interrupt", low |-> Down(3), high |-> reg.s, pc |-> returnTo, p |-> p,
            reg |-> reg]})
  /\ p' = p \union {I}
  /\ pc' = GetDWord(vector, FALSE)

Break == /\ Executes({"BRK"})
         /\ HandleInterrupt(IRQ_VECTOR, NextInstruction, {B})
         /\ cycles' = CycleCount
         /\ UNCHANGED <<pads, elsewhere>>

HandleNmiEvent == /\ ~faulted /\ nmi
                  /\ HandleInterrupt(NMI_VECTOR, pc, {})
                  /\ nmi' = FALSE
                  /\ cycles' = 7
                  /\ UNCHANGED <<cart, pads, irq, faulted, events>>

\* A request that finds interrupts disabled is dropped.
HandleIrqEvent == /\ ~faulted /\ ~nmi /\ irq
                  /\ \/ /\ I \notin p
                        /\ HandleInterrupt(IRQ_VECTOR, pc, {})
                     \/ /\ I \in p
                        /\ UNCHANGED <<pc, reg, p, mem, frames>>
                  /\ irq' = FALSE
                  /\ cycles' = 7
                  /\ UNCHANGED <<cart, pads, nmi, faulted, events>>

-----------------------------------------------------------------------------
(* Steps that execute nothing.                                             *)

\* The byte at PC is skipped, and no cycle passes, if there is one: to report it
\* Step seeks it again.
FailToDecode == /\ CpuRuns /\ ~Decodable /\ Mapped(pc)
                /\ pc' = (pc + 1) % WORD
                /\ cycles' = 0
                /\ UNCHANGED <<busVars, reg, p, requests, faulted, frames, events>>

WithOperand == {"ADC", "AND", "ASL", "BIT", "CMP", "CPX", "CPY", "DEC", "EOR", "INC", "LDA", "LDX",
                "LDY", "LSR", "ORA", "ROL", "ROR", "SBC", "STA", "STX", "STY"}

\* No device answers the operand's address (what the registers are then is not
\* followed), or PC itself, where the message of the failed decoding seeks outside
\* of DecodeInstruction's handler.  Nothing catches it.
Fault == /\ \/ Executes(WithOperand) /\ ~Accumulator /\ ~Mapped(ArgAddress)
            \/ CpuRuns /\ ~Mapped(pc)
         /\ faulted' = TRUE
         /\ UNCHANGED <<busVars, cpuVars, requests, frames, events>>

-----------------------------------------------------------------------------
(* The rest of the console.                                                *)

Event == ~faulted /\ events < cart.budget /\ events' = events + 1

RequestInterrupt == /\ Event
                    /\ \/ ~nmi /\ nmi' = TRUE /\ UNCHANGED irq
                       \/ ~irq /\ irq' = TRUE /\ UNCHANGED nmi
                    /\ UNCHANGED <<busVars, cpuVars, faulted, frames>>

PressButton == /\ Event
               /\ \E controller \in PADS, button \in Buttons :
                    SetKey(controller, button, button \notin pads[controller].pressed)
               /\ UNCHANGED <<cpuVars, requests, faulted, frames>>

\* The status after power on; S is as it was.
StatusAfterPowerOn == {I, B, Expansion}

\* A cartridge is loaded, and Cpu::PowerCycle.
PowerCycle == /\ Event /\ cart.removable
              /\ \E cartridge \in Cartridges : LoadCartridge(cartridge)
              /\ pc' = GetDWord(RESET_VECTOR, FALSE)'
              /\ p' = StatusAfterPowerOn
              /\ reg' = [reg EXCEPT !.a = 0, !.x = 0, !.y = 253]
              /\ cycles' = 0
              /\ frames' = {}
              /\ UNCHANGED <<requests, faulted>>

Init == /\ BusInit
        /\ pc = GetDWord(RESET_VECTOR, FALSE)
        /\ reg = [a |-> 0, x |-> 0, y |-> 253, s |-> 0]
        /\ p = StatusAfterPowerOn
        /\ cycles = 0
        /\ nmi = FALSE /\ irq = FALSE /\ faulted = FALSE
        /\ frames = {}
        /\ events = 0

Instruction == \/ Load \/ Arithmetic \/ Logical \/ Test \/ Store
               \/ ModifyAccumulator \/ ModifyMemory \/ CountRegister
               \/ Transfer \/ ChangeFlag \/ Idle
               \/ Branch \/ Jump \/ JumpToSubroutine \/ ReturnFromSubroutine
               \/ ReturnFromInterrupt \/ PushRegister \/ PullAccumulator
               \/ PullStatus \/ Break

Next == \/ Instruction \/ HandleNmiEvent \/ HandleIrqEvent \/ FailToDecode \/ Fault
        \/ RequestInterrupt \/ PressButton \/ PowerCycle

Spec == Init /\ [][Next]_vars
-----------------------------------------------------------------------------
(* What must hold.                                                         *)

\* An RTS or an RTI that finds S where a call, or an interrupt, has left it and
\* the bytes it needs intact goes back to where the program was, with S as it was
\* and, from an interrupt, with every flag but B, whatever has run in between
\* and however the stack has wrapped (Push, Pop, HandleInterrupt, RTS and RTI).
ReturnsWhereCalled ==
  \A f \in frames :
    f.low = reg.s =>
      /\ ReturnFromSubroutine /\ f.kind = "call" => pc' = f.pc /\ reg'.s = f.high
      /\ ReturnFromInterrupt /\ f.kind = "interrupt" =>
           /\ pc' = f.pc /\ reg'.s = f.high
           /\ p' \ {B} = (f.p \ {B}) \union {Expansion}
ReturnResumes == [][ReturnsWhereCalled]_vars

\* ADC and SBC are exact: carry and accumulator together are the unsigned sum, or
\* difference, with the carry, or the borrow, that came in, and V says that the
\* accumulator, as a signed number, is not the signed one.  The comparisons order
\* their operands (UpdateRegsForOverflow, OverflowNeg and Compaire).
SumExact(v) ==
  /\ reg'.a + BYTE * Carry(p') = reg.a + v + Carry(p)
  /\ V \in p' <=> Signed(reg'.a) # Signed(reg.a) + Signed(v) + Carry(p)
DifferenceExact(v) ==
  /\ reg'.a - BYTE * (1 - Carry(p')) = reg.a - v - (1 - Carry(p))
  /\ V \in p' <=> Signed(reg'.a) # Signed(reg.a) - Signed(v) - (1 - Carry(p))
Ordered(r, v) == (C \in p' <=> r >= v) /\ (Z \in p' <=> r = v)
ArithmeticStep ==
  /\ Arithmetic => /\ \E v \in ReadValues(ArgAddress) :
                        IF Entry.instr = "ADC" THEN SumExact(v) ELSE DifferenceExact(v)
                   /\ Z \in p' <=> reg'.a = 0
                   /\ N \in p' <=> Signed(reg'.a) < 0
  /\ Test /\ Entry.instr # "BIT" =>
       \E v \in ReadValues(ArgAddress) : Ordered(reg[Target[Entry.instr]], v)
ArithmeticExact == [][ArithmeticStep]_vars

\* The step loop of Nes::Step and the DMA count on this: BRK and the bytes that
\* do not decode take no cycle and touch no device, every other step takes two to
\* MaxCycles, and an access to a device register at least four.  (Where nothing
\* answers at PC there is no step to be timed: the emulator ends, by Fault.)
LengthStep ==
  /\ Instruction => /\ cycles' = 0 <=> Entry.instr = "BRK"
                    /\ cycles' \in {0} \union 2 .. MaxCycles
                    /\ Entry.instr \in WithOperand /\ ~Accumulator /\ IsDevice(ArgAddress) =>
                         cycles' >= 4
  /\ FailToDecode => cycles' = 0 /\ UNCHANGED busVars
StepLengths == [][LengthStep]_vars
=============================================================================
