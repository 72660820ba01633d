----------------------------------- MODULE Bus -----------------------------------
(***************************************************************************)
(* The CPU's bus, Dma::Read, Write and Seek, with what it keeps itself:    *)
(* RAM and its mirrors, the cartridge, and the two controllers.  The       *)
(* registers of the PPU and of the APU are the business of other modules:  *)
(* here a read of one gives some byte and a write leaves nothing behind.   *)
(*                                                                         *)
(* Memory holds the cells that have been written, under the first of their *)
(* mirrors; the others are as the cartridge or the zeroed RAM has them.    *)
(***************************************************************************)
EXTENDS Alu, FiniteSets

CONSTANTS Cartridges,  \* records: prgLen, battery, rom (from cells to bytes)
          DeviceBytes, \* what a device register may read as
          Buttons      \* the buttons the user may touch

PRG_SIZE == 32768  \* the largest bank of a program
ASSUME CartridgeAssumption ==
  \A c \in Cartridges : /\ c.prgLen \in 1 .. PRG_SIZE
                        /\ c.battery \in BOOLEAN
                        /\ DOMAIN c.rom \subseteq 32768 .. 32767 + c.prgLen
                        /\ \A cell \in DOMAIN c.rom : c.rom[cell] \in Byte
ASSUME DeviceByteAssumption == DeviceBytes \subseteq Byte
ASSUME ButtonAssumption == Buttons \subseteq 0 .. 7

VARIABLES mem,   \* RAM, PRG ROM and PRG RAM
          cart,  \* Dma::cartridge
          pads   \* ControllerManager: the controllers at $4016 and $4017

busVars == <<mem, cart, pads>>

-----------------------------------------------------------------------------
(* The memory map.                                                         *)

RAM_END == 8192        \* $2000
RAM_SIZE == 2048
PPU_START == 8192      \* $2000 .. $3FFF
APU_START == 16384     \* $4000 .. $4017
PADS == {16406, 16407} \* $4016, $4017
JOYSTICK_STROBE_ADDRESS == 16406
DMA_ADDR == 16404      \* $4014
PRG_RAM == 24576 .. 32767
PRG_START == 32768     \* $8000
PRG_ROM == PRG_START .. WORD - 1

InMemory(address) == \/ address < RAM_END
                     \/ address \in PRG_ROM
                     \/ cart.battery /\ address \in PRG_RAM

\* A controller answers a read of both addresses; a write of the second is the
\* APU's.
IsDevice(address) == address \in PPU_START .. 16383 \/ address \in APU_START .. 16407

Mapped(address) == InMemory(address) \/ IsDevice(address)

\* LowerOffset: the first address that shows the same byte.
Cell(address) == CASE address < RAM_END -> address % RAM_SIZE
                   [] address \in PRG_ROM -> 32768 + ((address - 32768) % cart.prgLen)
                   [] OTHER -> address

Seek(address) == LET cell == Cell(address)
                 IN  CASE cell \in DOMAIN mem -> mem[cell]
                       [] cell \notin DOMAIN mem /\ cell \in DOMAIN cart.rom -> cart.rom[cell]
                       [] OTHER -> 0

-----------------------------------------------------------------------------
(* NesController.                                                          *)

\* The bound at which the index of the next button stops.
PadIndexCap == 8

Pad == [pressed : SUBSET (0 .. 7), latched : SUBSET (0 .. 7), index : 0 .. PadIndexCap,
        strobing : BOOLEAN]

PadAfterPowerOn == [pressed |-> {}, latched |-> {}, index |-> 8, strobing |-> FALSE]

PadSeek(pad) == IF pad.index >= 8 \/ ~pad.strobing \/ pad.index \in pad.latched THEN 65 ELSE 64

PadAfterRead(pad) == [pad EXCEPT !.index = IF pad.index < PadIndexCap THEN pad.index + 1
                                           ELSE PadIndexCap]

KeepIndexMutant(pad, value) ==
  [pad EXCEPT !.latched = pad.pressed, !.strobing = 0 \notin Bits(value)]

\* Any write latches the buttons; reads give them once bit 0 has gone down.
PadAfterWrite(pad, value) ==
  [pad EXCEPT !.latched = pad.pressed, !.index = 0, !.strobing = 0 \notin Bits(value)]

-----------------------------------------------------------------------------
(* Dma::Read and Dma::Write.                                               *)

\* The values a read may give: none where nothing answers, and it throws.
ReadValues(address) == CASE address \in PADS -> {PadSeek(pads[address])}
                         [] address \notin PADS /\ IsDevice(address) -> DeviceBytes
                         [] InMemory(address) -> {Seek(address)}
                         [] OTHER -> {}

PadsAfterRead(address) ==
  IF address \in PADS THEN [pads EXCEPT ![address] = PadAfterRead(@)] ELSE pads

\* What is in `cells' replaces what is in memory.
Overlay(cells) == [c \in DOMAIN mem \union DOMAIN cells |->
                     IF c \in DOMAIN cells THEN cells[c] ELSE mem[c]]

\* The cartridge's ROM is written like its RAM.
MemAfterWrite(address, value) ==
  IF InMemory(address) THEN Overlay([c \in {Cell(address)} |-> value]) ELSE mem

\* The strobe goes to both controllers.
PadsAfterWrite(before, address, value) ==
  IF address = JOYSTICK_STROBE_ADDRESS THEN [a \in PADS |-> PadAfterWrite(before[a], value)]
  ELSE before

-----------------------------------------------------------------------------

BusTypeOK == /\ cart.prgLen \in 1 .. PRG_SIZE /\ cart.battery \in BOOLEAN
             /\ pads \in [PADS -> Pad]
             /\ \A c \in DOMAIN mem : /\ c \in 0 .. RAM_SIZE - 1 \/ c \in PRG_RAM \/ c \in PRG_ROM
                                      /\ mem[c] \in Byte

NoCells == [c \in {} |-> 0]

BusInit == /\ mem = NoCells
           /\ cart \in Cartridges
           /\ pads = [a \in PADS |-> PadAfterPowerOn]

\* ControllerManager::SetKey, from the user.
SetKey(controller, button, isPressed) ==
  /\ pads' = [pads EXCEPT ![controller].pressed = IF isPressed THEN @ \union {button}
                                                  ELSE @ \ {button}]
  /\ UNCHANGED <<mem, cart>>

\* A new cartridge: its ROM, and a new PRG RAM.  RAM keeps what it holds.
LoadCartridge(cartridge) ==
  /\ cart' = cartridge
  /\ mem' = [c \in DOMAIN mem \intersect (0 .. RAM_SIZE - 1) |-> mem[c]]
  /\ UNCHANGED pads
=============================================================================
