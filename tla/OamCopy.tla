------------------------------- MODULE OamCopy -------------------------------
(***************************************************************************)
(* What a write to $4014 promises the program running on the console: the  *)
(* N bytes of a CPU page arrive in the PPU's object attribute memory (OAM),*)
(* in order, one at a time, and the program is suspended meanwhile, so     *)
(* every byte that arrives is the byte that the page held when the copy    *)
(* was asked for.  One thing spoils it: a power cycle in the middle of a   *)
(* copy costs the next byte, which arrives as the reset value of the       *)
(* transfer buffer, and the copy then goes on (with the new cartridge).    *)
(***************************************************************************)
EXTENDS Naturals

CONSTANTS N,         \* bytes of OAM, and of one page
          Pages,     \* the values a program writes to $4014
          Bytes,     \* the values a byte can have
          ResetByte, \* the value PowerCycle gives the transfer buffer
          Volatile,  \* device registers: a read gives any byte, or no answer
          Unmapped   \* addresses no device answers

Offsets == 0 .. N-1
Address == Pages \X Offsets
Memory  == Address \ (Volatile \union Unmapped)

VARIABLES mem,     \* RAM and cartridge
          oam,     \* the PPU's object attribute memory
          busy,    \* a copy is under way
          source,  \* its page
          next,    \* the next byte to copy
          torn,    \* a power cycle cost the copy its next byte
          faulted  \* somebody asked for an address no device answers

copyVars == <<mem, oam, busy, source, next, torn, faulted>>

CopyInit == /\ mem \in [Memory -> Bytes]
            /\ oam \in [Offsets -> Bytes]
            /\ busy = FALSE
            /\ source \in Pages
            /\ next \in 0 .. N
            /\ torn = FALSE
            /\ faulted = FALSE

\* The program runs: it writes memory, or one byte of OAM.
Work == /\ ~busy /\ ~faulted
        /\ mem' \in [Memory -> Bytes]
        /\ \/ oam' = oam
           \/ \E i \in Offsets, v \in Bytes : oam' = [oam EXCEPT ![i] = v]
        /\ UNCHANGED <<busy, source, next, torn, faulted>>

Ask(p) == /\ ~busy /\ ~faulted
          /\ busy' = TRUE
          /\ source' = p
          /\ next' = 0
          /\ UNCHANGED <<mem, oam, torn, faulted>>

\* What the bus answers at an address that a device answers.
BusValues(a) == IF a \in Memory THEN {mem[a]} ELSE Bytes

CopyByte == /\ busy /\ ~faulted
            /\ \/ /\ torn
                  /\ oam' = [oam EXCEPT ![next] = ResetByte]
               \/ /\ ~torn
                  /\ <<source, next>> \notin Unmapped
                  /\ \E v \in BusValues(<<source, next>>) :
                       oam' = [oam EXCEPT ![next] = v]
            /\ next' = next + 1
            /\ busy' = (next + 1 < N)
            /\ torn' = FALSE
            /\ UNCHANGED <<mem, source, faulted>>

\* No device answers the copy, or the program: whatever hosts the console is
\* ended.
Fault == /\ ~faulted
         /\ \/ /\ busy /\ ~torn
               /\ <<source, next>> \in Unmapped \union Volatile
               /\ mem' = mem
            \/ /\ ~busy
               /\ mem' \in [Memory -> Bytes]
         /\ faulted' = TRUE
         /\ UNCHANGED <<oam, busy, source, next, torn>>

\* Power cycle, with whatever cartridge is now loaded.
Reset == /\ ~faulted
         /\ mem' \in [Memory -> Bytes]
         /\ torn' = busy
         /\ UNCHANGED <<oam, busy, source, next, faulted>>

CopyNext == \/ Work
            \/ \E p \in Pages : Ask(p)
            \/ CopyByte
            \/ Fault
            \/ Reset

CopySpec == CopyInit /\ [][CopyNext]_copyVars
=============================================================================
