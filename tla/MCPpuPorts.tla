---------------------------- MODULE MCPpuPorts ----------------------------
(* PpuPorts, for a program that accesses the ports MaxOps times.           *)
EXTENDS PpuPorts

CONSTANT MaxOps
VARIABLE ops

MCInitial(a) == a % 251

MCInit == Init /\ ops = 0
MCNext == ops < MaxOps /\ ops' = ops + 1 /\ Next
MCSpec == MCInit /\ [][MCNext]_<<vars, ops>>
===========================================================================
