--------------------------- MODULE MC_PriorityHeap ---------------------------
(* Eight packets of three priorities in a heap of seven, three full levels.  *)
EXTENDS PriorityHeap

MCPackets == 1..8
MCPriority == [p \in MCPackets |-> CASE p <= 3 -> 25 [] p <= 5 -> 75 [] OTHER -> 100]
=============================================================================
