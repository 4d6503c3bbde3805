--------------------------- MODULE PriorityQueue ---------------------------
(***************************************************************************)
(* What the heap of src/queue/priority_queue.c promises its task: a        *)
(* bounded set of packets with one of the highest priority on top.  A      *)
(* newcomer takes the top only with a strictly higher priority; which of   *)
(* several equal packets follows a popped one is not promised.  Module     *)
(* DccPipeline uses the queue in this form; module PriorityHeap implements *)
(* it.                                                                     *)
(***************************************************************************)
EXTENDS Integers, FiniteSets

CONSTANTS
    Packets,    \* pointers to packets
    NULL,
    Priority,   \* packet -> its priority, fixed while it is queued
    Capacity    \* PQUEUE_CAPACITY

VARIABLES
    heap,       \* the packets in the queue
    top,        \* the next packet out, NULL when there is none
    out         \* the packet popped last

vars == <<heap, top, out>>

Highest(S) == {p \in S : \A q \in S : Priority[q] <= Priority[p]}

Push(p) ==
    /\ p \notin heap
    /\ Cardinality(heap) < Capacity
    /\ heap' = heap \union {p}
    /\ top' = IF heap = {} \/ Priority[p] > Priority[top] THEN p ELSE top
    /\ out' = out

Pop ==
    /\ heap # {}
    /\ out' = top
    /\ heap' = heap \ {top}
    /\ IF heap' = {} THEN top' = NULL ELSE top' \in Highest(heap')

Init == heap = {} /\ top = NULL /\ out = NULL

Next == (\E p \in Packets : Push(p)) \/ Pop

Spec == Init /\ [][Next]_vars
=============================================================================
