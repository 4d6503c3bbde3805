----------------------------- MODULE PacketPool -----------------------------
(***************************************************************************)
(* The packet pool of src/dcc/packet.c and who owns its slots.             *)
(*                                                                         *)
(* A packet is a slot of a static array.  packet_alloc marks a free slot   *)
(* in_use and hands out a pointer; from then on the pointer travels        *)
(* through two FreeRTOS queues and the priority heap, and five tasks may   *)
(* free it: the sender whose xQueueSend times out, the priority queue task *)
(* (duplicate, full heap, output timeout) and wavegen.  Nothing but that   *)
(* discipline keeps a slot from being leaked, freed twice or reused while  *)
(* someone still holds its pointer.                                        *)
(*                                                                         *)
(* Of a packet's contents only its repeat count matters here: whether an   *)
(* arriving packet duplicates one in the heap, and which packet is on top, *)
(* are choices.  Module DccPipeline has the contents.                      *)
(***************************************************************************)
EXTENDS Integers, Sequences, FiniteSets

CONSTANTS
    Slots,          \* packet_pool[], PACKET_POOL_SIZE slots
    None,           \* NULL
    InputDepth,     \* PQUEUE_INPUT_DEPTH
    HeapCapacity,   \* PQUEUE_CAPACITY
    OutputDepth,    \* WAVEGEN_QUEUE_DEPTH
    Repeats         \* largest repeat count a packet is built with

ASSUME SlotsAssumption == IsFiniteSet(Slots) /\ None \notin Slots
ASSUME DepthsAssumption ==
    /\ InputDepth \in Nat
    /\ HeapCapacity \in Nat
    /\ OutputDepth \in Nat
    /\ Repeats \in Nat

VARIABLES
    in_use,         \* slot -> allocated
    repeats,        \* slot -> extra copies its packet still asks for
    input_queue,    \* pointers on their way to the priority queue task
    heap,           \* pointers in pq->items
    output_queue,   \* pointers on their way to wavegen
    hand            \* task -> the pointer in its local variable, or NULL

vars == <<in_use, repeats, input_queue, heap, output_queue, hand>>

Senders == {"lcc", "railcom", "reminder"}
Tasks == Senders \union {"pqueue", "wavegen"}

-----------------------------------------------------------------------------

Free == {s \in Slots : ~in_use[s]}

packet_alloc(s, n) ==
    /\ s \in Free
    /\ in_use' = [in_use EXCEPT ![s] = TRUE]
    /\ repeats' = [repeats EXCEPT ![s] = n]

\* Mutant: the slot stays marked in use.
packet_forget(s) == UNCHANGED <<in_use, repeats>>

\* The contents of a free slot are never read; forget them.
packet_free(s) ==
    /\ in_use' = [in_use EXCEPT ![s] = FALSE]
    /\ repeats' = [repeats EXCEPT ![s] = 0]

\* A sender builds a packet with n repeats.
new_packet(t, s, n) ==
    /\ hand[t] = None
    /\ packet_alloc(s, n)
    /\ hand' = [hand EXCEPT ![t] = s]
    /\ UNCHANGED <<input_queue, heap, output_queue>>

send_packet(t) ==
    /\ hand[t] # None
    /\ Len(input_queue) < InputDepth
    /\ input_queue' = Append(input_queue, hand[t])
    /\ hand' = [hand EXCEPT ![t] = None]
    /\ UNCHANGED <<in_use, repeats, heap, output_queue>>

send_packet_timeout(t) ==
    /\ hand[t] # None
    /\ Len(input_queue) >= InputDepth
    /\ packet_free(hand[t])
    /\ hand' = [hand EXCEPT ![t] = None]
    /\ UNCHANGED <<input_queue, heap, output_queue>>

\* Mutant: > for >=.
pqueue_is_overfull == Cardinality(heap) > HeapCapacity

pqueue_is_full == Cardinality(heap) >= HeapCapacity

\* The drain loop frees a duplicate of a packet in the heap, and pqueue_push
\* frees a packet that finds the heap full.
pqueue_drop ==
    /\ hand["pqueue"] = None
    /\ input_queue # <<>>
    /\ heap # {} \/ pqueue_is_full
    /\ input_queue' = Tail(input_queue)
    /\ packet_free(Head(input_queue))
    /\ UNCHANGED <<heap, output_queue, hand>>

pqueue_push ==
    /\ hand["pqueue"] = None
    /\ input_queue # <<>>
    /\ ~pqueue_is_full
    /\ input_queue' = Tail(input_queue)
    /\ heap' = heap \union {Head(input_queue)}
    /\ UNCHANGED <<in_use, repeats, output_queue, hand>>

\* pqueue_pop of a packet with repeats: a copy, in a slot of its own.
pqueue_pop_copy(top, s) ==
    /\ hand["pqueue"] = None
    /\ repeats[top] > 0
    /\ s \in Free
    /\ in_use' = [in_use EXCEPT ![s] = TRUE]
    /\ repeats' = [repeats EXCEPT ![top] = @ - 1, ![s] = 0]
    /\ hand' = [hand EXCEPT !["pqueue"] = s]
    /\ UNCHANGED <<input_queue, heap, output_queue>>

\* Mutant: the packet is returned without being removed.
pqueue_peek_last(top) ==
    /\ hand["pqueue"] = None
    /\ repeats[top] = 0
    /\ hand' = [hand EXCEPT !["pqueue"] = top]
    /\ UNCHANGED <<in_use, repeats, input_queue, heap, output_queue>>

\* pqueue_pop of a packet without: the packet itself leaves the heap.
pqueue_pop_last(top) ==
    /\ hand["pqueue"] = None
    /\ repeats[top] = 0
    /\ heap' = heap \ {top}
    /\ hand' = [hand EXCEPT !["pqueue"] = top]
    /\ UNCHANGED <<in_use, repeats, input_queue, output_queue>>

pqueue_send ==
    /\ hand["pqueue"] # None
    /\ Len(output_queue) < OutputDepth
    /\ output_queue' = Append(output_queue, hand["pqueue"])
    /\ hand' = [hand EXCEPT !["pqueue"] = None]
    /\ UNCHANGED <<in_use, repeats, input_queue, heap>>

pqueue_send_timeout ==
    /\ hand["pqueue"] # None
    /\ Len(output_queue) >= OutputDepth
    /\ packet_free(hand["pqueue"])
    /\ hand' = [hand EXCEPT !["pqueue"] = None]
    /\ UNCHANGED <<input_queue, heap, output_queue>>

wavegen_receive ==
    /\ hand["wavegen"] = None
    /\ output_queue # <<>>
    /\ output_queue' = Tail(output_queue)
    /\ hand' = [hand EXCEPT !["wavegen"] = Head(output_queue)]
    /\ UNCHANGED <<in_use, repeats, input_queue, heap>>

\* wavegen_send, then packet_free.
wavegen_send ==
    /\ hand["wavegen"] # None
    /\ packet_free(hand["wavegen"])
    /\ hand' = [hand EXCEPT !["wavegen"] = None]
    /\ UNCHANGED <<input_queue, heap, output_queue>>

-----------------------------------------------------------------------------

Init ==
    /\ in_use = [s \in Slots |-> FALSE]
    /\ repeats = [s \in Slots |-> 0]
    /\ input_queue = <<>>
    /\ heap = {}
    /\ output_queue = <<>>
    /\ hand = [t \in Tasks |-> None]

Next ==
    \/ \E t \in Senders, s \in Slots, n \in 0..Repeats : new_packet(t, s, n)
    \/ \E t \in Senders : send_packet(t)
    \/ \E t \in Senders : send_packet_timeout(t)
    \/ pqueue_drop
    \/ pqueue_push
    \/ \E top \in heap, s \in Slots : pqueue_pop_copy(top, s)
    \/ \E top \in heap : pqueue_pop_last(top)
    \/ pqueue_send
    \/ pqueue_send_timeout
    \/ wavegen_receive
    \/ wavegen_send

Spec == Init /\ [][Next]_vars

-----------------------------------------------------------------------------
(* Properties *)

\* Every variable has its type and no queue exceeds its depth.
TypeOK ==
    /\ in_use \in [Slots -> BOOLEAN]
    /\ repeats \in [Slots -> 0..Repeats]
    /\ input_queue \in Seq(Slots) /\ Len(input_queue) <= InputDepth
    /\ heap \in SUBSET Slots /\ Cardinality(heap) <= HeapCapacity
    /\ output_queue \in Seq(Slots) /\ Len(output_queue) <= OutputDepth
    /\ hand \in [Tasks -> Slots \union {None}]

Elems(q) == {q[i] : i \in 1..Len(q)}
Distinct(q) == \A i, j \in 1..Len(q) : q[i] = q[j] => i = j

Queued == Elems(input_queue) \union heap \union Elems(output_queue)
HeldBy(h) == {h[t] : t \in Tasks} \ {None}
Apart(h) == \A t, u \in Tasks : t # u /\ h[t] = h[u] => h[t] = None
Held == HeldBy(hand)

\* No pointer is in two places: not twice in a queue, not in two of the
\* queues and the heap, not in two tasks' hands, not both queued and held.
NoSharing ==
    /\ Distinct(input_queue)
    /\ Distinct(output_queue)
    /\ Elems(input_queue) \intersect heap = {}
    /\ Elems(input_queue) \intersect Elems(output_queue) = {}
    /\ heap \intersect Elems(output_queue) = {}
    /\ Held \intersect Queued = {}
    /\ Apart(hand)

\* A slot is in use exactly when its pointer is somewhere: none is leaked by
\* a timeout, a duplicate or a full heap, and none is free, and so handed out
\* again by packet_alloc, while a task or a queue still has its pointer.
NoLeakNoDangling == \A s \in Slots : in_use[s] <=> s \in Queued \union Held

PoolOwnership == NoSharing /\ NoLeakNoDangling

\* The number of slots in use is the number of pointers queued or held: what
\* module DccPipeline counts the pool by.
InUseIsCounted ==
    Cardinality({s \in Slots : in_use[s]}) =
        Len(input_queue) + Cardinality(heap) + Len(output_queue)
        + Cardinality({t \in Tasks : hand[t] # None})
=============================================================================
