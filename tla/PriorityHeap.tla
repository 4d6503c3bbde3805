---------------------------- MODULE PriorityHeap ----------------------------
(***************************************************************************)
(* The binary heap of src/queue/priority_queue.c: the array, the count and *)
(* the sift loops, one iteration per step.  Only task_priority_queue       *)
(* touches it, so nothing interleaves with a loop; the steps are there to  *)
(* state what holds in the middle of one.                                  *)
(*                                                                         *)
(* Module PacketPool shows that a packet in the heap is nowhere else, so a *)
(* packet that is pushed is not already there.  pqueue_pop of a packet     *)
(* with repeats left returns a copy of items[0] and leaves the array       *)
(* alone; it is an action of PacketPool and of DccPipeline.                *)
(***************************************************************************)
EXTENDS Integers, FiniteSets

CONSTANTS
    Packets,    \* pointers to packets
    NULL,
    Priority,   \* packet -> its priority, fixed while it is queued
    Capacity    \* PQUEUE_CAPACITY

ASSUME CapacityAssumption == Capacity \in Nat
ASSUME PriorityAssumption == NULL \notin Packets /\ Priority \in [Packets -> Nat]

VARIABLES
    items,      \* the array
    count,      \* the packets in it
    pc,         \* "ready", or the loop that is running: "up" or "down"
    idx,        \* the loop's position
    out         \* the packet pqueue_pop returned last

vars == <<items, count, pc, idx, out>>

-----------------------------------------------------------------------------

\* The packets in the array.  sift_up runs before count++.
Size == IF pc = "up" THEN count + 1 ELSE count
Contents == {items[i] : i \in 0..(Size - 1)}

Prio(i) == Priority[items[i]]

\* Mutant: the swap without its temporary.
Overwrite(i, j) == items' = [items EXCEPT ![i] = items[j]]

Swap(i, j) == items' = [items EXCEPT ![i] = items[j], ![j] = items[i]]

Parent(i) == (i - 1) \div 2
Left(i) == 2 * i + 1
Right(i) == 2 * i + 2

\* Mutant: the right child is compared with idx, not with the larger so far.
LargestOfPairs(i) ==
    IF Right(i) < count /\ Prio(Right(i)) > Prio(i) THEN Right(i)
    ELSE IF Left(i) < count /\ Prio(Left(i)) > Prio(i) THEN Left(i) ELSE i

\* The one of i and its children that sift_down puts at i.
Largest(i) ==
    LET l == IF Left(i) < count /\ Prio(Left(i)) > Prio(i) THEN Left(i) ELSE i
    IN  IF Right(i) < count /\ Prio(Right(i)) > Prio(l) THEN Right(i) ELSE l

-----------------------------------------------------------------------------

\* Mutant: > for >=.
pqueue_is_overfull == count > Capacity

pqueue_is_full == count >= Capacity

\* A packet that finds the heap full is freed.
pqueue_push(p) ==
    /\ pc = "ready"
    /\ p \notin Contents
    /\ IF pqueue_is_full
       THEN UNCHANGED vars
       ELSE /\ items' = [items EXCEPT ![count] = p]
            /\ pc' = "up"
            /\ idx' = count
            /\ UNCHANGED <<count, out>>

\* The loop goes on: the packet is higher than its parent.
Rises == idx > 0 /\ Prio(idx) > Prio(Parent(idx))

\* Mutant: only one level.
sift_up_once ==
    /\ pc = "up"
    /\ IF Rises THEN Swap(idx, Parent(idx)) ELSE UNCHANGED items
    /\ count' = count + 1
    /\ pc' = "ready"
    /\ idx' = 0
    /\ UNCHANGED out

sift_up ==
    /\ pc = "up"
    /\ \/ /\ ~Rises
          /\ count' = count + 1
          /\ pc' = "ready"
          /\ idx' = 0
          /\ UNCHANGED <<items, out>>
       \/ /\ Rises
          /\ Swap(idx, Parent(idx))
          /\ idx' = Parent(idx)
          /\ UNCHANGED <<count, pc, out>>

\* pqueue_pop and its remove_top: the last packet takes the root's place.
pqueue_pop ==
    /\ pc = "ready"
    /\ count > 0
    /\ out' = items[0]
    /\ count' = count - 1
    /\ items' = [items EXCEPT ![0] = items[count - 1], ![count - 1] = NULL]
    /\ pc' = IF count > 1 THEN "down" ELSE "ready"
    /\ UNCHANGED idx

sift_down ==
    /\ pc = "down"
    /\ \/ /\ Largest(idx) = idx
          /\ pc' = "ready"
          /\ idx' = 0
          /\ UNCHANGED <<items, count, out>>
       \/ /\ Largest(idx) # idx
          /\ Swap(idx, Largest(idx))
          /\ idx' = Largest(idx)
          /\ UNCHANGED <<count, pc, out>>

Init ==
    /\ items = [i \in 0..(Capacity - 1) |-> NULL]
    /\ count = 0
    /\ pc = "ready"
    /\ idx = 0
    /\ out = NULL

Next ==
    \/ \E p \in Packets : pqueue_push(p)
    \/ sift_up
    \/ pqueue_pop
    \/ sift_down

Spec == Init /\ [][Next]_vars

-----------------------------------------------------------------------------
(* Properties *)

\* Every variable has its type, and a loop stays within the array.
TypeOK ==
    /\ items \in [0..(Capacity - 1) -> Packets \union {NULL}]
    /\ count \in 0..Capacity
    /\ pc \in {"ready", "up", "down"}
    /\ idx \in Nat
    /\ out \in Packets \union {NULL}
    /\ pc = "ready" => idx = 0
    /\ pc = "up" => count < Capacity /\ idx <= count
    /\ pc = "down" => idx < count

\* The array holds count different packets, and NULL after them: no swap and
\* no removal duplicates or drops a pointer.
NoPointerLost ==
    /\ \A i \in 0..(Size - 1) : items[i] # NULL
    /\ \A i, j \in 0..(Size - 1) : items[i] = items[j] => i = j
    /\ \A i \in Size..(Capacity - 1) : items[i] = NULL

Ordered(i) == Prio(i) <= Prio(Parent(i))

\* The children of the loop's packet are no higher than its parent.
Bridged == idx > 0 => \A i \in 1..(Size - 1) : Parent(i) = idx => Prio(i) <= Prio(Parent(idx))

\* No packet is higher than its parent, but for the one packet the running
\* loop is moving: sift_up may find it higher than its parent, sift_down may
\* find a child higher than it.
HeapOrder ==
    /\ pc = "ready" => \A i \in 1..(Size - 1) : Ordered(i)
    /\ pc = "up" => Bridged /\ \A i \in 1..(Size - 1) : i # idx => Ordered(i)
    /\ pc = "down" => Bridged /\ \A i \in 1..(Size - 1) : Parent(i) # idx => Ordered(i)

\* The next packet out: where the running loop will leave the top.
Top ==
    IF Size = 0 THEN NULL
    ELSE IF pc = "up" /\ Prio(idx) > Prio(0) THEN items[idx]
    ELSE IF pc = "down" /\ idx = 0 THEN items[Largest(0)]
    ELSE items[0]

\* The array implements the bounded set with a top of the highest priority
\* that PriorityQueue promises: an emergency packet leaves before any other.
Abstract == INSTANCE PriorityQueue WITH heap <- Contents, top <- Top
ImplementsPriorityQueue == Abstract!Spec
=============================================================================
