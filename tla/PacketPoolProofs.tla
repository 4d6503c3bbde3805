-------------------------- MODULE PacketPoolProofs --------------------------
(***************************************************************************)
(* Proofs about module PacketPool: for every pool size, queue depth, heap  *)
(* capacity and repeat count, the variables keep their types and a pool    *)
(* slot is in use exactly when one queue, the heap or one task has its     *)
(* pointer.                                                                *)
(***************************************************************************)
EXTENDS PacketPool, FiniteSetTheorems, TLAPS

\* Adding an element makes a set at most one larger.
LEMMA PushCardinality ==
    ASSUME NEW S, IsFiniteSet(S), NEW x
    PROVE  /\ IsFiniteSet(S \union {x})
           /\ Cardinality(S \union {x}) \in Nat
           /\ Cardinality(S \union {x}) <= Cardinality(S) + 1
<1>1. Cardinality(S) \in Nat /\ IsFiniteSet(S \union {x})
  BY FS_CardinalityType, FS_AddElement
<1>2. x \in S => S \union {x} = S
  OBVIOUS
<1>3. QED  BY <1>1, <1>2, FS_AddElement, FS_CardinalityType

\* Removing an element makes it one smaller.
LEMMA PopCardinality ==
    ASSUME NEW S, IsFiniteSet(S), NEW x \in S
    PROVE  /\ IsFiniteSet(S \ {x})
           /\ Cardinality(S \ {x}) \in Nat
           /\ Cardinality(S \ {x}) = Cardinality(S) - 1
<1>1. Cardinality(S) \in Nat /\ Cardinality(S \ {x}) = Cardinality(S) - 1
      /\ IsFiniteSet(S \ {x})
  BY FS_CardinalityType, FS_RemoveElement
<1>2. QED  BY <1>1, FS_CardinalityType

(* Queues: what Append and Tail do to the elements of a duplicate-free     *)
(* sequence.                                                               *)

\* Sending to a queue adds the pointer to its elements.
LEMMA AppendElems ==
    ASSUME NEW S, NEW q \in Seq(S), NEW x \in S
    PROVE  /\ Elems(Append(q, x)) = Elems(q) \union {x}
           /\ Distinct(q) /\ x \notin Elems(q) => Distinct(Append(q, x))
<1> DEFINE r == Append(q, x)
<1>1. /\ r \in Seq(S)
      /\ Len(r) = Len(q) + 1
      /\ Len(q) \in Nat
      /\ \A i \in 1..Len(q) : r[i] = q[i]
      /\ r[Len(q) + 1] = x
  OBVIOUS
<1> HIDE DEF r
<1>2. Elems(r) = Elems(q) \union {x}
  BY <1>1 DEF Elems
<1>3. ASSUME Distinct(q), x \notin Elems(q) PROVE Distinct(r)
  BY <1>1, <1>3 DEF Elems, Distinct
<1>4. QED  BY <1>2, <1>3 DEF r

\* Receiving from a duplicate-free queue removes exactly its head.
LEMMA TailElems ==
    ASSUME NEW S, NEW q \in Seq(S), q # <<>>, Distinct(q)
    PROVE  /\ Head(q) \in Elems(q)
           /\ Elems(Tail(q)) = Elems(q) \ {Head(q)}
           /\ Distinct(Tail(q))
<1> DEFINE r == Tail(q)
<1>1. /\ r \in Seq(S)
      /\ Len(q) \in Nat \ {0}
      /\ Len(r) = Len(q) - 1
      /\ \A i \in 1..Len(r) : r[i] = q[i + 1]
      /\ Head(q) = q[1]
  OBVIOUS
<1> HIDE DEF r
<1>2. Head(q) \in Elems(q)
  BY <1>1 DEF Elems
<1>3. Distinct(r)
  BY <1>1 DEF Distinct
<1>4. Elems(r) \subseteq Elems(q) \ {Head(q)}
  BY <1>1 DEF Elems, Distinct
<1>5. ASSUME NEW x \in Elems(q) \ {Head(q)} PROVE x \in Elems(r)
  <2>1. PICK i \in 1..Len(q) : q[i] = x  BY DEF Elems
  <2>2. i - 1 \in 1..Len(r) /\ r[i - 1] = x  BY <2>1, <1>1
  <2>3. QED  BY <2>2 DEF Elems
<1>6. QED  BY <1>2, <1>3, <1>4, <1>5 DEF r

(* Hands: a task takes a pointer into its local variable and lets it go.   *)

\* A task whose hand is empty takes a pointer no other task holds.
LEMMA TakeInHand ==
    ASSUME hand \in [Tasks -> Slots \union {None}], NEW t \in Tasks, NEW s \in Slots,
           hand[t] = None, s \notin Held, Apart(hand),
           hand' = [hand EXCEPT ![t] = s]
    PROVE  Held' = Held \union {s} /\ Apart(hand)'
BY SlotsAssumption DEF Held, HeldBy, Apart

\* A task lets go of the pointer it holds.
LEMMA LetGo ==
    ASSUME NEW h \in [Tasks -> Slots \union {None}], NEW t \in Tasks,
           h[t] # None, Apart(h),
           NEW g, g = [h EXCEPT ![t] = None]
    PROVE  /\ g \in [Tasks -> Slots \union {None}]
           /\ h[t] \in HeldBy(h) /\ h[t] \in Slots
           /\ HeldBy(g) = HeldBy(h) \ {h[t]}
           /\ Apart(g)
BY SlotsAssumption DEF HeldBy, Apart

-----------------------------------------------------------------------------
(* Types *)

\* TypeOK is inductive by itself.
THEOREM TypeCorrect == Spec => []TypeOK
<1>1. Init => TypeOK
  BY FS_EmptySet, DepthsAssumption DEF Init, TypeOK
<1>2. TypeOK /\ [Next]_vars => TypeOK'
  <2> SUFFICES ASSUME TypeOK, [Next]_vars PROVE TypeOK'
    OBVIOUS
  <2> USE SlotsAssumption, DepthsAssumption DEF TypeOK
  <2> IsFiniteSet(heap) /\ Cardinality(heap) \in Nat
    BY FS_Subset, FS_CardinalityType
  <2>1. ASSUME NEW t \in Senders, NEW s \in Slots, NEW n \in 0..Repeats, new_packet(t, s, n)
        PROVE  TypeOK'
    BY <2>1 DEF new_packet, packet_alloc, Free, Senders, Tasks
  <2>2. ASSUME NEW t \in Senders, send_packet(t) PROVE TypeOK'
    <3>1. hand[t] \in Slots  BY <2>2 DEF send_packet, Senders, Tasks
    <3>2. /\ Append(input_queue, hand[t]) \in Seq(Slots)
          /\ Len(Append(input_queue, hand[t])) = Len(input_queue) + 1
      BY <3>1
    <3>3. input_queue' \in Seq(Slots) /\ Len(input_queue') <= InputDepth
      BY <2>2, <3>2 DEF send_packet
    <3>4. hand' \in [Tasks -> Slots \union {None}]
      BY <2>2 DEF send_packet
    <3>5. QED  BY <2>2, <3>3, <3>4 DEF send_packet
  <2>3. ASSUME NEW t \in Senders, send_packet_timeout(t) PROVE TypeOK'
    BY <2>3 DEF send_packet_timeout, packet_free, Senders, Tasks
  <2>4. CASE pqueue_drop
    BY <2>4 DEF pqueue_drop, packet_free
  <2>5. CASE pqueue_push
    <3>1. Head(input_queue) \in Slots /\ Tail(input_queue) \in Seq(Slots)
          /\ Len(Tail(input_queue)) <= InputDepth
      BY <2>5 DEF pqueue_push
    <3>2. heap' = heap \union {Head(input_queue)} /\ Cardinality(heap) < HeapCapacity
      BY <2>5 DEF pqueue_push, pqueue_is_full
    <3>3. Cardinality(heap') <= HeapCapacity
      <4>1. /\ Cardinality(heap \union {Head(input_queue)}) \in Nat
            /\ Cardinality(heap \union {Head(input_queue)}) <= Cardinality(heap) + 1
        BY PushCardinality, Zenon
      <4>2. QED  BY <3>2, <4>1
    <3>4. QED  BY <2>5, <3>1, <3>3 DEF pqueue_push
  <2>6. ASSUME NEW top \in heap, NEW s \in Slots, pqueue_pop_copy(top, s) PROVE TypeOK'
    <3>1. top \in Slots /\ repeats[top] - 1 \in 0..Repeats /\ 0 \in 0..Repeats
      BY <2>6 DEF pqueue_pop_copy
    <3>2. repeats' \in [Slots -> 0..Repeats]
      BY <2>6, <3>1 DEF pqueue_pop_copy
    <3>3. QED  BY <2>6, <3>2 DEF pqueue_pop_copy, Tasks
  <2>7. ASSUME NEW top \in heap, pqueue_pop_last(top) PROVE TypeOK'
    <3>1. Cardinality(heap') <= HeapCapacity
      <4>1. /\ Cardinality(heap \ {top}) \in Nat
            /\ Cardinality(heap \ {top}) = Cardinality(heap) - 1
        BY PopCardinality, Zenon
      <4>2. QED  BY <2>7, <4>1 DEF pqueue_pop_last
    <3>2. QED  BY <2>7, <3>1 DEF pqueue_pop_last, Tasks
  <2>8. CASE pqueue_send
    <3>1. hand["pqueue"] \in Slots  BY <2>8 DEF pqueue_send, Tasks
    <3>2. QED  BY <2>8, <3>1 DEF pqueue_send, Tasks
  <2>9. CASE pqueue_send_timeout
    BY <2>9 DEF pqueue_send_timeout, packet_free, Tasks
  <2>10. CASE wavegen_receive
    BY <2>10 DEF wavegen_receive, Tasks
  <2>11. CASE wavegen_send
    BY <2>11 DEF wavegen_send, packet_free, Tasks
  <2>12. CASE UNCHANGED vars
    BY <2>12 DEF vars
  <2>13. QED
    BY <2>1, <2>2, <2>3, <2>4, <2>5, <2>6, <2>7, <2>8, <2>9, <2>10, <2>11, <2>12 DEF Next
<1>3. QED  BY <1>1, <1>2, PTL DEF Spec

-----------------------------------------------------------------------------
(* Ownership *)

\* The inductive invariant: NoSharing speaks of the pointers in flight and
\* NoLeakNoDangling of in_use; neither is inductive without the other, since
\* packet_alloc trusts in_use and packet_free trusts that no one else holds
\* the pointer.
IInv == TypeOK /\ PoolOwnership

\* PoolOwnership in terms of where the pointers are.
Places(I, H, O, D) ==
    /\ I \intersect H = {} /\ I \intersect O = {} /\ H \intersect O = {}
    /\ D \intersect I = {} /\ D \intersect H = {} /\ D \intersect O = {}
    /\ \A s \in Slots : in_use[s] <=> s \in I \union H \union O \union D

\* PoolOwnership says that the places of the pointers are apart, that no queue
\* has a pointer twice and that no two tasks hold one.
LEMMA OwnershipByPlace ==
    PoolOwnership <=>
        /\ Places(Elems(input_queue), heap, Elems(output_queue), Held)
        /\ Distinct(input_queue) /\ Distinct(output_queue) /\ Apart(hand)
BY DEF PoolOwnership, NoSharing, NoLeakNoDangling, Queued, Places

\* Every operation on the pool, the queues and the heap keeps each slot in
\* use owned by exactly one place, whatever the depths and the pool size.
THEOREM Ownership == Spec => []PoolOwnership
<1>1. Init => IInv
  <2> SUFFICES ASSUME Init PROVE IInv
    OBVIOUS
  <2>1. TypeOK
    BY FS_EmptySet, DepthsAssumption DEF Init, TypeOK
  <2>2. PoolOwnership
    BY DEF Init, PoolOwnership, NoSharing, NoLeakNoDangling, Queued, Held, HeldBy, Apart,
           Elems, Distinct
  <2>3. QED  BY <2>1, <2>2 DEF IInv
<1>2. PoolOwnership /\ TypeOK /\ [Next]_vars => PoolOwnership'
  <2> SUFFICES ASSUME PoolOwnership, TypeOK, [Next]_vars PROVE PoolOwnership'
    OBVIOUS
  <2> DEFINE I == Elems(input_queue)
             O == Elems(output_queue)
  <2>a. /\ Places(I, heap, O, Held)
        /\ Distinct(input_queue) /\ Distinct(output_queue) /\ Apart(hand)
    BY OwnershipByPlace
  <2>b. SUFFICES /\ Places(I, heap, O, Held)'
                 /\ Distinct(input_queue)' /\ Distinct(output_queue)' /\ Apart(hand)'
    BY DEF PoolOwnership, NoSharing, NoLeakNoDangling, Queued, Places
  <2>t. /\ in_use \in [Slots -> BOOLEAN]
        /\ input_queue \in Seq(Slots) /\ output_queue \in Seq(Slots)
        /\ heap \subseteq Slots
        /\ hand \in [Tasks -> Slots \union {None}]
        /\ Senders \subseteq Tasks /\ "pqueue" \in Tasks /\ "wavegen" \in Tasks
    BY DEF TypeOK, Tasks
  <2> HIDE DEF I, O
  <2>1. ASSUME NEW t \in Senders, NEW s \in Slots, NEW n \in 0..Repeats, new_packet(t, s, n)
        PROVE  /\ Places(I, heap, O, Held)'
               /\ Distinct(input_queue)' /\ Distinct(output_queue)' /\ Apart(hand)'
    <3>1. s \notin I \union heap \union O \union Held
      BY <2>1, <2>a DEF new_packet, packet_alloc, Free, Places
    <3>2. Held' = Held \union {s} /\ Apart(hand)'
      <4>1. /\ t \in Tasks /\ s \in Slots /\ hand[t] = None
            /\ s \notin Held /\ hand' = [hand EXCEPT ![t] = s]
        BY <2>1, <2>t, <3>1 DEF new_packet
      <4>2. QED  BY <4>1, <2>a, <2>t, TakeInHand
    <3>3. I' = I /\ O' = O /\ heap' = heap /\ Distinct(input_queue)' /\ Distinct(output_queue)'
      BY <2>1, <2>a DEF new_packet, I, O
    <3>4. \A r \in Slots : in_use'[r] <=> (in_use[r] \/ r = s)
      BY <2>1, <2>t DEF new_packet, packet_alloc
    <3>5. QED  BY <2>a, <3>1, <3>2, <3>3, <3>4 DEF Places
  <2>2. ASSUME NEW t \in Senders, send_packet(t)
        PROVE  /\ Places(I, heap, O, Held)'
               /\ Distinct(input_queue)' /\ Distinct(output_queue)' /\ Apart(hand)'
    <3>1. /\ hand[t] \in Slots /\ hand[t] \in Held
          /\ Held' = Held \ {hand[t]} /\ Apart(hand)'
      BY <2>2, <2>a, <2>t, LetGo DEF send_packet, Held
    <3>2. hand[t] \notin I  BY <3>1, <2>a DEF Places
    <3>3. I' = I \union {hand[t]} /\ Distinct(input_queue)'
      BY <2>2, <2>a, <2>t, <3>1, <3>2, AppendElems DEF send_packet, I
    <3>4. O' = O /\ heap' = heap /\ in_use' = in_use /\ Distinct(output_queue)'
      BY <2>2, <2>a DEF send_packet, O
    <3>5. QED  BY <2>a, <3>1, <3>2, <3>3, <3>4 DEF Places
  <2>3. ASSUME NEW t \in Senders, send_packet_timeout(t)
        PROVE  /\ Places(I, heap, O, Held)'
               /\ Distinct(input_queue)' /\ Distinct(output_queue)' /\ Apart(hand)'
    <3>1. /\ hand[t] \in Slots /\ hand[t] \in Held
          /\ Held' = Held \ {hand[t]} /\ Apart(hand)'
      BY <2>3, <2>a, <2>t, LetGo DEF send_packet_timeout, Held
    <3>2. I' = I /\ O' = O /\ heap' = heap /\ Distinct(input_queue)' /\ Distinct(output_queue)'
      BY <2>3, <2>a DEF send_packet_timeout, I, O
    <3>3. \A r \in Slots : in_use'[r] <=> (in_use[r] /\ r # hand[t])
      BY <2>3, <2>t DEF send_packet_timeout, packet_free
    <3>4. QED  BY <2>a, <3>1, <3>2, <3>3 DEF Places
  <2>4. CASE pqueue_drop
    <3> DEFINE x == Head(input_queue)
    <3>1. x \in I /\ I' = I \ {x} /\ Distinct(input_queue)'
      BY <2>4, <2>a, <2>t, TailElems DEF pqueue_drop, I
    <3>2. O' = O /\ heap' = heap /\ Held' = Held /\ Distinct(output_queue)' /\ Apart(hand)'
      BY <2>4, <2>a DEF pqueue_drop, O, Held
    <3>3. \A r \in Slots : in_use'[r] <=> (in_use[r] /\ r # x)
      BY <2>4, <2>t DEF pqueue_drop, packet_free
    <3>4. QED  BY <2>a, <3>1, <3>2, <3>3 DEF Places
  <2>5. CASE pqueue_push
    <3> DEFINE x == Head(input_queue)
    <3>1. x \in I /\ I' = I \ {x} /\ Distinct(input_queue)'
      BY <2>5, <2>a, <2>t, TailElems DEF pqueue_push, I
    <3>2. O' = O /\ Held' = Held /\ Distinct(output_queue)' /\ Apart(hand)'
          /\ heap' = heap \union {x} /\ in_use' = in_use
      BY <2>5, <2>a DEF pqueue_push, O, Held
    <3>3. QED  BY <2>a, <3>1, <3>2 DEF Places
  <2>6. ASSUME NEW top \in heap, NEW s \in Slots, pqueue_pop_copy(top, s)
        PROVE  /\ Places(I, heap, O, Held)'
               /\ Distinct(input_queue)' /\ Distinct(output_queue)' /\ Apart(hand)'
    <3>1. s \notin I \union heap \union O \union Held
      BY <2>6, <2>a DEF pqueue_pop_copy, Free, Places
    <3>2. Held' = Held \union {s} /\ Apart(hand)'
      <4>1. /\ "pqueue" \in Tasks /\ s \in Slots /\ hand["pqueue"] = None
            /\ s \notin Held /\ hand' = [hand EXCEPT !["pqueue"] = s]
        BY <2>6, <2>t, <3>1 DEF pqueue_pop_copy
      <4>2. QED  BY <4>1, <2>a, <2>t, TakeInHand
    <3>3. I' = I /\ O' = O /\ heap' = heap /\ Distinct(input_queue)' /\ Distinct(output_queue)'
      BY <2>6, <2>a DEF pqueue_pop_copy, I, O
    <3>4. \A r \in Slots : in_use'[r] <=> (in_use[r] \/ r = s)
      BY <2>6, <2>t DEF pqueue_pop_copy
    <3>5. QED  BY <2>a, <3>1, <3>2, <3>3, <3>4 DEF Places
  <2>7. ASSUME NEW top \in heap, pqueue_pop_last(top)
        PROVE  /\ Places(I, heap, O, Held)'
               /\ Distinct(input_queue)' /\ Distinct(output_queue)' /\ Apart(hand)'
    <3>1. top \in Slots /\ top \notin Held  BY <2>a, <2>t DEF Places
    <3>2. Held' = Held \union {top} /\ Apart(hand)'
      <4>1. /\ "pqueue" \in Tasks /\ top \in Slots /\ hand["pqueue"] = None
            /\ top \notin Held /\ hand' = [hand EXCEPT !["pqueue"] = top]
        BY <2>7, <2>t, <3>1 DEF pqueue_pop_last
      <4>2. QED  BY <4>1, <2>a, <2>t, TakeInHand
    <3>3. I' = I /\ O' = O /\ Distinct(input_queue)' /\ Distinct(output_queue)'
          /\ heap' = heap \ {top} /\ in_use' = in_use
      BY <2>7, <2>a DEF pqueue_pop_last, I, O
    <3>4. QED  BY <2>a, <3>1, <3>2, <3>3 DEF Places
  <2>8. CASE pqueue_send
    <3> DEFINE x == hand["pqueue"]
    <3>1. x \in Slots /\ x \in Held /\ Held' = Held \ {x} /\ Apart(hand)'
      BY <2>8, <2>a, <2>t, LetGo DEF pqueue_send, Held
    <3>2. x \notin O  BY <3>1, <2>a DEF Places
    <3>3. O' = O \union {x} /\ Distinct(output_queue)'
      BY <2>8, <2>a, <2>t, <3>1, <3>2, AppendElems DEF pqueue_send, O
    <3>4. I' = I /\ heap' = heap /\ in_use' = in_use /\ Distinct(input_queue)'
      BY <2>8, <2>a DEF pqueue_send, I
    <3>5. QED  BY <2>a, <3>1, <3>2, <3>3, <3>4 DEF Places
  <2>9. CASE pqueue_send_timeout
    <3> DEFINE x == hand["pqueue"]
    <3>1. x \in Slots /\ x \in Held /\ Held' = Held \ {x} /\ Apart(hand)'
      BY <2>9, <2>a, <2>t, LetGo DEF pqueue_send_timeout, Held
    <3>2. I' = I /\ O' = O /\ heap' = heap /\ Distinct(input_queue)' /\ Distinct(output_queue)'
      BY <2>9, <2>a DEF pqueue_send_timeout, I, O
    <3>3. \A r \in Slots : in_use'[r] <=> (in_use[r] /\ r # x)
      BY <2>9, <2>t DEF pqueue_send_timeout, packet_free
    <3>4. QED  BY <2>a, <3>1, <3>2, <3>3 DEF Places
  <2>10. CASE wavegen_receive
    <3> DEFINE x == Head(output_queue)
    <3>1. x \in O /\ O' = O \ {x} /\ Distinct(output_queue)'
      BY <2>10, <2>a, <2>t, TailElems DEF wavegen_receive, O
    <3>2. x \in Slots /\ x \notin Held
      BY <2>10, <2>a, <2>t, <3>1 DEF wavegen_receive, Places
    <3>3. Held' = Held \union {x} /\ Apart(hand)'
      <4>1. /\ "wavegen" \in Tasks /\ x \in Slots /\ hand["wavegen"] = None
            /\ x \notin Held /\ hand' = [hand EXCEPT !["wavegen"] = x]
        BY <2>10, <2>t, <3>2 DEF wavegen_receive
      <4>2. QED  BY <4>1, <2>a, <2>t, TakeInHand
    <3>4. I' = I /\ heap' = heap /\ in_use' = in_use /\ Distinct(input_queue)'
      BY <2>10, <2>a DEF wavegen_receive, I
    <3>5. QED  BY <2>a, <3>1, <3>2, <3>3, <3>4 DEF Places
  <2>11. CASE wavegen_send
    <3> DEFINE x == hand["wavegen"]
    <3>1. x \in Slots /\ x \in Held /\ Held' = Held \ {x} /\ Apart(hand)'
      BY <2>11, <2>a, <2>t, LetGo DEF wavegen_send, Held
    <3>2. I' = I /\ O' = O /\ heap' = heap /\ Distinct(input_queue)' /\ Distinct(output_queue)'
      BY <2>11, <2>a DEF wavegen_send, I, O
    <3>3. \A r \in Slots : in_use'[r] <=> (in_use[r] /\ r # x)
      BY <2>11, <2>t DEF wavegen_send, packet_free
    <3>4. QED  BY <2>a, <3>1, <3>2, <3>3 DEF Places
  <2>12. CASE UNCHANGED vars
    BY <2>12, <2>a DEF vars, I, O, Held, Places
  <2>13. QED
    BY <2>1, <2>2, <2>3, <2>4, <2>5, <2>6, <2>7, <2>8, <2>9, <2>10, <2>11, <2>12 DEF Next
<1>3. QED  BY <1>1, <1>2, TypeCorrect, PTL DEF Spec, IInv

-----------------------------------------------------------------------------
(* Counting *)

\* Two finite sets that are apart add up.
LEMMA ApartAddUp ==
    ASSUME NEW S, NEW T, IsFiniteSet(S), IsFiniteSet(T), S \intersect T = {}
    PROVE  /\ IsFiniteSet(S \union T)
           /\ Cardinality(S \union T) = Cardinality(S) + Cardinality(T)
<1>1. /\ IsFiniteSet(S \union T)
      /\ Cardinality(S \union T) = Cardinality(S) + Cardinality(T) - Cardinality(S \intersect T)
  BY FS_Union
<1>2. Cardinality(S \intersect T) = 0
  BY FS_EmptySet, Zenon
<1>3. Cardinality(S) \in Nat /\ Cardinality(T) \in Nat
  BY FS_CardinalityType
<1>4. QED  BY <1>1, <1>2, <1>3

\* A function that takes no value twice has as many values as arguments.
LEMMA OneToOneCount ==
    ASSUME NEW S, NEW T, IsFiniteSet(S), NEW f \in [S -> T],
           \A x, y \in S : f[x] = f[y] => x = y,
           \A t \in T : \E x \in S : f[x] = t
    PROVE  IsFiniteSet(T) /\ Cardinality(T) = Cardinality(S)
<1>1. f \in Bijection(S, T)
  BY DEF Bijection, Injection, Surjection, IsInjective
<1>2. ExistsBijection(S, T)
  BY <1>1, Zenon DEF ExistsBijection
<1>3. QED  BY <1>2, FS_Bijection

\* A queue without duplicates has as many pointers as places.
LEMMA QueueCount ==
    ASSUME NEW S, NEW q \in Seq(S), Distinct(q)
    PROVE  IsFiniteSet(Elems(q)) /\ Cardinality(Elems(q)) = Len(q)
<1> DEFINE f == [i \in 1..Len(q) |-> q[i]]
<1>1. Len(q) \in Nat
  OBVIOUS
<1>2. IsFiniteSet(1..Len(q)) /\ Cardinality(1..Len(q)) = Len(q)
  BY <1>1, FS_Interval
<1>3. /\ f \in [1..Len(q) -> Elems(q)]
      /\ \A i, j \in 1..Len(q) : f[i] = f[j] => i = j
      /\ \A x \in Elems(q) : \E i \in 1..Len(q) : f[i] = x
  BY DEF Elems, Distinct
<1> HIDE DEF f
<1>4. IsFiniteSet(Elems(q)) /\ Cardinality(Elems(q)) = Cardinality(1..Len(q))
  BY <1>2, <1>3, OneToOneCount
<1>5. QED  BY <1>2, <1>4

\* As many pointers are held as tasks have one in hand.
LEMMA HandCount ==
    ASSUME hand \in [Tasks -> Slots \union {None}], Apart(hand)
    PROVE  /\ IsFiniteSet(Held)
           /\ Cardinality(Held) = Cardinality({t \in Tasks : hand[t] # None})
<1> DEFINE Busy == {t \in Tasks : hand[t] # None}
           f == [t \in Busy |-> hand[t]]
<1>1. IsFiniteSet(Tasks)
  <2>1. IsFiniteSet({"lcc"} \union {"railcom"})
    BY FS_Singleton, FS_AddElement, Zenon
  <2>2. IsFiniteSet(({"lcc"} \union {"railcom"}) \union {"reminder"})
    BY <2>1, FS_AddElement, Zenon
  <2>3. IsFiniteSet((({"lcc"} \union {"railcom"}) \union {"reminder"}) \union {"pqueue"})
    BY <2>2, FS_AddElement, Zenon
  <2>4. IsFiniteSet(((({"lcc"} \union {"railcom"}) \union {"reminder"}) \union {"pqueue"})
                    \union {"wavegen"})
    BY <2>3, FS_AddElement, Zenon
  <2>5. Tasks = ((({"lcc"} \union {"railcom"}) \union {"reminder"}) \union {"pqueue"})
                 \union {"wavegen"}
    BY DEF Tasks, Senders
  <2>6. QED  BY <2>4, <2>5, Zenon
<1>2. IsFiniteSet(Busy)
  BY <1>1, FS_Subset
<1>3. /\ f \in [Busy -> Held]
      /\ \A t, u \in Busy : f[t] = f[u] => t = u
      /\ \A x \in Held : \E t \in Busy : f[t] = x
  BY DEF Held, HeldBy, Apart
<1> HIDE DEF f, Busy
<1>4. IsFiniteSet(Held) /\ Cardinality(Held) = Cardinality(Busy)
  BY <1>2, <1>3, OneToOneCount
<1>5. QED  BY <1>4 DEF Busy

\* The slots in use are exactly the pointers queued or held, counted: the count
\* by which module DccPipeline says the pool is exhausted is the pool's own.
THEOREM Counted == Spec => []InUseIsCounted
<1>1. TypeOK /\ PoolOwnership => InUseIsCounted
  <2> SUFFICES ASSUME TypeOK, PoolOwnership PROVE InUseIsCounted
    OBVIOUS
  <2> DEFINE I == Elems(input_queue)
             O == Elems(output_queue)
             Used == {s \in Slots : in_use[s]}
  <2>1. /\ Places(I, heap, O, Held)
        /\ Distinct(input_queue) /\ Distinct(output_queue) /\ Apart(hand)
    BY OwnershipByPlace
  <2>2. /\ input_queue \in Seq(Slots) /\ output_queue \in Seq(Slots) /\ heap \subseteq Slots
        /\ hand \in [Tasks -> Slots \union {None}]
    BY DEF TypeOK
  <2>3. IsFiniteSet(heap)
    BY <2>2, SlotsAssumption, FS_Subset
  <2>4. IsFiniteSet(I) /\ Cardinality(I) = Len(input_queue)
    BY <2>1, <2>2, QueueCount
  <2>5. IsFiniteSet(O) /\ Cardinality(O) = Len(output_queue)
    BY <2>1, <2>2, QueueCount
  <2>6. IsFiniteSet(Held) /\ Cardinality(Held) = Cardinality({t \in Tasks : hand[t] # None})
    BY <2>1, <2>2, HandCount
  <2>7. I \subseteq Slots /\ O \subseteq Slots /\ Held \subseteq Slots
    BY <2>2 DEF Elems, Held, HeldBy
  <2> HIDE DEF I, O
  <2>8. Used = ((I \union heap) \union O) \union Held
    BY <2>1, <2>2, <2>7 DEF Places
  <2>9. IsFiniteSet(I \union heap) /\ Cardinality(I \union heap) = Cardinality(I) + Cardinality(heap)
    BY <2>1, <2>3, <2>4, ApartAddUp DEF Places
  <2>10. /\ IsFiniteSet((I \union heap) \union O)
         /\ Cardinality((I \union heap) \union O) = Cardinality(I \union heap) + Cardinality(O)
    <3>1. (I \union heap) \intersect O = {}
      BY <2>1 DEF Places
    <3>2. QED  BY <2>5, <2>9, <3>1, ApartAddUp
  <2>11. Cardinality(((I \union heap) \union O) \union Held)
            = Cardinality((I \union heap) \union O) + Cardinality(Held)
    <3>1. ((I \union heap) \union O) \intersect Held = {}
      BY <2>1 DEF Places
    <3>2. QED  BY <2>6, <2>10, <3>1, ApartAddUp
  <2>12. Cardinality(Used) = Cardinality(I) + Cardinality(heap) + Cardinality(O) + Cardinality(Held)
    BY <2>8, <2>9, <2>10, <2>11
  <2>13. QED  BY <2>4, <2>5, <2>6, <2>12 DEF InUseIsCounted
<1>2. QED  BY <1>1, TypeCorrect, Ownership, PTL
=============================================================================
