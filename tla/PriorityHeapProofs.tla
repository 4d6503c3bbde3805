------------------------- MODULE PriorityHeapProofs -------------------------
(***************************************************************************)
(* Proofs about module PriorityHeap: for every capacity, set of packets    *)
(* and assignment of priorities, the array keeps its packets, keeps them   *)
(* in heap order and implements the queue PriorityQueue promises.          *)
(***************************************************************************)
EXTENDS PriorityHeap, FiniteSetTheorems, WellFoundedInduction, TLAPS

(* Arithmetic of the array: parents and children. *)

\* Every nonempty set of naturals has a least element.
LEMMA LeastElement ==
    ASSUME NEW T, T \subseteq Nat, T # {}
    PROVE  \E m \in T : \A k \in T : m <= k
<1> DEFINE R == OpToRel(<, Nat)
<1>1. \E m \in T : \A k \in T : ~ (<<k, m>> \in R)
  <2>1. IsWellFoundedOn(R, Nat)
    BY NatLessThanWellFounded
  <2> HIDE DEF R
  <2>2. QED  BY <2>1, WFMin, Zenon
<1>2. \A k, m \in Nat : ~ (<<k, m>> \in R) => m <= k
  BY DEF OpToRel
<1> HIDE DEF R
<1>3. QED  BY <1>1, <1>2, Zenon

\* A parent comes before its children, which are two.
LEMMA ParentOf ==
    ASSUME NEW i \in Nat, i > 0
    PROVE  /\ Parent(i) \in Nat
           /\ Parent(i) < i
           /\ \A j \in Nat : Parent(i) = j <=> i = Left(j) \/ i = Right(j)
BY DEF Parent, Left, Right

-----------------------------------------------------------------------------
(* Types and pointers *)

\* What a swap does to the array.
LEMMA SwapEffect ==
    ASSUME TypeOK, NEW i \in 0..(Capacity - 1), NEW j \in 0..(Capacity - 1), Swap(i, j)
    PROVE  /\ items'[i] = items[j]
           /\ items'[j] = items[i]
           /\ \A k \in 0..(Capacity - 1) : k # i /\ k # j => items'[k] = items[k]
BY DEF TypeOK, Swap

\* Swapping two of the packets loses none and duplicates none.
LEMMA SwapKeepsPointers ==
    ASSUME TypeOK, NoPointerLost, Size \in 0..Capacity, Size' = Size,
           NEW i \in 0..(Size - 1), NEW j \in 0..(Size - 1), Swap(i, j)
    PROVE  NoPointerLost'
<1> USE CapacityAssumption
<1>1. /\ items'[i] = items[j]
      /\ items'[j] = items[i]
      /\ \A k \in 0..(Capacity - 1) : k # i /\ k # j => items'[k] = items[k]
  BY SwapEffect
<1>2. \A k \in 0..(Size - 1) : k \in 0..(Capacity - 1) /\ items[k] # NULL
  BY DEF NoPointerLost
<1>3. \A k, l \in 0..(Size - 1) : items[k] = items[l] => k = l
  BY DEF NoPointerLost
<1>4. \A k \in 0..(Size - 1) : items'[k] # NULL
  BY <1>1, <1>2
<1>5. \A k, l \in 0..(Size - 1) : items'[k] = items'[l] => k = l
  BY <1>1, <1>2, <1>3
<1>6. \A k \in Size..(Capacity - 1) : items'[k] = NULL
  BY <1>1 DEF NoPointerLost
<1>7. QED  BY <1>4, <1>5, <1>6 DEF NoPointerLost

\* TypeOK is inductive by itself: the loops never leave the array.
THEOREM TypeCorrect == Spec => []TypeOK
<1>1. Init => TypeOK
  BY CapacityAssumption DEF Init, TypeOK
<1>2. TypeOK /\ [Next]_vars => TypeOK'
  <2> SUFFICES ASSUME TypeOK, [Next]_vars PROVE TypeOK'
    OBVIOUS
  <2> USE CapacityAssumption DEF TypeOK
  <2>still. CASE UNCHANGED vars
    BY <2>still DEF vars
  <2>push. ASSUME NEW p \in Packets, pqueue_push(p) PROVE TypeOK'
    BY <2>push DEF pqueue_push, pqueue_is_full, vars
  <2>up. CASE sift_up
    <3>1. CASE ~Rises
      BY <2>up, <3>1 DEF sift_up
    <3>2. CASE Rises
      BY <2>up, <3>2, ParentOf DEF sift_up, Swap, Rises
    <3>3. QED  BY <3>1, <3>2
  <2>pop. CASE pqueue_pop
    BY <2>pop DEF pqueue_pop
  <2>down. CASE sift_down
    <3>1. Largest(idx) \in Nat /\ (Largest(idx) # idx => Largest(idx) < count)
      BY <2>down DEF sift_down, Largest, Left, Right
    <3>2. QED  BY <2>down, <3>1 DEF sift_down, Swap
  <2> QED  BY <2>still, <2>push, <2>up, <2>pop, <2>down DEF Next
<1>3. QED  BY <1>1, <1>2, PTL DEF Spec

\* No operation of the heap duplicates or drops a pointer.
THEOREM PointersKept == Spec => []NoPointerLost
<1>1. Init => NoPointerLost
  BY DEF Init, NoPointerLost, Size
<1>2. TypeOK /\ NoPointerLost /\ [Next]_vars => NoPointerLost'
  <2> SUFFICES ASSUME TypeOK, NoPointerLost, [Next]_vars PROVE NoPointerLost'
    OBVIOUS
  <2> USE CapacityAssumption, PriorityAssumption
  <2>1. ASSUME NEW p \in Packets, pqueue_push(p) PROVE NoPointerLost'
    <3>1. CASE count >= Capacity
      BY <2>1, <3>1 DEF pqueue_push, pqueue_is_full, vars, NoPointerLost, Size
    <3>2. CASE ~(count >= Capacity)
      <4>1. /\ count \in 0..(Capacity - 1) /\ Size = count /\ Size' = count + 1
            /\ items'[count] = p /\ p # NULL
            /\ \A k \in 0..(Capacity - 1) : k # count => items'[k] = items[k]
        BY <2>1, <3>2 DEF pqueue_push, pqueue_is_full, TypeOK, Size
      <4>2. \A k \in 0..(count - 1) : items[k] # p
        BY <2>1, <4>1 DEF pqueue_push, pqueue_is_full, Contents
      <4>3. QED  BY <4>1, <4>2 DEF NoPointerLost
    <3>3. QED  BY <3>1, <3>2
  <2>2. CASE sift_up
    <3>1. CASE ~Rises
      BY <2>2, <3>1 DEF sift_up, NoPointerLost, TypeOK, Size
    <3>2. CASE Rises
      <4>1. /\ idx \in 0..(Size - 1) /\ Parent(idx) \in 0..(Size - 1)
            /\ Size \in 0..Capacity /\ Size' = Size /\ Swap(idx, Parent(idx))
        BY <2>2, <3>2, ParentOf DEF sift_up, Rises, TypeOK, Size
      <4>2. QED  BY <4>1, SwapKeepsPointers
    <3>3. QED  BY <3>1, <3>2
  <2>3. CASE pqueue_pop
    BY <2>3 DEF pqueue_pop, NoPointerLost, TypeOK, Size
  <2>4. CASE sift_down
    <3>1. Largest(idx) \in Nat /\ (Largest(idx) # idx => Largest(idx) < count)
      BY <2>4 DEF sift_down, Largest, Left, Right, TypeOK
    <3>2. CASE Largest(idx) = idx
      BY <2>4, <3>2 DEF sift_down, NoPointerLost, TypeOK, Size
    <3>3. CASE Largest(idx) # idx
      <4>1. /\ idx \in 0..(Size - 1) /\ Largest(idx) \in 0..(Size - 1)
            /\ Size \in 0..Capacity /\ Size' = Size /\ Swap(idx, Largest(idx))
        BY <2>4, <3>1, <3>3 DEF sift_down, TypeOK, Size
      <4>2. QED  BY <4>1, SwapKeepsPointers
    <3>4. QED  BY <3>2, <3>3
  <2>5. CASE UNCHANGED vars
    BY <2>5 DEF vars, NoPointerLost, Size
  <2>6. QED  BY <2>1, <2>2, <2>3, <2>4, <2>5 DEF Next
<1>3. QED  BY <1>1, <1>2, TypeCorrect, PTL DEF Spec

-----------------------------------------------------------------------------
(* Heap order *)

\* The packets of the heap have priorities.
LEMMA PrioType ==
    ASSUME TypeOK, NoPointerLost
    PROVE  \A i \in 0..(Size - 1) : Prio(i) \in Nat
BY CapacityAssumption, PriorityAssumption DEF TypeOK, NoPointerLost, Size, Prio

\* What Largest returns: idx when no child is higher, else a highest child.
LEMMA LargestChild ==
    ASSUME TypeOK, NoPointerLost, pc = "down" \/ (pc = "ready" /\ count > 0),
           NEW l, l = Largest(idx)
    PROVE  /\ l \in 0..(count - 1)
           /\ l # idx => l > 0 /\ Parent(l) = idx /\ Prio(idx) < Prio(l)
           /\ \A i \in 1..(count - 1) : Parent(i) = idx => Prio(i) <= Prio(l)
<1>1. Size = count /\ count \in Nat /\ idx \in 0..(count - 1)
  BY CapacityAssumption DEF TypeOK, Size
<1>2. \A i \in 0..(count - 1) : Prio(i) \in Nat
  BY <1>1, PrioType
<1>3. \A i \in Nat : i > 0 => (Parent(i) = idx <=> i = Left(idx) \/ i = Right(idx))
  BY <1>1, ParentOf
<1>4. Left(idx) \in Nat /\ Right(idx) \in Nat /\ Left(idx) > 0 /\ Right(idx) > 0
  BY <1>1 DEF Left, Right
<1> DEFINE L == IF Left(idx) < count /\ Prio(Left(idx)) > Prio(idx) THEN Left(idx) ELSE idx
<1>5. /\ L \in 0..(count - 1) /\ Prio(idx) <= Prio(L)
      /\ L # idx => L = Left(idx) /\ Prio(idx) < Prio(L)
      /\ Left(idx) < count => Prio(Left(idx)) <= Prio(L)
  BY <1>1, <1>2, <1>4
<1>6. l = IF Right(idx) < count /\ Prio(Right(idx)) > Prio(L) THEN Right(idx) ELSE L
  BY DEF Largest
<1> HIDE DEF L
<1>7. /\ l \in 0..(count - 1)
      /\ l # idx => (l = Left(idx) \/ l = Right(idx)) /\ Prio(idx) < Prio(l)
      /\ Left(idx) < count => Prio(Left(idx)) <= Prio(l)
      /\ Right(idx) < count => Prio(Right(idx)) <= Prio(l)
  BY <1>1, <1>2, <1>4, <1>5, <1>6
<1>8. QED  BY <1>1, <1>3, <1>4, <1>7

\* The inductive invariant.  HeapOrder depends on the pointers: only what is
\* a packet has a priority.
HInv == TypeOK /\ NoPointerLost /\ HeapOrder

\* The heap keeps its order at every iteration of both loops.
THEOREM Order == Spec => []HeapOrder
<1>1. Init => HeapOrder
  BY DEF Init, HeapOrder, Size
<1>2. HInv /\ TypeOK' /\ NoPointerLost' /\ [Next]_vars => HeapOrder'
  <2> SUFFICES ASSUME HInv, TypeOK', NoPointerLost', [Next]_vars PROVE HeapOrder'
    OBVIOUS
  <2> TypeOK /\ NoPointerLost /\ HeapOrder
    BY DEF HInv
  <2> USE CapacityAssumption
  <2>a. \A i \in 0..(Size - 1) : Prio(i) \in Nat
    BY PrioType
  <2>b. \A i \in Nat : i > 0 => Parent(i) \in Nat /\ Parent(i) < i
    BY ParentOf
  <2>1. ASSUME NEW p \in Packets, pqueue_push(p) PROVE HeapOrder'
    <3>1. CASE count >= Capacity
      BY <2>1, <3>1 DEF pqueue_push, pqueue_is_full, vars, HeapOrder, Size, Ordered, Prio, Bridged
    <3>2. CASE ~(count >= Capacity)
      <4>1. /\ pc = "ready" /\ Size = count /\ Size' = count + 1
            /\ idx' = count /\ count \in Nat /\ pc' = "up"
            /\ \A i \in 0..(count - 1) : items'[i] = items[i]
        BY <2>1, <3>2 DEF pqueue_push, pqueue_is_full, TypeOK, Size
      <4>2. \A i \in 1..(count - 1) : Ordered(i)'
        BY <4>1, <2>b DEF HeapOrder, Ordered, Prio
      <4>3. Bridged'
        BY <4>1, <2>b DEF Bridged
      <4>4. QED  BY <4>1, <4>2, <4>3 DEF HeapOrder
    <3>3. QED  BY <3>1, <3>2
  <2>2. CASE sift_up
    <3>1. CASE ~Rises
      <4>1. /\ pc = "up" /\ pc' = "ready" /\ count' = count + 1 /\ items' = items
            /\ idx \in 0..count /\ count \in Nat
        BY <2>2, <3>1 DEF sift_up, TypeOK
      <4>2. Size = count + 1 /\ Size' = count + 1
        BY <4>1 DEF Size
      <4>3. idx > 0 => Ordered(idx)
        <5>1. ASSUME idx > 0 PROVE Prio(idx) \in Nat /\ Prio(Parent(idx)) \in Nat
          BY <5>1, <2>a, <2>b, <4>1, <4>2
        <5>2. QED  BY <3>1, <5>1 DEF Rises, Ordered
      <4>4. \A i \in 1..(Size - 1) : Ordered(i)
        BY <4>1, <4>3 DEF HeapOrder
      <4>5. QED  BY <4>1, <4>2, <4>4 DEF HeapOrder, Ordered, Prio
    <3>2. CASE Rises
      <4> DEFINE q == Parent(idx)
      <4>1. /\ pc = "up" /\ pc' = "up" /\ idx' = q /\ count' = count /\ Swap(idx, q)
            /\ idx \in 1..count /\ count \in 0..(Capacity - 1)
        BY <2>2, <3>2 DEF sift_up, Rises, TypeOK
      <4>2. Size = count + 1 /\ Size' = count + 1
        BY <4>1 DEF Size
      <4>3. q \in 0..count /\ q < idx /\ Prio(q) < Prio(idx)
        BY <3>2, <4>1, <4>2, <2>a, <2>b DEF Rises
      <4> HIDE DEF q
      <4>4. /\ Priority[items'[idx]] = Prio(q)
            /\ Priority[items'[q]] = Prio(idx)
            /\ \A i \in 0..count : i # idx /\ i # q => Priority[items'[i]] = Prio(i)
        BY <4>1, <4>3, SwapEffect DEF Prio
      <4>5. \A i \in 1..count : i # idx => Prio(i) <= Prio(Parent(i))
        BY <4>1, <4>2 DEF HeapOrder, Ordered
      <4>6. \A i \in 1..count : Parent(i) = idx => Prio(i) <= Prio(q)
        BY <4>1, <4>2 DEF HeapOrder, Bridged, q
      <4>7. ASSUME NEW i \in 1..count, i # q
            PROVE  Priority[items'[i]] <= Priority[items'[Parent(i)]]
        <5>1. Parent(i) \in 0..count /\ Parent(i) < i /\ Parent(idx) = q
          BY <2>b, <4>1 DEF q
        <5>2. CASE i = idx
          BY <5>1, <5>2, <4>1, <4>2, <4>3, <4>4, <2>a
        <5>3. CASE Parent(i) = idx
          BY <5>1, <5>3, <4>1, <4>2, <4>3, <4>4, <4>6, <4>7, <2>a
        <5>4. CASE i # idx /\ Parent(i) = q
          BY <5>1, <5>4, <4>1, <4>2, <4>3, <4>4, <4>5, <4>7, <2>a
        <5>5. CASE i # idx /\ Parent(i) # idx /\ Parent(i) # q
          BY <5>1, <5>5, <4>1, <4>2, <4>3, <4>4, <4>5, <4>7, <2>a
        <5>6. QED  BY <5>2, <5>3, <5>4, <5>5
      <4>8. ASSUME q > 0, NEW i \in 1..count, Parent(i) = q
            PROVE  Priority[items'[i]] <= Priority[items'[Parent(q)]]
        <5>1. Parent(q) \in 0..count /\ Parent(q) < q /\ q < i /\ Prio(q) <= Prio(Parent(q))
          BY <4>8, <2>b, <4>1, <4>3, <4>5
        <5>2. Priority[items'[Parent(q)]] = Prio(Parent(q))
          BY <5>1, <4>1, <4>3, <4>4
        <5>3. Priority[items'[i]] <= Prio(q)
          <6>1. CASE i = idx
            BY <6>1, <4>1, <4>2, <4>3, <4>4, <2>a
          <6>2. CASE i # idx
            BY <6>2, <5>1, <4>2, <4>3, <4>4, <4>5, <4>8, <2>a
          <6>3. QED  BY <6>1, <6>2
        <5>4. Prio(q) \in Nat /\ Prio(Parent(q)) \in Nat /\ Priority[items'[i]] \in Nat
          BY <5>1, <4>2, <4>3, <4>4, <4>1, <2>a
        <5>5. QED  BY <5>1, <5>2, <5>3, <5>4
      <4>9. QED  BY <4>1, <4>2, <4>7, <4>8 DEF HeapOrder, Bridged, Ordered, Prio
    <3>3. QED  BY <3>1, <3>2
  <2>3. CASE pqueue_pop
    <3>1. /\ pc = "ready" /\ count \in 1..Capacity /\ count' = count - 1 /\ idx' = 0
          /\ pc' \in {"ready", "down"} /\ (pc' = "ready" => count = 1)
          /\ \A i \in 1..(count - 2) : items'[i] = items[i]
      BY <2>3 DEF pqueue_pop, TypeOK
    <3>2. Size = count /\ Size' = count - 1
      BY <3>1 DEF Size
    <3>3. \A i \in 1..(count - 2) : Parent(i) # 0 => Ordered(i)'
      BY <3>1, <3>2, <2>b DEF HeapOrder, Ordered, Prio
    <3>4. QED  BY <3>1, <3>2, <3>3 DEF HeapOrder, Bridged
  <2>4. CASE sift_down
    <3> DEFINE l == Largest(idx)
    <3>1. /\ pc = "down" /\ count \in 1..Capacity /\ count' = count /\ idx \in 0..(count - 1)
      BY <2>4 DEF sift_down, TypeOK
    <3>2. Size = count /\ (pc' \in {"ready", "down"} => Size' = count)
      BY <3>1 DEF Size
    <3>3. /\ l \in 0..(count - 1)
          /\ l # idx => l > 0 /\ Parent(l) = idx /\ Prio(idx) < Prio(l)
          /\ \A i \in 1..(count - 1) : Parent(i) = idx => Prio(i) <= Prio(l)
      BY <3>1, LargestChild
    <3>4. \A i \in 1..(count - 1) : Parent(i) # idx => Prio(i) <= Prio(Parent(i))
      BY <3>1, <3>2 DEF HeapOrder, Ordered
    <3>5. CASE l = idx
      <4>1. pc' = "ready" /\ items' = items
        BY <2>4, <3>5 DEF sift_down
      <4>2. QED  BY <4>1, <3>2, <3>3, <3>4, <3>5 DEF HeapOrder, Ordered, Prio
    <3>6. CASE l # idx
      <4>1. pc' = "down" /\ idx' = l /\ Swap(idx, l)
        BY <2>4, <3>1, <3>6 DEF sift_down
      <4> HIDE DEF l
      <4>2. /\ Priority[items'[idx]] = Prio(l)
            /\ Priority[items'[l]] = Prio(idx)
            /\ \A i \in 0..(count - 1) : i # idx /\ i # l => Priority[items'[i]] = Prio(i)
        BY <3>1, <3>3, <4>1, SwapEffect DEF Prio
      <4>3. idx > 0 => Prio(l) <= Prio(Parent(idx))
        BY <3>1, <3>2, <3>3, <3>6 DEF HeapOrder, Bridged
      <4>4. ASSUME NEW i \in 1..(count - 1), Parent(i) # l
            PROVE  Priority[items'[i]] <= Priority[items'[Parent(i)]]
        <5>1. Parent(i) \in 0..(count - 1) /\ Parent(i) < i
          BY <2>b, <3>1
        <5>2. CASE i = l
          BY <5>2, <3>1, <3>2, <3>3, <3>6, <4>2, <2>a
        <5>3. CASE i # l /\ Parent(i) = idx
          BY <5>3, <5>1, <3>1, <3>2, <3>3, <3>6, <4>2, <2>a
        <5>4. CASE i = idx
          BY <5>4, <5>1, <3>1, <3>2, <3>3, <3>6, <4>2, <4>3, <4>4, <2>a
        <5>5. CASE i # l /\ i # idx /\ Parent(i) # idx
          BY <5>5, <5>1, <3>1, <3>4, <4>2, <4>4
        <5>6. QED  BY <5>2, <5>3, <5>4, <5>5
      <4>5. ASSUME NEW i \in 1..(count - 1), Parent(i) = l
            PROVE  Priority[items'[i]] <= Priority[items'[Parent(l)]]
        BY <4>5, <3>1, <3>3, <3>4, <3>6, <4>2, <2>b
      <4>6. QED  BY <4>1, <3>2, <4>4, <4>5 DEF HeapOrder, Bridged, Ordered, Prio
    <3>7. QED  BY <3>5, <3>6
  <2>5. CASE UNCHANGED vars
    BY <2>5 DEF vars, HeapOrder, Size, Ordered, Prio, Bridged
  <2>6. QED  BY <2>1, <2>2, <2>3, <2>4, <2>5 DEF Next
<1>3. QED  BY <1>1, <1>2, TypeCorrect, PointersKept, PTL DEF Spec, HInv

-----------------------------------------------------------------------------
(* The top *)

\* If every value but those exempt is bounded by v or by an earlier value,
\* then every one is bounded by v: look at the first that is not.
LEMMA Dominance ==
    ASSUME NEW n \in Nat, NEW f \in [0..(n - 1) -> Nat], NEW E, NEW v \in Nat,
           \A i \in (0..(n - 1)) \ E :
               f[i] <= v \/ \E j \in (0..(n - 1)) \ E : j < i /\ f[i] <= f[j]
    PROVE  \A i \in (0..(n - 1)) \ E : f[i] <= v
<1> DEFINE T == {i \in (0..(n - 1)) \ E : ~(f[i] <= v)}
<1> SUFFICES ASSUME T # {} PROVE FALSE
  OBVIOUS
<1>1. PICK m \in T : \A k \in T : m <= k
  <2>1. T \subseteq Nat  OBVIOUS
  <2> HIDE DEF T
  <2>2. QED  BY <2>1, LeastElement
<1>2. PICK j \in (0..(n - 1)) \ E : j < m /\ f[m] <= f[j]
  BY <1>1
<1>3. j \in T
  BY <1>1, <1>2
<1>4. QED  BY <1>1, <1>2, <1>3

\* No packet in the heap is higher than its top, in the middle of a loop too.
TopIsHighest ==
    Size > 0 => Top \in Contents /\ \A i \in 0..(Size - 1) : Prio(i) <= Priority[Top]

\* The heap order puts a packet of the highest priority on top.
LEMMA OrderGivesTop == HInv => TopIsHighest
<1> SUFFICES ASSUME HInv, Size > 0 PROVE TopIsHighest
  BY DEF TopIsHighest
<1> TypeOK /\ NoPointerLost /\ HeapOrder
  BY DEF HInv
<1> USE CapacityAssumption
<1> DEFINE n == Size
           f == [i \in 0..(n - 1) |-> Prio(i)]
<1>a. n \in Nat /\ n > 0 /\ idx \in 0..(n - 1)
  BY DEF TypeOK, Size
<1>b. \A i \in 0..(n - 1) : Prio(i) \in Nat
  BY PrioType
<1>c. f \in [0..(n - 1) -> Nat] /\ \A i \in 0..(n - 1) : f[i] = Prio(i)
  BY <1>b
<1>d. \A i \in Nat : i > 0 => Parent(i) \in Nat /\ Parent(i) < i
  BY ParentOf
<1> DEFINE v == Prio(0)
<1>e. v \in Nat /\ f[0] = v
  BY <1>a, <1>b, <1>c
<1> HIDE DEF n, f, v
<1>1. CASE pc = "ready" \/ (pc = "up" /\ idx = 0)
  <2>1. \A i \in 1..(n - 1) : Prio(i) <= Prio(Parent(i))
    BY <1>1, <1>a DEF HeapOrder, Ordered, n
  <2>2. ASSUME NEW i \in (0..(n - 1)) \ {}
        PROVE  f[i] <= v \/ \E j \in (0..(n - 1)) \ {} : j < i /\ f[i] <= f[j]
    <3>1. CASE i = 0
      BY <3>1, <1>e
    <3>2. CASE i # 0
      <4>1. Parent(i) \in (0..(n - 1)) \ {} /\ Parent(i) < i /\ f[i] <= f[Parent(i)]
        BY <3>2, <2>1, <1>a, <1>c, <1>d
      <4>2. QED  BY <4>1
    <3>3. QED  BY <3>1, <3>2
  <2>3. \A i \in 0..(n - 1) : f[i] <= v
    BY <2>2, <1>a, <1>c, <1>e, Dominance
  <2>4. Top = items[0]
    BY <1>1, <1>a, <1>b DEF Top, n
  <2>5. QED  BY <2>3, <2>4, <1>a, <1>c DEF TopIsHighest, Contents, Prio, n, v
<1>2. CASE pc = "up" /\ idx > 0
  <2>1. /\ \A i \in 1..(n - 1) : i # idx => Prio(i) <= Prio(Parent(i))
        /\ \A i \in 1..(n - 1) : Parent(i) = idx => Prio(i) <= Prio(Parent(idx))
    BY <1>2, <1>a DEF HeapOrder, Ordered, Bridged, n
  <2>2. ASSUME NEW i \in (0..(n - 1)) \ {idx}
        PROVE  f[i] <= v \/ \E j \in (0..(n - 1)) \ {idx} : j < i /\ f[i] <= f[j]
    <3>1. CASE i = 0
      BY <3>1, <1>e
    <3>2. CASE i # 0 /\ Parent(i) # idx
      <4>1. Parent(i) \in (0..(n - 1)) \ {idx} /\ Parent(i) < i /\ f[i] <= f[Parent(i)]
        BY <3>2, <2>1, <1>a, <1>c, <1>d
      <4>2. QED  BY <4>1
    <3>3. CASE i # 0 /\ Parent(i) = idx
      <4>1. idx < i /\ Parent(idx) < idx /\ Parent(idx) \in 0..(n - 1)
        BY <3>3, <1>2, <1>a, <1>d
      <4>2. Prio(i) <= Prio(Parent(idx))
        BY <3>3, <2>1, <1>a
      <4>3. f[i] <= f[Parent(idx)]
        BY <4>1, <4>2, <1>c
      <4>4. Parent(idx) \in (0..(n - 1)) \ {idx} /\ Parent(idx) < i
        BY <4>1, <1>a
      <4>5. QED  BY <4>3, <4>4
    <3>4. QED  BY <3>1, <3>2, <3>3
  <2>3. \A i \in (0..(n - 1)) \ {idx} : f[i] <= v
    BY <2>2, <1>a, <1>c, <1>e, Dominance
  <2>4. Top = IF Prio(idx) > Prio(0) THEN items[idx] ELSE items[0]
    BY <1>2, <1>a DEF Top, n
  <2>5. \A i \in 0..(n - 1) : Prio(i) <= Priority[Top]
    <3>1. \A i \in (0..(n - 1)) \ {idx} : Prio(i) <= Prio(0)
      BY <2>3, <1>c DEF v
    <3>2. CASE Prio(idx) > Prio(0)
      <4>1. Priority[Top] = Prio(idx)
        BY <2>4, <3>2 DEF Prio
      <4>2. QED  BY <3>1, <3>2, <4>1, <1>a, <1>b
    <3>3. CASE ~(Prio(idx) > Prio(0))
      <4>1. Priority[Top] = Prio(0)
        BY <2>4, <3>3 DEF Prio
      <4>2. QED  BY <3>1, <3>3, <4>1, <1>a, <1>b
    <3>4. QED  BY <3>2, <3>3
  <2>6. QED  BY <2>4, <2>5, <1>a DEF TopIsHighest, Contents, n
<1>3. CASE pc = "down" /\ idx > 0
  <2>1. /\ \A i \in 1..(n - 1) : Parent(i) # idx => Prio(i) <= Prio(Parent(i))
        /\ \A i \in 1..(n - 1) : Parent(i) = idx => Prio(i) <= Prio(Parent(idx))
    BY <1>3, <1>a DEF HeapOrder, Ordered, Bridged, n
  <2>2. ASSUME NEW i \in (0..(n - 1)) \ {}
        PROVE  f[i] <= v \/ \E j \in (0..(n - 1)) \ {} : j < i /\ f[i] <= f[j]
    <3>1. CASE i = 0
      BY <3>1, <1>e
    <3>2. CASE i # 0 /\ Parent(i) # idx
      <4>1. Parent(i) \in (0..(n - 1)) \ {} /\ Parent(i) < i /\ f[i] <= f[Parent(i)]
        BY <3>2, <2>1, <1>a, <1>c, <1>d
      <4>2. QED  BY <4>1
    <3>3. CASE i # 0 /\ Parent(i) = idx
      <4>1. idx < i /\ Parent(idx) < idx /\ Parent(idx) \in 0..(n - 1)
        BY <3>3, <1>3, <1>a, <1>d
      <4>2. Prio(i) <= Prio(Parent(idx))
        BY <3>3, <2>1, <1>a
      <4>3. f[i] <= f[Parent(idx)]
        BY <4>1, <4>2, <1>c
      <4>4. Parent(idx) \in (0..(n - 1)) \ {} /\ Parent(idx) < i
        BY <4>1, <1>a
      <4>5. QED  BY <4>3, <4>4
    <3>4. QED  BY <3>1, <3>2, <3>3
  <2>3. \A i \in 0..(n - 1) : f[i] <= v
    BY <2>2, <1>a, <1>c, <1>e, Dominance
  <2>4. Top = items[0]
    BY <1>3, <1>a DEF Top, n
  <2>5. QED  BY <2>3, <2>4, <1>a, <1>c DEF TopIsHighest, Contents, Prio, n, v
<1>4. CASE pc = "down" /\ idx = 0
  <2> DEFINE l == Largest(idx)
  <2>1. Size = count
    BY <1>4 DEF Size
  <2>2. /\ l \in 0..(n - 1)
        /\ l # idx => Prio(idx) < Prio(l)
        /\ \A i \in 1..(n - 1) : Parent(i) = idx => Prio(i) <= Prio(l)
    BY <1>4, <2>1, LargestChild DEF n
  <2>3. \A i \in 1..(n - 1) : Parent(i) # idx => Prio(i) <= Prio(Parent(i))
    BY <1>4, <1>a DEF HeapOrder, Ordered, n
  <2>4. Top = items[l]
    BY <1>4, <1>a DEF Top, n
  <2> HIDE DEF l
  <2>5. ASSUME NEW i \in (0..(n - 1)) \ {}
        PROVE  f[i] <= Prio(l) \/ \E j \in (0..(n - 1)) \ {} : j < i /\ f[i] <= f[j]
    <3>1. CASE i = 0
      <4>1. Prio(0) <= Prio(l)
        BY <2>2, <1>4, <1>a, <1>b
      <4>2. QED  BY <3>1, <4>1, <1>c
    <3>2. CASE i # 0 /\ Parent(i) # idx
      <4>1. Parent(i) \in (0..(n - 1)) \ {} /\ Parent(i) < i /\ f[i] <= f[Parent(i)]
        BY <3>2, <2>3, <1>a, <1>c, <1>d
      <4>2. QED  BY <4>1
    <3>3. CASE i # 0 /\ Parent(i) = idx
      <4>1. Prio(i) <= Prio(l)
        BY <3>3, <2>2, <1>a
      <4>2. QED  BY <4>1, <1>c
    <3>4. QED  BY <3>1, <3>2, <3>3
  <2>6. \A i \in 0..(n - 1) : f[i] <= Prio(l)
    BY <2>2, <2>5, <1>a, <1>b, <1>c, Dominance
  <2>7. QED  BY <2>2, <2>4, <2>6, <1>a, <1>c DEF TopIsHighest, Contents, Prio, n
<1>5. QED  BY <1>a, <1>1, <1>2, <1>3, <1>4 DEF TypeOK

-----------------------------------------------------------------------------
(* Refinement *)

\* The array holds as many packets as its count says.
LEMMA ContentsSize ==
    ASSUME TypeOK, NoPointerLost
    PROVE  Cardinality(Contents) = Size
<1> DEFINE D == 0..(Size - 1)
           f == [i \in D |-> items[i]]
<1>1. Size \in Nat
  BY CapacityAssumption DEF TypeOK, Size
<1>2. f \in [D -> Contents] /\ \A i \in D : f[i] = items[i]
  BY DEF Contents
<1>3. \A x \in Contents : \E i \in D : f[i] = x
  BY DEF Contents
<1>4. \A i, j \in D : f[i] = f[j] => i = j
  BY <1>2 DEF NoPointerLost
<1>5. IsFiniteSet(D) /\ Cardinality(D) = Size
  BY <1>1, FS_Interval
<1> HIDE DEF D, f
<1>6. f \in Surjection(D, Contents) /\ f \in Injection(D, Contents)
  BY <1>2, <1>3, <1>4 DEF Surjection, Injection, IsInjective
<1>7. QED  BY <1>5, <1>6, FS_Surjection

\* A swap does not change what the heap contains.
LEMMA SwapKeepsContents ==
    ASSUME TypeOK, Size \in 0..Capacity, Size' = Size,
           NEW i \in 0..(Size - 1), NEW j \in 0..(Size - 1), Swap(i, j)
    PROVE  Contents' = Contents
<1> USE CapacityAssumption
<1>1. /\ items'[i] = items[j]
      /\ items'[j] = items[i]
      /\ \A k \in 0..(Capacity - 1) : k # i /\ k # j => items'[k] = items[k]
  BY SwapEffect
<1>2. \A k \in 0..(Size - 1) : k \in 0..(Capacity - 1)
  OBVIOUS
<1>3. ASSUME NEW x \in Contents PROVE x \in Contents'
  <2>1. PICK k \in 0..(Size - 1) : x = items[k]  BY DEF Contents
  <2>2. \E m \in 0..(Size - 1) : x = items'[m]  BY <2>1, <1>1, <1>2
  <2>3. QED  BY <2>2 DEF Contents
<1>4. ASSUME NEW x \in Contents' PROVE x \in Contents
  <2>1. PICK k \in 0..(Size - 1) : x = items'[k]  BY DEF Contents
  <2>2. \E m \in 0..(Size - 1) : x = items[m]  BY <2>1, <1>1, <1>2
  <2>3. QED  BY <2>2 DEF Contents
<1>5. QED  BY <1>3, <1>4

\* The heap implements the priority queue: every operation and every loop
\* iteration is a push, a pop or invisible, and a pop returns a packet no
\* other in the queue outranks.
THEOREM Refinement == Spec => ImplementsPriorityQueue
<1>1. Init => Abstract!Init
  <2> SUFFICES ASSUME Init PROVE Abstract!Init
    OBVIOUS
  <2>1. Size = 0  BY DEF Init, Size
  <2>2. Contents = {} /\ Top = NULL  BY <2>1 DEF Contents, Top
  <2>3. QED  BY <2>2 DEF Init, Abstract!Init
<1>2. HInv /\ HInv' /\ TopIsHighest /\ TopIsHighest' /\ [Next]_vars
          => [Abstract!Next]_Abstract!vars
  <2> SUFFICES ASSUME HInv, HInv', TopIsHighest, TopIsHighest', [Next]_vars
               PROVE  Abstract!Next \/ UNCHANGED <<Contents, Top, out>>
    BY DEF Abstract!vars
  <2> TypeOK /\ NoPointerLost /\ HeapOrder
    BY DEF HInv
  <2> USE CapacityAssumption, PriorityAssumption
  <2>a. \A i \in 0..(Size - 1) : Prio(i) \in Nat
    BY PrioType
  <2>1. ASSUME NEW p \in Packets, pqueue_push(p)
        PROVE  Abstract!Next \/ UNCHANGED <<Contents, Top, out>>
    <3>1. CASE count >= Capacity
      BY <2>1, <3>1 DEF pqueue_push, pqueue_is_full, vars, Contents, Top, Size, Prio, Largest
    <3>2. CASE ~(count >= Capacity)
      <4>1. /\ pc = "ready" /\ pc' = "up" /\ count \in 0..(Capacity - 1) /\ count' = count
            /\ idx' = count /\ out' = out
            /\ items'[count] = p /\ \A i \in 0..(count - 1) : items'[i] = items[i]
        BY <2>1, <3>2 DEF pqueue_push, pqueue_is_full, TypeOK
      <4>2. Size = count /\ Size' = count + 1
        BY <4>1 DEF Size
      <4>3. Contents' = Contents \union {p}
        BY <4>1, <4>2 DEF Contents
      <4>4. p \notin Contents /\ Abstract!Cardinality(Contents) < Capacity
        <5>1. Abstract!Cardinality(Contents) = Cardinality(Contents)
          BY Zenon DEF Abstract!Cardinality, Cardinality
        <5>2. QED  BY <2>1, <4>1, <4>2, <5>1, ContentsSize DEF pqueue_push, pqueue_is_full
      <4>5. CASE count = 0
        <5>1. Contents = {}  BY <4>2, <4>5 DEF Contents
        <5>2. Top' = p  BY <4>1, <4>2, <4>5 DEF Top, Prio
        <5>3. Abstract!Push(p)  BY <4>1, <4>3, <4>4, <5>1, <5>2 DEF Abstract!Push
        <5>4. QED  BY <5>3 DEF Abstract!Next
      <4>6. CASE count > 0
        <5>1. Top = items[0]  BY <4>1, <4>2, <4>6 DEF Top
        <5>2. Contents # {}  BY <4>2, <4>6, <4>1 DEF Contents
        <5>3. Top' = IF Priority[p] > Priority[Top] THEN p ELSE Top
          BY <4>1, <4>2, <4>6, <5>1 DEF Top, Prio
        <5>4. Abstract!Push(p)  BY <4>1, <4>3, <4>4, <5>2, <5>3 DEF Abstract!Push
        <5>5. QED  BY <5>4 DEF Abstract!Next
      <4>7. QED  BY <4>1, <4>5, <4>6
    <3>3. QED  BY <3>1, <3>2
  <2>2. CASE sift_up
    <3>1. CASE ~Rises
      <4>1. /\ pc = "up" /\ pc' = "ready" /\ count' = count + 1 /\ items' = items
            /\ idx \in 0..count /\ count \in Nat /\ out' = out
        BY <2>2, <3>1 DEF sift_up, TypeOK
      <4>2. Size = count + 1 /\ Size' = count + 1
        BY <4>1 DEF Size
      <4>3. Contents' = Contents
        BY <4>1, <4>2 DEF Contents
      <4>4. Top' = items[0]
        BY <4>1, <4>2 DEF Top
      <4>5. Prio(idx) <= Priority[items[0]]
        BY <4>1, <4>2, <4>4 DEF TopIsHighest, Prio
      <4>6. Top = items[0]
        BY <4>1, <4>2, <4>5, <2>a DEF Top, Prio
      <4>7. QED  BY <4>1, <4>3, <4>4, <4>6
    <3>2. CASE Rises
      <4> DEFINE q == Parent(idx)
      <4>1. /\ pc = "up" /\ pc' = "up" /\ idx' = q /\ count' = count /\ Swap(idx, q)
            /\ idx \in 1..count /\ count \in 0..(Capacity - 1) /\ out' = out
            /\ Prio(idx) > Prio(q)
        BY <2>2, <3>2 DEF sift_up, Rises, TypeOK
      <4>2. Size = count + 1 /\ Size' = count + 1
        BY <4>1 DEF Size
      <4>3. q \in 0..count /\ q < idx
        BY <4>1, ParentOf
      <4> HIDE DEF q
      <4>4. Contents' = Contents
        BY <4>1, <4>2, <4>3, SwapKeepsContents
      <4>5. /\ items'[idx] = items[q] /\ items'[q] = items[idx]
            /\ (q # 0 => items'[0] = items[0])
        BY <4>1, <4>3, SwapEffect
      <4>6. Top = IF Prio(idx) > Prio(0) THEN items[idx] ELSE items[0]
        BY <4>1, <4>2 DEF Top
      <4>7. Top' = IF Priority[items'[q]] > Priority[items'[0]] THEN items'[q] ELSE items'[0]
        BY <4>1, <4>2 DEF Top, Prio
      <4>8. Top' = Top
        BY <4>1, <4>3, <4>5, <4>6, <4>7 DEF Prio
      <4>9. QED  BY <4>1, <4>4, <4>8
    <3>3. QED  BY <3>1, <3>2
  <2>3. CASE pqueue_pop
    <3>1. /\ pc = "ready" /\ count \in 1..Capacity /\ count' = count - 1 /\ out' = items[0]
          /\ pc' \in {"ready", "down"}
          /\ \A i \in 1..(count - 2) : items'[i] = items[i]
          /\ (count > 1 => items'[0] = items[count - 1])
      BY <2>3 DEF pqueue_pop, TypeOK
    <3>2. Size = count /\ Size' = count - 1
      BY <3>1 DEF Size
    <3>3. Top = items[0] /\ Contents # {}
      BY <3>1, <3>2 DEF Top, Contents
    <3>4. \A i, j \in 0..(count - 1) : items[i] = items[j] => i = j
      BY <3>2 DEF NoPointerLost
    <3>5. Contents' = Contents \ {Top}
      <4>1. ASSUME NEW x \in Contents' PROVE x \in Contents \ {Top}
        <5>1. PICK i \in 0..(count - 2) : x = items'[i]  BY <3>1, <3>2 DEF Contents
        <5>2. PICK k \in 1..(count - 1) : x = items[k]  BY <3>1, <5>1
        <5>3. QED  BY <3>1, <3>2, <3>3, <3>4, <5>2 DEF Contents
      <4>2. ASSUME NEW x \in Contents \ {Top} PROVE x \in Contents'
        <5>1. PICK k \in 1..(count - 1) : x = items[k]  BY <3>1, <3>2, <3>3 DEF Contents
        <5>2. PICK i \in 0..(count - 2) : x = items'[i]  BY <3>1, <5>1
        <5>3. QED  BY <3>1, <3>2, <5>2 DEF Contents
      <4>3. QED  BY <4>1, <4>2
    <3>6. CASE count = 1
      <4>1. Contents' = {} /\ Top' = NULL
        BY <3>2, <3>6 DEF Contents, Top
      <4>2. QED  BY <4>1, <3>1, <3>3, <3>5 DEF Abstract!Next, Abstract!Pop
    <3>7. CASE count > 1
      <4>1. Top' \in Contents' /\ \A x \in Contents' : Priority[x] <= Priority[Top']
        BY <3>1, <3>2, <3>7 DEF TopIsHighest, Contents, Prio
      <4>2. Contents' # {} /\ Top' \in Abstract!Highest(Contents')
        BY <4>1 DEF Abstract!Highest
      <4>3. QED  BY <4>2, <3>1, <3>3, <3>5 DEF Abstract!Next, Abstract!Pop
    <3>8. QED  BY <3>1, <3>6, <3>7
  <2>4. CASE sift_down
    <3> DEFINE l == Largest(idx)
    <3>1. /\ pc = "down" /\ count \in 1..Capacity /\ count' = count
          /\ idx \in 0..(count - 1) /\ out' = out
      BY <2>4 DEF sift_down, TypeOK
    <3>2. Size = count /\ (pc' \in {"ready", "down"} => Size' = count)
      BY <3>1 DEF Size
    <3>3. /\ l \in 0..(count - 1)
          /\ l # idx => l > 0
      BY <3>1, LargestChild
    <3>4. Top = IF idx = 0 THEN items[l] ELSE items[0]
      BY <3>1, <3>2 DEF Top
    <3>5. CASE l = idx
      <4>1. pc' = "ready" /\ items' = items
        BY <2>4, <3>5 DEF sift_down
      <4>2. Contents' = Contents
        BY <4>1, <3>2 DEF Contents
      <4>3. Top' = items[0]
        BY <4>1, <3>1, <3>2 DEF Top
      <4>4. QED  BY <3>1, <3>4, <3>5, <4>2, <4>3
    <3>6. CASE l # idx
      <4>1. pc' = "down" /\ idx' = l /\ Swap(idx, l)
        BY <2>4, <3>1, <3>6 DEF sift_down
      <4> HIDE DEF l
      <4>2. Contents' = Contents
        BY <4>1, <3>1, <3>2, <3>3, SwapKeepsContents
      <4>3. items'[0] = IF idx = 0 THEN items[l] ELSE items[0]
        BY <4>1, <3>1, <3>3, <3>6, SwapEffect
      <4>4. Top' = items'[0]
        BY <4>1, <3>1, <3>2, <3>3, <3>6 DEF Top
      <4>5. QED  BY <3>1, <3>4, <4>2, <4>3, <4>4
    <3>7. QED  BY <3>5, <3>6
  <2>5. CASE UNCHANGED vars
    BY <2>5 DEF vars, Contents, Top, Size, Prio, Largest
  <2>6. QED  BY <2>1, <2>2, <2>3, <2>4, <2>5 DEF Next
<1>3. Spec => []HInv
  BY TypeCorrect, PointersKept, Order, PTL DEF HInv
<1>4. QED
  BY <1>1, <1>2, <1>3, OrderGivesTop, PTL DEF Spec, ImplementsPriorityQueue, Abstract!Spec
=============================================================================
