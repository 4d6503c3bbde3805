---------------------------- MODULE NodesProofs ----------------------------
(***************************************************************************)
(* Proofs about MC_Nodes: alias allocation, train search, traction and     *)
(* events of the station's LCC nodes, for any nodes, frames, trains,       *)
(* throttles, requests and reports.  Each component has an inductive       *)
(* invariant (AliasInv, SearchInv, DriveInv, EventInv) that its own steps  *)
(* keep; the theorems at the end put them together.                        *)
(***************************************************************************)
EXTENDS MC_Nodes, FiniteSetTheorems, SequenceTheorems, TLAPS

-----------------------------------------------------------------------------
(* Aliases.                                                                *)

\* The 12 bits of an alias.
LEMMA ChunkMeans == \A x : x \in Chunk <=> x \in Int /\ 0 <= x /\ x <= 4095
<1> DEFINE n == 4095
<1>1. Chunk = 0..n /\ n \in Nat
  BY DEF Chunk
<1>2. ASSUME NEW x \in Int PROVE x <= n <=> x <= 4095
  OBVIOUS
<1> HIDE DEF n
<1>3. \A x : x \in 0..n <=> x \in Int /\ 0 <= x /\ x <= n
  BY <1>1
<1>4. QED  BY ONLY <1>1, <1>2, <1>3

\* A place value times a bit is 0 or the place value.
LEMMA BitType ==
    ASSUME NEW x \in Int
    PROVE  x % 2 \in {0, 1}
OBVIOUS

\* The bits of a sum of four numbers.
LEMMA PlaceType ==
    ASSUME NEW id \in [1..4 -> Chunk], NEW p \in Nat \ {0}
    PROVE  XorBit(id, p) = 0 \/ XorBit(id, p) = p
<1> DEFINE y == Bit(id[1], p) + Bit(id[2], p) + Bit(id[3], p) + Bit(id[4], p)
<1>a. Chunk \subseteq Int
  BY ChunkMeans
<1>b. \A i \in 1..4 : id[i] \in Chunk
  OBVIOUS
<1>c. 1 \in 1..4 /\ 2 \in 1..4 /\ 3 \in 1..4 /\ 4 \in 1..4
  OBVIOUS
<1>1. id[1] \in Int /\ id[2] \in Int /\ id[3] \in Int /\ id[4] \in Int
  BY <1>a, <1>b, <1>c
<1>2. \A x \in Int : Bit(x, p) \in Int
  <2> SUFFICES ASSUME NEW x \in Int PROVE Bit(x, p) \in Int
    OBVIOUS
  <2>1. x \div p \in Int
    OBVIOUS
  <2>2. QED  BY <2>1 DEF Bit
<1>3. y \in Int
  BY <1>1, <1>2
<1> HIDE DEF y
<1>4. y % 2 = 0 \/ y % 2 = 1
  BY <1>3, BitType
<1>5. XorBit(id, p) = p * (y % 2)
  BY DEF XorBit, y
<1>6. QED  BY <1>4, <1>5

\* The first candidate fits in 12 bits and is not 0.
LEMMA SeedType ==
    ASSUME NEW id \in [1..4 -> Chunk]
    PROVE  lcc_alias_seed(id) \in Chunk
<1>1. /\ XorBit(id, 1) \in {0, 1} /\ XorBit(id, 2) \in {0, 2} /\ XorBit(id, 4) \in {0, 4}
      /\ XorBit(id, 8) \in {0, 8} /\ XorBit(id, 16) \in {0, 16} /\ XorBit(id, 32) \in {0, 32}
      /\ XorBit(id, 64) \in {0, 64} /\ XorBit(id, 128) \in {0, 128}
      /\ XorBit(id, 256) \in {0, 256} /\ XorBit(id, 512) \in {0, 512}
      /\ XorBit(id, 1024) \in {0, 1024} /\ XorBit(id, 2048) \in {0, 2048}
  BY PlaceType
<1> DEFINE x == XorBit(id, 1) + XorBit(id, 2) + XorBit(id, 4) + XorBit(id, 8)
                + XorBit(id, 16) + XorBit(id, 32) + XorBit(id, 64) + XorBit(id, 128)
                + XorBit(id, 256) + XorBit(id, 512) + XorBit(id, 1024) + XorBit(id, 2048)
<1>2. x \in Nat /\ x <= 4095
  BY ONLY <1>1
<1>3. lcc_alias_seed(id) = IF x = 0 THEN 1 ELSE x
  BY DEF lcc_alias_seed
<1> HIDE DEF x
<1>4. QED  BY <1>2, <1>3, ChunkMeans

\* So does the next one.
LEMMA NextType ==
    ASSUME NEW a \in Chunk
    PROVE  lcc_alias_next(a) \in Chunk
<1> DEFINE y == Bit(a, 1) + Bit(a, 4) + Bit(a, 8) + Bit(a, 2048)
           h == a \div 2
           b == h + (y % 2) * 2048
<1>a. a \in Int /\ 0 <= a /\ a <= 4095
  BY ChunkMeans
<1>1. y \in Int
  BY <1>a DEF Bit
<1>2. h \in Nat /\ h <= 2047
  BY ONLY <1>a
<1>3. lcc_alias_next(a) = IF b = 0 THEN 1 ELSE b
  BY DEF lcc_alias_next
<1> HIDE DEF y, h
<1>4. y % 2 = 0 \/ y % 2 = 1
  BY <1>1, BitType
<1>5. b \in Nat /\ b <= 4095
  BY ONLY <1>2, <1>4
<1> HIDE DEF b
<1>6. QED  BY <1>3, <1>5, ChunkMeans

\* A node that waits has ticks to go, and a node that has not joined is IDLE.
AliasType ==
    /\ TypeOK
    /\ \A n \in Nodes : alias_state[n] = "WAIT" => alias_wait_ticks[n] < ALIAS_WAIT_TICKS
    /\ \A n \in Nodes : n > count => alias_state[n] = "IDLE"

LEMMA IdType ==
    ASSUME NEW n \in Nodes
    PROVE  Ids[n] \in [1..4 -> Chunk]
BY AliasAssumption DEF Nodes, LCC_MAX_NODES

LEMMA CountFacts ==
    ASSUME count \in Nodes
    PROVE  /\ Len(Ids) \in Nat /\ count \in Nat /\ 1 <= count /\ count <= Len(Ids)
           /\ 1..count \subseteq Nodes
BY AliasAssumption DEF Nodes, LCC_MAX_NODES

\* The candidates stay within 12 bits.
LEMMA CandidateType ==
    ASSUME TypeOK, NEW n \in Nodes
    PROVE  Candidate(n) \in Chunk /\ lcc_alias_next(alias[n]) \in Chunk
<1>1. alias[n] \in Chunk
  BY DEF TypeOK
<1>2. lcc_alias_next(alias[n]) \in Chunk
  BY <1>1, NextType
<1>3. lcc_alias_seed(Ids[n]) \in Chunk
  BY IdType, SeedType
<1>4. QED  BY <1>1, <1>2, <1>3 DEF Candidate

\* The limits are numbers.
LEMMA AliasLimits ==
    /\ LCC_IF_RX_Q_LEN \in Nat \ {0} /\ ALIAS_WAIT_TICKS \in Nat \ {0}
    /\ RetryModulus \in Nat \ {0} /\ MaxRemote \in Nat
BY AliasAssumption

LEMMA AliasTypeInit == Init => AliasType
<1> SUFFICES ASSUME Init PROVE AliasType
  OBVIOUS
<1>1. 0 \in Chunk
  BY ChunkMeans
<1>2. 1 \in Nodes
  BY AliasAssumption DEF Nodes, LCC_MAX_NODES
<1>3. alias \in [Nodes -> Chunk] /\ alias_state \in [Nodes -> States]
  BY <1>1 DEF Init, States
<1>4. alias_wait_ticks \in [Nodes -> 0..ALIAS_WAIT_TICKS]
      /\ alias_retries \in [Nodes -> 0..RetryModulus - 1]
  BY AliasLimits DEF Init
<1>5. rx_q \in Seq(Frames) /\ Len(rx_q) <= LCC_IF_RX_Q_LEN
  BY AliasLimits DEF Init
<1>6. /\ count \in Nodes /\ alias_mtx \in BOOLEAN /\ connected \in BOOLEAN
      /\ prev_connected \in BOOLEAN /\ known \subseteq Nodes
      /\ objected \in [Nodes -> SUBSET RemoteAliases] /\ gave_up \in BOOLEAN
  BY <1>2 DEF Init
<1>a. cursor \in 0..count /\ remote \in 0..MaxRemote
  BY AliasLimits DEF Init
<1>7. TypeOK
  BY <1>3, <1>4, <1>5, <1>6, <1>a DEF TypeOK
<1>8. \A n \in Nodes : alias_state[n] = "IDLE"
  BY DEF Init
<1>9. QED  BY <1>7, <1>8 DEF AliasType

\* The next node's number.
LEMMA CursorType ==
    ASSUME count \in Nodes, cursor \in 0..count, NextNode
    PROVE  cursor' \in 0..count
BY CountFacts DEF NextNode

\* What a step of the alias machine of node n keeps.
MachineType ==
    /\ alias \in [Nodes -> Chunk] /\ alias_state \in [Nodes -> States]
    /\ alias_wait_ticks \in [Nodes -> 0..ALIAS_WAIT_TICKS]
    /\ alias_retries \in [Nodes -> 0..RetryModulus - 1]
    /\ alias_mtx \in BOOLEAN
    /\ \A n \in Nodes : alias_state[n] = "WAIT" => alias_wait_ticks[n] < ALIAS_WAIT_TICKS
    /\ \A n \in Nodes : n > count => alias_state[n] = "IDLE"

\* And the rest.
QueueType == rx_q \in Seq(Frames) /\ Len(rx_q) <= LCC_IF_RX_Q_LEN /\ remote \in 0..MaxRemote
LoopType ==
    /\ count \in Nodes /\ cursor \in 0..count /\ known \subseteq Nodes
    /\ connected \in BOOLEAN /\ prev_connected \in BOOLEAN /\ gave_up \in BOOLEAN
ObjectedType == objected \in [Nodes -> SUBSET RemoteAliases]

LEMMA AliasParts == AliasType <=> MachineType /\ QueueType /\ LoopType /\ ObjectedType
BY DEF AliasType, TypeOK, MachineType, QueueType, LoopType, ObjectedType

LEMMA AliasPartsStep == MachineType' /\ QueueType' /\ LoopType' /\ ObjectedType' => AliasType'
BY DEF AliasType, TypeOK, MachineType, QueueType, LoopType, ObjectedType

\* A state that has its place in the tick.
LEMMA StateNames == {"IDLE", "CID", "WAIT", "CONFIRMED", "CONFLICT"} = States
BY DEF States

LEMMA MachineStep ==
    ASSUME AliasType, NEW n \in Nodes, lcc_alias_tick(n)
    PROVE  MachineType'
<1> USE DEF machine
<1>a. MachineType /\ count \in Nodes /\ n \in Nodes
  BY AliasParts DEF LoopType
<1>b. Candidate(n) \in Chunk /\ lcc_alias_next(alias[n]) \in Chunk
  BY CandidateType DEF AliasType
<1>c. count' = count
  BY DEF lcc_alias_tick, TickSkip, TickIdle, TickCid, TickWait, TickConflict, RetryConflict
<1>d. ~(n > count)
  <2>1. n \in 1..count
    BY DEF lcc_alias_tick, TickSkip, TickIdle, TickCid, TickWait, TickConflict, RetryConflict,
           Ticking
  <2>2. QED  BY <2>1, CountFacts, <1>a
<1>1. CASE TickSkip(n)
  BY <1>1, <1>a DEF TickSkip, MachineType
<1>2. CASE TickIdle(n)
  <2>1. alias' \in [Nodes -> Chunk] /\ alias_mtx' \in BOOLEAN /\ alias_retries' = alias_retries
    BY <1>2, <1>a, <1>b DEF TickIdle, MachineType
  <2>2. CASE UNCHANGED <<alias_state, alias_wait_ticks>>
    BY <2>1, <2>2, <1>a, <1>c DEF MachineType
  <2>3. CASE /\ alias_state' = [alias_state EXCEPT ![n] = "CID"]
             /\ alias_wait_ticks' = [alias_wait_ticks EXCEPT ![n] = 0]
    <3>1. alias_state' \in [Nodes -> States]
      BY <2>3, <1>a, StateNames DEF MachineType
    <3>2. alias_wait_ticks' \in [Nodes -> 0..ALIAS_WAIT_TICKS]
      BY <2>3, <1>a, AliasLimits DEF MachineType
    <3>3. \A m \in Nodes : alias_state'[m] = "WAIT" => alias_wait_ticks'[m] < ALIAS_WAIT_TICKS
      BY <2>3, <1>a DEF MachineType
    <3>4. \A m \in Nodes : m > count => alias_state'[m] = "IDLE"
      BY <2>3, <1>a, <1>d DEF MachineType
    <3>5. QED  BY <2>1, <3>1, <3>2, <3>3, <3>4, <1>a, <1>c DEF MachineType
  <2>4. QED  BY <1>2, <2>2, <2>3 DEF TickIdle
<1>3. CASE TickCid(n)
  <2>1. /\ alias_state' = [alias_state EXCEPT ![n] = "WAIT"]
        /\ alias_wait_ticks' = [alias_wait_ticks EXCEPT ![n] = 0]
        /\ UNCHANGED <<alias, alias_retries, alias_mtx>>
    BY <1>3 DEF TickCid
  <2>2. alias_state' \in [Nodes -> States]
    BY <2>1, <1>a, StateNames DEF MachineType
  <2>3. alias_wait_ticks' \in [Nodes -> 0..ALIAS_WAIT_TICKS]
    BY <2>1, <1>a, AliasLimits DEF MachineType
  <2>4. \A m \in Nodes : alias_state'[m] = "WAIT" => alias_wait_ticks'[m] < ALIAS_WAIT_TICKS
    BY <2>1, <1>a, AliasLimits DEF MachineType
  <2>5. \A m \in Nodes : m > count => alias_state'[m] = "IDLE"
    BY <2>1, <1>a, <1>d DEF MachineType
  <2>6. QED  BY <2>1, <2>2, <2>3, <2>4, <2>5, <1>a, <1>c DEF MachineType
<1>4. CASE TickWait(n)
  <2>1. /\ alias_wait_ticks' = [alias_wait_ticks EXCEPT ![n] = @ + 1]
        /\ UNCHANGED <<alias, alias_retries>> /\ alias_state[n] = "WAIT"
    BY <1>4 DEF TickWait, Ticking
  <2>2. alias_wait_ticks[n] \in Nat /\ alias_wait_ticks[n] < ALIAS_WAIT_TICKS
    BY <2>1, <1>a, AliasLimits DEF MachineType
  <2>3. alias_wait_ticks' \in [Nodes -> 0..ALIAS_WAIT_TICKS]
    BY <2>1, <2>2, <1>a, AliasLimits DEF MachineType
  <2>4. alias_wait_ticks'[n] \in Nat /\ \A m \in Nodes : m # n => alias_wait_ticks'[m] = alias_wait_ticks[m]
    BY <2>1, <2>2, <1>a DEF MachineType
  <2>5. CASE /\ alias_state' = [alias_state EXCEPT ![n] = "CONFIRMED"]
             /\ alias_mtx' = FALSE
    <3>1. alias_state' \in [Nodes -> States]
      BY <2>5, <1>a, StateNames DEF MachineType
    <3>2. \A m \in Nodes : alias_state'[m] = "WAIT" => alias_wait_ticks'[m] < ALIAS_WAIT_TICKS
      BY <2>5, <2>4, <1>a DEF MachineType
    <3>3. \A m \in Nodes : m > count => alias_state'[m] = "IDLE"
      BY <2>5, <1>a, <1>d DEF MachineType
    <3>4. QED  BY <2>1, <2>3, <2>5, <3>1, <3>2, <3>3, <1>a, <1>c DEF MachineType
  <2>6. CASE alias_wait_ticks'[n] < ALIAS_WAIT_TICKS /\ UNCHANGED <<alias_state, alias_mtx>>
    <3>1. \A m \in Nodes : alias_state'[m] = "WAIT" => alias_wait_ticks'[m] < ALIAS_WAIT_TICKS
      BY <2>6, <2>4, <1>a DEF MachineType
    <3>2. QED  BY <2>1, <2>3, <2>6, <3>1, <1>a, <1>c DEF MachineType
  <2>7. CASE alias_wait_ticks'[n] >= ALIAS_WAIT_TICKS
    BY <1>4, <2>5, <2>7 DEF TickWait
  <2>8. CASE ~(alias_wait_ticks'[n] >= ALIAS_WAIT_TICKS)
    <3>1. alias_wait_ticks'[n] < ALIAS_WAIT_TICKS
      BY ONLY <2>4, <2>8, AliasLimits
    <3>2. UNCHANGED <<alias_state, alias_mtx>>
      BY <1>4, <2>8 DEF TickWait
    <3>3. QED  BY <2>6, <3>1, <3>2
  <2>9. QED  BY <2>7, <2>8
<1>5. CASE TickConflict(n)
  <2>1. /\ alias_retries' = [alias_retries EXCEPT ![n] = (@ + 1) % RetryModulus]
        /\ alias_wait_ticks' = alias_wait_ticks /\ alias_mtx' = FALSE
    BY <1>5 DEF TickConflict, RetryConflict
  <2>2. alias_retries' \in [Nodes -> 0..RetryModulus - 1]
    <3>1. alias_retries[n] \in Nat
      BY <1>a DEF MachineType
    <3>2. (alias_retries[n] + 1) % RetryModulus \in 0..RetryModulus - 1
      BY <3>1, AliasLimits
    <3>3. QED  BY <2>1, <3>2, <1>a DEF MachineType
  <2>3. CASE UNCHANGED <<alias, alias_state>>
    BY <2>1, <2>2, <2>3, <1>a, <1>c DEF MachineType
  <2>4. CASE /\ alias' = [alias EXCEPT ![n] = lcc_alias_next(@)]
             /\ alias_state' = [alias_state EXCEPT ![n] = "IDLE"]
    <3>1. alias' \in [Nodes -> Chunk]
      BY <2>4, <1>a, <1>b DEF MachineType
    <3>2. alias_state' \in [Nodes -> States]
      BY <2>4, <1>a, StateNames DEF MachineType
    <3>3. \A m \in Nodes : alias_state'[m] # "IDLE" => alias_state'[m] = alias_state[m]
      BY <2>4, <1>a DEF MachineType
    <3>4. QED  BY <2>1, <2>2, <3>1, <3>2, <3>3, <1>a, <1>c DEF MachineType
  <2>5. QED  BY <1>5, <2>3, <2>4 DEF TickConflict, RetryConflict
<1>6. QED  BY <1>1, <1>2, <1>3, <1>4, <1>5 DEF lcc_alias_tick

LEMMA AliasTypeStep ==
    ASSUME AliasType, Next
    PROVE  AliasType'
<1> USE DEF usb, machine
<1>a. MachineType /\ QueueType /\ LoopType /\ ObjectedType
  BY AliasParts
<1>c. count \in Nat /\ 1 <= count /\ count <= Len(Ids) /\ Len(Ids) \in Nat
      /\ 1..count \subseteq Nodes
  BY CountFacts, <1>a DEF LoopType
<1>k. connected \in BOOLEAN /\ Confirmed \subseteq Nodes /\ known \subseteq Nodes
  BY <1>a, <1>c DEF LoopType, Confirmed
<1>1. CASE tick
  <2>1. MachineType' /\ QueueType' /\ ObjectedType'
    BY <1>1, <1>a DEF tick, MachineType, QueueType, ObjectedType
  <2>2. known' \subseteq Nodes
    BY <1>1, <1>k DEF tick, reannounce_all_confirmed, tell_host
  <2>3. LoopType'
    BY <1>1, <2>2, <1>c, <1>a DEF tick, LoopType
  <2>4. QED  BY <2>1, <2>3, AliasPartsStep
<1>2. ASSUME NEW n \in Nodes, lcc_alias_tick(n) PROVE AliasType'
  <2>1. MachineType'
    BY <1>2, MachineStep
  <2>2. UNCHANGED <<rx_q, remote, objected, count, connected, prev_connected>> /\ NextNode
    BY <1>2 DEF lcc_alias_tick, TickSkip, TickIdle, TickCid, TickWait, TickConflict, RetryConflict
  <2>3. gave_up' \in BOOLEAN
    BY <1>2, <1>a DEF lcc_alias_tick, TickSkip, TickIdle, TickCid, TickWait, TickConflict,
                      RetryConflict, LoopType
  <2>4. known' \subseteq Nodes
    BY <1>2, <1>k DEF lcc_alias_tick, TickSkip, TickIdle, TickCid, TickWait, TickConflict,
                      RetryConflict, emit_claim_and_init, tell_host
  <2>5. cursor' \in 0..count
    BY <2>2, <1>a, CursorType DEF LoopType
  <2>6. QueueType' /\ ObjectedType'
    BY <2>2, <1>a DEF QueueType, ObjectedType
  <2>7. LoopType'
    BY <2>2, <2>3, <2>4, <2>5, <1>a DEF LoopType
  <2>8. QED  BY <2>1, <2>6, <2>7, AliasPartsStep
<1>3. CASE lcc_if_dispatch
  <2> DEFINE f == Head(rx_q)
  <2>1. f \in Frames /\ rx_q' \in Seq(Frames) /\ Len(rx_q') = Len(rx_q) - 1 /\ Len(rx_q) \in Nat
    BY <1>3, <1>a DEF lcc_if_dispatch, QueueType
  <2>2. QueueType'
    BY <1>3, <2>1, <1>a, AliasLimits DEF lcc_if_dispatch, QueueType
  <2>3. Collides(f) \subseteq 1..count /\ Asked(f) \subseteq Nodes
    BY <1>k DEF Collides, Asked
  <2>4. f.src \in RemoteAliases
    BY <2>1 DEF Frames
  <2>5. LoopType'
    BY <1>3, <2>3, <1>k, <1>a DEF lcc_if_dispatch, LoopType, tell_host
  <2>6. ObjectedType'
    BY <1>3, <2>4, <1>a DEF lcc_if_dispatch, ObjectedType
  <2>7. /\ alias_state' \in [Nodes -> States]
        /\ \A n \in Nodes : alias_state'[n] = alias_state[n]
                             \/ (alias_state'[n] = "CONFLICT" /\ n \in 1..count)
    <3> DEFINE g(n) == IF n \in Collides(f) /\ lcc_alias_on_collision(n)
                       THEN "CONFLICT" ELSE alias_state[n]
    <3>1. alias_state' = [n \in Nodes |-> g(n)]
      BY <1>3 DEF lcc_if_dispatch
    <3>2. \A n \in Nodes : g(n) \in States
      <4>1. \A n \in Nodes : alias_state[n] \in States
        BY <1>a DEF MachineType
      <4>2. QED  BY <4>1, StateNames
    <3>3. \A n \in Nodes : g(n) = alias_state[n] \/ (g(n) = "CONFLICT" /\ n \in 1..count)
      BY <2>3
    <3> HIDE DEF g
    <3>4. QED  BY <3>1, <3>2, <3>3
  <2>8. \A n \in 1..count : ~(n > count)
    BY <1>c
  <2>9. UNCHANGED <<count, alias, alias_wait_ticks, alias_retries, alias_mtx>>
    BY <1>3 DEF lcc_if_dispatch
  <2>10. MachineType'
    BY <2>7, <2>8, <2>9, <1>a DEF MachineType
  <2>11. QED  BY <2>2, <2>5, <2>6, <2>10, AliasPartsStep
<1>4. CASE lcc_node_register
  <2>1. count' \in Nodes /\ cursor' \in 0..count' /\ \A n \in Nodes : n > count' => n > count
    BY <1>4, <1>c DEF lcc_node_register, Nodes, LCC_MAX_NODES
  <2>2. UNCHANGED <<alias, alias_state, alias_wait_ticks, alias_retries, alias_mtx, rx_q, remote,
                    known, connected, prev_connected, gave_up, objected>>
    BY <1>4 DEF lcc_node_register
  <2>3. MachineType'
    BY <2>1, <2>2, <1>a DEF MachineType
  <2>4. QED  BY <2>1, <2>2, <2>3, <1>a, AliasPartsStep DEF QueueType, LoopType, ObjectedType
<1>5. ASSUME NEW f \in Frames, lcc_if_enqueue_frame(f) PROVE AliasType'
  <2>1. QueueType'
    BY <1>5, <1>a, AliasLimits DEF lcc_if_enqueue_frame, QueueType
  <2>2. QED  BY <1>5, <2>1, <1>a, AliasPartsStep
             DEF lcc_if_enqueue_frame, MachineType, LoopType, ObjectedType
<1>6. CASE usb_connect
  BY <1>6, <1>a, AliasPartsStep DEF usb_connect, MachineType, LoopType, ObjectedType, QueueType
<1>7. CASE usb_disconnect
  BY <1>7, <1>a, AliasPartsStep DEF usb_disconnect, MachineType, LoopType, ObjectedType, QueueType
<1>8. QED
  BY <1>1, <1>2, <1>3, <1>4, <1>5, <1>6, <1>7 DEF Next

\* ReservationsSerialized, node by node.
Reserves(n) == alias_state[n] \in {"CID", "WAIT", "CONFLICT"}
Serialized ==
    ~gave_up => /\ alias_mtx <=> \E n \in Nodes : Reserves(n)
                /\ \A m, n \in Nodes : Reserves(m) /\ Reserves(n) => m = n

LEMMA SerializedMeans == Serialized <=> ReservationsSerialized
BY DEF Serialized, ReservationsSerialized, Reserves, Reserving

\* What a step that leaves all reservations under way keeps.
LEMMA SameReservations ==
    ASSUME Serialized, UNCHANGED <<gave_up, alias_mtx>>,
           \A n \in Nodes : Reserves(n)' <=> Reserves(n)
    PROVE  Serialized'
BY DEF Serialized

\* What a node does that frees the lock.
LEMMA ReservationEnds ==
    ASSUME Serialized, alias_state \in [Nodes -> States], NEW n \in Nodes, Reserves(n),
           NEW s \in {"IDLE", "CONFIRMED"},
           alias_state' = [alias_state EXCEPT ![n] = s], alias_mtx' = FALSE, gave_up' = gave_up
    PROVE  Serialized'
<1>1. ~Reserves(n)' /\ \A m \in Nodes : m # n => (Reserves(m)' <=> Reserves(m))
  BY DEF Reserves
<1>2. QED  BY <1>1 DEF Serialized

LEMMA SerializedStep ==
    ASSUME AliasType, Serialized, Next
    PROVE  Serialized'
<1> USE DEF usb, machine
<1>a. alias_state \in [Nodes -> States]
  BY DEF AliasType, TypeOK
<1>1. CASE tick
  BY <1>1, SameReservations DEF tick, Reserves
<1>2. ASSUME NEW n \in Nodes, lcc_alias_tick(n) PROVE Serialized'
  <2>1. CASE TickSkip(n)
    BY <2>1, SameReservations DEF TickSkip, Reserves
  <2>2. CASE TickIdle(n)
    <3>1. CASE UNCHANGED <<alias_mtx, alias_state>>
      BY <2>2, <3>1, SameReservations DEF TickIdle, Reserves
    <3>2. CASE ~alias_mtx /\ alias_mtx' /\ alias_state' = [alias_state EXCEPT ![n] = "CID"]
      <4>1. Reserves(n)' /\ \A m \in Nodes : m # n => (Reserves(m)' <=> Reserves(m))
        BY <3>2, <1>a DEF Reserves
      <4>2. gave_up' = gave_up
        BY <2>2 DEF TickIdle
      <4>3. QED  BY <3>2, <4>1, <4>2 DEF Serialized
    <3>3. QED  BY <2>2, <3>1, <3>2 DEF TickIdle
  <2>3. CASE TickCid(n)
    <3>1. \A m \in Nodes : Reserves(m)' <=> Reserves(m)
      BY <2>3, <1>a DEF TickCid, Ticking, Reserves
    <3>2. QED  BY <2>3, <3>1, SameReservations DEF TickCid
  <2>4. CASE TickWait(n)
    <3>1. Reserves(n) /\ gave_up' = gave_up
      BY <2>4 DEF TickWait, Ticking, Reserves
    <3>2. CASE alias_state' = [alias_state EXCEPT ![n] = "CONFIRMED"] /\ alias_mtx' = FALSE
      BY <3>1, <3>2, <1>a, ReservationEnds
    <3>3. CASE UNCHANGED <<alias_state, alias_mtx>>
      BY <3>1, <3>3, SameReservations DEF Reserves
    <3>4. QED  BY <2>4, <3>2, <3>3 DEF TickWait
  <2>5. CASE TickConflict(n)
    <3>1. Reserves(n) /\ alias_mtx' = FALSE
      BY <2>5 DEF TickConflict, RetryConflict, Ticking, Reserves
    <3>2. CASE gave_up'
      BY <3>2 DEF Serialized
    <3>3. CASE alias_state' = [alias_state EXCEPT ![n] = "IDLE"] /\ gave_up' = gave_up
      BY <3>1, <3>3, <1>a, ReservationEnds
    <3>4. QED  BY <2>5, <3>2, <3>3 DEF TickConflict, RetryConflict
  <2>6. QED  BY <1>2, <2>1, <2>2, <2>3, <2>4, <2>5 DEF lcc_alias_tick
<1>3. CASE lcc_if_dispatch
  <2>1. \A m \in Nodes : Reserves(m)' <=> Reserves(m)
    BY <1>3, <1>a DEF lcc_if_dispatch, Reserves, lcc_alias_on_collision
  <2>2. QED  BY <1>3, <2>1, SameReservations DEF lcc_if_dispatch
<1>4. CASE lcc_node_register
  BY <1>4, SameReservations DEF lcc_node_register, Reserves
<1>5. ASSUME NEW f \in Frames, lcc_if_enqueue_frame(f) PROVE Serialized'
  BY <1>5, SameReservations DEF lcc_if_enqueue_frame, Reserves
<1>6. CASE usb_connect
  BY <1>6, SameReservations DEF usb_connect, Reserves
<1>7. CASE usb_disconnect
  BY <1>7, SameReservations DEF usb_disconnect, Reserves
<1>8. QED
  BY <1>1, <1>2, <1>3, <1>4, <1>5, <1>6, <1>7 DEF Next

\* The host is told of a node when it claims its alias, and of all when it connects.
LEMMA HostStep ==
    ASSUME AliasType, HostKnowsAliases, Next, ~QuickReplug
    PROVE  HostKnowsAliases'
<1> USE DEF usb, machine
<1>a. /\ alias_state \in [Nodes -> States] /\ count \in Nat /\ 1..count \subseteq Nodes
      /\ connected \in BOOLEAN /\ prev_connected \in BOOLEAN
      /\ \A n \in Nodes : n > count => alias_state[n] = "IDLE"
  BY CountFacts DEF AliasType, TypeOK
<1>b. ASSUME UNCHANGED <<connected, prev_connected>>, Confirmed' \subseteq Confirmed,
             known \subseteq known'
      PROVE  HostKnowsAliases'
  BY <1>b DEF HostKnowsAliases
<1>1. CASE tick
  BY <1>1, <1>a DEF tick, reannounce_all_confirmed, tell_host, Confirmed, HostKnowsAliases
<1>2. ASSUME NEW n \in Nodes, lcc_alias_tick(n) PROVE HostKnowsAliases'
  <2>0. UNCHANGED <<count, connected, prev_connected>>
    BY <1>2 DEF lcc_alias_tick, TickSkip, TickIdle, TickCid, TickWait, TickConflict, RetryConflict
  <2>1. CASE TickSkip(n)
    BY <2>1, <1>b DEF TickSkip, Confirmed
  <2>2. CASE TickIdle(n)
    <3>1. \A m \in 1..count : alias_state'[m] = "CONFIRMED" => alias_state[m] = "CONFIRMED"
      BY <2>2, <1>a DEF TickIdle
    <3>2. known' = known
      BY <2>2 DEF TickIdle
    <3>3. QED  BY <3>1, <3>2, <2>0, <1>b DEF Confirmed
  <2>3. CASE TickCid(n)
    <3>1. \A m \in 1..count : alias_state'[m] = "CONFIRMED" => alias_state[m] = "CONFIRMED"
      BY <2>3, <1>a DEF TickCid
    <3>2. known' = known
      BY <2>3 DEF TickCid
    <3>3. QED  BY <3>1, <3>2, <2>0, <1>b DEF Confirmed
  <2>4. CASE TickWait(n)
    <3>1. CASE UNCHANGED <<alias_state, known>>
      BY <3>1, <2>0, <1>b DEF Confirmed
    <3>2. CASE alias_state' = [alias_state EXCEPT ![n] = "CONFIRMED"] /\ tell_host({n})
      <4>1. \A m \in 1..count : alias_state'[m] = "CONFIRMED" => alias_state[m] = "CONFIRMED" \/ m = n
        BY <3>2, <1>a
      <4>2. connected => known' = known \union {n}
        BY <3>2 DEF tell_host
      <4>3. QED  BY <4>1, <4>2, <2>0 DEF HostKnowsAliases, Confirmed
    <3>3. QED  BY <2>4, <3>1, <3>2 DEF TickWait, emit_claim_and_init
  <2>5. CASE TickConflict(n)
    <3>1. \A m \in 1..count : alias_state'[m] = "CONFIRMED" => alias_state[m] = "CONFIRMED"
      BY <2>5, <1>a DEF TickConflict, RetryConflict
    <3>2. known' = known
      BY <2>5 DEF TickConflict, RetryConflict
    <3>3. QED  BY <3>1, <3>2, <2>0, <1>b DEF Confirmed
  <2>6. QED  BY <1>2, <2>1, <2>2, <2>3, <2>4, <2>5 DEF lcc_alias_tick
<1>3. CASE lcc_if_dispatch
  <2>1. UNCHANGED <<count, connected, prev_connected>>
    BY <1>3 DEF lcc_if_dispatch
  <2>2. \A m \in 1..count : alias_state'[m] = "CONFIRMED" => alias_state[m] = "CONFIRMED"
    BY <1>3, <1>a DEF lcc_if_dispatch
  <2>3. known \subseteq known'
    BY <1>3 DEF lcc_if_dispatch, tell_host
  <2>4. QED  BY <2>1, <2>2, <2>3, <1>b DEF Confirmed
<1>4. CASE lcc_node_register
  <2>1. UNCHANGED <<alias_state, connected, prev_connected, known>> /\ count' = count + 1
        /\ count < Len(Ids)
    BY <1>4 DEF lcc_node_register, LCC_MAX_NODES
  <2>2. \A m \in 1..count' : m \in 1..count \/ (m \in Nodes /\ m > count)
    BY <2>1, <1>a, AliasAssumption DEF Nodes, LCC_MAX_NODES
  <2>3. QED  BY <2>1, <2>2, <1>a, <1>b DEF Confirmed
<1>5. ASSUME NEW f \in Frames, lcc_if_enqueue_frame(f) PROVE HostKnowsAliases'
  BY <1>5, <1>b DEF lcc_if_enqueue_frame, Confirmed
<1>6. CASE usb_connect
  BY <1>6 DEF usb_connect, HostKnowsAliases
<1>7. CASE usb_disconnect
  BY <1>7 DEF usb_disconnect, HostKnowsAliases
<1>8. QED
  BY <1>1, <1>2, <1>3, <1>4, <1>5, <1>6, <1>7 DEF Next

(* A node is at its k-th candidate, and met objections only to those before *)
(* (and to this one while it is in CONFLICT); each took a frame of its own. *)
AtCandidate(n, k) ==
    /\ \/ alias[n] = 0 /\ k = 0 /\ alias_state[n] = "IDLE"
       \/ alias[n] = CandidatesOf(n)[k]
    /\ \A x \in objected[n] : \E j \in 0..k :
            x = CandidatesOf(n)[j] /\ (j < k \/ alias_state[n] = "CONFLICT")
    /\ k + (IF alias_state[n] = "CONFLICT" THEN 1 ELSE 0) + Len(rx_q) <= remote

Tried == \A n \in Nodes : \E k \in 0..MaxRemote : AtCandidate(n, k)

\* CandidatesAssumption, taken apart.
LEMMA CandidateFacts ==
    ASSUME NEW n \in Nodes
    PROVE  /\ CandidatesOf(n)[0] = lcc_alias_seed(Ids[n])
           /\ \A k \in 1..MaxRemote : CandidatesOf(n)[k] = lcc_alias_next(CandidatesOf(n)[k - 1])
           /\ \A j, k \in 0..MaxRemote : CandidatesOf(n)[j] = CandidatesOf(n)[k] => j = k
           /\ \A k \in 0..MaxRemote : CandidatesOf(n)[k] # 0
<1>1. CandidatesOf(n) \in [0..MaxRemote -> Chunk \ {0}]
  BY CandidatesAssumption DEF IsCandidates
<1>2. QED  BY <1>1, CandidatesAssumption DEF IsCandidates

LEMMA TriedMeans == ASSUME AliasType, Tried PROVE ObjectionsRespected
<1> SUFFICES ASSUME NEW n \in Nodes, alias_state[n] \in {"CID", "WAIT", "CONFIRMED"},
                    alias[n] \in objected[n]
             PROVE  FALSE
  BY DEF ObjectionsRespected
<1>1. PICK k \in 0..MaxRemote : AtCandidate(n, k)
  BY DEF Tried
<1>2. alias[n] = CandidatesOf(n)[k]
  BY <1>1 DEF AtCandidate
<1>3. PICK j \in 0..k : alias[n] = CandidatesOf(n)[j] /\ j < k
  BY <1>1 DEF AtCandidate
<1>4. j \in 0..MaxRemote /\ j # k
  BY <1>3, AliasLimits
<1>5. QED  BY <1>2, <1>3, <1>4, CandidateFacts

LEMMA TriedInit == Init => Tried
<1> SUFFICES ASSUME Init, NEW n \in Nodes PROVE AtCandidate(n, 0) /\ 0 \in 0..MaxRemote
  BY DEF Tried
<1>1. alias[n] = 0 /\ alias_state[n] = "IDLE" /\ objected[n] = {} /\ Len(rx_q) = 0 /\ remote = 0
  BY DEF Init
<1>2. QED  BY <1>1, AliasLimits DEF AtCandidate

\* A node that a step does not touch.
LEMMA SameCandidate ==
    ASSUME NEW n \in Nodes, NEW k \in 0..MaxRemote, AtCandidate(n, k), AliasType, AliasType',
           alias'[n] = alias[n], alias_state'[n] = alias_state[n], objected'[n] = objected[n],
           \/ Len(rx_q') <= Len(rx_q) /\ remote' = remote
           \/ Len(rx_q') <= Len(rx_q) + 1 /\ remote' = remote + 1
    PROVE  AtCandidate(n, k)'
<1>1. Len(rx_q) \in Nat /\ Len(rx_q') \in Nat /\ remote \in Nat /\ remote' \in Nat /\ k \in Nat
  <2>1. remote \in Nat /\ k \in Nat
    BY AliasLimits DEF AliasType, TypeOK
  <2>2. remote' \in Nat
    BY AliasLimits DEF AliasType, TypeOK
  <2>3. rx_q \in Seq(Frames) /\ (rx_q \in Seq(Frames))'
    BY DEF AliasType, TypeOK
  <2>4. Len(rx_q) \in Nat /\ Len(rx_q') \in Nat
    BY ONLY <2>3 DEF Frames
  <2>5. QED  BY <2>1, <2>2, <2>4
<1>2. (k + (IF alias_state[n] = "CONFLICT" THEN 1 ELSE 0) + Len(rx_q) <= remote)
      => (k + (IF alias_state'[n] = "CONFLICT" THEN 1 ELSE 0) + Len(rx_q') <= remote')
  BY <1>1
<1>3. CandidatesOf(n)' = CandidatesOf(n)
  OBVIOUS
<1>4. QED  BY <1>2, <1>3 DEF AtCandidate

LEMMA TriedStep ==
    ASSUME AliasType, AliasType', Tried, Next
    PROVE  Tried'
<1> USE DEF usb, machine
<1> SUFFICES ASSUME NEW n \in Nodes PROVE \E k \in 0..MaxRemote : AtCandidate(n, k)'
  BY DEF Tried
<1>k. PICK k \in 0..MaxRemote : AtCandidate(n, k)
  BY DEF Tried
<1>t. /\ alias \in [Nodes -> Chunk] /\ alias_state \in [Nodes -> States] /\ k \in Nat
      /\ objected \in [Nodes -> SUBSET RemoteAliases]
      /\ rx_q \in Seq(Frames) /\ Len(rx_q) \in Nat /\ remote \in Nat /\ remote <= MaxRemote
  <2>1. remote \in Nat /\ remote <= MaxRemote /\ k \in Nat
    BY AliasLimits DEF AliasType, TypeOK
  <2>2. rx_q \in Seq(Frames) /\ Len(rx_q) \in Nat
    BY DEF AliasType, TypeOK
  <2>3. QED  BY <2>1, <2>2 DEF AliasType, TypeOK
<1>s. ASSUME alias'[n] = alias[n], alias_state'[n] = alias_state[n], objected'[n] = objected[n],
             \/ Len(rx_q') <= Len(rx_q) /\ remote' = remote
             \/ Len(rx_q') <= Len(rx_q) + 1 /\ remote' = remote + 1
      PROVE  \E j \in 0..MaxRemote : AtCandidate(n, j)'
  BY <1>k, <1>s, SameCandidate
<1>1. CASE tick
  BY <1>1, <1>s, <1>t DEF tick
<1>2. ASSUME NEW m \in Nodes, lcc_alias_tick(m)
      PROVE  \E j \in 0..MaxRemote : AtCandidate(n, j)'
  <2>0. UNCHANGED <<objected, rx_q, remote>>
    BY <1>2 DEF lcc_alias_tick, TickSkip, TickIdle, TickCid, TickWait, TickConflict, RetryConflict
  <2>1. CASE n # m
    <3>1. alias'[n] = alias[n] /\ alias_state'[n] = alias_state[n]
      BY <1>2, <2>1, <1>t
         DEF lcc_alias_tick, TickSkip, TickIdle, TickCid, TickWait, TickConflict, RetryConflict
    <3>2. QED  BY <3>1, <2>0, <1>s, <1>t
  <2>2. CASE n = m
    <3>1. CASE TickSkip(n)
      BY <3>1, <2>0, <1>s, <1>t DEF TickSkip
    <3>2. CASE TickIdle(n)
      <4>1. alias_state[n] = "IDLE" /\ alias'[n] = Candidate(n) /\ alias_state'[n] \in {"IDLE", "CID"}
        BY <3>2, <1>t DEF TickIdle, Ticking
      <4>2. Candidate(n) = CandidatesOf(n)[k]
        BY <1>k, CandidateFacts DEF Candidate, AtCandidate
      <4>3. \A x \in objected[n] : \E j \in 0..k : x = CandidatesOf(n)[j] /\ j < k
        BY <1>k, <4>1 DEF AtCandidate
      <4>4. k + Len(rx_q) <= remote
        BY <1>k, <4>1, <1>t DEF AtCandidate
      <4>5. QED  BY <4>1, <4>2, <4>3, <4>4, <2>0, <1>t DEF AtCandidate
    <3>3. CASE TickCid(n)
      <4>1. alias_state[n] = "CID" /\ alias'[n] = alias[n] /\ alias_state'[n] = "WAIT"
        BY <3>3, <1>t DEF TickCid, Ticking
      <4>2. QED  BY <4>1, <2>0, <1>k, <1>t DEF AtCandidate
    <3>4. CASE TickWait(n)
      <4>1. alias_state[n] = "WAIT" /\ alias'[n] = alias[n] /\ alias_state'[n] \in {"WAIT", "CONFIRMED"}
        BY <3>4, <1>t DEF TickWait, Ticking
      <4>2. QED  BY <4>1, <2>0, <1>k, <1>t DEF AtCandidate
    <3>5. CASE TickConflict(n)
      <4>1. CASE UNCHANGED <<alias, alias_state>>
        BY <4>1, <2>0, <1>s, <1>t
      <4>2. CASE /\ alias' = [alias EXCEPT ![n] = lcc_alias_next(@)]
                 /\ alias_state' = [alias_state EXCEPT ![n] = "IDLE"]
        <5>1. alias_state[n] = "CONFLICT"
          BY <3>5 DEF TickConflict, RetryConflict, Ticking
        <5>2. k + 1 + Len(rx_q) <= remote /\ alias[n] = CandidatesOf(n)[k]
          BY <5>1, <1>k DEF AtCandidate
        <5>3. k + 1 \in 1..MaxRemote /\ k + 1 \in 0..MaxRemote /\ (k + 1) - 1 = k
          BY <5>2, <1>t, AliasLimits
        <5>4. CandidatesOf(n)[k + 1] = lcc_alias_next(CandidatesOf(n)[(k + 1) - 1])
          BY <5>3, CandidateFacts
        <5>5. alias'[n] = CandidatesOf(n)[k + 1] /\ alias_state'[n] = "IDLE"
          BY <4>2, <5>2, <5>3, <5>4, <1>t
        <5>6. \A x \in objected[n] : \E j \in 0..k : x = CandidatesOf(n)[j]
          BY <1>k DEF AtCandidate
        <5>7. \A j \in 0..k : j \in 0..(k + 1) /\ j < k + 1
          BY <1>t
        <5>8. AtCandidate(n, k + 1)'
          BY <5>2, <5>5, <5>6, <5>7, <2>0 DEF AtCandidate
        <5>9. QED  BY <5>3, <5>8
      <4>3. QED  BY <3>5, <4>1, <4>2 DEF TickConflict, RetryConflict
    <3>6. QED  BY <1>2, <2>2, <3>1, <3>2, <3>3, <3>4, <3>5 DEF lcc_alias_tick
  <2>3. QED  BY <2>1, <2>2
<1>3. CASE lcc_if_dispatch
  <2> DEFINE f == Head(rx_q)
  <2>1. Len(rx_q') = Len(rx_q) - 1 /\ remote' = remote /\ alias' = alias
    BY <1>3, <1>t DEF lcc_if_dispatch
  <2>2. CASE n \in Collides(f) /\ alias_state[n] \in {"CID", "WAIT"}
    <3>1. f.src = alias[n]
      BY <2>2 DEF Collides
    <3>2. alias_state'[n] = "CONFLICT" /\ objected'[n] = objected[n] \union {alias[n]}
      BY <1>3, <2>2, <3>1, <1>t DEF lcc_if_dispatch, lcc_alias_on_collision
    <3>3. alias[n] = CandidatesOf(n)[k] /\ k + Len(rx_q) <= remote /\ k \in 0..k
      BY <2>2, <1>k, <1>t DEF AtCandidate
    <3>4. \A x \in objected'[n] : \E j \in 0..k : x = CandidatesOf(n)[j]
      BY <3>2, <3>3, <1>k DEF AtCandidate
    <3>5. k + 1 + Len(rx_q') <= remote'
      BY <3>3, <2>1, <1>t
    <3>6. AtCandidate(n, k)'
      BY <3>2, <3>3, <3>4, <3>5, <2>1 DEF AtCandidate
    <3>7. QED  BY <3>6
  <2>3. CASE ~(n \in Collides(f) /\ alias_state[n] \in {"CID", "WAIT"})
    <3>1. alias_state'[n] = alias_state[n] /\ objected'[n] = objected[n]
      BY <1>3, <2>3, <1>t DEF lcc_if_dispatch, lcc_alias_on_collision
    <3>2. QED  BY <3>1, <2>1, <1>s, <1>t
  <2>4. QED  BY <2>2, <2>3
<1>4. CASE lcc_node_register
  BY <1>4, <1>s, <1>t DEF lcc_node_register
<1>5. ASSUME NEW f \in Frames, lcc_if_enqueue_frame(f)
      PROVE  \E j \in 0..MaxRemote : AtCandidate(n, j)'
  <2>1. UNCHANGED <<alias, alias_state, objected>> /\ remote' = remote + 1
    BY <1>5 DEF lcc_if_enqueue_frame
  <2>2. Len(rx_q') <= Len(rx_q) + 1
    BY <1>5, <1>t DEF lcc_if_enqueue_frame
  <2>3. QED  BY <2>1, <2>2, <1>s
<1>6. CASE usb_connect
  BY <1>6, <1>s, <1>t DEF usb_connect
<1>7. CASE usb_disconnect
  BY <1>7, <1>s, <1>t DEF usb_disconnect
<1>8. QED
  BY <1>1, <1>2, <1>3, <1>4, <1>5, <1>6, <1>7 DEF Next

-----------------------------------------------------------------------------
(* Train search.                                                           *)


\* A sequence with one more element.
LEMMA Appended ==
    ASSUME NEW S, NEW s \in Seq(S), NEW v \in S, NEW w \in Seq(S), Len(w) = Len(s) + 1,
           w[Len(s) + 1] = v, \A i \in 1..Len(s) : w[i] = s[i]
    PROVE  Append(s, v) = w
<1>1. /\ Append(s, v) \in Seq(S) /\ Len(Append(s, v)) = Len(s) + 1
      /\ \A i \in 1..Len(s) : Append(s, v)[i] = s[i]
      /\ Append(s, v)[Len(s) + 1] = v
  BY AppendProperties
<1>2. \A i \in 1..Len(s) + 1 : i \in 1..Len(s) \/ i = Len(s) + 1
  BY LenProperties
<1>3. \A i \in 1..Len(s) + 1 : Append(s, v)[i] = w[i]
  BY <1>1, <1>2
<1>4. QED  BY <1>1, <1>3, SeqEqual

LEMMA AppendTo1 ==
    ASSUME NEW x \in Int, NEW y \in Int
    PROVE  Append(<<x>>, y) = <<x, y>>
<1> DEFINE s == <<x>>
           w == <<x, y>>
<1>1. s \in Seq(Int) /\ Len(s) = 1 /\ s[1] = x
  OBVIOUS
<1>2. w \in Seq(Int) /\ Len(w) = 2 /\ w[1] = x /\ w[2] = y
  OBVIOUS
<1> HIDE DEF s, w
<1>3. \A i \in 1..1 : w[i] = s[i]
  BY <1>1, <1>2
<1>4. Len(w) = Len(s) + 1 /\ w[Len(s) + 1] = y /\ \A i \in 1..Len(s) : w[i] = s[i]
  BY <1>1, <1>2, <1>3
<1>5. Append(s, y) = w
  BY ONLY <1>1, <1>2, <1>4, y \in Int, Appended
<1>6. QED  BY <1>5 DEF s, w

LEMMA AppendTo2 ==
    ASSUME NEW x \in Int, NEW y \in Int, NEW z \in Int
    PROVE  Append(<<x, y>>, z) = <<x, y, z>>
<1> DEFINE s == <<x, y>>
           w == <<x, y, z>>
<1>1. s \in Seq(Int) /\ Len(s) = 2 /\ s[1] = x /\ s[2] = y
  OBVIOUS
<1>2. w \in Seq(Int) /\ Len(w) = 3 /\ w[1] = x /\ w[2] = y /\ w[3] = z
  OBVIOUS
<1> HIDE DEF s, w
<1>3. \A i \in 1..2 : w[i] = s[i]
  BY <1>1, <1>2
<1>4. Len(w) = Len(s) + 1 /\ w[Len(s) + 1] = z /\ \A i \in 1..Len(s) : w[i] = s[i]
  BY <1>1, <1>2, <1>3
<1>5. Append(s, z) = w
  BY ONLY <1>1, <1>2, <1>4, z \in Int, Appended
<1>6. QED  BY <1>5 DEF s, w

LEMMA AppendTo3 ==
    ASSUME NEW x \in Int, NEW y \in Int, NEW z \in Int, NEW u \in Int
    PROVE  Append(<<x, y, z>>, u) = <<x, y, z, u>>
<1> DEFINE s == <<x, y, z>>
           w == <<x, y, z, u>>
<1>1. s \in Seq(Int) /\ Len(s) = 3 /\ s[1] = x /\ s[2] = y /\ s[3] = z
  OBVIOUS
<1>2. w \in Seq(Int) /\ Len(w) = 4 /\ w[1] = x /\ w[2] = y /\ w[3] = z /\ w[4] = u
  OBVIOUS
<1> HIDE DEF s, w
<1>3. \A i \in 1..3 : w[i] = s[i]
  BY <1>1, <1>2
<1>4. Len(w) = Len(s) + 1 /\ w[Len(s) + 1] = u /\ \A i \in 1..Len(s) : w[i] = s[i]
  BY <1>1, <1>2, <1>3
<1>5. Append(s, u) = w
  BY ONLY <1>1, <1>2, <1>4, u \in Int, Appended
<1>6. QED  BY <1>5 DEF s, w

LEMMA AppendTo4 ==
    ASSUME NEW x \in Int, NEW y \in Int, NEW z \in Int, NEW u \in Int, NEW v \in Int
    PROVE  Append(<<x, y, z, u>>, v) = <<x, y, z, u, v>>
<1> DEFINE s == <<x, y, z, u>>
           w == <<x, y, z, u, v>>
<1>1. s \in Seq(Int) /\ Len(s) = 4 /\ s[1] = x /\ s[2] = y /\ s[3] = z /\ s[4] = u
  OBVIOUS
<1>2. w \in Seq(Int) /\ Len(w) = 5 /\ w[1] = x /\ w[2] = y /\ w[3] = z /\ w[4] = u /\ w[5] = v
  OBVIOUS
<1> HIDE DEF s, w
<1>3. \A i \in 1..4 : w[i] = s[i]
  BY <1>1, <1>2
<1>4. Len(w) = Len(s) + 1 /\ w[Len(s) + 1] = v /\ \A i \in 1..Len(s) : w[i] = s[i]
  BY <1>1, <1>2, <1>3
<1>5. Append(s, v) = w
  BY ONLY <1>1, <1>2, <1>4, v \in Int, Appended
<1>6. QED  BY <1>5 DEF s, w

\* One decimal place after the other.
LEMMA Horner ==
    ASSUME NEW a \in Nat
    PROVE  /\ (a \div 10) * 10 + (a % 10) = a
           /\ (a \div 100) * 10 + ((a \div 10) % 10) = a \div 10
           /\ (a \div 1000) * 10 + ((a \div 100) % 10) = a \div 100
           /\ (a \div 10000) * 10 + ((a \div 1000) % 10) = a \div 1000
OBVIOUS

\* The event made from an address holds its digits, and gives the address back.
Decodes(a, f) ==
    LET e == Search!lcc_train_search_create_event(a, f)
    IN  /\ Search!lcc_train_search_address(e) = a
        /\ Search!SearchDigits(e) = Search!DigitsOf(a)
        /\ Search!DigitsOf(a) \in Seq(Int) /\ Len(Search!DigitsOf(a)) > 0

LEMMA Decode1 ==
    ASSUME NEW a \in Nat, 0 <= a, a < 10, NEW f
    PROVE  Decodes(a, f)
<1> DEFINE x == a
           t == <<x>>
           e == Search!lcc_train_search_create_event(a, f)
           q0 == a
<1>1. /\ x \in Int /\ 0 <= x /\ x <= 9
  OBVIOUS
<1>2. Search!DigitsOf(a) = t
  BY SMT DEF Search!DigitsOf
<1>3. x = q0 /\ q0 = a
  BY Horner, SMT
<1>4. /\ q0 \in Int /\ q0 % 65536 = q0
  OBVIOUS
<1> HIDE DEF x, q0
<1>6. t \in Seq(Int) /\ Len(t) = 1 /\ t[1] = x
  BY <1>1
<1> HIDE DEF t
<1>7. e.digits = [i \in 1..6 |-> IF i <= 5 THEN 15 ELSE t[i - 5]]
  BY <1>2, <1>6 DEF Search!lcc_train_search_create_event
<1> HIDE DEF e
<1>8. e.digits[1] = 15 /\ e.digits[2] = 15 /\ e.digits[3] = 15 /\ e.digits[4] = 15 /\ e.digits[5] = 15
      /\ e.digits[6] = x
  BY <1>6, <1>7
<1>9. /\ Append(<<>>, x) = <<x>>
  BY <1>1
<1>a. ~(15 <= 9) /\ x <= 9
  BY ONLY <1>1
<1>b. /\ Search!AddDigit(<<>>, 15) = <<>>
      /\ Search!AddDigit(<<>>, x) = <<x>>
  BY ONLY <1>9, <1>a, Zenon DEF Search!AddDigit
<1>10. Search!SearchDigits(e) = <<x>>
  BY ONLY <1>8, <1>b, Zenon DEF Search!SearchDigits
<1>11. Search!lcc_train_search_address(e) = q0
  BY ONLY <1>1, <1>3, <1>4, <1>8 DEF Search!lcc_train_search_address, Search!ShiftIn
<1>12. QED  BY <1>2, <1>3, <1>6, <1>10, <1>11 DEF Decodes, e, t

LEMMA Decode2 ==
    ASSUME NEW a \in Nat, 10 <= a, a < 100, NEW f
    PROVE  Decodes(a, f)
<1> DEFINE x == (a \div 10) % 10
           y == a % 10
           t == <<x, y>>
           e == Search!lcc_train_search_create_event(a, f)
           q0 == a \div 10
           q1 == a
<1>1. /\ x \in Int /\ 0 <= x /\ x <= 9
      /\ y \in Int /\ 0 <= y /\ y <= 9
  OBVIOUS
<1>2. Search!DigitsOf(a) = t
  BY SMT DEF Search!DigitsOf
<1>3. x = q0 /\ q0 * 10 + y = q1 /\ q1 = a
  BY Horner, SMT
<1>4. /\ q0 \in Int /\ q0 % 65536 = q0
      /\ q1 \in Int /\ q1 % 65536 = q1
  OBVIOUS
<1> HIDE DEF x, y, q0, q1
<1>6. t \in Seq(Int) /\ Len(t) = 2 /\ t[1] = x /\ t[2] = y
  BY <1>1
<1> HIDE DEF t
<1>7. e.digits = [i \in 1..6 |-> IF i <= 4 THEN 15 ELSE t[i - 4]]
  BY <1>2, <1>6 DEF Search!lcc_train_search_create_event
<1> HIDE DEF e
<1>8. e.digits[1] = 15 /\ e.digits[2] = 15 /\ e.digits[3] = 15 /\ e.digits[4] = 15
      /\ e.digits[5] = x /\ e.digits[6] = y
  BY <1>6, <1>7
<1>9. /\ Append(<<>>, x) = <<x>>
      /\ Append(<<x>>, y) = <<x, y>>
  BY <1>1, AppendTo1
<1>a. ~(15 <= 9) /\ x <= 9 /\ y <= 9
  BY ONLY <1>1
<1>b. /\ Search!AddDigit(<<>>, 15) = <<>>
      /\ Search!AddDigit(<<>>, x) = <<x>>
      /\ Search!AddDigit(<<x>>, y) = <<x, y>>
  BY ONLY <1>9, <1>a, Zenon DEF Search!AddDigit
<1>10. Search!SearchDigits(e) = <<x, y>>
  BY ONLY <1>8, <1>b, Zenon DEF Search!SearchDigits
<1>11. Search!lcc_train_search_address(e) = q1
  BY ONLY <1>1, <1>3, <1>4, <1>8 DEF Search!lcc_train_search_address, Search!ShiftIn
<1>12. QED  BY <1>2, <1>3, <1>6, <1>10, <1>11 DEF Decodes, e, t

LEMMA Decode3 ==
    ASSUME NEW a \in Nat, 100 <= a, a < 1000, NEW f
    PROVE  Decodes(a, f)
<1> DEFINE x == (a \div 100) % 10
           y == (a \div 10) % 10
           z == a % 10
           t == <<x, y, z>>
           e == Search!lcc_train_search_create_event(a, f)
           q0 == a \div 100
           q1 == a \div 10
           q2 == a
<1>1. /\ x \in Int /\ 0 <= x /\ x <= 9
      /\ y \in Int /\ 0 <= y /\ y <= 9
      /\ z \in Int /\ 0 <= z /\ z <= 9
  OBVIOUS
<1>2. Search!DigitsOf(a) = t
  BY SMT DEF Search!DigitsOf
<1>3. x = q0 /\ q0 * 10 + y = q1 /\ q1 * 10 + z = q2 /\ q2 = a
  BY Horner, SMT
<1>4. /\ q0 \in Int /\ q0 % 65536 = q0
      /\ q1 \in Int /\ q1 % 65536 = q1
      /\ q2 \in Int /\ q2 % 65536 = q2
  OBVIOUS
<1> HIDE DEF x, y, z, q0, q1, q2
<1>6. t \in Seq(Int) /\ Len(t) = 3 /\ t[1] = x /\ t[2] = y /\ t[3] = z
  BY <1>1
<1> HIDE DEF t
<1>7. e.digits = [i \in 1..6 |-> IF i <= 3 THEN 15 ELSE t[i - 3]]
  BY <1>2, <1>6 DEF Search!lcc_train_search_create_event
<1> HIDE DEF e
<1>8. e.digits[1] = 15 /\ e.digits[2] = 15 /\ e.digits[3] = 15
      /\ e.digits[4] = x /\ e.digits[5] = y /\ e.digits[6] = z
  BY <1>6, <1>7
<1>9. /\ Append(<<>>, x) = <<x>>
      /\ Append(<<x>>, y) = <<x, y>>
      /\ Append(<<x, y>>, z) = <<x, y, z>>
  BY <1>1, AppendTo1, AppendTo2
<1>a. ~(15 <= 9) /\ x <= 9 /\ y <= 9 /\ z <= 9
  BY ONLY <1>1
<1>b. /\ Search!AddDigit(<<>>, 15) = <<>>
      /\ Search!AddDigit(<<>>, x) = <<x>>
      /\ Search!AddDigit(<<x>>, y) = <<x, y>>
      /\ Search!AddDigit(<<x, y>>, z) = <<x, y, z>>
  BY ONLY <1>9, <1>a, Zenon DEF Search!AddDigit
<1>10. Search!SearchDigits(e) = <<x, y, z>>
  BY ONLY <1>8, <1>b, Zenon DEF Search!SearchDigits
<1>11. Search!lcc_train_search_address(e) = q2
  BY ONLY <1>1, <1>3, <1>4, <1>8 DEF Search!lcc_train_search_address, Search!ShiftIn
<1>12. QED  BY <1>2, <1>3, <1>6, <1>10, <1>11 DEF Decodes, e, t

LEMMA Decode4 ==
    ASSUME NEW a \in Nat, 1000 <= a, a < 10000, NEW f
    PROVE  Decodes(a, f)
<1> DEFINE x == (a \div 1000) % 10
           y == (a \div 100) % 10
           z == (a \div 10) % 10
           u == a % 10
           t == <<x, y, z, u>>
           e == Search!lcc_train_search_create_event(a, f)
           q0 == a \div 1000
           q1 == a \div 100
           q2 == a \div 10
           q3 == a
<1>1. /\ x \in Int /\ 0 <= x /\ x <= 9
      /\ y \in Int /\ 0 <= y /\ y <= 9
      /\ z \in Int /\ 0 <= z /\ z <= 9
      /\ u \in Int /\ 0 <= u /\ u <= 9
  OBVIOUS
<1>2. Search!DigitsOf(a) = t
  BY SMT DEF Search!DigitsOf
<1>3. x = q0 /\ q0 * 10 + y = q1 /\ q1 * 10 + z = q2 /\ q2 * 10 + u = q3 /\ q3 = a
  BY Horner, SMT
<1>4. /\ q0 \in Int /\ q0 % 65536 = q0
      /\ q1 \in Int /\ q1 % 65536 = q1
      /\ q2 \in Int /\ q2 % 65536 = q2
      /\ q3 \in Int /\ q3 % 65536 = q3
  OBVIOUS
<1> HIDE DEF x, y, z, u, q0, q1, q2, q3
<1>6. t \in Seq(Int) /\ Len(t) = 4 /\ t[1] = x /\ t[2] = y /\ t[3] = z /\ t[4] = u
  BY <1>1
<1> HIDE DEF t
<1>7. e.digits = [i \in 1..6 |-> IF i <= 2 THEN 15 ELSE t[i - 2]]
  BY <1>2, <1>6 DEF Search!lcc_train_search_create_event
<1> HIDE DEF e
<1>8. e.digits[1] = 15 /\ e.digits[2] = 15
      /\ e.digits[3] = x /\ e.digits[4] = y /\ e.digits[5] = z /\ e.digits[6] = u
  BY <1>6, <1>7
<1>9. /\ Append(<<>>, x) = <<x>>
      /\ Append(<<x>>, y) = <<x, y>>
      /\ Append(<<x, y>>, z) = <<x, y, z>>
      /\ Append(<<x, y, z>>, u) = <<x, y, z, u>>
  BY <1>1, AppendTo1, AppendTo2, AppendTo3
<1>a. ~(15 <= 9) /\ x <= 9 /\ y <= 9 /\ z <= 9 /\ u <= 9
  BY ONLY <1>1
<1>b. /\ Search!AddDigit(<<>>, 15) = <<>>
      /\ Search!AddDigit(<<>>, x) = <<x>>
      /\ Search!AddDigit(<<x>>, y) = <<x, y>>
      /\ Search!AddDigit(<<x, y>>, z) = <<x, y, z>>
      /\ Search!AddDigit(<<x, y, z>>, u) = <<x, y, z, u>>
  BY ONLY <1>9, <1>a, Zenon DEF Search!AddDigit
<1>10. Search!SearchDigits(e) = <<x, y, z, u>>
  BY ONLY <1>8, <1>b, Zenon DEF Search!SearchDigits
<1>11. Search!lcc_train_search_address(e) = q3
  BY ONLY <1>1, <1>3, <1>4, <1>8 DEF Search!lcc_train_search_address, Search!ShiftIn
<1>12. QED  BY <1>2, <1>3, <1>6, <1>10, <1>11 DEF Decodes, e, t

LEMMA Decode5 ==
    ASSUME NEW a \in Nat, 10000 <= a, a < 65536, NEW f
    PROVE  Decodes(a, f)
<1> DEFINE x == (a \div 10000) % 10
           y == (a \div 1000) % 10
           z == (a \div 100) % 10
           u == (a \div 10) % 10
           v == a % 10
           t == <<x, y, z, u, v>>
           e == Search!lcc_train_search_create_event(a, f)
           q0 == a \div 10000
           q1 == a \div 1000
           q2 == a \div 100
           q3 == a \div 10
           q4 == a
<1>1. /\ x \in Int /\ 0 <= x /\ x <= 9
      /\ y \in Int /\ 0 <= y /\ y <= 9
      /\ z \in Int /\ 0 <= z /\ z <= 9
      /\ u \in Int /\ 0 <= u /\ u <= 9
      /\ v \in Int /\ 0 <= v /\ v <= 9
  OBVIOUS
<1>2. Search!DigitsOf(a) = t
  BY SMT DEF Search!DigitsOf
<1>3. x = q0 /\ q0 * 10 + y = q1 /\ q1 * 10 + z = q2 /\ q2 * 10 + u = q3 /\ q3 * 10 + v = q4 /\ q4 = a
  BY Horner, SMT
<1>4. /\ q0 \in Int /\ q0 % 65536 = q0
      /\ q1 \in Int /\ q1 % 65536 = q1
      /\ q2 \in Int /\ q2 % 65536 = q2
      /\ q3 \in Int /\ q3 % 65536 = q3
      /\ q4 \in Int /\ q4 % 65536 = q4
  OBVIOUS
<1> HIDE DEF x, y, z, u, v, q0, q1, q2, q3, q4
<1>6. t \in Seq(Int) /\ Len(t) = 5 /\ t[1] = x /\ t[2] = y /\ t[3] = z /\ t[4] = u /\ t[5] = v
  BY <1>1
<1> HIDE DEF t
<1>7. e.digits = [i \in 1..6 |-> IF i <= 1 THEN 15 ELSE t[i - 1]]
  BY <1>2, <1>6 DEF Search!lcc_train_search_create_event
<1> HIDE DEF e
<1>8. e.digits[1] = 15
      /\ e.digits[2] = x /\ e.digits[3] = y /\ e.digits[4] = z /\ e.digits[5] = u /\ e.digits[6] = v
  BY <1>6, <1>7
<1>9. /\ Append(<<>>, x) = <<x>>
      /\ Append(<<x>>, y) = <<x, y>>
      /\ Append(<<x, y>>, z) = <<x, y, z>>
      /\ Append(<<x, y, z>>, u) = <<x, y, z, u>>
      /\ Append(<<x, y, z, u>>, v) = <<x, y, z, u, v>>
  BY <1>1, AppendTo1, AppendTo2, AppendTo3, AppendTo4
<1>a. ~(15 <= 9) /\ x <= 9 /\ y <= 9 /\ z <= 9 /\ u <= 9 /\ v <= 9
  BY ONLY <1>1
<1>b. /\ Search!AddDigit(<<>>, 15) = <<>>
      /\ Search!AddDigit(<<>>, x) = <<x>>
      /\ Search!AddDigit(<<x>>, y) = <<x, y>>
      /\ Search!AddDigit(<<x, y>>, z) = <<x, y, z>>
      /\ Search!AddDigit(<<x, y, z>>, u) = <<x, y, z, u>>
      /\ Search!AddDigit(<<x, y, z, u>>, v) = <<x, y, z, u, v>>
  BY ONLY <1>9, <1>a, Zenon DEF Search!AddDigit
<1>10. Search!SearchDigits(e) = <<x, y, z, u, v>>
  BY ONLY <1>8, <1>b, Zenon DEF Search!SearchDigits
<1>11. Search!lcc_train_search_address(e) = q4
  BY ONLY <1>1, <1>3, <1>4, <1>8 DEF Search!lcc_train_search_address, Search!ShiftIn
<1>12. QED  BY <1>2, <1>3, <1>6, <1>10, <1>11 DEF Decodes, e, t

LEMMA DecodeAny ==
    ASSUME NEW a \in Nat, a < 65536, NEW f
    PROVE  Decodes(a, f)
<1>1. 0 <= a
  OBVIOUS
<1>2. a < 10 \/ (10 <= a /\ a < 100) \/ (100 <= a /\ a < 1000) \/ (1000 <= a /\ a < 10000)
      \/ 10000 <= a
  OBVIOUS
<1>3. QED  BY <1>1, <1>2, Decode1, Decode2, Decode3, Decode4, Decode5, SMT

(* The trains of the pool: their addresses are distinct, their ids made     *)
(* from them.                                                               *)
Addr16 == 0..Search!UINT16_MAX

LEMMA Addr16Means == \A x \in Int : x \in Addr16 <=> 0 <= x /\ x <= 65535
<1> DEFINE n == Search!UINT16_MAX
<1>1. n = 65535
  BY DEF Search!UINT16_MAX
<1>a. Addr16 = 0..n
  BY DEF Addr16
<1> HIDE DEF n
<1>2. ASSUME NEW x \in Int PROVE x \in Addr16 <=> 0 <= x /\ x <= 65535
  <2>1. x \in 0..n <=> 0 <= x /\ x <= n
    OBVIOUS
  <2>2. x <= n <=> x <= 65535
    BY <1>1
  <2>3. QED  BY ONLY <1>a, <2>1, <2>2
<1>3. QED  BY <1>2

LEMMA Addr16Nat == \A x \in Addr16 : x \in Nat /\ x < 65536
<1>1. Search!UINT16_MAX \in Int
  BY DEF Search!UINT16_MAX
<1>2. \A x \in Addr16 : x \in Nat /\ x \in Int
  BY <1>1 DEF Addr16
<1>3. QED  BY <1>2, Addr16Means

TrainRec == [dcc_address : Addr16, is_long : BOOLEAN, id : Addr16, confirmed : BOOLEAN,
             pending_search_event : Searches \union {Search!None}]

LongIf(t) == t.dcc_address > 127 => t.is_long

PoolOK(p) ==
    /\ p \in Seq(TrainRec) /\ Len(p) <= LCC_TRAIN_POOL_SIZE
    /\ \A s \in 1..Len(p) : p[s].id = Search!NodeId(p[s].dcc_address, p[s].is_long) /\ LongIf(p[s])
    /\ \A s, r \in 1..Len(p) : p[s].dcc_address = p[r].dcc_address => s = r

SearchInv == PoolOK(pool) /\ requests \in 0..MaxRequests

LEMMA SearchLimits ==
    /\ LCC_TRAIN_POOL_SIZE \in Nat /\ MaxRequests \in Nat /\ VerifyIds \subseteq Nat
    /\ \A e \in Searches : e.digits \in [1..6 -> 0..15]
BY NodesAssumption DEF Search!SearchAssumption

LEMMA ShiftType ==
    ASSUME NEW v \in Addr16, NEW d \in 0..15
    PROVE  Search!ShiftIn(v, d) \in Addr16
<1>1. v \in Nat /\ d \in Nat
  BY Addr16Nat
<1> DEFINE x == v * 10 + d
<1>a. x \in Nat
  BY <1>1
<1> HIDE DEF x
<1>b. x % 65536 \in Nat /\ x % 65536 <= 65535
  BY ONLY <1>a
<1>c. x % 65536 \in Addr16
  BY ONLY <1>b, Addr16Means
<1>2. (v * 10 + d) % 65536 \in Addr16
  BY <1>c DEF x
<1>3. QED  BY <1>2 DEF Search!ShiftIn

LEMMA SearchAddressType ==
    ASSUME NEW e \in Searches
    PROVE  Search!lcc_train_search_address(e) \in Addr16
<1> DEFINE d == e.digits
<1>1. d \in [1..6 -> 0..15]
  BY SearchLimits
<1> HIDE DEF d
<1>2. d[1] \in 0..15 /\ d[2] \in 0..15 /\ d[3] \in 0..15 /\ d[4] \in 0..15 /\ d[5] \in 0..15
      /\ d[6] \in 0..15
  BY ONLY <1>1
<1>3. 0 \in Addr16
  BY Addr16Means
<1> DEFINE v1 == Search!ShiftIn(0, d[1])
           v2 == Search!ShiftIn(v1, d[2])
           v3 == Search!ShiftIn(v2, d[3])
           v4 == Search!ShiftIn(v3, d[4])
           v5 == Search!ShiftIn(v4, d[5])
           v6 == Search!ShiftIn(v5, d[6])
<1>a. Search!lcc_train_search_address(e) = v6
  BY DEF Search!lcc_train_search_address, d
<1>4. v1 \in Addr16
  BY ONLY <1>2, <1>3, ShiftType
<1> HIDE DEF v1
<1>5. v2 \in Addr16
  BY ONLY <1>2, <1>4, ShiftType
<1> HIDE DEF v2
<1>6. v3 \in Addr16
  BY ONLY <1>2, <1>5, ShiftType
<1> HIDE DEF v3
<1>7. v4 \in Addr16
  BY ONLY <1>2, <1>6, ShiftType
<1> HIDE DEF v4
<1>8. v5 \in Addr16
  BY ONLY <1>2, <1>7, ShiftType
<1> HIDE DEF v5
<1>9. v6 \in Addr16
  BY ONLY <1>2, <1>8, ShiftType
<1>10. QED  BY <1>9, <1>a

LEMMA NodeIdType ==
    ASSUME NEW a \in Addr16, NEW long \in BOOLEAN
    PROVE  Search!NodeId(a, long) \in Addr16
<1>1. a \in Nat /\ a <= 65535
  BY Addr16Nat
<1>2. 49152 + (a % 16384) \in Nat /\ 49152 + (a % 16384) <= 65535
  BY ONLY <1>1
<1> DEFINE x == 49152 + (a % 16384)
<1> HIDE DEF x
<1>a. x \in Nat /\ x <= 65535
  BY <1>2 DEF x
<1>b. x \in Addr16
  BY ONLY <1>a, Addr16Means
<1>3. Search!NodeId(a, long) = IF long THEN x ELSE a
  BY DEF Search!NodeId, Search!LongSelector, x
<1>4. QED  BY <1>b, <1>3

LEMMA TrainFields ==
    ASSUME NEW t \in TrainRec
    PROVE  /\ t.dcc_address \in Addr16 /\ t.id \in Addr16 /\ t.is_long \in BOOLEAN
           /\ t.confirmed \in BOOLEAN /\ t.pending_search_event \in Searches \union {Search!None}
BY DEF TrainRec

LEMMA TrainUpdates ==
    ASSUME NEW t \in TrainRec, NEW e \in Searches \union {Search!None}, NEW b \in BOOLEAN
    PROVE  /\ [t EXCEPT !.pending_search_event = e] \in TrainRec
           /\ [t EXCEPT !.confirmed = b] \in TrainRec
           /\ [t EXCEPT !.pending_search_event = e].dcc_address = t.dcc_address
           /\ [t EXCEPT !.pending_search_event = e].id = t.id
           /\ [t EXCEPT !.pending_search_event = e].is_long = t.is_long
           /\ [t EXCEPT !.confirmed = b].dcc_address = t.dcc_address
           /\ [t EXCEPT !.confirmed = b].id = t.id
           /\ [t EXCEPT !.confirmed = b].is_long = t.is_long
BY DEF TrainRec

\* Trains that keep their address, id and length.
LEMMA PoolUpdate ==
    ASSUME NEW p, PoolOK(p), NEW q \in Seq(TrainRec), Len(q) = Len(p),
           \A s \in 1..Len(p) : q[s].dcc_address = p[s].dcc_address /\ q[s].id = p[s].id
                                /\ q[s].is_long = p[s].is_long
    PROVE  PoolOK(q)
BY DEF PoolOK, LongIf

\* A train with another address joins.
LEMMA PoolAppend ==
    ASSUME NEW p, PoolOK(p), NEW t \in TrainRec, Len(p) < LCC_TRAIN_POOL_SIZE,
           t.id = Search!NodeId(t.dcc_address, t.is_long), LongIf(t),
           \A s \in 1..Len(p) : p[s].dcc_address # t.dcc_address
    PROVE  PoolOK(Append(p, t))
<1> DEFINE q == Append(p, t)
           n == Len(p)
<1>1. p \in Seq(TrainRec) /\ n \in Nat /\ n + 1 <= LCC_TRAIN_POOL_SIZE
  BY SearchLimits DEF PoolOK
<1>2. q \in Seq(TrainRec) /\ Len(q) = n + 1 /\ q[n + 1] = t /\ \A s \in 1..n : q[s] = p[s]
  BY <1>1, AppendProperties
<1>3. \A s \in 1..n + 1 : s \in 1..n \/ s = n + 1
  BY <1>1
<1> HIDE DEF q
<1>4. \A s \in 1..n + 1 : q[s].id = Search!NodeId(q[s].dcc_address, q[s].is_long) /\ LongIf(q[s])
  BY <1>2, <1>3 DEF PoolOK
<1>5. \A s, r \in 1..n + 1 : q[s].dcc_address = q[r].dcc_address => s = r
  BY <1>2, <1>3 DEF PoolOK
<1>6. PoolOK(q)
  BY <1>1, <1>2, <1>4, <1>5 DEF PoolOK
<1>7. QED  BY <1>6 DEF q

LEMMA NewTrainType ==
    ASSUME NEW a \in Addr16, NEW long \in BOOLEAN, NEW e \in Searches \union {Search!None}
    PROVE  Search!NewTrain(a, long, e) \in TrainRec
BY NodeIdType DEF Search!NewTrain, TrainRec

LEMMA Allocator ==
    ASSUME NEW p, PoolOK(p), NEW a \in Addr16, NEW long \in BOOLEAN,
           NEW e \in Searches \union {Search!None}
    PROVE  PoolOK(Search!train_allocator(p, a, long, e))
<1>0. p \in Seq(TrainRec) /\ DOMAIN p = 1..Len(p)
  BY DEF PoolOK
<1> DEFINE E == Search!Existing(p, a)
<1>1. CASE E # {}
  <2> DEFINE s == CHOOSE s \in E : \A r \in E : s <= r
             q == [p EXCEPT ![s].pending_search_event = e]
  <2>1. CASE q = p \/ s \notin 1..Len(p)
    <3>1. q = p
      BY <2>1, <1>0
    <3>2. Search!train_allocator(p, a, long, e) = p
      BY <1>1, <3>1 DEF Search!train_allocator
    <3>3. QED  BY <3>2
  <2>2. CASE s \in 1..Len(p)
    <3> HIDE DEF s
    <3> DEFINE u == [p[s] EXCEPT !.pending_search_event = e]
    <3>a. p[s] \in TrainRec
      BY <2>2, <1>0, ElementOfSeq
    <3>b. /\ u \in TrainRec /\ u.dcc_address = p[s].dcc_address /\ u.id = p[s].id
          /\ u.is_long = p[s].is_long
      BY <3>a, TrainUpdates
    <3>c. q = [p EXCEPT ![s] = u]
      OBVIOUS
    <3> HIDE DEF u
    <3>1. q \in Seq(TrainRec) /\ Len(q) = Len(p) /\ \A r \in 1..Len(p) : q[r] = IF r = s THEN u ELSE p[r]
      BY <3>b, <3>c, <2>2, <1>0, ExceptSeq
    <3>2. \A r \in 1..Len(p) : q[r].dcc_address = p[r].dcc_address /\ q[r].id = p[r].id
                               /\ q[r].is_long = p[r].is_long
      BY <3>b, <3>1
    <3> HIDE DEF q
    <3>3. PoolOK(q)
      BY <3>1, <3>2, PoolUpdate
    <3>4. Search!train_allocator(p, a, long, e) \in {p, q}
      BY <1>1 DEF Search!train_allocator, s, q
    <3>5. QED  BY <3>3, <3>4
  <2>3. QED  BY <2>1, <2>2
<1>2. CASE E = {}
  <2> DEFINE l == long \/ a > 127
             t == Search!NewTrain(a, l, e)
  <2>1. CASE Len(p) < LCC_TRAIN_POOL_SIZE
    <3>1. Search!train_allocator(p, a, long, e) = Append(p, t)
      BY <1>2, <2>1 DEF Search!train_allocator, Search!LCC_DCC_SHORT_ADDR_MAX
    <3>2. l \in BOOLEAN
      OBVIOUS
    <3>3. t \in TrainRec
      BY <3>2, NewTrainType
    <3>4. t.id = Search!NodeId(t.dcc_address, t.is_long) /\ LongIf(t) /\ t.dcc_address = a
      BY DEF Search!NewTrain, LongIf
    <3> HIDE DEF t
    <3>5. \A s \in 1..Len(p) : p[s].dcc_address # t.dcc_address
      BY <1>0, <1>2, <3>4 DEF Search!Existing
    <3>6. QED  BY <2>1, <3>1, <3>3, <3>4, <3>5, PoolAppend
  <2>2. CASE ~(Len(p) < LCC_TRAIN_POOL_SIZE)
    BY <1>2, <2>2 DEF Search!train_allocator
  <2>3. QED  BY <2>1, <2>2
<1>3. QED  BY <1>1, <1>2

LEMMA SearchInit == Search!Init => SearchInv
<1> SUFFICES ASSUME Search!Init PROVE SearchInv
  OBVIOUS
<1>1. pool = <<>> /\ requests = 0
  BY DEF Search!Init
<1>2. QED  BY <1>1, SearchLimits DEF SearchInv, PoolOK

LEMMA SearchStep ==
    ASSUME SearchInv, Search!Next
    PROVE  SearchInv'
<1>0. PoolOK(pool) /\ pool \in Seq(TrainRec) /\ Search!Slots = 1..Len(pool)
  BY DEF SearchInv, PoolOK, Search!Slots
<1>t. \A s \in 1..Len(pool) : pool[s] \in TrainRec
  BY <1>0, ElementOfSeq
<1>p. ASSUME NEW q, pool' = q, PoolOK(q) PROVE PoolOK(pool)'
  BY <1>p DEF PoolOK, LongIf
<1>a. ASSUME Search!Accept PROVE requests' \in 0..MaxRequests
  BY <1>a, SearchLimits DEF Search!Accept, SearchInv
<1>1. ASSUME NEW e \in Searches, Search!lcc_train_search_dispatch(e) PROVE SearchInv'
  <2>1. requests' \in 0..MaxRequests
    BY <1>1, <1>a DEF Search!lcc_train_search_dispatch
  <2>2. PICK later \in SUBSET Search!Slots :
            \/ pool' = Search!train_allocator(pool, Search!lcc_train_search_address(e),
                                              "LONG_ADDR" \in e.flags, e)
            \/ pool' = [s \in Search!Slots |-> IF s \in later
                                               THEN [pool[s] EXCEPT !.pending_search_event = e]
                                               ELSE pool[s]]
    BY <1>1 DEF Search!lcc_train_search_dispatch
  <2>3. CASE pool' = Search!train_allocator(pool, Search!lcc_train_search_address(e),
                                            "LONG_ADDR" \in e.flags, e)
    <3>1. Search!lcc_train_search_address(e) \in Addr16 /\ ("LONG_ADDR" \in e.flags) \in BOOLEAN
      BY SearchAddressType
    <3>2. PoolOK(Search!train_allocator(pool, Search!lcc_train_search_address(e),
                                        "LONG_ADDR" \in e.flags, e))
      BY <1>0, <3>1, Allocator
    <3>3. QED  BY <2>1, <2>3, <3>2, <1>p DEF SearchInv
  <2>4. CASE pool' = [s \in Search!Slots |-> IF s \in later
                                             THEN [pool[s] EXCEPT !.pending_search_event = e]
                                             ELSE pool[s]]
    <3> DEFINE g(s) == IF s \in later THEN [pool[s] EXCEPT !.pending_search_event = e] ELSE pool[s]
               q == [s \in 1..Len(pool) |-> g(s)]
    <3>1. \A s \in 1..Len(pool) : /\ g(s) \in TrainRec /\ g(s).dcc_address = pool[s].dcc_address
                                  /\ g(s).id = pool[s].id /\ g(s).is_long = pool[s].is_long
      BY <1>t, TrainUpdates
    <3>2. pool' = q
      BY <2>4, <1>0
    <3> HIDE DEF g
    <3>3. q \in Seq(TrainRec) /\ Len(q) = Len(pool) /\ \A s \in 1..Len(pool) : q[s] = g(s)
      BY <1>0, <3>1
    <3> HIDE DEF q
    <3>4. PoolOK(q)
      BY <1>0, <3>1, <3>3, PoolUpdate
    <3>5. QED  BY <2>1, <3>2, <3>4, <1>p DEF SearchInv
  <2>5. QED  BY <2>2, <2>3, <2>4
<1>2. ASSUME NEW id \in VerifyIds, Search!lcc_train_search_ensure_by_node_id(id) PROVE SearchInv'
  <2> DEFINE a == id % 16384
             l == id >= Search!LongSelector \/ a > Search!LCC_DCC_SHORT_ADDR_MAX
  <2>1. requests' \in 0..MaxRequests
    BY <1>2, <1>a DEF Search!lcc_train_search_ensure_by_node_id
  <2>2. id \in Nat
    BY SearchLimits
  <2>3. a \in Addr16 /\ l \in BOOLEAN
    <3>1. a \in Int /\ 0 <= a /\ a <= 65535
      BY <2>2
    <3>2. QED  BY <3>1, Addr16Means
  <2>4. pool' = pool \/ pool' = Search!train_allocator(pool, a, l, Search!None)
    BY <1>2 DEF Search!lcc_train_search_ensure_by_node_id
  <2> HIDE DEF a, l
  <2>5. PoolOK(Search!train_allocator(pool, a, l, Search!None))
    BY <1>0, <2>3, Allocator
  <2>6. QED  BY <2>1, <2>4, <2>5, <1>0, <1>p DEF SearchInv
<1>3. CASE Search!lcc_train_search_flush_pending
  <2> DEFINE g(s) == IF s \in Search!Due THEN Search!flushed(pool[s]) ELSE pool[s]
             q == [s \in 1..Len(pool) |-> g(s)]
  <2>1. \A s \in 1..Len(pool) : /\ g(s) \in TrainRec /\ g(s).dcc_address = pool[s].dcc_address
                                /\ g(s).id = pool[s].id /\ g(s).is_long = pool[s].is_long
    BY <1>t, TrainUpdates DEF Search!flushed
  <2>2. pool' = q /\ requests' = requests
    BY <1>3, <1>0 DEF Search!lcc_train_search_flush_pending
  <2> HIDE DEF g
  <2>3. q \in Seq(TrainRec) /\ Len(q) = Len(pool) /\ \A s \in 1..Len(pool) : q[s] = g(s)
    BY <1>0, <2>1
  <2> HIDE DEF q
  <2>4. PoolOK(q)
    BY <1>0, <2>1, <2>3, PoolUpdate
  <2>5. QED  BY <2>2, <2>4, <1>p DEF SearchInv
<1>4. ASSUME NEW s \in 1..LCC_TRAIN_POOL_SIZE, Search!confirm(s) \/ Search!lose(s) PROVE SearchInv'
  <2>1. requests' \in 0..MaxRequests
    BY <1>4, <1>a DEF Search!confirm, Search!lose, SearchInv
  <2>2. PICK b \in BOOLEAN : pool' = [pool EXCEPT ![s].confirmed = b] /\ s \in 1..Len(pool)
    BY <1>4, <1>0 DEF Search!confirm, Search!lose
  <2> DEFINE q == [pool EXCEPT ![s].confirmed = b]
             u == [pool[s] EXCEPT !.confirmed = b]
  <2>a. /\ u \in TrainRec /\ u.dcc_address = pool[s].dcc_address /\ u.id = pool[s].id
        /\ u.is_long = pool[s].is_long
    BY <2>2, <1>t, TrainUpdates
  <2>b. q = [pool EXCEPT ![s] = u]
    OBVIOUS
  <2> HIDE DEF u
  <2>3. q \in Seq(TrainRec) /\ Len(q) = Len(pool)
        /\ \A r \in 1..Len(pool) : q[r] = IF r = s THEN u ELSE pool[r]
    BY <2>a, <2>b, <2>2, <1>0, ExceptSeq
  <2>4. \A r \in 1..Len(pool) : /\ q[r].dcc_address = pool[r].dcc_address /\ q[r].id = pool[r].id
                                /\ q[r].is_long = pool[r].is_long
    BY <2>a, <2>3
  <2>5. pool' = q
    BY <2>2
  <2> HIDE DEF q
  <2>6. PoolOK(q)
    BY <1>0, <2>3, <2>4, PoolUpdate
  <2>7. QED  BY <2>1, <2>5, <2>6, <1>p DEF SearchInv
<1>5. QED
  BY <1>1, <1>2, <1>3, <1>4 DEF Search!Next

LEMMA SearchTypes == SearchInv => Search!TypeOK
<1> SUFFICES ASSUME SearchInv PROVE Search!TypeOK
  OBVIOUS
<1>1. pool \in Seq(TrainRec) /\ Search!Slots = 1..Len(pool)
  BY DEF SearchInv, PoolOK, Search!Slots
<1>2. \A s \in Search!Slots :
        /\ pool[s].dcc_address \in Addr16 /\ pool[s].id \in Addr16
        /\ pool[s].is_long \in BOOLEAN /\ pool[s].confirmed \in BOOLEAN
        /\ pool[s].pending_search_event \in Searches \union {Search!None}
  BY <1>1, ElementOfSeq, TrainFields
<1>3. Len(pool) <= LCC_TRAIN_POOL_SIZE /\ requests \in 0..MaxRequests
  BY DEF SearchInv, PoolOK
<1>4. QED  BY <1>2, <1>3 DEF Search!TypeOK, Addr16

\* Ids are distinct where 14 bits hold the address.
LEMMA IdsDiffer ==
    ASSUME NEW a \in Nat, NEW b \in Nat, a # b, a < 16384, b < 16384,
           NEW k \in BOOLEAN, NEW l \in BOOLEAN, a > 127 => k, b > 127 => l
    PROVE  Search!NodeId(a, k) # Search!NodeId(b, l)
BY SMT DEF Search!NodeId, Search!LongSelector

LEMMA SearchSound == SearchInv => SearchesFindTrains
<1> SUFFICES ASSUME SearchInv PROVE SearchesFindTrains
  OBVIOUS
<1>0. /\ pool \in Seq(TrainRec) /\ Search!Slots = 1..Len(pool)
      /\ \A s \in 1..Len(pool) : pool[s].id = Search!NodeId(pool[s].dcc_address, pool[s].is_long)
                                 /\ LongIf(pool[s])
      /\ \A s, r \in 1..Len(pool) : pool[s].dcc_address = pool[r].dcc_address => s = r
  BY DEF SearchInv, PoolOK, Search!Slots
<1>1. \A s \in 1..Len(pool) : pool[s].dcc_address \in Addr16 /\ pool[s].is_long \in BOOLEAN
  BY <1>0, ElementOfSeq, TrainFields
<1>2. \A a \in Addr16 : a \in Nat /\ a < 65536
  BY Addr16Nat
<1>3. Search!OneTrainPerAddress
  <2> SUFFICES ASSUME NEW s \in 1..Len(pool), NEW r \in 1..Len(pool), s # r
               PROVE  /\ pool[s].dcc_address # pool[r].dcc_address
                      /\ pool[s].dcc_address < 16384 /\ pool[r].dcc_address < 16384
                         => pool[s].id # pool[r].id
    BY <1>0 DEF Search!OneTrainPerAddress
  <2>1. pool[s].dcc_address # pool[r].dcc_address
    BY <1>0
  <2>2. pool[s].dcc_address \in Nat /\ pool[r].dcc_address \in Nat
    BY <1>1, <1>2
  <2>3. QED  BY <2>1, <2>2, <1>0, <1>1, IdsDiffer DEF LongIf
<1>4. Search!FoundByAddress
  <2> SUFFICES ASSUME NEW s \in 1..Len(pool)
               PROVE  LET e == Search!lcc_train_search_create_event(pool[s].dcc_address, {"EXACT"})
                      IN  /\ Search!lcc_train_search_address(e) = pool[s].dcc_address
                          /\ \A r \in 1..Len(pool) : Search!does_train_match(pool[r], e) <=> r = s
    BY <1>0 DEF Search!FoundByAddress
  <2> DEFINE a == pool[s].dcc_address
             e == Search!lcc_train_search_create_event(a, {"EXACT"})
  <2>1. a \in Nat /\ a < 65536
    BY <1>1, <1>2
  <2>d. Decodes(a, {"EXACT"})
    BY <2>1, DecodeAny
  <2>2. /\ Search!lcc_train_search_address(e) = a /\ Search!SearchDigits(e) = Search!DigitsOf(a)
        /\ Search!DigitsOf(a) \in Seq(Int) /\ Len(Search!DigitsOf(a)) > 0
    BY <2>d DEF Decodes
  <2>3. e.flags = {"EXACT"}
    BY DEF Search!lcc_train_search_create_event
  <2>4. ASSUME NEW r \in 1..Len(pool) PROVE Search!does_train_match(pool[r], e) <=> r = s
    <3> DEFINE b == pool[r].dcc_address
               g == Search!lcc_train_search_create_event(b, {"EXACT"})
    <3>1. b \in Nat /\ b < 65536
      BY <1>1, <1>2
    <3>d. Decodes(b, {"EXACT"})
      BY <3>1, DecodeAny
    <3>2. Search!lcc_train_search_address(g) = b /\ Search!DigitsOf(b) \in Seq(Int)
      BY <3>d DEF Decodes
    <3>3. Search!does_train_match(pool[r], e) <=> Search!does_address_match(b, e)
      BY <2>3 DEF Search!does_train_match
    <3>4. Search!DigitsOf(a) = Search!DigitsOf(b) => e = g
      BY DEF Search!lcc_train_search_create_event
    <3>5. Search!DigitsOf(a) = Search!DigitsOf(b) <=> a = b
      BY <2>2, <3>2, <3>4
    <3> DEFINE x == Search!DigitsOf(a)
               y == Search!DigitsOf(b)
    <3>6. Search!does_address_match(b, e)
            <=> x # <<>> /\ Len(x) = Len(y) /\ x = SubSeq(y, 1, Len(x))
      BY <2>2, <2>3 DEF Search!does_address_match
    <3>7. x \in Seq(Int) /\ y \in Seq(Int) /\ x # <<>>
      BY <2>2, <3>2
    <3> HIDE DEF x, y
    <3>8. SubSeq(y, 1, Len(y)) = y
      BY <3>7
    <3>9. Search!does_address_match(b, e) <=> x = y
      BY <3>6, <3>7, <3>8
    <3>10. x = y <=> a = b
      BY <3>5 DEF x, y
    <3>11. a = b <=> r = s
      BY <1>0
    <3>12. QED  BY <3>3, <3>9, <3>10, <3>11
  <2>5. QED  BY <2>2, <2>4
<1>5. QED  BY <1>3, <1>4 DEF SearchesFindTrains

-----------------------------------------------------------------------------
(* Slots in their order.                                                   *)

\* The instance counts as the module does.
LEMMA DriveCardinality == \A S : Drive!Cardinality(S) = Cardinality(S)
BY DEF Drive!Cardinality, Cardinality

LEMMA RankStrict ==
    ASSUME NEW S \in SUBSET Nat, IsFiniteSet(S), NEW i \in S
    PROVE  /\ Drive!Rank(S, i) \in Nat /\ Drive!Rank(S, i) < Cardinality(S)
           /\ \A j \in S : i < j => Drive!Rank(S, i) < Drive!Rank(S, j)
<1> DEFINE B(k) == {j \in S : j < k}
<1>0. i \in Nat /\ i \notin B(i) /\ B(i) \subseteq S
  OBVIOUS
<1>1. IsFiniteSet(B(i)) /\ Cardinality(B(i)) \in Nat
  BY <1>0, FS_Subset, FS_CardinalityType
<1>2. IsFiniteSet(B(i) \cup {i}) /\ Cardinality(B(i) \cup {i}) = Cardinality(B(i)) + 1
  BY <1>0, <1>1, FS_AddElement
<1>3. ASSUME NEW T \in SUBSET S, B(i) \cup {i} \subseteq T
      PROVE  Cardinality(B(i)) < Cardinality(T)
  <2>1. IsFiniteSet(T) /\ Cardinality(T) \in Nat
    BY FS_Subset, FS_CardinalityType
  <2>2. Cardinality(B(i) \cup {i}) <= Cardinality(T)
    BY <1>3, <2>1, FS_Subset
  <2>3. QED  BY <1>1, <1>2, <2>1, <2>2
<1>4. Cardinality(B(i)) < Cardinality(S)
  BY <1>3, <1>0
<1>5. \A j \in S : i < j => Cardinality(B(i)) < Cardinality(B(j))
  <2> SUFFICES ASSUME NEW j \in S, i < j PROVE Cardinality(B(i)) < Cardinality(B(j))
    OBVIOUS
  <2>1. B(i) \cup {i} \subseteq B(j) /\ B(j) \in SUBSET S
    <3>1. \A k \in S : k < i => k < j
      OBVIOUS
    <3>2. QED  BY <3>1
  <2> HIDE DEF B
  <2>2. QED  BY <2>1, <1>3
<1>6. \A k : Drive!Rank(S, k) = Cardinality(B(k))
  BY DriveCardinality DEF Drive!Rank
<1> HIDE DEF B
<1>7. QED  BY <1>1, <1>4, <1>5, <1>6

LEMMA RankDistinct ==
    ASSUME NEW S \in SUBSET Nat, IsFiniteSet(S), NEW i \in S, NEW j \in S, Drive!Rank(S, i) = Drive!Rank(S, j)
    PROVE  i = j
<1>1. i \in Nat /\ j \in Nat /\ Drive!Rank(S, i) \in Nat /\ Drive!Rank(S, j) \in Nat
  BY RankStrict
<1>2. i < j => Drive!Rank(S, i) < Drive!Rank(S, j)
  BY RankStrict
<1>3. j < i => Drive!Rank(S, j) < Drive!Rank(S, i)
  BY RankStrict
<1>4. QED  BY <1>1, <1>2, <1>3

LEMMA RankOnto ==
    ASSUME NEW S \in SUBSET Nat, IsFiniteSet(S), NEW r \in 0..Cardinality(S) - 1
    PROVE  \E i \in S : Drive!Rank(S, i) = r
<1> SUFFICES ASSUME \A i \in S : Drive!Rank(S, i) # r PROVE FALSE
  OBVIOUS
<1> DEFINE n == Cardinality(S)
           T == (0..n - 1) \ {r}
           f == [i \in S |-> Drive!Rank(S, i)]
<1>1. n \in Nat
  BY FS_CardinalityType
<1> HIDE DEF n
<1>2. IsFiniteSet(0..n - 1) /\ Cardinality(0..n - 1) = n
  <2>1. IsFiniteSet(0..n - 1) /\ Cardinality(0..n - 1) = IF 0 > n - 1 THEN 0 ELSE (n - 1) - 0 + 1
    BY <1>1, FS_Interval
  <2>2. QED  BY <1>1, <2>1
<1>3. r \in 0..n - 1
  BY DEF n
<1>4. IsFiniteSet(T) /\ Cardinality(T) = n - 1
  BY <1>2, <1>3, FS_RemoveElement
<1>5. \A i \in S : Drive!Rank(S, i) \in Nat /\ Drive!Rank(S, i) < n
  BY RankStrict DEF n
<1>6. \A i \in S : Drive!Rank(S, i) \in T
  BY <1>1, <1>5
<1>7. f \in [S -> T]
  BY <1>6
<1>8. Cardinality(T) < Cardinality(S)
  BY <1>1, <1>4 DEF n
<1> HIDE DEF T, f
<1>9. \E x, y \in S : x # y /\ f[x] = f[y]
  BY <1>4, <1>7, <1>8, FS_PigeonHole
<1>10. QED  BY <1>9, RankDistinct DEF f

\* The k-th slot is one, another one for each k, and each slot is one of them.
LEMMA NthFacts ==
    ASSUME NEW S \in SUBSET Nat, IsFiniteSet(S)
    PROVE  /\ \A k \in 1..Cardinality(S) : Drive!Nth(S, k) \in S
           /\ \A j, k \in 1..Cardinality(S) : Drive!Nth(S, j) = Drive!Nth(S, k) => j = k
           /\ \A i \in S : \E k \in 1..Cardinality(S) : Drive!Nth(S, k) = i
<1>0. Cardinality(S) \in Nat
  BY FS_CardinalityType
<1>1. ASSUME NEW k \in 1..Cardinality(S)
      PROVE  Drive!Nth(S, k) \in S /\ Drive!Rank(S, Drive!Nth(S, k)) = k - 1
  <2>1. k - 1 \in 0..Cardinality(S) - 1
    BY <1>0
  <2>2. \E i \in S : Drive!Rank(S, i) = k - 1
    BY <2>1, RankOnto
  <2>3. Drive!Nth(S, k) = CHOOSE i \in S : Drive!Rank(S, i) = k - 1
    BY DEF Drive!Nth
  <2>4. QED  BY <2>2, <2>3
<1>2. \A j, k \in 1..Cardinality(S) : Drive!Nth(S, j) = Drive!Nth(S, k) => j = k
  <2> SUFFICES ASSUME NEW j \in 1..Cardinality(S), NEW k \in 1..Cardinality(S),
                      Drive!Nth(S, j) = Drive!Nth(S, k)
               PROVE  j = k
    OBVIOUS
  <2>1. j - 1 = k - 1
    BY <1>1
  <2>2. j \in Int /\ k \in Int
    BY <1>0
  <2>3. QED  BY <2>1, <2>2
<1>3. ASSUME NEW i \in S PROVE \E k \in 1..Cardinality(S) : Drive!Nth(S, k) = i
  <2> DEFINE k == Drive!Rank(S, i) + 1
  <2>1. Drive!Rank(S, i) \in Nat /\ Drive!Rank(S, i) < Cardinality(S)
    BY RankStrict
  <2>2. k \in 1..Cardinality(S) /\ k - 1 = Drive!Rank(S, i)
    BY <1>0, <2>1
  <2> HIDE DEF k
  <2>3. Drive!Nth(S, k) \in S /\ Drive!Rank(S, Drive!Nth(S, k)) = Drive!Rank(S, i)
    BY <1>1, <2>2
  <2> DEFINE m == Drive!Nth(S, k)
  <2>a. m \in S /\ Drive!Rank(S, m) = Drive!Rank(S, i)
    BY <2>3
  <2> HIDE DEF m
  <2>b. m = i
    BY <2>a, RankDistinct
  <2>4. Drive!Nth(S, k) = i
    BY <2>b DEF m
  <2>5. QED  BY <2>2, <2>4
<1>4. QED  BY <1>1, <1>2, <1>3

\* The first slot of a set is one of it.
LEMMA FirstIn ==
    ASSUME NEW S \in SUBSET Nat, IsFiniteSet(S), S # {}
    PROVE  Drive!First(S) \in S
<1>1. Cardinality(S) \in Nat /\ Cardinality(S) # 0
  BY FS_CardinalityType, FS_EmptySet
<1>2. 0 \in 0..Cardinality(S) - 1
  BY <1>1
<1>3. PICK i \in S : Drive!Rank(S, i) = 0
  BY <1>2, RankOnto
<1>4. \A j \in S : i <= j
  <2> SUFFICES ASSUME NEW j \in S, ~(i <= j) PROVE FALSE
    OBVIOUS
  <2>1. j < i /\ Drive!Rank(S, j) \in Nat
    BY RankStrict
  <2>2. Drive!Rank(S, j) < Drive!Rank(S, i)
    BY <2>1, RankStrict
  <2>3. QED  BY <1>3, <2>1, <2>2
<1>5. QED  BY <1>3, <1>4 DEF Drive!First

\* Slots are numbers, finitely many of them.
LEMMA SlotSets ==
    ASSUME NEW S \in SUBSET Drive!Slots
    PROVE  S \in SUBSET Nat /\ IsFiniteSet(S)
<1>1. LCC_MAX_CONSIST_SLAVES \in Nat
  BY NodesAssumption DEF Drive!TractionAssumption
<1>2. IsFiniteSet(Drive!Slots) /\ Drive!Slots \subseteq Nat
  BY <1>1, FS_Interval DEF Drive!Slots
<1>3. QED  BY <1>2, FS_Subset

-----------------------------------------------------------------------------
(* Traction: types, and what a command does to its train.                  *)

SpeedRec == [mag : Speeds \cup {0}, neg : BOOLEAN]
SlotRec == [id : Trains \cup {Far} \cup {Drive!None},
            flags : {{}} \cup UNION {Mixes[k].flags : k \in 1..Len(Mixes)}]
TrainState == [speed : SpeedRec, emergency : BOOLEAN, fns : SUBSET (Fns \cap 0..68),
               consist : [Drive!Slots -> SlotRec], owner : Throttles \cup {Drive!None},
               controller_alias : Aliases \cup {Drive!None}]
EngineState == [step : 0..127, forward : BOOLEAN, fns : SUBSET (0..68)]
Order == [op : {"speed", "fn", "estop"}, to : Trains, from : Trains \cup {Drive!Bus},
          listener : BOOLEAN, speed : SpeedRec, fn : Fns \cup {0}, on : BOOLEAN]

FleetType == train \in [Trains -> TrainState] /\ dcc \in [Trains -> EngineState]
DeskType ==
    /\ holder \in [Aliases -> Throttles \cup {Drive!None}]
    /\ believes \in [Throttles -> SUBSET Trains]
    /\ mix \in 1..Len(Mixes) /\ ops \in 0..Mixes[mix].max

LEMMA DriveLimits ==
    /\ {Drive!None, Drive!Bus} \cap (Trains \cup {Far}) = {} /\ Drive!None # Drive!Bus
    /\ Drive!None \notin Throttles /\ Drive!None \notin Aliases
    /\ Speeds \subseteq Nat /\ Fns \subseteq Nat
    /\ Len(Mixes) \in Nat \ {0} /\ \A k \in 1..Len(Mixes) : Mixes[k].max \in Nat
BY NodesAssumption DEF Drive!TractionAssumption, Drive!None, Drive!Bus

\* The step of a speed that is a number is never 1.
LEMMA StepType ==
    ASSUME NEW m \in Speeds \cup {0}
    PROVE  Drive!f16_to_dcc_speed_step(m) \in 0..127 /\ Drive!f16_to_dcc_speed_step(m) # 1
<1>1. m \in Nat
  BY DriveLimits
<1> DEFINE x == (m * 1260) \div 1268
<1>2. x \in Nat
  BY <1>1
<1>3. Drive!f16_to_dcc_speed_step(m) =
        IF m = 0 THEN 0 ELSE IF x + 2 > 127 THEN 127 ELSE x + 2
  BY <1>1 DEF Drive!f16_to_dcc_speed_step, Drive!NaN
<1> HIDE DEF x
<1>4. QED  BY <1>2, <1>3

(* What the engine was told of a train is what its node says: functions,    *)
(* direction, the speed unless it is stopped, and then step 1.              *)
AgreesAt(t) ==
    /\ train[t].fns = dcc[t].fns /\ train[t].speed.neg = ~dcc[t].forward
    /\ ~train[t].emergency => dcc[t].step = Drive!f16_to_dcc_speed_step(train[t].speed.mag)
    /\ train[t].emergency => dcc[t].step = 1

\* The command is applied to its train, and to no other.
Obeyed(c) ==
    CASE c.op = "speed" -> Drive!on_set_speed(c.to, c)
      [] c.op = "fn"    -> Drive!on_set_fn(c.to, c)
      [] c.op = "estop" -> Drive!on_estop(c.to)

Kept(t) ==
    /\ train'[t].consist = train[t].consist /\ train'[t].owner = train[t].owner
    /\ train'[t].controller_alias = train[t].controller_alias

ObeyedWell(c) ==
    /\ FleetType'
    /\ \A t \in Trains : (t # c.to => train'[t] = train[t] /\ dcc'[t] = dcc[t]) /\ Kept(t)
    /\ AgreesAt(c.to)'
    /\ c.op = "speed" => /\ dcc'[c.to].step = Drive!f16_to_dcc_speed_step(c.speed.mag)
                         /\ dcc'[c.to].forward = ~c.speed.neg
    /\ c.op = "estop" => dcc'[c.to].step = 1

\* A train and its engine get new states.
LEMMA NewStates ==
    ASSUME FleetType, NEW t \in Trains, NEW u \in TrainState, NEW w \in EngineState,
           train' = [train EXCEPT ![t] = u], dcc' = [dcc EXCEPT ![t] = w]
    PROVE  /\ FleetType' /\ train'[t] = u /\ dcc'[t] = w
           /\ \A s \in Trains : s # t => train'[s] = train[s] /\ dcc'[s] = dcc[s]
BY DEF FleetType

LEMMA TrainParts ==
    ASSUME NEW u \in TrainState
    PROVE  /\ u.speed \in SpeedRec /\ u.emergency \in BOOLEAN /\ u.fns \in SUBSET (Fns \cap 0..68)
           /\ u.consist \in [Drive!Slots -> SlotRec] /\ u.owner \in Throttles \cup {Drive!None}
           /\ u.controller_alias \in Aliases \cup {Drive!None}
BY DEF TrainState

LEMMA OrderParts ==
    ASSUME NEW c \in Order
    PROVE  /\ c.op \in {"speed", "fn", "estop"} /\ c.to \in Trains /\ c.from \in Trains \cup {Drive!Bus}
           /\ c.listener \in BOOLEAN /\ c.speed \in SpeedRec /\ c.speed.mag \in Speeds \cup {0}
           /\ c.speed.neg \in BOOLEAN /\ c.fn \in Fns \cup {0} /\ c.on \in BOOLEAN
BY DEF Order, SpeedRec

LEMMA SpeedEffect ==
    ASSUME FleetType, NEW c \in Order, c.op = "speed", Drive!on_set_speed(c.to, c), AgreesAt(c.to)
    PROVE  ObeyedWell(c)
<1> DEFINE t == c.to
           p == Drive!f16_to_dcc_speed_step(c.speed.mag)
           u == [train[t] EXCEPT !.speed = c.speed, !.emergency = FALSE]
           w == [dcc[t] EXCEPT !.step = p, !.forward = ~c.speed.neg]
<1>1. t \in Trains /\ c.speed \in SpeedRec /\ c.speed.mag \in Speeds \cup {0} /\ c.speed.neg \in BOOLEAN
  BY OrderParts
<1>2. p \in 0..127
  BY <1>1, StepType
<1>3. train[t] \in TrainState /\ dcc[t] \in EngineState
  BY <1>1 DEF FleetType
<1>4. train' = [train EXCEPT ![t] = u] /\ dcc' = [dcc EXCEPT ![t] = w]
  BY DEF Drive!on_set_speed
<1> HIDE DEF t, p
<1>5. /\ u \in TrainState /\ u.speed = c.speed /\ u.emergency = FALSE /\ u.fns = train[t].fns
      /\ u.consist = train[t].consist /\ u.owner = train[t].owner
      /\ u.controller_alias = train[t].controller_alias
  <2> DEFINE x == train[t]
             v == c.speed
  <2>1. x \in TrainState /\ v \in SpeedRec
    BY <1>1, <1>3
  <2>2. u = [x EXCEPT !.speed = v, !.emergency = FALSE]
    OBVIOUS
  <2> HIDE DEF x, v, u
  <2>3. /\ u \in TrainState /\ u.speed = v /\ u.emergency = FALSE /\ u.fns = x.fns
        /\ u.consist = x.consist /\ u.owner = x.owner
        /\ u.controller_alias = x.controller_alias
    BY <2>1, <2>2 DEF TrainState
  <2>4. QED  BY <2>3 DEF x, v
<1>6. /\ w \in EngineState /\ w.step = p /\ w.forward = ~c.speed.neg /\ w.fns = dcc[t].fns
  <2> DEFINE x == dcc[t]
             v == ~c.speed.neg
  <2>1. x \in EngineState /\ p \in 0..127 /\ v \in BOOLEAN
    BY <1>1, <1>2, <1>3
  <2>2. w = [x EXCEPT !.step = p, !.forward = v]
    OBVIOUS
  <2> HIDE DEF x, v, w
  <2>3. w \in EngineState /\ w.step = p /\ w.forward = v /\ w.fns = x.fns
    BY ONLY <2>1, <2>2 DEF EngineState
  <2>4. QED  BY <2>3 DEF x, v
<1> HIDE DEF u, w
<1>7. /\ FleetType' /\ train'[t] = u /\ dcc'[t] = w
      /\ \A s \in Trains : s # t => train'[s] = train[s] /\ dcc'[s] = dcc[s]
  BY <1>1, <1>4, <1>5, <1>6, NewStates
<1>8. \A s \in Trains : Kept(s)
  BY <1>5, <1>7 DEF Kept
<1>9. AgreesAt(t)'
  BY <1>1, <1>5, <1>6, <1>7 DEF AgreesAt, p, t
<1>10. QED  BY <1>6, <1>7, <1>8, <1>9 DEF ObeyedWell, t, p

LEMMA EstopEffect ==
    ASSUME FleetType, NEW c \in Order, c.op = "estop", Drive!on_estop(c.to), AgreesAt(c.to)
    PROVE  ObeyedWell(c)
<1> DEFINE t == c.to
           u == [train[t] EXCEPT !.speed.mag = 0, !.emergency = TRUE]
           w == [dcc[t] EXCEPT !.step = 1]
<1>1. t \in Trains
  BY OrderParts
<1>3. train[t] \in TrainState /\ dcc[t] \in EngineState
  BY <1>1 DEF FleetType
<1>4. train' = [train EXCEPT ![t] = u] /\ dcc' = [dcc EXCEPT ![t] = w]
  BY DEF Drive!on_estop
<1> HIDE DEF t
<1>5. /\ u \in TrainState /\ u.speed.neg = train[t].speed.neg /\ u.emergency = TRUE
      /\ u.fns = train[t].fns /\ u.consist = train[t].consist /\ u.owner = train[t].owner
      /\ u.controller_alias = train[t].controller_alias
  BY <1>1, <1>3 DEF TrainState, SpeedRec
<1>6. /\ w \in EngineState /\ w.step = 1 /\ w.forward = dcc[t].forward /\ w.fns = dcc[t].fns
  BY <1>1, <1>3 DEF EngineState
<1> HIDE DEF u, w
<1>7. /\ FleetType' /\ train'[t] = u /\ dcc'[t] = w
      /\ \A s \in Trains : s # t => train'[s] = train[s] /\ dcc'[s] = dcc[s]
  BY <1>1, <1>4, <1>5, <1>6, NewStates
<1>8. \A s \in Trains : Kept(s)
  BY <1>5, <1>7 DEF Kept
<1>9. AgreesAt(t)'
  BY <1>1, <1>5, <1>6, <1>7 DEF AgreesAt, t
<1>10. QED  BY <1>6, <1>7, <1>8, <1>9 DEF ObeyedWell, t

LEMMA FnEffect ==
    ASSUME FleetType, NEW c \in Order, c.op = "fn", c.fn \in Fns, Drive!on_set_fn(c.to, c),
           AgreesAt(c.to)
    PROVE  ObeyedWell(c)
<1> DEFINE t == c.to
           u == [train[t] EXCEPT !.fns = Drive!Switched(@, c)]
           w == [dcc[t] EXCEPT !.fns = Drive!Switched(@, c)]
<1>1. t \in Trains /\ c.fn \in Nat
  BY OrderParts, DriveLimits
<1>3. train[t] \in TrainState /\ dcc[t] \in EngineState
  BY <1>1 DEF FleetType
<1>2. CASE c.fn > 68
  <2>1. train' = train /\ dcc' = dcc
    BY <1>2 DEF Drive!on_set_fn
  <2>2. FleetType' /\ AgreesAt(t)' /\ \A s \in Trains : Kept(s)
    BY <2>1 DEF FleetType, AgreesAt, Kept
  <2>3. QED  BY <2>1, <2>2 DEF ObeyedWell
<1>4. CASE ~(c.fn > 68)
  <2>1. train' = [train EXCEPT ![t] = u] /\ dcc' = [dcc EXCEPT ![t] = w]
    BY <1>4 DEF Drive!on_set_fn
  <2>2. c.fn \in Fns \cap 0..68
    BY <1>1, <1>4
  <2>3. train[t].fns \in SUBSET (Fns \cap 0..68) /\ dcc[t].fns \in SUBSET (0..68)
    BY <1>3 DEF TrainState, EngineState
  <2>4. /\ Drive!Switched(train[t].fns, c) \in SUBSET (Fns \cap 0..68)
        /\ Drive!Switched(dcc[t].fns, c) \in SUBSET (0..68)
    BY <2>2, <2>3 DEF Drive!Switched
  <2> HIDE DEF t
  <2>5. /\ u \in TrainState /\ u.speed = train[t].speed /\ u.emergency = train[t].emergency
        /\ u.fns = Drive!Switched(train[t].fns, c) /\ u.consist = train[t].consist
        /\ u.owner = train[t].owner /\ u.controller_alias = train[t].controller_alias
    BY <1>3, <2>4 DEF TrainState
  <2>6. /\ w \in EngineState /\ w.step = dcc[t].step /\ w.forward = dcc[t].forward
        /\ w.fns = Drive!Switched(dcc[t].fns, c)
    BY <1>3, <2>4 DEF EngineState
  <2> HIDE DEF u, w
  <2>7. /\ FleetType' /\ train'[t] = u /\ dcc'[t] = w
        /\ \A s \in Trains : s # t => train'[s] = train[s] /\ dcc'[s] = dcc[s]
    BY <1>1, <2>1, <2>5, <2>6, NewStates
  <2>8. \A s \in Trains : Kept(s)
    BY <2>5, <2>7 DEF Kept
  <2>9. AgreesAt(t)'
    BY <2>5, <2>6, <2>7 DEF AgreesAt, t
  <2>10. QED  BY <2>7, <2>8, <2>9 DEF ObeyedWell, t
<1>5. QED  BY <1>2, <1>4

LEMMA OrderEffect ==
    ASSUME FleetType, NEW c \in Order, c.op = "fn" => c.fn \in Fns, Obeyed(c), AgreesAt(c.to)
    PROVE  ObeyedWell(c)
<1>1. c.op \in {"speed", "fn", "estop"}
  BY OrderParts
<1>2. CASE c.op = "speed"
  BY <1>2, SpeedEffect DEF Obeyed
<1>3. CASE c.op = "fn"
  BY <1>3, FnEffect DEF Obeyed
<1>4. CASE c.op = "estop"
  BY <1>4, EstopEffect DEF Obeyed
<1>5. QED  BY <1>1, <1>2, <1>3, <1>4

-----------------------------------------------------------------------------
(* Consist tables.                                                         *)

\* The id in slot i of train t.
At(t, i) == train[t].consist[i].id

TableSet(t) ==
    /\ \A i, j \in Drive!Slots : At(t, i) = At(t, j) => i = j \/ At(t, i) = Drive!None
    /\ \A i \in Drive!Slots : At(t, i) # t

\* A query by index lists the slots that are used.
LEMMA TableMeans ==
    ASSUME \A t \in Trains : TableSet(t)
    PROVE  Drive!TableIsASet
<1> SUFFICES ASSUME NEW t \in Trains
             PROVE  /\ \A i, j \in Drive!Slots : train[t].consist[i].id = train[t].consist[j].id
                                   => i = j \/ train[t].consist[i].id = Drive!None
                    /\ Drive!Find(t, t) = {}
                    /\ {Drive!consist_find_nth(t, n) : n \in 0..Drive!consist_count(t) - 1}
                           = {train[t].consist[i].id : i \in Drive!Slots} \ {Drive!None}
  BY DEF Drive!TableIsASet
<1>1. \A i, j \in Drive!Slots : train[t].consist[i].id = train[t].consist[j].id
                                   => i = j \/ train[t].consist[i].id = Drive!None
  BY DEF TableSet, At
<1>2. Drive!Find(t, t) = {}
  BY DEF TableSet, At, Drive!Find
<1> DEFINE used == Drive!Slots \ Drive!Find(t, Drive!None)
           m == Cardinality(used)
<1>3. used \in SUBSET Drive!Slots /\ used \in SUBSET Nat /\ IsFiniteSet(used)
  BY SlotSets
<1>4. \A i \in Drive!Slots : i \in used <=> At(t, i) # Drive!None
  BY DEF Drive!Find, At
<1>5. Drive!consist_count(t) = m
  BY DriveCardinality DEF Drive!consist_count
<1>6. \A n : Drive!consist_find_nth(t, n) = IF n < m THEN At(t, Drive!Nth(used, n + 1)) ELSE Drive!None
  BY DriveCardinality DEF Drive!consist_find_nth, At
<1> HIDE DEF used
<1>7. m \in Nat
  BY <1>3, FS_CardinalityType
<1>8. /\ \A k \in 1..m : Drive!Nth(used, k) \in used
      /\ \A i \in used : \E k \in 1..m : Drive!Nth(used, k) = i
  BY <1>3, NthFacts
<1> HIDE DEF m
<1>9. ASSUME NEW n \in 0..m - 1
      PROVE  /\ Drive!consist_find_nth(t, n) \in {At(t, i) : i \in Drive!Slots}
             /\ Drive!consist_find_nth(t, n) # Drive!None
  <2>1. n < m /\ n + 1 \in 1..m
    BY <1>7
  <2>2. Drive!Nth(used, n + 1) \in used
    BY <1>8, <2>1
  <2>3. Drive!consist_find_nth(t, n) = At(t, Drive!Nth(used, n + 1))
    BY <1>6, <2>1
  <2>4. QED  BY <1>3, <1>4, <2>2, <2>3
<1>10. ASSUME NEW i \in Drive!Slots, At(t, i) # Drive!None
       PROVE  \E n \in 0..m - 1 : Drive!consist_find_nth(t, n) = At(t, i)
  <2>1. PICK k \in 1..m : Drive!Nth(used, k) = i
    BY <1>4, <1>8, <1>10
  <2>2. k - 1 \in 0..m - 1 /\ k - 1 < m /\ (k - 1) + 1 = k
    BY <1>7
  <2>3. Drive!consist_find_nth(t, k - 1) = At(t, i)
    BY <1>6, <2>1, <2>2
  <2>4. QED  BY <2>2, <2>3
<1>11. {Drive!consist_find_nth(t, n) : n \in 0..m - 1} = {At(t, i) : i \in Drive!Slots} \ {Drive!None}
  BY <1>9, <1>10
<1>12. QED  BY <1>1, <1>2, <1>5, <1>11 DEF At

\* A step that changes nothing but consist tables.
OnlyTables ==
    /\ dcc' = dcc
    /\ \A s \in Trains : /\ train'[s].speed = train[s].speed
                         /\ train'[s].emergency = train[s].emergency
                         /\ train'[s].fns = train[s].fns /\ train'[s].owner = train[s].owner
                         /\ train'[s].controller_alias = train[s].controller_alias

\* A slot of one train is set.
SlotIs(t, i, id) ==
    /\ FleetType' /\ OnlyTables
    /\ \A s \in Trains, j \in Drive!Slots :
            train'[s].consist[j].id = IF s = t /\ j = i THEN id ELSE At(s, j)

\* A train gets a new state, and the engine is told nothing.
Becomes(t, u) ==
    FleetType' /\ train'[t] = u /\ \A s \in Trains : s # t => train'[s] = train[s]

LEMMA NewTrain ==
    ASSUME FleetType, NEW t \in Trains, NEW u \in TrainState,
           train' = [train EXCEPT ![t] = u], dcc' = dcc
    PROVE  Becomes(t, u)
<1>1. FleetType'
  BY DEF FleetType
<1>2. train'[t] = u /\ \A s \in Trains : s # t => train'[s] = train[s]
  BY DEF FleetType
<1>3. QED  BY <1>1, <1>2 DEF Becomes

LEMMA SlotOf ==
    ASSUME FleetType, NEW t \in Trains, NEW i \in Drive!Slots, NEW r \in SlotRec,
           NEW u \in TrainState, u.speed = train[t].speed, u.emergency = train[t].emergency,
           u.fns = train[t].fns, u.owner = train[t].owner,
           u.controller_alias = train[t].controller_alias,
           u.consist = [train[t].consist EXCEPT ![i] = r],
           train' = [train EXCEPT ![t] = u], dcc' = dcc
    PROVE  SlotIs(t, i, r.id)
<1>1. Becomes(t, u)
  BY NewTrain
<1>2. FleetType' /\ train'[t] = u /\ \A s \in Trains : s # t => train'[s] = train[s]
  BY <1>1 DEF Becomes
<1>3. train[t].consist \in [Drive!Slots -> SlotRec]
  <2>1. train[t] \in TrainState
    BY DEF FleetType
  <2>2. QED  BY <2>1, TrainParts
<1>4. \A j \in Drive!Slots : u.consist[j] = IF j = i THEN r ELSE train[t].consist[j]
  BY <1>3
<1>5. OnlyTables
  BY <1>2 DEF OnlyTables
<1>6. ASSUME NEW s \in Trains, NEW j \in Drive!Slots
      PROVE  train'[s].consist[j].id = IF s = t /\ j = i THEN r.id ELSE At(s, j)
  <2>1. CASE s = t
    <3>1. train'[s] = u
      BY ONLY <1>2, <2>1
    <3>2. u.consist[j] = IF j = i THEN r ELSE train[t].consist[j]
      BY <1>4
    <3>3. train'[s].consist[j].id = u.consist[j].id
      BY ONLY <3>1
    <3>4. u.consist[j].id = IF s = t /\ j = i THEN r.id ELSE At(s, j)
      BY <2>1, <3>2 DEF At
    <3>5. QED  BY ONLY <3>3, <3>4
  <2>2. CASE s # t
    BY <1>2, <2>2 DEF At
  <2>3. QED  BY <2>1, <2>2
<1>7. QED  BY <1>2, <1>5, <1>6 DEF SlotIs

LEMMA SlotSet ==
    ASSUME FleetType, NEW t \in Trains, NEW i \in Drive!Slots, NEW r \in SlotRec,
           train' = [train EXCEPT ![t].consist[i] = r], dcc' = dcc
    PROVE  SlotIs(t, i, r.id)
<1> DEFINE u == [train[t] EXCEPT !.consist = [@ EXCEPT ![i] = r]]
<1>1. train[t] \in TrainState
  BY DEF FleetType
<1>2. train' = [train EXCEPT ![t] = u]
  BY DEF FleetType
<1>3. train[t].consist \in [Drive!Slots -> SlotRec]
  BY <1>1, TrainParts
<1>4. [train[t].consist EXCEPT ![i] = r] \in [Drive!Slots -> SlotRec]
  BY <1>3
<1>5. /\ u \in TrainState /\ u.speed = train[t].speed /\ u.emergency = train[t].emergency
      /\ u.fns = train[t].fns /\ u.owner = train[t].owner
      /\ u.controller_alias = train[t].controller_alias
      /\ u.consist = [train[t].consist EXCEPT ![i] = r]
  BY <1>1, <1>4 DEF TrainState
<1> HIDE DEF u
<1>6. QED  BY <1>2, <1>5, SlotOf

\* Nothing happens to the trains.
LEMMA TrainsStay ==
    ASSUME FleetType, UNCHANGED <<train, dcc>>
    PROVE  FleetType' /\ OnlyTables /\ \A t \in Trains : TableSet(t) => TableSet(t)'
BY DEF FleetType, OnlyTables, TableSet, At

LEMMA AttachEffect ==
    ASSUME FleetType, \A s \in Trains : TableSet(s),
           NEW t \in Trains, NEW id \in Trains \cup {Far}, mix \in 1..Len(Mixes),
           NEW f \in Mixes[mix].flags, Drive!on_consist_attach(t, id, f)
    PROVE  FleetType' /\ OnlyTables /\ \A s \in Trains : TableSet(s)'
<1> DEFINE S == Drive!AttachSlot(t, id)
           i == Drive!First(S)
           r == [id |-> id, flags |-> f]
<1>0. dcc' = dcc
  BY DEF Drive!on_consist_attach
<1>1. CASE id = t \/ S = {}
  BY <1>0, <1>1, TrainsStay DEF Drive!on_consist_attach
<1>2. CASE id # t /\ S # {}
  <2>1. train' = [train EXCEPT ![t].consist[i] = r]
    BY <1>2 DEF Drive!on_consist_attach
  <2>2. S \in SUBSET Drive!Slots
    BY DEF Drive!AttachSlot, Drive!Find
  <2>3. i \in S
    BY <1>2, <2>2, SlotSets, FirstIn
  <2>4. At(t, i) = id \/ (At(t, i) = Drive!None /\ \A j \in Drive!Slots : At(t, j) # id)
    BY <2>3 DEF Drive!AttachSlot, Drive!Find, At
  <2>5. r \in SlotRec
    BY DEF SlotRec
  <2>6. i \in Drive!Slots
    BY <2>2, <2>3
  <2> HIDE DEF i, S
  <2>7. r.id = id
    OBVIOUS
  <2> HIDE DEF r
  <2>a. SlotIs(t, i, id)
    BY <1>0, <2>1, <2>5, <2>6, <2>7, SlotSet
  <2>8. /\ FleetType' /\ OnlyTables
        /\ \A s \in Trains, j \in Drive!Slots : At(s, j)' = IF s = t /\ j = i THEN id ELSE At(s, j)
    BY <2>a DEF SlotIs, At
  <2>9. ASSUME NEW s \in Trains PROVE TableSet(s)'
    <3>1. CASE s # t
      BY <2>8, <3>1 DEF TableSet
    <3>2. CASE s = t
      <4>1. \A j, k \in Drive!Slots : At(t, j) = At(t, k) => j = k \/ At(t, j) = Drive!None
        BY DEF TableSet
      <4>2. \A j, k \in Drive!Slots : At(t, j)' = At(t, k)' => j = k \/ At(t, j)' = Drive!None
        BY <2>4, <2>6, <2>8, <4>1
      <4>3. \A j \in Drive!Slots : At(t, j)' # t
        BY <1>2, <2>8 DEF TableSet
      <4>4. QED  BY <3>2, <4>2, <4>3 DEF TableSet
    <3>3. QED  BY <3>1, <3>2
  <2>10. QED  BY <2>8, <2>9
<1>3. QED  BY <1>1, <1>2

LEMMA NoSlaveType == Drive!NoSlave \in SlotRec /\ Drive!NoSlave.id = Drive!None
<1> DEFINE I == Trains \cup {Far} \cup {Drive!None}
           F == {{}} \cup UNION {Mixes[k].flags : k \in 1..Len(Mixes)}
<1>1. Drive!None \in I
  OBVIOUS
<1>2. {} \in F
  BY Zenon
<1> HIDE DEF I, F
<1>3. [id |-> Drive!None, flags |-> {}] \in [id : I, flags : F]
  BY <1>1, <1>2
<1>4. QED  BY <1>3 DEF SlotRec, Drive!NoSlave, I, F

LEMMA DetachEffect ==
    ASSUME FleetType, \A s \in Trains : TableSet(s),
           NEW t \in Trains, NEW id \in Trains \cup {Far}, Drive!on_consist_detach(t, id)
    PROVE  FleetType' /\ OnlyTables /\ \A s \in Trains : TableSet(s)'
<1> DEFINE S == Drive!Find(t, id)
           i == Drive!First(S)
<1>0. dcc' = dcc
  BY DEF Drive!on_consist_detach
<1>1. CASE S = {}
  BY <1>0, <1>1, TrainsStay DEF Drive!on_consist_detach
<1>2. CASE S # {}
  <2>1. train' = [train EXCEPT ![t].consist[i] = Drive!NoSlave]
    BY <1>2 DEF Drive!on_consist_detach
  <2>2. S \in SUBSET Drive!Slots
    BY DEF Drive!Find
  <2>3. i \in Drive!Slots
    BY <1>2, <2>2, SlotSets, FirstIn
  <2>4. Drive!NoSlave \in SlotRec /\ Drive!NoSlave.id = Drive!None
    BY NoSlaveType
  <2> HIDE DEF i, S
  <2>a. SlotIs(t, i, Drive!None)
    BY <1>0, <2>1, <2>3, <2>4, SlotSet
  <2>5. /\ FleetType' /\ OnlyTables
        /\ \A s \in Trains, j \in Drive!Slots :
                At(s, j)' = IF s = t /\ j = i THEN Drive!None ELSE At(s, j)
    BY <2>a DEF SlotIs, At
  <2>6. \A s \in Trains : s # Drive!None
    BY DriveLimits
  <2>7. QED  BY <2>5, <2>6 DEF TableSet
<1>3. QED  BY <1>1, <1>2

-----------------------------------------------------------------------------
(* Controllers.                                                            *)

(* A throttle that thinks it controls a train is the train's controller,    *)
(* and holds the alias the train knows of it.                               *)
Controlled ==
    /\ \A th \in Throttles : \A t \in Trains : t \in believes[th] =>
            /\ train[t].owner = th /\ train[t].controller_alias # Drive!None
            /\ holder[train[t].controller_alias] = th
    /\ Drive!NoticeToLoser

LEMMA ControlledMeans == DeskType /\ Controlled => ControllersAreTold
BY DEF DeskType, Controlled, ControllersAreTold, Drive!LosersAreTold

\* A step of the desk leaves what a train does, and its consist, alone.
OnlyOwners ==
    /\ FleetType' /\ dcc' = dcc
    /\ \A s \in Trains : /\ train'[s].speed = train[s].speed
                         /\ train'[s].emergency = train[s].emergency
                         /\ train'[s].fns = train[s].fns /\ train'[s].consist = train[s].consist

Owned(t, o, a) == train'[t].owner = o /\ train'[t].controller_alias = a
SameOwner(t) == Owned(t, train[t].owner, train[t].controller_alias)

\* A train gets another controller.
LEMMA OwnerSet ==
    ASSUME FleetType, NEW t \in Trains, NEW o \in Throttles \cup {Drive!None},
           NEW a \in Aliases \cup {Drive!None},
           train' = [train EXCEPT ![t].owner = o, ![t].controller_alias = a], dcc' = dcc
    PROVE  OnlyOwners /\ Owned(t, o, a) /\ \A s \in Trains : s # t => SameOwner(s)
<1> DEFINE u == [train[t] EXCEPT !.owner = o, !.controller_alias = a]
<1>1. train[t] \in TrainState
  BY DEF FleetType
<1>2. train' = [train EXCEPT ![t] = u]
  BY DEF FleetType
<1>3. /\ u \in TrainState /\ u.speed = train[t].speed /\ u.emergency = train[t].emergency
      /\ u.fns = train[t].fns /\ u.consist = train[t].consist /\ u.owner = o
      /\ u.controller_alias = a
  BY <1>1 DEF TrainState
<1> HIDE DEF u
<1>4. Becomes(t, u)
  BY <1>2, <1>3, NewTrain
<1>5. FleetType' /\ train'[t] = u /\ \A s \in Trains : s # t => train'[s] = train[s]
  BY <1>4 DEF Becomes
<1>6. OnlyOwners
  BY <1>3, <1>5 DEF OnlyOwners
<1>7. Owned(t, o, a) /\ \A s \in Trains : s # t => SameOwner(s)
  BY <1>3, <1>5 DEF Owned, SameOwner
<1>8. QED  BY <1>6, <1>7

\* Trains forget an alias.
Forgets(t, a, amr, id) == train[t].controller_alias = a /\ (amr \/ train[t].owner # id)

LEMMA AliasForgotten ==
    ASSUME FleetType, NEW a, NEW amr \in BOOLEAN, NEW id,
           train' = Drive!lcc_traction_handle_control(a, amr, id), dcc' = dcc
    PROVE  /\ OnlyOwners
           /\ \A t \in Trains : IF Forgets(t, a, amr, id) THEN Owned(t, train[t].owner, Drive!None)
                                ELSE SameOwner(t)
<1> DEFINE u(t) == [train[t] EXCEPT !.controller_alias = Drive!None]
<1>1. ASSUME NEW t \in Trains
      PROVE  /\ u(t) \in TrainState /\ u(t).speed = train[t].speed
             /\ u(t).emergency = train[t].emergency /\ u(t).fns = train[t].fns
             /\ u(t).consist = train[t].consist /\ u(t).owner = train[t].owner
             /\ u(t).controller_alias = Drive!None
  <2>1. train[t] \in TrainState
    BY DEF FleetType
  <2>2. QED  BY <2>1 DEF TrainState
<1>2. train' = [t \in Trains |-> IF Forgets(t, a, amr, id) THEN u(t) ELSE train[t]]
  BY DEF Drive!lcc_traction_handle_control, Forgets
<1> HIDE DEF u
<1>3. \A t \in Trains : train'[t] = IF Forgets(t, a, amr, id) THEN u(t) ELSE train[t]
  BY <1>2
<1>4. FleetType'
  BY <1>1, <1>2 DEF FleetType
<1>5. OnlyOwners
  BY <1>1, <1>3, <1>4 DEF OnlyOwners
<1>6. \A t \in Trains : IF Forgets(t, a, amr, id) THEN Owned(t, train[t].owner, Drive!None)
                        ELSE SameOwner(t)
  BY <1>1, <1>3 DEF Owned, SameOwner
<1>7. QED  BY <1>5, <1>6

\* One request more.
Counted == mix' = mix /\ ops' \in 0..Mixes[mix].max

LEMMA CountedType ==
    ASSUME DeskType, UNCHANGED mix, NEW op, Drive!Request(op)
    PROVE  Counted /\ calls = <<>>
<1>1. Mixes[mix].max \in Nat /\ ops \in 0..Mixes[mix].max
  BY DriveLimits DEF DeskType
<1>2. ops < Mixes[mix].max /\ ops' = ops + 1 /\ calls = <<>>
  BY DEF Drive!Request
<1>3. QED  BY <1>1, <1>2 DEF Counted

LEMMA DeskStays ==
    ASSUME DeskType, Controlled, UNCHANGED mix, ops' \in 0..Mixes[mix].max,
           UNCHANGED <<holder, believes>>, \A t \in Trains : SameOwner(t)
    PROVE  DeskType' /\ Controlled'
<1>1. DeskType'
  BY DEF DeskType
<1>2. Controlled'
  BY DEF Controlled, Drive!NoticeToLoser, SameOwner, Owned
<1>3. QED  BY <1>1, <1>2

LEMMA AliasHeld ==
    ASSUME NEW th, Drive!OnBus(th)
    PROVE  Drive!AliasOf(th) \in Aliases /\ holder[Drive!AliasOf(th)] = th
BY DEF Drive!OnBus, Drive!AliasOf

LEMMA AssignEffect ==
    ASSUME FleetType, DeskType, Controlled, UNCHANGED mix, NEW t \in Trains, NEW th \in Throttles,
           Drive!on_assign_controller(t, th)
    PROVE  OnlyOwners /\ DeskType' /\ Controlled'
<1> DEFINE a == Drive!AliasOf(th)
           to == train[t].controller_alias
<1>1. a \in Aliases /\ holder[a] = th
  BY AliasHeld DEF Drive!on_assign_controller
<1>2. Counted
  BY CountedType DEF Drive!on_assign_controller
<1>3. /\ train' = [train EXCEPT ![t].owner = th, ![t].controller_alias = a] /\ dcc' = dcc
      /\ holder' = holder
  BY DEF Drive!on_assign_controller
<1> HIDE DEF a
<1>4. OnlyOwners /\ Owned(t, th, a) /\ \A s \in Trains : s # t => SameOwner(s)
  BY <1>1, <1>3, OwnerSet
<1>5. /\ believes' \in [Throttles -> SUBSET Trains]
      /\ \A x \in Throttles : believes'[x] =
            IF x = th THEN believes[x] \cup {t}
            ELSE IF Drive!Loses(t, th) /\ x = holder[to] THEN believes[x] \ {t} ELSE believes[x]
  <2> DEFINE B == [x \in Throttles |-> IF x = holder[to] THEN believes[x] \ {t} ELSE believes[x]]
  <2>0. believes \in [Throttles -> SUBSET Trains]
    BY DEF DeskType
  <2>1. B \in [Throttles -> SUBSET Trains]
    BY <2>0
  <2>2. CASE Drive!Loses(t, th)
    <3>1. believes' = [B EXCEPT ![th] = @ \cup {t}]
      BY <2>2 DEF Drive!on_assign_controller
    <3>2. B[th] \ {t} = believes[th] \ {t}
      BY <2>0
    <3>3. QED
      BY <2>0, <2>1, <2>2, <3>1, <3>2
  <2>3. CASE ~Drive!Loses(t, th)
    <3>1. believes' = [believes EXCEPT ![th] = @ \cup {t}]
      BY <2>3 DEF Drive!on_assign_controller
    <3>2. QED  BY <2>0, <2>3, <3>1
  <2>4. QED  BY <2>2, <2>3
<1>6. DeskType'
  BY <1>2, <1>3, <1>5 DEF DeskType, Counted
<1>7. ASSUME NEW x \in Throttles, NEW s \in Trains, s \in believes'[x]
      PROVE  /\ train'[s].owner = x /\ train'[s].controller_alias # Drive!None
             /\ holder'[train'[s].controller_alias] = x
  <2>1. CASE x = th /\ s = t
    BY <1>1, <1>3, <1>4, <2>1, DriveLimits DEF Owned
  <2>2. CASE s # t
    <3>1. s \in believes[x]
      BY <1>5, <1>7, <2>2
    <3>2. /\ train[s].owner = x /\ train[s].controller_alias # Drive!None
          /\ holder[train[s].controller_alias] = x
      BY <3>1 DEF Controlled
    <3>3. SameOwner(s) /\ holder' = holder
      BY <1>3, <1>4, <2>2
    <3>4. QED  BY ONLY <3>2, <3>3 DEF SameOwner, Owned
  <2>3. CASE x # th /\ s = t
    <3>1. t \in believes[x] /\ ~(Drive!Loses(t, th) /\ x = holder[to])
      BY <1>5, <1>7, <2>3
    <3>2. train[t].owner = x /\ to # Drive!None /\ holder[to] = x
      BY <3>1 DEF Controlled
    <3>3. x # Drive!None
      BY DriveLimits
    <3>4. QED  BY <2>3, <3>1, <3>2, <3>3 DEF Drive!Loses
  <2>4. QED  BY <2>1, <2>2, <2>3
<1>8. Drive!NoticeToLoser'
  BY <1>1, <1>3, <1>4 DEF Controlled, Drive!NoticeToLoser, SameOwner, Owned
<1>9. QED  BY <1>4, <1>6, <1>7, <1>8 DEF Controlled

LEMMA ReleaseEffect ==
    ASSUME FleetType, DeskType, Controlled, UNCHANGED mix, NEW t \in Trains, NEW th \in Throttles,
           Drive!on_release_controller(t, th)
    PROVE  OnlyOwners /\ DeskType' /\ Controlled'
<1>2. Counted
  BY CountedType DEF Drive!on_release_controller
<1>3. dcc' = dcc /\ holder' = holder /\ believes' = [believes EXCEPT ![th] = @ \ {t}]
  BY DEF Drive!on_release_controller
<1>4. /\ OnlyOwners /\ \A s \in Trains : s # t => SameOwner(s)
      /\ IF train[t].owner = th THEN Owned(t, Drive!None, Drive!None) ELSE SameOwner(t)
  <2>1. CASE train[t].owner = th
    <3>1. train' = [train EXCEPT ![t].owner = Drive!None, ![t].controller_alias = Drive!None]
      BY <2>1 DEF Drive!on_release_controller, Drive!Releases
    <3>2. QED  BY <1>3, <2>1, <3>1, OwnerSet
  <2>2. CASE train[t].owner # th
    <3>1. train' = train
      BY <2>2 DEF Drive!on_release_controller, Drive!Releases
    <3>2. QED  BY <1>3, <2>2, <3>1 DEF OnlyOwners, SameOwner, Owned, FleetType
  <2>3. QED  BY <2>1, <2>2
<1>5. /\ believes' \in [Throttles -> SUBSET Trains]
      /\ \A x \in Throttles : believes'[x] = IF x = th THEN believes[x] \ {t} ELSE believes[x]
  BY <1>3 DEF DeskType
<1>6. DeskType'
  BY <1>2, <1>3, <1>5 DEF DeskType, Counted
<1>7. ASSUME NEW x \in Throttles, NEW s \in Trains, s \in believes'[x]
      PROVE  SameOwner(s) /\ s \in believes[x]
  <2>1. s \in believes[x] /\ (x # th \/ s # t)
    BY <1>5, <1>7
  <2>2. train[s].owner = x
    BY <2>1 DEF Controlled
  <2>3. QED  BY <1>4, <2>1, <2>2
<1>8. Drive!NoticeToLoser'
  BY <1>3, <1>4 DEF Controlled, Drive!NoticeToLoser, SameOwner, Owned
<1>9. QED  BY <1>3, <1>4, <1>6, <1>7, <1>8 DEF Controlled, SameOwner, Owned

LEMMA LeaveEffect ==
    ASSUME FleetType, DeskType, Controlled, UNCHANGED mix, NEW th \in Throttles, NEW amr \in BOOLEAN,
           Drive!leave(th, amr)
    PROVE  OnlyOwners /\ DeskType' /\ Controlled'
<1> DEFINE a == Drive!AliasOf(th)
<1>1. a \in Aliases /\ holder[a] = th
  BY AliasHeld DEF Drive!leave
<1>2. Counted
  BY CountedType DEF Drive!leave
<1>3. /\ train' = IF amr THEN Drive!lcc_traction_handle_control(a, TRUE, th) ELSE train
      /\ dcc' = dcc /\ holder' = [holder EXCEPT ![a] = Drive!None]
      /\ believes' = [believes EXCEPT ![th] = {}]
  BY DEF Drive!leave
<1> HIDE DEF a
<1>4. /\ OnlyOwners
      /\ \A s \in Trains : SameOwner(s) \/ (train[s].controller_alias = a
                                            /\ Owned(s, train[s].owner, Drive!None))
  <2>1. CASE amr
    <3>1. train' = Drive!lcc_traction_handle_control(a, TRUE, th)
      BY <1>3, <2>1
    <3>2. QED  BY <1>3, <3>1, AliasForgotten DEF Forgets
  <2>2. CASE ~amr
    BY <1>3, <2>2 DEF OnlyOwners, SameOwner, Owned, FleetType
  <2>3. QED  BY <2>1, <2>2
<1>5. /\ believes' \in [Throttles -> SUBSET Trains]
      /\ \A x \in Throttles : believes'[x] = IF x = th THEN {} ELSE believes[x]
  BY <1>3 DEF DeskType
<1>6. /\ holder' \in [Aliases -> Throttles \cup {Drive!None}]
      /\ \A b \in Aliases : holder'[b] = IF b = a THEN Drive!None ELSE holder[b]
  BY <1>1, <1>3 DEF DeskType
<1>7. DeskType'
  BY <1>2, <1>5, <1>6 DEF DeskType, Counted
<1>8. \A s \in Trains : train[s].controller_alias \in Aliases \cup {Drive!None}
  <2> SUFFICES ASSUME NEW s \in Trains PROVE train[s].controller_alias \in Aliases \cup {Drive!None}
    OBVIOUS
  <2>1. train[s] \in TrainState
    BY DEF FleetType
  <2>2. QED  BY <2>1, TrainParts
<1>9. ASSUME NEW x \in Throttles, NEW s \in Trains, s \in believes'[x]
      PROVE  /\ train'[s].owner = x /\ train'[s].controller_alias # Drive!None
             /\ holder'[train'[s].controller_alias] = x
  <2>1. x # th /\ s \in believes[x]
    BY <1>5, <1>9
  <2>2. /\ train[s].owner = x /\ train[s].controller_alias # Drive!None
        /\ holder[train[s].controller_alias] = x
    BY <2>1 DEF Controlled
  <2>3. train[s].controller_alias # a /\ train[s].controller_alias \in Aliases
    BY <1>1, <1>8, <2>1, <2>2
  <2>4. QED  BY <1>4, <1>6, <2>2, <2>3 DEF SameOwner, Owned
<1>10. Drive!NoticeToLoser'
  <2> SUFFICES ASSUME NEW s \in Trains, train'[s].controller_alias # Drive!None
               PROVE  holder'[train'[s].controller_alias] \in {train'[s].owner, Drive!None}
    BY DEF Drive!NoticeToLoser
  <2>1. SameOwner(s)
    BY <1>4 DEF Owned
  <2>2. holder[train[s].controller_alias] \in {train[s].owner, Drive!None}
    BY <2>1 DEF SameOwner, Owned, Controlled, Drive!NoticeToLoser
  <2>3. train[s].controller_alias \in Aliases
    BY <1>8, <2>1 DEF SameOwner, Owned
  <2>4. QED  BY <1>6, <2>1, <2>2, <2>3 DEF SameOwner, Owned
<1>11. QED  BY <1>4, <1>7, <1>9, <1>10 DEF Controlled

LEMMA ClaimEffect ==
    ASSUME FleetType, DeskType, Controlled, UNCHANGED mix, NEW th \in Throttles, NEW a \in Aliases,
           Drive!claim(th, a)
    PROVE  OnlyOwners /\ DeskType' /\ Controlled'
<1>1. /\ train' = Drive!lcc_traction_handle_control(a, FALSE, th) /\ dcc' = dcc
      /\ holder' = [holder EXCEPT ![a] = th] /\ UNCHANGED <<believes, ops>>
      /\ holder[a] = Drive!None
  BY DEF Drive!claim
<1>2. /\ OnlyOwners
      /\ \A s \in Trains : IF Forgets(s, a, FALSE, th) THEN Owned(s, train[s].owner, Drive!None)
                           ELSE SameOwner(s)
  BY <1>1, AliasForgotten
<1>3. /\ holder' \in [Aliases -> Throttles \cup {Drive!None}]
      /\ \A b \in Aliases : holder'[b] = IF b = a THEN th ELSE holder[b]
  BY <1>1 DEF DeskType
<1>4. DeskType'
  BY <1>1, <1>3 DEF DeskType
<1>5. \A s \in Trains : train[s].controller_alias \in Aliases \cup {Drive!None}
  <2> SUFFICES ASSUME NEW s \in Trains PROVE train[s].controller_alias \in Aliases \cup {Drive!None}
    OBVIOUS
  <2>1. train[s] \in TrainState
    BY DEF FleetType
  <2>2. QED  BY <2>1, TrainParts
<1>6. ASSUME NEW x \in Throttles, NEW s \in Trains, s \in believes'[x]
      PROVE  /\ train'[s].owner = x /\ train'[s].controller_alias # Drive!None
             /\ holder'[train'[s].controller_alias] = x
  <2>1. s \in believes[x]
    BY <1>1, <1>6
  <2>2. /\ train[s].owner = x /\ train[s].controller_alias # Drive!None
        /\ holder[train[s].controller_alias] = x
    BY <2>1 DEF Controlled
  <2>3. train[s].controller_alias # a /\ train[s].controller_alias \in Aliases
    BY <1>1, <1>5, <2>2, DriveLimits
  <2>4. SameOwner(s)
    BY <1>2, <2>3 DEF Forgets
  <2>5. QED  BY <1>3, <2>2, <2>3, <2>4 DEF SameOwner, Owned
<1>7. Drive!NoticeToLoser'
  <2> SUFFICES ASSUME NEW s \in Trains, train'[s].controller_alias # Drive!None
               PROVE  holder'[train'[s].controller_alias] \in {train'[s].owner, Drive!None}
    BY DEF Drive!NoticeToLoser
  <2>1. SameOwner(s) /\ ~Forgets(s, a, FALSE, th)
    BY <1>2 DEF Owned
  <2>2. train[s].controller_alias # Drive!None
    BY <2>1 DEF SameOwner, Owned
  <2>3. holder[train[s].controller_alias] \in {train[s].owner, Drive!None}
    BY <2>2 DEF Controlled, Drive!NoticeToLoser
  <2>4. train[s].controller_alias = a => train[s].owner = th
    BY <2>1 DEF Forgets
  <2>5. QED  BY <1>3, <1>5, <2>1, <2>2, <2>3, <2>4 DEF SameOwner, Owned
<1>8. QED  BY <1>2, <1>4, <1>6, <1>7 DEF Controlled

-----------------------------------------------------------------------------
(* Commands along a consist.                                               *)

Flags(t, i) == train[t].consist[i].flags

\* An order whose function is one a throttle switches.
IsOrder(c) == c \in Order /\ (c.op = "fn" => c.fn \in Fns)

\* The command as slot i of its train passes it on, and whether it does.
Sent(i) == Drive!forward_to_slave(At(command.to, i), Flags(command.to, i), command)
Wanted(i) == /\ At(command.to, i) \in Trains
             /\ Drive!consist_should_forward(Flags(command.to, i), command)

\* What the slave in slot i does once it obeyed.
Led(i) ==
    LET s == At(command.to, i) IN
    /\ command.op \in {"speed", "estop"} => dcc[s].step = dcc[command.to].step
    /\ command.op = "speed" => (dcc[s].forward # dcc[command.to].forward)
                                    = ("REVERSE" \in Flags(command.to, i))

(* The train obeyed: every call not handled yet is one slot's, of a slave   *)
(* that has not obeyed; every slave waits for its call, or obeyed it, or    *)
(* gets none.                                                               *)
Leads ==
    /\ command.op = "speed" =>
            /\ dcc[command.to].step = Drive!f16_to_dcc_speed_step(command.speed.mag)
            /\ dcc[command.to].forward = ~command.speed.neg
    /\ command.op = "estop" => dcc[command.to].step = 1
CallsAre ==
    /\ calls \in Seq(Order)
    /\ \A k \in 1..Len(calls) : \E i \in Drive!Slots :
            Wanted(i) /\ calls[k] = Sent(i) /\ hits[At(command.to, i)] = 0
    /\ \A j, k \in 1..Len(calls) : calls[j].to = calls[k].to => j = k
SlotIn(i) ==
    LET s == At(command.to, i) IN
    \/ Wanted(i) /\ hits[s] = 0 /\ \E k \in 1..Len(calls) : calls[k] = Sent(i)
    \/ Wanted(i) /\ hits[s] = 1 /\ Led(i)
    \/ ~Wanted(i) /\ hits[s] = 0
SlotsAre == \A i \in Drive!Slots : At(command.to, i) \in Trains => SlotIn(i)

Queue == IsOrder(command) /\ ~command.listener /\ Leads /\ CallsAre /\ SlotsAre
Start == /\ IsOrder(command) /\ command.from = Drive!Bus /\ calls = <<command>>
         /\ \A t \in Trains : hits[t] = 0
CallsInv ==
    /\ hits \in [Trains -> {0, 1}]
    /\ command # Drive!NoCommand => command.to \in Trains
    /\ (calls = <<>> /\ Drive!ConsistFollows) \/ Start \/ Queue

\* A call that a consist makes.
LEMMA SentFacts ==
    ASSUME NEW c, IsOrder(c), NEW s \in Trains, NEW f
    PROVE  LET r == Drive!forward_to_slave(s, f, c)
           IN  /\ IsOrder(r) /\ r.op = c.op /\ r.to = s /\ r.from = c.to /\ r.listener
               /\ r.fn = c.fn /\ r.on = c.on /\ r.speed.mag = c.speed.mag
               /\ c.op = "speed" => (r.speed.neg # c.speed.neg) = ("REVERSE" \in f)
<1> DEFINE n == IF c.op = "speed" /\ "REVERSE" \in f THEN ~c.speed.neg ELSE c.speed.neg
           v == [c.speed EXCEPT !.neg = n]
           r == [c EXCEPT !.to = s, !.from = c.to, !.listener = TRUE, !.speed = v]
<1>1. c \in Order /\ (c.op = "fn" => c.fn \in Fns)
  BY DEF IsOrder
<1>2. c.speed \in SpeedRec /\ c.speed.neg \in BOOLEAN /\ c.to \in Trains
  BY <1>1, OrderParts
<1>3. n \in BOOLEAN /\ (c.op = "speed" => (n # c.speed.neg) = ("REVERSE" \in f))
  <2>1. n \in BOOLEAN
    BY <1>2
  <2>2. ASSUME c.op = "speed" PROVE (n # c.speed.neg) <=> ("REVERSE" \in f)
    <3>1. CASE "REVERSE" \in f
      <4>1. n = ~c.speed.neg
        BY <2>2, <3>1
      <4>2. QED  BY <1>2, <3>1, <4>1
    <3>2. CASE "REVERSE" \notin f
      <4>1. n = c.speed.neg
        BY <2>2, <3>2
      <4>2. QED  BY <3>2, <4>1
    <3>3. QED  BY <3>1, <3>2
  <2> HIDE DEF n
  <2>3. ASSUME c.op = "speed" PROVE (n # c.speed.neg) = ("REVERSE" \in f)
    <3> DEFINE p == n # c.speed.neg
               q == "REVERSE" \in f
    <3>1. p <=> q
      BY <2>2, <2>3
    <3>2. p \in BOOLEAN /\ q \in BOOLEAN
      OBVIOUS
    <3> HIDE DEF p, q
    <3>3. p = q
      BY <3>1, <3>2
    <3>4. QED  BY <3>3 DEF p, q
  <2>4. QED  BY <2>1, <2>3
<1>4. Drive!forward_to_slave(s, f, c) = r
  BY <1>1 DEF Drive!forward_to_slave, Order
<1> HIDE DEF n
<1>5. v \in SpeedRec /\ v.mag = c.speed.mag /\ v.neg = n
  BY <1>2, <1>3 DEF SpeedRec
<1> HIDE DEF v
<1>6. /\ r \in Order /\ r.op = c.op /\ r.to = s /\ r.from = c.to /\ r.listener = TRUE
      /\ r.fn = c.fn /\ r.on = c.on /\ r.speed = v
  BY <1>1, <1>2, <1>5 DEF Order
<1> HIDE DEF r
<1>7. IsOrder(r)
  BY <1>1, <1>6 DEF IsOrder
<1>8. QED  BY <1>3, <1>4, <1>5, <1>6, <1>7

\* With no call left, the consist follows.
LEMMA QueueEnds ==
    ASSUME Queue, calls = <<>>
    PROVE  Drive!ConsistFollows
<1>1. \A i \in Drive!Slots : At(command.to, i) \in Trains =>
        \/ Wanted(i) /\ hits[At(command.to, i)] = 1 /\ Led(i)
        \/ ~Wanted(i) /\ hits[At(command.to, i)] = 0
  <2>1. 1..Len(calls) = {}
    OBVIOUS
  <2>2. QED  BY <2>1 DEF Queue, SlotsAre, SlotIn
<1>2. ASSUME NEW i \in Drive!Slots, At(command.to, i) \in Trains
      PROVE  LET s == At(command.to, i)
                 t == command.to
             IN  /\ command.op \in {"speed", "estop"} => dcc[s].step = dcc[t].step
                 /\ command.op = "speed" =>
                        (dcc[s].forward # dcc[t].forward) = ("REVERSE" \in Flags(t, i))
                 /\ command.op = "fn" =>
                        (hits[s] = 1) = ((IF command.fn = 0 THEN "LINKF0" ELSE "LINKFN")
                                         \in Flags(t, i))
  <2>1. CASE Wanted(i) /\ hits[At(command.to, i)] = 1 /\ Led(i)
    BY <2>1 DEF Wanted, Led, Drive!consist_should_forward
  <2>2. CASE ~Wanted(i) /\ hits[At(command.to, i)] = 0
    BY <1>2, <2>2 DEF Wanted, Drive!consist_should_forward
  <2>3. QED  BY <1>1, <1>2, <2>1, <2>2
<1>3. QED  BY <1>2 DEF Drive!ConsistFollows, At, Flags

\* A command from outside goes to each slave once.
LEMMA ForwardsFacts ==
    ASSUME FleetType, IsOrder(command), command.from = Drive!Bus, TableSet(command.to)
    PROVE  LET F == Drive!Forwards(command)
           IN  /\ F \in Seq(Order)
               /\ \A k \in 1..Len(F) : \E i \in Drive!Slots : Wanted(i) /\ F[k] = Sent(i)
               /\ \A j, k \in 1..Len(F) : F[j].to = F[k].to => j = k
               /\ \A i \in Drive!Slots : Wanted(i) => \E k \in 1..Len(F) : F[k] = Sent(i)
<1> DEFINE S == {i \in Drive!Slots : Wanted(i)}
           n == Cardinality(S)
           F == [k \in 1..n |-> Sent(Drive!Nth(S, k))]
<1>1. S \in SUBSET Nat /\ IsFiniteSet(S) /\ S \subseteq Drive!Slots
  BY SlotSets
<1>2. command.to \in Trains /\ command.from \notin Trains
  BY OrderParts, DriveLimits DEF IsOrder
<1>3. S = {i \in Drive!Slots : /\ At(command.to, i) \in Trains \ {command.to, command.from}
                               /\ Drive!consist_should_forward(Flags(command.to, i), command)}
  BY <1>2 DEF TableSet, Wanted
<1>4. Drive!Forwards(command) = F
  BY <1>3, DriveCardinality DEF Drive!Forwards, At, Flags, Sent
<1>5. n \in Nat
  BY <1>1, FS_CardinalityType
<1>6. /\ \A k \in 1..n : Drive!Nth(S, k) \in S
      /\ \A j, k \in 1..n : Drive!Nth(S, j) = Drive!Nth(S, k) => j = k
      /\ \A i \in S : \E k \in 1..n : Drive!Nth(S, k) = i
  BY <1>1, NthFacts
<1>7. ASSUME NEW i \in S
      PROVE  i \in Drive!Slots /\ Wanted(i) /\ Sent(i) \in Order /\ Sent(i).to = At(command.to, i)
  <2>1. i \in Drive!Slots /\ Wanted(i)
    OBVIOUS
  <2>2. At(command.to, i) \in Trains
    BY <2>1 DEF Wanted
  <2> DEFINE s == At(command.to, i)
             f == Flags(command.to, i)
  <2>3. Sent(i) = Drive!forward_to_slave(s, f, command) /\ s \in Trains
    BY <2>2 DEF Sent
  <2> HIDE DEF s, f
  <2>4. IsOrder(Sent(i)) /\ Sent(i).to = s
    BY <2>3, SentFacts
  <2>5. QED  BY <2>1, <2>4 DEF s, IsOrder
<1>a. \A i \in Drive!Slots : Wanted(i) => i \in S
  OBVIOUS
<1> HIDE DEF S, n
<1>8. F \in Seq(Order) /\ Len(F) = n /\ \A k \in 1..n : F[k] = Sent(Drive!Nth(S, k))
  <2>1. \A k \in 1..n : Sent(Drive!Nth(S, k)) \in Order
    BY <1>6, <1>7
  <2>2. F \in [1..n -> Order]
    BY <2>1
  <2>3. QED  BY <1>5, <2>2
<1> HIDE DEF F
<1>9. \A k \in 1..n : \E i \in Drive!Slots : Wanted(i) /\ F[k] = Sent(i)
  BY <1>6, <1>7, <1>8
<1>10. ASSUME NEW j \in 1..n, NEW k \in 1..n, F[j].to = F[k].to PROVE j = k
  <2> DEFINE x == Drive!Nth(S, j)
             y == Drive!Nth(S, k)
  <2>1. x \in S /\ y \in S /\ (x = y => j = k)
    BY <1>6
  <2>2. F[j] = Sent(x) /\ F[k] = Sent(y)
    BY <1>8
  <2> HIDE DEF x, y
  <2>3. At(command.to, x) = At(command.to, y) /\ x \in Drive!Slots /\ y \in Drive!Slots
        /\ At(command.to, x) \in Trains
    BY <1>7, <1>10, <2>1, <2>2 DEF Wanted
  <2>4. x = y
    BY <2>3, DriveLimits DEF TableSet
  <2>5. QED  BY <2>1, <2>4
<1>11. ASSUME NEW i \in Drive!Slots, Wanted(i) PROVE \E k \in 1..n : F[k] = Sent(i)
  BY <1>6, <1>8, <1>a, <1>11
<1>12. QED  BY <1>4, <1>8, <1>9, <1>10, <1>11

\* What a nested call and the queue become.
LEMMA DispatchParts ==
    ASSUME FleetType, \A t \in Trains : AgreesAt(t), NEW c, IsOrder(c), calls # <<>>,
           Head(calls) = c, hits \in [Trains -> {0, 1}], hits[c.to] = 0, Drive!dispatch_traction
    PROVE  /\ ObeyedWell(c) /\ c.to \in Trains /\ \A t \in Trains : AgreesAt(t)'
           /\ calls' = Drive!forward_to_consist(c) \o Tail(calls) /\ command' = command
           /\ hits' \in [Trains -> {0, 1}] /\ hits'[c.to] = 1
           /\ \A t \in Trains : t # c.to => hits'[t] = hits[t]
<1>1. c \in Order /\ c.to \in Trains /\ (c.op = "fn" => c.fn \in Fns)
  BY OrderParts DEF IsOrder
<1>2. /\ Obeyed(c) /\ calls' = Drive!forward_to_consist(c) \o Tail(calls) /\ command' = command
      /\ hits' = [hits EXCEPT ![c.to] = IF @ < 3 THEN @ + 1 ELSE @]
  BY DEF Drive!dispatch_traction, Obeyed
<1>3. ObeyedWell(c)
  BY <1>1, <1>2, OrderEffect
<1>4. hits' \in [Trains -> {0, 1}] /\ hits'[c.to] = 1 /\ \A t \in Trains : t # c.to => hits'[t] = hits[t]
  BY <1>1, <1>2
<1>5. ASSUME NEW t \in Trains PROVE AgreesAt(t)'
  <2>1. CASE t = c.to
    BY <1>3, <2>1 DEF ObeyedWell
  <2>2. CASE t # c.to
    <3>1. train'[t] = train[t] /\ dcc'[t] = dcc[t]
      BY <1>3, <2>2 DEF ObeyedWell
    <3>2. QED  BY <3>1 DEF AgreesAt
  <2>3. QED  BY <2>1, <2>2
<1>6. QED  BY <1>1, <1>2, <1>3, <1>4, <1>5

\* Consists do not change while a command is handled.
LEMMA SameConsist ==
    ASSUME \A t \in Trains : Kept(t), command' = command, command.to \in Trains, NEW i
    PROVE  /\ At(command.to, i)' = At(command.to, i) /\ Flags(command.to, i)' = Flags(command.to, i)
           /\ (Wanted(i)' <=> Wanted(i)) /\ Sent(i)' = Sent(i)
<1>1. train'[command.to].consist = train[command.to].consist
  BY DEF Kept
<1>2. At(command.to, i)' = At(command.to, i) /\ Flags(command.to, i)' = Flags(command.to, i)
  BY <1>1 DEF At, Flags
<1>3. QED  BY <1>2 DEF Wanted, Sent

LEMMA StartStep ==
    ASSUME FleetType, \A t \in Trains : TableSet(t), \A t \in Trains : AgreesAt(t),
           hits \in [Trains -> {0, 1}], Start, Drive!dispatch_traction
    PROVE  /\ FleetType' /\ \A t \in Trains : Kept(t) /\ AgreesAt(t)'
           /\ CallsInv'
<1>1. /\ IsOrder(command) /\ command.from = Drive!Bus /\ calls # <<>> /\ Head(calls) = command
      /\ Tail(calls) = <<>> /\ command.to \in Trains /\ \A t \in Trains : hits[t] = 0
      /\ command.listener \in BOOLEAN
  BY OrderParts DEF Start, IsOrder
<1>2. /\ ObeyedWell(command) /\ \A t \in Trains : AgreesAt(t)'
      /\ calls' = Drive!forward_to_consist(command) \o Tail(calls) /\ command' = command
      /\ hits' \in [Trains -> {0, 1}] /\ hits'[command.to] = 1
      /\ \A t \in Trains : t # command.to => hits'[t] = hits[t]
  BY <1>1, DispatchParts
<1>3. FleetType' /\ \A t \in Trains : Kept(t)
  BY <1>2 DEF ObeyedWell
<1>4. CASE command.listener
  <2>1. calls' = <<>>
    BY <1>1, <1>2, <1>4 DEF Drive!forward_to_consist
  <2>2. Drive!ConsistFollows'
    BY <1>2, <1>4 DEF Drive!ConsistFollows
  <2>3. QED  BY <1>1, <1>2, <1>3, <2>1, <2>2 DEF CallsInv
<1>5. CASE ~command.listener
  <2> DEFINE F == Drive!Forwards(command)
  <2>1. /\ F \in Seq(Order)
        /\ \A k \in 1..Len(F) : \E i \in Drive!Slots : Wanted(i) /\ F[k] = Sent(i)
        /\ \A j, k \in 1..Len(F) : F[j].to = F[k].to => j = k
        /\ \A i \in Drive!Slots : Wanted(i) => \E k \in 1..Len(F) : F[k] = Sent(i)
    BY <1>1, ForwardsFacts
  <2>2. calls' = F \o <<>>
    BY <1>1, <1>2, <1>5 DEF Drive!forward_to_consist
  <2> HIDE DEF F
  <2>3. calls' = F
    BY <2>1, <2>2
  <2>4. \A i \in Drive!Slots : /\ At(command.to, i)' = At(command.to, i) /\ Sent(i)' = Sent(i)
                               /\ (Wanted(i)' <=> Wanted(i)) /\ At(command.to, i) # command.to
    BY <1>1, <1>2, <1>3, SameConsist DEF TableSet
  <2>5. \A i \in Drive!Slots : At(command.to, i) \in Trains => hits'[At(command.to, i)] = 0
    BY <1>1, <1>2, <2>4
  <2>6. CallsAre'
    <3>1. \A k \in 1..Len(F) : \E i \in Drive!Slots :
            Wanted(i)' /\ F[k] = Sent(i)' /\ hits'[At(command.to, i)'] = 0
      <4> SUFFICES ASSUME NEW k \in 1..Len(F)
                   PROVE  \E i \in Drive!Slots :
                            Wanted(i)' /\ F[k] = Sent(i)' /\ hits'[At(command.to, i)'] = 0
        OBVIOUS
      <4>1. PICK i \in Drive!Slots : Wanted(i) /\ F[k] = Sent(i)
        BY <2>1
      <4>2. At(command.to, i) \in Trains
        BY <4>1 DEF Wanted
      <4>3. Wanted(i)' /\ F[k] = Sent(i)' /\ hits'[At(command.to, i)'] = 0
        BY <2>4, <2>5, <4>1, <4>2
      <4>4. QED  BY <4>3
    <3>2. \A k \in 1..Len(calls') : \E i \in Drive!Slots :
            Wanted(i)' /\ calls'[k] = Sent(i)' /\ hits'[At(command.to, i)'] = 0
      BY ONLY <2>3, <3>1
    <3>3. calls' \in Seq(Order) /\ \A j, k \in 1..Len(calls') : calls'[j].to = calls'[k].to => j = k
      BY ONLY <2>1, <2>3
    <3>4. QED  BY ONLY <3>2, <3>3 DEF CallsAre
  <2>7. SlotsAre'
    <3> SUFFICES ASSUME NEW i \in Drive!Slots, At(command.to, i)' \in Trains PROVE SlotIn(i)'
      BY <1>2 DEF SlotsAre
    <3>1. hits'[At(command.to, i)'] = 0
      BY <2>4, <2>5
    <3>2. Wanted(i)' => \E k \in 1..Len(calls') : calls'[k] = Sent(i)'
      BY <2>1, <2>3, <2>4
    <3>3. QED  BY <1>2, <3>1, <3>2 DEF SlotIn
  <2>8. Leads'
    BY <1>2 DEF ObeyedWell, Leads
  <2>9. Queue'
    BY <1>1, <1>2, <1>5, <2>6, <2>7, <2>8 DEF Queue
  <2>10. QED  BY <1>1, <1>2, <1>3, <2>9 DEF CallsInv
<1>6. QED  BY <1>1, <1>4, <1>5

\* A slave whose call is handled has obeyed; the others wait on.
LEMMA QueueStep ==
    ASSUME FleetType, \A t \in Trains : TableSet(t), \A t \in Trains : AgreesAt(t),
           hits \in [Trains -> {0, 1}], Queue, Drive!dispatch_traction
    PROVE  /\ FleetType' /\ \A t \in Trains : Kept(t) /\ AgreesAt(t)'
           /\ CallsInv'
<1> DEFINE c == calls[1]
           n == Len(calls)
           q == Tail(calls)
<1>1. calls # <<>> /\ calls \in Seq(Order) /\ IsOrder(command) /\ ~command.listener /\ Leads
  BY DEF Drive!dispatch_traction, Queue, CallsAre
<1>2. /\ n \in Nat \ {0} /\ Head(calls) = c /\ q \in Seq(Order) /\ Len(q) = n - 1
      /\ \A k \in 1..n - 1 : q[k] = calls[k + 1]
  BY <1>1
<1>3. /\ \A k \in 1..n : \E i \in Drive!Slots :
            Wanted(i) /\ calls[k] = Sent(i) /\ hits[At(command.to, i)] = 0
      /\ \A j, k \in 1..n : calls[j].to = calls[k].to => j = k
  BY DEF Queue, CallsAre
<1>4. PICK i0 \in Drive!Slots : Wanted(i0) /\ c = Sent(i0) /\ hits[At(command.to, i0)] = 0
  BY <1>2, <1>3
<1> HIDE DEF c, n, q
<1> DEFINE s0 == At(command.to, i0)
<1>5. command.to \in Trains /\ s0 \in Trains /\ s0 # command.to
  BY <1>1, <1>4, OrderParts DEF Wanted, IsOrder, TableSet
<1>6. ASSUME NEW i \in Drive!Slots, Wanted(i)
      PROVE  /\ IsOrder(Sent(i)) /\ Sent(i).op = command.op /\ Sent(i).to = At(command.to, i)
             /\ Sent(i).listener /\ Sent(i).speed.mag = command.speed.mag
             /\ command.op = "speed" => (Sent(i).speed.neg # command.speed.neg)
                                            = ("REVERSE" \in Flags(command.to, i))
  <2> DEFINE s == At(command.to, i)
             f == Flags(command.to, i)
  <2>1. Sent(i) = Drive!forward_to_slave(s, f, command) /\ s \in Trains
    BY <1>6 DEF Sent, Wanted
  <2> HIDE DEF s, f
  <2>2. /\ IsOrder(Sent(i)) /\ Sent(i).op = command.op /\ Sent(i).to = s
        /\ Sent(i).listener /\ Sent(i).speed.mag = command.speed.mag
        /\ command.op = "speed" => (Sent(i).speed.neg # command.speed.neg) = ("REVERSE" \in f)
    BY <1>1, <2>1, SentFacts
  <2>3. QED  BY <2>2 DEF s, f
<1>7. IsOrder(c) /\ c.listener /\ c.to = s0 /\ hits[c.to] = 0
  BY <1>4, <1>6
<1>8. /\ ObeyedWell(c) /\ \A t \in Trains : AgreesAt(t)'
      /\ calls' = Drive!forward_to_consist(c) \o Tail(calls) /\ command' = command
      /\ hits' \in [Trains -> {0, 1}] /\ hits'[s0] = 1
      /\ \A t \in Trains : t # s0 => hits'[t] = hits[t]
  BY <1>1, <1>2, <1>7, DispatchParts
<1>9. calls' = q
  <2>1. calls' = <<>> \o q
    BY <1>7, <1>8 DEF Drive!forward_to_consist, q
  <2>2. QED  BY <1>2, <2>1
<1>10. /\ FleetType' /\ \A t \in Trains : Kept(t)
       /\ \A t \in Trains : t # s0 => dcc'[t] = dcc[t]
       /\ c.op = "speed" => /\ dcc'[s0].step = Drive!f16_to_dcc_speed_step(c.speed.mag)
                            /\ dcc'[s0].forward = ~c.speed.neg
       /\ c.op = "estop" => dcc'[s0].step = 1
  BY <1>7, <1>8 DEF ObeyedWell
<1>11. \A i \in Drive!Slots :
        /\ At(command.to, i)' = At(command.to, i) /\ Flags(command.to, i)' = Flags(command.to, i)
        /\ Sent(i)' = Sent(i) /\ (Wanted(i)' <=> Wanted(i))
        /\ At(command.to, i) # command.to
  BY <1>5, <1>8, <1>10, SameConsist DEF TableSet
<1>12. \A i \in Drive!Slots : At(command.to, i) = s0 => i = i0
  BY <1>5, DriveLimits DEF TableSet
<1> HIDE DEF s0
<1>13. Leads'
  <2>1. dcc'[command.to] = dcc[command.to]
    BY <1>5, <1>10
  <2>2. QED  BY <1>1, <1>8, <2>1 DEF Leads
<1>14. \A k \in 1..n : k # 1 => calls[k].to # s0
  <2>1. 1 \in 1..n /\ calls[1].to = s0
    BY <1>2, <1>7 DEF c
  <2>2. \A j, k \in 1..n : calls[j].to = calls[k].to => j = k
    BY <1>3
  <2>3. QED  BY ONLY <2>1, <2>2
<1>15. \A k \in 1..n - 1 : k + 1 \in 1..n /\ k + 1 # 1 /\ q[k] = calls[k + 1]
  BY <1>2
<1>16. CallsAre'
  <2>1. ASSUME NEW k \in 1..n - 1
        PROVE  \E i \in Drive!Slots : Wanted(i)' /\ q[k] = Sent(i)' /\ hits'[At(command.to, i)'] = 0
    <3>1. PICK i \in Drive!Slots :
                Wanted(i) /\ calls[k + 1] = Sent(i) /\ hits[At(command.to, i)] = 0
      BY <1>3, <1>15
    <3>2. calls[k + 1].to # s0 /\ q[k] = calls[k + 1]
      BY <1>14, <1>15
    <3>3. At(command.to, i) \in Trains /\ At(command.to, i) # s0
      BY <1>6, <3>1, <3>2 DEF Wanted
    <3>4. Wanted(i)' /\ q[k] = Sent(i)' /\ hits'[At(command.to, i)'] = 0
      BY <1>8, <1>11, <3>1, <3>2, <3>3
    <3>5. QED  BY <3>4
  <2>2. \A j, k \in 1..n - 1 : q[j].to = q[k].to => j = k
    <3> SUFFICES ASSUME NEW j \in 1..n - 1, NEW k \in 1..n - 1, q[j].to = q[k].to PROVE j = k
      OBVIOUS
    <3>1. j + 1 = k + 1
      BY <1>3, <1>15
    <3>2. QED  BY <1>2, <3>1
  <2>3. \A k \in 1..Len(calls') : \E i \in Drive!Slots :
            Wanted(i)' /\ calls'[k] = Sent(i)' /\ hits'[At(command.to, i)'] = 0
    BY ONLY <1>2, <1>9, <2>1
  <2>4. calls' \in Seq(Order) /\ \A j, k \in 1..Len(calls') : calls'[j].to = calls'[k].to => j = k
    BY ONLY <1>2, <1>9, <2>2
  <2>5. QED  BY ONLY <2>3, <2>4 DEF CallsAre
<1>17. ASSUME NEW i \in Drive!Slots, At(command.to, i) \in Trains PROVE SlotIn(i)'
  <2> DEFINE s == At(command.to, i)
  <2>0. SlotIn(i)
    BY <1>17 DEF Queue, SlotsAre
  <2>1. CASE i = i0
    <3>1. Led(i)'
      <4>1. s = s0 /\ dcc'[command.to] = dcc[command.to] /\ At(command.to, i)' = s0
        BY <1>5, <1>10, <1>11, <2>1 DEF s0
      <4>2. /\ c.op = command.op /\ c.speed.mag = command.speed.mag
            /\ command.op = "speed" => (c.speed.neg # command.speed.neg)
                                            = ("REVERSE" \in Flags(command.to, i))
        BY <1>4, <1>6, <2>1
      <4>3. command.op \in {"speed", "estop"} => dcc'[s0].step = dcc[command.to].step
        BY <1>1, <1>10, <4>2 DEF Leads
      <4>4. command.op = "speed" => (dcc'[s0].forward # dcc[command.to].forward)
                                        = ("REVERSE" \in Flags(command.to, i))
        <5> SUFFICES ASSUME command.op = "speed"
                     PROVE  (dcc'[s0].forward # dcc[command.to].forward)
                                        = ("REVERSE" \in Flags(command.to, i))
          OBVIOUS
        <5>1. dcc'[s0].forward = ~c.speed.neg /\ dcc[command.to].forward = ~command.speed.neg
          BY <1>1, <1>10, <4>2 DEF Leads
        <5>2. c.speed.neg \in BOOLEAN /\ command.speed.neg \in BOOLEAN
          BY <1>1, <1>7, OrderParts DEF IsOrder
        <5> DEFINE p == dcc'[s0].forward # dcc[command.to].forward
                   r == c.speed.neg # command.speed.neg
        <5>3. p <=> r
          BY <5>1, <5>2
        <5>4. p \in BOOLEAN /\ r \in BOOLEAN
          OBVIOUS
        <5>5. r = ("REVERSE" \in Flags(command.to, i))
          BY <4>2
        <5> HIDE DEF p, r
        <5>6. p = r
          BY <5>3, <5>4
        <5>7. QED  BY <5>5, <5>6 DEF p
      <4>5. QED  BY <1>8, <1>11, <4>1, <4>3, <4>4 DEF Led
    <3>2. Wanted(i)' /\ hits'[At(command.to, i)'] = 1
      BY <1>4, <1>8, <1>11, <2>1 DEF s0
    <3>3. QED  BY <1>8, <3>1, <3>2 DEF SlotIn
  <2>2. CASE i # i0
    <3>1. s # s0
      BY <1>12, <2>2
    <3>2. hits'[s] = hits[s] /\ dcc'[s] = dcc[s] /\ dcc'[command.to] = dcc[command.to]
      BY <1>5, <1>8, <1>10, <1>17, <3>1
    <3>3. CASE Wanted(i) /\ hits[s] = 0 /\ \E k \in 1..n : calls[k] = Sent(i)
      <4>1. PICK k \in 1..n : calls[k] = Sent(i)
        BY <3>3
      <4>2. k # 1
        BY <1>6, <1>7, <3>1, <3>3, <4>1 DEF c
      <4>3. k - 1 \in 1..n - 1 /\ (k - 1) + 1 = k
        BY <1>2, <4>2
      <4>4. q[k - 1] = Sent(i)
        BY <1>15, <4>1, <4>3
      <4>5. \E j \in 1..Len(calls') : calls'[j] = Sent(i)'
        BY <1>2, <1>9, <1>11, <4>3, <4>4
      <4>6. Wanted(i)' /\ hits'[At(command.to, i)'] = 0
        BY <1>11, <3>2, <3>3
      <4>7. QED  BY <1>8, <4>5, <4>6 DEF SlotIn
    <3>4. CASE Wanted(i) /\ hits[s] = 1 /\ Led(i)
      <4>1. Led(i)'
        BY <1>8, <1>11, <3>2, <3>4 DEF Led
      <4>2. Wanted(i)' /\ hits'[At(command.to, i)'] = 1
        BY <1>11, <3>2, <3>4
      <4>3. QED  BY <1>8, <4>1, <4>2 DEF SlotIn
    <3>5. CASE ~Wanted(i) /\ hits[s] = 0
      <4>1. ~Wanted(i)' /\ hits'[At(command.to, i)'] = 0
        BY <1>11, <3>2, <3>5
      <4>2. QED  BY <1>8, <4>1 DEF SlotIn
    <3>6. QED  BY <2>0, <3>3, <3>4, <3>5 DEF SlotIn, n
  <2>3. QED  BY <2>1, <2>2
<1>18. SlotsAre'
  BY <1>8, <1>11, <1>17 DEF SlotsAre
<1>19. Queue'
  BY <1>1, <1>8, <1>13, <1>16, <1>18 DEF Queue
<1>20. QED  BY <1>5, <1>8, <1>10, <1>19 DEF CallsInv

-----------------------------------------------------------------------------
(* Traction: the invariant.                                                *)

TablesOK == \A t \in Trains : TableSet(t)
AllAgree == \A t \in Trains : AgreesAt(t)
DriveInv == FleetType /\ DeskType /\ Controlled /\ TablesOK /\ AllAgree /\ CallsInv

LEMMA DriveInit == Drive!Init => DriveInv
<1> SUFFICES ASSUME Drive!Init PROVE DriveInv
  OBVIOUS
<1> DEFINE u == [speed |-> Drive!Stopped, emergency |-> FALSE, fns |-> {},
                 consist |-> [i \in Drive!Slots |-> Drive!NoSlave],
                 owner |-> Drive!None, controller_alias |-> Drive!None]
           w == [step |-> 0, forward |-> TRUE, fns |-> {}]
<1>1. /\ train = [t \in Trains |-> u] /\ dcc = [t \in Trains |-> w]
      /\ holder = [a \in Aliases |-> Drive!None] /\ believes = [th \in Throttles |-> {}]
      /\ mix \in 1..Len(Mixes) /\ ops = 0 /\ calls = <<>> /\ command = Drive!NoCommand
      /\ hits = [t \in Trains |-> 0]
  BY DEF Drive!Init
<1>2. Drive!NoSlave \in SlotRec /\ Drive!NoSlave.id = Drive!None
  BY NoSlaveType
<1>3. Drive!Stopped \in SpeedRec /\ Drive!Stopped.mag = 0 /\ Drive!Stopped.neg = FALSE
  BY DEF Drive!Stopped, SpeedRec
<1>4. [i \in Drive!Slots |-> Drive!NoSlave] \in [Drive!Slots -> SlotRec]
  BY <1>2
<1>5. /\ u \in TrainState /\ u.speed = Drive!Stopped /\ u.emergency = FALSE /\ u.fns = {}
      /\ u.owner = Drive!None /\ u.controller_alias = Drive!None
      /\ \A i \in Drive!Slots : u.consist[i].id = Drive!None
  BY <1>2, <1>3, <1>4 DEF TrainState
<1>6. w \in EngineState /\ w.step = 0 /\ w.forward = TRUE /\ w.fns = {}
  BY DEF EngineState
<1> HIDE DEF u, w
<1>7. FleetType /\ \A t \in Trains : train[t] = u /\ dcc[t] = w
  BY <1>1, <1>5, <1>6 DEF FleetType
<1>8. DeskType
  BY <1>1, DriveLimits DEF DeskType
<1>9. Controlled
  BY <1>1, <1>5, <1>7 DEF Controlled, Drive!NoticeToLoser
<1>10. TablesOK
  <2>1. \A t \in Trains : t # Drive!None
    BY DriveLimits
  <2>2. \A t \in Trains, i \in Drive!Slots : At(t, i) = Drive!None
    BY <1>5, <1>7 DEF At
  <2>3. QED  BY <2>1, <2>2 DEF TablesOK, TableSet
<1>11. AllAgree
  <2>1. Drive!f16_to_dcc_speed_step(0) = 0
    BY DEF Drive!f16_to_dcc_speed_step, Drive!NaN
  <2>2. QED  BY <1>3, <1>5, <1>6, <1>7, <2>1 DEF AllAgree, AgreesAt
<1>12. CallsInv
  <2>1. hits \in [Trains -> {0, 1}]
    BY <1>1
  <2>2. Drive!ConsistFollows
    BY <1>1 DEF Drive!ConsistFollows
  <2>3. QED  BY <1>1, <2>1, <2>2 DEF CallsInv
<1>13. QED  BY <1>7, <1>8, <1>9, <1>10, <1>11, <1>12 DEF DriveInv

\* With no call left, whoever was reached follows; and nothing but commands matters to that.
LEMMA CallsRest ==
    ASSUME CallsInv, calls = <<>>, UNCHANGED <<dcc, calls, command, hits>>,
           \A t \in Trains : train'[t].consist = train[t].consist
    PROVE  CallsInv'
<1>1. Drive!ConsistFollows /\ (command # Drive!NoCommand => command.to \in Trains)
  BY QueueEnds DEF CallsInv, Start
<1>2. Drive!ConsistFollows'
  BY <1>1 DEF Drive!ConsistFollows
<1>3. QED  BY <1>2 DEF CallsInv

\* A command from outside.
LEMMA FromBusType ==
    ASSUME NEW op \in {"speed", "fn", "estop"}, NEW t \in Trains, NEW l \in BOOLEAN,
           NEW r, r = Drive!FromBus(op, t, l)
    PROVE  r \in Order /\ r.op = op /\ r.from = Drive!Bus
<1> DEFINE q == Drive!Command(op, t, Drive!Bus)
<1>1. Drive!Stopped \in SpeedRec
  BY DEF Drive!Stopped, SpeedRec
<1>2. q \in Order /\ q.op = op /\ q.from = Drive!Bus
  BY <1>1 DEF Drive!Command, Order
<1> HIDE DEF q
<1>3. r = [q EXCEPT !.listener = l]
  BY DEF q, Drive!FromBus
<1>4. QED  BY <1>2, <1>3 DEF Order

LEMMA CommandTypes ==
    ASSUME NEW c \in Drive!Commands
    PROVE  IsOrder(c) /\ c.from = Drive!Bus
<1>1. ASSUME NEW t \in Trains, NEW l \in BOOLEAN, NEW m \in Speeds, NEW n \in BOOLEAN,
             c = Drive!SpeedCommand(t, l, m, n)
      PROVE  IsOrder(c) /\ c.from = Drive!Bus
  <2> DEFINE q == Drive!FromBus("speed", t, l)
             v == [mag |-> m, neg |-> n]
  <2>1. c = [q EXCEPT !.speed = v]
    BY <1>1 DEF Drive!SpeedCommand
  <2>2. v \in SpeedRec
    BY DEF SpeedRec
  <2> HIDE DEF q, v
  <2>3. q \in Order /\ q.op = "speed" /\ q.from = Drive!Bus
    BY FromBusType DEF q
  <2>4. QED  BY <2>1, <2>2, <2>3 DEF IsOrder, Order
<1>2. ASSUME NEW t \in Trains, NEW l \in BOOLEAN, NEW f \in Fns, NEW b \in BOOLEAN,
             c = Drive!FnCommand(t, l, f, b)
      PROVE  IsOrder(c) /\ c.from = Drive!Bus
  <2> DEFINE q == Drive!FromBus("fn", t, l)
  <2>1. c = [q EXCEPT !.fn = f, !.on = b]
    BY <1>2 DEF Drive!FnCommand
  <2> HIDE DEF q
  <2>2. q \in Order /\ q.op = "fn" /\ q.from = Drive!Bus
    BY FromBusType DEF q
  <2>3. QED  BY <2>1, <2>2 DEF IsOrder, Order
<1>3. ASSUME NEW t \in Trains, NEW l \in BOOLEAN, c = Drive!FromBus("estop", t, l)
      PROVE  IsOrder(c) /\ c.from = Drive!Bus
  <2>1. c \in Order /\ c.op = "estop" /\ c.from = Drive!Bus
    BY <1>3, FromBusType
  <2>2. QED  BY <2>1 DEF IsOrder
<1>4. QED  BY <1>1, <1>2, <1>3 DEF Drive!Commands

\* Trains do not change: tables, agreement and owners stay.
LEMMA FleetStays ==
    ASSUME FleetType, TablesOK, AllAgree, UNCHANGED <<train, dcc>>
    PROVE  FleetType' /\ TablesOK' /\ AllAgree' /\ \A t \in Trains : SameOwner(t)
<1>1. FleetType' /\ \A t \in Trains : SameOwner(t)
  BY DEF FleetType, SameOwner, Owned
<1>2. TablesOK' /\ AllAgree'
  BY DEF TablesOK, TableSet, At, AllAgree, AgreesAt
<1>3. QED  BY <1>1, <1>2

LEMMA ReceiveStep ==
    ASSUME DriveInv, UNCHANGED mix, NEW c \in Drive!Commands, Drive!receive(c)
    PROVE  DriveInv'
<1>1. Counted /\ UNCHANGED <<train, dcc, holder, believes>>
  BY CountedType DEF DriveInv, Drive!receive, Drive!bus
<1>2. FleetType' /\ TablesOK' /\ AllAgree' /\ \A t \in Trains : SameOwner(t)
  BY <1>1, FleetStays DEF DriveInv
<1>3. DeskType' /\ Controlled'
  BY <1>1, <1>2, DeskStays DEF DriveInv, Counted
<1>4. CallsInv'
  <2>1. calls' = <<c>> /\ command' = c /\ hits' = [t \in Trains |-> 0]
    BY DEF Drive!receive
  <2>2. IsOrder(c) /\ c.from = Drive!Bus /\ c.to \in Trains
    BY CommandTypes, OrderParts DEF IsOrder
  <2>3. Start'
    BY <2>1, <2>2 DEF Start, IsOrder
  <2>4. hits' \in [Trains -> {0, 1}]
    BY <2>1
  <2>5. QED  BY <2>1, <2>2, <2>3, <2>4 DEF CallsInv
<1>5. QED  BY <1>2, <1>3, <1>4 DEF DriveInv

LEMMA DispatchStep ==
    ASSUME DriveInv, UNCHANGED mix, Drive!dispatch_traction
    PROVE  DriveInv'
<1>1. UNCHANGED <<holder, believes, ops>> /\ calls # <<>>
  BY DEF Drive!dispatch_traction, Drive!bus
<1>2. FleetType' /\ CallsInv' /\ \A t \in Trains : Kept(t) /\ AgreesAt(t)'
  BY <1>1, StartStep, QueueStep DEF DriveInv, CallsInv, TablesOK, AllAgree
<1>3. TablesOK'
  BY <1>2 DEF DriveInv, TablesOK, TableSet, At, Kept
<1>4. \A t \in Trains : SameOwner(t)
  BY <1>2 DEF Kept, SameOwner, Owned
<1>5. ops' \in 0..Mixes[mix].max
  BY <1>1 DEF DriveInv, DeskType
<1>6. DeskType' /\ Controlled'
  BY <1>1, <1>4, <1>5, DeskStays DEF DriveInv
<1>7. QED  BY <1>2, <1>3, <1>6 DEF DriveInv, AllAgree

\* A request to change a table.
LEMMA TableStep ==
    ASSUME DriveInv, UNCHANGED <<mix, holder, believes, calls, hits>>, Counted, calls = <<>>,
           command' = Drive!NoCommand, FleetType', OnlyTables, TablesOK'
    PROVE  DriveInv'
<1>1. AllAgree'
  BY DEF DriveInv, OnlyTables, AllAgree, AgreesAt
<1>2. \A t \in Trains : SameOwner(t)
  BY DEF OnlyTables, SameOwner, Owned
<1>3. DeskType' /\ Controlled'
  BY <1>2, DeskStays DEF DriveInv, Counted
<1>4. Drive!ConsistFollows'
  BY DEF Drive!ConsistFollows
<1>5. CallsInv'
  BY <1>4 DEF DriveInv, CallsInv
<1>6. QED  BY <1>1, <1>3, <1>5 DEF DriveInv

\* A step of the desk.
LEMMA DeskStep ==
    ASSUME DriveInv, UNCHANGED <<calls, command, hits>>, calls = <<>>,
           OnlyOwners, DeskType', Controlled'
    PROVE  DriveInv'
<1>1. FleetType' /\ TablesOK' /\ AllAgree'
  BY DEF DriveInv, OnlyOwners, TablesOK, TableSet, At, AllAgree, AgreesAt
<1>2. CallsInv'
  BY CallsRest DEF DriveInv, OnlyOwners
<1>3. QED  BY <1>1, <1>2 DEF DriveInv

LEMMA HoldStep ==
    ASSUME DriveInv, UNCHANGED mix, Drive!hold_all
    PROVE  DriveInv'
<1>1. Counted /\ UNCHANGED <<train, dcc, holder, believes, calls, command, hits>> /\ calls = <<>>
  BY CountedType DEF DriveInv, Drive!hold_all, Drive!bus
<1>2. FleetType' /\ TablesOK' /\ AllAgree' /\ \A t \in Trains : SameOwner(t)
  BY <1>1, FleetStays DEF DriveInv
<1>3. DeskType' /\ Controlled'
  BY <1>1, <1>2, DeskStays DEF DriveInv, Counted
<1>4. CallsInv'
  BY <1>1, CallsRest DEF DriveInv
<1>5. QED  BY <1>2, <1>3, <1>4 DEF DriveInv

LEMMA DriveStep ==
    ASSUME DriveInv, Drive!Next
    PROVE  DriveInv'
<1>0. UNCHANGED mix /\ mix \in 1..Len(Mixes) /\ FleetType /\ DeskType /\ Controlled
      /\ \A s \in Trains : TableSet(s)
  BY DEF Drive!Next, DriveInv, DeskType, TablesOK
<1>1. ASSUME NEW c \in Drive!Commands, Drive!receive(c) PROVE DriveInv'
  BY <1>0, <1>1, ReceiveStep
<1>2. CASE Drive!dispatch_traction
  BY <1>0, <1>2, DispatchStep
<1>3. ASSUME NEW t \in Trains, NEW id \in Trains \cup {Far}, Drive!on_consist_detach(t, id)
      PROVE  DriveInv'
  <2>1. FleetType' /\ OnlyTables /\ TablesOK'
    BY <1>0, <1>3, DetachEffect DEF TablesOK
  <2>2. /\ Counted /\ calls = <<>> /\ UNCHANGED <<holder, believes, calls, hits>>
        /\ command' = Drive!NoCommand
    BY <1>0, <1>3, CountedType DEF Drive!on_consist_detach, Drive!bus
  <2>3. QED  BY <1>0, <2>1, <2>2, TableStep
<1>4. ASSUME NEW t \in Trains, NEW id \in Trains \cup {Far}, NEW f \in Mixes[mix].flags,
             Drive!on_consist_attach(t, id, f)
      PROVE  DriveInv'
  <2>1. FleetType' /\ OnlyTables /\ TablesOK'
    BY <1>0, <1>4, AttachEffect DEF TablesOK
  <2>2. /\ Counted /\ calls = <<>> /\ UNCHANGED <<holder, believes, calls, hits>>
        /\ command' = Drive!NoCommand
    BY <1>0, <1>4, CountedType DEF Drive!on_consist_attach, Drive!bus
  <2>3. QED  BY <1>0, <2>1, <2>2, TableStep
<1>5. ASSUME NEW t \in Trains, NEW th \in Throttles, Drive!on_assign_controller(t, th)
      PROVE  DriveInv'
  <2>1. OnlyOwners /\ DeskType' /\ Controlled'
    BY <1>0, <1>5, AssignEffect
  <2>2. UNCHANGED <<calls, command, hits>> /\ calls = <<>>
    BY <1>5 DEF Drive!on_assign_controller, Drive!Request
  <2>3. QED  BY <2>1, <2>2, DeskStep
<1>6. ASSUME NEW t \in Trains, NEW th \in Throttles, Drive!on_release_controller(t, th)
      PROVE  DriveInv'
  <2>1. OnlyOwners /\ DeskType' /\ Controlled'
    BY <1>0, <1>6, ReleaseEffect
  <2>2. UNCHANGED <<calls, command, hits>> /\ calls = <<>>
    BY <1>6 DEF Drive!on_release_controller, Drive!Request
  <2>3. QED  BY <2>1, <2>2, DeskStep
<1>7. ASSUME NEW th \in Throttles, NEW amr \in BOOLEAN, Drive!leave(th, amr) PROVE DriveInv'
  <2>1. OnlyOwners /\ DeskType' /\ Controlled'
    BY <1>0, <1>7, LeaveEffect
  <2>2. UNCHANGED <<calls, command, hits>> /\ calls = <<>>
    BY <1>7 DEF Drive!leave, Drive!Request
  <2>3. QED  BY <2>1, <2>2, DeskStep
<1>8. ASSUME NEW th \in Throttles, NEW a \in Aliases, Drive!claim(th, a) PROVE DriveInv'
  <2>1. OnlyOwners /\ DeskType' /\ Controlled'
    BY <1>0, <1>8, ClaimEffect
  <2>2. UNCHANGED <<calls, command, hits>> /\ calls = <<>>
    BY <1>8 DEF Drive!claim
  <2>3. QED  BY <2>1, <2>2, DeskStep
<1>9. CASE Drive!hold_all
  BY <1>0, <1>9, HoldStep
<1>10. QED
  BY <1>1, <1>2, <1>3, <1>4, <1>5, <1>6, <1>7, <1>8, <1>9 DEF Drive!Next

\* What the invariant means.
LEMMA DriveTypes == DriveInv => Drive!TypeOK
<1> SUFFICES ASSUME DriveInv PROVE Drive!TypeOK
  OBVIOUS
<1>1. ASSUME NEW t \in Trains
      PROVE  /\ train[t].speed.mag \in Speeds \cup {0} /\ train[t].speed.neg \in BOOLEAN
             /\ train[t].emergency \in BOOLEAN /\ train[t].fns \in SUBSET (Fns \cap 0..68)
             /\ \A i \in Drive!Slots : train[t].consist[i].id \in Trains \cup {Far} \cup {Drive!None}
             /\ train[t].owner \in Throttles \cup {Drive!None}
             /\ train[t].controller_alias \in Aliases \cup {Drive!None}
  <2>1. train[t] \in TrainState
    BY DEF DriveInv, FleetType
  <2>2. /\ train[t].speed \in SpeedRec /\ train[t].emergency \in BOOLEAN
        /\ train[t].fns \in SUBSET (Fns \cap 0..68)
        /\ train[t].consist \in [Drive!Slots -> SlotRec]
        /\ train[t].owner \in Throttles \cup {Drive!None}
        /\ train[t].controller_alias \in Aliases \cup {Drive!None}
    BY <2>1, TrainParts
  <2>3. train[t].speed.mag \in Speeds \cup {0} /\ train[t].speed.neg \in BOOLEAN
    BY <2>2 DEF SpeedRec
  <2>4. \A i \in Drive!Slots : train[t].consist[i].id \in Trains \cup {Far} \cup {Drive!None}
    BY <2>2 DEF SlotRec
  <2>5. QED  BY <2>2, <2>3, <2>4
<1>2. ASSUME NEW t \in Trains
      PROVE  /\ dcc[t].step \in 0..127 /\ dcc[t].forward \in BOOLEAN
             /\ dcc[t].fns \in SUBSET (0..68)
  <2>1. dcc[t] \in EngineState
    BY DEF DriveInv, FleetType
  <2>2. QED  BY <2>1 DEF EngineState
<1>3. DeskType
  BY DEF DriveInv
<1>4. QED  BY <1>1, <1>2, <1>3 DEF Drive!TypeOK, DeskType

LEMMA DriveSound == DriveInv => ConsistsObey /\ ControllersAreTold
<1> SUFFICES ASSUME DriveInv PROVE ConsistsObey /\ ControllersAreTold
  OBVIOUS
<1>1. ControllersAreTold
  BY ControlledMeans DEF DriveInv
<1>2. Drive!TableIsASet
  BY TableMeans DEF DriveInv, TablesOK
<1>3. Drive!ObeysOnce
  BY DEF DriveInv, CallsInv, Drive!ObeysOnce
<1>4. Drive!ConsistFollows
  <2>1. CASE calls = <<>>
    BY <2>1, QueueEnds DEF DriveInv, CallsInv, Start
  <2>2. CASE calls # <<>>
    BY <2>2 DEF Drive!ConsistFollows
  <2>3. QED  BY <2>1, <2>2
<1>5. Drive!EngineAgrees
  BY DEF DriveInv, AllAgree, AgreesAt, Drive!EngineAgrees
<1>6. Drive!EstopBitIsTrue
  <2> SUFFICES ASSUME NEW t \in Trains
               PROVE  Drive!on_query_speeds(t) <=> (dcc[t].step = 1 \/ held)
    BY DEF Drive!EstopBitIsTrue
  <2>1. train[t] \in TrainState /\ AgreesAt(t)
    BY DEF DriveInv, FleetType, AllAgree
  <2>2. train[t].speed.mag \in Speeds \cup {0} /\ train[t].emergency \in BOOLEAN
    BY <2>1 DEF TrainState, SpeedRec
  <2>3. Drive!f16_to_dcc_speed_step(train[t].speed.mag) # 1
    BY <2>2, StepType
  <2>4. train[t].emergency <=> dcc[t].step = 1
    BY <2>1, <2>2, <2>3 DEF AgreesAt
  <2>5. QED  BY <2>4 DEF Drive!on_query_speeds
<1>7. QED  BY <1>1, <1>2, <1>3, <1>4, <1>5, <1>6 DEF ConsistsObey

-----------------------------------------------------------------------------
(* What a component's invariant says stays true while another one runs.     *)

AliasInv == AliasType /\ Serialized /\ Tried /\ (~QuickReplug => HostKnowsAliases)

LEMMA AliasStays == ASSUME AliasInv, UNCHANGED vars PROVE AliasInv'
<1>1. AliasType'
  BY DEF AliasInv, vars, machine, usb, AliasType, TypeOK
<1>2. Serialized'
  BY DEF AliasInv, vars, machine, usb, Serialized, Reserves
<1>3. Tried'
  BY DEF AliasInv, vars, machine, usb, Tried, AtCandidate
<1>4. (~QuickReplug => HostKnowsAliases)'
  BY DEF AliasInv, vars, machine, usb, HostKnowsAliases, Confirmed
<1>5. QED  BY <1>1, <1>2, <1>3, <1>4 DEF AliasInv

LEMMA SearchStays == ASSUME SearchInv, UNCHANGED search_vars PROVE SearchInv'
BY DEF SearchInv, search_vars

LEMMA DriveStays == ASSUME DriveInv, UNCHANGED train_vars PROVE DriveInv'
<1>1. UNCHANGED <<mix, train, dcc, calls, command, hits, holder, believes, ops>>
  BY DEF train_vars
<1>2. FleetType' /\ TablesOK' /\ AllAgree' /\ \A t \in Trains : SameOwner(t)
  BY <1>1, FleetStays DEF DriveInv
<1>3. ops' \in 0..Mixes[mix].max
  BY <1>1 DEF DriveInv, DeskType
<1>4. DeskType' /\ Controlled'
  BY <1>1, <1>2, <1>3, DeskStays DEF DriveInv
<1>5. CallsInv'
  <2>1. CASE calls = <<>>
    BY <1>1, <2>1, CallsRest DEF DriveInv
  <2>2. CASE Start
    <3>1. Start'
      BY <1>1, <2>2 DEF Start
    <3>2. QED  BY <1>1, <3>1 DEF DriveInv, CallsInv
  <2>3. CASE Queue
    <3>1. \A t \in Trains : Kept(t)
      BY <1>1 DEF Kept
    <3>2. command.to \in Trains /\ command' = command /\ dcc' = dcc /\ hits' = hits /\ calls' = calls
      BY <1>1, <2>3, OrderParts DEF Queue, IsOrder
    <3>3. \A i : /\ At(command.to, i)' = At(command.to, i)
                 /\ Flags(command.to, i)' = Flags(command.to, i)
                 /\ (Wanted(i)' <=> Wanted(i)) /\ Sent(i)' = Sent(i)
      BY <3>1, <3>2, SameConsist
    <3>4. CallsAre'
      BY <2>3, <3>2, <3>3 DEF Queue, CallsAre
    <3>5. \A i \in Drive!Slots : (Led(i) => Led(i)')
      BY <3>2, <3>3 DEF Led
    <3>6. SlotsAre'
      <4> SUFFICES ASSUME NEW i \in Drive!Slots, At(command.to, i)' \in Trains PROVE SlotIn(i)'
        BY <3>2 DEF SlotsAre
      <4>1. SlotIn(i)
        BY <2>3, <3>3 DEF Queue, SlotsAre
      <4>2. QED  BY <3>2, <3>3, <3>5, <4>1 DEF SlotIn
    <3>7. Queue'
      BY <2>3, <3>2, <3>4, <3>6 DEF Queue, Leads
    <3>8. QED  BY <3>2, <3>7 DEF DriveInv, CallsInv
  <2>4. QED  BY <2>1, <2>2, <2>3 DEF DriveInv, CallsInv
<1>6. QED  BY <1>2, <1>4, <1>5 DEF DriveInv

-----------------------------------------------------------------------------
(* Events: numbers and ranges.                                             *)

LEMMA EventLimits ==
    /\ LCC_MAX_EVENT_REGISTRATIONS \in Nat /\ LCC_MAX_EVENT_REGISTRATIONS >= 5
    /\ LCC_MAX_EVENT_RANGES \in Nat /\ LCC_MAX_EVENT_RANGES >= 3
    /\ MaxReports \in Nat /\ "cs" \notin EventTrains
    /\ \A a \in Addrs : a \in Nat /\ a < 2048
    /\ \A x \in Aspects : x \in Nat /\ x < 256
<1>1. \A a \in Addrs : a \in Nat /\ a < 2048
  BY NodesAssumption DEF Event!EventsAssumption
<1>2. \A x \in Aspects : x \in Nat /\ x < 256
  BY NodesAssumption DEF Event!EventsAssumption
<1>3. QED  BY <1>1, <1>2, NodesAssumption DEF Event!EventsAssumption

\* An event k ranges up and x on.
LEMMA RangePart ==
    ASSUME NEW k \in Nat, NEW x \in Nat
    PROVE  /\ x < 4096 => (4096 * k + x) - ((4096 * k + x) % 4096) = 4096 * k
           /\ x < 524288 => (524288 * k + x) - ((524288 * k + x) % 524288) = 524288 * k
OBVIOUS

\* An output's event: its number, state and range.
LEMMA BasicNumber ==
    ASSUME NEW a \in Nat, a < 2048, NEW b \in {0, 1}, NEW k \in Nat, NEW ev, ev = 4096 * k + 2 * a + b
    PROVE  /\ (ev \div 2) % 2048 = a /\ (ev % 2 = 1 <=> b = 1) /\ ev \div 4096 = k
           /\ ev - (ev % 4096) = 4096 * k /\ ev \in Nat
OBVIOUS

LEMMA ExtNumber ==
    ASSUME NEW a \in Nat, a < 2048, NEW x \in Nat, x < 256, NEW ev,
           ev = 16777216 + 256 * a + x
    PROVE  /\ (ev \div 256) % 2048 = a /\ ev % 256 = x /\ ev \in Nat
           /\ ev - (ev % 524288) = 16777216 /\ ev - (ev % 4096) >= 16777216
OBVIOUS

\* The registrations, and the ranges.
Registered(ev, p, o, s) == [ev |-> ev, producer |-> p, on |-> o, st |-> s]
TableIs ==
    /\ Len(g_table) = 5
    /\ g_table[1] = Registered(5, TRUE, "none", "none")
    /\ g_table[2] = Registered(4, FALSE, "emergency", "power")
    /\ g_table[3] = Registered(3, FALSE, "emergency", "power")
    /\ g_table[4] = Registered(2, FALSE, "emergency", "estop")
    /\ g_table[5] = Registered(1, FALSE, "emergency", "estop")
Ranged(b, n, o, s) == [base |-> b, size |-> n, on |-> o, st |-> s]
RangesAre ==
    /\ Len(g_ranges) = 3
    /\ g_ranges[1] = Ranged(4096 * 4080, 4096, "basic", "basic")
    /\ g_ranges[2] = Ranged(4096 * 4064, 4096, "basic", "basic")
    /\ g_ranges[3] = Ranged(524288 * 32, 524288, "extended", "none")

Longer(w, s, v) == /\ Len(w) = Len(s) + 1 /\ w[Len(s) + 1] = v
                   /\ \A i \in 1..Len(s) : w[i] = s[i]

LEMMA AppendIsLonger ==
    ASSUME NEW S, NEW s \in Seq(S), NEW v \in S
    PROVE  Append(s, v) \in Seq(S) /\ Longer(Append(s, v), s, v)
BY AppendProperties DEF Longer

LEMMA TableInit == g_table = Event!lcc_interface_init => TableIs
<1> SUFFICES ASSUME g_table = Event!lcc_interface_init PROVE TableIs
  OBVIOUS
<1> DEFINE p(i) == CASE i = 1 -> Registered(5, TRUE, "none", "none")
                     [] i = 2 -> Registered(4, FALSE, "emergency", "power")
                     [] i = 3 -> Registered(3, FALSE, "emergency", "power")
                     [] i = 4 -> Registered(2, FALSE, "emergency", "estop")
                     [] i = 5 -> Registered(1, FALSE, "emergency", "estop")
           n == LCC_MAX_EVENT_REGISTRATIONS
           grow(t, r) == IF Len(t) < n THEN Append(t, r) ELSE t
<1>1. g_table = grow(grow(grow(grow(grow(<<>>, p(1)), p(2)), p(3)), p(4)), p(5))
  BY DEF Event!lcc_interface_init, Event!lcc_events_register, Registered,
         Event!IS_PROGRAMMING_TRACK, Event!EMERGENCY_OFF, Event!CLEAR_EMERG_OFF,
         Event!EMERGENCY_STOP, Event!CLEAR_EMERG_STOP
<1>2. n \in Nat /\ n >= 5
  BY EventLimits
<1>3. /\ p(1) = Registered(5, TRUE, "none", "none") /\ p(2) = Registered(4, FALSE, "emergency", "power")
      /\ p(3) = Registered(3, FALSE, "emergency", "power")
      /\ p(4) = Registered(2, FALSE, "emergency", "estop")
      /\ p(5) = Registered(1, FALSE, "emergency", "estop")
  OBVIOUS
<1> HIDE DEF p, n
<1> DEFINE a == p(1)
           b == p(2)
           c == p(3)
           d == p(4)
           e == p(5)
<1>6. g_table = grow(grow(grow(grow(grow(<<>>, a), b), c), d), e)
  BY <1>1
<1> HIDE DEF a, b, c, d, e
<1> DEFINE S == {a, b, c, d, e}
           t1 == grow(<<>>, a)
           t2 == grow(t1, b)
           t3 == grow(t2, c)
           t4 == grow(t3, d)
           t5 == grow(t4, e)
<1>7. a \in S /\ b \in S /\ c \in S /\ d \in S /\ e \in S
  OBVIOUS
<1> HIDE DEF S
<1>8. t1 \in Seq(S) /\ Len(t1) = 1 /\ t1[1] = a
  BY <1>2, <1>7
<1> HIDE DEF t1
<1>9. t2 \in Seq(S) /\ Len(t2) = 2 /\ t2[1] = a /\ t2[2] = b
  <2>1. t2 = Append(t1, b)
    BY <1>2, <1>8
  <2> HIDE DEF t2
  <2>2. t2 \in Seq(S) /\ Longer(t2, t1, b)
    BY <1>7, <1>8, <2>1, AppendIsLonger
  <2>3. Len(t1) = 1 /\ Len(t1) + 1 = 2 /\ \A i \in {1} : i \in 1..Len(t1)
    BY <1>8
  <2>4. QED  BY <1>8, <2>2, <2>3 DEF Longer
<1> HIDE DEF t2
<1>10. t3 \in Seq(S) /\ Len(t3) = 3 /\ t3[1] = a /\ t3[2] = b /\ t3[3] = c
  <2>1. t3 = Append(t2, c)
    BY <1>2, <1>9
  <2> HIDE DEF t3
  <2>2. t3 \in Seq(S) /\ Longer(t3, t2, c)
    BY <1>7, <1>9, <2>1, AppendIsLonger
  <2>3. Len(t2) = 2 /\ Len(t2) + 1 = 3 /\ \A i \in {1, 2} : i \in 1..Len(t2)
    BY <1>9
  <2>4. QED  BY <1>9, <2>2, <2>3 DEF Longer
<1> HIDE DEF t3
<1>11. t4 \in Seq(S) /\ Len(t4) = 4 /\ t4[1] = a /\ t4[2] = b /\ t4[3] = c /\ t4[4] = d
  <2>1. t4 = Append(t3, d)
    BY <1>2, <1>10
  <2> HIDE DEF t4
  <2>2. t4 \in Seq(S) /\ Longer(t4, t3, d)
    BY <1>7, <1>10, <2>1, AppendIsLonger
  <2>3. Len(t3) = 3 /\ Len(t3) + 1 = 4 /\ \A i \in {1, 2, 3} : i \in 1..Len(t3)
    BY <1>10
  <2>4. QED  BY <1>10, <2>2, <2>3 DEF Longer
<1> HIDE DEF t4
<1>12. t5 \in Seq(S) /\ Len(t5) = 5 /\ t5[1] = a /\ t5[2] = b /\ t5[3] = c /\ t5[4] = d /\ t5[5] = e
  <2>1. t5 = Append(t4, e)
    BY <1>2, <1>11
  <2> HIDE DEF t5
  <2>2. t5 \in Seq(S) /\ Longer(t5, t4, e)
    BY <1>7, <1>11, <2>1, AppendIsLonger
  <2>3. Len(t4) = 4 /\ Len(t4) + 1 = 5 /\ \A i \in {1, 2, 3, 4} : i \in 1..Len(t4)
    BY <1>11
  <2>4. QED  BY <1>11, <2>2, <2>3 DEF Longer
<1>4. g_table = t5
  BY <1>6 DEF t1, t2, t3, t4
<1> HIDE DEF t5
<1>5. Len(g_table) = 5 /\ g_table[1] = p(1) /\ g_table[2] = p(2) /\ g_table[3] = p(3)
      /\ g_table[4] = p(4) /\ g_table[5] = p(5)
  BY <1>4, <1>12 DEF a, b, c, d, e
<1>13. QED  BY <1>3, <1>5 DEF TableIs

LEMMA RangesInit == g_ranges = Event!lcc_accessory_init => RangesAre
<1> SUFFICES ASSUME g_ranges = Event!lcc_accessory_init PROVE RangesAre
  OBVIOUS
<1> DEFINE p(i) == CASE i = 1 -> Ranged(4096 * 4080, 4096, "basic", "basic")
                     [] i = 2 -> Ranged(4096 * 4064, 4096, "basic", "basic")
                     [] i = 3 -> Ranged(524288 * 32, 524288, "extended", "none")
           n == LCC_MAX_EVENT_RANGES
           grow(t, r) == IF Len(t) < n THEN Append(t, r) ELSE t
<1>0. 4096 * 4080 = 16711680 /\ 4096 * 4064 = 16646144 /\ 524288 * 32 = 16777216
  OBVIOUS
<1>1. g_ranges = grow(grow(grow(<<>>, p(1)), p(2)), p(3))
  BY <1>0 DEF Event!lcc_accessory_init, Event!lcc_events_register_consumer_range, Ranged,
         Event!ACTIVATE_BASE, Event!DEACTIVATE_BASE, Event!EXT_BASE
<1>2. n \in Nat /\ n >= 3
  BY EventLimits
<1>3. /\ p(1) = Ranged(4096 * 4080, 4096, "basic", "basic")
      /\ p(2) = Ranged(4096 * 4064, 4096, "basic", "basic")
      /\ p(3) = Ranged(524288 * 32, 524288, "extended", "none")
  OBVIOUS
<1> HIDE DEF p, n
<1> DEFINE a == p(1)
           b == p(2)
           c == p(3)
<1>6. g_ranges = grow(grow(grow(<<>>, a), b), c)
  BY <1>1
<1> HIDE DEF a, b, c
<1> DEFINE S == {a, b, c}
           t1 == grow(<<>>, a)
           t2 == grow(t1, b)
           t3 == grow(t2, c)
<1>7. a \in S /\ b \in S /\ c \in S
  OBVIOUS
<1> HIDE DEF S
<1>8. t1 \in Seq(S) /\ Len(t1) = 1 /\ t1[1] = a
  BY <1>2, <1>7
<1> HIDE DEF t1
<1>9. t2 \in Seq(S) /\ Len(t2) = 2 /\ t2[1] = a /\ t2[2] = b
  <2>1. t2 = Append(t1, b)
    BY <1>2, <1>8
  <2> HIDE DEF t2
  <2>2. t2 \in Seq(S) /\ Longer(t2, t1, b)
    BY <1>7, <1>8, <2>1, AppendIsLonger
  <2>3. Len(t1) = 1 /\ Len(t1) + 1 = 2 /\ \A i \in {1} : i \in 1..Len(t1)
    BY <1>8
  <2>4. QED  BY <1>8, <2>2, <2>3 DEF Longer
<1> HIDE DEF t2
<1>10. t3 \in Seq(S) /\ Len(t3) = 3 /\ t3[1] = a /\ t3[2] = b /\ t3[3] = c
  <2>1. t3 = Append(t2, c)
    BY <1>2, <1>9
  <2> HIDE DEF t3
  <2>2. t3 \in Seq(S) /\ Longer(t3, t2, c)
    BY <1>7, <1>9, <2>1, AppendIsLonger
  <2>3. Len(t2) = 2 /\ Len(t2) + 1 = 3 /\ \A i \in {1, 2} : i \in 1..Len(t2)
    BY <1>9
  <2>4. QED  BY <1>9, <2>2, <2>3 DEF Longer
<1>4. g_ranges = t3
  BY <1>6 DEF t1, t2
<1> HIDE DEF t3
<1>5. Len(g_ranges) = 3 /\ g_ranges[1] = p(1) /\ g_ranges[2] = p(2) /\ g_ranges[3] = p(3)
  BY <1>4, <1>10 DEF a, b, c
<1>11. QED  BY <1>3, <1>5 DEF RangesAre

\* The ranges an event is in.
LEMMA FindRange ==
    ASSUME RangesAre, NEW ev \in Nat
    PROVE  /\ (ev - (ev % 4096) = 4096 * 4080) => Event!find_range("cs", ev) = {1}
           /\ (ev - (ev % 4096) = 4096 * 4064) => Event!find_range("cs", ev) = {2}
           /\ (ev - (ev % 524288) = 524288 * 32) => Event!find_range("cs", ev) = {3}
           /\ (/\ ev - (ev % 4096) # 4096 * 4080 /\ ev - (ev % 4096) # 4096 * 4064
               /\ ev - (ev % 524288) # 524288 * 32) => Event!find_range("cs", ev) = {}
<1> DEFINE in(i) == Event!InRange(g_ranges[i], ev)
<1>1. /\ (in(1) <=> ev - (ev % 4096) = 4096 * 4080)
      /\ (in(2) <=> ev - (ev % 4096) = 4096 * 4064)
      /\ (in(3) <=> ev - (ev % 524288) = 524288 * 32)
  BY DEF RangesAre, Ranged, Event!InRange
<1>2. in(3) => ~in(1) /\ ~in(2)
  BY <1>1
<1>3. ~(in(1) /\ in(2))
  BY <1>1
<1>4. Event!find_range("cs", ev) = {i \in 1..3 : in(i) /\ \A j \in 1..(i - 1) : ~in(j)}
  BY DEF RangesAre, Event!find_range
<1> HIDE DEF in
<1>5. Event!find_range("cs", ev) = {i \in {1, 2, 3} : in(i) /\ \A j \in 1..(i - 1) : ~in(j)}
  <2>1. 1..3 = {1, 2, 3}
    OBVIOUS
  <2>2. QED  BY <1>4, <2>1
<1>6. 1..(1 - 1) = {} /\ 1..(2 - 1) = {1} /\ 1..(3 - 1) = {1, 2}
  OBVIOUS
<1>7. /\ 1 \in Event!find_range("cs", ev) <=> in(1)
      /\ 2 \in Event!find_range("cs", ev) <=> in(2)
      /\ 3 \in Event!find_range("cs", ev) <=> in(3)
      /\ \A i \in Event!find_range("cs", ev) : i \in {1, 2, 3}
  BY <1>2, <1>3, <1>5, <1>6
<1>8. QED  BY <1>1, <1>2, <1>3, <1>7

\* The registrations a report reaches.
LEMMA ConsumersOf ==
    ASSUME TableIs, NEW ev \in Nat
    PROVE  /\ ev = 4 => Event!Consumers(ev) = {2}
           /\ ev = 3 => Event!Consumers(ev) = {3}
           /\ ev = 2 => Event!Consumers(ev) = {4}
           /\ ev = 1 => Event!Consumers(ev) = {5}
           /\ ev > 4 => Event!Consumers(ev) = {}
<1>1. 1..5 = {1, 2, 3, 4, 5}
  OBVIOUS
<1>2. \A i : i \in Event!Consumers(ev) <=> i \in {1, 2, 3, 4, 5} /\ ~g_table[i].producer /\ g_table[i].ev = ev
  BY <1>1 DEF TableIs, Event!Consumers
<1>3. \A i : i \in Event!Consumers(ev) <=> \/ i = 2 /\ ev = 4
                                           \/ i = 3 /\ ev = 3
                                           \/ i = 4 /\ ev = 2
                                           \/ i = 5 /\ ev = 1
  BY <1>2 DEF TableIs, Registered
<1>4. QED  BY <1>3

\* What a report's event is to the station.
Activation(m) == IF m.kind = "activate" THEN 1 ELSE 2
IsBasic(m, ev) ==
    /\ m \in Event!Basic /\ ev \in Nat /\ ev > 6
    /\ Event!Addr(ev) = m.addr /\ (Event!Normal(ev) <=> m.normal)
    /\ (Event!Activates(ev) <=> m.kind = "activate")
    /\ Event!find_range("cs", ev) = {Activation(m)}
IsExt(m, ev) ==
    /\ m \in Event!Extended /\ ev \in Nat /\ ev > 6
    /\ (ev \div 256) % 2048 = m.addr /\ ev % 256 = m.aspect
    /\ Event!find_range("cs", ev) = {3}
IsEmergency(m, ev) ==
    /\ m \in Event!Emergency /\ Event!find_range("cs", ev) = {}
    /\ \/ m.kind = "off" /\ ev = 4
       \/ m.kind = "on" /\ ev = 3
       \/ m.kind = "stop" /\ ev = 2
       \/ m.kind = "go" /\ ev = 1
IsStray(m, ev) ==
    /\ m \in Event!Stray /\ ev \in Nat /\ ev >= 6 /\ Event!find_range("cs", ev) = {}

LEMMA BasicIs ==
    ASSUME RangesAre, NEW m \in Event!Basic
    PROVE  IsBasic(m, Event!EventOf(m))
<1> DEFINE ev == Event!EventOf(m)
           b == IF m.normal THEN 1 ELSE 0
           a == m.addr
           k == IF m.kind = "activate" THEN 4080 ELSE 4064
<1>1. /\ m.kind \in {"activate", "deactivate"} /\ m.normal \in BOOLEAN /\ a \in Addrs
  BY DEF Event!Basic
<1>2. a \in Nat /\ a < 2048
  BY <1>1, EventLimits
<1>3. b \in {0, 1} /\ (b = 1 <=> m.normal) /\ k \in Nat
  BY <1>1
<1>4. ev = 4096 * k + 2 * a + b
  <2>1. CASE m.kind = "activate"
    BY <1>2, <1>3, <2>1 DEF Event!EventOf, Event!ACTIVATE_BASE
  <2>2. CASE m.kind = "deactivate"
    BY <1>2, <1>3, <2>2 DEF Event!EventOf, Event!DEACTIVATE_BASE
  <2>3. QED  BY <1>1, <2>1, <2>2
<1>5. k > 1 /\ (m.kind = "activate" <=> k = 4080) /\ (m.kind # "activate" => k = 4064)
  OBVIOUS
<1> HIDE DEF ev, b, a, k
<1>6. /\ (ev \div 2) % 2048 = a /\ (ev % 2 = 1 <=> b = 1) /\ ev \div 4096 = k
      /\ ev - (ev % 4096) = 4096 * k /\ ev \in Nat
  BY <1>2, <1>3, <1>4, BasicNumber
<1>7. ev > 6
  BY <1>2, <1>3, <1>4, <1>5
<1>8. Event!find_range("cs", ev) = {Activation(m)}
  <2>1. CASE m.kind = "activate"
    BY <1>5, <1>6, <2>1, FindRange DEF Activation
  <2>2. CASE m.kind # "activate"
    BY <1>5, <1>6, <2>2, FindRange DEF Activation
  <2>3. QED  BY <2>1, <2>2
<1>9. Event!Activates(ev) <=> k = 4080
  BY <1>6 DEF Event!Activates, Event!ACTIVATE_BASE
<1>10. Event!Addr(ev) = a /\ (Event!Normal(ev) <=> b = 1)
  BY <1>6 DEF Event!Addr, Event!Normal
<1>11. IsBasic(m, ev)
  BY <1>3, <1>5, <1>6, <1>7, <1>8, <1>9, <1>10 DEF IsBasic, a
<1>12. QED  BY <1>11 DEF ev

LEMMA ExtIs ==
    ASSUME RangesAre, NEW m \in Event!Extended
    PROVE  IsExt(m, Event!EventOf(m))
<1> DEFINE ev == Event!EventOf(m)
           a == m.addr
           x == m.aspect
<1>1. m.kind = "ext" /\ a \in Addrs /\ x \in Aspects
  BY DEF Event!Extended
<1>2. a \in Nat /\ a < 2048 /\ x \in Nat /\ x < 256
  BY <1>1, EventLimits
<1>3. ev = 16777216 + 256 * a + x
  BY <1>1 DEF Event!EventOf, Event!EXT_BASE
<1> HIDE DEF ev, a, x
<1>4. /\ (ev \div 256) % 2048 = a /\ ev % 256 = x /\ ev \in Nat
      /\ ev - (ev % 524288) = 16777216
  BY <1>2, <1>3, ExtNumber
<1>5. ev > 6 /\ 524288 * 32 = 16777216
  BY <1>2, <1>3
<1>6. Event!find_range("cs", ev) = {3}
  BY <1>4, <1>5, FindRange
<1>7. IsExt(m, ev)
  BY <1>4, <1>5, <1>6 DEF IsExt, a, x
<1>8. QED  BY <1>7 DEF ev

LEMMA EmergencyIs ==
    ASSUME RangesAre, NEW m \in Event!Emergency
    PROVE  IsEmergency(m, Event!EventOf(m))
<1> DEFINE ev == Event!EventOf(m)
<1>1. m.kind \in {"off", "on", "stop", "go"}
  BY DEF Event!Emergency
<1>2. \/ m.kind = "off" /\ ev = 4
      \/ m.kind = "on" /\ ev = 3
      \/ m.kind = "stop" /\ ev = 2
      \/ m.kind = "go" /\ ev = 1
  BY <1>1 DEF Event!EventOf, Event!EMERGENCY_OFF, Event!CLEAR_EMERG_OFF,
              Event!EMERGENCY_STOP, Event!CLEAR_EMERG_STOP
<1> HIDE DEF ev
<1>3. ev \in Nat /\ ev < 5
  BY <1>2
<1>4. Event!find_range("cs", ev) = {}
  BY <1>3, FindRange
<1>5. QED  BY <1>2, <1>4 DEF IsEmergency, ev

LEMMA StrayIs ==
    ASSUME RangesAre, NEW m \in Event!Stray
    PROVE  IsStray(m, Event!EventOf(m))
<1> DEFINE ev == Event!EventOf(m)
<1>1. m.kind = "stray" /\ m.ev \in {6, 16715776, 16777215}
  BY DEF Event!Stray, Event!IS_TRAIN, Event!ACTIVATE_BASE, Event!EXT_BASE
<1>2. ev \in {6, 16715776, 16777215}
  BY <1>1 DEF Event!EventOf
<1> HIDE DEF ev
<1>3. ev \in Nat /\ ev >= 6
  BY <1>2
<1>4. /\ ev - (ev % 4096) # 4096 * 4080 /\ ev - (ev % 4096) # 4096 * 4064
      /\ ev - (ev % 524288) # 524288 * 32
  BY <1>2
<1>5. Event!find_range("cs", ev) = {}
  BY <1>3, <1>4, FindRange
<1>6. QED  BY <1>3, <1>5 DEF IsStray, ev

LEMMA ReportIs ==
    ASSUME RangesAre, NEW m \in Event!Reports
    PROVE  \/ IsBasic(m, Event!EventOf(m)) \/ IsExt(m, Event!EventOf(m))
           \/ IsEmergency(m, Event!EventOf(m)) \/ IsStray(m, Event!EventOf(m))
BY BasicIs, ExtIs, EmergencyIs, StrayIs DEF Event!Reports

-----------------------------------------------------------------------------
(* Events: what the reports so far left in effect.                         *)

LEMMA MaxOf ==
    ASSUME NEW n \in Nat, NEW S \in SUBSET (1..n), S # {}
    PROVE  Event!Max(S) \in S
<1> DEFINE T == {n - i : i \in S}
<1>1. T \subseteq 0..n /\ T # {}
  <2>1. \A i \in S : i \in 1..n /\ n - i \in 0..n
    OBVIOUS
  <2>2. QED  BY <2>1
<1>2. IsFiniteSet(0..n)
  BY FS_Interval
<1>3. IsFiniteSet(T) /\ T \in SUBSET Nat
  BY <1>1, <1>2, FS_Subset
<1>4. \A i \in S : n - i \in T
  OBVIOUS
<1>5. \A k \in T : \E i \in S : k = n - i
  OBVIOUS
<1> HIDE DEF T
<1>6. Cardinality(T) \in Nat /\ Cardinality(T) # 0
  BY <1>1, <1>3, FS_CardinalityType, FS_EmptySet
<1>7. 0 \in 0..Cardinality(T) - 1
  BY <1>6
<1>8. PICK k \in T : Drive!Rank(T, k) = 0
  BY <1>3, <1>7, RankOnto
<1>9. \A j \in T : k <= j
  <2> SUFFICES ASSUME NEW j \in T, ~(k <= j) PROVE FALSE
    OBVIOUS
  <2>1. j < k /\ Drive!Rank(T, j) \in Nat
    BY <1>3, RankStrict
  <2>2. Drive!Rank(T, j) < Drive!Rank(T, k)
    BY <1>3, <2>1, RankStrict
  <2>3. QED  BY <1>8, <2>1, <2>2
<1>10. PICK i \in S : k = n - i
  BY <1>5
<1>11. \A j \in S : i >= j
  <2> SUFFICES ASSUME NEW j \in S PROVE i >= j
    OBVIOUS
  <2>1. k <= n - j
    BY <1>4, <1>9
  <2>2. i \in 1..n /\ j \in 1..n
    OBVIOUS
  <2>3. QED  BY <1>10, <2>1, <2>2
<1>12. QED  BY <1>11 DEF Event!Max

LEMMA EventCardinality ==
    Event!Cardinality({}) = 0 /\ \A x : Event!Cardinality({x}) = 1
<1>1. \A S : Event!Cardinality(S) = Cardinality(S)
  BY DEF Event!Cardinality, Cardinality
<1>2. QED  BY <1>1, FS_EmptySet, FS_Singleton

\* The last report of a set, one report later.
LEMMA LastAppend ==
    ASSUME reported \in Seq(Event!Reports), NEW m \in Event!Reports,
           reported' = Append(reported, m), NEW S
    PROVE  Event!LastOf(S)' = IF m \in S THEN {m} ELSE Event!LastOf(S)
<1> DEFINE n == Len(reported)
           old == {i \in 1..n : reported[i] \in S}
           new == {i \in 1..n + 1 : reported'[i] \in S}
<1>1. n \in Nat /\ Len(reported') = n + 1 /\ reported'[n + 1] = m
      /\ \A i \in 1..n : reported'[i] = reported[i]
  BY AppendIsLonger DEF Longer
<1>2. /\ Event!LastOf(S) = IF old = {} THEN {} ELSE {reported[Event!Max(old)]}
      /\ Event!LastOf(S)' = IF new = {} THEN {} ELSE {reported'[Event!Max(new)]}
  BY <1>1 DEF Event!LastOf
<1>3. old \in SUBSET (1..n) /\ new \in SUBSET (1..n + 1) /\ n + 1 \in Nat
  BY <1>1
<1>4. CASE m \in S
  <2>1. n + 1 \in new /\ \A j \in new : j <= n + 1
    BY <1>1, <1>4
  <2>2. \A x \in new : (\A j \in new : x >= j) => x = n + 1
    BY <1>1, <2>1
  <2>3. Event!Max(new) = n + 1
    <3> HIDE DEF new, n
    <3>1. n + 1 >= n + 1 /\ \A j \in new : n + 1 >= j
      BY <1>1, <1>3, <2>1
    <3>2. QED  BY <2>1, <2>2, <3>1 DEF Event!Max
  <2>4. QED  BY <1>1, <1>2, <1>4, <2>1, <2>3
<1>5. CASE m \notin S
  <2>1. new = old
    BY <1>1, <1>5
  <2>2. old # {} => Event!Max(old) \in 1..n
    BY <1>1, <1>3, MaxOf
  <2> HIDE DEF new, old, n
  <2>3. QED  BY <1>1, <1>2, <1>5, <2>1, <2>2
<1>6. QED  BY <1>4, <1>5

Packet == [normal : BOOLEAN, activate : BOOLEAN]
OfOutput(a) == {r \in Event!Basic : r.addr = a}
OfPower == [kind : {"off", "on"}]
OfStop == [kind : {"stop", "go"}]

EventType ==
    /\ TableIs /\ RangesAre /\ confirmed \subseteq EventTrains
    /\ reported \in Seq(Event!Reports)
    /\ g_normal \subseteq g_known /\ g_known \subseteq Addrs
    /\ power_on \in BOOLEAN /\ stop_held \in BOOLEAN
    /\ sent \in [Addrs -> SUBSET Packet] /\ aspect \in [Addrs -> SUBSET Aspects]

\* The states are those the last reports of each set asked for.
OutputInEffect(a) ==
    /\ (a \in g_known) <=> (Event!LastOf(OfOutput(a)) # {})
    /\ \A r \in Event!LastOf(OfOutput(a)) : (r.normal <=> a \in g_normal)
InEffect ==
    /\ power_on <=> \E r \in Event!LastOf(OfPower) : r.kind = "on"
    /\ stop_held <=> \E r \in Event!LastOf(OfStop) : r.kind = "stop"
    /\ \A a \in Addrs : OutputInEffect(a)

\* What a report does to the outputs and signals.
DoneBasic(m) ==
    /\ g_known' = g_known \cup {m.addr}
    /\ g_normal' = IF m.normal THEN g_normal \cup {m.addr} ELSE g_normal \ {m.addr}
    /\ \/ sent' = [sent EXCEPT ![m.addr] = {[normal |-> m.normal, activate |-> m.kind = "activate"]}]
       \/ sent' = sent
    /\ UNCHANGED <<aspect, power_on, stop_held>>
DoneExt(m) ==
    /\ \/ aspect' = [aspect EXCEPT ![m.addr] = {m.aspect}]
       \/ aspect' = aspect
    /\ UNCHANGED <<g_known, g_normal, sent, power_on, stop_held>>
DoneEmergency(m) ==
    /\ power_on' = IF m.kind = "off" THEN FALSE ELSE IF m.kind = "on" THEN TRUE ELSE power_on
    /\ stop_held' = IF m.kind = "stop" THEN TRUE ELSE IF m.kind = "go" THEN FALSE ELSE stop_held
    /\ UNCHANGED <<g_known, g_normal, sent, aspect>>
DoneNothing == UNCHANGED <<g_known, g_normal, sent, aspect, power_on, stop_held>>

\* lcc_events_handle_report: the report reaches one handler, or none.
LEMMA ReportDone ==
    ASSUME TableIs, RangesAre, NEW m \in Event!Reports, Event!lcc_events_handle_report(m)
    PROVE  \/ m \in Event!Basic /\ handled' = 1 /\ DoneBasic(m)
           \/ m \in Event!Extended /\ handled' = 1 /\ DoneExt(m)
           \/ m \in Event!Emergency /\ handled' = 1 /\ DoneEmergency(m)
           \/ m \in Event!Stray /\ handled' = 0 /\ DoneNothing
<1> DEFINE ev == Event!EventOf(m)
           con == Event!Consumers(ev)
           ran == Event!find_range("cs", ev)
<1>1. /\ handled' = Event!Cardinality(con) + Event!Cardinality(ran)
      /\ \/ con # {} /\ Event!handle_emergency_event(ev)
         \/ con = {} /\ \E i \in ran : g_ranges[i].on = "basic" /\ Event!on_basic(ev)
         \/ con = {} /\ \E i \in ran : g_ranges[i].on = "extended" /\ Event!on_extended(ev)
         \/ con = {} /\ ran = {} /\ DoneNothing
  BY DEF Event!lcc_events_handle_report, DoneNothing, Event!accessory
<1>2. IsBasic(m, ev) \/ IsExt(m, ev) \/ IsEmergency(m, ev) \/ IsStray(m, ev)
  BY ReportIs
<1> HIDE DEF ev
<1>3. g_ranges[1].on = "basic" /\ g_ranges[2].on = "basic" /\ g_ranges[3].on = "extended"
  BY DEF RangesAre, Ranged
<1>4. CASE IsBasic(m, ev)
  <2>1. con = {} /\ ran = {Activation(m)} /\ Activation(m) \in {1, 2}
    BY <1>4, ConsumersOf DEF IsBasic, Activation
  <2> HIDE DEF con, ran
  <2>2. handled' = 1
    <3>1. Event!Cardinality(con) = 0 /\ Event!Cardinality(ran) = 1
      BY <2>1, EventCardinality
    <3>2. QED  BY <1>1, <3>1
  <2>3. Event!on_basic(ev)
    BY <1>1, <1>3, <2>1
  <2>4. m.normal \in BOOLEAN /\ Event!Normal(ev) \in BOOLEAN /\ Event!Activates(ev) \in BOOLEAN
        /\ (m.kind = "activate") \in BOOLEAN
    BY <1>4 DEF IsBasic, Event!Basic, Event!Normal, Event!Activates
  <2>5. Event!Addr(ev) = m.addr /\ (Event!Normal(ev) <=> m.normal)
        /\ (Event!Activates(ev) <=> m.kind = "activate")
    BY <1>4 DEF IsBasic
  <2>6. Event!Normal(ev) = m.normal /\ Event!Activates(ev) = (m.kind = "activate")
    BY <2>4, <2>5
  <2>7. DoneBasic(m)
    BY <2>3, <2>5, <2>6 DEF Event!on_basic, Event!SetsState, DoneBasic
  <2>8. QED  BY <1>4, <2>2, <2>7 DEF IsBasic
<1>5. CASE IsExt(m, ev)
  <2>1. con = {} /\ ran = {3}
    BY <1>5, ConsumersOf DEF IsExt
  <2> HIDE DEF con, ran
  <2>2. handled' = 1
    <3>1. Event!Cardinality(con) = 0 /\ Event!Cardinality(ran) = 1
      BY <2>1, EventCardinality
    <3>2. QED  BY <1>1, <3>1
  <2>3. Event!on_extended(ev)
    BY <1>1, <1>3, <2>1
  <2>4. DoneExt(m)
    BY <1>5, <2>3 DEF Event!on_extended, DoneExt, IsExt
  <2>5. QED  BY <1>5, <2>2, <2>4 DEF IsExt
<1>6. CASE IsEmergency(m, ev)
  <2>1. ev \in Nat /\ ran = {} /\ \E i : con = {i}
    <3>1. ev \in Nat /\ (ev = 4 \/ ev = 3 \/ ev = 2 \/ ev = 1) /\ ran = {}
      BY <1>6 DEF IsEmergency
    <3> HIDE DEF ran
    <3>2. con = {2} \/ con = {3} \/ con = {4} \/ con = {5}
      <4>1. /\ ev = 4 => con = {2}
            /\ ev = 3 => con = {3}
            /\ ev = 2 => con = {4}
            /\ ev = 1 => con = {5}
        BY <3>1, ConsumersOf
      <4>2. QED  BY <3>1, <4>1
    <3> HIDE DEF con
    <3>3. QED  BY <3>1, <3>2
  <2> HIDE DEF con, ran
  <2>2. handled' = 1
    <3>1. Event!Cardinality(con) = 1 /\ Event!Cardinality(ran) = 0
      BY <2>1, EventCardinality
    <3>2. QED  BY <1>1, <3>1
  <2>3. Event!handle_emergency_event(ev)
    BY <1>1, <2>1
  <2>4. DoneEmergency(m)
    <3>1. /\ (m.kind = "off" <=> ev = 4) /\ (m.kind = "on" <=> ev = 3)
          /\ (m.kind = "stop" <=> ev = 2) /\ (m.kind = "go" <=> ev = 1)
      BY <1>6 DEF IsEmergency
    <3>2. /\ power_on' = IF ev = 4 THEN FALSE ELSE IF ev = 3 THEN TRUE ELSE power_on
          /\ stop_held' = IF ev = 2 THEN TRUE ELSE IF ev = 1 THEN FALSE ELSE stop_held
          /\ UNCHANGED <<g_known, g_normal, sent, aspect>>
      BY <2>3 DEF Event!handle_emergency_event, Event!accessory,
         Event!EMERGENCY_OFF, Event!CLEAR_EMERG_OFF, Event!EMERGENCY_STOP, Event!CLEAR_EMERG_STOP
    <3>3. QED  BY ONLY <3>1, <3>2, Zenon DEF DoneEmergency
  <2>5. QED  BY <1>6, <2>2, <2>4 DEF IsEmergency
<1>7. CASE IsStray(m, ev)
  <2>1. con = {} /\ ran = {}
    BY <1>7, ConsumersOf DEF IsStray
  <2> HIDE DEF con, ran
  <2>2. handled' = 0
    <3>1. Event!Cardinality(con) = 0 /\ Event!Cardinality(ran) = 0
      BY <2>1, EventCardinality
    <3>2. QED  BY <1>1, <3>1
  <2>3. DoneNothing
    BY <1>1, <2>1
  <2>4. QED  BY <1>7, <2>2, <2>3 DEF IsStray
<1>8. QED  BY <1>2, <1>4, <1>5, <1>6, <1>7

\* The kinds of reports have nothing in common.
LEMMA KindsDiffer ==
    ASSUME NEW m
    PROVE  /\ m \in Event!Basic => m \notin OfPower /\ m \notin OfStop
           /\ m \in Event!Extended => m \notin Event!Basic /\ m \notin OfPower /\ m \notin OfStop
           /\ m \in Event!Emergency =>
                /\ m \notin Event!Basic
                /\ (m \in OfPower <=> m.kind \in {"off", "on"})
                /\ (m \in OfStop <=> m.kind \in {"stop", "go"})
           /\ m \in Event!Stray => m \notin Event!Basic /\ m \notin OfPower /\ m \notin OfStop
<1>1. \A x \in Event!Basic : x.kind \in {"activate", "deactivate"}
  BY DEF Event!Basic
<1>2. \A x \in Event!Extended : x.kind = "ext"
  BY DEF Event!Extended
<1>3. /\ \A x \in OfPower : x.kind \in {"off", "on"}
      /\ \A x \in OfStop : x.kind \in {"stop", "go"}
  BY DEF OfPower, OfStop
<1>4. \A x \in Event!Stray : x.kind = "stray"
  BY DEF Event!Stray
<1>5. \A x \in Event!Emergency : /\ x.kind \in {"off", "on", "stop", "go"}
                                 /\ x.kind \in {"off", "on"} => x \in OfPower
                                 /\ x.kind \in {"stop", "go"} => x \in OfStop
  BY DEF Event!Emergency, OfPower, OfStop
<1>6. QED  BY <1>1, <1>2, <1>3, <1>4, <1>5

LEMMA TypeAfterReport ==
    ASSUME EventType, NEW m \in Event!Reports, Event!lcc_events_handle_report(m)
    PROVE  EventType'
<1>1. /\ UNCHANGED <<g_table, g_ranges, confirmed>> /\ reported' = Append(reported, m)
  BY DEF Event!lcc_events_handle_report, Event!tables
<1>2. reported' \in Seq(Event!Reports)
  BY <1>1, AppendIsLonger DEF EventType
<1>3. TableIs' /\ RangesAre'
  <2>1. TableIs /\ g_table' = g_table /\ RangesAre /\ g_ranges' = g_ranges
    BY <1>1 DEF EventType
  <2>2. TableIs'
    BY ONLY <2>1, Zenon DEF TableIs
  <2>3. RangesAre'
    BY ONLY <2>1, SMT DEF RangesAre
  <2>4. QED  BY <2>2, <2>3
<1>4. /\ g_normal' \subseteq g_known' /\ g_known' \subseteq Addrs
      /\ power_on' \in BOOLEAN /\ stop_held' \in BOOLEAN
      /\ sent' \in [Addrs -> SUBSET Packet] /\ aspect' \in [Addrs -> SUBSET Aspects]
  <2>1. CASE m \in Event!Basic /\ DoneBasic(m)
    <3>1. m.addr \in Addrs /\ m.normal \in BOOLEAN /\ (m.kind = "activate") \in BOOLEAN
      BY <2>1 DEF Event!Basic
    <3>2. [normal |-> m.normal, activate |-> m.kind = "activate"] \in Packet
      BY <3>1 DEF Packet
    <3> DEFINE p == [normal |-> m.normal, activate |-> m.kind = "activate"]
    <3> HIDE DEF p
    <3>3. sent' = [sent EXCEPT ![m.addr] = {p}] \/ sent' = sent
      BY <2>1 DEF DoneBasic, p
    <3>4. p \in Packet
      BY <3>2 DEF p
    <3>5. sent' \in [Addrs -> SUBSET Packet]
      BY <3>1, <3>3, <3>4 DEF EventType
    <3>6. QED  BY <2>1, <3>1, <3>5 DEF EventType, DoneBasic
  <2>2. CASE m \in Event!Extended /\ DoneExt(m)
    <3>1. m.addr \in Addrs /\ m.aspect \in Aspects
      BY <2>2 DEF Event!Extended
    <3>2. QED  BY <2>2, <3>1 DEF EventType, DoneExt
  <2>3. CASE DoneEmergency(m)
    BY <2>3 DEF EventType, DoneEmergency
  <2>4. CASE DoneNothing
    BY <2>4 DEF EventType, DoneNothing
  <2>5. QED  BY <2>1, <2>2, <2>3, <2>4, ReportDone DEF EventType
<1>5. QED  BY <1>1, <1>2, <1>3, <1>4 DEF EventType

LEMMA EffectAfterReport ==
    ASSUME EventType, InEffect, NEW m \in Event!Reports, Event!lcc_events_handle_report(m)
    PROVE  InEffect'
<1>1. reported \in Seq(Event!Reports) /\ reported' = Append(reported, m)
  BY DEF Event!lcc_events_handle_report, EventType
<1>2. /\ Event!LastOf(OfPower)' = IF m \in OfPower THEN {m} ELSE Event!LastOf(OfPower)
      /\ Event!LastOf(OfStop)' = IF m \in OfStop THEN {m} ELSE Event!LastOf(OfStop)
  BY <1>1, LastAppend
<1>3. ASSUME NEW a
      PROVE  Event!LastOf(OfOutput(a))' =
               IF m \in OfOutput(a) THEN {m} ELSE Event!LastOf(OfOutput(a))
  BY <1>1, LastAppend
<1>4. \A a : m \in OfOutput(a) <=> m \in Event!Basic /\ m.addr = a
  BY DEF OfOutput
<1> DEFINE off == m \notin OfPower /\ m \notin OfStop
           own(a) == m \notin OfOutput(a)
<1>5. ASSUME off, UNCHANGED <<power_on, stop_held>>
      PROVE  /\ power_on' <=> \E r \in Event!LastOf(OfPower)' : r.kind = "on"
             /\ stop_held' <=> \E r \in Event!LastOf(OfStop)' : r.kind = "stop"
  BY <1>2, <1>5 DEF InEffect
<1>6. ASSUME NEW a \in Addrs, own(a),
             a \in g_known' <=> a \in g_known, a \in g_normal' <=> a \in g_normal
      PROVE  OutputInEffect(a)'
  BY <1>3, <1>6 DEF InEffect, OutputInEffect
<1>7. CASE m \in Event!Basic /\ DoneBasic(m)
  <2>1. off
    BY <1>7, KindsDiffer
  <2>2. UNCHANGED <<power_on, stop_held>>
    BY <1>7 DEF DoneBasic
  <2>3. ASSUME NEW a \in Addrs PROVE OutputInEffect(a)'
    <3>1. CASE a = m.addr
      <4>1. Event!LastOf(OfOutput(a))' = {m}
        BY <1>3, <1>4, <1>7, <3>1
      <4>2. a \in g_known' /\ (m.normal <=> a \in g_normal')
        BY <1>7, <3>1 DEF DoneBasic
      <4>3. QED  BY <4>1, <4>2 DEF OutputInEffect
    <3>2. CASE a # m.addr
      <4>1. own(a) /\ (a \in g_known' <=> a \in g_known) /\ (a \in g_normal' <=> a \in g_normal)
        BY <1>4, <1>7, <3>2 DEF DoneBasic
      <4>2. QED  BY <1>6, <4>1
    <3>3. QED  BY <3>1, <3>2
  <2>4. QED  BY <1>5, <2>1, <2>2, <2>3 DEF InEffect
<1>8. CASE m \notin Event!Basic /\ UNCHANGED <<g_known, g_normal>>
  <2>1. \A a \in Addrs : OutputInEffect(a)'
    BY <1>4, <1>6, <1>8
  <2>2. CASE off /\ UNCHANGED <<power_on, stop_held>>
    BY <1>5, <2>1, <2>2 DEF InEffect
  <2>3. CASE m \in Event!Emergency /\ DoneEmergency(m)
    <3>1. /\ m.kind \in {"off", "on", "stop", "go"}
          /\ (m \in OfPower <=> m.kind \in {"off", "on"})
          /\ (m \in OfStop <=> m.kind \in {"stop", "go"})
      BY <2>3, KindsDiffer DEF Event!Emergency
    <3>2. power_on' <=> \E r \in Event!LastOf(OfPower)' : r.kind = "on"
      <4>1. CASE m \in OfPower
        BY <1>2, <2>3, <3>1, <4>1 DEF DoneEmergency
      <4>2. CASE m \notin OfPower
        <5>1. power_on' = power_on
          BY <2>3, <3>1, <4>2 DEF DoneEmergency
        <5>2. QED  BY <1>2, <4>2, <5>1 DEF InEffect
      <4>3. QED  BY <4>1, <4>2
    <3>3. stop_held' <=> \E r \in Event!LastOf(OfStop)' : r.kind = "stop"
      <4>1. CASE m \in OfStop
        BY <1>2, <2>3, <3>1, <4>1 DEF DoneEmergency
      <4>2. CASE m \notin OfStop
        <5>1. stop_held' = stop_held
          BY <2>3, <3>1, <4>2 DEF DoneEmergency
        <5>2. QED  BY <1>2, <4>2, <5>1 DEF InEffect
      <4>3. QED  BY <4>1, <4>2
    <3>4. QED  BY <2>1, <3>2, <3>3 DEF InEffect
  <2>4. CASE m \in Event!Extended /\ DoneExt(m)
    BY <2>2, <2>4, KindsDiffer DEF DoneExt
  <2>5. CASE m \in Event!Stray /\ DoneNothing
    BY <2>2, <2>5, KindsDiffer DEF DoneNothing
  <2>6. QED  BY <1>8, <2>2, <2>3, <2>4, <2>5, ReportDone DEF EventType
<1>9. QED
  <2>1. m \in Event!Extended /\ DoneExt(m) => m \notin Event!Basic /\ UNCHANGED <<g_known, g_normal>>
    BY KindsDiffer DEF DoneExt
  <2>2. m \in Event!Emergency /\ DoneEmergency(m) => m \notin Event!Basic /\ UNCHANGED <<g_known, g_normal>>
    BY KindsDiffer DEF DoneEmergency
  <2>3. m \in Event!Stray /\ DoneNothing => m \notin Event!Basic /\ UNCHANGED <<g_known, g_normal>>
    BY KindsDiffer DEF DoneNothing
  <2>4. QED  BY <1>7, <1>8, <2>1, <2>2, <2>3, ReportDone DEF EventType

\* The packets sent are ones some report asked for.
SentWere ==
    \A a \in Addrs : \A p \in sent[a] : \E i \in 1..Len(reported) :
        reported[i] = [kind |-> IF p.activate THEN "activate" ELSE "deactivate",
                       addr |-> a, normal |-> p.normal]
ShownWere ==
    \A a \in Addrs : \A p \in aspect[a] : \E i \in 1..Len(reported) :
        reported[i] = [kind |-> "ext", addr |-> a, aspect |-> p]
HandledOnce ==
    reported # <<>> => handled = IF reported[Len(reported)].kind = "stray" THEN 0 ELSE 1

LEMMA ActedParts == Event!ReportsAreActed <=> HandledOnce /\ SentWere /\ ShownWere
BY DEF Event!ReportsAreActed, HandledOnce, SentWere, ShownWere

LEMMA ActedAfterReport ==
    ASSUME EventType, SentWere, ShownWere,
           NEW m \in Event!Reports, Event!lcc_events_handle_report(m)
    PROVE  HandledOnce' /\ SentWere' /\ ShownWere'
<1> DEFINE n == Len(reported)
<1>1. /\ n \in Nat /\ Len(reported') = n + 1 /\ reported'[n + 1] = m
      /\ \A i \in 1..n : i \in 1..n + 1 /\ reported'[i] = reported[i]
      /\ n + 1 \in 1..n + 1
  BY AppendIsLonger DEF Longer, Event!lcc_events_handle_report, EventType
<1> HIDE DEF n
<1>2. \/ m \in Event!Basic /\ handled' = 1 /\ DoneBasic(m)
      \/ m \in Event!Extended /\ handled' = 1 /\ DoneExt(m)
      \/ m \in Event!Emergency /\ handled' = 1 /\ DoneEmergency(m)
      \/ m \in Event!Stray /\ handled' = 0 /\ DoneNothing
  BY ReportDone DEF EventType
<1>3. HandledOnce'
  <2>1. handled' = IF m.kind = "stray" THEN 0 ELSE 1
    BY <1>2 DEF Event!Basic, Event!Extended, Event!Emergency, Event!Stray
  <2>2. QED  BY <1>1, <2>1 DEF HandledOnce
<1>4. ASSUME NEW r, \E i \in 1..n : reported[i] = r
      PROVE  \E i \in 1..Len(reported') : reported'[i] = r
  BY <1>1, <1>4
<1>5. \E i \in 1..Len(reported') : reported'[i] = m
  BY <1>1
<1>6. SentWere'
  <2> SUFFICES ASSUME NEW a \in Addrs, NEW p \in sent'[a]
               PROVE  \E i \in 1..Len(reported') : reported'[i] =
                        [kind |-> IF p.activate THEN "activate" ELSE "deactivate",
                         addr |-> a, normal |-> p.normal]
    BY DEF SentWere
  <2>1. CASE p \in sent[a]
    <3> DEFINE r == [kind |-> IF p.activate THEN "activate" ELSE "deactivate",
                     addr |-> a, normal |-> p.normal]
    <3>1. \E i \in 1..n : reported[i] = r
      BY <2>1 DEF SentWere, n
    <3> HIDE DEF r
    <3>2. \E i \in 1..Len(reported') : reported'[i] = r
      BY <1>4, <3>1
    <3>3. QED  BY <3>2 DEF r
  <2>2. CASE p \notin sent[a]
    <3>1. m \in Event!Basic /\ DoneBasic(m)
      BY <1>2, <2>2 DEF DoneExt, DoneEmergency, DoneNothing
    <3> DEFINE q == [normal |-> m.normal, activate |-> m.kind = "activate"]
    <3>2. q.normal = m.normal /\ q.activate = (m.kind = "activate")
      OBVIOUS
    <3> HIDE DEF q
    <3>3. sent' = [sent EXCEPT ![m.addr] = {q}] \/ sent' = sent
      BY <3>1 DEF DoneBasic, q
    <3>4. a = m.addr /\ p = q
      BY <2>2, <3>3 DEF EventType
    <3>5. m.kind = IF p.activate THEN "activate" ELSE "deactivate"
      BY <3>1, <3>2, <3>4 DEF Event!Basic
    <3>6. m = [kind |-> m.kind, addr |-> m.addr, normal |-> m.normal]
      BY <3>1 DEF Event!Basic
    <3>7. QED  BY <1>5, <3>2, <3>4, <3>5, <3>6
  <2>3. QED  BY <2>1, <2>2
<1>7. ShownWere'
  <2> SUFFICES ASSUME NEW a \in Addrs, NEW p \in aspect'[a]
               PROVE  \E i \in 1..Len(reported') : reported'[i] =
                        [kind |-> "ext", addr |-> a, aspect |-> p]
    BY DEF ShownWere
  <2>1. CASE p \in aspect[a]
    BY <1>4, <2>1 DEF ShownWere, n
  <2>2. CASE p \notin aspect[a]
    <3>1. m \in Event!Extended /\ DoneExt(m)
      BY <1>2, <2>2 DEF DoneBasic, DoneEmergency, DoneNothing
    <3>2. a = m.addr /\ p = m.aspect
      BY <2>2, <3>1 DEF EventType, DoneExt
    <3>3. m = [kind |-> "ext", addr |-> m.addr, aspect |-> m.aspect]
      BY <3>1 DEF Event!Extended
    <3>4. QED  BY <1>5, <3>2, <3>3
  <2>3. QED  BY <2>1, <2>2
<1>8. QED  BY <1>3, <1>6, <1>7

-----------------------------------------------------------------------------
(* Events: what the replies say.                                           *)

LEMMA LastIn ==
    ASSUME reported \in Seq(Event!Reports), NEW S
    PROVE  Event!LastOf(S) = {} \/ \E r \in S : Event!LastOf(S) = {r}
<1> DEFINE n == Len(reported)
           at == {i \in 1..n : reported[i] \in S}
<1>1. n \in Nat
  OBVIOUS
<1>2. Event!LastOf(S) = IF at = {} THEN {} ELSE {reported[Event!Max(at)]}
  BY DEF Event!LastOf
<1>3. at \in SUBSET (1..n) /\ \A i \in at : reported[i] \in S
  OBVIOUS
<1> HIDE DEF n, at
<1>4. at # {} => Event!Max(at) \in at
  BY <1>1, <1>3, MaxOf
<1>5. QED  BY <1>2, <1>3, <1>4

StateIf(b) == IF b THEN "VALID" ELSE "INVALID"

LEMMA TruthBasic ==
    ASSUME EventType, InEffect, NEW m \in Event!Basic
    PROVE  Event!Truth(m) = IF m.addr \notin g_known THEN "UNKNOWN"
                            ELSE StateIf(m.addr \in g_normal <=> m.normal)
<1> DEFINE last == Event!LastOf(OfOutput(m.addr))
<1>1. Event!Truth(m) = IF last = {} THEN "UNKNOWN"
                       ELSE IF \E r \in last : r.normal = m.normal THEN "VALID" ELSE "INVALID"
  <2>1. m.kind \notin {"off", "on"} /\ m.kind \notin {"stop", "go"}
    BY DEF Event!Basic
  <2>2. QED  BY <2>1, Zenon DEF Event!Truth, OfOutput
<1>2. m.addr \in Addrs /\ m.normal \in BOOLEAN
  BY DEF Event!Basic
<1>3. (m.addr \in g_known) <=> (last # {})
  BY <1>2 DEF InEffect, OutputInEffect
<1>4. \A r \in last : (r.normal <=> m.addr \in g_normal)
  BY <1>2 DEF InEffect, OutputInEffect
<1>5. last = {} \/ \E r \in OfOutput(m.addr) : last = {r}
  BY LastIn DEF EventType
<1> HIDE DEF last
<1>6. CASE last = {}
  BY <1>1, <1>3, <1>6
<1>7. CASE last # {}
  <2>1. PICK r \in OfOutput(m.addr) : last = {r}
    BY <1>5, <1>7
  <2>2. r.normal \in BOOLEAN /\ (r.normal <=> m.addr \in g_normal)
    BY <1>4, <2>1 DEF OfOutput, Event!Basic
  <2>3. (\E x \in last : x.normal = m.normal) <=> (m.addr \in g_normal <=> m.normal)
    BY <1>2, <2>1, <2>2
  <2>4. QED  BY <1>1, <1>3, <1>7, <2>3 DEF StateIf
<1>8. QED  BY <1>6, <1>7

LEMMA TruthEmergency ==
    ASSUME EventType, InEffect, NEW m \in Event!Emergency
    PROVE  /\ m.kind \in {"off", "on"} => Event!Truth(m) = StateIf(power_on <=> m.kind = "on")
           /\ m.kind \in {"stop", "go"} => Event!Truth(m) = StateIf(stop_held <=> m.kind = "stop")
<1> DEFINE on == \E r \in Event!LastOf(OfPower) : r.kind = "on"
           stop == \E r \in Event!LastOf(OfStop) : r.kind = "stop"
<1>1. m \notin Event!Basic
  BY KindsDiffer
<1>2. CASE m.kind \in {"off", "on"}
  <2>1. Event!Truth(m) = IF on = (m.kind = "on") THEN "VALID" ELSE "INVALID"
    BY <1>1, <1>2 DEF Event!Truth, OfPower
  <2>2. power_on <=> on
    BY DEF InEffect
  <2>3. on \in BOOLEAN /\ (m.kind = "on") \in BOOLEAN
    OBVIOUS
  <2> HIDE DEF on
  <2>4. on = (m.kind = "on") <=> (on <=> m.kind = "on")
    BY <2>3
  <2>5. QED  BY <1>2, <2>1, <2>2, <2>4 DEF StateIf
<1>3. CASE m.kind \in {"stop", "go"}
  <2>1. Event!Truth(m) = IF stop = (m.kind = "stop") THEN "VALID" ELSE "INVALID"
    BY <1>1, <1>3 DEF Event!Truth, OfStop
  <2>2. stop_held <=> stop
    BY DEF InEffect
  <2>3. stop \in BOOLEAN /\ (m.kind = "stop") \in BOOLEAN
    OBVIOUS
  <2> HIDE DEF stop
  <2>4. stop = (m.kind = "stop") <=> (stop <=> m.kind = "stop")
    BY <2>3
  <2>5. QED  BY <1>3, <2>1, <2>2, <2>4 DEF StateIf
<1>4. QED  BY <1>2, <1>3

LEMMA TruthOther ==
    ASSUME NEW m \in Event!Extended \cup Event!Stray
    PROVE  Event!Truth(m) = "UNKNOWN"
<1>1. m \notin Event!Basic /\ m.kind \notin {"off", "on"} /\ m.kind \notin {"stop", "go"}
  BY KindsDiffer DEF Event!Extended, Event!Stray
<1>2. QED  BY <1>1 DEF Event!Truth

\* A reply's event and state.
ReplyTrue(ev, st) ==
    /\ ev \in Nat /\ st \in Event!States
    /\ \A m \in Event!Reports : Event!EventOf(m) = ev => st = Event!Truth(m)

LEMMA TrainReply ==
    ASSUME EventType, InEffect
    PROVE  ReplyTrue(6, "UNKNOWN") /\ ReplyTrue(5, "UNKNOWN")
<1>1. ASSUME NEW m \in Event!Reports, Event!EventOf(m) = 6 \/ Event!EventOf(m) = 5
      PROVE  Event!Truth(m) = "UNKNOWN"
  <2> DEFINE ev == Event!EventOf(m)
  <2>1. IsBasic(m, ev) \/ IsExt(m, ev) \/ IsEmergency(m, ev) \/ IsStray(m, ev)
    BY ReportIs DEF EventType
  <2> HIDE DEF ev
  <2>2. ev = 6 \/ ev = 5
    BY <1>1 DEF ev
  <2>3. IsStray(m, ev)
    BY <2>1, <2>2 DEF IsBasic, IsExt, IsEmergency
  <2>4. QED  BY <2>3, TruthOther DEF IsStray
<1>2. QED  BY <1>1 DEF ReplyTrue, Event!States

LEMMA EmergencyReply ==
    ASSUME EventType, InEffect
    PROVE  /\ \A ev \in {3, 4} : ReplyTrue(ev, Event!power_event_state(ev))
           /\ \A ev \in {1, 2} : ReplyTrue(ev, Event!estop_event_state(ev))
<1>1. ASSUME NEW ev \in {1, 2, 3, 4}, NEW m \in Event!Reports, Event!EventOf(m) = ev
      PROVE  IsEmergency(m, ev)
  <2>1. IsBasic(m, ev) \/ IsExt(m, ev) \/ IsEmergency(m, ev) \/ IsStray(m, ev)
    BY <1>1, ReportIs DEF EventType
  <2>2. QED  BY <2>1 DEF IsBasic, IsExt, IsStray
<1>2. power_on \in BOOLEAN /\ stop_held \in BOOLEAN
  BY DEF EventType
<1>3. \A ev : Event!power_event_state(ev) = StateIf(ev = 4 <=> ~power_on)
  <2> TAKE ev
  <2> DEFINE p == ev = 4
             q == ~power_on
  <2>1. p \in BOOLEAN /\ q \in BOOLEAN
    OBVIOUS
  <2>2. Event!power_event_state(ev) = IF p = q THEN "VALID" ELSE "INVALID"
    BY DEF Event!power_event_state, Event!EMERGENCY_OFF
  <2> HIDE DEF p, q
  <2>3. Event!power_event_state(ev) = StateIf(p <=> q)
    BY <2>1, <2>2 DEF StateIf
  <2>4. QED  BY <2>3 DEF p, q
<1>4. \A ev : Event!estop_event_state(ev) = StateIf(ev = 2 <=> stop_held)
  <2> TAKE ev
  <2> DEFINE p == ev = 2
             q == stop_held
  <2>1. p \in BOOLEAN /\ q \in BOOLEAN
    BY <1>2
  <2>2. Event!estop_event_state(ev) = IF p = q THEN "VALID" ELSE "INVALID"
    BY DEF Event!estop_event_state, Event!EMERGENCY_STOP
  <2> HIDE DEF p, q
  <2>3. Event!estop_event_state(ev) = StateIf(p <=> q)
    BY <2>1, <2>2 DEF StateIf
  <2>4. QED  BY <2>3 DEF p, q
<1>5. ASSUME NEW ev \in {3, 4} PROVE ReplyTrue(ev, Event!power_event_state(ev))
  <2>1. ASSUME NEW m \in Event!Reports, Event!EventOf(m) = ev
        PROVE  StateIf(ev = 4 <=> ~power_on) = Event!Truth(m)
    <3>1. IsEmergency(m, ev)
      BY <1>1, <2>1
    <3>2. m \in Event!Emergency /\ m.kind \in {"off", "on"} /\ (m.kind = "on" <=> ev = 3)
      BY <3>1 DEF IsEmergency
    <3>3. Event!Truth(m) = StateIf(power_on <=> m.kind = "on")
      BY <3>2, TruthEmergency
    <3>4. (power_on <=> m.kind = "on") <=> (ev = 4 <=> ~power_on)
      BY <3>2
    <3>5. QED  BY <3>3, <3>4 DEF StateIf
  <2>2. QED  BY <1>3, <2>1 DEF ReplyTrue, StateIf, Event!States
<1>6. ASSUME NEW ev \in {1, 2} PROVE ReplyTrue(ev, Event!estop_event_state(ev))
  <2>1. ASSUME NEW m \in Event!Reports, Event!EventOf(m) = ev
        PROVE  StateIf(ev = 2 <=> stop_held) = Event!Truth(m)
    <3>1. IsEmergency(m, ev)
      BY <1>1, <2>1
    <3>2. m \in Event!Emergency /\ m.kind \in {"stop", "go"} /\ (m.kind = "stop" <=> ev = 2)
      BY <3>1 DEF IsEmergency
    <3>3. Event!Truth(m) = StateIf(stop_held <=> m.kind = "stop")
      BY <3>2, TruthEmergency
    <3>4. (stop_held <=> m.kind = "stop") <=> (ev = 2 <=> stop_held)
      BY <3>2
    <3>5. QED  BY <3>3, <3>4 DEF StateIf
  <2>2. QED  BY <1>4, <2>1 DEF ReplyTrue, StateIf, Event!States
<1>7. QED  BY <1>5, <1>6

LEMMA RangeReply ==
    ASSUME EventType, InEffect, NEW ev \in Nat, NEW i \in Event!find_range("cs", ev)
    PROVE  ReplyTrue(ev, Event!StateOf(g_ranges[i], ev))
<1>1. /\ g_ranges[1].st = "basic" /\ g_ranges[2].st = "basic" /\ g_ranges[3].st = "none"
      /\ i \in {1, 2, 3}
  <2>1. 1..3 = {1, 2, 3}
    OBVIOUS
  <2>2. i \in 1..3
    BY DEF Event!find_range, EventType, RangesAre
  <2>3. QED  BY <2>1, <2>2 DEF EventType, RangesAre, Ranged
<1>2. ASSUME NEW m \in Event!Reports, Event!EventOf(m) = ev
      PROVE  \/ IsBasic(m, ev) /\ i \in {1, 2}
             \/ IsExt(m, ev) /\ i = 3
  <2>1. IsBasic(m, ev) \/ IsExt(m, ev) \/ IsEmergency(m, ev) \/ IsStray(m, ev)
    BY <1>2, ReportIs DEF EventType
  <2>2. QED  BY <2>1 DEF IsBasic, IsExt, IsEmergency, IsStray, Activation
<1>3. CASE i \in {1, 2}
  <2> DEFINE isKnown == Event!Addr(ev) \in g_known
             p == Event!Addr(ev) \in g_normal
             q == Event!Normal(ev)
  <2>1. p \in BOOLEAN /\ q \in BOOLEAN
    BY DEF Event!Normal
  <2>2. Event!StateOf(g_ranges[i], ev) =
          IF ~isKnown THEN "UNKNOWN" ELSE IF p = q THEN "VALID" ELSE "INVALID"
    BY <1>1, <1>3 DEF Event!StateOf, Event!basic_state
  <2>3. ASSUME NEW m \in Event!Reports, Event!EventOf(m) = ev
        PROVE  Event!Truth(m) = IF ~isKnown THEN "UNKNOWN" ELSE StateIf(p <=> q)
    <3>1. IsBasic(m, ev)
      BY <1>2, <1>3, <2>3
    <3>2. m \in Event!Basic /\ Event!Addr(ev) = m.addr /\ (q <=> m.normal)
      BY <3>1 DEF IsBasic
    <3>3. Event!Truth(m) = IF m.addr \notin g_known THEN "UNKNOWN"
                           ELSE StateIf(m.addr \in g_normal <=> m.normal)
      BY <3>2, TruthBasic
    <3>4. (m.addr \in g_normal <=> m.normal) <=> (p <=> q)
      BY <3>2
    <3>5. QED  BY <3>2, <3>3, <3>4 DEF StateIf
  <2> HIDE DEF isKnown, p, q
  <2>4. QED  BY <2>1, <2>2, <2>3 DEF ReplyTrue, StateIf, Event!States
<1>4. CASE i = 3
  <2>1. Event!StateOf(g_ranges[i], ev) = "UNKNOWN"
    BY <1>1, <1>4 DEF Event!StateOf
  <2>2. ASSUME NEW m \in Event!Reports, Event!EventOf(m) = ev
        PROVE  Event!Truth(m) = "UNKNOWN"
    BY <1>2, <1>4, <2>2, TruthOther DEF IsExt
  <2>3. QED  BY <2>1, <2>2 DEF ReplyTrue, Event!States
<1>5. QED  BY <1>1, <1>3, <1>4

LEMMA TableReply ==
    ASSUME EventType, InEffect, NEW i \in 1..Len(g_table)
    PROVE  ReplyTrue(g_table[i].ev, Event!StateOf(g_table[i], g_table[i].ev))
<1>1. 1..5 = {1, 2, 3, 4, 5} /\ TableIs
  BY DEF EventType
<1>2. i \in {1, 2, 3, 4, 5}
  BY <1>1 DEF TableIs
<1>3. CASE i = 1
  <2>1. g_table[i].ev = 5 /\ g_table[i].st = "none"
    BY <1>1, <1>3 DEF TableIs, Registered
  <2>2. QED  BY <2>1, TrainReply DEF Event!StateOf
<1>4. CASE i = 2 \/ i = 3
  <2>1. g_table[i].ev \in {3, 4} /\ g_table[i].st = "power"
    BY <1>1, <1>4 DEF TableIs, Registered
  <2>2. QED  BY <2>1, EmergencyReply DEF Event!StateOf
<1>5. CASE i = 4 \/ i = 5
  <2>1. g_table[i].ev \in {1, 2} /\ g_table[i].st = "estop"
    BY <1>1, <1>5 DEF TableIs, Registered
  <2>2. QED  BY <2>1, EmergencyReply DEF Event!StateOf
<1>6. QED  BY <1>2, <1>3, <1>4, <1>5

\* The events of the Range Identified frames.
RangeEvents == {4096 * 4081 - 1, 4096 * 4065 - 1, 524288 * 33 - 1}

LEMMA RangeEventsAre ==
    ASSUME RangesAre
    PROVE  /\ Event!range_event(g_ranges[1]) = 4096 * 4081 - 1
           /\ Event!range_event(g_ranges[2]) = 4096 * 4065 - 1
           /\ Event!range_event(g_ranges[3]) = 524288 * 33 - 1
BY DEF RangesAre, Ranged, Event!range_event

ReplyOK(r) ==
    /\ r.ev \in Nat /\ r.st \in Event!States
    /\ r.role # "range" => ReplyTrue(r.ev, r.st)

LEMMA TrainReplyOK ==
    ASSUME EventType, InEffect, NEW n, NEW r \in Event!send_is_train(n)
    PROVE  ReplyOK(r) /\ r.role # "range"
<1>1. r.role = "producer" /\ r.ev = 6 /\ r.st = "UNKNOWN"
  BY DEF Event!send_is_train, Event!Reply, Event!IS_TRAIN
<1>2. QED  BY <1>1, TrainReply DEF ReplyOK, ReplyTrue

LEMMA TableReplyOK ==
    ASSUME EventType, InEffect, NEW n, NEW i \in 1..Len(g_table)
    PROVE  /\ ReplyOK(Event!send_identified(n, g_table[i], g_table[i].ev))
           /\ Event!send_identified(n, g_table[i], g_table[i].ev).role # "range"
<1> DEFINE e == g_table[i].ev
           s == Event!StateOf(g_table[i], e)
           r == Event!send_identified(n, g_table[i], e)
<1>1. ReplyTrue(e, s)
  BY TableReply
<1>2. r.ev = e /\ r.st = s /\ r.role # "range"
  BY DEF Event!send_identified, Event!Reply
<1> HIDE DEF e, s, r
<1>3. ReplyOK(r) /\ r.role # "range"
  BY <1>1, <1>2 DEF ReplyOK, ReplyTrue
<1>4. QED  BY <1>3 DEF r, e

\* emit_identities_for_node: a node says what is true of its events, and the
\* command station names its ranges.
LEMMA EmitOK ==
    ASSUME EventType, InEffect, NEW n
    PROVE  /\ \A r \in Event!emit_identities_for_node(n) :
                /\ ReplyOK(r)
                /\ r.role = "range" => n = "cs" /\ r.ev \in RangeEvents
           /\ n = "cs" => \A e \in RangeEvents : \E r \in Event!emit_identities_for_node(n) :
                r.role = "range" /\ r.ev = e
<1> DEFINE T == {Event!send_identified(n, g_table[i], g_table[i].ev) : i \in 1..Len(g_table)}
           R(i) == Event!Reply(n, "range", Event!range_event(g_ranges[i]), "UNKNOWN")
           G == {R(i) : i \in 1..Len(g_ranges)}
<1>1. Event!emit_identities_for_node(n) =
        Event!send_is_train(n) \cup (IF n # "cs" THEN {} ELSE T \cup G)
  BY DEF Event!emit_identities_for_node
<1>2. \A r \in T : ReplyOK(r) /\ r.role # "range"
  BY TableReplyOK
<1>3. \A r \in Event!send_is_train(n) : ReplyOK(r) /\ r.role # "range"
  BY TrainReplyOK
<1>4. G = {R(1), R(2), R(3)}
  <2>1. 1..3 = {1, 2, 3} /\ Len(g_ranges) = 3
    BY DEF EventType, RangesAre
  <2> HIDE DEF R
  <2>2. QED  BY <2>1
<1>5. /\ \A i : R(i).role = "range" /\ R(i).st = "UNKNOWN"
      /\ R(1).ev = 4096 * 4081 - 1 /\ R(2).ev = 4096 * 4065 - 1 /\ R(3).ev = 524288 * 33 - 1
  BY RangeEventsAre DEF EventType, Event!Reply
<1> HIDE DEF R, G, T
<1>6. \A r \in G : ReplyOK(r) /\ r.role = "range" /\ r.ev \in RangeEvents
  BY <1>4, <1>5 DEF ReplyOK, RangeEvents, Event!States
<1>7. \A e \in RangeEvents : \E r \in G : r.role = "range" /\ r.ev = e
  BY <1>4, <1>5 DEF RangeEvents
<1>8. QED  BY <1>1, <1>2, <1>3, <1>6, <1>7

\* handle_single_identify: the answer to one event.
LEMMA SingleOK ==
    ASSUME EventType, InEffect, NEW n, NEW ev \in Nat, NEW producer \in BOOLEAN,
           NEW r \in Event!handle_single_identify(n, ev, producer)
    PROVE  ReplyOK(r) /\ r.role # "range"
<1> DEFINE first == {i \in 1..Len(g_table) : n = "cs" /\ g_table[i].producer = producer
                                             /\ g_table[i].ev = ev}
           C == {Event!Reply(n, "consumer", ev, Event!StateOf(g_ranges[i], ev)) :
                   i \in IF producer THEN {} ELSE Event!find_range(n, ev)}
           f == Event!Min(first)
<1>1. \/ r \in Event!send_is_train(n)
      \/ first # {} /\ r = Event!send_identified(n, g_table[f], ev)
      \/ r \in C
  BY DEF Event!handle_single_identify
<1>2. first # {} => f \in first
  <2> SUFFICES ASSUME first # {} PROVE f \in first
    OBVIOUS
  <2>1. 1..5 = {1, 2, 3, 4, 5} /\ TableIs
    BY DEF EventType
  <2>2. \A i \in first : i \in {1, 2, 3, 4, 5} /\ g_table[i].ev = ev
    BY <2>1 DEF TableIs
  <2>3. PICK x \in first : TRUE
    OBVIOUS
  <2> HIDE DEF first
  <2>4. \A y \in first : y = x
    BY <2>1, <2>2, <2>3 DEF TableIs, Registered
  <2>5. x \in Nat /\ \A y \in first : x <= y
    BY <2>2, <2>3, <2>4
  <2>6. QED  BY <2>3, <2>5 DEF Event!Min
<1>3. \A i \in first : i \in 1..Len(g_table) /\ g_table[i].ev = ev
  OBVIOUS
<1>4. ASSUME r \in C PROVE ReplyOK(r) /\ r.role # "range"
  <2>1. PICK i \in Event!find_range(n, ev) :
          r = Event!Reply(n, "consumer", ev, Event!StateOf(g_ranges[i], ev))
    BY <1>4
  <2>2. i \in Event!find_range("cs", ev)
    BY DEF Event!find_range
  <2> DEFINE s == Event!StateOf(g_ranges[i], ev)
  <2>3. ReplyTrue(ev, s)
    BY <2>2, RangeReply
  <2> HIDE DEF s
  <2>4. r.ev = ev /\ r.st = s /\ r.role = "consumer"
    BY <2>1 DEF Event!Reply, s
  <2>5. QED  BY <2>3, <2>4 DEF ReplyOK, ReplyTrue
<1> HIDE DEF first, C, f
<1>5. CASE first # {} /\ r = Event!send_identified(n, g_table[f], ev)
  <2>1. f \in 1..Len(g_table) /\ g_table[f].ev = ev
    BY <1>2, <1>3, <1>5
  <2>2. r = Event!send_identified(n, g_table[f], g_table[f].ev)
    BY <1>5, <2>1
  <2>3. QED  BY <2>1, <2>2, TableReplyOK
<1>6. QED  BY <1>1, <1>4, <1>5, TrainReplyOK

-----------------------------------------------------------------------------
(* Events: the ranges a node names, and the invariant.                     *)

LEMMA SpanSizes ==
    /\ Event!SpanSize(4096 * 4081 - 1) = 4096
    /\ Event!SpanSize(4096 * 4065 - 1) = 4096
    /\ Event!SpanSize(524288 * 33 - 1) = 524288
<1> DEFINE P(e) == {p \in Event!PowersOf2 : (e + (e % 2)) % p = 0}
<1>1. ASSUME NEW S, NEW x \in S, S \subseteq Nat, \A y \in S : x >= y
      PROVE  Event!Max(S) = x
  <2>1. \A y \in S : y >= x => y = x
    BY <1>1
  <2>2. QED  BY <1>1, <2>1 DEF Event!Max
<1>2. ASSUME NEW N \in Nat, N = 4096 * 4081 \/ N = 4096 * 4065
      PROVE  /\ N % 4096 = 0
             /\ \A p \in Event!PowersOf2 : p \in Nat /\ (N % p = 0 => 4096 >= p)
  BY <1>2 DEF Event!PowersOf2
<1>3. LET N == 524288 * 33
      IN  /\ N % 524288 = 0
          /\ \A p \in Event!PowersOf2 : p \in Nat /\ (N % p = 0 => 524288 >= p)
  BY DEF Event!PowersOf2
<1>4. 4096 \in Event!PowersOf2 /\ 524288 \in Event!PowersOf2
  BY DEF Event!PowersOf2
<1>5. ASSUME NEW e \in Nat, e = 4096 * 4081 - 1 \/ e = 4096 * 4065 - 1
      PROVE  Event!SpanSize(e) = 4096
  <2>1. e + (e % 2) \in Nat /\ (e + (e % 2) = 4096 * 4081 \/ e + (e % 2) = 4096 * 4065)
    BY <1>5
  <2>2. 4096 \in P(e) /\ P(e) \subseteq Nat /\ \A y \in P(e) : 4096 >= y
    BY <1>2, <1>4, <2>1
  <2>3. Event!SpanSize(e) = Event!Max(P(e))
    BY DEF Event!SpanSize
  <2> HIDE DEF P
  <2>4. QED  BY <1>1, <2>2, <2>3
<1>6. Event!SpanSize(524288 * 33 - 1) = 524288
  <2> DEFINE e == 524288 * 33 - 1
  <2>1. e + (e % 2) = 524288 * 33
    OBVIOUS
  <2>2. Event!SpanSize(e) = Event!Max(P(e))
    BY DEF Event!SpanSize
  <2> HIDE DEF e
  <2>3. 524288 \in P(e) /\ P(e) \subseteq Nat /\ \A y \in P(e) : 524288 >= y
    BY <1>3, <1>4, <2>1
  <2> HIDE DEF P
  <2>4. Event!SpanSize(e) = 524288
    BY <1>1, <2>2, <2>3
  <2>5. QED  BY <2>4 DEF e
<1>7. QED  BY <1>5, <1>6

\* The span of a range's event is the range.
LEMMA SpanIs ==
    ASSUME NEW ev \in Nat
    PROVE  /\ ev \in Event!Span(4096 * 4081 - 1) <=> ev - (ev % 4096) = 4096 * 4080
           /\ ev \in Event!Span(4096 * 4065 - 1) <=> ev - (ev % 4096) = 4096 * 4064
           /\ ev \in Event!Span(524288 * 33 - 1) <=> ev - (ev % 524288) = 524288 * 32
BY SpanSizes DEF Event!Span

LEMMA EventsAreNumbers == RangesAre => Event!Events \subseteq Nat
<1>1. ASSUME RangesAre, NEW m \in Event!Reports PROVE Event!EventOf(m) \in Nat
  <2> DEFINE ev == Event!EventOf(m)
  <2>1. IsBasic(m, ev) \/ IsExt(m, ev) \/ IsEmergency(m, ev) \/ IsStray(m, ev)
    BY <1>1, ReportIs
  <2> HIDE DEF ev
  <2>2. ev \in Nat
    BY <2>1 DEF IsBasic, IsExt, IsEmergency, IsStray
  <2>3. QED  BY <2>2 DEF ev
<1>2. QED  BY <1>1 DEF Event!Events, Event!IS_PROGRAMMING_TRACK

Claims == {r.ev : r \in {q \in replies : q.role = "range"}}

LEMMA ClaimsAreConsumed ==
    ASSUME RangesAre, Claims = {} \/ Claims = RangeEvents
    PROVE  Event!ClaimedIsConsumed
<1>1. ASSUME NEW e \in Event!Events
      PROVE  (\E c \in RangeEvents : e \in Event!Span(c)) <=> Event!find_range("cs", e) # {}
  <2>1. e \in Nat
    BY EventsAreNumbers
  <2>2. (\E c \in RangeEvents : e \in Event!Span(c)) <=>
          \/ e - (e % 4096) = 4096 * 4080
          \/ e - (e % 4096) = 4096 * 4064
          \/ e - (e % 524288) = 524288 * 32
    BY <2>1, SpanIs DEF RangeEvents
  <2>3. Event!find_range("cs", e) # {} <=>
          \/ e - (e % 4096) = 4096 * 4080
          \/ e - (e % 4096) = 4096 * 4064
          \/ e - (e % 524288) = 524288 * 32
    BY <2>1, FindRange
  <2>4. QED  BY <2>2, <2>3
<1>2. QED  BY <1>1 DEF Event!ClaimedIsConsumed, Claims

RepliesHold ==
    /\ \A r \in replies : ReplyOK(r)
    /\ Claims = {} \/ Claims = RangeEvents

EventInv ==
    /\ EventType /\ InEffect
    /\ HandledOnce /\ SentWere /\ ShownWere
    /\ RepliesHold

LEMMA EventInit == Event!Init => EventInv
<1> SUFFICES ASSUME Event!Init PROVE EventInv
  OBVIOUS
<1>1. TableIs /\ RangesAre
  BY TableInit, RangesInit DEF Event!Init
<1>2. reported = <<>> /\ replies = {} /\ g_known = {} /\ g_normal = {} /\ confirmed = {}
      /\ power_on = FALSE /\ stop_held = FALSE
      /\ sent = [a \in Addrs |-> {}] /\ aspect = [a \in Addrs |-> {}]
  BY DEF Event!Init
<1>3. EventType
  <2>1. <<>> \in Seq(Event!Reports)
    OBVIOUS
  <2>2. sent \in [Addrs -> SUBSET Packet] /\ aspect \in [Addrs -> SUBSET Aspects]
    BY <1>2
  <2>3. QED  BY <1>1, <1>2, <2>1, <2>2 DEF EventType
<1>4. \A S : Event!LastOf(S) = {}
  <2>1. 1..0 = {} /\ Len(reported) = 0
    BY <1>2
  <2>2. QED  BY <2>1 DEF Event!LastOf
<1>5. InEffect
  BY <1>2, <1>4 DEF InEffect, OutputInEffect
<1>6. HandledOnce /\ SentWere /\ ShownWere
  BY <1>2 DEF HandledOnce, SentWere, ShownWere
<1>7. RepliesHold
  BY <1>2 DEF RepliesHold, Claims
<1>8. QED  BY <1>3, <1>5, <1>6, <1>7 DEF EventInv

\* A step that reports nothing leaves the state and its truth alone.
LEMMA QuietStep ==
    ASSUME EventType, InEffect, HandledOnce, SentWere, ShownWere,
           UNCHANGED <<g_table, g_ranges, g_known, g_normal, sent, aspect, power_on,
                       stop_held, reported, handled>>,
           confirmed' \subseteq EventTrains
    PROVE  /\ EventType' /\ InEffect' /\ HandledOnce' /\ SentWere' /\ ShownWere'
           /\ \A r : ReplyOK(r)' <=> ReplyOK(r)
<1>1. TableIs' /\ RangesAre'
  <2>1. TableIs /\ g_table' = g_table /\ RangesAre /\ g_ranges' = g_ranges
    BY DEF EventType
  <2>2. TableIs'
    BY ONLY <2>1, Zenon DEF TableIs
  <2>3. RangesAre'
    BY ONLY <2>1, SMT DEF RangesAre
  <2>4. QED  BY <2>2, <2>3
<1>2. EventType'
  BY <1>1 DEF EventType
<1>3. \A S : Event!LastOf(S)' = Event!LastOf(S)
  BY DEF Event!LastOf
<1>4. InEffect'
  BY <1>3 DEF InEffect, OutputInEffect
<1>5. HandledOnce' /\ SentWere' /\ ShownWere'
  BY DEF HandledOnce, SentWere, ShownWere
<1>6. \A m : Event!Truth(m)' = Event!Truth(m)
  BY <1>3 DEF Event!Truth
<1>7. \A r : ReplyOK(r)' <=> ReplyOK(r)
  BY <1>6 DEF ReplyOK, ReplyTrue
<1>8. QED  BY <1>2, <1>4, <1>5, <1>7

LEMMA EmittedHold ==
    ASSUME EventType, InEffect, NEW ns,
           replies' = UNION {Event!emit_identities_for_node(n) : n \in ns}
    PROVE  /\ \A r \in replies' : ReplyOK(r)
           /\ Claims' = {} \/ Claims' = RangeEvents
<1>1. \A r : r \in replies' <=> \E n \in ns : r \in Event!emit_identities_for_node(n)
  OBVIOUS
<1>2. \A r \in replies' : ReplyOK(r) /\ (r.role = "range" => "cs" \in ns /\ r.ev \in RangeEvents)
  BY <1>1, EmitOK
<1>3. Claims' = {r.ev : r \in {q \in replies' : q.role = "range"}}
  BY DEF Claims
<1>4. "cs" \in ns => \A e \in RangeEvents : \E r \in replies' : r.role = "range" /\ r.ev = e
  BY <1>1, EmitOK
<1>5. CASE "cs" \in ns
  <2>1. \A e : e \in Claims' <=> \E r \in replies' : r.role = "range" /\ r.ev = e
    BY <1>3
  <2>2. \A e : e \in Claims' <=> e \in RangeEvents
    BY <1>2, <1>4, <1>5, <2>1
  <2> HIDE DEF Claims
  <2>3. QED  BY <1>2, <2>2
<1>6. CASE "cs" \notin ns
  BY <1>2, <1>3, <1>6
<1>7. QED  BY <1>5, <1>6

LEMMA EventStep == ASSUME EventInv, Event!Next PROVE EventInv'
<1>1. EventType /\ InEffect /\ HandledOnce /\ SentWere /\ ShownWere /\ RepliesHold
  BY DEF EventInv
<1>2. ASSUME NEW m \in Event!Reports, Event!lcc_events_handle_report(m)
      PROVE  EventInv'
  <2>1. EventType' /\ InEffect' /\ HandledOnce' /\ SentWere' /\ ShownWere'
    BY <1>1, <1>2, TypeAfterReport, EffectAfterReport, ActedAfterReport
  <2>2. replies' = {}
    BY <1>2 DEF Event!lcc_events_handle_report
  <2>3. RepliesHold'
    BY <2>2 DEF RepliesHold, Claims
  <2>4. QED  BY <2>1, <2>3 DEF EventInv
<1>3. ASSUME UNCHANGED <<g_table, g_ranges, g_known, g_normal, sent, aspect, power_on,
                         stop_held, reported, handled>>,
             confirmed' \subseteq EventTrains,
             \A r \in replies' : ReplyOK(r), Claims' = {} \/ Claims' = RangeEvents
      PROVE  EventInv'
  <2>1. /\ EventType' /\ InEffect' /\ HandledOnce' /\ SentWere' /\ ShownWere'
        /\ \A r : ReplyOK(r)' <=> ReplyOK(r)
    BY <1>1, <1>3, QuietStep
  <2>2. RepliesHold'
    BY <1>3, <2>1 DEF RepliesHold
  <2>3. QED  BY <2>1, <2>2 DEF EventInv
<1>4. ASSUME NEW ns, Event!identify_events(ns)
      PROVE  EventInv'
  <2>1. /\ UNCHANGED <<g_table, g_ranges, g_known, g_normal, sent, aspect, power_on,
                       stop_held, reported, handled>>
        /\ confirmed' \subseteq EventTrains
    BY <1>1, <1>4 DEF Event!identify_events, Event!tables, Event!accessory, EventType
  <2>2. replies' = UNION {Event!emit_identities_for_node(n) : n \in ns}
    BY <1>4 DEF Event!identify_events
  <2>3. /\ \A r \in replies' : ReplyOK(r)
        /\ Claims' = {} \/ Claims' = RangeEvents
    BY <1>1, <2>2, EmittedHold
  <2>4. QED  BY <1>3, <2>1, <2>3
<1>5. ASSUME NEW ev \in Event!Events, NEW producer \in BOOLEAN, Event!identify(ev, producer)
      PROVE  EventInv'
  <2>1. /\ UNCHANGED <<g_table, g_ranges, g_known, g_normal, sent, aspect, power_on,
                       stop_held, reported, handled>>
        /\ confirmed' \subseteq EventTrains
    BY <1>1, <1>5 DEF Event!identify, Event!tables, Event!accessory, EventType
  <2>2. \A r \in replies' : \E n \in Event!Online :
          r \in Event!handle_single_identify(n, ev, producer)
    BY <1>5 DEF Event!identify
  <2>3. ev \in Nat
    BY <1>1, EventsAreNumbers DEF EventType
  <2>4. \A r \in replies' : ReplyOK(r) /\ r.role # "range"
    BY <1>1, <2>2, <2>3, SingleOK
  <2>5. Claims' = {}
    BY <2>4 DEF Claims
  <2>6. QED  BY <1>3, <2>1, <2>4, <2>5
<1>6. ASSUME NEW n \in EventTrains, Event!lcc_events_announce(n)
      PROVE  EventInv'
  <2>1. /\ UNCHANGED <<g_table, g_ranges, g_known, g_normal, sent, aspect, power_on,
                       stop_held, reported, handled>>
        /\ confirmed' \subseteq EventTrains
    BY <1>1, <1>6 DEF Event!lcc_events_announce, Event!tables, Event!accessory, EventType
  <2> DEFINE emitted(k) == Event!emit_identities_for_node(k)
  <2>2. replies' = emitted(n)
    BY <1>6 DEF Event!lcc_events_announce
  <2> HIDE DEF emitted
  <2>3. replies' = UNION {emitted(k) : k \in {n}}
    BY <2>2
  <2>4. /\ \A r \in replies' : ReplyOK(r)
        /\ Claims' = {} \/ Claims' = RangeEvents
    <3>1. replies' = UNION {Event!emit_identities_for_node(k) : k \in {n}}
      BY <2>3 DEF emitted
    <3>2. QED  BY <1>1, <3>1, EmittedHold
  <2>5. QED  BY <1>3, <2>1, <2>4
<1>7. \/ \E m \in Event!Reports : Event!lcc_events_handle_report(m)
      \/ \E ns : Event!identify_events(ns)
      \/ \E ev \in Event!Events : \E producer \in BOOLEAN : Event!identify(ev, producer)
      \/ \E n \in EventTrains : Event!lcc_events_announce(n)
  BY DEF Event!Next, Event!lcc_events_handle_frame
<1>8. QED  BY <1>2, <1>4, <1>5, <1>6, <1>7

LEMMA EventStays == ASSUME EventInv, UNCHANGED event_vars PROVE EventInv'
<1>1. UNCHANGED <<g_table, g_ranges, g_known, g_normal, sent, aspect, power_on,
                  stop_held, reported, handled, confirmed, replies>>
  BY DEF event_vars
<1>2. EventType /\ InEffect /\ HandledOnce /\ SentWere /\ ShownWere /\ RepliesHold
  BY DEF EventInv
<1>3. /\ EventType' /\ InEffect' /\ HandledOnce' /\ SentWere' /\ ShownWere'
      /\ \A r : ReplyOK(r)' <=> ReplyOK(r)
  BY <1>1, <1>2, QuietStep DEF EventType
<1>4. RepliesHold'
  BY <1>1, <1>2, <1>3 DEF RepliesHold, Claims
<1>5. QED  BY <1>3, <1>4 DEF EventInv

LEMMA EventTypes == EventInv => Event!TypeOK
BY DEF EventInv, EventType, TableIs, RangesAre, RepliesHold, ReplyOK, Event!TypeOK

LEMMA EventSound == EventInv => EventsAreTrue
<1> SUFFICES ASSUME EventInv PROVE EventsAreTrue
  OBVIOUS
<1>1. Event!RepliesAreTrue
  <2>1. \A r \in replies : ReplyOK(r)
    BY DEF EventInv, RepliesHold
  <2>2. QED  BY <2>1 DEF Event!RepliesAreTrue, ReplyOK, ReplyTrue
<1>2. Event!ClaimedIsConsumed
  BY ClaimsAreConsumed DEF EventInv, RepliesHold, EventType
<1>3. Event!ReportsAreActed
  BY ActedParts DEF EventInv
<1>4. QED  BY <1>1, <1>2, <1>3 DEF EventsAreTrue

-----------------------------------------------------------------------------
(* All the components.                                                     *)

AllInv == AliasInv /\ SearchInv /\ DriveInv /\ EventInv

LEMMA AllInitially == AllInit => AllInv
<1> SUFFICES ASSUME AllInit PROVE AllInv
  OBVIOUS
<1>1. Init /\ Search!Init /\ Drive!Init /\ Event!Init
  BY DEF AllInit
<1>2. alias_mtx = FALSE /\ connected = FALSE /\ alias_state = [n \in Nodes |-> "IDLE"]
  BY <1>1 DEF Init
<1>3. Serialized
  BY <1>2 DEF Serialized, Reserves
<1>4. HostKnowsAliases
  BY <1>2 DEF HostKnowsAliases
<1>5. AliasInv
  BY <1>1, <1>3, <1>4, AliasTypeInit, TriedInit DEF AliasInv
<1>6. QED  BY <1>1, <1>5, SearchInit, DriveInit, EventInit DEF AllInv

LEMMA AliasStep == ASSUME AliasInv, Next PROVE AliasInv'
<1>1. AliasType /\ Serialized /\ Tried /\ (~QuickReplug => HostKnowsAliases)
  BY DEF AliasInv
<1>2. AliasType'
  BY <1>1, AliasTypeStep
<1>3. Serialized'
  BY <1>1, SerializedStep
<1>4. Tried'
  BY <1>1, <1>2, TriedStep
<1>5. ~QuickReplug => HostKnowsAliases'
  BY <1>1, HostStep
<1>6. QED  BY <1>2, <1>3, <1>4, <1>5 DEF AliasInv

LEMMA AllStep == AllInv /\ [AllNext]_all_vars => AllInv'
<1> SUFFICES ASSUME AllInv, [AllNext]_all_vars PROVE AllInv'
  OBVIOUS
<1>1. AliasInv /\ SearchInv /\ DriveInv /\ EventInv
  BY DEF AllInv
<1>2. /\ Next \/ UNCHANGED vars
      /\ Search!Next \/ UNCHANGED search_vars
      /\ Drive!Next \/ UNCHANGED train_vars
      /\ Event!Next \/ UNCHANGED event_vars
  BY DEF AllNext, all_vars
<1>3. AliasInv'
  BY <1>1, <1>2, AliasStep, AliasStays
<1>4. SearchInv'
  BY <1>1, <1>2, SearchStep, SearchStays
<1>5. DriveInv'
  BY <1>1, <1>2, DriveStep, DriveStays
<1>6. EventInv'
  BY <1>1, <1>2, EventStep, EventStays
<1>7. QED  BY <1>3, <1>4, <1>5, <1>6 DEF AllInv

\* The inductive invariant of the nodes, whichever component runs.
THEOREM Inductive == AllSpec => []AllInv
BY AllInitially, AllStep, PTL DEF AllSpec

\* Every variable of every component keeps its type, and the tables their size.
THEOREM TypeCorrect == AllSpec => []AllTypeOK
<1>1. AllInv => AllTypeOK
  BY SearchTypes, DriveTypes, EventTypes DEF AllInv, AliasInv, AliasType, AllTypeOK
<1>2. QED  BY <1>1, Inductive, PTL

\* lcc_alias_tick and handle_alias_frame: while no node has used up its
\* retries, the mutex is held exactly while one node reserves, and one at a
\* time does; an alias that a frame dispatched during its reservation defended is
\* not claimed, whatever the order of frames, ticks and conflicts.
THEOREM Reservations == AllSpec => [](ReservationsSerialized /\ ObjectionsRespected)
<1>1. AllInv => ReservationsSerialized /\ ObjectionsRespected
  BY SerializedMeans, TriedMeans DEF AllInv, AliasInv
<1>2. QED  BY <1>1, Inductive, PTL

\* The same, and a connected host knows every confirmed alias, unless it went
\* and came back between two passes of the task (QuickReplug).
THEOREM Aliased ==
    ASSUME ~QuickReplug
    PROVE  AllSpec => []AliasesAreSound
<1>1. AllInv => AliasesAreSound
  BY SerializedMeans, TriedMeans DEF AllInv, AliasInv, AliasesAreSound
<1>2. QED  BY <1>1, Inductive, PTL

\* train_allocator and lcc_train_search_handle_event: any sequence of
\* searches and verifications leaves one train per address, found under the
\* search event made from its address.
THEOREM Searched == AllSpec => []SearchesFindTrains
<1>1. AllInv => SearchesFindTrains
  BY SearchSound DEF AllInv
<1>2. QED  BY <1>1, Inductive, PTL

\* lcc_traction.c: in any web of consists a command reaches each train once,
\* slaves do what their flags say, and the node, the engine and the answer
\* to a query agree.
THEOREM Consists == AllSpec => []ConsistsObey
<1>1. AllInv => ConsistsObey
  BY DriveSound DEF AllInv
<1>2. QED  BY <1>1, Inductive, PTL

\* handle_controller_config: the throttle that loses a train is told, by the
\* alias it is known under, and no other is.
THEOREM Controllers == AllSpec => []ControllersAreTold
<1>1. AllInv => ControllersAreTold
  BY DriveSound DEF AllInv
<1>2. QED  BY <1>1, Inductive, PTL

\* lcc_events.c, lcc_accessory.c: after any reports from any number of
\* producers, for any outputs and aspects, what the nodes say of an event is
\* what the reports left in effect; the ranges they announce are those they
\* consume; a report reaches one handler, and packets are what it asked for.
THEOREM EventsTrue == AllSpec => []EventsAreTrue
<1>1. AllInv => EventsAreTrue
  BY EventSound DEF AllInv
<1>2. QED  BY <1>1, Inductive, PTL

=============================================================================
