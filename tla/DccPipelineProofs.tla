------------------------- MODULE DccPipelineProofs -------------------------
(***************************************************************************)
(* Proofs about module DccPipeline, for every set of addresses and         *)
(* throttle steps, every size of the pool, the queues and the loco table   *)
(* and any number of commands and timeouts.                                *)
(***************************************************************************)
EXTENDS DccPipeline, FiniteSetTheorems, TLAPS

\* Pushing onto the heap makes it at most one larger.
LEMMA PushCardinality ==
    ASSUME NEW S, IsFiniteSet(S), NEW x
    PROVE  /\ IsFiniteSet(S \union {x})
           /\ Cardinality(S \union {x}) \in Nat
           /\ Cardinality(S \union {x}) <= Cardinality(S) + 1
<1>1. Cardinality(S) \in Nat /\ IsFiniteSet(S \union {x})
  BY FS_CardinalityType, FS_AddElement
<1>2. x \in S => S \union {x} = S
  OBVIOUS
<1>3. QED  BY <1>1, <1>2, FS_AddElement, FS_CardinalityType

\* Removing from the heap makes it smaller.
LEMMA PopCardinality ==
    ASSUME NEW S, IsFiniteSet(S), NEW x \in S
    PROVE  /\ IsFiniteSet(S \ {x})
           /\ Cardinality(S \ {x}) \in Nat
           /\ Cardinality(S \ {x}) = Cardinality(S) - 1
<1>1. Cardinality(S) \in Nat /\ Cardinality(S \ {x}) = Cardinality(S) - 1
      /\ IsFiniteSet(S \ {x})
  BY FS_CardinalityType, FS_RemoveElement
<1>2. QED  BY <1>1, FS_CardinalityType

(* The data *)

\* Every speed byte has its direction bit and seven bits of speed, and the
\* e-stop step of a direction does not move a loco.
LEMMA SpeedByte ==
    ASSUME NEW step \in SpeedBytes
    PROVE  /\ Direction(step) \in SpeedBytes
           /\ estop_step(step) \in SpeedBytes
           /\ ~IsMoving(estop_step(step))
           /\ estop_step(Direction(step)) \in SpeedBytes
           /\ ~IsMoving(estop_step(Direction(step)))
BY DEF SpeedBytes, Direction, Speed, estop_step, IsMoving

\* The packets the engine builds are packets.
LEMMA PacketTypes ==
    ASSUME NEW a \in Addrs, NEW step \in SpeedBytes
    PROVE  /\ \A prio \in Priorities : SpeedPacket(a, step, prio) \in Packets
           /\ build_throttle_packet(a, step) \in Packets
           /\ BroadcastEstop \in Packets
           /\ \A id \in SpeedBytes : CommandPacket(a, id, Repeats) \in Packets
BY BoundsAssumption
   DEF Packets, SpeedPacket, build_throttle_packet, BroadcastEstop, CommandPacket,
       Priorities, PRIORITY_LOW, PRIORITY_HIGH, PRIORITY_EMERGENCY, SpeedBytes

\* NULL is not a packet.
LEMMA NoPacketIsNone == NoPacket \notin Packets
BY DEF NoPacket, Packets

\* The loco table after find_or_create_loco.
LEMMA TableType ==
    ASSUME EngineTypeOK, NEW a \in Addrs
    PROVE  find_or_create_loco(a) \in [Addrs -> LocoStates]
<1>1. NewLoco \in LocoStates
  BY DEF NewLoco, LocoStates, SpeedBytes
<1>2. QED  BY <1>1 DEF find_or_create_loco, EngineTypeOK

-----------------------------------------------------------------------------
(* Types *)

\* What TypeOK needs to be inductive: a task has a packet in hand exactly
\* while it is allocating or sending, the priority queue task pops from a
\* heap that is not empty, and the top of such a heap is in it.
HandsFull ==
    \A t \in Tasks : IF pc[t] \in {"alloc", "send"} THEN hand[t] \in Packets
                                                    ELSE hand[t] = NoPacket

TopInHeap ==
    /\ heap # {} => top \in heap
    /\ pc["pqueue"] = "pop" => heap # {}

Forgets == pc["lcc"] = "forget" => forgetting \in Addrs

HandsOK == HandsFull /\ TopInHeap /\ Forgets

TInv == TypeOK /\ HandsOK

\* The engine's state keeps its type.
LEMMA EngineStep ==
    ASSUME TInv, [Next]_vars
    PROVE  EngineTypeOK'
<1> EngineTypeOK /\ TaskTypeOK
  BY DEF TInv, TypeOK
<1> USE BoundsAssumption
<1>1. ASSUME NEW a \in Addrs, NEW step \in Throttles, dcc_set_throttle(a, step)
      PROVE  EngineTypeOK'
  <2>1. step \in SpeedBytes
    BY ThrottlesAssumption DEF SpeedBytes
  <2>2. find_or_create_loco(a) \in [Addrs -> LocoStates]
    BY TableType
  <2>3. locos' \in [Addrs -> LocoStates]
    BY <1>1, <2>1, <2>2 DEF dcc_set_throttle, LocoStates, EngineTypeOK
  <2>4. QED  BY <1>1, <2>1, <2>3 DEF dcc_set_throttle, EngineTypeOK
<1>2. ASSUME NEW a \in Addrs, NEW g \in Groups, NEW on \in BOOLEAN, dcc_set_function(a, g, on)
      PROVE  EngineTypeOK'
  <2>1. find_or_create_loco(a) \in [Addrs -> LocoStates]
    BY TableType
  <2> DEFINE table == find_or_create_loco(a)
             fns == IF on THEN table[a].functions \union {g} ELSE table[a].functions \ {g}
             flags == IF fns # table[a].functions
                      THEN fn_update_group_flags(table[a].group_flags, g)
                      ELSE table[a].group_flags
  <2>a. locos' = IF table[a].active
                 THEN [table EXCEPT ![a].functions = fns, ![a].group_flags = flags]
                 ELSE locos
    BY <1>2 DEF dcc_set_function
  <2>b. table[a] \in LocoStates /\ table[a].functions \in SUBSET Groups
        /\ table[a].group_flags \in SUBSET Groups
    BY <2>1 DEF LocoStates
  <2>c. fns \in SUBSET Groups /\ flags \in SUBSET Groups
    BY <2>b DEF fn_update_group_flags
  <2> HIDE DEF table, fns, flags
  <2>2. locos' \in [Addrs -> LocoStates]
    <3>1. table \in [Addrs -> LocoStates]  BY <2>1 DEF table
    <3>2. QED  BY <2>a, <2>b, <2>c, <3>1 DEF LocoStates, EngineTypeOK
  <2>3. QED  BY <1>2, <2>2 DEF dcc_set_function, EngineTypeOK
<1>3. ASSUME NEW a \in Addrs, dcc_ensure_loco(a) PROVE EngineTypeOK'
  BY <1>3, TableType DEF dcc_ensure_loco, EngineTypeOK
<1>4. ASSUME NEW a \in Addrs, dcc_emergency_stop(a) \/ dcc_forget_loco(a)
      PROVE  EngineTypeOK'
  <2>1. /\ StoreEmergencyStop(a) /\ loop_state' = loop_state /\ estop_all' = estop_all
    BY <1>4 DEF dcc_emergency_stop, dcc_forget_loco
  <2>2. locos[a].speed_step \in SpeedBytes
    BY DEF EngineTypeOK, LocoStates
  <2>3. Direction(locos[a].speed_step) \in SpeedBytes
    BY <2>2, SpeedByte
  <2>4. locos' \in [Addrs -> LocoStates]
    BY <2>1, <2>3 DEF StoreEmergencyStop, LocoStates, EngineTypeOK
  <2>5. last_throttle' \in [valid: BOOLEAN, address: Addrs \union {None}, speed_step: SpeedBytes]
    BY <2>1, <2>3 DEF StoreEmergencyStop, StopLastThrottle, EngineTypeOK
  <2>6. QED  BY <2>1, <2>4, <2>5 DEF EngineTypeOK
<1>5. CASE dcc_forget_loco_finish
  <2>1. locos' \in [Addrs -> LocoStates]
    <3>1. locos' = [locos EXCEPT ![forgetting].active = FALSE]
      BY <1>5 DEF dcc_forget_loco_finish
    <3>2. locos \in [Addrs -> LocoStates]
      BY DEF EngineTypeOK
    <3>3. QED  BY <3>1, <3>2 DEF LocoStates
  <2>2. QED  BY <1>5, <2>1 DEF dcc_forget_loco_finish, EngineTypeOK
<1>6. CASE dcc_emergency_stop_all \/ dcc_clear_emergency_stop_all
  BY <1>6 DEF dcc_emergency_stop_all, dcc_clear_emergency_stop_all, EngineTypeOK
<1>7. CASE dcc_update_finish
  <2>1. loop_state' \in 0..NumGroups
    BY <1>7 DEF dcc_update_finish, EngineTypeOK
  <2>2. QED  BY <1>7, <2>1 DEF dcc_update_finish, EngineTypeOK
<1>8. ASSUME UNCHANGED engine_vars PROVE EngineTypeOK'
  BY <1>8 DEF engine_vars, EngineTypeOK
<1>9. ASSUME NEW t \in Senders, Sender(t) PROVE UNCHANGED engine_vars
  BY <1>9 DEF Sender, new_packet, send_packet, send_packet_timeout
<1>10. ASSUME NEW a \in Addrs, dcc_send_command(a, 1) \/ dcc_pom_read_byte(a, 2)
       PROVE  UNCHANGED engine_vars
  BY <1>10 DEF dcc_send_command, dcc_pom_read_byte
<1>11. ASSUME dcc_update \/ \E a \in Addrs : send_reminder_packets(a)
       PROVE  UNCHANGED engine_vars
  BY <1>11 DEF dcc_update, send_reminder_packets
<1>12. ASSUME PQueue \/ Wavegen PROVE UNCHANGED engine_vars
  BY <1>12 DEF PQueue, pqueue_drain, pqueue_drained, pqueue_pop_copy, pqueue_pop_nothing,
               pqueue_pop_last, pqueue_send, pqueue_send_timeout,
               Wavegen, wavegen_receive, wavegen_send
<1>13. UNCHANGED vars => UNCHANGED engine_vars
  BY DEF vars
<1>14. "lcc" \in Senders /\ "railcom" \in Senders /\ "reminder" \in Senders
  BY DEF Senders
<1>15. QED
  BY <1>1, <1>2, <1>3, <1>4, <1>5, <1>6, <1>7, <1>8, <1>9, <1>10, <1>11, <1>12, <1>13, <1>14
     DEF Next, Client, Reminder

\* The queues keep their types and their depths.
LEMMA QueueStep ==
    ASSUME TInv, [Next]_vars
    PROVE  QueueTypeOK'
<1> QueueTypeOK /\ TaskTypeOK /\ HandsFull /\ TopInHeap
  BY DEF TInv, TypeOK, HandsOK
<1> USE BoundsAssumption
<1>a. \A t \in Tasks : pc[t] = "send" => hand[t] \in Packets
  BY DEF HandsFull
<1>b. Senders \subseteq Tasks /\ "pqueue" \in Tasks /\ "wavegen" \in Tasks
  BY DEF Tasks
<1>1. ASSUME NEW t \in Senders, Sender(t) PROVE QueueTypeOK'
  <2>1. CASE new_packet(t) \/ send_packet_timeout(t)
    BY <2>1 DEF new_packet, send_packet_timeout, queue_vars, QueueTypeOK
  <2>2. CASE send_packet(t)
    <3>1. hand[t] \in Packets
      BY <2>2, <1>a, <1>b DEF send_packet
    <3>2. QED  BY <2>2, <3>1 DEF send_packet, QueueTypeOK
  <2>3. QED  BY <1>1, <2>1, <2>2 DEF Sender
<1>2. CASE pqueue_drain
  <2> DEFINE p == Head(input_queue)
  <2>1. /\ p \in Packets /\ input_queue' \in Seq(Packets) /\ Len(input_queue') <= InputDepth
        /\ output_queue' = output_queue
    BY <1>2 DEF pqueue_drain, QueueTypeOK
  <2>2. CASE pqueue_contains(p) \/ pqueue_is_full
    BY <1>2, <2>1, <2>2 DEF pqueue_drain, QueueTypeOK
  <2>3. CASE ~(pqueue_contains(p) \/ pqueue_is_full)
    <3>1. heap' = heap \union {p} /\ top' \in Packets \union {NoPacket}
      BY <1>2, <2>1, <2>3 DEF pqueue_drain, QueueTypeOK
    <3>2. Cardinality(heap) \in Nat /\ Cardinality(heap) < HeapCapacity
      BY <2>3, FS_CardinalityType DEF pqueue_is_full, QueueTypeOK
    <3>3. IsFiniteSet(heap \union {p}) /\ Cardinality(heap \union {p}) \in Nat
          /\ Cardinality(heap \union {p}) <= Cardinality(heap) + 1
      BY PushCardinality, Zenon DEF QueueTypeOK
    <3> HIDE DEF p
    <3>4. QED  BY <2>1, <3>1, <3>2, <3>3 DEF QueueTypeOK
  <2>4. QED  BY <2>2, <2>3
<1>3. CASE pqueue_pop_copy
  <2> DEFINE stays == [top EXCEPT !.repeats = @ - 1]
  <2>1. top \in heap /\ top \in Packets
    BY <1>3 DEF pqueue_pop_copy, TopInHeap, QueueTypeOK
  <2>2. stays \in Packets
    BY <1>3, <2>1 DEF pqueue_pop_copy, Packets
  <2>3. /\ heap' = (heap \ {top}) \union {stays} /\ top' = stays
        /\ input_queue' = input_queue /\ output_queue' = output_queue
    BY <1>3 DEF pqueue_pop_copy
  <2> HIDE DEF stays
  <2>4. IsFiniteSet(heap \ {top}) /\ Cardinality(heap \ {top}) \in Nat
        /\ Cardinality(heap \ {top}) = Cardinality(heap) - 1
    BY <2>1, PopCardinality, Zenon DEF QueueTypeOK
  <2>5. IsFiniteSet(heap') /\ Cardinality(heap') \in Nat
        /\ Cardinality(heap') <= Cardinality(heap \ {top}) + 1
    BY <2>3, <2>4, PushCardinality, Zenon
  <2>6. Cardinality(heap) \in Nat
    BY FS_CardinalityType DEF QueueTypeOK
  <2>7. QED  BY <2>2, <2>3, <2>4, <2>5, <2>6 DEF QueueTypeOK
<1>4. CASE pqueue_pop_last
  <2>1. top \in heap
    BY <1>4 DEF pqueue_pop_last, TopInHeap
  <2>2. /\ heap' = heap \ {top} /\ input_queue' = input_queue /\ output_queue' = output_queue
        /\ top' \in heap' \union {NoPacket}
    BY <1>4 DEF pqueue_pop_last, Highest
  <2>3. IsFiniteSet(heap \ {top}) /\ Cardinality(heap \ {top}) \in Nat
        /\ Cardinality(heap \ {top}) = Cardinality(heap) - 1
    BY <2>1, PopCardinality, Zenon DEF QueueTypeOK
  <2>4. Cardinality(heap) \in Nat
    BY FS_CardinalityType DEF QueueTypeOK
  <2>5. QED  BY <2>2, <2>3, <2>4 DEF QueueTypeOK
<1>5. CASE pqueue_send
  <2>1. hand["pqueue"] \in Packets
    BY <1>5, <1>a, <1>b DEF pqueue_send
  <2>2. QED  BY <1>5, <2>1 DEF pqueue_send, QueueTypeOK
<1>6. CASE wavegen_receive
  BY <1>6 DEF wavegen_receive, QueueTypeOK
<1>7. ASSUME UNCHANGED queue_vars PROVE QueueTypeOK'
  BY <1>7 DEF queue_vars, QueueTypeOK
<1>8. ASSUME Client \/ dcc_forget_loco_finish PROVE UNCHANGED queue_vars
  BY <1>8 DEF Client, dcc_set_throttle, dcc_set_function, dcc_ensure_loco, dcc_emergency_stop,
              dcc_forget_loco, dcc_emergency_stop_all, dcc_clear_emergency_stop_all,
              dcc_send_command, dcc_pom_read_byte, dcc_forget_loco_finish
<1>9. ASSUME dcc_update \/ (\E a \in Addrs : send_reminder_packets(a)) \/ dcc_update_finish
      PROVE  UNCHANGED queue_vars
  BY <1>9 DEF dcc_update, send_reminder_packets, dcc_update_finish
<1>10. ASSUME pqueue_drained \/ pqueue_pop_nothing \/ pqueue_send_timeout \/ wavegen_send
       PROVE  UNCHANGED queue_vars
  BY <1>10 DEF pqueue_drained, pqueue_pop_nothing, pqueue_send_timeout, wavegen_send
<1>11. UNCHANGED vars => UNCHANGED queue_vars
  BY DEF vars
<1>12. "lcc" \in Senders /\ "railcom" \in Senders /\ "reminder" \in Senders
  BY DEF Senders
<1>13. QED
  BY <1>1, <1>2, <1>3, <1>4, <1>5, <1>6, <1>7, <1>8, <1>9, <1>10, <1>11, <1>12
     DEF Next, Reminder, PQueue, Wavegen

\* A sender begins a job with a packet in hand.
LEMMA StartsJob ==
    ASSUME TaskTypeOK, HandsFull, NEW t \in Tasks, NEW p \in Packets, StartJob(t, p)
    PROVE  /\ pc' \in [Tasks -> {"idle", "alloc", "send", "forget", "visit", "drain", "pop"}]
           /\ hand' \in [Tasks -> Packets \union {NoPacket}]
           /\ HandsFull'
           /\ \A u \in Tasks : u # t => pc'[u] = pc[u]
           /\ pc'[t] = "alloc"
BY DEF TaskTypeOK, HandsFull, StartJob

\* A task that has sent, lost or transmitted its packet lets it go.
LEMMA LetsGo ==
    ASSUME TaskTypeOK, HandsFull, NEW t \in Tasks,
           NEW x \in {"idle", "forget", "visit", "drain", "pop"},
           pc' = [pc EXCEPT ![t] = x], hand' = [hand EXCEPT ![t] = NoPacket]
    PROVE  /\ pc' \in [Tasks -> {"idle", "alloc", "send", "forget", "visit", "drain", "pop"}]
           /\ hand' \in [Tasks -> Packets \union {NoPacket}]
           /\ HandsFull'
           /\ \A u \in Tasks : u # t => pc'[u] = pc[u]
           /\ pc'[t] = x
BY DEF TaskTypeOK, HandsFull

\* A task takes a packet to send.
LEMMA TakesPacket ==
    ASSUME TaskTypeOK, HandsFull, NEW t \in Tasks, NEW p \in Packets,
           pc' = [pc EXCEPT ![t] = "send"], hand' = [hand EXCEPT ![t] = p]
    PROVE  /\ pc' \in [Tasks -> {"idle", "alloc", "send", "forget", "visit", "drain", "pop"}]
           /\ hand' \in [Tasks -> Packets \union {NoPacket}]
           /\ HandsFull'
           /\ \A u \in Tasks : u # t => pc'[u] = pc[u]
           /\ pc'[t] = "send"
BY DEF TaskTypeOK, HandsFull

\* A task with nothing in hand goes on to another place.
LEMMA GoesOn ==
    ASSUME TaskTypeOK, HandsFull, NEW t \in Tasks, pc[t] \notin {"alloc", "send"},
           NEW x \in {"idle", "forget", "visit", "drain", "pop"},
           pc' = [pc EXCEPT ![t] = x], hand' = hand
    PROVE  /\ pc' \in [Tasks -> {"idle", "alloc", "send", "forget", "visit", "drain", "pop"}]
           /\ hand' \in [Tasks -> Packets \union {NoPacket}]
           /\ HandsFull'
           /\ \A u \in Tasks : u # t => pc'[u] = pc[u]
           /\ pc'[t] = x
BY DEF TaskTypeOK, HandsFull

\* The tasks keep their types and what they need to have in hand.
LEMMA TaskStep ==
    ASSUME TInv, [Next]_vars
    PROVE  TaskTypeOK' /\ HandsOK'
<1> EngineTypeOK /\ QueueTypeOK /\ TaskTypeOK /\ HandsFull /\ TopInHeap /\ Forgets
  BY DEF TInv, TypeOK, HandsOK
<1> USE BoundsAssumption
<1> USE DEF HandsOK
<1>a. /\ Senders = {"lcc", "railcom", "reminder"}
      /\ Tasks = {"lcc", "railcom", "reminder", "pqueue", "wavegen"}
  BY DEF Senders, Tasks
<1>b. \A x \in Addrs : locos[x].speed_step \in SpeedBytes
  BY DEF EngineTypeOK, LocoStates
<1>1. ASSUME NEW t \in {"lcc", "railcom", "reminder"}, NEW p \in Packets, StartJob(t, p),
             UNCHANGED queue_vars, pending' \in SUBSET Addrs,
             forgetting' = forgetting \/ (t = "lcc" /\ forgetting' \in Addrs)
      PROVE  TaskTypeOK' /\ HandsOK'
  BY <1>1, <1>a, StartsJob DEF TaskTypeOK, TopInHeap, Forgets, queue_vars
<1>2. ASSUME UNCHANGED <<pc, hand, queue_vars, forgetting>>, pending' \in SUBSET Addrs
      PROVE  TaskTypeOK' /\ HandsOK'
  BY <1>2 DEF TaskTypeOK, HandsFull, TopInHeap, Forgets, queue_vars
<1>3. ASSUME NEW t \in {"lcc", "railcom", "reminder"}, hand' = [hand EXCEPT ![t] = NoPacket],
             pc' = [pc EXCEPT ![t] = Resume(t)],
             UNCHANGED <<heap, top, pending, forgetting>>
      PROVE  TaskTypeOK' /\ HandsOK'
  <2>1. /\ Resume(t) \in {"idle", "forget", "visit"}
        /\ Resume(t) = "forget" => t = "lcc" /\ forgetting \in Addrs
    BY DEF Resume, TaskTypeOK
  <2>2. QED  BY <1>3, <2>1, <1>a, LetsGo DEF TaskTypeOK, TopInHeap, Forgets
<1>4. ASSUME NEW a \in Addrs, NEW step \in Throttles, dcc_set_throttle(a, step)
      PROVE  TaskTypeOK' /\ HandsOK'
  <2>1. build_throttle_packet(a, step) \in Packets
    BY PacketTypes, ThrottlesAssumption DEF SpeedBytes
  <2>2. /\ StartJob("lcc", build_throttle_packet(a, step)) \/ UNCHANGED <<pc, hand>>
        /\ UNCHANGED <<queue_vars, pending, forgetting>>
    BY <1>4 DEF dcc_set_throttle
  <2>3. pending' \in SUBSET Addrs
    BY <2>2 DEF TaskTypeOK
  <2>4. QED  BY <1>1, <1>2, <2>1, <2>2, <2>3
<1>5. ASSUME \/ \E a \in Addrs, g \in Groups, on \in BOOLEAN : dcc_set_function(a, g, on)
             \/ \E a \in Addrs : dcc_ensure_loco(a)
             \/ dcc_clear_emergency_stop_all
      PROVE  TaskTypeOK' /\ HandsOK'
  <2>1. UNCHANGED <<queue_vars, task_vars>>
    BY <1>5 DEF dcc_set_function, dcc_ensure_loco, dcc_clear_emergency_stop_all
  <2>2. QED  BY <1>2, <2>1 DEF task_vars, TaskTypeOK
<1>6. ASSUME NEW a \in Addrs, dcc_emergency_stop(a) \/ dcc_forget_loco(a)
      PROVE  TaskTypeOK' /\ HandsOK'
  <2> DEFINE step == IF locos[a].active THEN Direction(locos[a].speed_step) ELSE 0
             p == SpeedPacket(a, estop_step(step), PRIORITY_EMERGENCY)
  <2>1. estop_step(step) \in SpeedBytes
    BY <1>b, SpeedByte DEF estop_step, SpeedBytes, Direction
  <2>2. p \in Packets
    BY <2>1, PacketTypes DEF Priorities
  <2>3. /\ StartJob("lcc", p) /\ UNCHANGED <<queue_vars, pending>>
        /\ forgetting' = forgetting \/ forgetting' \in Addrs
    BY <1>6 DEF dcc_emergency_stop, dcc_forget_loco, StoreEmergencyStop
  <2> HIDE DEF p
  <2>4. QED  BY <1>1, <2>2, <2>3 DEF TaskTypeOK
<1>7. CASE dcc_forget_loco_finish
  <2>1. /\ pc["lcc"] = "forget" /\ pc' = [pc EXCEPT !["lcc"] = "idle"]
        /\ forgetting' = None /\ UNCHANGED <<queue_vars, hand, pending>>
    BY <1>7 DEF dcc_forget_loco_finish
  <2>2. QED  BY <2>1, <1>a, GoesOn DEF TaskTypeOK, TopInHeap, Forgets, queue_vars
<1>8. CASE dcc_emergency_stop_all
  <2>1. BroadcastEstop \in Packets
    BY BoundsAssumption DEF Packets, BroadcastEstop, Priorities, SpeedBytes
  <2>2. StartJob("lcc", BroadcastEstop) /\ UNCHANGED <<queue_vars, pending, forgetting>>
    BY <1>8 DEF dcc_emergency_stop_all
  <2>3. QED  BY <1>1, <2>1, <2>2 DEF TaskTypeOK
<1>9. ASSUME NEW a \in Addrs, dcc_send_command(a, 1) \/ dcc_pom_read_byte(a, 2)
      PROVE  TaskTypeOK' /\ HandsOK'
  <2>1. CommandPacket(a, 1, Repeats) \in Packets /\ CommandPacket(a, 2, Repeats) \in Packets
    BY DEF Packets, CommandPacket, Priorities, SpeedBytes
  <2>2. /\ \/ StartJob("lcc", CommandPacket(a, 1, Repeats))
           \/ StartJob("railcom", CommandPacket(a, 2, Repeats))
        /\ UNCHANGED <<queue_vars, pending, forgetting>>
    BY <1>9 DEF dcc_send_command, dcc_pom_read_byte
  <2>3. QED  BY <1>1, <2>1, <2>2 DEF TaskTypeOK
<1>10. ASSUME NEW t \in {"lcc", "railcom", "reminder"}, Sender(t)
       PROVE  TaskTypeOK' /\ HandsOK'
  <2>1. CASE new_packet(t)
    <3>1. CASE InUse < PoolSize /\ pc' = [pc EXCEPT ![t] = "send"] /\ UNCHANGED hand
      <4>1. hand[t] \in Packets /\ hand' = [hand EXCEPT ![t] = hand[t]]
        BY <2>1, <3>1, <1>a DEF new_packet, HandsFull, TaskTypeOK
      <4>2. UNCHANGED <<queue_vars, pending, forgetting>>
        BY <2>1 DEF new_packet
      <4>3. QED
        BY <3>1, <4>1, <4>2, <1>a, TakesPacket DEF TaskTypeOK, TopInHeap, Forgets, queue_vars
    <3>2. CASE pc' = [pc EXCEPT ![t] = Resume(t)] /\ hand' = [hand EXCEPT ![t] = NoPacket]
      BY <2>1, <3>2, <1>3 DEF new_packet, queue_vars
    <3>3. QED  BY <2>1, <3>1, <3>2 DEF new_packet
  <2>2. CASE send_packet(t) \/ send_packet_timeout(t)
    BY <2>2, <1>3 DEF send_packet, send_packet_timeout, queue_vars
  <2>3. QED  BY <1>10, <2>1, <2>2 DEF Sender
<1>11. CASE dcc_update
  <2>1. /\ pc["reminder"] = "idle" /\ pc' = [pc EXCEPT !["reminder"] = "visit"]
        /\ pending' \in SUBSET Addrs /\ UNCHANGED <<queue_vars, hand, forgetting>>
    BY <1>11 DEF dcc_update, Active
  <2>2. QED  BY <2>1, <1>a, GoesOn DEF TaskTypeOK, TopInHeap, Forgets, queue_vars
<1>12. ASSUME NEW a \in Addrs, send_reminder_packets(a) PROVE TaskTypeOK' /\ HandsOK'
  <2>1. SendsReminder(a) => ReminderPacket(a) \in Packets
    <3>1. CASE loop_state # 0
      <4>1. loop_state \in 0..NumGroups
        BY DEF EngineTypeOK
      <4>2. QED  BY <3>1, <4>1 DEF ReminderPacket, FnPacket, Packets, Priorities, SpeedBytes
    <3>2. CASE loop_state = 0
      <4>1. locos[a].speed_step \in SpeedBytes /\ estop_step(locos[a].speed_step) \in SpeedBytes
        BY <1>b, SpeedByte
      <4>2. QED  BY <3>2, <4>1, PacketTypes DEF ReminderPacket, Priorities
    <3>3. QED  BY <3>1, <3>2
  <2>2. /\ (SendsReminder(a) /\ StartJob("reminder", ReminderPacket(a))) \/ UNCHANGED <<pc, hand>>
        /\ pending' \in SUBSET Addrs /\ UNCHANGED <<queue_vars, forgetting>>
    BY <1>12 DEF send_reminder_packets, TaskTypeOK
  <2>3. QED  BY <1>1, <1>2, <2>1, <2>2
<1>13. CASE dcc_update_finish
  <2>1. /\ pc["reminder"] = "visit" /\ pc' = [pc EXCEPT !["reminder"] = "idle"]
        /\ UNCHANGED <<queue_vars, hand, pending, forgetting>>
    BY <1>13 DEF dcc_update_finish
  <2>2. QED  BY <2>1, <1>a, GoesOn DEF TaskTypeOK, TopInHeap, Forgets, queue_vars
<1>14. CASE pqueue_drain
  <2>1. UNCHANGED <<pc, hand, pending, forgetting>> /\ pc["pqueue"] = "drain"
    BY <1>14 DEF pqueue_drain, task_vars
  <2>2. heap' # {} => top' \in heap'
    BY <1>14 DEF pqueue_drain, TopInHeap
  <2>3. QED  BY <2>1, <2>2 DEF TaskTypeOK, HandsFull, TopInHeap, Forgets
<1>15. CASE pqueue_drained \/ pqueue_pop_nothing
  <2>1. \E x \in {"pop", "drain"} :
           /\ pc["pqueue"] \notin {"alloc", "send"} /\ pc' = [pc EXCEPT !["pqueue"] = x]
           /\ x = "pop" => heap # {}
           /\ UNCHANGED <<queue_vars, hand, pending, forgetting>>
    BY <1>15 DEF pqueue_drained, pqueue_pop_nothing, pqueue_is_empty
  <2>2. QED  BY <2>1, <1>a, GoesOn DEF TaskTypeOK, TopInHeap, Forgets, queue_vars
<1>16. CASE pqueue_pop_copy \/ pqueue_pop_last
  <2>1. top \in heap /\ top \in Packets
    BY <1>16 DEF pqueue_pop_copy, pqueue_pop_last, TopInHeap, QueueTypeOK
  <2>2. [top EXCEPT !.repeats = 0] \in Packets
    BY <2>1 DEF Packets
  <2>3. \E p \in Packets :
           /\ pc' = [pc EXCEPT !["pqueue"] = "send"] /\ hand' = [hand EXCEPT !["pqueue"] = p]
           /\ UNCHANGED <<pending, forgetting>>
    BY <1>16, <2>1, <2>2 DEF pqueue_pop_copy, pqueue_pop_last
  <2>4. heap' # {} => top' \in heap'
    BY <1>16 DEF pqueue_pop_copy, pqueue_pop_last, Highest
  <2>5. QED  BY <2>3, <2>4, <1>a, TakesPacket DEF TaskTypeOK, TopInHeap, Forgets
<1>17. CASE pqueue_send \/ pqueue_send_timeout
  <2>1. /\ pc' = [pc EXCEPT !["pqueue"] = "drain"] /\ hand' = [hand EXCEPT !["pqueue"] = NoPacket]
        /\ UNCHANGED <<heap, top, pending, forgetting>>
    BY <1>17 DEF pqueue_send, pqueue_send_timeout, queue_vars
  <2>2. QED  BY <2>1, <1>a, LetsGo DEF TaskTypeOK, TopInHeap, Forgets
<1>18. CASE wavegen_receive
  <2>1. /\ Head(output_queue) \in Packets /\ pc' = [pc EXCEPT !["wavegen"] = "send"]
        /\ hand' = [hand EXCEPT !["wavegen"] = Head(output_queue)]
        /\ UNCHANGED <<heap, top, pending, forgetting>>
    BY <1>18 DEF wavegen_receive, QueueTypeOK
  <2>2. QED  BY <2>1, <1>a, TakesPacket DEF TaskTypeOK, TopInHeap, Forgets
<1>19. CASE wavegen_send
  <2>1. /\ pc' = [pc EXCEPT !["wavegen"] = "idle"] /\ hand' = [hand EXCEPT !["wavegen"] = NoPacket]
        /\ UNCHANGED <<heap, top, pending, forgetting>>
    BY <1>19 DEF wavegen_send, queue_vars
  <2>2. QED  BY <2>1, <1>a, LetsGo DEF TaskTypeOK, TopInHeap, Forgets
<1>20. CASE UNCHANGED vars
  BY <1>2, <1>20 DEF vars, task_vars, TaskTypeOK
<1>21. QED
  BY <1>4, <1>5, <1>6, <1>7, <1>8, <1>9, <1>10, <1>11, <1>12, <1>13, <1>14, <1>15, <1>16, <1>17,
     <1>18, <1>19, <1>20
     DEF Next, Client, Reminder, PQueue, Wavegen

\* What the decoders hold keeps its type, and the bounds keep counting.
LEMMA LayoutStep ==
    ASSUME TInv, [Next]_vars
    PROVE  LayoutTypeOK' /\ commands' \in Nat /\ timeouts' \in Nat
<1> TaskTypeOK /\ HandsFull /\ LayoutTypeOK /\ commands \in Nat /\ timeouts \in Nat
  BY DEF TInv, TypeOK, HandsOK
<1> USE BoundsAssumption
<1>1. CASE wavegen_send
  <2> DEFINE p == hand["wavegen"]
  <2>1. p \in Packets /\ Transmit(p) /\ UNCHANGED bound_vars
    BY <1>1 DEF wavegen_send, HandsFull, Tasks
  <2>2. p.arg \in SpeedBytes /\ p.grp \in 0..NumGroups
    BY <2>1 DEF Packets
  <2>3. \A a \in Addrs : estop_step(wire[a]) \in SpeedBytes
    BY SpeedByte DEF LayoutTypeOK
  <2> HIDE DEF p
  <2>4. wire' \in [Addrs -> SpeedBytes]
    BY <2>1, <2>2, <2>3 DEF Transmit, LayoutTypeOK
  <2>5. wire_fn' \in [Addrs -> SUBSET (0..NumGroups)]
    BY <2>1, <2>2 DEF Transmit, LayoutTypeOK
  <2>6. QED  BY <2>1, <2>4, <2>5 DEF LayoutTypeOK, bound_vars
<1>2. ASSUME UNCHANGED wire_vars, commands' \in Nat, timeouts' \in Nat
      PROVE  LayoutTypeOK' /\ commands' \in Nat /\ timeouts' \in Nat
  BY <1>2 DEF wire_vars, LayoutTypeOK
<1>3. ASSUME Client PROVE UNCHANGED wire_vars /\ commands' \in Nat /\ timeouts' \in Nat
  <2>1. UNCHANGED wire_vars /\ timeouts' = timeouts
    BY <1>3 DEF Client, dcc_set_throttle, dcc_set_function, dcc_ensure_loco,
                dcc_emergency_stop, dcc_forget_loco, dcc_emergency_stop_all,
                dcc_clear_emergency_stop_all, dcc_send_command, dcc_pom_read_byte
  <2>2. commands' = commands + 1
    BY <1>3, Zenon
       DEF Client, LccReady, dcc_set_throttle, dcc_set_function, dcc_ensure_loco,
           dcc_emergency_stop, dcc_forget_loco, dcc_emergency_stop_all,
           dcc_clear_emergency_stop_all, dcc_send_command, dcc_pom_read_byte
  <2>3. QED  BY <2>1, <2>2
<1>4. ASSUME \/ \E t \in {"lcc", "railcom", "reminder"} : Sender(t)
             \/ dcc_forget_loco_finish
             \/ dcc_update \/ (\E a \in Addrs : send_reminder_packets(a)) \/ dcc_update_finish
             \/ PQueue
             \/ wavegen_receive
      PROVE  UNCHANGED wire_vars /\ commands' \in Nat /\ timeouts' \in Nat
  BY <1>4 DEF Sender, new_packet, send_packet, send_packet_timeout, dcc_forget_loco_finish,
              dcc_update, send_reminder_packets, dcc_update_finish,
              PQueue, pqueue_drain, pqueue_drained, pqueue_pop_copy, pqueue_pop_nothing,
              pqueue_pop_last, pqueue_send, pqueue_send_timeout, wavegen_receive, bound_vars
<1>5. UNCHANGED vars => UNCHANGED wire_vars /\ commands' \in Nat /\ timeouts' \in Nat
  BY DEF vars, bound_vars
<1>6. QED  BY <1>1, <1>2, <1>3, <1>4, <1>5 DEF Next, Reminder, Wavegen

\* TInv is inductive.
LEMMA TInvHolds == Spec => []TInv
<1>1. Init => TInv
  <2> SUFFICES ASSUME Init PROVE TInv
    OBVIOUS
  <2> USE BoundsAssumption
  <2>1. EngineTypeOK
    <3>1. FreeLoco \in LocoStates
      BY DEF FreeLoco, LocoStates, SpeedBytes
    <3>2. [valid |-> FALSE, address |-> 0, speed_step |-> 0]
            \in [valid: BOOLEAN, address: Addrs \union {None}, speed_step: SpeedBytes]
      BY DEF SpeedBytes, None
    <3>3. locos \in [Addrs -> LocoStates]
      BY <3>1 DEF Init
    <3>4. last_throttle \in [valid: BOOLEAN, address: Addrs \union {None}, speed_step: SpeedBytes]
      BY <3>2 DEF Init
    <3>5. loop_state = 0 /\ 0 \in 0..NumGroups
      BY DEF Init
    <3>6. estop_all \in BOOLEAN
      BY Zenon DEF Init
    <3>7. QED  BY <3>3, <3>4, <3>5, <3>6 DEF EngineTypeOK
  <2>2. QueueTypeOK
    BY FS_EmptySet DEF Init, QueueTypeOK
  <2>3. TaskTypeOK /\ HandsOK
    BY DEF Init, TaskTypeOK, HandsOK, HandsFull, TopInHeap, Forgets, Tasks, Senders
  <2>4. LayoutTypeOK /\ commands \in Nat /\ timeouts \in Nat
    BY DEF Init, LayoutTypeOK, SpeedBytes
  <2>5. QED  BY <2>1, <2>2, <2>3, <2>4 DEF TInv, TypeOK
<1>2. TInv /\ [Next]_vars => TInv'
  BY EngineStep, QueueStep, TaskStep, LayoutStep DEF TInv, TypeOK
<1>3. QED  BY <1>1, <1>2, PTL DEF Spec

\* Every variable keeps its type and no queue outgrows its depth.
THEOREM TypeCorrect == Spec => []TypeOK
<1>1. TInv => TypeOK
  BY DEF TInv
<1>2. QED  BY <1>1, TInvHolds, PTL

-----------------------------------------------------------------------------
(* The held e-stop *)

\* The inductive strengthening: the RailCom task, which dcc_emergency_stop_all
\* does not wait for, never has a throttle packet.
Still == HeldSendersAreStill /\ ~Moving(hand["railcom"])

\* A held global e-stop leaves no sender with a packet that moves a loco,
\* whatever was under way when it was pressed.
THEOREM HeldIsStill == Spec => []HeldSendersAreStill
<1>a. ~Moving(NoPacket)
  BY DEF Moving, NoPacket
<1>1. Init => Still
  BY <1>a DEF Init, Still, HeldSendersAreStill, Tasks, Senders
<1>2. TInv /\ Still /\ [Next]_vars => Still'
  <2> SUFFICES ASSUME TInv, Still, [Next]_vars PROVE Still'
    OBVIOUS
  <2> EngineTypeOK /\ TaskTypeOK /\ HandsFull
    BY DEF TInv, TypeOK, HandsOK
  <2>a. /\ Senders = {"lcc", "railcom", "reminder"}
        /\ Tasks = {"lcc", "railcom", "reminder", "pqueue", "wavegen"}
    BY DEF Senders, Tasks
  <2>b. \A x \in Addrs : locos[x].speed_step \in SpeedBytes
    BY DEF EngineTypeOK, LocoStates
  <2>1. ASSUME estop_all' = estop_all, NEW t \in Tasks, NEW p, hand' = [hand EXCEPT ![t] = p],
               t \in {"lcc", "reminder"} => ~Moving(p) \/ ~estop_all,
               t = "railcom" => ~Moving(p)
        PROVE  Still'
    BY <2>1, <2>a DEF Still, HeldSendersAreStill, TaskTypeOK
  <2>2. ASSUME UNCHANGED <<estop_all, hand>> PROVE Still'
    BY <2>2 DEF Still, HeldSendersAreStill
  <2>3. ASSUME NEW a \in Addrs, NEW step \in Throttles, dcc_set_throttle(a, step) PROVE Still'
    BY <2>1, <2>2, <2>3, <2>a DEF dcc_set_throttle, StartJob
  <2>4. ASSUME NEW a \in Addrs, dcc_emergency_stop(a) \/ dcc_forget_loco(a) PROVE Still'
    <3> DEFINE step == IF locos[a].active THEN Direction(locos[a].speed_step) ELSE 0
               p == SpeedPacket(a, estop_step(step), PRIORITY_EMERGENCY)
    <3>1. ~IsMoving(estop_step(step))
      BY <2>b, SpeedByte DEF estop_step, IsMoving, Speed, SpeedBytes, Direction
    <3>2. ~Moving(p)
      BY <3>1 DEF Moving, SpeedPacket
    <3>3. hand' = [hand EXCEPT !["lcc"] = p] /\ estop_all' = estop_all
      BY <2>4 DEF dcc_emergency_stop, dcc_forget_loco, StoreEmergencyStop, StartJob
    <3> HIDE DEF p
    <3>4. QED  BY <2>1, <2>a, <3>2, <3>3
  <2>5. CASE dcc_emergency_stop_all
    <3>1. pc["reminder"] = "idle" /\ hand' = [hand EXCEPT !["lcc"] = BroadcastEstop]
      BY <2>5 DEF dcc_emergency_stop_all, MutexFree, StartJob
    <3>2. hand["reminder"] = NoPacket
      BY <3>1, <2>a DEF HandsFull
    <3>3. ~Moving(BroadcastEstop)
      BY DEF Moving, BroadcastEstop
    <3>4. QED  BY <3>1, <3>2, <3>3, <1>a, <2>a DEF Still, HeldSendersAreStill, TaskTypeOK
  <2>6. CASE dcc_clear_emergency_stop_all
    BY <2>6 DEF dcc_clear_emergency_stop_all, task_vars, Still, HeldSendersAreStill
  <2>7. ASSUME NEW a \in Addrs, dcc_send_command(a, 1) \/ dcc_pom_read_byte(a, 2) PROVE Still'
    <3>1. ~Moving(CommandPacket(a, 1, Repeats)) /\ ~Moving(CommandPacket(a, 2, Repeats))
      BY DEF Moving, CommandPacket
    <3>2. QED  BY <2>1, <2>7, <2>a, <3>1 DEF dcc_send_command, dcc_pom_read_byte, StartJob, engine_vars
  <2>8. ASSUME NEW a \in Addrs, send_reminder_packets(a) PROVE Still'
    <3>1. estop_all => ~Moving(ReminderPacket(a))
      <4>1. ~IsMoving(estop_step(locos[a].speed_step))
        BY <2>b, SpeedByte
      <4>2. QED  BY <4>1 DEF ReminderPacket, FnPacket, SpeedPacket, Moving
    <3>2. QED  BY <2>1, <2>2, <2>8, <2>a, <3>1 DEF send_reminder_packets, StartJob, engine_vars
  <2>9. ASSUME NEW t \in Tasks, hand' = [hand EXCEPT ![t] = NoPacket], estop_all' = estop_all
        PROVE  Still'
    BY <2>1, <2>9, <1>a
  <2>10. ASSUME NEW t \in {"lcc", "railcom", "reminder"}, Sender(t) PROVE Still'
    BY <2>2, <2>9, <2>10, <2>a DEF Sender, new_packet, send_packet, send_packet_timeout, engine_vars
  <2>11. ASSUME NEW t \in {"pqueue", "wavegen"}, NEW p, hand' = [hand EXCEPT ![t] = p],
                estop_all' = estop_all
         PROVE  Still'
    BY <2>1, <2>11, <2>a
  <2>12. CASE PQueue \/ Wavegen
    BY <2>2, <2>11, <2>12
       DEF PQueue, pqueue_drain, pqueue_drained, pqueue_pop_copy, pqueue_pop_nothing,
           pqueue_pop_last, pqueue_send, pqueue_send_timeout, Wavegen, wavegen_receive,
           wavegen_send, engine_vars, task_vars
  <2>13. ASSUME \/ \E a \in Addrs, g \in Groups, on \in BOOLEAN : dcc_set_function(a, g, on)
                \/ \E a \in Addrs : dcc_ensure_loco(a)
                \/ dcc_forget_loco_finish \/ dcc_update \/ dcc_update_finish
         PROVE  UNCHANGED <<estop_all, hand>>
    BY <2>13 DEF dcc_set_function, dcc_ensure_loco, dcc_forget_loco_finish, dcc_update,
                 dcc_update_finish, task_vars, engine_vars
  <2>14. UNCHANGED vars => UNCHANGED <<estop_all, hand>>
    BY DEF vars, task_vars, engine_vars
  <2>15. QED
    BY <2>2, <2>3, <2>4, <2>5, <2>6, <2>7, <2>8, <2>10, <2>12, <2>13, <2>14
       DEF Next, Client, Reminder
<1>3. Still => HeldSendersAreStill
  BY DEF Still
<1>4. QED  BY <1>1, <1>2, <1>3, TInvHolds, PTL DEF Spec

-----------------------------------------------------------------------------
(* The heap's duplicates *)

\* The steps that leave the heap alone: all but those of the priority queue
\* task that push or pop.
LEMMA HeapUntouched ==
    ASSUME [Next]_vars, ~pqueue_drain, ~pqueue_pop_copy, ~pqueue_pop_last
    PROVE  UNCHANGED heap
<1>1. ASSUME Client PROVE UNCHANGED heap
  BY <1>1 DEF Client, dcc_set_throttle, dcc_set_function, dcc_ensure_loco, dcc_emergency_stop,
       dcc_forget_loco, dcc_emergency_stop_all, dcc_clear_emergency_stop_all,
       dcc_send_command, dcc_pom_read_byte, queue_vars
<1>2. ASSUME NEW t, Sender(t) PROVE UNCHANGED heap
  BY <1>2 DEF Sender, new_packet, send_packet, send_packet_timeout, queue_vars
<1>3. ASSUME Reminder \/ dcc_forget_loco_finish PROVE UNCHANGED heap
  BY <1>2, <1>3 DEF Reminder, dcc_update, send_reminder_packets, dcc_update_finish,
       dcc_forget_loco_finish, queue_vars
<1>4. ASSUME PQueue \/ Wavegen PROVE UNCHANGED heap
  BY <1>4 DEF PQueue, pqueue_drained, pqueue_pop_nothing, pqueue_send, pqueue_send_timeout,
       Wavegen, wavegen_receive, wavegen_send, queue_vars
<1>5. UNCHANGED vars => UNCHANGED heap
  BY DEF vars, queue_vars
<1>6. QED  BY <1>1, <1>2, <1>3, <1>4, <1>5 DEF Next

\* The heap never holds the same bytes twice, whatever the priorities, with
\* any number of locos and any depth of the queues: pqueue_contains lets in
\* no duplicate, and a packet that stays for its repeats keeps its bytes.
THEOREM NoDuplicates == Spec => []HeapHasNoDuplicates
<1>1. Init => HeapHasNoDuplicates
  BY DEF Init, HeapHasNoDuplicates
<1>2. TInv /\ HeapHasNoDuplicates /\ [Next]_vars => HeapHasNoDuplicates'
  <2> SUFFICES ASSUME TInv, HeapHasNoDuplicates, [Next]_vars PROVE HeapHasNoDuplicates'
    OBVIOUS
  <2> TopInHeap /\ heap \subseteq Packets
    BY DEF TInv, TypeOK, HandsOK, QueueTypeOK
  <2>1. CASE pqueue_drain
    <3>1. \/ heap' = heap
          \/ /\ heap' = heap \union {Head(input_queue)}
             /\ \A q \in heap : ~SamePayload(Head(input_queue), q)
      BY <2>1 DEF pqueue_drain, pqueue_contains
    <3>2. QED  BY <3>1 DEF HeapHasNoDuplicates, SamePayload
  <2>2. CASE pqueue_pop_copy
    <3> DEFINE stays == [top EXCEPT !.repeats = @ - 1]
    <3>1. top \in heap /\ heap' = (heap \ {top}) \union {stays}
      BY <2>2 DEF pqueue_pop_copy, TopInHeap
    <3>2. \A q : /\ SamePayload(stays, q) <=> SamePayload(top, q)
                 /\ SamePayload(q, stays) <=> SamePayload(q, top)
      <4>1. top \in Packets
        BY <3>1
      <4>2. /\ stays.address = top.address /\ stays.op = top.op
            /\ stays.grp = top.grp /\ stays.arg = top.arg
        BY <4>1 DEF Packets
      <4>3. QED  BY <4>2 DEF SamePayload
    <3> HIDE DEF stays
    <3>3. QED  BY <3>1, <3>2 DEF HeapHasNoDuplicates
  <2>3. CASE pqueue_pop_last
    BY <2>3 DEF pqueue_pop_last, HeapHasNoDuplicates
  <2>4. CASE UNCHANGED heap
    BY <2>4 DEF HeapHasNoDuplicates
  <2>5. QED  BY <2>1, <2>2, <2>3, <2>4, HeapUntouched
<1>3. QED  BY <1>1, <1>2, TInvHolds, PTL DEF Spec

-----------------------------------------------------------------------------
(* The display's last throttle *)

\* Between its e-stop and its removal a loco is still in the table; forgetting
\* has its address from one to the other.
ForgetsBusy == pc["lcc"] = "idle" => forgetting = None

\* LastThrottleAgrees is not inductive: a loco that left the table comes back
\* with speed 0, so what is shown of a loco that is gone, or going, must be 0.
ShownIsGone ==
    last_throttle.valid =>
        /\ last_throttle.address \in Addrs
        /\ ~locos[last_throttle.address].active \/ forgetting = last_throttle.address
              => Speed(last_throttle.speed_step) = 0

DisplayInv == LastThrottleAgrees /\ ShownIsGone /\ ForgetsBusy

\* A lone direction bit is speed 0.
LEMMA StoppedSpeed ==
    /\ Speed(0) = 0
    /\ \A step \in SpeedBytes : Speed(Direction(step)) = 0
BY DEF SpeedBytes, Speed, Direction

\* ForgetsBusy holds after every step.
LEMMA ForgetsBusyStep ==
    ASSUME TInv, ForgetsBusy, [Next]_vars
    PROVE  ForgetsBusy'
<1> TaskTypeOK
  BY DEF TInv, TypeOK
<1>a. /\ Senders = {"lcc", "railcom", "reminder"}
      /\ Tasks = {"lcc", "railcom", "reminder", "pqueue", "wavegen"}
  BY DEF Senders, Tasks
<1> USE <1>a DEF ForgetsBusy, TaskTypeOK
<1>1. CASE Client
  <2>1. ASSUME NEW a \in Addrs, NEW step \in Throttles, dcc_set_throttle(a, step) PROVE ForgetsBusy'
    BY <2>1 DEF dcc_set_throttle, StartJob
  <2>2. ASSUME NEW a \in Addrs, NEW g \in Groups, NEW on \in BOOLEAN, dcc_set_function(a, g, on)
        PROVE  ForgetsBusy'
    BY <2>2 DEF dcc_set_function, task_vars
  <2>3. ASSUME NEW a \in Addrs, dcc_ensure_loco(a) PROVE ForgetsBusy'
    BY <2>3 DEF dcc_ensure_loco, task_vars
  <2>4. ASSUME NEW a \in Addrs, dcc_emergency_stop(a) \/ dcc_forget_loco(a) PROVE ForgetsBusy'
    BY <2>4 DEF dcc_emergency_stop, dcc_forget_loco, StoreEmergencyStop, StartJob
  <2>5. CASE dcc_emergency_stop_all \/ dcc_clear_emergency_stop_all
    BY <2>5 DEF dcc_emergency_stop_all, dcc_clear_emergency_stop_all, StartJob, task_vars
  <2>6. ASSUME NEW a \in Addrs, dcc_send_command(a, 1) \/ dcc_pom_read_byte(a, 2) PROVE ForgetsBusy'
    BY <2>6 DEF dcc_send_command, dcc_pom_read_byte, StartJob
  <2>7. QED  BY <1>1, <2>1, <2>2, <2>3, <2>4, <2>5, <2>6 DEF Client
<1>2. ASSUME NEW t \in Senders, Sender(t) PROVE ForgetsBusy'
  BY <1>2 DEF Sender, new_packet, send_packet, send_packet_timeout, Resume
<1>3. CASE dcc_forget_loco_finish
  BY <1>3 DEF dcc_forget_loco_finish
<1>4. CASE dcc_update \/ (\E a \in Addrs : send_reminder_packets(a)) \/ dcc_update_finish
  BY <1>4 DEF dcc_update, send_reminder_packets, dcc_update_finish, StartJob
<1>5. CASE PQueue
  BY <1>5 DEF PQueue, pqueue_drain, pqueue_drained, pqueue_pop_copy, pqueue_pop_nothing,
       pqueue_pop_last, pqueue_send, pqueue_send_timeout, task_vars
<1>6. CASE Wavegen
  BY <1>6 DEF Wavegen, wavegen_receive, wavegen_send
<1>7. CASE UNCHANGED vars
  BY <1>7 DEF vars, task_vars
<1>8. QED  BY <1>1, <1>2, <1>3, <1>4, <1>5, <1>6, <1>7 DEF Next, Reminder

\* find_or_create_loco keeps what is shown right: the entry it creates has
\* speed 0, as has what is shown of a loco that was not in the table.
LEMMA CreateKeepsShown ==
    ASSUME EngineTypeOK, LastThrottleAgrees, ShownIsGone, NEW a \in Addrs, forgetting = None,
           last_throttle.valid
    PROVE  LET table == find_or_create_loco(a)
               x == last_throttle.address
           IN  /\ x \in Addrs /\ x # None
               /\ table[x].active => Speed(last_throttle.speed_step) = Speed(table[x].speed_step)
               /\ ~table[x].active => Speed(last_throttle.speed_step) = 0
<1> DEFINE table == find_or_create_loco(a)
           x == last_throttle.address
<1>1. x \in Addrs /\ x # None
  BY AddrsAssumption DEF ShownIsGone, None
<1>2. CASE table[x] = locos[x]
  BY <1>1, <1>2 DEF LastThrottleAgrees, ShownIsGone
<1>3. CASE table[x] # locos[x]
  <2>1. ~locos[x].active /\ table[x] = NewLoco
    BY <1>1, <1>3 DEF find_or_create_loco, EngineTypeOK
  <2>2. Speed(last_throttle.speed_step) = 0
    BY <2>1 DEF ShownIsGone
  <2>3. NewLoco.active /\ NewLoco.speed_step = 0
    BY DEF NewLoco
  <2>4. QED  BY <1>1, <2>1, <2>2, <2>3, StoppedSpeed
<1>4. QED  BY <1>1, <1>2, <1>3

\* The steps that touch neither the loco table, the display's copy nor
\* forgetting, and the two e-stop flags' steps, keep DisplayInv.
LEMMA ShownUntouched ==
    ASSUME [Next]_vars,
           ~\E a \in Addrs, step \in Throttles : dcc_set_throttle(a, step),
           ~\E a \in Addrs, g \in Groups, on \in BOOLEAN : dcc_set_function(a, g, on),
           ~\E a \in Addrs : dcc_ensure_loco(a),
           ~\E a \in Addrs : dcc_emergency_stop(a) \/ dcc_forget_loco(a),
           ~dcc_forget_loco_finish
    PROVE  UNCHANGED <<locos, last_throttle, forgetting>>
<1>1. ASSUME NEW t, Sender(t) PROVE UNCHANGED <<locos, last_throttle, forgetting>>
  BY <1>1 DEF Sender, new_packet, send_packet, send_packet_timeout, engine_vars
<1>2. ASSUME NEW a \in Addrs, \/ dcc_send_command(a, 1) \/ dcc_pom_read_byte(a, 2)
                              \/ send_reminder_packets(a)
      PROVE  UNCHANGED <<locos, last_throttle, forgetting>>
  BY <1>2 DEF dcc_send_command, dcc_pom_read_byte, send_reminder_packets, engine_vars
<1>3. ASSUME \/ dcc_emergency_stop_all \/ dcc_clear_emergency_stop_all
             \/ dcc_update \/ dcc_update_finish
      PROVE  UNCHANGED <<locos, last_throttle, forgetting>>
  BY <1>3 DEF dcc_emergency_stop_all, dcc_clear_emergency_stop_all, dcc_update,
       dcc_update_finish, engine_vars, task_vars
<1>4. ASSUME PQueue \/ Wavegen PROVE UNCHANGED <<locos, last_throttle, forgetting>>
  BY <1>4 DEF PQueue, pqueue_drain, pqueue_drained, pqueue_pop_copy, pqueue_pop_nothing,
       pqueue_pop_last, pqueue_send, pqueue_send_timeout, Wavegen, wavegen_receive,
       wavegen_send, engine_vars, task_vars
<1>5. UNCHANGED vars => UNCHANGED <<locos, last_throttle, forgetting>>
  BY DEF vars, engine_vars, task_vars
<1>6. QED  BY <1>1, <1>2, <1>3, <1>4, <1>5 DEF Next, Client, Reminder

\* What the display shows of a loco in the table is the speed the engine has
\* stored for it, however e-stops, forgets and re-creations follow each other
\* and however full the table is.
THEOREM DisplayAgrees == Spec => []LastThrottleAgrees
<1>1. Init => DisplayInv
  BY DEF Init, DisplayInv, LastThrottleAgrees, ShownIsGone, ForgetsBusy
<1>2. TInv /\ DisplayInv /\ [Next]_vars => DisplayInv'
  <2> SUFFICES ASSUME TInv, DisplayInv, [Next]_vars PROVE DisplayInv'
    OBVIOUS
  <2> EngineTypeOK /\ Forgets /\ LastThrottleAgrees /\ ShownIsGone /\ ForgetsBusy
    BY DEF TInv, TypeOK, HandsOK, DisplayInv
  <2>a. ForgetsBusy'
    BY ForgetsBusyStep
  <2> SUFFICES LastThrottleAgrees' /\ ShownIsGone'
    BY <2>a DEF DisplayInv
  <2>b. \A a \in Addrs : find_or_create_loco(a) \in [Addrs -> LocoStates]
    BY TableType
  <2>1. ASSUME NEW a \in Addrs, NEW step \in Throttles, dcc_set_throttle(a, step)
        PROVE  LastThrottleAgrees' /\ ShownIsGone'
    <3> DEFINE table == find_or_create_loco(a)
    <3>1. forgetting = None /\ forgetting' = None /\ a # None
      BY <2>1, AddrsAssumption DEF dcc_set_throttle, LccReady, ForgetsBusy, None
    <3>2. CASE table[a].active
      <4>1. /\ last_throttle' = [valid |-> TRUE, address |-> a, speed_step |-> step]
            /\ locos' = [table EXCEPT ![a].speed_step = step]
        BY <2>1, <3>2 DEF dcc_set_throttle
      <4>2. locos'[a].active /\ locos'[a].speed_step = step
        BY <2>b, <3>2, <4>1 DEF LocoStates
      <4>3. QED  BY <3>1, <4>1, <4>2 DEF LastThrottleAgrees, ShownIsGone
    <3>3. CASE ~table[a].active
      BY <2>1, <3>1, <3>3 DEF dcc_set_throttle, LastThrottleAgrees, ShownIsGone
    <3>4. QED  BY <3>2, <3>3
  <2>2. ASSUME NEW a \in Addrs, NEW table \in [Addrs -> LocoStates],
               table = find_or_create_loco(a), forgetting = None, forgetting' = None,
               last_throttle' = last_throttle,
               \A x \in Addrs : /\ locos'[x].active = table[x].active
                                /\ locos'[x].speed_step = table[x].speed_step
        PROVE  LastThrottleAgrees' /\ ShownIsGone'
    BY <2>2, CreateKeepsShown DEF LastThrottleAgrees, ShownIsGone
  <2>3. ASSUME NEW a \in Addrs, NEW g \in Groups, NEW on \in BOOLEAN, dcc_set_function(a, g, on)
        PROVE  LastThrottleAgrees' /\ ShownIsGone'
    <3>1. forgetting = None /\ forgetting' = None /\ last_throttle' = last_throttle
      BY <2>3 DEF dcc_set_function, LccReady, ForgetsBusy, task_vars
    <3> DEFINE table == find_or_create_loco(a)
    <3>2. CASE table[a].active
      <4>1. PICK fns, flags : locos' = [table EXCEPT ![a].functions = fns, ![a].group_flags = flags]
        BY <2>3, <3>2 DEF dcc_set_function
      <4>2. \A x \in Addrs : /\ locos'[x].active = table[x].active
                             /\ locos'[x].speed_step = table[x].speed_step
        BY <2>b, <4>1 DEF LocoStates
      <4>3. QED  BY <2>2, <2>b, <3>1, <4>2
    <3>3. CASE ~table[a].active
      BY <2>3, <3>1, <3>3 DEF dcc_set_function, LastThrottleAgrees, ShownIsGone
    <3>4. QED  BY <3>2, <3>3
  <2>4. ASSUME NEW a \in Addrs, dcc_ensure_loco(a) PROVE LastThrottleAgrees' /\ ShownIsGone'
    BY <2>2, <2>4, <2>b DEF dcc_ensure_loco, LccReady, ForgetsBusy, task_vars
  <2>5. ASSUME NEW a \in Addrs, dcc_emergency_stop(a) \/ dcc_forget_loco(a)
        PROVE  LastThrottleAgrees' /\ ShownIsGone'
    <3>1. StoreEmergencyStop(a) /\ forgetting = None /\ forgetting' \in {None, a}
      BY <2>5 DEF dcc_emergency_stop, dcc_forget_loco, LccReady, ForgetsBusy
    <3>2. Speed(Direction(locos[a].speed_step)) = 0
      BY StoppedSpeed DEF EngineTypeOK, LocoStates
    <3>3. None \notin Addrs
      BY AddrsAssumption DEF None
    <3>4. CASE locos[a].active
      <4>1. locos' = [locos EXCEPT ![a].speed_step = Direction(locos[a].speed_step)]
        BY <3>1, <3>4 DEF StoreEmergencyStop
      <4>2. \A x \in Addrs : /\ locos'[x].active = locos[x].active
                             /\ x # a => locos'[x] = locos[x]
                             /\ locos'[a].speed_step = Direction(locos[a].speed_step)
        BY <4>1 DEF EngineTypeOK, LocoStates
      <4>3. last_throttle' = StopLastThrottle(a, Direction(locos[a].speed_step))
        BY <3>1, <3>4 DEF StoreEmergencyStop
      <4>4. CASE last_throttle.valid /\ last_throttle.address = a
        <5>1. /\ last_throttle'.address = a
              /\ last_throttle'.speed_step = Direction(locos[a].speed_step)
          BY <4>3, <4>4 DEF StopLastThrottle, EngineTypeOK
        <5>2. QED  BY <3>2, <4>2, <5>1 DEF LastThrottleAgrees, ShownIsGone
      <4>5. CASE ~(last_throttle.valid /\ last_throttle.address = a)
        <5>1. last_throttle' = last_throttle
          BY <4>3, <4>5 DEF StopLastThrottle
        <5>2. QED  BY <3>1, <3>3, <4>2, <4>5, <5>1 DEF LastThrottleAgrees, ShownIsGone
      <4>6. QED  BY <4>4, <4>5
    <3>5. CASE ~locos[a].active
      <4>1. locos' = locos /\ last_throttle' = last_throttle
        BY <3>1, <3>5 DEF StoreEmergencyStop
      <4>2. QED  BY <3>1, <3>3, <3>5, <4>1 DEF LastThrottleAgrees, ShownIsGone
    <3>6. QED  BY <3>4, <3>5
  <2>6. CASE dcc_forget_loco_finish
    <3>1. /\ forgetting \in Addrs /\ forgetting' = None /\ last_throttle' = last_throttle
          /\ locos' = [locos EXCEPT ![forgetting].active = FALSE]
      BY <2>6 DEF dcc_forget_loco_finish, Forgets
    <3>2. \A x \in Addrs : /\ locos'[x].speed_step = locos[x].speed_step
                           /\ locos'[x].active <=> locos[x].active /\ x # forgetting
      BY <3>1 DEF EngineTypeOK, LocoStates
    <3>3. None \notin Addrs
      BY AddrsAssumption DEF None
    <3>4. QED  BY <3>1, <3>2, <3>3 DEF LastThrottleAgrees, ShownIsGone
  <2>7. CASE UNCHANGED <<locos, last_throttle, forgetting>>
    BY <2>7 DEF LastThrottleAgrees, ShownIsGone
  <2>8. QED  BY <2>1, <2>3, <2>4, <2>5, <2>6, <2>7, ShownUntouched
<1>3. DisplayInv => LastThrottleAgrees
  BY DEF DisplayInv
<1>4. QED  BY <1>1, <1>2, <1>3, TInvHolds, PTL DEF Spec
=============================================================================
