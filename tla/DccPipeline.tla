---------------------------- MODULE DccPipeline ----------------------------
(***************************************************************************)
(* The DCC command path: the DCC engine (src/dcc/dcc.c), the shared packet *)
(* pool (src/dcc/packet.c), the priority queue task                        *)
(* (src/queue/priority_queue.c) and the wavegen task                       *)
(* (src/wavegen/wavegen.c), joined by two FreeRTOS queues:                 *)
(*                                                                         *)
(*   lcc, railcom, reminder --input_queue--> pqueue --output_queue-->      *)
(*   wavegen --> track                                                     *)
(*                                                                         *)
(* Five tasks interleave; a step is what one task does between two points  *)
(* where another may run.                                                  *)
(*                                                                         *)
(* Packets are values here.  The code passes pointers into a pool;         *)
(* module PacketPool shows that every slot in use is held in exactly one   *)
(* place, so the slots in use are counted from what the queues and the     *)
(* tasks hold.                                                             *)
(*                                                                         *)
(* The heap of pqueue is a set with a chosen top: pushing a packet changes *)
(* the top only when the newcomer's priority is strictly higher (sift_up   *)
(* stops on <=), and removing the top leaves some packet of the highest    *)
(* remaining priority there.  Module PriorityHeap models the array and     *)
(* proves that it behaves like this.                                       *)
(***************************************************************************)
EXTENDS Integers, Sequences, FiniteSets

CONSTANTS
    Addrs,          \* DCC addresses of the locos clients drive
    Throttles,      \* speed bytes a throttle asks for; a NaN speed asks for step 1
    NumGroups,      \* function groups of the reminder loop (10 in the code)
    MaxLocos,       \* MAX_LOCOS
    PoolSize,       \* PACKET_POOL_SIZE
    InputDepth,     \* PQUEUE_INPUT_DEPTH
    HeapCapacity,   \* PQUEUE_CAPACITY
    OutputDepth,    \* WAVEGEN_QUEUE_DEPTH
    Repeats,        \* extra copies of POM, accessory and broadcast packets
    Railcom,        \* whether the RailCom task runs
    MaxCommands,    \* bound: client commands in one behaviour
    MaxTimeouts     \* bound: queue sends that time out in one behaviour

ASSUME AddrsAssumption == Addrs \subseteq Nat \ {0}
ASSUME ThrottlesAssumption == Throttles \subseteq 0..255
ASSUME BoundsAssumption ==
    /\ NumGroups \in Nat
    /\ MaxLocos \in Nat
    /\ PoolSize \in Nat
    /\ InputDepth \in Nat
    /\ HeapCapacity \in Nat
    /\ OutputDepth \in Nat
    /\ Repeats \in Nat
    /\ Railcom \in BOOLEAN
    /\ MaxCommands \in Nat
    /\ MaxTimeouts \in Nat

VARIABLES
    \* dcc.c: the engine
    locos,          \* address -> loco state
    loop_state,     \* 0 is LOOP_STATE_SPEED, g is function group g
    estop_all,      \* global emergency stop held
    last_throttle,  \* most recent throttle command, for the display
    \* the queues
    input_queue,    \* packets sent to the priority queue task
    heap,           \* packets in the priority queue
    top,            \* the packet at the root of the heap
    output_queue,   \* packets sent to wavegen
    \* the tasks
    pc,             \* task -> where it is
    hand,           \* task -> the packet it is about to allocate or send
    pending,        \* locos the running reminder pass has yet to visit
    forgetting,     \* the address dcc_forget_loco is working on, or None
    \* the layout
    wire,           \* address -> last speed byte its decoder was sent
    wire_fn,        \* address -> function groups its decoder was sent as on
    \* bounds
    commands, timeouts

engine_vars == <<locos, loop_state, estop_all, last_throttle>>
queue_vars  == <<input_queue, heap, top, output_queue>>
task_vars   == <<pc, hand, pending, forgetting>>
wire_vars   == <<wire, wire_fn>>
bound_vars  == <<commands, timeouts>>
vars == <<engine_vars, queue_vars, task_vars, wire_vars, bound_vars>>

-----------------------------------------------------------------------------
(* Data *)

None    == 0    \* no address
Groups  == 1..NumGroups
Senders == {"lcc", "railcom", "reminder"}
Tasks   == Senders \union {"pqueue", "wavegen"}

PRIORITY_LOW       == 25
PRIORITY_HIGH      == 75
PRIORITY_EMERGENCY == 100
Priorities == {PRIORITY_LOW, PRIORITY_HIGH, PRIORITY_EMERGENCY}

\* A speed byte: bit 7 is the direction, bits 0-6 the speed; 1 is e-stop.
SpeedBytes == 0..255
Direction(step) == IF step >= 128 THEN 128 ELSE 0
Speed(step) == step - Direction(step)
IsMoving(step) == Speed(step) >= 2

\* Speed step 1 with the direction bit kept.
estop_step(step) == Direction(step) + 1

(* A packet.  op and its arguments stand for the data bytes: "speed" (arg  *)
(* is the speed byte), "fn" (group grp, arg 1 when its function is on),    *)
(* "estop" (the 0x00 0x71 broadcast) and "cmd" (arg tells apart the POM    *)
(* and accessory commands, which the engine sends and forgets).            *)
Packets == [address: Addrs \union {0}, op: {"speed", "fn", "estop", "cmd"},
            grp: 0..NumGroups, arg: SpeedBytes,
            priority: Priorities, repeats: 0..Repeats]

\* NULL.
NoPacket == [address |-> 0, op |-> "none", grp |-> 0, arg |-> 0,
             priority |-> PRIORITY_LOW, repeats |-> 0]

SpeedPacket(a, step, prio) ==
    [address |-> a, op |-> "speed", grp |-> 0, arg |-> step,
     priority |-> prio, repeats |-> 0]

\* A throttle packet: emergency priority for the bytes 0x00 and 0x01 only.
build_throttle_packet(a, step) ==
    SpeedPacket(a, step, IF step < 2 THEN PRIORITY_EMERGENCY ELSE PRIORITY_HIGH)

FnPacket(a, g) ==
    [address |-> a, op |-> "fn", grp |-> g,
     arg |-> IF g \in locos[a].functions THEN 1 ELSE 0,
     priority |-> PRIORITY_LOW, repeats |-> 0]

BroadcastEstop ==
    [address |-> 0, op |-> "estop", grp |-> 0, arg |-> 0,
     priority |-> PRIORITY_EMERGENCY, repeats |-> Repeats]

CommandPacket(a, id, n) ==
    [address |-> a, op |-> "cmd", grp |-> 0, arg |-> id,
     priority |-> PRIORITY_HIGH, repeats |-> n]

SamePayload(p, q) ==
    p.address = q.address /\ p.op = q.op /\ p.grp = q.grp /\ p.arg = q.arg

Moving(p) == p.op = "speed" /\ IsMoving(p.arg)

-----------------------------------------------------------------------------
(* The pool.  A packet occupies a slot from packet_alloc to packet_free:   *)
(* while it is queued and while a task has it in hand to send.             *)

InUse == Len(input_queue) + Cardinality(heap) + Len(output_queue)
         + Cardinality({t \in Tasks : pc[t] = "send"})

-----------------------------------------------------------------------------
(* The engine's loco table.  One entry per address, kept by                *)
(* find_or_create_loco_locked, so it is a function of the address.         *)

NewLoco == [active |-> TRUE, speed_step |-> 0,
            functions |-> {}, group_flags |-> {}]

\* A free entry of the table.
FreeLoco == [active |-> FALSE, speed_step |-> 0,
             functions |-> {}, group_flags |-> {}]

Active == {a \in Addrs : locos[a].active}

find_or_create_loco(a) ==
    IF locos[a].active \/ Cardinality(Active) >= MaxLocos
    THEN locos
    ELSE [locos EXCEPT ![a] = NewLoco]

\* The reminder task holds the mutex over a whole pass; every other critical
\* section is one step of this model.
MutexFree == pc["reminder"] = "idle"

LccReady ==
    /\ pc["lcc"] = "idle"
    /\ commands < MaxCommands
    /\ commands' = commands + 1

StartJob(t, p) ==
    /\ pc' = [pc EXCEPT ![t] = "alloc"]
    /\ hand' = [hand EXCEPT ![t] = p]

\* The speed is stored under the mutex; the packet is built after it.
dcc_set_throttle(a, step) ==
    LET table == find_or_create_loco(a)
        ok == table[a].active
    IN  /\ LccReady
        /\ MutexFree
        /\ locos' = IF ok THEN [table EXCEPT ![a].speed_step = step] ELSE locos
        /\ last_throttle' = IF ok THEN [valid |-> TRUE, address |-> a, speed_step |-> step]
                                  ELSE last_throttle
        /\ IF ok /\ ~estop_all
           THEN StartJob("lcc", build_throttle_packet(a, step))
           ELSE UNCHANGED <<pc, hand>>
        /\ UNCHANGED <<loop_state, estop_all, queue_vars, pending, forgetting, wire_vars, timeouts>>

\* Mutant: the group of a changed function is not flagged.
KeepGroupFlags(flags, g) == flags

fn_update_group_flags(flags, g) == flags \union {g}

\* No packet: the reminder loop sends the groups flagged here.
dcc_set_function(a, g, on) ==
    LET table == find_or_create_loco(a)
        fns == IF on THEN table[a].functions \union {g} ELSE table[a].functions \ {g}
        flags == IF fns # table[a].functions
                 THEN fn_update_group_flags(table[a].group_flags, g)
                 ELSE table[a].group_flags
    IN  /\ LccReady
        /\ MutexFree
        /\ locos' = IF table[a].active
                    THEN [table EXCEPT ![a].functions = fns, ![a].group_flags = flags]
                    ELSE locos
        /\ UNCHANGED <<loop_state, estop_all, last_throttle,
                       queue_vars, task_vars, wire_vars, timeouts>>

dcc_ensure_loco(a) ==
    /\ LccReady
    /\ MutexFree
    /\ locos' = find_or_create_loco(a)
    /\ UNCHANGED <<loop_state, estop_all, last_throttle,
                   queue_vars, task_vars, wire_vars, timeouts>>

\* Mutant: an e-stop leaves the display's copy of the speed alone.
KeepLastThrottle(a, step) == last_throttle

\* What the display shows follows the stop of the loco it shows.
StopLastThrottle(a, step) ==
    IF last_throttle.valid /\ last_throttle.address = a
    THEN [last_throttle EXCEPT !.speed_step = step]
    ELSE last_throttle

\* The locked part of dcc_emergency_stop, then its packet.
StoreEmergencyStop(a) ==
    LET loco == locos[a]
        step == IF loco.active THEN Direction(loco.speed_step) ELSE 0
    IN  /\ locos' = IF loco.active THEN [locos EXCEPT ![a].speed_step = step] ELSE locos
        /\ last_throttle' = IF loco.active THEN StopLastThrottle(a, step) ELSE last_throttle
        /\ StartJob("lcc", SpeedPacket(a, estop_step(step), PRIORITY_EMERGENCY))

dcc_emergency_stop(a) ==
    /\ LccReady
    /\ MutexFree
    /\ StoreEmergencyStop(a)
    /\ UNCHANGED <<loop_state, estop_all, queue_vars, pending, forgetting, wire_vars, timeouts>>

\* Stops the loco, then (dcc_forget_loco_finish) drops it from the table.
dcc_forget_loco(a) ==
    /\ LccReady
    /\ MutexFree
    /\ StoreEmergencyStop(a)
    /\ forgetting' = a
    /\ UNCHANGED <<loop_state, estop_all, queue_vars, pending, wire_vars, timeouts>>

dcc_forget_loco_finish ==
    /\ pc["lcc"] = "forget"
    /\ MutexFree
    /\ locos' = [locos EXCEPT ![forgetting].active = FALSE]
    /\ forgetting' = None
    /\ pc' = [pc EXCEPT !["lcc"] = "idle"]
    /\ UNCHANGED <<loop_state, estop_all, last_throttle, queue_vars,
                   hand, pending, wire_vars, bound_vars>>

dcc_emergency_stop_all ==
    /\ LccReady
    /\ MutexFree
    /\ estop_all' = TRUE
    /\ StartJob("lcc", BroadcastEstop)
    /\ UNCHANGED <<locos, loop_state, last_throttle, queue_vars, pending, forgetting, wire_vars, timeouts>>

dcc_clear_emergency_stop_all ==
    /\ LccReady
    /\ MutexFree
    /\ estop_all' = FALSE
    /\ UNCHANGED <<locos, loop_state, last_throttle, queue_vars,
                   task_vars, wire_vars, timeouts>>

\* POM writes, the CV short forms and the accessory commands: one packet,
\* no engine state.
dcc_send_command(a, id) ==
    /\ LccReady
    /\ StartJob("lcc", CommandPacket(a, id, Repeats))
    /\ UNCHANGED <<engine_vars, queue_vars, pending,
                   forgetting, wire_vars, timeouts>>

\* The RailCom task's POM read of a loco's CV.
dcc_pom_read_byte(a, id) ==
    /\ Railcom
    /\ pc["railcom"] = "idle"
    /\ commands < MaxCommands
    /\ commands' = commands + 1
    /\ StartJob("railcom", CommandPacket(a, id, Repeats))
    /\ UNCHANGED <<engine_vars, queue_vars, pending,
                   forgetting, wire_vars, timeouts>>

-----------------------------------------------------------------------------
(* Sending: packet_alloc, then xQueueSend with its 10 ms timeout *)

\* Where a sender goes on once its packet is sent or lost.
Resume(t) ==
    CASE t = "reminder" -> "visit"
      [] t = "lcc" /\ forgetting # None -> "forget"
      [] OTHER -> "idle"

\* packet_alloc and the builder; with the pool exhausted nothing is sent.
new_packet(t) ==
    /\ pc[t] = "alloc"
    /\ \/ /\ InUse < PoolSize
          /\ pc' = [pc EXCEPT ![t] = "send"]
          /\ UNCHANGED hand
       \/ /\ InUse >= PoolSize
          /\ pc' = [pc EXCEPT ![t] = Resume(t)]
          /\ hand' = [hand EXCEPT ![t] = NoPacket]
    /\ UNCHANGED <<engine_vars, queue_vars, pending, forgetting, wire_vars, bound_vars>>

send_packet(t) ==
    /\ pc[t] = "send"
    /\ Len(input_queue) < InputDepth
    /\ input_queue' = Append(input_queue, hand[t])
    /\ hand' = [hand EXCEPT ![t] = NoPacket]
    /\ pc' = [pc EXCEPT ![t] = Resume(t)]
    /\ UNCHANGED <<engine_vars, heap, top, output_queue, pending, forgetting,
                   wire_vars, bound_vars>>

\* The queue stayed full for 10 ms: packet_free.
send_packet_timeout(t) ==
    /\ pc[t] = "send"
    /\ Len(input_queue) >= InputDepth
    /\ timeouts < MaxTimeouts
    /\ timeouts' = timeouts + 1
    /\ hand' = [hand EXCEPT ![t] = NoPacket]
    /\ pc' = [pc EXCEPT ![t] = Resume(t)]
    /\ UNCHANGED <<engine_vars, queue_vars, pending, forgetting, wire_vars, commands>>

-----------------------------------------------------------------------------
(* The reminder task: one pass per loop state, the mutex held throughout *)

dcc_update ==
    /\ pc["reminder"] = "idle"
    /\ pending' = Active
    /\ pc' = [pc EXCEPT !["reminder"] = "visit"]
    /\ UNCHANGED <<engine_vars, queue_vars, hand, forgetting, wire_vars, bound_vars>>

\* Mutant: a loco whose stored speed is zero gets no speed reminder.
SendsMovingReminder(a) ==
    \/ loop_state = 0 /\ Speed(locos[a].speed_step) # 0
    \/ loop_state \in locos[a].group_flags

\* Whether this loco has a packet to send in the current loop state.
SendsReminder(a) == loop_state = 0 \/ loop_state \in locos[a].group_flags

\* Mutant: the reminder sends the stored speed while the e-stop is held.
ReminderOfStoredSpeed(a) ==
    IF loop_state # 0 THEN FnPacket(a, loop_state)
    ELSE SpeedPacket(a, locos[a].speed_step, PRIORITY_LOW)

ReminderPacket(a) ==
    IF loop_state # 0 THEN FnPacket(a, loop_state)
    ELSE IF estop_all
         THEN SpeedPacket(a, estop_step(locos[a].speed_step), PRIORITY_EMERGENCY)
         ELSE SpeedPacket(a, locos[a].speed_step, PRIORITY_LOW)

send_reminder_packets(a) ==
    /\ pc["reminder"] = "visit"
    /\ a \in pending
    /\ pending' = pending \ {a}
    /\ IF SendsReminder(a) THEN StartJob("reminder", ReminderPacket(a))
                           ELSE UNCHANGED <<pc, hand>>
    /\ UNCHANGED <<engine_vars, queue_vars, forgetting, wire_vars, bound_vars>>

dcc_update_finish ==
    /\ pc["reminder"] = "visit"
    /\ pending = {}
    /\ loop_state' = (loop_state + 1) % (NumGroups + 1)
    /\ pc' = [pc EXCEPT !["reminder"] = "idle"]
    /\ UNCHANGED <<locos, estop_all, last_throttle, queue_vars, hand, pending,
                   forgetting, wire_vars, bound_vars>>

-----------------------------------------------------------------------------
(* The priority queue task *)

\* Mutant: the comparison includes the priority.
pqueue_contains_exactly(p) == p \in heap

\* Same address and same bytes; the priority is not compared.
pqueue_contains(p) == \E q \in heap : SamePayload(p, q)

\* Mutant: > for >=.
pqueue_is_overfull == Cardinality(heap) > HeapCapacity

pqueue_is_full == Cardinality(heap) >= HeapCapacity

\* Mutant: count <= 1 for count == 0.
pqueue_is_nearly_empty == Cardinality(heap) <= 1

pqueue_is_empty == heap = {}

Highest(S) == {p \in S : \A q \in S : q.priority <= p.priority}

\* One turn of the drain loop: a duplicate, or a packet that finds the heap
\* full, is freed; any other is pushed.
pqueue_drain ==
    LET p == Head(input_queue) IN
    /\ pc["pqueue"] = "drain"
    /\ input_queue # <<>>
    /\ input_queue' = Tail(input_queue)
    /\ IF pqueue_contains(p) \/ pqueue_is_full
       THEN UNCHANGED <<heap, top>>
       ELSE /\ heap' = heap \union {p}
            /\ top' = IF heap = {} \/ p.priority > top.priority THEN p ELSE top
    /\ UNCHANGED <<engine_vars, output_queue, task_vars, wire_vars, bound_vars>>

\* xQueueReceive found the input empty: go on to dispatch.
pqueue_drained ==
    /\ pc["pqueue"] = "drain"
    /\ input_queue = <<>>
    /\ ~pqueue_is_empty
    /\ pc' = [pc EXCEPT !["pqueue"] = "pop"]
    /\ UNCHANGED <<engine_vars, queue_vars, hand, pending, forgetting,
                   wire_vars, bound_vars>>

\* A packet with repeats left stays, and a copy of it goes out.
pqueue_pop_copy ==
    LET stays == [top EXCEPT !.repeats = @ - 1] IN
    /\ pc["pqueue"] = "pop"
    /\ top.repeats > 0
    /\ InUse < PoolSize
    /\ heap' = (heap \ {top}) \union {stays}
    /\ top' = stays
    /\ hand' = [hand EXCEPT !["pqueue"] = [top EXCEPT !.repeats = 0]]
    /\ pc' = [pc EXCEPT !["pqueue"] = "send"]
    /\ UNCHANGED <<engine_vars, input_queue, output_queue, pending, forgetting,
                   wire_vars, bound_vars>>

\* No slot for the copy: nothing goes out this time round.
pqueue_pop_nothing ==
    /\ pc["pqueue"] = "pop"
    /\ top.repeats > 0
    /\ InUse >= PoolSize
    /\ pc' = [pc EXCEPT !["pqueue"] = "drain"]
    /\ UNCHANGED <<engine_vars, queue_vars, hand, pending, forgetting,
                   wire_vars, bound_vars>>

\* The last copy is the packet itself; some packet of the highest remaining
\* priority becomes the root.
pqueue_pop_last ==
    /\ pc["pqueue"] = "pop"
    /\ top.repeats = 0
    /\ heap' = heap \ {top}
    /\ IF heap' = {} THEN top' = NoPacket ELSE top' \in Highest(heap')
    /\ hand' = [hand EXCEPT !["pqueue"] = top]
    /\ pc' = [pc EXCEPT !["pqueue"] = "send"]
    /\ UNCHANGED <<engine_vars, input_queue, output_queue, pending, forgetting,
                   wire_vars, bound_vars>>

pqueue_send ==
    /\ pc["pqueue"] = "send"
    /\ Len(output_queue) < OutputDepth
    /\ output_queue' = Append(output_queue, hand["pqueue"])
    /\ hand' = [hand EXCEPT !["pqueue"] = NoPacket]
    /\ pc' = [pc EXCEPT !["pqueue"] = "drain"]
    /\ UNCHANGED <<engine_vars, input_queue, heap, top, pending, forgetting,
                   wire_vars, bound_vars>>

\* wavegen stayed behind for 10 ms: packet_free.
pqueue_send_timeout ==
    /\ pc["pqueue"] = "send"
    /\ Len(output_queue) >= OutputDepth
    /\ timeouts < MaxTimeouts
    /\ timeouts' = timeouts + 1
    /\ hand' = [hand EXCEPT !["pqueue"] = NoPacket]
    /\ pc' = [pc EXCEPT !["pqueue"] = "drain"]
    /\ UNCHANGED <<engine_vars, queue_vars, pending, forgetting, wire_vars, commands>>

-----------------------------------------------------------------------------
(* The wavegen task, and what the decoders make of a packet *)

wavegen_receive ==
    /\ pc["wavegen"] = "idle"
    /\ output_queue # <<>>
    /\ output_queue' = Tail(output_queue)
    /\ hand' = [hand EXCEPT !["wavegen"] = Head(output_queue)]
    /\ pc' = [pc EXCEPT !["wavegen"] = "send"]
    /\ UNCHANGED <<engine_vars, input_queue, heap, top, pending, forgetting,
                   wire_vars, bound_vars>>

\* What the decoders hold once a packet is on the track.
Transmit(p) ==
    /\ wire' = CASE p.op = "speed" -> [wire EXCEPT ![p.address] = p.arg]
                 [] p.op = "estop" -> [a \in Addrs |-> estop_step(wire[a])]
                 [] OTHER -> wire
    /\ wire_fn' = IF p.op = "fn"
                  THEN [wire_fn EXCEPT ![p.address] =
                           IF p.arg = 1 THEN @ \union {p.grp} ELSE @ \ {p.grp}]
                  ELSE wire_fn

wavegen_send ==
    /\ pc["wavegen"] = "send"
    /\ Transmit(hand["wavegen"])
    /\ hand' = [hand EXCEPT !["wavegen"] = NoPacket]
    /\ pc' = [pc EXCEPT !["wavegen"] = "idle"]
    /\ UNCHANGED <<engine_vars, queue_vars, pending, forgetting, bound_vars>>

-----------------------------------------------------------------------------
(* The specification *)

Init ==
    /\ locos = [a \in Addrs |-> FreeLoco]
    /\ loop_state = 0
    /\ estop_all = FALSE
    /\ last_throttle = [valid |-> FALSE, address |-> 0, speed_step |-> 0]
    /\ input_queue = <<>>
    /\ heap = {}
    /\ top = NoPacket
    /\ output_queue = <<>>
    /\ pc = [t \in Tasks |-> IF t = "pqueue" THEN "drain" ELSE "idle"]
    /\ hand = [t \in Tasks |-> NoPacket]
    /\ pending = {}
    /\ forgetting = None
    /\ wire = [a \in Addrs |-> 0]
    /\ wire_fn = [a \in Addrs |-> {}]
    /\ commands = 0
    /\ timeouts = 0

Client ==
    \/ \E a \in Addrs, step \in Throttles : dcc_set_throttle(a, step)
    \/ \E a \in Addrs, g \in Groups, on \in BOOLEAN : dcc_set_function(a, g, on)
    \/ \E a \in Addrs : dcc_ensure_loco(a)
    \/ \E a \in Addrs : dcc_emergency_stop(a)
    \/ \E a \in Addrs : dcc_forget_loco(a)
    \/ dcc_emergency_stop_all
    \/ dcc_clear_emergency_stop_all
    \/ \E a \in Addrs : dcc_send_command(a, 1)
    \/ \E a \in Addrs : dcc_pom_read_byte(a, 2)

\* A sender that has begun a packet runs until it is sent or lost.
Sender(t) == new_packet(t) \/ send_packet(t) \/ send_packet_timeout(t)

Reminder ==
    \/ dcc_update
    \/ \E a \in Addrs : send_reminder_packets(a)
    \/ dcc_update_finish
    \/ Sender("reminder")

PQueue ==
    \/ pqueue_drain \/ pqueue_drained
    \/ pqueue_pop_copy \/ pqueue_pop_nothing \/ pqueue_pop_last
    \/ pqueue_send \/ pqueue_send_timeout

Wavegen == wavegen_receive \/ wavegen_send

Next ==
    \/ Client
    \/ Sender("lcc")
    \/ Sender("railcom")
    \/ dcc_forget_loco_finish
    \/ Reminder
    \/ PQueue
    \/ Wavegen

Spec == Init /\ [][Next]_vars

\* Every task is a FreeRTOS task that keeps being scheduled; the client is
\* free to send no further command.  task_priority_queue (priority 5) outranks
\* its senders (3 and 2), which pause for milliseconds between packets: a
\* drain loop that keeps finding the input empty ends, and a pop that keeps
\* finding a slot takes it, before a sender gets in between every time.
Fairness ==
    /\ WF_vars(Reminder)
    /\ WF_vars(PQueue)
    /\ SF_vars(pqueue_drained)
    /\ SF_vars(pqueue_pop_copy)
    /\ WF_vars(Wavegen)
    /\ WF_vars(Sender("lcc"))
    /\ WF_vars(Sender("railcom"))
    /\ WF_vars(dcc_forget_loco_finish)

FairSpec == Spec /\ Fairness

-----------------------------------------------------------------------------
(* Properties *)

LocoStates == [active: BOOLEAN, speed_step: SpeedBytes,
               functions: SUBSET Groups, group_flags: SUBSET Groups]

EngineTypeOK ==
    /\ locos \in [Addrs -> LocoStates]
    /\ loop_state \in 0..NumGroups
    /\ estop_all \in BOOLEAN
    /\ last_throttle \in [valid: BOOLEAN, address: Addrs \union {None}, speed_step: SpeedBytes]

QueueTypeOK ==
    /\ input_queue \in Seq(Packets) /\ Len(input_queue) <= InputDepth
    /\ heap \in SUBSET Packets /\ IsFiniteSet(heap) /\ Cardinality(heap) <= HeapCapacity
    /\ top \in Packets \union {NoPacket}
    /\ output_queue \in Seq(Packets) /\ Len(output_queue) <= OutputDepth

TaskTypeOK ==
    /\ pc \in [Tasks -> {"idle", "alloc", "send", "forget", "visit", "drain", "pop"}]
    /\ hand \in [Tasks -> Packets \union {NoPacket}]
    /\ pending \in SUBSET Addrs
    /\ forgetting \in Addrs \union {None}

LayoutTypeOK ==
    /\ wire \in [Addrs -> SpeedBytes]
    /\ wire_fn \in [Addrs -> SUBSET (0..NumGroups)]

\* Every variable has its type, and the queues keep within their depth.
TypeOK ==
    /\ EngineTypeOK
    /\ QueueTypeOK
    /\ TaskTypeOK
    /\ LayoutTypeOK
    /\ commands \in Nat
    /\ timeouts \in Nat

\* The heap never holds two packets that put the same bytes on the track,
\* whatever their priorities and repeats: the reminder loop, which repeats
\* itself every pass, cannot fill it.
HeapHasNoDuplicates ==
    \A p, q \in heap : SamePayload(p, q) => p = q

\* The display's last throttle shows the stored speed of that loco whenever
\* the loco is in the table (e-stops and forgets update both).
LastThrottleAgrees ==
    last_throttle.valid /\ locos[last_throttle.address].active =>
        Speed(last_throttle.speed_step) = Speed(locos[last_throttle.address].speed_step)

\* While the global e-stop is held, no sender has a packet under way that
\* would set a loco moving: a throttle command that saw no e-stop has handed
\* its packet over, and a reminder pass that began before it has ended.
HeldSendersAreStill ==
    estop_all => \A t \in Senders : ~Moving(hand[t])

\* The byte the reminder loop keeps sending a loco.
Target(a) == IF estop_all THEN estop_step(locos[a].speed_step) ELSE locos[a].speed_step

AtTarget(a) == locos[a].active => wire[a] = Target(a)

\* The decoder has the function as the engine stored it.
FunctionSet(a, g) ==
    locos[a].active /\ g \in locos[a].functions \union locos[a].group_flags =>
        (g \in wire_fn[a] <=> g \in locos[a].functions)

\* Once the commands stop coming, a lone loco settles at the speed the engine
\* has stored for it (stopped, while the e-stop is held), whatever packets
\* were lost, overtaken or delayed on the way.
SpeedConverges == \A a \in Addrs : <>[]AtTarget(a)

\* The heap is not fair between packets of one priority.  Provided the track
\* keeps up, so that the heap empties again and again, the functions of a loco
\* reach its decoder: a function command sends no packet of its own and relies
\* on the group flag and the reminder loop.
FunctionsConverge ==
    []<>(heap = {}) => \A a \in Addrs, g \in Groups : <>[]FunctionSet(a, g)

\* A packet in the heap never blocks the pipeline for good: something
\* reaches the track, even with the pool exhausted and copies to make.
PipelineFlows == (heap # {}) ~> (pc["wavegen"] = "send")

\* "holds every loco stopped until dcc_clear_emergency_stop_all" (dcc.h):
\* while the global e-stop is held, a loco that took the e-stop is not started
\* again.
HeldLocosStayStopped ==
    [][\A a \in Addrs : estop_all /\ estop_all' /\ Speed(wire[a]) = 1 =>
            ~IsMoving(wire'[a])]_vars

\* "Its stored speed becomes zero (direction kept), so the reminder loop
\* doesn't start it again" (dcc.h): no packet of the reminder loop starts a
\* loco that took an e-stop and whose stored speed is zero.
StoppedLocosStayStopped ==
    [][\A a \in Addrs :
            /\ locos[a].active
            /\ Speed(locos[a].speed_step) = 0
            /\ wire[a] = estop_step(locos[a].speed_step)
            /\ hand["wavegen"].priority = PRIORITY_LOW
            => ~IsMoving(wire'[a])]_vars
=============================================================================
