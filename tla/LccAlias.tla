------------------------------ MODULE LccAlias ------------------------------
(***************************************************************************)
(* Alias allocation of the LCC nodes (src/lcc/lcc_alias.c), with the task  *)
(* loop that drives it (lcc_task.c), the allocation lock and the frame     *)
(* dispatch (lcc_if.c) and the node handlers that touch it (lcc_node.c).   *)
(*                                                                         *)
(* One task runs everything.  On a 100 ms tick it walks the registered     *)
(* nodes and advances each one's state machine; between ticks it           *)
(* dispatches frames received from the bus.  A frame sent by one local     *)
(* node is not received by the other local nodes.  Frames that arrive      *)
(* while the receive queue is full are lost.                               *)
(*                                                                         *)
(* known is the set of nodes whose alias the USB host has been told since  *)
(* it connected.  objected and gave_up record history for the properties.  *)
(***************************************************************************)
EXTENDS Integers, Sequences, FiniteSets

CONSTANTS
    Ids,                \* node number -> its node id, as four 12-bit chunks
    LCC_IF_RX_Q_LEN,
    ALIAS_WAIT_TICKS,
    ALIAS_MAX_RETRIES,
    RetryModulus,       \* alias_retries is a uint8_t: 256
    RemoteAliases,      \* aliases of the control frames other nodes send
    MaxRemote,          \* bound: frames other nodes send
    QuickReplug         \* USB may bounce between two ticks

Chunk == 0..4095        \* 12 bits

ASSUME AliasAssumption ==
    /\ LCC_IF_RX_Q_LEN \in Nat \ {0}
    /\ ALIAS_WAIT_TICKS \in Nat \ {0}
    /\ ALIAS_MAX_RETRIES \in Nat \ {0}
    /\ RetryModulus \in Nat /\ RetryModulus > ALIAS_MAX_RETRIES
    /\ RemoteAliases \subseteq 1..4095
    /\ MaxRemote \in Nat
    /\ QuickReplug \in BOOLEAN
    /\ Ids \in Seq([1..4 -> Chunk])
    /\ Ids # <<>>

LCC_MAX_NODES == Len(Ids)
Nodes == 1..LCC_MAX_NODES

VARIABLES
    count,          \* g_node_count
    alias,          \* node -> alias or candidate, 0 before the first tick
    alias_state,
    alias_wait_ticks,
    alias_retries,
    alias_mtx,      \* the lock is taken
    rx_q,           \* received frames
    cursor,         \* node the tick loop is at, 0 between ticks
    connected,      \* serial_write_ready()
    prev_connected,
    known,
    objected,       \* node -> candidates refused by a dispatched frame
    gave_up,        \* some node has used up its retries
    remote          \* frames other nodes have sent

usb == <<connected, prev_connected, known>>
machine == <<alias, alias_state, alias_wait_ticks, alias_retries, alias_mtx>>
vars == <<count, machine, rx_q, cursor, usb, objected, gave_up, remote>>

States == {"IDLE", "CID", "WAIT", "CONFIRMED", "CONFLICT"}

\* Frames from the bus that matter here: any control frame counts as a claim of
\* its source alias; AME and Verify Node ID ask a node, or all (0), to answer.
Frames == [field : {"RID", "AME"}, src : RemoteAliases, for : Nodes \union {0}]
          \union [field : {"VERIFY"}, src : RemoteAliases, for : Nodes \union {0}]

-----------------------------------------------------------------------------

\* The bit of x with the place value p.
Bit(x, p) == (x \div p) % 2

\* The bit with the place value p of the xor of four numbers, in its place.
XorBit(id, p) == p * ((Bit(id[1], p) + Bit(id[2], p) + Bit(id[3], p) + Bit(id[4], p)) % 2)

\* Xor of the four chunks of the node id, never 0.
lcc_alias_seed(id) ==
    LET x == XorBit(id, 1) + XorBit(id, 2) + XorBit(id, 4) + XorBit(id, 8)
             + XorBit(id, 16) + XorBit(id, 32) + XorBit(id, 64) + XorBit(id, 128)
             + XorBit(id, 256) + XorBit(id, 512) + XorBit(id, 1024) + XorBit(id, 2048)
    IN  IF x = 0 THEN 1 ELSE x

\* One step of the 12-bit shift register.
lcc_alias_next(a) ==
    LET bit == (Bit(a, 1) + Bit(a, 4) + Bit(a, 8) + Bit(a, 2048)) % 2
        b   == a \div 2 + bit * 2048
    IN  IF b = 0 THEN 1 ELSE b

Confirmed == {n \in 1..count : alias_state[n] = "CONFIRMED"}

\* Frames to the USB host are dropped while it is not connected.
tell_host(nodes) == known' = IF connected THEN known \union nodes ELSE known

\* RID, AMD, Initialization Complete and the node's events.
emit_claim_and_init(n) == tell_host({n})

-----------------------------------------------------------------------------
(* lcc_alias_tick, one action per state of the node the tick loop is at.   *)

Ticking(n, s) == cursor = n /\ n \in 1..count /\ alias_state[n] = s

\* Mutant: one pass too many.
NextNodeOver == cursor' = IF cursor > count THEN 0 ELSE cursor + 1

\* Mutant: the last node is left out.
NextNodeShort == cursor' = IF cursor + 1 >= count THEN 0 ELSE cursor + 1

NextNode == cursor' = IF cursor = count THEN 0 ELSE cursor + 1

TickSkip(n) ==
    /\ Ticking(n, "CONFIRMED")
    /\ NextNode
    /\ UNCHANGED <<count, machine, rx_q, usb, objected, gave_up, remote>>

Candidate(n) == IF alias[n] = 0 THEN lcc_alias_seed(Ids[n]) ELSE alias[n]

TickIdle(n) ==
    /\ Ticking(n, "IDLE")
    /\ alias' = [alias EXCEPT ![n] = Candidate(n)]
    /\ \/ alias_mtx /\ UNCHANGED <<alias_mtx, alias_state, alias_wait_ticks>>
       \/ /\ ~alias_mtx
          /\ alias_mtx' = TRUE
          /\ alias_state' = [alias_state EXCEPT ![n] = "CID"]
          /\ alias_wait_ticks' = [alias_wait_ticks EXCEPT ![n] = 0]
    /\ NextNode
    /\ UNCHANGED <<count, alias_retries, rx_q, usb, objected, gave_up,
                   remote>>

TickCid(n) ==
    /\ Ticking(n, "CID")
    /\ alias_state' = [alias_state EXCEPT ![n] = "WAIT"]
    /\ alias_wait_ticks' = [alias_wait_ticks EXCEPT ![n] = 0]
    /\ NextNode
    /\ UNCHANGED <<count, alias, alias_retries, alias_mtx, rx_q, usb, objected,
                   gave_up, remote>>

\* Claiming announces the alias and the node's events, then frees the lock.
TickWait(n) ==
    /\ Ticking(n, "WAIT")
    /\ alias_wait_ticks' = [alias_wait_ticks EXCEPT ![n] = @ + 1]
    /\ IF alias_wait_ticks'[n] >= ALIAS_WAIT_TICKS
       THEN /\ alias_state' = [alias_state EXCEPT ![n] = "CONFIRMED"]
            /\ alias_mtx' = FALSE
            /\ emit_claim_and_init(n)
       ELSE UNCHANGED <<alias_state, alias_mtx, known>>
    /\ NextNode
    /\ UNCHANGED <<count, alias, alias_retries, rx_q, connected, prev_connected,
                   objected, gave_up, remote>>

RetryConflict(n) ==
    /\ Ticking(n, "CONFLICT")
    /\ alias_retries' = [alias_retries EXCEPT ![n] = (@ + 1) % RetryModulus]
    /\ IF alias_retries'[n] >= ALIAS_MAX_RETRIES
       THEN gave_up' = TRUE /\ UNCHANGED <<alias, alias_state>>
       ELSE /\ alias' = [alias EXCEPT ![n] = lcc_alias_next(@)]
            /\ alias_state' = [alias_state EXCEPT ![n] = "IDLE"]
            /\ UNCHANGED gave_up
    /\ NextNode
    /\ UNCHANGED <<count, alias_wait_ticks, rx_q, usb, objected, remote>>

\* Mutant: the lock is freed only when the node claims.
TickConflictLocked(n) == RetryConflict(n) /\ UNCHANGED alias_mtx

TickConflict(n) == RetryConflict(n) /\ alias_mtx' = FALSE

\* Mutant: a host that has just connected is told nothing.
reannounce_none == UNCHANGED known

\* A host that has just connected is told every confirmed node.
reannounce_all_confirmed ==
    IF connected /\ ~prev_connected THEN tell_host(Confirmed) ELSE UNCHANGED known

\* A tick starts.
tick ==
    /\ cursor = 0
    /\ cursor' = 1
    /\ reannounce_all_confirmed
    /\ prev_connected' = connected
    /\ UNCHANGED <<count, machine, rx_q, connected, objected, gave_up, remote>>

-----------------------------------------------------------------------------
(* Frames.                                                                 *)

\* Mutant: a collision before the silent wait is not noticed.
on_collision_late(n) == alias_state[n] = "WAIT"

\* A node that is still allocating goes to CONFLICT; a confirmed one defends its
\* alias with a RID and stays as it is.
lcc_alias_on_collision(n) == alias_state[n] \in {"CID", "WAIT"}

\* The nodes whose alias a control frame carries as its source.
Collides(f) == {n \in 1..count : f.field # "VERIFY" /\ f.src = alias[n]}

Asked(f) == {n \in Confirmed : f.field # "RID" /\ f.for \in {0, n}}

lcc_if_dispatch ==
    /\ cursor = 0
    /\ rx_q # <<>>
    /\ LET f == Head(rx_q) IN
       /\ alias_state' = [n \in Nodes |-> IF n \in Collides(f) /\ lcc_alias_on_collision(n)
                                          THEN "CONFLICT" ELSE alias_state[n]]
       /\ objected' = [n \in Nodes |->
                IF n \in Collides(f) /\ alias_state[n] \in {"CID", "WAIT"}
                THEN objected[n] \union {f.src} ELSE objected[n]]
       /\ tell_host(Asked(f))
    /\ rx_q' = Tail(rx_q)
    /\ UNCHANGED <<count, alias, alias_wait_ticks, alias_retries, alias_mtx, cursor,
                   connected, prev_connected, gave_up, remote>>

\* A train node joins, IDLE and without an alias, while a frame is dispatched.
lcc_node_register ==
    /\ cursor = 0
    /\ count < LCC_MAX_NODES
    /\ count' = count + 1
    /\ UNCHANGED <<machine, rx_q, cursor, usb, objected, gave_up, remote>>

\* A frame of another node arrives, and is dropped when the queue is full.
lcc_if_enqueue_frame(f) ==
    /\ remote < MaxRemote
    /\ remote' = remote + 1
    /\ rx_q' = IF Len(rx_q) < LCC_IF_RX_Q_LEN THEN Append(rx_q, f) ELSE rx_q
    /\ UNCHANGED <<count, machine, cursor, usb, objected, gave_up>>

\* The host opens or closes the USB port.
usb_connect ==
    /\ ~connected
    /\ QuickReplug \/ ~prev_connected
    /\ connected' = TRUE
    /\ UNCHANGED <<count, machine, rx_q, cursor, prev_connected, known, objected,
                   gave_up, remote>>

usb_disconnect ==
    /\ connected
    /\ connected' = FALSE
    /\ known' = {}
    /\ UNCHANGED <<count, machine, rx_q, cursor, prev_connected, objected, gave_up, remote>>

-----------------------------------------------------------------------------

\* lcc_task_init and the registration of the command station node.
Init ==
    /\ count = 1
    /\ alias = [n \in Nodes |-> 0]
    /\ alias_state = [n \in Nodes |-> "IDLE"]
    /\ alias_wait_ticks = [n \in Nodes |-> 0]
    /\ alias_retries = [n \in Nodes |-> 0]
    /\ alias_mtx = FALSE
    /\ rx_q = <<>>
    /\ cursor = 0
    /\ connected = FALSE
    /\ prev_connected = FALSE
    /\ known = {}
    /\ objected = [n \in Nodes |-> {}]
    /\ gave_up = FALSE
    /\ remote = 0

lcc_alias_tick(n) ==
    TickSkip(n) \/ TickIdle(n) \/ TickCid(n) \/ TickWait(n) \/ TickConflict(n)

Next ==
    \/ tick
    \/ \E n \in Nodes : lcc_alias_tick(n)
    \/ lcc_if_dispatch
    \/ lcc_node_register
    \/ \E f \in Frames : lcc_if_enqueue_frame(f)
    \/ usb_connect
    \/ usb_disconnect

Spec == Init /\ [][Next]_vars

\* The LCC task keeps running: it takes received frames, and no stream of them
\* holds up a tick that is due.
Fairness ==
    /\ WF_vars(tick)
    /\ WF_vars(\E n \in Nodes : lcc_alias_tick(n))
    /\ WF_vars(lcc_if_dispatch)

FairSpec == Spec /\ Fairness

-----------------------------------------------------------------------------

TypeOK ==
    /\ count \in Nodes
    /\ alias \in [Nodes -> Chunk]
    /\ alias_state \in [Nodes -> States]
    /\ alias_wait_ticks \in [Nodes -> 0..ALIAS_WAIT_TICKS]
    /\ alias_retries \in [Nodes -> 0..RetryModulus - 1]
    /\ alias_mtx \in BOOLEAN
    /\ rx_q \in Seq(Frames) /\ Len(rx_q) <= LCC_IF_RX_Q_LEN
    /\ cursor \in 0..count
    /\ connected \in BOOLEAN /\ prev_connected \in BOOLEAN
    /\ known \subseteq Nodes
    /\ objected \in [Nodes -> SUBSET RemoteAliases]
    /\ gave_up \in BOOLEAN
    /\ remote \in 0..MaxRemote

\* Nodes with a reservation under way: those whose lock has not been freed.
Reserving == {n \in Nodes : alias_state[n] \in {"CID", "WAIT", "CONFLICT"}}

\* The lock is taken exactly while a node has a reservation under way, and only
\* one has, until a node uses up its retries.
ReservationsSerialized ==
    ~gave_up => /\ alias_mtx <=> Reserving # {}
                /\ \A m, n \in Reserving : m = n

\* At most one node has CID frames in flight, whatever happened before (what
\* the comment at the top of lcc_alias_tick says).
OneCidInFlight ==
    \A m, n \in Nodes : {alias_state[m], alias_state[n]} \subseteq {"CID", "WAIT"} => m = n

\* No node holds or tries again an alias another node has objected to, in a frame
\* dispatched while the node was reserving it.  An objection still queued when the
\* tick confirms the alias, or lost to a full queue, comes too late to count.
ObjectionsRespected ==
    \A n \in Nodes : alias_state[n] \in {"CID", "WAIT", "CONFIRMED"}
                     => alias[n] \notin objected[n]

\* A frame addressed to a confirmed local node's alias reaches that node: the
\* lookup finds the first confirmed node with the alias.
AliasesRouteToOwner ==
    \A m, n \in Confirmed : alias[m] = alias[n] => m = n

\* A host whose connection the task has noticed knows every confirmed node.
HostKnowsAliases == connected /\ prev_connected => Confirmed \subseteq known

\* A registered node gets its alias, unless some node used up its retries.
NodesGetAliases ==
    \A n \in Nodes : n <= count ~> alias_state[n] = "CONFIRMED" \/ gave_up

=============================================================================
