------------------------------- MODULE Events -------------------------------
(***************************************************************************)
(* The event exchange of src/lcc/lcc_events.c and its users: the emergency *)
(* events of src/protocol/lcc_interface.c and the accessory decoders of    *)
(* src/lcc/lcc_accessory.c.                                                *)
(*                                                                         *)
(* An accessory event is the number in its low bits, the others are the    *)
(* small numbers below.  The LCC task runs every handler to its end.       *)
(***************************************************************************)
EXTENDS Integers, Sequences, FiniteSets, FiniteSetsExt

CONSTANTS
    LCC_MAX_EVENT_REGISTRATIONS, LCC_MAX_EVENT_RANGES,
    Trains,         \* the train nodes, besides the command station's own
    Addrs,          \* accessory outputs and signals the layout uses
    Aspects,        \* signal aspects
    MaxReports      \* bound: event reports

EventsAssumption ==
    /\ LCC_MAX_EVENT_REGISTRATIONS \in Nat /\ LCC_MAX_EVENT_REGISTRATIONS >= 5
    /\ LCC_MAX_EVENT_RANGES \in Nat /\ LCC_MAX_EVENT_RANGES >= 3
    /\ Addrs \subseteq 0..2047 /\ Aspects \subseteq 0..255
    /\ MaxReports \in Nat
    /\ "cs" \notin Trains

EMERGENCY_OFF == 4
CLEAR_EMERG_OFF == 3
EMERGENCY_STOP == 2
CLEAR_EMERG_STOP == 1
IS_PROGRAMMING_TRACK == 5
IS_TRAIN == 6
ACTIVATE_BASE == 16711680       \* 0xFF0000
DEACTIVATE_BASE == 16646144     \* 0xFE0000
EXT_BASE == 16777216            \* 0x1000000

VARIABLES
    g_table, g_ranges,      \* the registrations, in their order
    g_known, g_normal,      \* the outputs with a state, and those that are normal
    power_on, held,         \* main track power, and the engine's emergency stop
    confirmed,              \* the train nodes that have an alias
    replies,                \* what the last frame was answered with
    reported,               \* the reports so far, as the layout means them
    calls,                  \* the handlers the last report reached
    sent, aspect            \* the last packet of each output and signal, if any

accessory == <<g_known, g_normal, sent, aspect>>
tables == <<g_table, g_ranges>>
vars == <<tables, accessory, power_on, held, confirmed, replies, reported, calls>>

States == {"UNKNOWN", "VALID", "INVALID"}

(***************************************************************************)
(* What the layout means by an event (lcc_defs.h).                         *)
(***************************************************************************)
Basic == [kind : {"activate", "deactivate"}, addr : Addrs, normal : BOOLEAN]
Extended == [kind : {"ext"}, addr : Addrs, aspect : Aspects]
Emergency == [kind : {"off", "on", "stop", "go"}]
Stray == [kind : {"stray"}, ev : {IS_TRAIN, ACTIVATE_BASE + 4096, EXT_BASE - 1}]
Reports == Basic \cup Extended \cup Emergency \cup Stray

EventOf(m) ==
    CASE m.kind = "activate" -> ACTIVATE_BASE + 2 * m.addr + (IF m.normal THEN 1 ELSE 0)
      [] m.kind = "deactivate" -> DEACTIVATE_BASE + 2 * m.addr + (IF m.normal THEN 1 ELSE 0)
      [] m.kind = "ext" -> EXT_BASE + 256 * m.addr + m.aspect
      [] m.kind = "off" -> EMERGENCY_OFF
      [] m.kind = "on" -> CLEAR_EMERG_OFF
      [] m.kind = "stop" -> EMERGENCY_STOP
      [] m.kind = "go" -> CLEAR_EMERG_STOP
      [] m.kind = "stray" -> m.ev

Events == {EventOf(m) : m \in Reports} \cup {IS_PROGRAMMING_TRACK}

(***************************************************************************)
(* Registration, in the order of lcc_interface_init.  A full table takes   *)
(* nothing, and the caller does not look.                                  *)
(***************************************************************************)
lcc_events_register(t, ev, producer, on, st) ==
    IF Len(t) < LCC_MAX_EVENT_REGISTRATIONS
    THEN Append(t, [ev |-> ev, producer |-> producer, on |-> on, st |-> st]) ELSE t

\* A range has 2^12 or 2^19 events.
lcc_events_register_consumer_range(t, base, size, on, st) ==
    IF Len(t) < LCC_MAX_EVENT_RANGES
    THEN Append(t, [base |-> base, size |-> size, on |-> on, st |-> st]) ELSE t

lcc_interface_init ==
    LET t1 == lcc_events_register(<<>>, IS_PROGRAMMING_TRACK, TRUE, "none", "none")
        t2 == lcc_events_register(t1, EMERGENCY_OFF, FALSE, "emergency", "power")
        t3 == lcc_events_register(t2, CLEAR_EMERG_OFF, FALSE, "emergency", "power")
        t4 == lcc_events_register(t3, EMERGENCY_STOP, FALSE, "emergency", "estop")
    IN  lcc_events_register(t4, CLEAR_EMERG_STOP, FALSE, "emergency", "estop")

lcc_accessory_init ==
    LET r1 == lcc_events_register_consumer_range(<<>>, ACTIVATE_BASE, 4096, "basic", "basic")
        r2 == lcc_events_register_consumer_range(r1, DEACTIVATE_BASE, 4096, "basic", "basic")
    IN  lcc_events_register_consumer_range(r2, EXT_BASE, 524288, "extended", "none")

Init ==
    /\ g_table = lcc_interface_init /\ g_ranges = lcc_accessory_init
    /\ g_known = {} /\ g_normal = {} /\ sent = [a \in Addrs |-> {}]
    /\ aspect = [a \in Addrs |-> {}]
    /\ power_on = FALSE /\ held = FALSE /\ confirmed = {}
    /\ replies = {} /\ reported = <<>> /\ calls = 0

(***************************************************************************)
(* States.                                                                 *)
(***************************************************************************)
Addr(ev) == (ev \div 2) % 2048
Normal(ev) == ev % 2 = 1

basic_state(ev) ==
    IF Addr(ev) \notin g_known THEN "UNKNOWN"
    ELSE IF (Addr(ev) \in g_normal) = Normal(ev) THEN "VALID" ELSE "INVALID"

power_event_state(ev) == IF (ev = EMERGENCY_OFF) = ~power_on THEN "VALID" ELSE "INVALID"
estop_event_state(ev) == IF (ev = EMERGENCY_STOP) = held THEN "VALID" ELSE "INVALID"

StateOf(r, ev) ==
    CASE r.st = "basic" -> basic_state(ev)
      [] r.st = "power" -> power_event_state(ev)
      [] r.st = "estop" -> estop_event_state(ev)
      [] r.st = "none" -> "UNKNOWN"

InRange(r, ev) == ev - (ev % r.size) = r.base

find_range(n, ev) ==
    {i \in 1..Len(g_ranges) : n = "cs" /\ InRange(g_ranges[i], ev)
                              /\ \A j \in 1..(i - 1) : ~InRange(g_ranges[j], ev)}

\* Mutant: the bit above the range is read the wrong way.
range_event_swapped(r) == IF (r.base \div r.size) % 2 = 0 THEN r.base ELSE r.base + r.size - 1

range_event(r) == IF (r.base \div r.size) % 2 = 1 THEN r.base ELSE r.base + r.size - 1

(***************************************************************************)
(* Identify.                                                               *)
(***************************************************************************)
Reply(n, role, ev, st) == [node |-> n, role |-> role, ev |-> ev, st |-> st]

send_is_train(n) ==
    IF n \in Trains THEN {Reply(n, "producer", IS_TRAIN, "UNKNOWN")} ELSE {}

send_identified(n, r, ev) ==
    Reply(n, IF r.producer THEN "producer" ELSE "consumer", ev, StateOf(r, ev))

emit_identities_for_node(n) ==
    send_is_train(n)
    \cup (IF n # "cs" THEN {} ELSE
            {send_identified(n, g_table[i], g_table[i].ev) : i \in 1..Len(g_table)}
            \cup {Reply(n, "range", range_event(g_ranges[i]), "UNKNOWN") :
                    i \in 1..Len(g_ranges)})

handle_single_identify(n, ev, producer) ==
    LET first == {i \in 1..Len(g_table) : n = "cs" /\ g_table[i].producer = producer
                                          /\ g_table[i].ev = ev}
    IN  IF producer /\ ev = IS_TRAIN THEN send_is_train(n)
        ELSE IF first # {} THEN {send_identified(n, g_table[Min(first)], ev)}
        ELSE {Reply(n, "consumer", ev, StateOf(g_ranges[i], ev)) :
                i \in IF producer THEN {} ELSE find_range(n, ev)}

\* A global frame reaches every node with an alias, an addressed one its own.
Online == {"cs"} \cup confirmed

identify_events(ns) ==
    /\ replies' = UNION {emit_identities_for_node(n) : n \in ns}
    /\ UNCHANGED <<tables, accessory, power_on, held, confirmed, reported, calls>>

identify(ev, producer) ==
    /\ replies' = UNION {handle_single_identify(n, ev, producer) : n \in Online}
    /\ UNCHANGED <<tables, accessory, power_on, held, confirmed, reported, calls>>

\* Identities go out once the node has its alias (emit_claim_and_init).
lcc_events_announce(n) ==
    /\ n \notin confirmed
    /\ confirmed' = confirmed \cup {n}
    /\ replies' = emit_identities_for_node(n)
    /\ UNCHANGED <<tables, accessory, power_on, held, reported, calls>>

(***************************************************************************)
(* Event reports.                                                          *)
(***************************************************************************)
handle_emergency_event(ev) ==
    /\ power_on' = IF ev = EMERGENCY_OFF THEN FALSE
                   ELSE IF ev = CLEAR_EMERG_OFF THEN TRUE ELSE power_on
    /\ held' = IF ev = EMERGENCY_STOP THEN TRUE
               ELSE IF ev = CLEAR_EMERG_STOP THEN FALSE ELSE held
    /\ UNCHANGED accessory

\* Mutant: the state is kept from one activation to the next.
SetsState_activate(ev) == ev >= ACTIVATE_BASE

SetsState(ev) == TRUE

\* Mutant: the bases are mixed up.
Activates_swapped(ev) == ev \div 4096 = DEACTIVATE_BASE \div 4096

Activates(ev) == ev \div 4096 = ACTIVATE_BASE \div 4096

\* The engine drops the packet when the pool has none left.
on_basic(ev) ==
    /\ g_known' = IF SetsState(ev) THEN g_known \cup {Addr(ev)} ELSE g_known
    /\ g_normal' = IF ~SetsState(ev) THEN g_normal
                   ELSE IF Normal(ev) THEN g_normal \cup {Addr(ev)} ELSE g_normal \ {Addr(ev)}
    /\ \/ sent' = [sent EXCEPT ![Addr(ev)] =
                     {[normal |-> Normal(ev), activate |-> Activates(ev)]}]
       \/ sent' = sent
    /\ UNCHANGED <<aspect, power_on, held>>

on_extended(ev) ==
    /\ \/ aspect' = [aspect EXCEPT ![(ev \div 256) % 2048] = {ev % 256}]
       \/ aspect' = aspect
    /\ UNCHANGED <<g_known, g_normal, sent, power_on, held>>

Consumers(ev) == {i \in 1..Len(g_table) : ~g_table[i].producer /\ g_table[i].ev = ev}

lcc_events_handle_report(m) ==
    LET ev == EventOf(m)
        ranges == find_range("cs", ev)
    IN  /\ Len(reported) < MaxReports
        /\ reported' = Append(reported, m)
        /\ calls' = Cardinality(Consumers(ev)) + Cardinality(ranges)
        /\ \/ Consumers(ev) # {} /\ handle_emergency_event(ev)
           \/ /\ Consumers(ev) = {}
              /\ \/ \E i \in ranges : g_ranges[i].on = "basic" /\ on_basic(ev)
                 \/ \E i \in ranges : g_ranges[i].on = "extended" /\ on_extended(ev)
                 \/ ranges = {} /\ UNCHANGED <<accessory, power_on, held>>
        /\ replies' = {}
        /\ UNCHANGED <<tables, confirmed>>

lcc_events_handle_frame ==
    \/ identify_events(Online)
    \/ \E n \in Online : identify_events({n})
    \/ \E ev \in Events : identify(ev, TRUE) \/ identify(ev, FALSE)
    \/ \E m \in Reports : lcc_events_handle_report(m)

Next == lcc_events_handle_frame \/ \E n \in Trains : lcc_events_announce(n)

Spec == Init /\ [][Next]_vars

(***************************************************************************)
(* Properties.                                                             *)
(***************************************************************************)
TypeOK ==
    /\ Len(g_table) = 5 /\ Len(g_ranges) = 3
    /\ g_normal \subseteq g_known /\ g_known \subseteq Addrs
    /\ power_on \in BOOLEAN /\ held \in BOOLEAN
    /\ confirmed \subseteq Trains
    /\ \A r \in replies : r.ev \in Nat /\ r.st \in States

\* The last report of a set, {} if there was none.
LastOf(S) ==
    LET at == {i \in 1..Len(reported) : reported[i] \in S}
    IN  IF at = {} THEN {} ELSE {reported[Max(at)]}

Truth(m) ==
    CASE m \in Basic ->
            LET last == LastOf({r \in Basic : r.addr = m.addr})
            IN  IF last = {} THEN "UNKNOWN"
                ELSE IF \E r \in last : r.normal = m.normal THEN "VALID" ELSE "INVALID"
      [] m.kind \in {"off", "on"} ->
            LET on == \E r \in LastOf([kind : {"off", "on"}]) : r.kind = "on"
            IN  IF on = (m.kind = "on") THEN "VALID" ELSE "INVALID"
      [] m.kind \in {"stop", "go"} ->
            LET stop == \E r \in LastOf([kind : {"stop", "go"}]) : r.kind = "stop"
            IN  IF stop = (m.kind = "stop") THEN "VALID" ELSE "INVALID"
      [] OTHER -> "UNKNOWN"

\* basic_state, power_event_state and estop_event_state, over any sequence
\* of reports from any number of producers: what an Identified reply says of
\* an event is what the reports so far left in effect, for an output whether
\* an activate or a deactivate event set it.
RepliesAreTrue ==
    \A r \in replies, m \in Reports :
        (r.role # "range" /\ EventOf(m) = r.ev) => r.st = Truth(m)

\* The events a Range Identified stands for: as many as its equal low bits count.
PowersOf2 == {2, 4, 8, 16, 32, 64, 128, 256, 512, 1024, 2048, 4096, 8192, 16384, 32768, 65536,
              131072, 262144, 524288, 1048576, 2097152, 4194304, 8388608, 16777216}
SpanSize(ev) == Max({p \in PowersOf2 : (ev + (ev % 2)) % p = 0})
Span(ev) == LET size == SpanSize(ev)
                base == ev - (ev % size)
            IN  base..(base + size - 1)

\* range_event and find_range: when a node lists its events, those its
\* ranges stand for are exactly the ones a report of which reaches a range's
\* handler.
ClaimedIsConsumed ==
    LET claims == {r.ev : r \in {q \in replies : q.role = "range"}}
    IN  claims # {} => \A e \in Events :
            (\E c \in claims : e \in Span(c)) <=> find_range("cs", e) # {}

\* lcc_events_handle_frame: a report reaches one handler, one that nobody
\* consumes reaches none, and the packets sent for an output or a signal are
\* ones some report asked for.
ReportsAreActed ==
    /\ reported # <<>> =>
         calls = IF reported[Len(reported)].kind = "stray" THEN 0 ELSE 1
    /\ \A a \in Addrs : \A p \in sent[a] : \E i \in 1..Len(reported) :
         reported[i] = [kind |-> IF p.activate THEN "activate" ELSE "deactivate",
                        addr |-> a, normal |-> p.normal]
    /\ \A a \in Addrs : \A p \in aspect[a] : \E i \in 1..Len(reported) :
         reported[i] = [kind |-> "ext", addr |-> a, aspect |-> p]

\* lcc_accessory.h: the node "turns each Event Report into an accessory
\* packet": an output with a state has had the packet that sets it.
StateWasSent ==
    \A a \in g_known : \E p \in sent[a] : p.normal = (a \in g_normal)
=============================================================================
