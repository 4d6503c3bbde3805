------------------------------ MODULE Traction ------------------------------
(***************************************************************************)
(* Traction control of the train nodes, src/lcc/lcc_traction.c: speed,     *)
(* function and emergency stop commands, their forwarding along consists,  *)
(* the consist tables, and who controls a train.                           *)
(*                                                                         *)
(* All of it runs on the LCC task.  A command forwarded to a local slave   *)
(* is handed to the slave's frame handler by a nested call; calls holds    *)
(* the calls still to be made, so that consists which list each other are  *)
(* followed as the code follows them.  Throttles and the rest of the bus   *)
(* are external: a throttle holds an alias, gives it up with an AMR frame  *)
(* or silently, and claims another with AMD.                               *)
(*                                                                         *)
(* A speed is a magnitude and a direction; NaN stands for a float16 that   *)
(* is no number.  dcc is what the DCC engine was told last for each loco.  *)
(***************************************************************************)
EXTENDS Integers, Sequences, FiniteSets

CONSTANTS
    Trains,             \* local train nodes
    Remote,             \* node ids of trains elsewhere that a consist may list
    Throttles,
    Aliases,            \* aliases throttles may hold
    Speeds,             \* magnitudes a throttle sets
    Fns,                \* functions it switches
    LCC_MAX_CONSIST_SLAVES,
    Mixes               \* mixes of requests: operations, sets of consist flags to
                        \* attach with, and a bound on the requests

NaN == -1
None == "none"          \* node id 0, or alias 0
Bus == "bus"            \* a node elsewhere, as the sender of a command

TractionAssumption ==
    /\ {None, Bus} \intersect (Trains \union Remote) = {}
    /\ None \notin Throttles /\ None \notin Aliases
    /\ Speeds \subseteq Nat /\ Fns \subseteq Nat
    /\ LCC_MAX_CONSIST_SLAVES \in Nat
    /\ Len(Mixes) \in Nat \ {0} /\ \A k \in 1..Len(Mixes) : Mixes[k].max \in Nat

VARIABLES
    mix,        \* the mix of requests of this behaviour
    train,      \* speed, emergency, fns, consist slots, controller
    dcc,        \* the engine's last step and direction, and functions, of each loco
    held,       \* the global emergency stop is on
    calls,      \* commands handed on and not handled yet
    command,    \* the request being handled
    hits,       \* history: commands each train has applied for this request
    holder,     \* throttle that holds each alias
    believes,   \* history: trains each throttle thinks it controls
    notice,     \* the last Controller Changed notice
    ops

bus == <<holder, believes, notice>>
vars == <<mix, train, dcc, held, calls, command, hits, bus, ops>>

Slots == 1..LCC_MAX_CONSIST_SLAVES

\* The k-th of a set of slots, in their order.
Rank(S, i) == Cardinality({j \in S : j < i})
Nth(S, k) == CHOOSE i \in S : Rank(S, i) = k - 1

NoSlave == [id |-> None, flags |-> {}]

-----------------------------------------------------------------------------
(* Speed, functions and emergency stop.                                    *)

\* Magnitudes are whole metres per second.
f16_to_dcc_speed_step(mag) ==
    CASE mag = NaN -> 1
      [] mag = 0   -> 0
      [] OTHER     -> LET step == (mag * 1260) \div 1268 + 2
                      IN  IF step > 127 THEN 127 ELSE step

\* Mutant: an emergency stop is not forgotten.
on_set_speed_held(t, c) ==
    /\ train' = [train EXCEPT ![t].speed = c.speed]
    /\ dcc' = [dcc EXCEPT ![t].step = f16_to_dcc_speed_step(c.speed.mag),
                          ![t].forward = ~c.speed.neg]

on_set_speed(t, c) ==
    /\ train' = [train EXCEPT ![t].speed = c.speed, ![t].emergency = FALSE]
    /\ dcc' = [dcc EXCEPT ![t].step = f16_to_dcc_speed_step(c.speed.mag),
                          ![t].forward = ~c.speed.neg]

Switched(set, c) == IF c.on THEN set \union {c.fn} ELSE set \ {c.fn}
on_set_fn(t, c) ==
    IF c.fn > 68 THEN UNCHANGED <<train, dcc>>
    ELSE /\ train' = [train EXCEPT ![t].fns = Switched(@, c)]
         /\ dcc' = [dcc EXCEPT ![t].fns = Switched(@, c)]

\* Mutant: the direction is lost.
on_estop_forward(t) ==
    /\ train' = [train EXCEPT ![t].speed = [mag |-> 0, neg |-> FALSE], ![t].emergency = TRUE]
    /\ dcc' = [dcc EXCEPT ![t].step = 1]

\* The set speed becomes zero and keeps its direction.
on_estop(t) ==
    /\ train' = [train EXCEPT ![t].speed.mag = 0, ![t].emergency = TRUE]
    /\ dcc' = [dcc EXCEPT ![t].step = 1]

\* The E-Stop bit of the answer to a speed query.
on_query_speeds(t) == train[t].emergency \/ held

-----------------------------------------------------------------------------
(* Forwarding along a consist.                                             *)

\* Mutant: the flags are taken for one.
should_forward_any(flags, c) == c.op = "fn" => flags # {}

consist_should_forward(flags, c) ==
    c.op = "fn" => (IF c.fn = 0 THEN "LINKF0" ELSE "LINKFN") \in flags

\* Mutant: the command goes out as it came.
forwarded_plain(s, flags, c) ==
    [c EXCEPT !.to = s, !.from = c.to,
              !.speed.neg = IF c.op = "speed" /\ "REVERSE" \in flags THEN ~@ ELSE @]

\* The listener bit is set; a reversed slave runs the other way.
forward_to_slave(s, flags, c) ==
    [c EXCEPT !.to = s, !.from = c.to, !.listener = TRUE,
              !.speed.neg = IF c.op = "speed" /\ "REVERSE" \in flags THEN ~@ ELSE @]

\* Only local slaves, not the train itself, not the sender.
Forwards(c) ==
    LET slot(i) == train[c.to].consist[i]
        reached == {i \in Slots : /\ slot(i).id \in Trains \ {c.to, c.from}
                                  /\ consist_should_forward(slot(i).flags, c)}
    IN  [k \in 1..Cardinality(reached) |-> forward_to_slave(slot(Nth(reached, k)).id,
                                                            slot(Nth(reached, k)).flags, c)]

forward_to_consist(c) == IF c.listener THEN <<>> ELSE Forwards(c)

\* dispatch_traction: apply, then forward; nested calls come first.
dispatch_traction ==
    /\ calls # <<>>
    /\ LET c == Head(calls) IN
       /\ CASE c.op = "speed" -> on_set_speed(c.to, c)
            [] c.op = "fn"    -> on_set_fn(c.to, c)
            [] c.op = "estop" -> on_estop(c.to)
       /\ calls' = forward_to_consist(c) \o Tail(calls)
       /\ hits' = [hits EXCEPT ![c.to] = IF @ < 3 THEN @ + 1 ELSE @]
    /\ UNCHANGED <<held, command, bus, ops>>

Stopped == [mag |-> 0, neg |-> FALSE]
Command(op, t, th) ==
    [op |-> op, to |-> t, from |-> th, listener |-> FALSE, speed |-> Stopped, fn |-> 0,
     on |-> FALSE]
NoCommand == Command("none", None, None)

Request(op) == calls = <<>> /\ op \in Mixes[mix].ops /\ ops < Mixes[mix].max /\ ops' = ops + 1

\* A command from a throttle, or from a remote train whose consist has t.
receive(c) ==
    /\ Request(c.op)
    /\ calls' = <<c>>
    /\ command' = c
    /\ hits' = [t \in Trains |-> 0]
    /\ UNCHANGED <<train, dcc, held, bus>>

FromBus(op, t, l) == [Command(op, t, Bus) EXCEPT !.listener = l]
SpeedCommand(t, l, m, n) == [FromBus("speed", t, l) EXCEPT !.speed = [mag |-> m, neg |-> n]]
FnCommand(t, l, f, b) == [FromBus("fn", t, l) EXCEPT !.fn = f, !.on = b]

Commands ==
    {SpeedCommand(t, l, m, n) : t \in Trains, l \in BOOLEAN, m \in Speeds, n \in BOOLEAN}
    \union {FnCommand(t, l, f, b) : t \in Trains, l \in BOOLEAN, f \in Fns, b \in BOOLEAN}
    \union {FromBus("estop", t, l) : t \in Trains, l \in BOOLEAN}

-----------------------------------------------------------------------------
(* Consist tables.                                                         *)

Find(t, id) == {i \in Slots : train[t].consist[i].id = id}
First(S) == CHOOSE i \in S : \A j \in S : i <= j

\* Mutant: the free slot is looked for first.
AttachSlot_free(t, id) == Find(t, None)

\* consist_find: the slave's own slot, else a free one.
AttachSlot(t, id) == IF Find(t, id) # {} THEN Find(t, id) ELSE Find(t, None)

\* A train is not its own slave, and a full table takes no more.
on_consist_attach(t, id, flags) ==
    /\ Request("attach")
    /\ train' = IF id = t \/ AttachSlot(t, id) = {} THEN train
                ELSE [train EXCEPT ![t].consist[First(AttachSlot(t, id))] =
                            [id |-> id, flags |-> flags]]
    /\ command' = NoCommand
    /\ UNCHANGED <<dcc, held, calls, hits, bus>>

on_consist_detach(t, id) ==
    /\ Request("attach")
    /\ train' = IF Find(t, id) = {} THEN train
                ELSE [train EXCEPT ![t].consist[First(Find(t, id))] = NoSlave]
    /\ command' = NoCommand
    /\ UNCHANGED <<dcc, held, calls, hits, bus>>

consist_count(t) == Cardinality(Slots \ Find(t, None))

\* The n-th slave that a query returns, counting from 0, or None.
consist_find_nth(t, n) ==
    LET used == Slots \ Find(t, None)
    IN  IF n < Cardinality(used) THEN train[t].consist[Nth(used, n + 1)].id ELSE None

-----------------------------------------------------------------------------
(* Controllers.                                                            *)

AliasOf(th) == CHOOSE a \in Aliases : holder[a] = th
OnBus(th) == \E a \in Aliases : holder[a] = th

\* Mutant: the old controller is not told.
Loses_untold(t, th) == FALSE

\* A different controller with a known alias is told.
Loses(t, th) ==
    train[t].owner \notin {None, th} /\ train[t].controller_alias # None

on_assign_controller(t, th) ==
    /\ Request("assign") /\ OnBus(th)
    /\ LET to == train[t].controller_alias IN
       IF Loses(t, th)
       THEN /\ notice' = [train |-> t, to |-> to, lost |-> train[t].owner]
            /\ believes' = [[x \in Throttles |-> IF x = holder[to] THEN believes[x] \ {t}
                                                 ELSE believes[x]]
                            EXCEPT ![th] = @ \union {t}]
       ELSE /\ believes' = [believes EXCEPT ![th] = @ \union {t}]
            /\ UNCHANGED notice
    /\ train' = [train EXCEPT ![t].owner = th, ![t].controller_alias = AliasOf(th)]
    /\ UNCHANGED <<dcc, held, calls, command, hits, holder>>

Releases(t, th) == train[t].owner = th

on_release_controller(t, th) ==
    /\ Request("assign") /\ OnBus(th)
    /\ train' = IF Releases(t, th)
                THEN [train EXCEPT ![t].owner = None, ![t].controller_alias = None] ELSE train
    /\ believes' = [believes EXCEPT ![th] = @ \ {t}]
    /\ UNCHANGED <<dcc, held, calls, command, hits, holder, notice>>

\* Mutant: a new holder of the alias is not looked at.
handle_control_amr(a, amr, id) ==
    [t \in Trains |-> IF train[t].controller_alias = a /\ amr
                      THEN [train[t] EXCEPT !.controller_alias = None] ELSE train[t]]

\* lcc_traction_handle_control on every train: AMR from the controller's alias, or
\* AMD of another node on it.
lcc_traction_handle_control(a, amr, id) ==
    [t \in Trains |-> IF train[t].controller_alias = a /\ (amr \/ train[t].owner # id)
                      THEN [train[t] EXCEPT !.controller_alias = None] ELSE train[t]]

\* External: a throttle leaves its alias, with an AMR or without, and forgets its
\* trains; a throttle claims an alias nobody holds.
leave(th, amr) ==
    /\ Request("assign") /\ OnBus(th)
    /\ train' = IF amr THEN lcc_traction_handle_control(AliasOf(th), TRUE, th) ELSE train
    /\ holder' = [holder EXCEPT ![AliasOf(th)] = None]
    /\ believes' = [believes EXCEPT ![th] = {}]
    /\ UNCHANGED <<dcc, held, calls, command, hits, notice>>

claim(th, a) ==
    /\ calls = <<>> /\ "assign" \in Mixes[mix].ops
    /\ ~OnBus(th) /\ holder[a] = None
    /\ holder' = [holder EXCEPT ![a] = th]
    /\ train' = lcc_traction_handle_control(a, FALSE, th)
    /\ UNCHANGED <<dcc, held, calls, command, hits, believes, notice, ops>>

\* External: the global emergency stop event and its release.
hold_all ==
    /\ Request("hold")
    /\ held' = ~held
    /\ UNCHANGED <<train, dcc, calls, command, hits, bus>>

-----------------------------------------------------------------------------

\* lcc_train_state_init
Init ==
    /\ mix \in 1..Len(Mixes)
    /\ train = [t \in Trains |-> [speed |-> Stopped, emergency |-> FALSE, fns |-> {},
                                  consist |-> [i \in Slots |-> NoSlave],
                                  owner |-> None, controller_alias |-> None]]
    /\ dcc = [t \in Trains |-> [step |-> 0, forward |-> TRUE, fns |-> {}]]
    /\ held = FALSE
    /\ calls = <<>> /\ command = NoCommand /\ hits = [t \in Trains |-> 0]
    /\ holder = [a \in Aliases |-> None]
    /\ believes = [th \in Throttles |-> {}]
    /\ notice = [train |-> None, to |-> None, lost |-> None]
    /\ ops = 0

Next ==
    /\ UNCHANGED mix
    /\ \/ \E c \in Commands : receive(c)
       \/ dispatch_traction
       \/ \E t \in Trains, id \in Trains \union Remote :
               \/ on_consist_detach(t, id)
               \/ \E f \in Mixes[mix].flags : on_consist_attach(t, id, f)
       \/ \E t \in Trains, th \in Throttles :
               on_assign_controller(t, th) \/ on_release_controller(t, th)
       \/ \E th \in Throttles, amr \in BOOLEAN : leave(th, amr)
       \/ \E th \in Throttles, a \in Aliases : claim(th, a)
       \/ hold_all

Spec == Init /\ [][Next]_vars

-----------------------------------------------------------------------------

TypeOK ==
    /\ \A t \in Trains :
        /\ train[t].speed.mag \in Speeds \union {0} /\ train[t].speed.neg \in BOOLEAN
        /\ train[t].emergency \in BOOLEAN /\ train[t].fns \subseteq Fns \intersect 0..68
        /\ \A i \in Slots : train[t].consist[i].id \in Trains \union Remote \union {None}
        /\ train[t].owner \in Throttles \union {None}
        /\ train[t].controller_alias \in Aliases \union {None}
        /\ dcc[t].step \in 0..127 /\ dcc[t].forward \in BOOLEAN
        /\ dcc[t].fns \subseteq 0..68
    /\ holder \in [Aliases -> Throttles \union {None}]
    /\ believes \in [Throttles -> SUBSET Trains]
    /\ mix \in 1..Len(Mixes) /\ ops \in 0..Mixes[mix].max

\* A consist table holds a slave once and never the train itself, whatever order
\* slaves were attached, changed and detached in; a query by index lists them all.
TableIsASet ==
    \A t \in Trains :
        /\ \A i, j \in Slots : train[t].consist[i].id = train[t].consist[j].id
                               => i = j \/ train[t].consist[i].id = None
        /\ Find(t, t) = {}
        /\ {consist_find_nth(t, n) : n \in 0..consist_count(t) - 1}
               = {train[t].consist[i].id : i \in Slots} \ {None}

\* One request makes a train obey at most once, also when consists list each other;
\* so the nested calls end.
ObeysOnce == \A t \in Trains : hits[t] <= 1

\* After a command the train and every local slave of its consist run at one speed
\* step, reversed ones the other way; functions reach the slaves linked for them.
ConsistFollows ==
    (calls = <<>> /\ command # NoCommand /\ ~command.listener) =>
        LET t == command.to IN \A i \in Slots :
            LET slot == train[t].consist[i]
                s    == slot.id
            IN  s \in Trains =>
                /\ command.op \in {"speed", "estop"} => dcc[s].step = dcc[t].step
                /\ command.op = "speed" =>
                        (dcc[s].forward # dcc[t].forward) = ("REVERSE" \in slot.flags)
                /\ command.op = "fn" =>
                        (hits[s] = 1) = ((IF command.fn = 0 THEN "LINKF0" ELSE "LINKFN")
                                         \in slot.flags)

\* What a train node says of its speed, direction and functions is what the engine
\* was told.
EngineAgrees ==
    \A t \in Trains :
        /\ train[t].fns = dcc[t].fns
        /\ train[t].speed.neg = ~dcc[t].forward
        /\ ~train[t].emergency => dcc[t].step = f16_to_dcc_speed_step(train[t].speed.mag)

\* The E-Stop bit of a speed reply: "means an estop is in effect: this train's, or
\* a held global one".
EstopBitIsTrue ==
    \A t \in Trains : on_query_speeds(t) <=> (dcc[t].step = 1 \/ held)

\* A throttle that thinks it controls a train does: whoever loses one is told.
LosersAreTold ==
    \A th \in Throttles : \A t \in believes[th] : train[t].owner = th

\* The notice never goes to an alias that now is another node's.
NoticeToLoser ==
    \A t \in Trains :
        train[t].controller_alias # None =>
            holder[train[t].controller_alias] \in {train[t].owner, None}

=============================================================================
