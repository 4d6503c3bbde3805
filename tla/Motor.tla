------------------------------- MODULE Motor -------------------------------
(***************************************************************************)
(* Track power: the motor driver of src/motor/motor.c and the commanded    *)
(* power of src/track/track.c, for one track.                              *)
(*                                                                         *)
(* The track monitor task steps a power state machine every millisecond:   *)
(* it reads the state, samples the current and the fault pin, and asks for *)
(* a transition from the state it read.  The LCC task switches power in    *)
(* between, on the other core.  motor_transition and motor_set_power are   *)
(* critical sections.  A handler's reads of the clock and of the inputs    *)
(* are one step: after a power command between them the transition it asks *)
(* for fails, except that of a track that is on again.                     *)
(*                                                                         *)
(* Time is in ticks.  What the current limit makes of the ADC reading, and *)
(* the fault pin, are one input: whether the track is shorted.             *)
(***************************************************************************)
EXTENDS Integers

CONSTANTS
    ALERT_WINDOW,           \* ALERT_WINDOW_MS
    OVERCURRENT_TIMEOUT,    \* OVERCURRENT_TIMEOUT_MS
    FAULT_WINDOW,           \* OVERCURRENT_FAULT_WINDOW_MS
    MIN_BACKOFF,            \* MIN_OVERCURRENT_BACKOFF_MS
    MAX_RETRY_WINDOW,       \* MAX_RETRY_WINDOW_MS
    MaxLag,                 \* ticks the monitor may take for one update
    MaxCommands             \* bound: power commands in one behaviour

ASSUME WindowsAssumption ==
    /\ ALERT_WINDOW \in Nat
    /\ OVERCURRENT_TIMEOUT \in Nat \ {0}
    /\ FAULT_WINDOW \in Nat
    /\ MIN_BACKOFF \in Nat \ {0}
    /\ MAX_RETRY_WINDOW \in Nat
    /\ MIN_BACKOFF <= MAX_RETRY_WINDOW
    /\ MaxLag \in Nat \ {0}
    /\ MaxCommands \in Nat

VARIABLES
    power_on,       \* track_t: the commanded power
    lcc,            \* "idle", or "set" inside track_set_power
    state,          \* the state machine
    power_pin,      \* the output that powers the track
    age,            \* ticks since state_entered_tick, counted to MaxAge
    backoff,        \* overcurrent_backoff_ms
    monitor,        \* where motor_update is
    move,           \* the transition it asks for, from the state it read
    short,          \* overcurrent or fault on the track
    lag,            \* ticks since the monitor finished its last update
    hot,            \* ticks the track has been powered and shorted at a stretch
    bad_for,        \* ticks since the monitor last saw the track clear
    commands

motor_vars == <<state, power_pin, age>>
monitor_vars == <<backoff, monitor, move, lag, bad_for>>
client_vars == <<power_on, lcc, commands>>
vars == <<motor_vars, monitor_vars, client_vars, short, hot>>

Modes == {"OFF", "ON", "ALERT", "OVERLOAD"}

\* Counters stop where no comparison of the code can tell them apart.
MaxAge == FAULT_WINDOW + OVERCURRENT_TIMEOUT + MAX_RETRY_WINDOW + 1
MaxHot == OVERCURRENT_TIMEOUT + 3 * MaxLag
Upto(n, max) == IF n < max THEN n + 1 ELSE max

-----------------------------------------------------------------------------
(* The critical sections *)

IsPowered(mode) == mode \in {"ON", "ALERT"}

\* The power pin, the time of entry and the state change together.
apply_mode(mode) ==
    IF state = mode THEN UNCHANGED motor_vars
    ELSE /\ state' = mode
         /\ power_pin' = IsPowered(mode)
         /\ age' = 0

\* A track that is switched off, or that recovers, is not hot.
Cools == hot' = IF power_pin' /\ short' THEN hot ELSE 0

\* Mutant: the transition does not check the state it was computed from.
motor_transition_blind(from, to) == apply_mode(to)

motor_transition(from, to) ==
    IF state = from THEN apply_mode(to) ELSE UNCHANGED motor_vars

\* Where a power command takes the state machine: on starts a track that is off.
motor_mode(on) ==
    CASE ~on -> "OFF"
      [] on /\ state = "OFF" -> "ON"
      [] OTHER -> state

-----------------------------------------------------------------------------
(* The LCC task: track_set_power *)

track_set_power(on) ==
    /\ lcc = "idle"
    /\ commands < MaxCommands
    /\ commands' = commands + 1
    /\ power_on' = on
    /\ lcc' = "set"
    /\ UNCHANGED <<motor_vars, monitor_vars, short, hot>>

motor_set_power ==
    /\ lcc = "set"
    /\ apply_mode(motor_mode(power_on))
    /\ lcc' = "idle"
    /\ UNCHANGED <<power_on, commands, monitor_vars, short>>
    /\ Cools

-----------------------------------------------------------------------------
(* The track monitor task: motor_update *)

Done == monitor' = "idle" /\ lag' = 0 /\ UNCHANGED move

\* Mutant: no case for an overloaded track.
motor_update_no_retry ==
    /\ monitor = "idle"
    /\ CASE state = "OFF"      -> backoff' = MIN_BACKOFF /\ Done
         [] state = "OVERLOAD" -> UNCHANGED backoff /\ Done
         [] OTHER              -> monitor' = state /\ UNCHANGED <<backoff, lag, move>>
    /\ UNCHANGED <<motor_vars, bad_for, client_vars, short, hot>>

\* The switch on the state.
motor_update ==
    /\ monitor = "idle"
    /\ IF state = "OFF"
       THEN backoff' = MIN_BACKOFF /\ Done
       ELSE monitor' = state /\ UNCHANGED <<backoff, lag, move>>
    /\ UNCHANGED <<motor_vars, bad_for, client_vars, short, hot>>

\* motor_transition follows.
Ask(to) ==
    /\ monitor' = "transition"
    /\ move' = [from |-> monitor, to |-> to]
    /\ UNCHANGED lag

handle_on_state ==
    /\ monitor = "ON"
    /\ IF short
       THEN Ask("ALERT") /\ UNCHANGED <<backoff, bad_for>>
       ELSE /\ backoff' = IF age > FAULT_WINDOW THEN MIN_BACKOFF ELSE backoff
            /\ bad_for' = 0
            /\ Done
    /\ UNCHANGED <<motor_vars, client_vars, short, hot>>

\* Mutant: > for >=.
TimedOutLate == age > OVERCURRENT_TIMEOUT

TimedOut == age >= OVERCURRENT_TIMEOUT

\* Mutant: an alert never ends by itself.
AlertLasts == FALSE

AlertPassed == age > ALERT_WINDOW

handle_alert_state ==
    /\ monitor = "ALERT"
    /\ CASE short /\ TimedOut      -> Ask("OVERLOAD")
         [] ~short /\ AlertPassed  -> Ask("ON")
         [] OTHER                  -> Done
    /\ bad_for' = IF short THEN bad_for ELSE 0
    /\ UNCHANGED <<motor_vars, backoff, client_vars, short, hot>>

handle_overload_state ==
    /\ monitor = "OVERLOAD"
    /\ IF age < backoff THEN Done ELSE Ask("ALERT")
    /\ UNCHANGED <<motor_vars, backoff, bad_for, client_vars, short, hot>>

\* Mutant: the backoff is not limited.
DoubleOnly(b) == 2 * b

Doubled(b) == IF 2 * b > MAX_RETRY_WINDOW THEN MAX_RETRY_WINDOW ELSE 2 * b

\* motor_transition; the backoff doubles when an overloaded track is restored.
monitor_transition ==
    /\ monitor = "transition"
    /\ motor_transition(move.from, move.to)
    /\ backoff' = IF move.from = "OVERLOAD" /\ state = "OVERLOAD" THEN Doubled(backoff) ELSE backoff
    /\ monitor' = "idle"
    /\ lag' = 0
    /\ UNCHANGED <<move, bad_for, client_vars, short>>
    /\ Cools

Monitor ==
    \/ motor_update
    \/ handle_on_state \/ handle_alert_state \/ handle_overload_state
    \/ monitor_transition

-----------------------------------------------------------------------------
(* Time and the track *)

\* A millisecond passes.
Tick ==
    /\ lag < MaxLag
    /\ lag' = lag + 1
    /\ age' = Upto(age, MaxAge)
    /\ hot' = IF power_pin /\ short THEN Upto(hot, MaxHot) ELSE 0
    /\ bad_for' = Upto(bad_for, MaxAge)
    /\ UNCHANGED <<state, power_pin, backoff, monitor, move, client_vars, short>>

\* A short appears or goes away.
Load ==
    /\ short' = ~short
    /\ UNCHANGED <<motor_vars, monitor_vars, client_vars>>
    /\ Cools

Init ==
    /\ power_on = FALSE /\ lcc = "idle" /\ commands = 0
    /\ state = "OFF" /\ power_pin = FALSE /\ age = 0
    /\ backoff = MIN_BACKOFF /\ monitor = "idle" /\ move = [from |-> "OFF", to |-> "OFF"]
    /\ short = FALSE /\ lag = 0 /\ hot = 0 /\ bad_for = 0

Next ==
    \/ \E on \in BOOLEAN : track_set_power(on)
    \/ motor_set_power
    \/ Monitor
    \/ Tick
    \/ Load

Spec == Init /\ [][Next]_vars

\* Both tasks keep being scheduled and time passes.
Fairness == WF_vars(motor_set_power) /\ WF_vars(Monitor) /\ WF_vars(Tick)

FairSpec == Spec /\ Fairness

-----------------------------------------------------------------------------
(* Properties *)

\* Every variable has its type and the backoff its limits.
TypeOK ==
    /\ power_on \in BOOLEAN /\ lcc \in {"idle", "set"} /\ commands \in 0..MaxCommands
    /\ state \in Modes /\ power_pin \in BOOLEAN /\ age \in 0..MaxAge
    /\ backoff \in MIN_BACKOFF..MAX_RETRY_WINDOW
    /\ monitor \in {"idle", "ON", "ALERT", "OVERLOAD", "transition"}
    /\ move \in [from: Modes, to: Modes]
    /\ short \in BOOLEAN /\ lag \in 0..MaxLag
    /\ hot \in 0..MaxHot /\ bad_for \in 0..MaxAge

\* "Off always wins" (motor.h): once a power command has returned, the track
\* is off exactly when it was commanded off, whatever update of the monitor
\* was under way, and the pin is on exactly in the powered states.
PowerFollowsCommand ==
    /\ lcc = "idle" => (power_on <=> state # "OFF")
    /\ power_pin <=> IsPowered(state)

\* A track that stays powered and shorted is cut off within the timeout and
\* three updates of the monitor: one that sampled before the short and may
\* still end an alert, one that notices it and one that cuts the power.
ShortIsCut == hot < OVERCURRENT_TIMEOUT + 3 * MaxLag

\* Only a sustained short trips the track: when the monitor cuts the power it
\* has not seen the track clear since the alert window.
OverloadIsSustained ==
    [][state = "ALERT" /\ state' = "OVERLOAD" =>
            bad_for >= OVERCURRENT_TIMEOUT - ALERT_WINDOW]_vars

\* When a short has gone away for good the track comes back by itself, out of
\* overload and out of alert, unless it is switched off.
PowerComesBack ==
    (<>[]~short) => <>[](state = IF power_on THEN "ON" ELSE "OFF")
=============================================================================
