---------------------------- MODULE MotorProofs ----------------------------
(***************************************************************************)
(* Proofs about module Motor, for every choice of its windows, any delay   *)
(* of the monitor and any number of power commands.                        *)
(***************************************************************************)
EXTENDS Motor, TLAPS

\* What the monitor asks for: its transitions start from a powered or an
\* overloaded track and never end in OFF.
MovesBetweenOn ==
    monitor = "transition" => move.from # "OFF" /\ move.to # "OFF"

TInv == TypeOK /\ MovesBetweenOn

\* The counters stay within their limits.
LEMMA UptoType ==
    ASSUME NEW max \in Nat, NEW n \in 0..max
    PROVE  Upto(n, max) \in 0..max
BY DEF Upto

\* What exceeds nothing exceeds nothing larger.
LEMMA NoMore == ASSUME NEW a \in Nat, NEW b \in Nat, NEW w \in Nat, a <= b PROVE a <= b + w
OBVIOUS

\* The limits of the counters are naturals.
LEMMA Limits == MaxAge \in Nat /\ MaxHot \in Nat
BY WindowsAssumption DEF MaxAge, MaxHot

\* apply_mode keeps the types.
LEMMA ApplyType ==
    ASSUME TypeOK, NEW mode \in Modes, apply_mode(mode)
    PROVE  state' \in Modes /\ power_pin' \in BOOLEAN /\ age' \in 0..MaxAge
<1>1. 0 \in 0..MaxAge
  BY Limits
<1>2. CASE state = mode
  BY <1>2 DEF apply_mode, motor_vars, TypeOK
<1>3. CASE state # mode
  BY <1>1, <1>3 DEF apply_mode, IsPowered
<1>4. QED  BY <1>2, <1>3

\* TInv is inductive.
LEMMA TInvHolds == Spec => []TInv
<1>1. Init => TInv
  <2> SUFFICES ASSUME Init PROVE TInv
    OBVIOUS
  <2> USE WindowsAssumption, Limits DEF Init, Modes
  <2>1. power_on \in BOOLEAN /\ power_pin \in BOOLEAN /\ short \in BOOLEAN
    BY Zenon
  <2>2. commands \in 0..MaxCommands /\ lag \in 0..MaxLag /\ hot \in 0..MaxHot
        /\ age \in 0..MaxAge /\ bad_for \in 0..MaxAge /\ backoff \in MIN_BACKOFF..MAX_RETRY_WINDOW
    OBVIOUS
  <2>3. /\ lcc \in {"idle", "set"} /\ state \in Modes
        /\ monitor \in {"idle", "ON", "ALERT", "OVERLOAD", "transition"}
        /\ move \in [from: Modes, to: Modes]
    OBVIOUS
  <2>4. MovesBetweenOn
    BY DEF MovesBetweenOn
  <2>5. QED  BY <2>1, <2>2, <2>3, <2>4 DEF TInv, TypeOK
<1>2. TInv /\ [Next]_vars => TInv'
  <2> SUFFICES ASSUME TInv, [Next]_vars PROVE TInv'
    OBVIOUS
  <2> TypeOK /\ MovesBetweenOn
    BY DEF TInv
  <2> USE WindowsAssumption, Limits DEF TInv
  <2>1. ASSUME NEW on \in BOOLEAN, track_set_power(on) PROVE TInv'
    BY <2>1 DEF track_set_power, TypeOK, MovesBetweenOn, motor_vars, monitor_vars
  <2>2. ASSUME hot' = (IF power_pin' /\ short' THEN hot ELSE 0) PROVE hot' \in 0..MaxHot
    BY <2>2 DEF TypeOK
  <2>3. CASE motor_set_power
    <3>1. motor_mode(power_on) \in Modes
      BY DEF motor_mode, TypeOK, Modes
    <3>2. state' \in Modes /\ power_pin' \in BOOLEAN /\ age' \in 0..MaxAge
      BY <2>3, <3>1, ApplyType DEF motor_set_power
    <3>3. hot' \in 0..MaxHot
      BY <2>2, <2>3 DEF motor_set_power, Cools
    <3>4. QED  BY <2>3, <3>2, <3>3 DEF motor_set_power, TypeOK, MovesBetweenOn, monitor_vars
  <2>4. CASE motor_update
    BY <2>4 DEF motor_update, Done, TypeOK, MovesBetweenOn, Modes, motor_vars, client_vars
  <2>5. CASE handle_on_state
    BY <2>5 DEF handle_on_state, Ask, Done, TypeOK, MovesBetweenOn, Modes, motor_vars, client_vars
  <2>6. CASE handle_alert_state
    BY <2>6 DEF handle_alert_state, Ask, Done, TypeOK, MovesBetweenOn, Modes, motor_vars, client_vars
  <2>7. CASE handle_overload_state
    BY <2>7 DEF handle_overload_state, Ask, Done, TypeOK, MovesBetweenOn, Modes, motor_vars, client_vars
  <2>8. CASE monitor_transition
    <3>1. move.from \in Modes /\ move.to \in Modes
      BY DEF TypeOK
    <3>2. state' \in Modes /\ power_pin' \in BOOLEAN /\ age' \in 0..MaxAge
      BY <2>8, <3>1, ApplyType DEF monitor_transition, motor_transition, motor_vars, TypeOK
    <3>3. hot' \in 0..MaxHot
      BY <2>2, <2>8 DEF monitor_transition, Cools
    <3>4. backoff' \in MIN_BACKOFF..MAX_RETRY_WINDOW
      BY <2>8 DEF monitor_transition, Doubled, TypeOK
    <3>5. QED  BY <2>8, <3>2, <3>3, <3>4 DEF monitor_transition, TypeOK, MovesBetweenOn, client_vars
  <2>9. CASE Tick
    <3>1. age' \in 0..MaxAge /\ bad_for' \in 0..MaxAge /\ hot' \in 0..MaxHot
      BY <2>9, UptoType DEF Tick, TypeOK
    <3>2. lag' \in 0..MaxLag
      BY <2>9 DEF Tick, TypeOK
    <3>3. QED  BY <2>9, <3>1, <3>2 DEF Tick, TypeOK, MovesBetweenOn, client_vars
  <2>10. CASE Load
    <3>1. hot' \in 0..MaxHot
      BY <2>2, <2>10 DEF Load, Cools
    <3>2. QED  BY <2>10, <3>1 DEF Load, TypeOK, MovesBetweenOn, motor_vars, monitor_vars, client_vars
  <2>11. CASE UNCHANGED vars
    BY <2>11 DEF vars, motor_vars, monitor_vars, client_vars, TypeOK, MovesBetweenOn
  <2>12. QED
    BY <2>1, <2>3, <2>4, <2>5, <2>6, <2>7, <2>8, <2>9, <2>10, <2>11 DEF Next, Monitor
<1>3. QED  BY <1>1, <1>2, PTL DEF Spec

-----------------------------------------------------------------------------
(* Power commands *)

\* "Off always wins": a power command that has returned decides whether the
\* track is off, whatever update of the monitor it fell into.
THEOREM OffWins == Spec => []PowerFollowsCommand
<1>1. Init => PowerFollowsCommand
  BY DEF Init, PowerFollowsCommand, IsPowered
<1>2. TInv /\ PowerFollowsCommand /\ [Next]_vars => PowerFollowsCommand'
  <2> SUFFICES ASSUME TInv, PowerFollowsCommand, [Next]_vars PROVE PowerFollowsCommand'
    OBVIOUS
  <2> TypeOK /\ MovesBetweenOn
    BY DEF TInv
  <2>1. CASE motor_set_power
    BY <2>1 DEF motor_set_power, apply_mode, motor_mode, IsPowered, motor_vars, TypeOK, Modes,
                PowerFollowsCommand
  <2>2. CASE monitor_transition
    BY <2>2 DEF monitor_transition, motor_transition, apply_mode, IsPowered, motor_vars,
                client_vars, MovesBetweenOn, PowerFollowsCommand
  <2>3. ASSUME NEW on \in BOOLEAN, track_set_power(on) PROVE PowerFollowsCommand'
    BY <2>3 DEF track_set_power, motor_vars, PowerFollowsCommand
  <2>4. ASSUME \/ motor_update \/ handle_on_state \/ handle_alert_state
               \/ handle_overload_state \/ Tick \/ Load \/ UNCHANGED vars
        PROVE  UNCHANGED <<power_on, lcc, state, power_pin>>
    BY <2>4 DEF motor_update, handle_on_state, handle_alert_state, handle_overload_state,
                Tick, Load, vars, motor_vars, client_vars
  <2>5. CASE UNCHANGED <<power_on, lcc, state, power_pin>>
    BY <2>5 DEF PowerFollowsCommand
  <2> QED  BY <2>1, <2>2, <2>3, <2>4, <2>5 DEF Next, Monitor
<1>3. QED  BY <1>1, <1>2, TInvHolds, PTL DEF Spec

\* Every variable keeps its type and the backoff its limits.
THEOREM TypeCorrect == Spec => []TypeOK
<1>1. TInv => TypeOK
  BY DEF TInv
<1>2. QED  BY <1>1, TInvHolds, PTL

-----------------------------------------------------------------------------
(* The trip *)

\* Only the monitor puts a track into alert, so a track in alert has been in
\* it since the update began; the update that found it clear after the window
\* is about to end the alert, and one about to cut the power has seen the
\* timeout pass.
AlertInv ==
    /\ monitor = "ON" => state # "ALERT"
    /\ state = "ALERT" => \/ age <= bad_for + ALERT_WINDOW
                          \/ monitor = "transition" /\ move.to = "ON"
    /\ state = "ALERT" /\ monitor = "transition" /\ move.to = "OVERLOAD"
          => age >= OVERCURRENT_TIMEOUT
    /\ monitor = "transition" /\ move.to = "ON" => move.from = "ALERT"

\* Only a sustained short trips the track, for every choice of the windows and
\* however the monitor is delayed and power is switched in between.
THEOREM Sustained == Spec => OverloadIsSustained
<1>1. Init => AlertInv
  BY DEF Init, AlertInv
<1>2. TInv /\ AlertInv /\ [Next]_vars => AlertInv'
  <2> SUFFICES ASSUME TInv, AlertInv, [Next]_vars PROVE AlertInv'
    OBVIOUS
  <2> TypeOK
    BY DEF TInv
  <2> age \in Nat /\ bad_for \in Nat /\ ALERT_WINDOW \in Nat /\ OVERCURRENT_TIMEOUT \in Nat
    BY Limits, WindowsAssumption DEF TypeOK
  <2>1. CASE motor_set_power
    <3>1. state' = "ALERT" => state = "ALERT" /\ age' = age
      BY <2>1 DEF motor_set_power, apply_mode, motor_mode, motor_vars
    <3>2. QED  BY <2>1, <3>1 DEF motor_set_power, monitor_vars, AlertInv
  <2>2. CASE motor_update
    BY <2>2 DEF motor_update, Done, motor_vars, AlertInv, TypeOK, Modes
  <2>3. CASE handle_on_state
    BY <2>3 DEF handle_on_state, Ask, Done, motor_vars, AlertInv
  <2>4. CASE handle_alert_state
    <3>1. CASE short
      BY <2>4, <3>1 DEF handle_alert_state, Ask, Done, TimedOut, AlertPassed, motor_vars, AlertInv
    <3>2. CASE ~short
      BY <2>4, <3>2 DEF handle_alert_state, Ask, Done, TimedOut, AlertPassed, motor_vars, AlertInv
    <3>3. QED  BY <3>1, <3>2
  <2>5. CASE handle_overload_state
    BY <2>5 DEF handle_overload_state, Ask, Done, motor_vars, AlertInv
  <2>6. CASE monitor_transition
    <3>1. monitor' = "idle" /\ bad_for' = bad_for
      BY <2>6 DEF monitor_transition
    <3>2. state' = "ALERT" => age' = 0 \/ (age' = age /\ state = "ALERT" /\ move.to # "ON")
      BY <2>6 DEF monitor_transition, motor_transition, apply_mode, motor_vars, AlertInv
    <3>3. QED  BY <3>1, <3>2 DEF AlertInv
  <2>7. CASE Tick
    <3>1. /\ age' = age + 1 \/ (age' = age /\ age = MaxAge)
          /\ bad_for' = bad_for + 1 \/ (bad_for' = MaxAge)
          /\ age' <= MaxAge
      BY <2>7, Limits DEF Tick, Upto, TypeOK
    <3>2. \/ age' <= age + 1 /\ bad_for' = bad_for + 1
          \/ age' <= bad_for'
      BY <3>1, Limits
    <3>3. age' >= age
      BY <3>1
    <3>a. age' \in Nat /\ bad_for' \in Nat
      BY <3>1, Limits
    <3>4. UNCHANGED <<state, monitor, move>>
      BY <2>7 DEF Tick
    <3>5. state = "ALERT" => \/ age' <= bad_for' + ALERT_WINDOW
                             \/ monitor = "transition" /\ move.to = "ON"
      <4>1. ASSUME age <= bad_for + ALERT_WINDOW PROVE age' <= bad_for' + ALERT_WINDOW
        <5>1. age \in Nat /\ bad_for \in Nat /\ ALERT_WINDOW \in Nat
          OBVIOUS
        <5>2. CASE age' <= bad_for'
          BY <3>a, <5>1, <5>2, NoMore
        <5>3. CASE age' <= age + 1 /\ bad_for' = bad_for + 1
          BY <3>a, <4>1, <5>1, <5>3
        <5>4. QED  BY <3>2, <5>2, <5>3
      <4>2. QED  BY <4>1 DEF AlertInv
    <3>6. state = "ALERT" /\ monitor = "transition" /\ move.to = "OVERLOAD"
             => age' >= OVERCURRENT_TIMEOUT
      BY <3>3, <3>a DEF AlertInv
    <3>7. QED  BY <3>4, <3>5, <3>6 DEF AlertInv
  <2>8. ASSUME (\E on \in BOOLEAN : track_set_power(on)) \/ Load \/ UNCHANGED vars
        PROVE  UNCHANGED <<state, age, monitor, move, bad_for>>
    BY <2>8 DEF track_set_power, Load, vars, motor_vars, monitor_vars
  <2>9. CASE UNCHANGED <<state, age, monitor, move, bad_for>>
    BY <2>9 DEF AlertInv
  <2>10. QED  BY <2>1, <2>2, <2>3, <2>4, <2>5, <2>6, <2>7, <2>8, <2>9 DEF Next, Monitor
<1>3. TInv /\ AlertInv /\ [Next]_vars =>
        [state = "ALERT" /\ state' = "OVERLOAD" =>
            bad_for >= OVERCURRENT_TIMEOUT - ALERT_WINDOW]_vars
  <2> SUFFICES ASSUME TInv, AlertInv, [Next]_vars, state = "ALERT", state' = "OVERLOAD"
               PROVE  bad_for >= OVERCURRENT_TIMEOUT - ALERT_WINDOW
    OBVIOUS
  <2> age \in Nat /\ bad_for \in Nat /\ ALERT_WINDOW \in Nat /\ OVERCURRENT_TIMEOUT \in Nat
    BY Limits, WindowsAssumption DEF TInv, TypeOK
  <2>1. monitor = "transition" /\ move.to = "OVERLOAD"
    <3>1. CASE monitor_transition
      BY <3>1 DEF monitor_transition, motor_transition, apply_mode, motor_vars
    <3>2. ~motor_set_power
      BY DEF motor_set_power, apply_mode, motor_mode, motor_vars
    <3>3. ASSUME \/ motor_update \/ handle_on_state \/ handle_alert_state
                 \/ handle_overload_state \/ Tick \/ Load \/ UNCHANGED vars
                 \/ \E on \in BOOLEAN : track_set_power(on)
          PROVE  state' = state
      BY <3>3 DEF motor_update, handle_on_state, handle_alert_state, handle_overload_state,
                  Tick, Load, track_set_power, vars, motor_vars
    <3>4. QED  BY <3>1, <3>2, <3>3 DEF Next, Monitor
  <2>2. QED  BY <2>1 DEF AlertInv
<1>4. QED  BY <1>1, <1>2, <1>3, TInvHolds, PTL DEF Spec, OverloadIsSustained

-----------------------------------------------------------------------------
(* The cut *)

\* How long a short can have lasted.  A track that is on has been shorted since
\* the update before last at most (that one ended an alert on a sample taken
\* before the short); one in alert at most two updates longer than the alert, and
\* at most two updates and the timeout when the last update ended.
HotInv ==
    /\ hot > 0 => short /\ IsPowered(state)
    /\ monitor = "transition" /\ move.to = "ON" => hot <= lag
    /\ state = "ON" => /\ hot <= MaxLag + lag
                       /\ \/ monitor \in {"ALERT", "OVERLOAD"}
                          \/ monitor = "transition" /\ move.from # "ON"
                          => hot <= lag
    /\ state = "ALERT" =>
          /\ monitor \in {"idle", "ALERT"} \/ (monitor = "transition" /\ move.from = "ALERT")
          /\ monitor = "transition" => move.to \in {"ON", "OVERLOAD"}
          /\ age < OVERCURRENT_TIMEOUT => hot <= 2 * MaxLag + age
          /\ hot <= 2 * MaxLag + OVERCURRENT_TIMEOUT - 1 + lag
    /\ monitor = "transition" => move.from # move.to

\* A command or a transition of the monitor leaves a short counted only while
\* the track stays powered.
LEMMA CoolsDown ==
    ASSUME TypeOK, HotInv, Cools
    PROVE  /\ hot' \in Nat /\ hot' <= hot
           /\ hot' > 0 => short' /\ power_pin' /\ hot' = hot
<1>1. hot \in Nat
  BY Limits DEF TypeOK
<1>2. QED  BY <1>1 DEF Cools

\* A track that stays powered and shorted is cut off before the timeout and three
\* updates of the monitor have passed (handle_on_state, handle_alert_state), for every
\* timeout and every delay of the monitor, whatever is commanded meanwhile.
THEOREM CutOff == Spec => []ShortIsCut
<1> USE WindowsAssumption
<1>1. Init => HotInv
  BY DEF Init, HotInv
<1>2. TInv /\ PowerFollowsCommand /\ HotInv /\ [Next]_vars => HotInv'
  <2> SUFFICES ASSUME TInv, PowerFollowsCommand, HotInv, [Next]_vars PROVE HotInv'
    OBVIOUS
  <2> TypeOK
    BY DEF TInv
  <2>t. /\ hot \in Nat /\ lag \in 0..MaxLag /\ age \in Nat
        /\ MaxLag \in Nat /\ OVERCURRENT_TIMEOUT \in Nat \ {0}
        /\ power_pin <=> IsPowered(state)
    BY Limits DEF TypeOK, PowerFollowsCommand
  <2>1. CASE motor_set_power
    <3>1. /\ hot' \in Nat /\ hot' <= hot
          /\ hot' > 0 => short' /\ power_pin' /\ hot' = hot
      BY <2>1, CoolsDown DEF motor_set_power
    <3>2. \/ UNCHANGED <<state, age, power_pin>>
          \/ state' = "OFF" /\ ~power_pin'
          \/ state = "OFF" /\ state' = "ON"
      BY <2>1 DEF motor_set_power, apply_mode, motor_mode, motor_vars, IsPowered
    <3>3. UNCHANGED <<monitor, move, lag>>
      BY <2>1 DEF motor_set_power, monitor_vars
    <3>4. CASE UNCHANGED <<state, age, power_pin>>
      BY <2>t, <3>1, <3>3, <3>4 DEF HotInv
    <3>5. CASE state' = "OFF" /\ ~power_pin'
      BY <2>t, <3>1, <3>3, <3>5 DEF HotInv
    <3>6. CASE state = "OFF" /\ state' = "ON"
      <4>1. hot = 0
        BY <2>t, <3>6 DEF HotInv, IsPowered
      <4>2. QED  BY <2>t, <3>1, <3>3, <3>6, <4>1 DEF HotInv, IsPowered
    <3>7. QED  BY <3>2, <3>4, <3>5, <3>6
  <2>2. CASE motor_update
    BY <2>2, <2>t DEF motor_update, Done, motor_vars, HotInv, TypeOK, Modes, IsPowered
  <2>3. CASE handle_on_state
    BY <2>3, <2>t DEF handle_on_state, Ask, Done, motor_vars, HotInv
  <2>4. CASE handle_alert_state
    <3>1. CASE short
      BY <2>4, <2>t, <3>1 DEF handle_alert_state, Ask, Done, TimedOut, AlertPassed, motor_vars, HotInv
    <3>2. CASE ~short
      BY <2>4, <2>t, <3>2 DEF handle_alert_state, Ask, Done, TimedOut, AlertPassed, motor_vars, HotInv
    <3>3. QED  BY <3>1, <3>2
  <2>5. CASE handle_overload_state
    BY <2>5, <2>t DEF handle_overload_state, Ask, Done, motor_vars, HotInv
  <2>6. CASE monitor_transition
    <3>1. /\ hot' \in Nat /\ hot' <= hot
          /\ hot' > 0 => short' /\ power_pin' /\ hot' = hot
      BY <2>6, CoolsDown DEF monitor_transition
    <3>2. monitor = "transition" /\ monitor' = "idle" /\ lag' = 0
      BY <2>6 DEF monitor_transition
    <3>3. \/ move.from # state /\ UNCHANGED <<state, age, power_pin>>
          \/ /\ move.from = state /\ state' = move.to /\ state' # state
             /\ age' = 0 /\ power_pin' = IsPowered(state')
      BY <2>6, <3>2 DEF monitor_transition, motor_transition, apply_mode, motor_vars, HotInv
    <3>4. CASE move.from # state /\ UNCHANGED <<state, age, power_pin>>
      BY <2>t, <3>1, <3>2, <3>4 DEF HotInv
    <3>5. CASE /\ move.from = state /\ state' = move.to /\ state' # state
               /\ age' = 0 /\ power_pin' = IsPowered(state')
      <4>1. state' = "ON" => hot <= lag
        BY <3>2, <3>5 DEF HotInv
      <4>2. state' = "ALERT" => hot <= 2 * MaxLag
        BY <2>t, <3>2, <3>5 DEF HotInv, IsPowered
      <4>3. QED  BY <2>t, <3>1, <3>2, <3>5, <4>1, <4>2 DEF HotInv
    <3>6. QED  BY <3>3, <3>4, <3>5
  <2>7. CASE Tick
    <3>1. /\ lag' = lag + 1
          /\ hot' \in Nat /\ hot' <= hot + 1
          /\ hot' > 0 => power_pin /\ short
      BY <2>7, <2>t DEF Tick, Upto, MaxHot
    <3>2. age' \in Nat /\ (age' = age + 1 \/ age' >= OVERCURRENT_TIMEOUT)
      BY <2>7, <2>t, Limits DEF Tick, Upto, MaxAge, TypeOK
    <3>3. UNCHANGED <<state, monitor, move, short, power_pin>>
      BY <2>7 DEF Tick
    <3>4. ASSUME state = "ALERT", age' < OVERCURRENT_TIMEOUT PROVE hot' <= 2 * MaxLag + age'
      <4>1. age' = age + 1 /\ age < OVERCURRENT_TIMEOUT
        BY <2>t, <3>2, <3>4
      <4>2. hot <= 2 * MaxLag + age
        BY <3>4, <4>1 DEF HotInv
      <4>3. QED  BY <2>t, <3>1, <4>1, <4>2
    <3>5. QED  BY <2>t, <3>1, <3>3, <3>4 DEF HotInv
  <2>8. CASE Load
    <3>1. /\ hot' \in Nat /\ hot' <= hot
          /\ hot' > 0 => short' /\ power_pin' /\ hot' = hot
      BY <2>8, CoolsDown DEF Load
    <3>2. UNCHANGED <<state, monitor, move, lag, age, power_pin>>
      BY <2>8 DEF Load, motor_vars, monitor_vars
    <3>3. QED  BY <2>t, <3>1, <3>2 DEF HotInv
  <2>9. ASSUME (\E on \in BOOLEAN : track_set_power(on)) \/ UNCHANGED vars
        PROVE  UNCHANGED <<state, age, monitor, move, lag, hot, short>>
    BY <2>9 DEF track_set_power, vars, motor_vars, monitor_vars
  <2>10. CASE UNCHANGED <<state, age, monitor, move, lag, hot, short>>
    BY <2>10 DEF HotInv
  <2>11. QED
    BY <2>1, <2>2, <2>3, <2>4, <2>5, <2>6, <2>7, <2>8, <2>9, <2>10 DEF Next, Monitor
<1>3. TInv /\ HotInv => ShortIsCut
  <2> SUFFICES ASSUME TInv, HotInv PROVE ShortIsCut
    OBVIOUS
  <2>1. hot \in Nat /\ lag \in 0..MaxLag /\ state \in Modes
    BY Limits DEF TInv, TypeOK
  <2>2. QED  BY <2>1 DEF HotInv, ShortIsCut, IsPowered, Modes
<1>4. QED  BY <1>1, <1>2, <1>3, TInvHolds, OffWins, PTL DEF Spec
=============================================================================
