---------------------------- MODULE ServiceMode ----------------------------
(***************************************************************************)
(* CV operations on the programming track: task_servicemode and hw_send of *)
(* src/servicemode/servicemode.c, and the read and write procedures of     *)
(* svc_cv.c, with the decoder and the track monitor they run against.      *)
(*                                                                         *)
(* A read asks for each bit in turn and then verifies the byte the answers *)
(* make; a write is verified when it was not acknowledged.  The monitor    *)
(* cuts an overloaded track and restores it by itself after a back-off;    *)
(* the task only looks at the track at certain points.  The ACK detector   *)
(* is module SvcAck; here its verdict on a burst may be wrong: an ACK is   *)
(* lost, or current noise passes for one (spurious).                       *)
(*                                                                         *)
(* A CV's value is the set of its bits that are 1.                         *)
(***************************************************************************)
EXTENDS Integers

CONSTANTS
    Bits,               \* bits of a CV: 8
    READ_ATTEMPTS,
    POWER_ON_SETTLE_MS, IDLE_RECHECK_STEP_MS, RECOVERY_MS, WRITE_HOLD_MS,
    IDLE_RECHECKS,      \* IDLE_SETTLE_MAX_MS / IDLE_RECHECK_STEP_MS
    MIN_BACKOFF_MS,     \* MIN_OVERCURRENT_BACKOFF_MS of the track monitor
    MaxSpurious,        \* bound: noise that passes for an ACK
    MaxJobs             \* bound: operations submitted

ServiceModeAssumption ==
    /\ Bits \in Nat \ {0} /\ READ_ATTEMPTS \in Nat \ {0} /\ IDLE_RECHECKS \in Nat
    /\ {POWER_ON_SETTLE_MS, IDLE_RECHECK_STEP_MS, RECOVERY_MS, WRITE_HOLD_MS} \subseteq Nat
    /\ MIN_BACKOFF_MS \in Nat /\ MaxSpurious \in Nat /\ MaxJobs \in Nat

Values == SUBSET (0..Bits - 1)

\* SVC_OP_READ or SVC_OP_WRITE with a value.
Ops == [write : {FALSE}, value : {{}}] \union [write : {TRUE}, value : Values]

VARIABLES
    g_queue,        \* the submitted operation, if any: a set of at most one
    req,            \* the operation under way
    pc,             \* where task_servicemode is
    attempt, step,  \* svc_cv_read's loops; for a write 0, then 1 to verify
    v, any_ack,     \* svc_cv_read's result so far
    ack,            \* the instruction was acknowledged
    res, value,     \* result of the operation
    rechecks,       \* idle_settles: times the idle current was too high
    state,          \* prog track: "OFF", "ON" (or alert), "OVERLOAD"
    override,       \* the main track's limit is in force
    present, cv,    \* the decoder on the track, and its CV
    lost, spurious, \* wrong verdicts of the ACK detector in this operation
    tripped,        \* the track was cut before the result was settled
    jobs

progress == <<attempt, step, v, any_ack, rechecks>>
faults == <<lost, spurious, tripped>>
vars == <<g_queue, req, pc, ack, progress, res, value, state, override, present, cv, faults, jobs>>

-----------------------------------------------------------------------------
(* The LCC task.  SVC_BUSY when an operation is queued already.            *)

servicemode_submit(op) ==
    /\ g_queue = {}
    /\ jobs < MaxJobs
    /\ jobs' = jobs + 1
    /\ g_queue' = {op}
    /\ UNCHANGED <<req, pc, ack, progress, res, value, state, override, present, cv, faults>>

-----------------------------------------------------------------------------
(* The track.                                                              *)

DelayMs == [settle |-> POWER_ON_SETTLE_MS, recheck |-> IDLE_RECHECK_STEP_MS,
            recovery |-> RECOVERY_MS, hold |-> WRITE_HOLD_MS]

\* The monitor cuts the power.
motor_trip ==
    /\ state = "ON"
    /\ state' = "OVERLOAD"
    /\ tripped' = (tripped \/ pc \notin {"hold", "power_off"})
    /\ UNCHANGED <<g_queue, req, pc, ack, progress, res, value, override, present, cv, lost,
                   spurious, jobs>>

\* Power comes back after the back-off.  While the task listens it looks at the
\* track every 50 us; only its delays can be longer than the back-off.
motor_restore ==
    /\ state = "OVERLOAD"
    /\ pc \in DOMAIN DelayMs /\ DelayMs[pc] >= MIN_BACKOFF_MS
    /\ state' = "ON"
    /\ UNCHANGED <<g_queue, req, pc, ack, progress, res, value, override, present, cv, faults, jobs>>

\* A decoder is put on the track or taken off between operations.
place_decoder ==
    /\ pc = "idle"
    /\ present' = ~present
    /\ \E c \in Values : cv' = c
    /\ UNCHANGED <<g_queue, req, pc, ack, progress, res, value, state, override, faults, jobs>>

-----------------------------------------------------------------------------
(* task_servicemode.                                                       *)

Step(from, to) ==
    /\ pc = from
    /\ pc' = to

receive ==
    /\ g_queue # {}
    /\ Step("idle", "limit_on")
    /\ req' \in g_queue
    /\ g_queue' = {}
    /\ attempt' = 0 /\ step' = 0 /\ v' = {} /\ any_ack' = FALSE /\ rechecks' = 0
    /\ value' = req'.value
    /\ lost' = 0 /\ spurious' = 0 /\ tripped' = FALSE
    /\ UNCHANGED <<ack, res, state, override, present, cv, jobs>>

\* track_power: the limit is raised before the power comes on ...
raise_limit ==
    /\ Step("limit_on", "power_on")
    /\ override' = TRUE
    /\ UNCHANGED <<g_queue, req, ack, progress, res, value, state, present, cv, faults, jobs>>

power_on ==
    /\ Step("power_on", "settle")
    /\ state' = IF state = "OFF" THEN "ON" ELSE state
    /\ UNCHANGED <<g_queue, req, ack, progress, res, value, override, present, cv, faults, jobs>>

settled ==
    /\ Step("settle", "idle_check")
    /\ UNCHANGED <<g_queue, req, ack, progress, res, value, state, override, present, cv, faults,
                   jobs>>

End(r) == res' = r /\ pc' = IF req.write /\ r # "SHORT" THEN "hold" ELSE "power_off"

track_tripped == state # "ON"

\* idle_settles; high: the idle current was over the programming limit, perhaps
\* before the track was cut.
idle_settles(high) ==
    /\ pc = "idle_check"
    /\ CASE ~high -> pc' = "send" /\ UNCHANGED <<res, rechecks>>
         [] high /\ (track_tripped \/ rechecks = IDLE_RECHECKS) ->
                End("SHORT") /\ UNCHANGED rechecks
         [] OTHER -> rechecks' = rechecks + 1 /\ pc' = "recheck" /\ UNCHANGED res
    /\ UNCHANGED <<g_queue, req, ack, attempt, step, v, any_ack, value, state, override, present,
                   cv, faults, jobs>>

recheck ==
    /\ Step("recheck", "idle_check")
    /\ UNCHANGED <<g_queue, req, ack, progress, res, value, state, override, present, cv, faults,
                   jobs>>

WritesNow == req.write /\ step = 0

\* Whether the decoder acknowledges the instruction: a write it stores, or a bit
\* or byte verify that holds.
Truth(stores) ==
    /\ present
    /\ CASE WritesNow              -> stores
         [] req.write /\ ~WritesNow -> cv = req.value
         [] ~req.write /\ step < Bits -> step \in cv
         [] ~req.write /\ step = Bits -> v = cv

\* hw_send fails: the track is cut before or while the burst goes out, or the
\* idle current before it is over the programming limit.
hw_send_short(stores) ==
    /\ pc = "send"
    /\ End("SHORT")
    /\ cv' = IF WritesNow /\ present /\ stores THEN req.value ELSE cv
    /\ UNCHANGED <<g_queue, req, ack, progress, value, state, override, present, faults, jobs>>

\* The burst went out, with the detector's verdict a; the recovery time starts.
hw_send(a, stores) ==
    /\ pc = "send"
    /\ ~track_tripped
    /\ ack' = a
    /\ lost' = IF Truth(stores) /\ ~a THEN 1 ELSE lost
    /\ spurious' = IF ~Truth(stores) /\ a THEN spurious + 1 ELSE spurious
    /\ spurious' <= MaxSpurious
    /\ cv' = IF WritesNow /\ present /\ stores THEN req.value ELSE cv
    /\ pc' = "recovery"
    /\ UNCHANGED <<g_queue, req, progress, res, value, state, override, present, tripped, jobs>>

\* Mutant: the byte the bits make is returned without a verify.
svc_cv_read_unverified ==
    /\ v' = IF ack THEN v \union {step} ELSE v
    /\ any_ack' = (any_ack \/ ack)
    /\ step' = step + 1
    /\ IF step = Bits - 1
       THEN value' = v' /\ End("OK")
       ELSE pc' = "send" /\ UNCHANGED <<res, value>>
    /\ UNCHANGED attempt

\* Mutant: the bit answers are forgotten.
ReadFailedBlind == "NO_LOCO"

\* A CV of 0 answers no bit verify but its byte verify: no ACK at all, no loco.
ReadFailed == IF any_ack THEN "NO_ACK" ELSE "NO_LOCO"

\* Mutant: <= for <.
MoreAttemptsOver == attempt + 1 <= READ_ATTEMPTS

MoreAttempts == attempt + 1 < READ_ATTEMPTS

\* svc_cv_read after an instruction: the next bit, the byte, or the next attempt.
svc_cv_read ==
    CASE step < Bits ->
            /\ v' = IF ack THEN v \union {step} ELSE v
            /\ any_ack' = (any_ack \/ ack)
            /\ step' = step + 1
            /\ pc' = "send"
            /\ UNCHANGED <<attempt, res, value>>
      [] step = Bits /\ ack ->
            /\ value' = v
            /\ End("OK")
            /\ UNCHANGED <<attempt, step, v, any_ack>>
      [] step = Bits /\ ~ack /\ MoreAttempts ->
            /\ attempt' = attempt + 1 /\ step' = 0 /\ v' = {}
            /\ pc' = "send"
            /\ UNCHANGED <<any_ack, res, value>>
      [] OTHER ->
            /\ End(ReadFailed)
            /\ UNCHANGED <<attempt, step, v, any_ack, value>>

\* Mutant: an unanswered write is verified for ever.
svc_cv_write_again ==
    /\ IF ~ack
       THEN step' = 1 /\ pc' = "send" /\ UNCHANGED res
       ELSE End("OK") /\ UNCHANGED step
    /\ UNCHANGED <<attempt, v, any_ack, value>>

\* svc_cv_write after the write, and after the verify of an unanswered write.
svc_cv_write ==
    /\ IF step = 0 /\ ~ack
       THEN step' = 1 /\ pc' = "send" /\ UNCHANGED res
       ELSE End(IF ack THEN "OK" ELSE "NO_ACK") /\ UNCHANGED step
    /\ UNCHANGED <<attempt, v, any_ack, value>>

recovered ==
    /\ pc = "recovery"
    /\ CASE track_tripped -> End("SHORT") /\ UNCHANGED <<attempt, step, v, any_ack, value>>
         [] ~track_tripped /\ req.write -> svc_cv_write
         [] ~track_tripped /\ ~req.write -> svc_cv_read
    /\ UNCHANGED <<g_queue, req, ack, rechecks, state, override, present, cv, faults, jobs>>

hold ==
    /\ Step("hold", "power_off")
    /\ UNCHANGED <<g_queue, req, ack, progress, res, value, state, override, present, cv,
                   faults, jobs>>

\* Mutant: the limit is lowered first.
power_off_late ==
    /\ Step("power_off", "limit_off")
    /\ override' = FALSE
    /\ UNCHANGED <<g_queue, req, ack, progress, res, value, state, present, cv, faults, jobs>>

\* ... and lowered after it is off.
power_off ==
    /\ Step("power_off", "limit_off")
    /\ state' = "OFF"
    /\ UNCHANGED <<g_queue, req, ack, progress, res, value, override, present, cv, faults, jobs>>

restore_limit ==
    /\ Step("limit_off", "done")
    /\ override' = FALSE
    /\ UNCHANGED <<g_queue, req, ack, progress, res, value, state, present, cv, faults, jobs>>

\* The callback runs: the state with pc = "done" is what it is told.
done ==
    /\ Step("done", "idle")
    /\ UNCHANGED <<g_queue, req, ack, progress, res, value, state, override, present, cv,
                   faults, jobs>>

-----------------------------------------------------------------------------

Init ==
    /\ g_queue = {} /\ req = [write |-> FALSE, value |-> {}] /\ pc = "idle"
    /\ attempt = 0 /\ step = 0 /\ v = {} /\ any_ack = FALSE /\ rechecks = 0 /\ ack = FALSE
    /\ res = "OK" /\ value = {}
    /\ state = "OFF" /\ override = FALSE
    /\ present = FALSE /\ cv = {}
    /\ lost = 0 /\ spurious = 0 /\ tripped = FALSE
    /\ jobs = 0

task_servicemode ==
    \/ receive \/ raise_limit \/ power_on \/ settled
    \/ \E high \in BOOLEAN : idle_settles(high)
    \/ recheck
    \/ \E stores \in BOOLEAN : hw_send_short(stores) \/ \E a \in BOOLEAN : hw_send(a, stores)
    \/ recovered \/ hold \/ power_off \/ restore_limit \/ done

Next ==
    \/ \E op \in Ops : servicemode_submit(op)
    \/ motor_trip \/ motor_restore
    \/ place_decoder
    \/ task_servicemode

Spec == Init /\ [][Next]_vars

\* The task is scheduled and its delays and busy waits end.
Fairness == WF_vars(task_servicemode)

FairSpec == Spec /\ Fairness

-----------------------------------------------------------------------------

TypeOK ==
    /\ g_queue \subseteq Ops /\ (\A x, y \in g_queue : x = y) /\ req \in Ops
    /\ pc \in {"idle", "limit_on", "power_on", "settle", "idle_check", "recheck", "send",
               "recovery", "hold", "power_off", "limit_off", "done"}
    /\ attempt \in 0..READ_ATTEMPTS - 1 /\ step \in 0..Bits /\ v \in Values
    /\ res \in {"OK", "NO_ACK", "NO_LOCO", "SHORT"} /\ value \in Values
    /\ {any_ack, ack, override, present, tripped} \subseteq BOOLEAN
    /\ rechecks \in 0..IDLE_RECHECKS
    /\ state \in {"OFF", "ON", "OVERLOAD"} /\ cv \in Values
    /\ lost \in 0..1 /\ spurious \in 0..MaxSpurious /\ jobs \in 0..MaxJobs

\* A CV that is reported was in the decoder, and a value reported written is in
\* it, if no noise passed for an ACK, however many ACKs were lost; a read of a
\* decoder on the track stands one spurious ACK if none was lost.
ReportedValueIsTrue ==
    pc = "done" /\ res = "OK" =>
        \/ spurious > 1
        \/ spurious = 1 /\ (lost > 0 \/ req.write \/ ~present)
        \/ present /\ cv = IF req.write THEN req.value ELSE value

\* No loco is reported only when nothing on the track answered.
NoLocoIsTrue ==
    pc = "done" /\ res = "NO_LOCO" => ~present \/ lost > 0

\* The track is powered only for an operation, with the main track's limit in
\* force as long as it is, and off with its own limit when the caller is told.
PoweredUnderMainLimit ==
    /\ state # "OFF" => override
    /\ pc \in {"idle", "done"} => state = "OFF" /\ ~override

\* What the comment on track_tripped says: a track that is cut while the operation
\* holds it powered means a short.
TripMeansShort == pc = "done" /\ tripped => res = "SHORT"

\* Every operation that was accepted is finished.
OperationsEnd == (g_queue # {} ~> g_queue = {}) /\ (pc # "idle" ~> pc = "idle")

=============================================================================
