------------------------------ MODULE MemConfig ------------------------------
(***************************************************************************)
(* Memory configuration requests: src/lcc/lcc_memconfig.c with the         *)
(* datagram dispatch that acknowledges them (lcc_datagram.c), the CV space *)
(* of a train node (lcc_traction.c) and of the command station             *)
(* (protocol/lcc_interface.c), and the two tasks that finish a deferred    *)
(* request: service mode (programming track) and RailCom (main track).     *)
(*                                                                         *)
(* The LCC task handles one datagram at a time.  A CV operation is put off *)
(* into the one deferred slot, finished by another task, and answered by   *)
(* the LCC task's next pass.  log records, for each request, how it was    *)
(* acknowledged, its replies and the POM commands it sent to the track.    *)
(*                                                                         *)
(* Requests give the node (the command station's or a train's), the space  *)
(* ("cv", a read-only "cdi", or one nobody has), and for a write the bytes *)
(* as data.  Addresses are the real ones.  Reboot and factory reset are    *)
(* requests of module NvConfig.                                            *)
(***************************************************************************)
EXTENDS Integers, Sequences, SequencesExt, FiniteSetsExt

CONSTANTS
    Requests,           \* the requests other nodes may send
    MaxRequests,        \* bound: how many
    CDI_SIZE            \* size of the read-only space

VARIABLES
    g_deferred,         \* state of the slot and the request in it
    lcc,                \* the LCC task: "idle", "write" loop, "defer" call
    current,            \* the request it is at
    done,               \* handle_write: bytes the space has taken
    error,              \* handle_write: error so far
    pom_cv_index,       \* the train's latched CV number
    svc_queue, svc_job, \* service mode's queue and the job it runs, 0 for none
    g_busy, rc_job,     \* RailCom's busy flag and the read it runs
    railcom_on,
    log

jobs == <<svc_queue, svc_job, g_busy, rc_job>>
vars == <<g_deferred, lcc, current, done, error, pom_cv_index, jobs, railcom_on, log>>

Ids == 1..MaxRequests

CV_DIRECT_COUNT == 1024
CV_OFFSET_INDEX == 2130706432           \* 0x7F000000
CV_OFFSET_VALUE == CV_OFFSET_INDEX + 4
CV_OFFSET_VERIFY_VALUE == CV_OFFSET_INDEX + 5
CV_OFFSET_VERIFY_RESULT == CV_OFFSET_INDEX + 6
CV_SPACE_SIZE == CV_OFFSET_INDEX + 7
CV_LONG_ADDRESS == 17
CV_CONSIST_ADDRESS == 19
UINT16_MAX == 65535
MaxData == 72 - 7                       \* LCC_DATAGRAM_MAX less the header

\* A request's data fit the datagram it came in.
MemConfigAssumption ==
    /\ MaxRequests \in Nat /\ CDI_SIZE \in Nat
    /\ \A q \in Requests :
          /\ q.node \in {"cs", "train"} /\ q.space \in {"cv", "cdi", "unknown"}
          /\ q.addr \in Nat /\ q.count \in Nat
          /\ q.data \in Seq(0..255) /\ Len(q.data) <= MaxData

-----------------------------------------------------------------------------
(* Spaces and the check a datagram passes before it is acknowledged.       *)

IsRw(q) == q.cmd \in {"read", "write"}
Count(q) == IF q.cmd = "write" THEN Len(q.data) ELSE q.count
Deferrable(q) == q.space = "cv"
Size(q) ==
    CASE q.space = "cdi"                     -> CDI_SIZE
      [] q.space = "cv" /\ q.node = "cs"     -> CV_DIRECT_COUNT
      [] q.space = "cv" /\ q.node = "train"  -> CV_SPACE_SIZE

\* The error a read or write is refused with, or "none".
parse_rw(q) ==
    CASE Count(q) = 0                        -> "INVALID_ARGUMENTS"
      [] Count(q) > 0 /\ q.space = "unknown" -> "SPACE_UNKNOWN"
      [] q.cmd = "write" /\ q.space = "cdi"  -> "WRITE_READ_ONLY"
      [] q.cmd = "write" /\ q.node = "train" /\ q.space = "cv" /\ q.addr >= Size(q)
                                             -> "OUT_OF_BOUNDS"
      [] OTHER                               -> "none"

\* Reads, writes and the two inquiries are answered; an update notice is not;
\* anything else is refused.
lcc_memconfig_check(q) ==
    CASE IsRw(q)                             -> parse_rw(q)
      [] q.cmd \in {"options", "space_info", "update_complete"} -> "none"
      [] OTHER                               -> "UNIMPLEMENTED_SUBCMD"

ReplyPending(q) == IsRw(q) \/ q.cmd \in {"options", "space_info"}

-----------------------------------------------------------------------------
(* Replies.                                                                *)

Reply(err, len, from) == [error |-> err, len |-> len, from |-> from]

send_reply(id, reply) == log' = [log EXCEPT ![id].replies = Append(@, reply)]

Slot(state, id) == [state |-> state, id |-> id, error |-> "none", from |-> 0]

Min2(a, b) == IF a < b THEN a ELSE b

\* Bytes a synchronous read returns: within the space and one datagram.
ReadLength(q) ==
    IF q.addr >= Size(q) THEN 0 ELSE Min2(Min2(Count(q), Size(q) - q.addr), MaxData)

-----------------------------------------------------------------------------
(* The train's CV space.                                                   *)

IndexArea(a) == a \in CV_OFFSET_INDEX..CV_OFFSET_VALUE - 1
IndexValid == pom_cv_index \in 1..CV_DIRECT_COUNT

\* What a read of the train's CV space comes to: bytes at once, a deferred POM
\* read, or an error.
cv_space_read(q) ==
    CASE IndexArea(q.addr) -> "data"
      [] q.addr < CV_DIRECT_COUNT -> "DEFER"
      [] q.addr = CV_OFFSET_VALUE -> IF IndexValid THEN "DEFER" ELSE "INVALID_ARGUMENTS"
      [] q.addr > CV_OFFSET_VALUE -> "UNIMPLEMENTED_CMD"
      [] OTHER -> "OUT_OF_BOUNDS"

\* Mutant: the pair is sent but only one byte is counted.
write_cvs_single(cv, count) ==
    [cvs |-> IF cv \in {CV_LONG_ADDRESS, CV_CONSIST_ADDRESS} /\ count >= 2
             THEN <<cv, cv + 1>> ELSE <<cv>>, taken |-> 1]

\* The long address and the long consist take two bytes in one command.
write_cvs(cv, count) ==
    IF cv \in {CV_LONG_ADDRESS, CV_CONSIST_ADDRESS} /\ count >= 2
    THEN [cvs |-> <<cv, cv + 1>>, taken |-> 2]
    ELSE [cvs |-> <<cv>>, taken |-> 1]

\* Mutant: the bytes above the low 16 bits are kept.
LatchIndexWide(off, bytes) ==
    LET old == <<0, 0, pom_cv_index \div 256, pom_cv_index % 256>>
        new == [i \in 1..4 |-> IF i \in off + 1..off + Len(bytes) THEN bytes[i - off] ELSE old[i]]
    IN  new[2] * 65536 + new[3] * 256 + new[4]

\* CV_INDEX is four bytes, high byte first; only the low 16 bits are kept.
LatchIndex(off, bytes) ==
    LET old == <<0, 0, pom_cv_index \div 256, pom_cv_index % 256>>
        new == [i \in 1..4 |-> IF i \in off + 1..off + Len(bytes) THEN bytes[i - off] ELSE old[i]]
    IN  new[3] * 256 + new[4]

\* One call: the CVs it writes, the bytes it takes, the index and the error.
Taken(n, cvs) == [taken |-> n, cvs |-> cvs, index |-> pom_cv_index, error |-> "none"]
Refused(err) == [Taken(0, <<>>) EXCEPT !.error = err]
cv_space_write(addr, bytes) ==
    CASE addr < CV_DIRECT_COUNT ->
            LET w == write_cvs(addr + 1, Len(bytes)) IN Taken(w.taken, w.cvs)
      [] IndexArea(addr) ->
            LET off == addr - CV_OFFSET_INDEX
                n   == Min2(Len(bytes), 4 - off)
            IN  [Taken(n, <<>>) EXCEPT !.index = LatchIndex(off, SubSeq(bytes, 1, n))]
      [] addr = CV_OFFSET_VALUE ->
            IF IndexValid THEN Taken(1, write_cvs(pom_cv_index, 1).cvs)
            ELSE Refused("INVALID_ARGUMENTS")
      [] addr = CV_OFFSET_VERIFY_VALUE -> Taken(1, <<>>)
      [] addr = CV_OFFSET_VERIFY_RESULT -> Refused("WRITE_READ_ONLY")
      [] OTHER -> Refused("OUT_OF_BOUNDS")

-----------------------------------------------------------------------------
(* The LCC task.                                                           *)

\* Mutant: the slot is taken over.
SlotTaken == FALSE

SlotBusy == g_deferred.state # "IDLE"

\* start_deferred: out of bounds, a busy slot, or the slot is PENDING before the
\* operation is started.  L is the log with the acknowledgement.
start_deferred(id, q, L) ==
    LET refuse(err) == /\ log' = [L EXCEPT ![id].replies = <<Reply(err, 0, id)>>]
                       /\ lcc' = "idle"
                       /\ UNCHANGED g_deferred
    IN  CASE q.addr >= Size(q) -> refuse("OUT_OF_BOUNDS")
          [] q.addr < Size(q) /\ SlotBusy -> refuse("TEMPORARY")
          [] OTHER -> /\ g_deferred' = Slot("PENDING", id)
                      /\ lcc' = "defer"
                      /\ log' = L

\* handle_read and the start of handle_write, after Datagram OK.
handle_read(id, q, L) ==
    LET result == IF q.space = "cdi" \/ q.addr >= Size(q) THEN "data"
                  ELSE IF q.node = "cs" THEN "DEFER" ELSE cv_space_read(q)
        length == IF q.space = "cv" /\ q.addr < Size(q)
                  THEN Min2(ReadLength(q), CV_OFFSET_VALUE - q.addr) ELSE ReadLength(q)
    IN  IF result = "DEFER" \/ (q.space = "cv" /\ q.node = "cs")
        THEN start_deferred(id, q, L) /\ UNCHANGED <<done, error>>
        ELSE /\ log' = [L EXCEPT ![id].replies =
                            <<IF result = "data" THEN Reply("none", length, id)
                              ELSE Reply(result, 0, id)>>]
             /\ lcc' = "idle"
             /\ UNCHANGED <<g_deferred, done, error>>

handle_write(id, q, L) ==
    IF q.node = "cs"
    THEN start_deferred(id, q, L) /\ UNCHANGED <<done, error>>
    ELSE /\ lcc' = "write" /\ done' = 0 /\ error' = "none"
         /\ log' = L
         /\ UNCHANGED g_deferred

\* handle_get_options and handle_get_space_info: a reply at once, which says so if
\* the space asked for is not known.
handle_inquiry(id, q, L) ==
    /\ LET unknown == q.cmd = "space_info" /\ q.space = "unknown"
       IN  log' = [L EXCEPT ![id].replies =
                        <<Reply(IF unknown THEN "SPACE_UNKNOWN" ELSE "none", 0, id)>>]
    /\ UNCHANGED <<g_deferred, lcc, done, error>>

\* lcc_datagram_dispatch: check, acknowledge or reject, and handle.
lcc_datagram_dispatch(q) ==
    /\ lcc = "idle"
    /\ Len(log) < MaxRequests
    /\ LET id  == Len(log) + 1
           err == lcc_memconfig_check(q)
           ack == CASE err # "none" -> "REJECTED"
                    [] err = "none" /\ ReplyPending(q) -> "REPLY_PENDING"
                    [] OTHER -> "OK"
           L   == Append(log, [req |-> q, ack |-> ack, replies |-> <<>>, cvs |-> <<>>])
       IN  /\ current' = id
           /\ CASE ack = "REPLY_PENDING" /\ q.cmd = "read"  -> handle_read(id, q, L)
                [] ack = "REPLY_PENDING" /\ q.cmd = "write" -> handle_write(id, q, L)
                [] ack = "REPLY_PENDING" /\ ~IsRw(q)        -> handle_inquiry(id, q, L)
                [] OTHER -> log' = L /\ UNCHANGED <<g_deferred, lcc, done, error>>
    /\ UNCHANGED <<pom_cv_index, jobs, railcom_on>>

Request == log[current].req
InBounds == Min2(Len(Request.data), Size(Request) - Request.addr)

\* handle_write's loop offers the space what it has not taken yet.
write_next ==
    /\ lcc = "write"
    /\ done < InBounds /\ error = "none"
    /\ LET w == cv_space_write(Request.addr + done,
                               SubSeq(Request.data, done + 1, InBounds))
       IN  /\ done' = done + w.taken
           /\ error' = w.error
           /\ pom_cv_index' = w.index
           /\ log' = [log EXCEPT ![current].cvs = @ \o w.cvs]
    /\ UNCHANGED <<g_deferred, lcc, current, jobs, railcom_on>>

write_end ==
    /\ lcc = "write"
    /\ done >= InBounds \/ error # "none"
    /\ lcc' = "idle"
    /\ LET err == IF error = "none" /\ InBounds < Len(Request.data) THEN "OUT_OF_BOUNDS"
                  ELSE error
       IN  send_reply(current, Reply(err, 0, current))
    /\ UNCHANGED <<g_deferred, current, done, error, pom_cv_index, jobs, railcom_on>>

\* The defer hook takes the operation: progtrack_defer and servicemode_submit ...
progtrack_defer ==
    /\ lcc = "defer"
    /\ Request.node = "cs"
    /\ lcc' = "idle"
    /\ LET err == CASE Request.cmd = "write" /\ Len(Request.data) # 1 -> "INVALID_ARGUMENTS"
                    [] svc_queue # 0 -> "TEMPORARY"
                    [] OTHER -> "none"
       IN  IF err = "none"
           THEN svc_queue' = current /\ UNCHANGED <<g_deferred, log>>
           ELSE /\ g_deferred' = Slot("IDLE", 0)
                /\ send_reply(current, Reply(err, 0, current))
                /\ UNCHANGED svc_queue
    /\ UNCHANGED <<current, done, error, pom_cv_index, svc_job, g_busy, rc_job, railcom_on>>

\* ... or cv_space_defer and railcom_pom_read.
cv_space_defer ==
    /\ lcc = "defer"
    /\ Request.node = "train"
    /\ lcc' = "idle"
    /\ IF railcom_on /\ ~g_busy
       THEN g_busy' = TRUE /\ rc_job' = current /\ UNCHANGED <<g_deferred, log>>
       ELSE /\ g_deferred' = Slot("IDLE", 0)
            /\ send_reply(current, Reply(IF railcom_on THEN "TEMPORARY" ELSE "UNIMPLEMENTED_CMD",
                                         0, current))
            /\ UNCHANGED <<g_busy, rc_job>>
    /\ UNCHANGED <<current, done, error, pom_cv_index, svc_queue, svc_job, railcom_on>>

\* Mutant: only successes are reported.
ResultReadyIfGood == g_deferred.state = "DONE" /\ g_deferred.error = "none"

ResultReady == g_deferred.state = "DONE"

\* Mutant: the slot stays DONE.
flush_keeps == g_deferred

flush_frees == Slot("IDLE", 0)

\* lcc_memconfig_flush_deferred, on every pass of the LCC task.
lcc_memconfig_flush_deferred ==
    /\ lcc = "idle"
    /\ ResultReady
    /\ send_reply(g_deferred.id,
                  Reply(g_deferred.error, IF g_deferred.error = "none" THEN 1 ELSE 0,
                        g_deferred.from))
    /\ g_deferred' = flush_frees
    /\ UNCHANGED <<lcc, current, done, error, pom_cv_index, jobs, railcom_on>>

-----------------------------------------------------------------------------
(* The other tasks.                                                        *)

\* The result of a job; ignored unless a request is pending.
lcc_memconfig_complete(job, err) ==
    IF g_deferred.state = "PENDING"
    THEN g_deferred' = [g_deferred EXCEPT !.state = "DONE", !.error = err, !.from = job]
    ELSE UNCHANGED g_deferred

svc_receive ==
    /\ svc_job = 0 /\ svc_queue # 0
    /\ svc_job' = svc_queue /\ svc_queue' = 0
    /\ UNCHANGED <<g_deferred, lcc, current, done, error, pom_cv_index, g_busy, rc_job,
                   railcom_on, log>>

\* progtrack_read_done or progtrack_write_done.
progtrack_done(err) ==
    /\ svc_job # 0
    /\ lcc_memconfig_complete(svc_job, err)
    /\ svc_job' = 0
    /\ UNCHANGED <<lcc, current, done, error, pom_cv_index, svc_queue, g_busy, rc_job,
                   railcom_on, log>>

\* RailCom calls back, and clears its busy flag only then.
pom_read_done(err) ==
    /\ rc_job # 0
    /\ lcc_memconfig_complete(rc_job, err)
    /\ rc_job' = 0
    /\ UNCHANGED <<lcc, current, done, error, pom_cv_index, svc_queue, svc_job, g_busy,
                   railcom_on, log>>

railcom_free ==
    /\ g_busy /\ rc_job = 0
    /\ g_busy' = FALSE
    /\ UNCHANGED <<g_deferred, lcc, current, done, error, pom_cv_index, svc_queue, svc_job,
                   rc_job, railcom_on, log>>

set_railcom ==
    /\ railcom_on' = ~railcom_on
    /\ UNCHANGED <<g_deferred, lcc, current, done, error, pom_cv_index, jobs, log>>

-----------------------------------------------------------------------------

Init ==
    /\ g_deferred = Slot("IDLE", 0)
    /\ lcc = "idle" /\ current = 0 /\ done = 0 /\ error = "none"
    /\ pom_cv_index = 0
    /\ svc_queue = 0 /\ svc_job = 0 /\ g_busy = FALSE /\ rc_job = 0
    /\ railcom_on = TRUE
    /\ log = <<>>

lcc_task ==
    \/ write_next \/ write_end
    \/ progtrack_defer \/ cv_space_defer
    \/ lcc_memconfig_flush_deferred

svc_task == svc_receive \/ \E err \in {"none", "DCC_NO_LOCO"} : progtrack_done(err)
rc_task == (\E err \in {"none", "DCC_NO_LOCO"} : pom_read_done(err)) \/ railcom_free

Next ==
    \/ \E q \in Requests : lcc_datagram_dispatch(q)
    \/ lcc_task \/ svc_task \/ rc_task
    \/ set_railcom

Spec == Init /\ [][Next]_vars

\* The three tasks are scheduled, and the operations themselves end (modules
\* ServiceMode and RailcomRead).
Fairness == WF_vars(lcc_task) /\ WF_vars(svc_task) /\ WF_vars(rc_task)

FairSpec == Spec /\ Fairness

-----------------------------------------------------------------------------

Errors == {"none", "INVALID_ARGUMENTS", "SPACE_UNKNOWN", "WRITE_READ_ONLY", "OUT_OF_BOUNDS",
           "UNIMPLEMENTED_SUBCMD", "UNIMPLEMENTED_CMD", "TEMPORARY", "DCC_NO_LOCO"}

TypeOK ==
    /\ g_deferred.state \in {"IDLE", "PENDING", "DONE"}
    /\ g_deferred.id \in 0..Len(log) /\ g_deferred.error \in Errors
    /\ lcc \in {"idle", "write", "defer"} /\ current \in 0..Len(log)
    /\ error \in Errors /\ pom_cv_index \in 0..UINT16_MAX
    /\ {svc_queue, svc_job, rc_job} \subseteq 0..Len(log)
    /\ Len(log) <= MaxRequests
    /\ \A i \in DOMAIN log : log[i].req \in Requests

\* The slot is PENDING exactly while one operation is on its way: about to be
\* started, queued or running, and it is the slot's own.
SlotMatchesJob ==
    LET under_way == (IF lcc = "defer" THEN {current} ELSE {})
                     \union ({svc_queue, svc_job, rc_job} \ {0})
    IN  /\ under_way = IF g_deferred.state = "PENDING" THEN {g_deferred.id} ELSE {}
        /\ svc_queue = 0 \/ svc_job = 0

\* A request is answered at most once, only if it was accepted with Reply Pending,
\* and with the result of its own operation.
OneReplyEach ==
    \A i \in DOMAIN log :
        /\ Len(log[i].replies) <= 1
        /\ log[i].ack # "REPLY_PENDING" => log[i].replies = <<>>
        /\ \A r \in ToSet(log[i].replies) : r.from = i

\* A write to CVs reaches each of them once and in order; the reply reports an
\* error exactly when some byte was not written.
WritesAreExact ==
    \A i \in DOMAIN log :
        LET q == log[i].req IN
        q.cmd = "write" /\ q.node = "train" /\ q.addr < CV_DIRECT_COUNT =>
            /\ log[i].cvs = [k \in 1..Len(log[i].cvs) |-> q.addr + k]
            /\ Len(log[i].cvs) <= Len(q.data)
            /\ log[i].replies # <<>> =>
                    (log[i].replies[1].error = "none" <=> Len(log[i].cvs) = Len(q.data))

\* Every request accepted with Reply Pending is answered.
AcceptedIsAnswered ==
    \A i \in Ids : (i \in DOMAIN log /\ log[i].ack = "REPLY_PENDING")
                   ~> (i \in DOMAIN log /\ log[i].replies # <<>>)

==============================================================================
