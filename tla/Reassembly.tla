----------------------------- MODULE Reassembly -----------------------------
(***************************************************************************)
(* Frames of several senders to one node: the receive queue                *)
(* (src/lcc/lcc_if.c), and the two reassemblers behind it, of datagrams    *)
(* (lcc_datagram.c) and of traction commands (lcc_traction.c).  Each node  *)
(* has one buffer for each.                                                *)
(*                                                                         *)
(* Senders are external: a sender cuts its message into frames, as         *)
(* lcc_datagram_send and lcc_node_send_addressed do on this side, may      *)
(* vanish between two of them, and sends the message again when it is      *)
(* refused or has heard nothing.  A frame is its sender, the attempt it    *)
(* belongs to and its number; every frame fills the same share of the      *)
(* buffer.  Attempts count modulo 2, enough to tell one from the next.     *)
(***************************************************************************)
EXTENDS Integers, Sequences, SequencesExt, FiniteSets

CONSTANTS
    Senders,
    Lengths,        \* frames of each sender's message
    Tries,          \* attempts of each sender before it gives up; 0: no limit
    BufferFrames,   \* LCC_DATAGRAM_MAX, or the size of rx_buf, in frames
    RxQueueLength,  \* frames the receive queue holds
    Traction        \* which reassembler: TRUE traction, FALSE datagrams

ConstantsAssumption ==
    /\ Lengths \in [Senders -> Nat \ {0}] /\ Tries \in [Senders -> Nat]
    /\ BufferFrames \in Nat \ {0} /\ RxQueueLength \in Nat \ {0}
    /\ Traction \in BOOLEAN

VARIABLES
    sender,         \* each sender: next frame, attempt, tries, and what it heard
    rx_q,
    active, src_alias, buf,     \* the buffer
    dispatched,     \* the message handed on last: its sender and frames
    dropped         \* history: senders that lost a frame to a full queue

vars == <<sender, rx_q, active, src_alias, buf, dispatched, dropped>>

Nobody == "nobody"

-----------------------------------------------------------------------------
(* Senders (external).                                                     *)

AtLast(s) == sender[s].next = Lengths[s]
Frame(s) ==
    [src |-> s, attempt |-> sender[s].attempt, number |-> sender[s].next,
     kind |-> CASE sender[s].next = 1 /\ AtLast(s)   -> "ONE"
                [] sender[s].next = 1 /\ ~AtLast(s)  -> "FIRST"
                [] sender[s].next > 1 /\ ~AtLast(s)  -> "MIDDLE"
                [] OTHER                           -> "FINAL"]

\* lcc_if_enqueue_frame, on the transport's task: dropped when the queue is full.
lcc_if_enqueue_frame(f) ==
    IF Len(rx_q) < RxQueueLength
    THEN rx_q' = Append(rx_q, f) /\ UNCHANGED dropped
    ELSE dropped' = dropped \union {f.src} /\ UNCHANGED rx_q

send(s) ==
    /\ sender[s].state = "sending"
    /\ lcc_if_enqueue_frame(Frame(s))
    /\ sender' = [sender EXCEPT ![s].next = @ + 1,
                                ![s].state = IF AtLast(s) THEN "waiting" ELSE @]
    /\ UNCHANGED <<active, src_alias, buf, dispatched>>

\* A sender that has been refused, or hears nothing, tries again or gives up.
resend(s) ==
    /\ sender[s].state \in {"refused", "waiting"}
    /\ sender[s].state = "waiting" => s \in dropped \/ Traction
    /\ \A i \in DOMAIN rx_q : rx_q[i].src # s
    /\ sender' = [sender EXCEPT
            ![s] = IF Tries[s] > 0 /\ sender[s].tries + 1 >= Tries[s]
                   THEN [@ EXCEPT !.state = "gone"]
                   ELSE [next |-> 1, attempt |-> 1 - @.attempt, state |-> "sending",
                         tries |-> IF Tries[s] = 0 THEN 0 ELSE @.tries + 1]]
    /\ UNCHANGED <<rx_q, active, src_alias, buf, dispatched, dropped>>

vanish(s) ==
    /\ Tries[s] > 0 /\ sender[s].state = "sending"
    /\ sender' = [sender EXCEPT ![s].state = "gone"]
    /\ UNCHANGED <<rx_q, active, src_alias, buf, dispatched, dropped>>

-----------------------------------------------------------------------------
(* The LCC task.                                                           *)

\* The frame's sender hears of it, if it still listens.  Traction has no
\* refusals: its frames are ignored.
Tell(s, what) ==
    sender' = IF sender[s].state = "gone" THEN sender
              ELSE [sender EXCEPT ![s].state = IF @ = "done" THEN @ ELSE what]

refuse(s) == IF Traction THEN UNCHANGED sender ELSE Tell(s, "refused")
never(s) == IF Traction THEN UNCHANGED sender ELSE Tell(s, "done")

dispatch(s, frames) ==
    /\ dispatched' = [src |-> s, frames |-> frames]
    /\ Tell(s, "done")

\* Mutant: the buffer is emptied but stays its sender's.
Free_active == buf' = <<>> /\ UNCHANGED <<active, src_alias>>

Free == active' = FALSE /\ buf' = <<>> /\ UNCHANGED src_alias

\* A message of one frame; only the datagram code empties the buffer then.
whole(f) ==
    /\ dispatch(f.src, <<f>>)
    /\ IF Traction THEN UNCHANGED <<active, src_alias, buf>> ELSE Free

\* Mutant: the buffer is left to the first sender.
TakesOver_kept(f) == ~active

TakesOver(f) == TRUE

\* The first frame takes the buffer over from whoever had it.
first(f) ==
    /\ IF TakesOver(f)
       THEN active' = TRUE /\ src_alias' = f.src /\ buf' = <<f>>
       ELSE UNCHANGED <<active, src_alias, buf>>
    /\ UNCHANGED <<sender, dispatched>>

\* Mutant: whose buffer it is does not matter.
Mine_any(f) == active

Mine(f) == active /\ src_alias = f.src

\* Mutant: one frame too many.
Fits_over(f) == Len(buf) <= BufferFrames

Fits(f) == Len(buf) + 1 <= BufferFrames

more(f) ==
    CASE ~Mine(f) -> refuse(f.src) /\ UNCHANGED <<active, src_alias, buf, dispatched>>
      [] Mine(f) /\ ~Fits(f) -> never(f.src) /\ Free /\ UNCHANGED dispatched
      [] Mine(f) /\ Fits(f) /\ f.kind = "MIDDLE" ->
            /\ buf' = Append(buf, f)
            /\ UNCHANGED <<sender, active, src_alias, dispatched>>
      [] OTHER -> dispatch(f.src, Append(buf, f)) /\ Free

\* lcc_datagram_handle_frame and lcc_traction_handle_frame.
handle_frame ==
    /\ rx_q # <<>>
    /\ rx_q' = Tail(rx_q)
    /\ LET f == Head(rx_q) IN
       CASE f.kind = "ONE"   -> whole(f)
         [] f.kind = "FIRST" -> first(f)
         [] OTHER            -> more(f)
    /\ UNCHANGED dropped

-----------------------------------------------------------------------------

Init ==
    /\ sender = [s \in Senders |-> [next |-> 1, attempt |-> 0, tries |-> 0, state |-> "sending"]]
    /\ rx_q = <<>>
    /\ active = FALSE /\ src_alias = Nobody /\ buf = <<>>
    /\ dispatched = [src |-> Nobody, frames |-> <<>>]
    /\ dropped = {}

Next ==
    \/ \E s \in Senders : send(s) \/ resend(s) \/ vanish(s)
    \/ handle_frame

Spec == Init /\ [][Next]_vars

\* The LCC task runs, and senders go on sending and resending.
Fairness ==
    /\ WF_vars(handle_frame)
    /\ \A s \in Senders : WF_vars(send(s)) /\ WF_vars(resend(s))

FairSpec == Spec /\ Fairness

-----------------------------------------------------------------------------

Kinds == {"ONE", "FIRST", "MIDDLE", "FINAL"}
FrameOK(f) == f.src \in Senders /\ f.attempt \in 0..1 /\ f.number \in 1..Lengths[f.src]
              /\ f.kind \in Kinds

TypeOK ==
    /\ \A s \in Senders : /\ sender[s].next \in 1..Lengths[s] + 1
                          /\ sender[s].attempt \in 0..1
                          /\ sender[s].state \in {"sending", "waiting", "refused", "done", "gone"}
    /\ Len(rx_q) <= RxQueueLength /\ Len(buf) <= BufferFrames
    /\ \A f \in ToSet(rx_q) \union ToSet(buf) \union ToSet(dispatched.frames) : FrameOK(f)
    /\ active \in BOOLEAN /\ src_alias \in Senders \union {Nobody}
    /\ dropped \subseteq Senders

\* A message handed on is one sender's, however the frames of several were mixed
\* on the way.
OneSender == \A f \in ToSet(dispatched.frames) : f.src = dispatched.src

\* It is the whole message, every frame of one attempt in order, unless a frame
\* of that sender was dropped.
WholeMessage ==
    LET s == dispatched.src IN
    s # Nobody /\ s \notin dropped =>
        /\ Len(dispatched.frames) = Lengths[s]
        /\ \A i \in 1..Lengths[s] :
                /\ dispatched.frames[i].number = i
                /\ dispatched.frames[i].attempt = dispatched.frames[1].attempt

\* A sender that keeps trying is heard in the end, whatever senders did that gave
\* up or vanished in the middle of a message.
NotLockedOut ==
    \A s \in Senders : Tries[s] = 0 => <>(sender[s].state = "done")

=============================================================================
