----------------------------- MODULE RailcomRead -----------------------------
(***************************************************************************)
(* Reading a CV on the main over RailCom: src/railcom/railcom.c (the       *)
(* cutout interrupt, its ring, the request hand-over and task_railcom) and *)
(* pom_read.c (the attempts of one read).                                  *)
(*                                                                         *)
(* A read packet goes out through the DCC pipeline, here the sequence air  *)
(* of copies not yet sent; the decoder may answer in the cutout after each *)
(* copy.  The answer does not say what it answers: a cutout is matched by  *)
(* the first word of the packet before it, which holds the address and the *)
(* next one or two bytes.  A decoder's answer is modelled by the read it   *)
(* answers, so a read got its value if the answer is the read itself.      *)
(*                                                                         *)
(* Time is abstract: an attempt that has not been answered may time out at *)
(* any poll.  queued, ch2_seen and result record history.                  *)
(***************************************************************************)
EXTENDS Integers, Sequences

CONSTANTS
    Reads,                  \* address and CV of the reads clients ask for
    Long,                   \* the addresses that are long
    RING_SIZE,
    IndexModulus,           \* g_head and g_tail are uint32_t
    POM_READ_COPIES,
    POM_READ_ATTEMPTS,
    MaxAir,                 \* bound: copies in the DCC pipeline
    MaxReads,               \* bound: reads the LCC task starts
    MaxOther,               \* bound: cutouts of other packets
    None,
    NoData, NoValue         \* channel 2: nothing; an ACK, BUSY or garbage

RailcomAssumption ==
    /\ Reads \subseteq [address : Nat, cv : 1..1024]
    /\ NoData \notin Reads /\ NoValue \notin Reads
    /\ RING_SIZE \in Nat \ {0}
    /\ IndexModulus \in Nat /\ IndexModulus % RING_SIZE = 0 /\ IndexModulus > RING_SIZE
    /\ POM_READ_COPIES \in Nat \ {0}
    /\ POM_READ_ATTEMPTS \in Nat \ {0}
    /\ MaxAir \in Nat /\ MaxReads \in Nat /\ MaxOther \in Nat

VARIABLES
    g_busy, g_req, g_req_pending,
    normal,         \* the wavegen runs with the RailCom cutout
    notified,       \* the task's notification is pending
    pc,             \* where task_railcom is in its loop
    reading,
    r,              \* the pom_read_t
    air,            \* copies of read packets on their way to the track
    g_ring, g_head, g_tail,
    popped,         \* ring_pop's copy
    queued,         \* the cutouts in the ring, oldest first
    ch2_seen,       \* matching cutouts of this attempt with channel 2 data
    early,          \* the last attempt was given up before its time
    result,         \* what the callback was told: the read, answered, value
    reads, others

request == <<g_busy, g_req, g_req_pending, reads>>
ring == <<g_ring, g_head, g_tail, queued>>
history == <<ch2_seen, early, result>>
vars == <<request, normal, notified, pc, reading, r, air, ring, popped, history, others>>

-----------------------------------------------------------------------------
(* The packet word and the ring.                                           *)

\* Mutant: the address is not compared.
WordWithoutAddress(p) == <<p.cv>>

\* First word of a read packet: a long address takes two of its bytes, which
\* leaves the two high bits of the CV number but not the low byte.
Word(p) ==
    IF p.address \in Long THEN <<p.address, (p.cv - 1) \div 256>>
    ELSE <<p.address, (p.cv - 1) \div 256, (p.cv - 1) % 256>>

Cutouts == [packet : {Word(p) : p \in Reads} \union {<<>>},
            ch2 : Reads \union {NoData, NoValue}]

\* Mutant: one cutout too many.
RingOverfull == (g_head - g_tail) % IndexModulus > RING_SIZE

RingFull == (g_head - g_tail) % IndexModulus >= RING_SIZE

\* A cutout that brought something back; dropped when the ring is full.
push_cutout(c) ==
    IF RingFull THEN UNCHANGED <<ring, notified>>
    ELSE /\ g_ring' = [g_ring EXCEPT ![g_head % RING_SIZE] = c]
         /\ g_head' = (g_head + 1) % IndexModulus
         /\ queued' = Append(queued, c)
         /\ notified' = TRUE
         /\ UNCHANGED g_tail

\* The next copy of a read packet is sent.  Without the cutout nothing comes
\* back; with it the decoder may stay silent (or be missed), other decoders may
\* talk in channel 1, and channel 2 may hold an ACK, BUSY or garbage, or a value.
cutout_isr ==
    /\ air # <<>>
    /\ air' = Tail(air)
    /\ \/ UNCHANGED <<ring, notified>>
       \/ /\ normal
          /\ \E ch2 \in {NoData, NoValue, Head(air)} :
                push_cutout([packet |-> Word(Head(air)), ch2 |-> ch2])
    /\ UNCHANGED <<request, normal, pc, reading, r, popped, history, others>>

\* The cutout after any other packet, with channel 1 or channel 2 traffic.
other_cutout ==
    /\ normal
    /\ others < MaxOther
    /\ others' = others + 1
    /\ push_cutout([packet |-> <<>>, ch2 |-> NoValue])
    /\ UNCHANGED <<request, normal, pc, reading, r, air, popped, history>>

-----------------------------------------------------------------------------
(* The request, on the LCC task.                                           *)

\* Mutant: a second read is let in.
ReadRefusedWhenOff == ~normal

\* RAILCOM_READ_OFF or RAILCOM_READ_BUSY, and nothing happens.
ReadRefused == ~normal \/ g_busy

railcom_pom_read(p) ==
    /\ ~ReadRefused
    /\ reads < MaxReads
    /\ reads' = reads + 1
    /\ g_busy' = TRUE
    /\ g_req' = p
    /\ g_req_pending' = TRUE
    /\ notified' = TRUE
    /\ UNCHANGED <<normal, pc, reading, r, air, ring, popped, history, others>>

\* The RailCom setting changes: wavegen_reinit in the other mode.
set_railcom ==
    /\ normal' = ~normal
    /\ UNCHANGED <<request, notified, pc, reading, r, air, ring, popped, history, others>>

-----------------------------------------------------------------------------
(* task_railcom.                                                           *)

NoRead == [packet |-> <<>>, attempts |-> 0, answers |-> 0, done |-> FALSE, value |-> None]

pom_read_start(p) == [NoRead EXCEPT !.packet = Word(p)]

\* The task wakes for a notification, or every POLL_MS while it reads.
task_wake ==
    /\ pc = "wait"
    /\ notified \/ reading
    /\ notified' = FALSE
    /\ pc' = "drain"
    /\ IF g_req_pending
       THEN r' = pom_read_start(g_req) /\ reading' = TRUE /\ g_req_pending' = FALSE
       ELSE UNCHANGED <<r, reading, g_req_pending>>
    /\ UNCHANGED <<g_busy, g_req, reads, normal, air, ring, popped, history, others>>

\* ring_pop copies the cutout out before it moves the tail.
ring_pop ==
    /\ pc = "drain"
    /\ g_tail # g_head
    /\ popped' = g_ring[g_tail % RING_SIZE]
    /\ pc' = "pop"
    /\ UNCHANGED <<request, normal, notified, reading, r, air, ring, history, others>>

Matches(c) == r.attempts > 0 /\ c.packet = r.packet

\* Mutant: the answers are counted without end.
pom_read_cutout_uncapped(c) ==
    IF ~reading \/ r.done \/ ~Matches(c) THEN r
    ELSE IF c.ch2 \in Reads THEN [r EXCEPT !.done = TRUE, !.value = c.ch2]
    ELSE [r EXCEPT !.answers = @ + 1]

pom_read_cutout(c) ==
    IF ~reading \/ r.done \/ ~Matches(c) THEN r
    ELSE IF c.ch2 \in Reads THEN [r EXCEPT !.done = TRUE, !.value = c.ch2]
    ELSE [r EXCEPT !.answers = IF @ < POM_READ_COPIES THEN @ + 1 ELSE @]

\* The tail moves; what is left in the slot is not read again, so forget it.
ring_popped ==
    /\ pc = "pop"
    /\ g_tail' = (g_tail + 1) % IndexModulus
    /\ g_ring' = [g_ring EXCEPT ![g_tail % RING_SIZE] = None]
    /\ queued' = Tail(queued)
    /\ r' = pom_read_cutout(popped)
    /\ ch2_seen' = ch2_seen + IF reading /\ Matches(popped) /\ popped.ch2 # NoData
                                 /\ ch2_seen < POM_READ_COPIES THEN 1 ELSE 0
    /\ popped' = None
    /\ pc' = "drain"
    /\ UNCHANGED <<request, normal, notified, reading, air, g_head, early, result,
                   others>>

drained ==
    /\ pc = "drain"
    /\ g_tail = g_head
    /\ pc' = IF reading THEN "poll" ELSE "wait"
    /\ UNCHANGED <<request, normal, notified, reading, r, air, ring, popped, history, others>>

\* Mutant: the attempts are not counted.
NextAttemptUncounted == [r EXCEPT !.answers = 0, !.attempts = 1]

NextAttempt == [r EXCEPT !.answers = 0, !.attempts = @ + 1]

\* Every copy came back without a value.
AllAnswered == r.answers >= POM_READ_COPIES

\* pom_read_poll; late: the attempt's time is over.  The DCC pipeline takes the
\* packet's copies, or drops it when it is full or holds the same packet.
poll_send(late) ==
    /\ pc = "poll"
    /\ ~r.done
    /\ r.attempts = 0 \/ AllAnswered \/ late
    /\ r.attempts < POM_READ_ATTEMPTS
    /\ r' = NextAttempt
    /\ \/ /\ Len(air) + POM_READ_COPIES <= MaxAir
          /\ air' = air \o [i \in 1..POM_READ_COPIES |-> g_req]
       \/ UNCHANGED air
    /\ early' = (r.attempts > 0 /\ ~late /\ ch2_seen < POM_READ_COPIES)
    /\ ch2_seen' = 0
    /\ pc' = "wait"
    /\ UNCHANGED <<request, normal, notified, reading, ring, popped, result, others>>

poll_wait ==
    /\ pc = "poll"
    /\ ~r.done /\ r.attempts > 0 /\ ~AllAnswered
    /\ pc' = "wait"
    /\ UNCHANGED <<request, normal, notified, reading, r, air, ring, popped, history, others>>

\* POM_READ_DONE or POM_READ_FAILED: the callback, and then g_busy.
poll_finish(late) ==
    /\ pc = "poll"
    /\ r.done \/ (r.attempts >= POM_READ_ATTEMPTS /\ (AllAnswered \/ late))
    /\ reading' = FALSE
    /\ result' = [read |-> g_req, answered |-> r.done, value |-> r.value]
    /\ r' = NoRead /\ ch2_seen' = 0 /\ early' = FALSE
    /\ pc' = "clear"
    /\ UNCHANGED <<request, normal, notified, air, ring, popped, others>>

clear_busy ==
    /\ pc = "clear"
    /\ g_busy' = FALSE
    /\ result' = None
    /\ pc' = "wait"
    /\ UNCHANGED <<g_req, g_req_pending, reads, normal, notified, reading, r, air, ring,
                   popped, ch2_seen, early, others>>

-----------------------------------------------------------------------------

Init ==
    /\ g_busy = FALSE /\ g_req = None /\ g_req_pending = FALSE /\ reads = 0
    /\ normal = TRUE
    /\ notified = FALSE /\ pc = "wait" /\ reading = FALSE
    /\ r = NoRead
    /\ air = <<>>
    /\ g_ring = [i \in 0..RING_SIZE - 1 |-> None] /\ g_head = 0 /\ g_tail = 0
    /\ queued = <<>> /\ popped = None
    /\ ch2_seen = 0 /\ early = FALSE
    /\ result = None
    /\ others = 0

task_railcom ==
    \/ task_wake \/ ring_pop \/ ring_popped \/ drained
    \/ \E late \in BOOLEAN : poll_send(late) \/ poll_finish(late)
    \/ poll_wait \/ clear_busy

Next ==
    \/ \E p \in Reads : railcom_pom_read(p)
    \/ set_railcom
    \/ cutout_isr
    \/ other_cutout
    \/ task_railcom

Spec == Init /\ [][Next]_vars

\* The task is scheduled, and an attempt's 250 ms pass.
Fairness ==
    /\ WF_vars(task_railcom)
    /\ SF_vars(poll_send(TRUE) \/ poll_finish(TRUE))

FairSpec == Spec /\ Fairness

-----------------------------------------------------------------------------

TypeOK ==
    /\ g_busy \in BOOLEAN /\ g_req_pending \in BOOLEAN /\ normal \in BOOLEAN
    /\ g_req \in Reads \union {None}
    /\ notified \in BOOLEAN /\ reading \in BOOLEAN
    /\ pc \in {"wait", "drain", "pop", "poll", "clear"}
    /\ r.attempts \in 0..POM_READ_ATTEMPTS /\ r.answers \in 0..POM_READ_COPIES
    /\ r.done \in BOOLEAN /\ r.value \in Reads \union {None}
    /\ Len(air) <= MaxAir /\ \A i \in DOMAIN air : air[i] \in Reads
    /\ g_ring \in [0..RING_SIZE - 1 -> Cutouts \union {None}]
    /\ {g_head, g_tail} \subseteq 0..IndexModulus - 1
    /\ popped \in Cutouts \union {None}
    /\ ch2_seen \in 0..POM_READ_COPIES

\* The ring holds the cutouts that were not dropped, in order, and what the task
\* copied out is the oldest, whenever the interrupt comes.
RingIsFifo ==
    LET n == (g_head - g_tail) % IndexModulus IN
    /\ queued = [i \in 1..n |-> g_ring[(g_tail + i - 1) % RING_SIZE]]
    /\ pc = "pop" => popped = Head(queued)

\* A read that was started is finished, with its own request, before the next is
\* let in: the request's owner finds its callback unchanged.
ReadsAreExclusive ==
    /\ reading \/ g_req_pending \/ pc = "clear" <=> g_busy
    /\ ~(reading /\ g_req_pending)
    /\ reading => r.packet = Word(g_req)

\* An answer comes from the decoder that was asked, and from a short address it is
\* the value of the CV that was asked for.
AnswerFromDecoder ==
    result # None /\ result.answered =>
        /\ result.value.address = result.read.address
        /\ result.read.address \notin Long => result.value = result.read

\* What railcom.h says of the completion callback: answered means the value is the
\* CV's value.
AnswerIsCvValue ==
    result # None /\ result.answered => result.value = result.read

\* What pom_read.h says: an attempt is given up early only once every copy has come
\* back with channel 2 data.
EarlyOnlyAfterChannel2 == ~early

\* Every read that was started ends.
ReadsEnd == g_busy ~> ~g_busy

==============================================================================
