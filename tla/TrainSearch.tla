----------------------------- MODULE TrainSearch -----------------------------
(***************************************************************************)
(* Finding and creating train nodes: Train Search events and Verify Node   *)
(* ID (src/lcc/lcc_train_search.c), and the pool they allocate from        *)
(* (src/protocol/lcc_interface.c).                                         *)
(*                                                                         *)
(* A search event is its six digits, 15 for padding, and its set of flags. *)
(* A node id is the address part of the well-known DCC-proxy ids.  The     *)
(* alias machine (module LccAlias) is reduced to confirming and losing an  *)
(* alias.                                                                  *)
(***************************************************************************)
EXTENDS Integers, Sequences, FiniteSets

CONSTANTS
    Searches,               \* search events throttles may send
    VerifyIds,              \* node ids they may ask for
    LCC_TRAIN_POOL_SIZE,
    MaxRequests             \* bound: requests

SearchAssumption ==
    /\ LCC_TRAIN_POOL_SIZE \in Nat /\ MaxRequests \in Nat /\ VerifyIds \subseteq Nat
    /\ \A e \in Searches : e.digits \in [1..6 -> 0..15]

VARIABLES
    pool,       \* the used slots, in order
    answers,    \* Producer Identified sent: slot and event
    owed,       \* history: slots that matched an event, not answered yet
    requests

vars == <<pool, answers, owed, requests>>

LCC_DCC_SHORT_ADDR_MAX == 127
UINT16_MAX == 65535
LongSelector == 49152       \* 0xC000
None == [digits |-> <<>>, flags |-> {}]
Slots == DOMAIN pool

-----------------------------------------------------------------------------
(* Digits.                                                                 *)

\* The decimal digits of a 16-bit address, the first one first.
DigitsOf(a) ==
    LET d(p) == (a \div p) % 10
    IN  IF a < 10 THEN <<a>>
        ELSE IF a < 100 THEN <<d(10), a % 10>>
        ELSE IF a < 1000 THEN <<d(100), d(10), a % 10>>
        ELSE IF a < 10000 THEN <<d(1000), d(100), d(10), a % 10>>
        ELSE <<d(10000), d(1000), d(100), d(10), a % 10>>

\* A digit is added to those of the search; anything else is passed over.
AddDigit(s, d) == IF d <= 9 THEN Append(s, d) ELSE s
SearchDigits(e) ==
    LET d == e.digits
    IN  AddDigit(AddDigit(AddDigit(AddDigit(AddDigit(AddDigit(<<>>,
            d[1]), d[2]), d[3]), d[4]), d[5]), d[6])

\* The number the digits give, in 16 bits.
ShiftIn(v, d) == IF d <= 9 THEN (v * 10 + d) % 65536 ELSE v
lcc_train_search_address(e) ==
    LET d == e.digits
    IN  ShiftIn(ShiftIn(ShiftIn(ShiftIn(ShiftIn(ShiftIn(0,
            d[1]), d[2]), d[3]), d[4]), d[5]), d[6])

lcc_train_search_create_event(a, flags) ==
    LET pad == 6 - Len(DigitsOf(a))
    IN  [digits |-> [i \in 1..6 |-> IF i <= pad THEN 15 ELSE DigitsOf(a)[i - pad]],
         flags |-> flags]

has_reserved_values(e) ==
    \/ \E i \in 1..6 : e.digits[i] \in 10..14
    \/ "RESERVED" \in e.flags
    \/ "DCC" \notin e.flags /\ "LONG_ADDR" \in e.flags

\* Mutant: leading digits are compared without EXACT's length.
address_match_prefix(a, e) ==
    LET search == SearchDigits(e)
    IN  /\ search # <<>> /\ Len(search) <= Len(DigitsOf(a))
        /\ search = SubSeq(DigitsOf(a), 1, Len(search))

\* Exactly, or as a prefix.
does_address_match(a, e) ==
    LET search == SearchDigits(e)
    IN  /\ search # <<>>
        /\ IF "EXACT" \in e.flags THEN Len(search) = Len(DigitsOf(a))
           ELSE Len(search) <= Len(DigitsOf(a))
        /\ search = SubSeq(DigitsOf(a), 1, Len(search))

does_train_match(t, e) ==
    /\ "DCC" \in e.flags =>
            IF "LONG_ADDR" \in e.flags THEN t.is_long
            ELSE "ALLOCATE" \notin e.flags =>
                    t.is_long = (lcc_train_search_address(e) > LCC_DCC_SHORT_ADDR_MAX)
    /\ does_address_match(t.dcc_address, e)

-----------------------------------------------------------------------------
(* The pool.                                                               *)

Existing(p, a) == {s \in DOMAIN p : p[s].dcc_address = a}

\* Bits 14 and 15 are set over the address of a long one.
NodeId(a, is_long) == IF is_long THEN LongSelector + (a % 16384) ELSE a

NewTrain(a, is_long, e) ==
    [dcc_address |-> a, is_long |-> is_long, id |-> NodeId(a, is_long),
     confirmed |-> FALSE, pending_search_event |-> e]

\* Mutant: an existing train is not looked for.
train_allocator_blind(p, a, long, e) ==
    IF Len(p) < LCC_TRAIN_POOL_SIZE
    THEN Append(p, NewTrain(a, long \/ a > LCC_DCC_SHORT_ADDR_MAX, e)) ELSE p

\* An existing train keeps its slot, and owes the answer if it has no alias yet
\* and owes none; a full pool makes nothing.
train_allocator(p, a, long, e) ==
    IF Existing(p, a) # {}
    THEN LET s == CHOOSE s \in Existing(p, a) : \A r \in Existing(p, a) : s <= r
         IN  IF ~p[s].confirmed /\ p[s].pending_search_event = None
             THEN [p EXCEPT ![s].pending_search_event = e] ELSE p
    ELSE IF Len(p) < LCC_TRAIN_POOL_SIZE
         THEN Append(p, NewTrain(a, long \/ a > LCC_DCC_SHORT_ADDR_MAX, e)) ELSE p

-----------------------------------------------------------------------------

Accept == requests < MaxRequests /\ requests' = requests + 1

\* Every train that matches answers, now or once it has an alias; if none does
\* and the event asks for it, one is made.
lcc_train_search_dispatch(e) ==
    /\ Accept
    /\ LET matched == IF has_reserved_values(e) THEN {}
                      ELSE {s \in Slots : does_train_match(pool[s], e)}
           now     == {s \in matched : pool[s].confirmed}
           later   == matched \ now
           marked  == [s \in Slots |-> IF s \in later
                                       THEN [pool[s] EXCEPT !.pending_search_event = e]
                                       ELSE pool[s]]
           makes   == matched = {} /\ "ALLOCATE" \in e.flags /\ ~has_reserved_values(e)
       IN  /\ answers' = answers \union {[slot |-> s, event |-> e] : s \in now}
           /\ pool' = IF makes THEN train_allocator(pool, lcc_train_search_address(e),
                                                    "LONG_ADDR" \in e.flags, e)
                      ELSE marked
           /\ owed' = (owed \union {[slot |-> s, event |-> e] : s \in later})
                      \union (IF makes /\ Len(pool') > Len(pool)
                              THEN {[slot |-> Len(pool'), event |-> e]} ELSE {})

\* Verify Node ID makes the train a throttle asks for by its id; no answer is owed.
lcc_train_search_ensure_by_node_id(id) ==
    /\ Accept
    /\ LET addr    == id % 16384
           is_long == id >= LongSelector \/ addr > LCC_DCC_SHORT_ADDR_MAX
       IN  pool' = IF addr = 0 THEN pool ELSE train_allocator(pool, addr, is_long, None)
    /\ UNCHANGED <<answers, owed>>

\* Mutant: the event is sent and stays.
flushed_again(t) == t

\* What is owed is sent once.
flushed(t) == [t EXCEPT !.pending_search_event = None]

Due == {s \in Slots : pool[s].confirmed /\ pool[s].pending_search_event # None}

lcc_train_search_flush_pending ==
    /\ Due # {}
    /\ LET sent == {[slot |-> s, event |-> pool[s].pending_search_event] : s \in Due}
       IN  answers' = answers \union sent /\ owed' = owed \ sent
    /\ pool' = [s \in Slots |-> IF s \in Due THEN flushed(pool[s]) ELSE pool[s]]
    /\ UNCHANGED requests

\* The alias machine: a node gets its alias, or another takes it.
confirm(s) ==
    /\ s \in Slots /\ ~pool[s].confirmed
    /\ pool' = [pool EXCEPT ![s].confirmed = TRUE]
    /\ UNCHANGED <<answers, owed, requests>>

lose(s) ==
    /\ s \in Slots /\ pool[s].confirmed
    /\ Accept
    /\ pool' = [pool EXCEPT ![s].confirmed = FALSE]
    /\ UNCHANGED <<answers, owed>>

Init == pool = <<>> /\ answers = {} /\ owed = {} /\ requests = 0

Next ==
    \/ \E e \in Searches : lcc_train_search_dispatch(e)
    \/ \E id \in VerifyIds : lcc_train_search_ensure_by_node_id(id)
    \/ lcc_train_search_flush_pending
    \/ \E s \in 1..LCC_TRAIN_POOL_SIZE : confirm(s) \/ lose(s)

Spec == Init /\ [][Next]_vars

\* The LCC task ticks, and every node gets an alias again (module LccAlias).
Fairness ==
    /\ WF_vars(lcc_train_search_flush_pending)
    /\ \A s \in 1..LCC_TRAIN_POOL_SIZE : WF_vars(confirm(s))

FairSpec == Spec /\ Fairness

-----------------------------------------------------------------------------

TypeOK ==
    /\ Len(pool) <= LCC_TRAIN_POOL_SIZE
    /\ \A s \in Slots :
        /\ pool[s].dcc_address \in 0..UINT16_MAX /\ pool[s].id \in 0..UINT16_MAX
        /\ pool[s].is_long \in BOOLEAN /\ pool[s].confirmed \in BOOLEAN
        /\ pool[s].pending_search_event \in Searches \union {None}
    /\ requests \in 0..MaxRequests

\* However searches, verifies and repeats of them are mixed, an address has one
\* train, and no two trains of addresses in the DCC range share a node id.
OneTrainPerAddress ==
    \A s, r \in Slots : s # r =>
        /\ pool[s].dcc_address # pool[r].dcc_address
        /\ pool[s].dcc_address < 16384 /\ pool[r].dcc_address < 16384 => pool[s].id # pool[r].id

\* A train is found again under its own address: the event made from it decodes to
\* it and matches it, exactly.
FoundByAddress ==
    \A s \in Slots :
        LET e == lcc_train_search_create_event(pool[s].dcc_address, {"EXACT"})
        IN  /\ lcc_train_search_address(e) = pool[s].dcc_address
            /\ \A r \in Slots : does_train_match(pool[r], e) <=> r = s

\* A train that owes an answer gives it, or the answer to a later search in its
\* place.
OwedIsAnswered ==
    \A s \in 1..LCC_TRAIN_POOL_SIZE :
        (s \in Slots /\ pool[s].pending_search_event # None)
            ~> (s \in Slots /\ pool[s].pending_search_event = None
                /\ \E a \in answers : a.slot = s)

\* "every registered train checks if its DCC address matches the encoded query and
\* replies": a train with an alias and nothing pending has answered every search
\* that it matched.
EverySearchAnswered ==
    \A o \in owed : ~(pool[o.slot].confirmed /\ pool[o.slot].pending_search_event = None)

\* "Full train match [...]: DCC long/short filtering + address match": a train
\* answers only searches that it matches.
AnswersMatch == \A a \in answers : does_train_match(pool[a.slot], a.event)

\* "the raw address lives in the low 14 bits" of a train's node id.
RawAddressInId == \A s \in Slots : pool[s].id % 16384 = pool[s].dcc_address

=============================================================================
