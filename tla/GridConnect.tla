---------------------------- MODULE GridConnect ----------------------------
(***************************************************************************)
(* The GridConnect text frames of the USB transport: the encoder and the   *)
(* byte-by-byte parser of src/lcc/lcc_gc.c, fed by task_serial through     *)
(* lcc_if_on_rx_byte.                                                      *)
(*                                                                         *)
(* A host writes frames byte by byte and may break one off at any byte,    *)
(* as when its program ends or the cable is pulled, and start the next.    *)
(* A hex digit is its value, the other characters are numbers above 15.    *)
(***************************************************************************)
EXTENDS Integers, Sequences

CONSTANTS
    IdDigits,       \* 8 hex digits of a CAN identifier
    MaxData,        \* 8 data bytes
    Frames,         \* the frames the host sends
    MaxSent         \* bound: frames the host sends

VARIABLES
    state, id, data, half,  \* the parser; half is the byte's first digit, or -1
    wire,           \* what is left of the frame the host is sending
    sent,           \* the frames it has started, with whether each was cut
    rx              \* the frames parsed, with the frame being sent then

parser == <<state, id, data, half>>
vars == <<parser, wire, sent, rx>>

Digits == 0..15
Colon == 16
X == 17
N == 18
Semicolon == 19
Newline == 20

\* An identifier has 29 bits: the first of its digits is 0 or 1.
GridConnectAssumption ==
    /\ IdDigits \in Nat \ {0} /\ MaxData \in Nat /\ MaxSent \in Nat
    /\ \A f \in Frames : /\ f = [id |-> f.id, data |-> f.data]
                         /\ f.id \in [1..IdDigits -> Digits] /\ f.id[1] \in {0, 1}
                         /\ f.data \in Seq(Digits \X Digits)

TypeOK ==
    /\ state \in {"IDLE", "TYPE", "ID", "DATA"}
    /\ id \in [1..IdDigits -> Digits]
    /\ data \in Seq(Digits \X Digits) /\ Len(data) <= MaxData
    /\ half \in Digits \cup {-1}
    /\ \A i \in 1..Len(sent) : sent[i].frame \in Frames /\ sent[i].cut \in BOOLEAN

\* Two digits for each byte, the high one first.
hex_digits(bytes) ==
    [i \in 1..2 * Len(bytes) |-> IF i % 2 = 1 THEN bytes[(i + 1) \div 2][1] ELSE bytes[i \div 2][2]]

lcc_gc_encode(f) ==
    <<Colon, X>> \o f.id \o <<N>> \o hex_digits(f.data) \o <<Semicolon, Newline>>

\* The parser is zero at first.
Init ==
    /\ state = "IDLE" /\ id = [i \in 1..IdDigits |-> 0] /\ data = <<>> /\ half = -1
    /\ wire = <<>> /\ sent = <<>> /\ rx = <<>>

(***************************************************************************)
(* lcc_gc_parse_byte, by state.  Every byte a state has no use for sends   *)
(* the parser back to IDLE, a ':' too.                                     *)
(***************************************************************************)
Digit(c) == c \in Digits

parse_idle(c) ==
    /\ state = "IDLE"
    /\ IF c = Colon THEN state' = "TYPE" /\ id' = [i \in 1..IdDigits |-> 0]
                       /\ data' = <<>> /\ half' = -1
                  ELSE UNCHANGED parser
    /\ UNCHANGED rx

parse_type(c) ==
    /\ state = "TYPE"
    /\ state' = IF c = X THEN "ID" ELSE "IDLE"
    /\ UNCHANGED <<id, data, half, rx>>

parse_id(c) ==
    /\ state = "ID"
    /\ IF Digit(c) THEN id' = Append(Tail(id), c) /\ state' = "ID"
                   ELSE id' = id /\ state' = IF c = N THEN "DATA" ELSE "IDLE"
    /\ UNCHANGED <<data, half, rx>>

\* Mutant: a ninth byte is stored.
Room_over == Len(data) <= MaxData

Room == Len(data) < MaxData

\* Mutant: a digit too many ends the frame.
AfterDigit_last == IF Room THEN "DATA" ELSE "IDLE"

AfterDigit == "DATA"

\* Mutant: a stray byte in the data is skipped.
StrayInData_skipped == "DATA"

StrayInData == "IDLE"

parse_data(c) ==
    /\ state = "DATA"
    /\ IF c = Semicolon
       THEN /\ rx' = Append(rx, [frame |-> [id |-> [id EXCEPT ![1] = @ % 2], data |-> data],
                                 at |-> Len(sent)])
            /\ state' = "IDLE"
            /\ UNCHANGED <<data, half>>
       ELSE /\ state' = IF Digit(c) THEN AfterDigit ELSE StrayInData
            /\ data' = IF Digit(c) /\ Room /\ half # -1
                       THEN Append(data, <<half, c>>) ELSE data
            /\ half' = IF ~Digit(c) \/ ~Room THEN half
                       ELSE IF half = -1 THEN c ELSE -1
            /\ UNCHANGED rx
    /\ UNCHANGED id

lcc_gc_parse_byte(c) == parse_idle(c) \/ parse_type(c) \/ parse_id(c) \/ parse_data(c)

(***************************************************************************)
(* The host, and task_serial passing on each byte.                         *)
(***************************************************************************)
start(f) ==
    /\ wire = <<>> /\ Len(sent) < MaxSent
    /\ wire' = lcc_gc_encode(f)
    /\ sent' = Append(sent, [frame |-> f, cut |-> FALSE])
    /\ UNCHANGED <<parser, rx>>

lcc_if_on_rx_byte ==
    /\ wire # <<>>
    /\ lcc_gc_parse_byte(Head(wire))
    /\ wire' = Tail(wire)
    /\ UNCHANGED sent

break_off ==
    /\ Len(wire) > 1
    /\ wire' = <<>>
    /\ sent' = [sent EXCEPT ![Len(sent)].cut = TRUE]
    /\ UNCHANGED <<parser, rx>>

Next == (\E f \in Frames : start(f)) \/ lcc_if_on_rx_byte \/ break_off

Spec == Init /\ [][Next]_vars

(***************************************************************************)
(* Properties.                                                             *)
(***************************************************************************)
Whole(k) == ~sent[k].cut /\ (k < Len(sent) \/ wire = <<>>)

Kept(f) == [f EXCEPT !.data = IF Len(@) > MaxData THEN SubSeq(@, 1, MaxData) ELSE @]

\* lcc_gc_parse_byte: every frame parsed is one the host sent, with the data
\* beyond the eighth byte left out, and each is parsed once: the pieces of
\* frames broken off never make up a frame nobody sent.
OnlySentFrames ==
    /\ \A i \in 1..Len(rx) : rx[i].frame = Kept(sent[rx[i].at].frame)
    /\ \A i, j \in 1..Len(rx) : i # j => rx[i].at # rx[j].at

\* A frame broken off costs at most the frame after it, whose ':' the parser
\* takes for the end of the old one: a frame sent whole after another sent
\* whole, or first of all, is parsed.
RecoversInOneFrame ==
    \A k \in 1..Len(sent) :
        (Whole(k) /\ (k = 1 \/ Whole(k - 1))) => \E i \in 1..Len(rx) : rx[i].at = k
=============================================================================
