------------------------------ MODULE Wavegen ------------------------------
(***************************************************************************)
(* The waveform generator of src/wavegen/wavegen.c under a change of mode: *)
(* wavegen_send puts the words of a packet into the state machine's FIFO   *)
(* one by one, from task_wavegen, while wavegen_reinit, called from the    *)
(* LCC task when the RailCom setting is written, takes the state machine   *)
(* down and up again.                                                      *)
(*                                                                         *)
(* The state machine (wavegen.pio) takes the byte count from the first     *)
(* word of a packet and pulls as many words as the count asks for; with    *)
(* nothing in the FIFO between two packets it sends idle packets, inside a *)
(* packet it stalls.                                                       *)
(***************************************************************************)
EXTENDS Integers, Sequences

CONSTANTS
    FIFO_DEPTH,
    Lengths,        \* words of an encoded packet
    BogusCounts,    \* further words a data word asks for when read as a count
    MaxPackets,     \* bound: packets sent
    MaxReinits      \* bound: changes of mode

WavegenAssumption ==
    /\ FIFO_DEPTH \in Nat \ {0} /\ MaxPackets \in Nat /\ MaxReinits \in Nat
    /\ Lengths \subseteq Nat \ {0} /\ BogusCounts \subseteq Nat

VARIABLES
    initialized, enabled,
    fifo,           \* words [pkt, i, n]: word i of the n of packet pkt
    need,           \* words the state machine still wants for its packet
    pc, pkt, i, n,  \* task_wavegen: the packet and the next word to put
    rpc, reinits,   \* wavegen_reinit
    started,        \* first words the state machine has taken, in order
    torn            \* has a restart ever cut a packet being put

sm == <<enabled, fifo, need, started>>
task == <<pc, pkt, i, n>>
vars == <<initialized, sm, task, rpc, reinits, torn>>

TypeOK ==
    /\ initialized \in BOOLEAN /\ enabled \in BOOLEAN
    /\ Len(fifo) <= FIFO_DEPTH
    /\ need \in Nat
    /\ pc \in {"receive", "send", "put"} /\ pkt \in 0..MaxPackets
    /\ rpc \in {"idle", "free", "init", "set", "enable"} /\ reinits \in 0..MaxReinits
    /\ torn \in BOOLEAN

\* wavegen_init at start-up.
Init ==
    /\ initialized = TRUE /\ enabled = TRUE /\ fifo = <<>> /\ need = 0 /\ started = <<>>
    /\ pc = "receive" /\ pkt = 0 /\ i = 1 /\ n = 1
    /\ rpc = "idle" /\ reinits = 0 /\ torn = FALSE

(***************************************************************************)
(* task_wavegen.                                                           *)
(***************************************************************************)
receive(len) ==
    /\ pc = "receive" /\ pkt < MaxPackets
    /\ pc' = "send" /\ pkt' = pkt + 1 /\ i' = 1 /\ n' = len
    /\ UNCHANGED <<initialized, sm, rpc, reinits, torn>>

\* Nothing is sent before the generator is up; the packet is freed.
send ==
    /\ pc = "send"
    /\ pc' = IF initialized THEN "put" ELSE "receive"
    /\ UNCHANGED <<initialized, sm, pkt, i, n, rpc, reinits, torn>>

\* Mutant: a word is put one place too far.
fifo_full_late == Len(fifo) > FIFO_DEPTH

fifo_full == Len(fifo) = FIFO_DEPTH

put ==
    /\ pc = "put"
    /\ ~fifo_full
    /\ fifo' = Append(fifo, [pkt |-> pkt, i |-> i, n |-> n])
    /\ i' = i + 1
    /\ pc' = IF i = n THEN "receive" ELSE "put"
    /\ UNCHANGED <<initialized, enabled, need, started, pkt, n, rpc, reinits, torn>>

wavegen_send == send \/ put

(***************************************************************************)
(* The state machine.                                                      *)
(***************************************************************************)
\* Mutant: the count is taken for the words after the next one.
Wanted_over(w) == w.n

Wanted(w) == w.n - 1

start_packet ==
    /\ enabled /\ need = 0 /\ fifo # <<>>
    /\ started' = Append(started, Head(fifo))
    /\ IF Head(fifo).i = 1 THEN need' = Wanted(Head(fifo)) ELSE need' \in BogusCounts
    /\ fifo' = Tail(fifo)
    /\ UNCHANGED <<initialized, enabled, task, rpc, reinits, torn>>

pull ==
    /\ enabled /\ need > 0 /\ fifo # <<>>
    /\ need' = need - 1
    /\ fifo' = Tail(fifo)
    /\ UNCHANGED <<initialized, enabled, started, task, rpc, reinits, torn>>

wavegen_program == start_packet \/ pull

(***************************************************************************)
(* wavegen_reinit.                                                         *)
(***************************************************************************)
disable ==
    /\ rpc = "idle" /\ reinits < MaxReinits /\ initialized
    /\ enabled' = FALSE
    /\ reinits' = reinits + 1
    /\ rpc' = "free"
    /\ UNCHANGED <<initialized, fifo, need, started, task, torn>>

\* Unclaiming it and removing the programs leave the FIFO alone.
free ==
    /\ rpc = "free"
    /\ initialized' = FALSE
    /\ rpc' = "init"
    /\ UNCHANGED <<sm, task, reinits, torn>>

\* pio_sm_init restarts the state machine and clears its FIFO.
init_wave_sm ==
    /\ rpc = "init"
    /\ fifo' = <<>> /\ need' = 0
    /\ torn' = (torn \/ (pc = "put" /\ i > 1))
    /\ rpc' = "set"
    /\ UNCHANGED <<initialized, enabled, started, task, reinits>>

set_initialized ==
    /\ rpc = "set"
    /\ initialized' = TRUE
    /\ rpc' = "enable"
    /\ UNCHANGED <<sm, task, reinits, torn>>

\* Mutant: wavegen_enable is called before initialized is set.
Enables_unset == FALSE

Enables == initialized

wavegen_enable ==
    /\ rpc = "enable"
    /\ enabled' = Enables
    /\ rpc' = "idle"
    /\ UNCHANGED <<initialized, fifo, need, started, task, reinits, torn>>

\* wavegen_reinit once it has stopped the state machine.
restart == free \/ init_wave_sm \/ set_initialized \/ wavegen_enable

wavegen_reinit == disable \/ restart

Next ==
    \/ \E len \in Lengths : receive(len)
    \/ wavegen_send \/ wavegen_program \/ wavegen_reinit

Spec == Init /\ [][Next]_vars

\* The tasks run, a change of mode goes through, and an enabled state
\* machine moves.
Fairness ==
    /\ WF_vars(wavegen_send) /\ WF_vars(wavegen_program)
    /\ WF_vars(restart)

FairSpec == Spec /\ Fairness

(***************************************************************************)
(* Properties.                                                             *)
(***************************************************************************)
Framed == \A k \in 1..Len(started) : started[k].i = 1

\* wavegen_send and wavegen_reinit: as long as no restart fell between two
\* words of a packet, every word the state machine takes a byte count from
\* is the first of its packet, and packets leave in the order they came.
FramedUnlessTorn ==
    ~torn => /\ Framed
             /\ \A k, m \in 1..Len(started) : k < m => started[k].pkt < started[m].pkt

\* wavegen_send waits on a full FIFO, also one a restart has just stopped:
\* it always comes to its end, and with it the queue behind it moves.
SendsEnd == (pc = "put") ~> (pc = "receive")

\* wavegen.pio: "Input format: 8-bit byte count followed by data bytes": what
\* the state machine starts a packet with is a byte count.
StartsWithCount == Framed
=============================================================================
