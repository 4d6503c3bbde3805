------------------------------ MODULE Mcp2515 ------------------------------
(***************************************************************************)
(* The MCP2515 CAN transport: the driver of src/mcp2515/mcp2515.c, the     *)
(* receive task and the egress of mcp2515_lcc.c, and the chip they talk to *)
(* over SPI (external: its two receive buffers, one transmit buffer and    *)
(* its interrupt pin).                                                     *)
(*                                                                         *)
(* The receive task and the LCC task share the SPI bus.  Every register    *)
(* access is two steps, cs_low and the access up to cs_high; the reads of  *)
(* one received frame are one access, since the chip leaves a flagged      *)
(* buffer alone.  Frames are numbered in bus order.                        *)
(***************************************************************************)
EXTENDS Integers, Sequences, SequencesExt

CONSTANTS
    MaxFrames,      \* bound: frames on the bus
    MaxSends,       \* bound: frames the LCC task sends
    Standard,       \* the received frames that carry a standard identifier
    Overlap         \* may two tasks be inside an SPI access at once

McpAssumption ==
    /\ MaxFrames \in Nat /\ MaxSends \in Nat
    /\ Standard \subseteq 1..MaxFrames
    /\ Overlap \in BOOLEAN

VARIABLES
    rxb,            \* the frame in RXB0 and RXB1 whose flag is set, 0 for none
    tx0if,          \* CANINTF.TX0IF
    txreq,          \* TXB0CTRL.TXREQ
    txb,            \* the frame in TXB0
    g_rx_task,      \* is the task to notify set
    notified,       \* the receive task's notification
    rxpc, which, in,
    txpc,
    spi,            \* the tasks between cs_low and cs_high
    heard,          \* frames seen on the bus
    rx_q,           \* frames given to lcc_if_enqueue_frame
    sends,          \* frames given to mcp2515_egress
    out, dropped    \* of those, the ones put on the bus and the ones dropped

chip == <<rxb, tx0if, txreq, txb>>
rxtask == <<notified, rxpc, which, in, rx_q>>
txtask == <<txpc, sends, dropped>>
vars == <<chip, g_rx_task, rxtask, txtask, spi, heard, out>>

TypeOK ==
    /\ rxb \in [0..1 -> 0..MaxFrames]
    /\ tx0if \in BOOLEAN /\ txreq \in BOOLEAN /\ txb \in 0..MaxSends
    /\ g_rx_task \in BOOLEAN /\ notified \in BOOLEAN
    /\ rxpc \in {"take", "intf", "read", "ack"}
    /\ which \in 0..1 /\ in \in 0..MaxFrames
    /\ txpc \in {"idle", "poll", "load", "rts"}
    /\ spi \subseteq {"rx", "tx"}
    /\ heard \in 0..MaxFrames /\ sends \in 0..MaxSends
    /\ rx_q \in Seq(1..MaxFrames) /\ Len(rx_q) <= MaxFrames
    /\ out \subseteq 1..MaxSends /\ dropped \subseteq 1..MaxSends

\* mcp2515_init has reset the chip and armed the pin's falling edge.
Init ==
    /\ rxb = [b \in 0..1 |-> 0] /\ tx0if = FALSE /\ txreq = FALSE /\ txb = 0
    /\ g_rx_task = FALSE /\ notified = FALSE
    /\ rxpc = "take" /\ which = 0 /\ in = 0 /\ txpc = "idle" /\ spi = {}
    /\ heard = 0 /\ rx_q = <<>> /\ sends = 0 /\ out = {} /\ dropped = {}

(***************************************************************************)
(* The chip.  CANINTE enables RX0, RX1 and TX0, so any of the three flags  *)
(* holds the pin low.                                                      *)
(***************************************************************************)
Pin == rxb[0] # 0 \/ rxb[1] # 0 \/ tx0if

\* The falling edge of a step, once a task is set.
gpio_irq_handler == notified' = (notified \/ (g_rx_task /\ ~Pin /\ Pin'))

\* A frame that finds RXB0 flagged goes to RXB1 or is lost.
bus_frame ==
    /\ heard < MaxFrames
    /\ heard' = heard + 1
    /\ IF rxb[0] = 0
       THEN rxb' = [rxb EXCEPT ![0] = heard + 1]
       ELSE \/ rxb[1] = 0 /\ rxb' = [rxb EXCEPT ![1] = heard + 1]
            \/ rxb' = rxb
    /\ UNCHANGED <<tx0if, txreq, txb>>
    /\ gpio_irq_handler
    /\ UNCHANGED <<g_rx_task, rxpc, which, in, rx_q, txtask, spi, out>>

transmitted ==
    /\ txreq
    /\ txreq' = FALSE
    /\ tx0if' = TRUE
    /\ out' = out \cup {txb}
    /\ UNCHANGED <<rxb, txb>>
    /\ gpio_irq_handler
    /\ UNCHANGED <<g_rx_task, rxpc, which, in, rx_q, txtask, spi, heard>>

(***************************************************************************)
(* mcp2515_lcc_start sets the task last; the tasks run from then on.       *)
(***************************************************************************)
mcp2515_set_rx_task ==
    /\ ~g_rx_task
    /\ g_rx_task' = TRUE
    /\ UNCHANGED <<chip, rxtask, txtask, spi, heard, out>>

cs_low(t) ==
    /\ g_rx_task
    /\ t \notin spi
    /\ Overlap \/ spi = {}
    /\ IF t = "rx" THEN rxpc # "take" ELSE txpc # "idle"
    /\ spi' = spi \cup {t}
    /\ UNCHANGED <<chip, g_rx_task, rxtask, txtask, heard, out>>

cs_high(t) == t \in spi /\ spi' = spi \ {t}

(***************************************************************************)
(* The receive task.  ulTaskNotifyTake returns on a notification or after  *)
(* 100 ms.                                                                 *)
(***************************************************************************)
\* Mutant: it waits for a notification for ever.
take_for_ever == g_rx_task /\ rxpc = "take" /\ notified

ulTaskNotifyTake == g_rx_task /\ rxpc = "take"

wake ==
    /\ ulTaskNotifyTake
    /\ notified' = FALSE
    /\ rxpc' = "intf"
    /\ UNCHANGED <<chip, g_rx_task, which, in, rx_q, txtask, spi, heard, out>>

Pending == {b \in 0..1 : rxb[b] # 0}

\* Mutant: the flag's mask taken for the buffer's number.
first_flag(P) == IF 0 \in P THEN 1 ELSE 2

\* RXB0 is served first.
first_pending(P) == IF 0 \in P THEN 0 ELSE 1

read_intf ==
    /\ rxpc = "intf" /\ cs_high("rx")
    /\ IF Pending = {} THEN rxpc' = "take" /\ which' = which
       ELSE rxpc' = "read" /\ which' = first_pending(Pending)
    /\ UNCHANGED <<chip, g_rx_task, notified, in, rx_q, txtask, heard, out>>

read_frame ==
    /\ rxpc = "read" /\ cs_high("rx")
    /\ in' = rxb[which]
    /\ rxpc' = "ack"
    /\ UNCHANGED <<chip, g_rx_task, notified, which, rx_q, txtask, heard, out>>

\* Mutant: the flag of the other buffer is cleared.
cleared_other(b) == [rxb EXCEPT ![1 - b] = 0]

cleared(b) == [rxb EXCEPT ![b] = 0]

\* Clearing the flag; a standard frame ends the drain loop.
clear_intf ==
    /\ rxpc = "ack" /\ cs_high("rx")
    /\ rxb' = cleared(which)
    /\ IF in \in Standard
       THEN rxpc' = "take" /\ rx_q' = rx_q
       ELSE rxpc' = "intf" /\ rx_q' = Append(rx_q, in)
    /\ UNCHANGED <<tx0if, txreq, txb, g_rx_task, notified, which, in, txtask, heard, out>>

mcp2515_try_receive == read_intf \/ read_frame \/ clear_intf

(***************************************************************************)
(* mcp2515_egress, called from the LCC task under tx_mtx.                  *)
(***************************************************************************)
mcp2515_egress ==
    /\ g_rx_task
    /\ txpc = "idle" /\ sends < MaxSends
    /\ sends' = sends + 1
    /\ txpc' = "poll"
    /\ UNCHANGED <<chip, g_rx_task, rxtask, dropped, spi, heard, out>>

\* Mutant: TXREQ is not polled.
tx_busy_unknown == FALSE

tx_busy == txreq

poll_txb ==
    /\ txpc = "poll" /\ cs_high("tx")
    /\ IF tx_busy THEN txpc' = "idle" /\ dropped' = dropped \cup {sends}
                  ELSE txpc' = "load" /\ dropped' = dropped
    /\ UNCHANGED <<chip, g_rx_task, rxtask, sends, heard, out>>

load_txb ==
    /\ txpc = "load" /\ cs_high("tx")
    /\ txb' = sends
    /\ txpc' = "rts"
    /\ UNCHANGED <<rxb, tx0if, txreq, g_rx_task, rxtask, sends, dropped, heard, out>>

request_to_send ==
    /\ txpc = "rts" /\ cs_high("tx")
    /\ txreq' = TRUE
    /\ txpc' = "idle"
    /\ UNCHANGED <<rxb, tx0if, txb, g_rx_task, rxtask, sends, dropped, heard, out>>

mcp2515_send == poll_txb \/ load_txb \/ request_to_send

task_mcp2515_rx == wake \/ cs_low("rx") \/ mcp2515_try_receive
task_protocol == cs_low("tx") \/ mcp2515_send

Next ==
    \/ bus_frame \/ transmitted \/ mcp2515_set_rx_task
    \/ task_mcp2515_rx \/ mcp2515_egress \/ task_protocol

Spec == Init /\ [][Next]_vars

\* Both tasks run (equal priority, two cores, time slicing), and each gets
\* its turns on the SPI bus.
Fairness ==
    /\ WF_vars(mcp2515_set_rx_task)
    /\ WF_vars(wake) /\ SF_vars(cs_low("rx")) /\ WF_vars(mcp2515_try_receive)
    /\ SF_vars(cs_low("tx")) /\ WF_vars(mcp2515_send)

FairSpec == Spec /\ Fairness

(***************************************************************************)
(* Properties.                                                             *)
(***************************************************************************)
Latched(n) == \E b \in 0..1 : rxb[b] = n

\* mcp2515_try_receive: over any number of drains, with frames arriving
\* between its reads, no frame is handed over twice or left flagged once it
\* was handed over, and no standard frame is handed over.
ReceivedOnce ==
    /\ IsInjective(rx_q)
    /\ \A i \in 1..Len(rx_q) : rx_q[i] \notin Standard /\ ~Latched(rx_q[i])

\* A frame the chip latched is handed to the LCC layer, though TX0IF is
\* never cleared and holds the pin low, though the edge may have come before
\* the task was set, and though a standard frame ends the drain early: the
\* 100 ms of ulTaskNotifyTake alone see to it.
LatchedIsReceived ==
    \A n \in (1..MaxFrames) \ Standard :
        Latched(n) ~> (\E i \in 1..Len(rx_q) : rx_q[i] = n)

Fates == {"out", "dropped", "in TXB0", "in hand"}
Fate(n, w) ==
    \/ w = "out"     /\ n \in out
    \/ w = "dropped" /\ n \in dropped
    \/ w = "in TXB0" /\ txreq /\ txb = n
    \/ w = "in hand" /\ txpc # "idle" /\ n = sends

\* mcp2515_send: of every frame given to the egress, exactly one of these
\* holds: it went out, it was dropped at a busy buffer, it is in TXB0
\* waiting to go out, or it is the one being handed over.
SentOrDropped ==
    \A n \in 1..sends : \E w \in Fates : \A v \in Fates : Fate(n, v) <=> v = w

\* "Register a FreeRTOS task to be notified when RX data becomes available"
\* (mcp2515.h): a frame latched while the task waits has notified it.
RxDataNotifies == (g_rx_task /\ rxpc = "take" /\ Pending # {}) => notified

\* "TX is serialized so egress implementations can assume exclusive access
\* to their hardware state" (lcc_if_tx): one task at a time drives the bus.
ExclusiveSpi == spi # {"rx", "tx"}
=============================================================================
