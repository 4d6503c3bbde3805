----------------------------- MODULE LinkProofs -----------------------------
(***************************************************************************)
(* Proofs about MC_Link, for every value of its constants: the CAN         *)
(* controller (Mcp2515), the text frames (GridConnect) and the two         *)
(* reassemblers (Reassembly).                                              *)
(***************************************************************************)
EXTENDS MC_Link, FiniteSetTheorems, TLAPS

-----------------------------------------------------------------------------
(* Mcp2515: the receive side *)

RxTypes ==
    /\ rxb \in [0..1 -> 0..MaxFrames] /\ rxpc \in {"take", "intf", "read", "ack"}
    /\ which \in 0..1 /\ in \in 0..MaxFrames /\ heard \in 0..MaxFrames
    /\ received \in Seq(1..MaxFrames)

\* The two buffers hold different frames that were heard; a flag stays set from
\* the read of CANINTF that saw it until its frame is acknowledged.
Buffers ==
    /\ rxb[0] <= heard /\ rxb[1] <= heard
    /\ rxb[0] # 0 => rxb[0] # rxb[1]
    /\ rxpc \in {"read", "ack"} => rxb[which] # 0
    /\ rxpc = "ack" => in = rxb[which]

\* A frame handed over was heard, is not flagged any more, and is not standard.
HandedOver(n) == n <= heard /\ n \notin Standard /\ n # rxb[0] /\ n # rxb[1]

Once(sq) == \A i, j \in 1..Len(sq) : sq[i] = sq[j] => i = j

RxInv == RxTypes /\ Buffers /\ Once(received) /\ \A i \in 1..Len(received) : HandedOver(received[i])

LEMMA McpConstants ==
    MaxFrames \in Nat /\ MaxSends \in Nat /\ Standard \subseteq 1..MaxFrames
BY LinkAssumption DEF Mcp!McpAssumption

\* What a step does to the receive side.
LEMMA RxStep ==
    ASSUME RxInv, [Mcp!Next]_mcp_vars
    PROVE  RxInv'
<1> USE McpConstants
<1>t. RxTypes /\ Buffers /\ Once(received) /\ \A i \in 1..Len(received) : HandedOver(received[i])
  BY DEF RxInv
<1>f. /\ rxb[0] \in 0..MaxFrames /\ rxb[1] \in 0..MaxFrames /\ which \in 0..1 /\ heard \in 0..MaxFrames
      /\ received \in Seq(1..MaxFrames) /\ rxb[which] \in 0..MaxFrames
  BY <1>t DEF RxTypes
<1>1. CASE Mcp!bus_frame
  <2>1. /\ heard < MaxFrames /\ heard' = heard + 1 /\ UNCHANGED <<rxpc, which, in, received>>
        /\ \/ rxb[0] = 0 /\ rxb' = [rxb EXCEPT ![0] = heard + 1]
           \/ rxb[1] = 0 /\ rxb' = [rxb EXCEPT ![1] = heard + 1]
           \/ rxb' = rxb
    BY <1>1 DEF Mcp!bus_frame, Mcp!txtask
  <2>2. \/ rxb[0] = 0 /\ rxb'[0] = heard + 1 /\ rxb'[1] = rxb[1]
        \/ rxb[1] = 0 /\ rxb'[1] = heard + 1 /\ rxb'[0] = rxb[0]
        \/ rxb'[0] = rxb[0] /\ rxb'[1] = rxb[1]
    BY <1>t, <2>1 DEF RxTypes
  <2>3. RxTypes'
    BY <1>t, <1>f, <2>1 DEF RxTypes
  <2>4. Buffers'
    <3>1. rxb'[which] = rxb[which] \/ rxb[which] = 0
      BY <1>f, <2>2
    <3>2. rxb[which] # 0 => rxb'[which] # 0
      BY <3>1
    <3>3. QED  BY <1>t, <1>f, <2>1, <2>2, <3>1, <3>2 DEF Buffers
  <2>5. \A i \in 1..Len(received) : HandedOver(received[i])'
    <3> TAKE i \in 1..Len(received)
    <3>1. received[i] \in 1..MaxFrames /\ HandedOver(received[i])
      BY <1>t, <1>f
    <3>2. QED  BY <1>f, <2>1, <2>2, <3>1 DEF HandedOver
  <2>6. QED  BY <1>t, <2>1, <2>3, <2>4, <2>5 DEF RxInv, Once
<1>2. CASE Mcp!read_intf
  <2>1. /\ rxpc = "intf" /\ UNCHANGED <<rxb, in, heard, received>>
        /\ \/ rxpc' = "take" /\ which' = which
           \/ rxpc' = "read" /\ which' \in 0..1 /\ rxb[which'] # 0
    BY <1>2, <1>t DEF Mcp!read_intf, Mcp!chip, Mcp!Pending, Mcp!first_pending
  <2>2. QED  BY <1>t, <2>1 DEF RxInv, RxTypes, Buffers, HandedOver, Once
<1>3. CASE Mcp!read_frame
  <2>1. /\ rxpc = "read" /\ in' = rxb[which] /\ rxpc' = "ack" /\ UNCHANGED <<rxb, which, heard, received>>
    BY <1>3 DEF Mcp!read_frame, Mcp!chip
  <2>2. QED  BY <1>t, <1>f, <2>1 DEF RxInv, RxTypes, Buffers, HandedOver, Once
<1>4. CASE Mcp!clear_intf
  <2>1. /\ rxpc = "ack" /\ rxb' = [rxb EXCEPT ![which] = 0] /\ UNCHANGED <<which, in, heard>>
        /\ \/ in \in Standard /\ rxpc' = "take" /\ received' = received
           \/ in \notin Standard /\ rxpc' = "intf" /\ received' = Append(received, in)
    BY <1>4 DEF Mcp!clear_intf, Mcp!cleared
  <2>2. in = rxb[which] /\ in # 0 /\ in \in 1..MaxFrames /\ in <= heard
    BY <1>t, <1>f, <2>1 DEF Buffers
  <2>3. \/ which = 0 /\ rxb'[0] = 0 /\ rxb'[1] = rxb[1]
        \/ which = 1 /\ rxb'[1] = 0 /\ rxb'[0] = rxb[0]
    BY <1>t, <1>f, <2>1 DEF RxTypes
  <2>4. RxTypes'
    <3>1. received' \in Seq(1..MaxFrames)
      <4>1. Append(received, in) \in Seq(1..MaxFrames)
        BY <1>f, <2>2
      <4>2. QED  BY <1>f, <2>1, <4>1
    <3>2. QED  BY <1>t, <1>f, <2>1, <3>1 DEF RxTypes
  <2>5. Buffers'
    BY <1>t, <1>f, <2>1, <2>3 DEF Buffers
  <2>6. \A n \in 1..MaxFrames : HandedOver(n) => HandedOver(n)' /\ n # in
    BY <1>f, <2>1, <2>2, <2>3 DEF HandedOver
  <2>r. \A i \in 1..Len(received) : received[i] \in 1..MaxFrames /\ HandedOver(received[i])
    BY <1>t, <1>f
  <2>7. CASE received' = received
    BY <1>t, <2>4, <2>5, <2>6, <2>7, <2>r DEF RxInv, Once
  <2>8. CASE in \notin Standard /\ received' = Append(received, in)
    <3>1. /\ Len(received') = Len(received) + 1 /\ received'[Len(received) + 1] = in
          /\ \A i \in 1..Len(received) : received'[i] = received[i]
      BY <1>f, <2>2, <2>8
    <3>2. in <= heard' /\ in # rxb'[0] /\ in # rxb'[1]
      BY <1>t, <1>f, <2>1, <2>2, <2>3 DEF Buffers
    <3>3. HandedOver(in)'
      BY <2>1, <2>8, <3>2 DEF HandedOver
    <3>4. \A i \in 1..Len(received') : i \in 1..Len(received) \/ i = Len(received) + 1
      BY <1>f, <3>1
    <3>5. \A i \in 1..Len(received') : HandedOver(received[i])'
      <4> SUFFICES ASSUME NEW i \in 1..Len(received') PROVE HandedOver(received[i])'
        OBVIOUS
      <4>1. CASE i \in 1..Len(received)
        BY <2>6, <2>r, <3>1, <4>1 DEF HandedOver
      <4>2. CASE i = Len(received) + 1
        BY <3>1, <3>3, <4>2, <2>1 DEF HandedOver
      <4>3. QED  BY <3>4, <4>1, <4>2
    <3>6. Once(received)'
      BY <1>t, <2>6, <2>r, <3>1, <3>4 DEF Once
    <3>7. QED  BY <2>4, <2>5, <3>5, <3>6 DEF RxInv
  <2>9. QED  BY <2>1, <2>7, <2>8
<1>5. CASE Mcp!wake
  <2>1. rxpc = "take" /\ rxpc' = "intf" /\ UNCHANGED <<rxb, which, in, heard, received>>
    BY <1>5 DEF Mcp!wake, Mcp!ulTaskNotifyTake, Mcp!chip
  <2>2. QED  BY <1>t, <2>1 DEF RxInv, RxTypes, Buffers, HandedOver, Once
<1>6. CASE UNCHANGED <<rxb, rxpc, which, in, heard, received>>
  BY <1>t, <1>6 DEF RxInv, RxTypes, Buffers, HandedOver, Once
<1>7. CASE \/ Mcp!transmitted \/ Mcp!mcp2515_set_rx_task \/ Mcp!cs_low("rx") \/ Mcp!mcp2515_egress
           \/ Mcp!cs_low("tx") \/ Mcp!mcp2515_send
  <2>1. UNCHANGED <<rxb, rxpc, which, in, heard, received>>
    BY <1>7 DEF Mcp!transmitted, Mcp!mcp2515_set_rx_task, Mcp!cs_low, Mcp!mcp2515_egress,
                Mcp!mcp2515_send, Mcp!poll_txb, Mcp!load_txb, Mcp!request_to_send, Mcp!chip, Mcp!rxtask
  <2>2. QED  BY <2>1, <1>6
<1>8. CASE UNCHANGED mcp_vars
  BY <1>6, <1>8 DEF mcp_vars
<1>9. QED  BY <1>1, <1>2, <1>3, <1>4, <1>5, <1>7, <1>8
           DEF Mcp!Next, Mcp!task_mcp2515_rx, Mcp!task_protocol, Mcp!mcp2515_try_receive

-----------------------------------------------------------------------------
(* Mcp2515: the transmit side *)

TxTypes ==
    /\ txb \in 0..MaxSends /\ sends \in 0..MaxSends /\ txpc \in {"idle", "poll", "load", "rts"}
    /\ out \subseteq 1..sends /\ tx_dropped \subseteq 1..sends

\* Every frame is out, dropped, in TXB0 or in hand, and no two of these; TXB0 is
\* free from the poll that saw it so until the request to send.
Accounted ==
    /\ \A n \in 1..sends : \/ n \in out \/ n \in tx_dropped \/ (txreq /\ txb = n)
                           \/ (txpc # "idle" /\ n = sends)
    /\ out \cap tx_dropped = {}
    /\ txreq => txb \in 1..sends /\ txb \notin out /\ txb \notin tx_dropped
    /\ txpc # "idle" => /\ sends # 0 /\ sends \notin out /\ sends \notin tx_dropped
                        /\ txreq => txb # sends
    /\ txpc \in {"load", "rts"} => ~txreq
    /\ txpc = "rts" => txb = sends

TxInv == TxTypes /\ Accounted

LEMMA TxStep ==
    ASSUME TxInv, [Mcp!Next]_mcp_vars
    PROVE  TxInv'
<1> USE McpConstants
<1>t. TxTypes /\ Accounted
  BY DEF TxInv
<1>1. CASE Mcp!transmitted
  <2>1. txreq /\ ~txreq' /\ out' = out \cup {txb} /\ UNCHANGED <<txb, txpc, sends, tx_dropped>>
    BY <1>1 DEF Mcp!transmitted, Mcp!txtask
  <2>2. TxTypes'
    BY <1>t, <2>1 DEF TxTypes, Accounted
  <2>3. Accounted'
    BY <1>t, <2>1 DEF Accounted
  <2>4. QED  BY <2>2, <2>3 DEF TxInv
<1>2. CASE Mcp!mcp2515_egress
  <2>1. /\ txpc = "idle" /\ sends < MaxSends /\ sends' = sends + 1 /\ txpc' = "poll"
        /\ UNCHANGED <<txb, txreq, out, tx_dropped>>
    BY <1>2 DEF Mcp!mcp2515_egress, Mcp!chip
  <2>2. TxTypes' /\ sends \in Nat /\ sends + 1 \notin 1..sends /\ 1..sends \subseteq 1..sends + 1
    BY <1>t, <2>1 DEF TxTypes
  <2>3. Accounted'
    BY <1>t, <2>1, <2>2 DEF Accounted, TxTypes
  <2>4. QED  BY <2>2, <2>3 DEF TxInv
<1>3. CASE Mcp!poll_txb
  <2>1. /\ txpc = "poll" /\ UNCHANGED <<txb, txreq, sends, out>>
        /\ \/ txreq /\ txpc' = "idle" /\ tx_dropped' = tx_dropped \cup {sends}
           \/ ~txreq /\ txpc' = "load" /\ tx_dropped' = tx_dropped
    BY <1>3 DEF Mcp!poll_txb, Mcp!tx_busy, Mcp!chip
  <2>2. TxTypes'
    <3>1. sends \in 1..sends
      BY <1>t, <2>1 DEF TxTypes, Accounted
    <3>2. QED  BY <1>t, <2>1, <3>1 DEF TxTypes
  <2>3. Accounted'
    BY <1>t, <2>1 DEF Accounted
  <2>4. QED  BY <2>2, <2>3 DEF TxInv
<1>4. CASE Mcp!load_txb
  <2>1. txpc = "load" /\ txpc' = "rts" /\ txb' = sends /\ UNCHANGED <<txreq, sends, out, tx_dropped>>
    BY <1>4 DEF Mcp!load_txb
  <2>2. QED  BY <1>t, <2>1 DEF TxInv, TxTypes, Accounted
<1>5. CASE Mcp!request_to_send
  <2>1. txpc = "rts" /\ txpc' = "idle" /\ txreq' /\ UNCHANGED <<txb, sends, out, tx_dropped>>
    BY <1>5 DEF Mcp!request_to_send
  <2>2. txb \in 1..sends
    BY <1>t, <2>1 DEF TxTypes, Accounted
  <2>3. QED  BY <1>t, <2>1, <2>2 DEF TxInv, TxTypes, Accounted
<1>6. CASE UNCHANGED <<txb, txreq, txpc, sends, out, tx_dropped>>
  BY <1>t, <1>6 DEF TxInv, TxTypes, Accounted
<1>7. CASE \/ Mcp!bus_frame \/ Mcp!mcp2515_set_rx_task \/ Mcp!cs_low("rx") \/ Mcp!cs_low("tx")
           \/ Mcp!wake \/ Mcp!mcp2515_try_receive
  <2>1. UNCHANGED <<txb, txreq, txpc, sends, out, tx_dropped>>
    BY <1>7 DEF Mcp!bus_frame, Mcp!mcp2515_set_rx_task, Mcp!cs_low, Mcp!wake, Mcp!mcp2515_try_receive,
                Mcp!read_intf, Mcp!read_frame, Mcp!clear_intf, Mcp!chip, Mcp!txtask
  <2>2. QED  BY <2>1, <1>6
<1>8. CASE UNCHANGED mcp_vars
  BY <1>6, <1>8 DEF mcp_vars
<1>9. QED  BY <1>1, <1>2, <1>3, <1>4, <1>5, <1>7, <1>8
           DEF Mcp!Next, Mcp!task_mcp2515_rx, Mcp!task_protocol, Mcp!mcp2515_send

-----------------------------------------------------------------------------
(* Mcp2515: flags and the bus *)

McpFlags ==
    /\ tx0if \in BOOLEAN /\ txreq \in BOOLEAN /\ g_rx_task \in BOOLEAN /\ notified \in BOOLEAN
    /\ spi \subseteq {"rx", "tx"}

LEMMA FlagStep ==
    ASSUME McpFlags, [Mcp!Next]_mcp_vars
    PROVE  McpFlags'
<1>n. Mcp!gpio_irq_handler => notified' \in BOOLEAN
  BY Zenon DEF Mcp!gpio_irq_handler
<1>1. CASE Mcp!bus_frame \/ Mcp!transmitted
  <2>1. /\ tx0if' \in BOOLEAN /\ txreq' \in BOOLEAN /\ notified' \in BOOLEAN
        /\ UNCHANGED <<g_rx_task, spi>>
    BY <1>1, <1>n DEF Mcp!bus_frame, Mcp!transmitted, McpFlags
  <2>2. QED  BY <2>1 DEF McpFlags
<1>2. CASE Mcp!mcp2515_set_rx_task \/ Mcp!wake \/ Mcp!mcp2515_egress
  <2>1. /\ g_rx_task' \in BOOLEAN /\ notified' \in BOOLEAN /\ UNCHANGED <<tx0if, txreq, spi>>
    BY <1>2 DEF Mcp!mcp2515_set_rx_task, Mcp!wake, Mcp!mcp2515_egress, Mcp!chip, Mcp!rxtask, McpFlags
  <2>2. QED  BY <2>1 DEF McpFlags
<1>3. CASE Mcp!cs_low("rx") \/ Mcp!cs_low("tx")
  <2>1. spi' \subseteq {"rx", "tx"} /\ UNCHANGED <<tx0if, txreq, g_rx_task, notified>>
    BY <1>3 DEF Mcp!cs_low, Mcp!chip, Mcp!rxtask, McpFlags
  <2>2. QED  BY <2>1 DEF McpFlags
<1>4. CASE Mcp!mcp2515_try_receive \/ Mcp!mcp2515_send
  <2>1. spi' \subseteq spi /\ txreq' \in BOOLEAN /\ UNCHANGED <<tx0if, g_rx_task, notified>>
    BY <1>4 DEF Mcp!mcp2515_try_receive, Mcp!mcp2515_send, Mcp!read_intf, Mcp!read_frame,
                Mcp!clear_intf, Mcp!poll_txb, Mcp!load_txb, Mcp!request_to_send, Mcp!cs_high, Mcp!chip,
                Mcp!rxtask, McpFlags
  <2>2. QED  BY <2>1 DEF McpFlags
<1>5. CASE UNCHANGED mcp_vars
  BY <1>5 DEF mcp_vars, McpFlags
<1>6. QED  BY <1>1, <1>2, <1>3, <1>4, <1>5 DEF Mcp!Next, Mcp!task_mcp2515_rx, Mcp!task_protocol

McpInv == RxInv /\ TxInv /\ McpFlags

LEMMA McpInit ==
    ASSUME Mcp!Init
    PROVE  McpInv
<1> USE McpConstants
<1>1. RxInv
  <2>1. /\ rxb = [b \in 0..1 |-> 0] /\ rxpc = "take" /\ which = 0 /\ in = 0 /\ heard = 0
        /\ received = <<>>
    BY DEF Mcp!Init
  <2>2. rxb[0] = 0 /\ rxb[1] = 0 /\ Len(received) = 0 /\ received \in Seq(1..MaxFrames)
    BY <2>1
  <2>3. QED  BY <2>1, <2>2 DEF RxInv, RxTypes, Buffers, HandedOver, Once
<1>2. TxInv
  BY DEF Mcp!Init, TxInv, TxTypes, Accounted
<1>3. McpFlags
  BY DEF Mcp!Init, McpFlags
<1>4. QED  BY <1>1, <1>2, <1>3 DEF McpInv

LEMMA McpStep ==
    ASSUME McpInv, [Mcp!Next]_mcp_vars
    PROVE  McpInv'
BY RxStep, TxStep, FlagStep DEF McpInv

\* A sequence without duplicates is no longer than what it is made of.
LEMMA OnceIsShort ==
    ASSUME NEW m \in Nat, NEW sq \in Seq(1..m), Once(sq)
    PROVE  Len(sq) <= m
<1> DEFINE n == Len(sq)
<1>1. n \in Nat
  OBVIOUS
<1> HIDE DEF n
<1>2. IsFiniteSet(1..n) /\ Cardinality(1..n) = n
  BY <1>1, FS_Interval
<1>2a. IsFiniteSet(1..m) /\ Cardinality(1..m) = m
  BY FS_Interval
<1>3. [i \in 1..n |-> sq[i]] \in Injection(1..n, 1..m)
  <2>1. [i \in 1..n |-> sq[i]] \in [1..n -> 1..m]
    BY DEF n
  <2>2. \A i, j \in 1..n : sq[i] = sq[j] => i = j
    BY DEF Once, n
  <2>3. QED  BY <2>1, <2>2 DEF Injection, IsInjective
<1>4. Cardinality(1..n) <= Cardinality(1..m)
  BY ONLY <1>2a, <1>3, FS_Injection, ZenonT(60)
<1>5. QED  BY <1>2, <1>2a, <1>4 DEF n

LEMMA McpResults ==
    ASSUME McpInv
    PROVE  Mcp!TypeOK /\ Mcp!ReceivedOnce /\ Mcp!SentOrDropped
<1> USE McpConstants
<1>t. RxTypes /\ Buffers /\ Once(received) /\ (\A i \in 1..Len(received) : HandedOver(received[i]))
      /\ TxTypes /\ Accounted /\ McpFlags
  BY DEF McpInv, RxInv, TxInv
<1>1. Mcp!TypeOK
  <2>1. Len(received) <= MaxFrames
    BY <1>t, OnceIsShort DEF RxTypes
  <2>2. out \subseteq 1..MaxSends /\ tx_dropped \subseteq 1..MaxSends
    BY <1>t DEF TxTypes
  <2>3. QED  BY <1>t, <2>1, <2>2 DEF Mcp!TypeOK, RxTypes, TxTypes, McpFlags
<1>2. Mcp!ReceivedOnce
  <2>1. DOMAIN received = 1..Len(received)
    BY <1>t DEF RxTypes
  <2>2. Mcp!IsInjective(received)
    BY <1>t, <2>1 DEF Once, Mcp!IsInjective
  <2>3. ASSUME NEW i \in 1..Len(received)
        PROVE  received[i] \notin Standard /\ ~Mcp!Latched(received[i])
    <3>1. HandedOver(received[i]) /\ \A b \in 0..1 : b = 0 \/ b = 1
      BY <1>t
    <3>2. QED  BY <3>1 DEF HandedOver, Mcp!Latched
  <2>4. QED  BY <2>2, <2>3 DEF Mcp!ReceivedOnce
<1>3. Mcp!SentOrDropped
  <2> SUFFICES ASSUME NEW n \in 1..sends
               PROVE  \E w \in Mcp!Fates : \A v \in Mcp!Fates : Mcp!Fate(n, v) <=> v = w
    BY DEF Mcp!SentOrDropped
  <2>1. Mcp!Fates = {"out", "dropped", "in TXB0", "in hand"}
    BY DEF Mcp!Fates
  <2>2. /\ Mcp!Fate(n, "out") <=> n \in out
        /\ Mcp!Fate(n, "dropped") <=> n \in tx_dropped
        /\ Mcp!Fate(n, "in TXB0") <=> txreq /\ txb = n
        /\ Mcp!Fate(n, "in hand") <=> txpc # "idle" /\ n = sends
    BY DEF Mcp!Fate
  <2>3. CASE n \in out
    <3>1. n \notin tx_dropped /\ ~(txreq /\ txb = n) /\ ~(txpc # "idle" /\ n = sends)
      BY <1>t, <2>3 DEF Accounted
    <3>2. \A v \in Mcp!Fates : Mcp!Fate(n, v) <=> v = "out"
      BY <2>1, <2>2, <2>3, <3>1
    <3>3. QED  BY <2>1, <3>2
  <2>4. CASE n \in tx_dropped
    <3>1. n \notin out /\ ~(txreq /\ txb = n) /\ ~(txpc # "idle" /\ n = sends)
      BY <1>t, <2>4 DEF Accounted
    <3>2. \A v \in Mcp!Fates : Mcp!Fate(n, v) <=> v = "dropped"
      BY <2>1, <2>2, <2>4, <3>1
    <3>3. QED  BY <2>1, <3>2
  <2>5. CASE txreq /\ txb = n
    <3>1. n \notin out /\ n \notin tx_dropped /\ ~(txpc # "idle" /\ n = sends)
      BY <1>t, <2>5 DEF Accounted
    <3>2. \A v \in Mcp!Fates : Mcp!Fate(n, v) <=> v = "in TXB0"
      BY <2>1, <2>2, <2>5, <3>1
    <3>3. QED  BY <2>1, <3>2
  <2>6. CASE txpc # "idle" /\ n = sends
    <3>1. n \notin out /\ n \notin tx_dropped /\ ~(txreq /\ txb = n)
      BY <1>t, <2>6 DEF Accounted
    <3>2. \A v \in Mcp!Fates : Mcp!Fate(n, v) <=> v = "in hand"
      BY <2>1, <2>2, <2>6, <3>1
    <3>3. QED  BY <2>1, <3>2
  <2>7. QED  BY <1>t, <2>3, <2>4, <2>5, <2>6 DEF Accounted
<1>4. QED  BY <1>1, <1>2, <1>3

-----------------------------------------------------------------------------
(* Reassembly.  The datagram and the traction code differ in what they tell *)
(* a sender and in when they free the buffer; the invariant holds of both.  *)

States == {"sending", "waiting", "refused", "done", "gone"}
SenderRecords == [next : Nat, attempt : 0..1, tries : Nat, state : States]

\* A frame's kind follows from its number.
KindOK(f) ==
    /\ f.kind \in {"ONE", "FIRST"} <=> f.number = 1
    /\ f.kind \in {"ONE", "FINAL"} <=> f.number = Lengths[f.src]

Pieces ==
    {f \in [src : Senders, attempt : 0..1, number : Nat, kind : {"ONE", "FIRST", "MIDDLE", "FINAL"}] :
        f.number >= 1 /\ f.number <= Lengths[f.src] /\ KindOK(f)}

ReTypes ==
    /\ sender \in [Senders -> SenderRecords]
    /\ rx_q \in Seq(Pieces) /\ Len(rx_q) <= RxQueueLength
    /\ buf \in Seq(Pieces) /\ Len(buf) <= BufferFrames
    /\ active \in BOOLEAN /\ src_alias \in Senders \union {"nobody"}
    /\ dispatched \in [src : Senders \union {"nobody"}, frames : Seq(Pieces)]
    /\ dropped \subseteq Senders

Counts(s) ==
    /\ sender[s].next >= 1 /\ sender[s].next <= Lengths[s] + 1
    /\ sender[s].state = "sending" => sender[s].next <= Lengths[s]

\* Of a sender that lost no frame, the queue has consecutive frames of the attempt
\* it is at, up to the last one sent.
InRow(s) ==
    /\ \A i \in 1..Len(rx_q) : rx_q[i].src = s =>
          /\ rx_q[i].attempt = sender[s].attempt
          /\ rx_q[i].number < sender[s].next
          /\ \/ rx_q[i].number + 1 = sender[s].next
             \/ \E j \in 1..Len(rx_q) : rx_q[j].src = s /\ rx_q[j].number = rx_q[i].number + 1
    /\ \A i, j \in 1..Len(rx_q) : i < j /\ rx_q[i].src = s /\ rx_q[j].src = s =>
          rx_q[i].number < rx_q[j].number

\* The number of the frame that arrives next from s.
Expect(s, n) ==
    \/ /\ \E i \in 1..Len(rx_q) : rx_q[i].src = s /\ rx_q[i].number = n
       /\ \A i \in 1..Len(rx_q) : rx_q[i].src = s => rx_q[i].number >= n
    \/ /\ \A i \in 1..Len(rx_q) : rx_q[i].src # s
       /\ sender[s].next = n

Numbered(frames) ==
    \A i \in 1..Len(frames) : frames[i].number = i /\ frames[i].attempt = frames[1].attempt

\* The buffer has one sender's frames; if that sender lost none, the first of an
\* attempt, and the frame that arrives next goes on with it or starts another.
Collected ==
    active =>
        /\ src_alias \in Senders /\ Len(buf) >= 1
        /\ \A i \in 1..Len(buf) : buf[i].src = src_alias
        /\ src_alias \notin dropped =>
              /\ Numbered(buf) /\ Len(buf) < Lengths[src_alias]
              /\ \/ Expect(src_alias, 1)
                 \/ Expect(src_alias, Len(buf) + 1) /\ buf[1].attempt = sender[src_alias].attempt

Delivered ==
    /\ \A i \in 1..Len(dispatched.frames) : dispatched.frames[i].src = dispatched.src
    /\ dispatched.src # "nobody" /\ dispatched.src \notin dropped =>
          Numbered(dispatched.frames) /\ Len(dispatched.frames) = Lengths[dispatched.src]

ReInv ==
    /\ ReTypes /\ Collected /\ Delivered
    /\ \A s \in Senders : Counts(s) /\ (s \notin dropped => InRow(s))

LEMMA ReConstants ==
    /\ Lengths \in [Senders -> Nat \ {0}] /\ BufferFrames \in Nat \ {0} /\ RxQueueLength \in Nat \ {0}
BY LinkAssumption DEF Dg!ConstantsAssumption

LEMMA PieceFields ==
    ASSUME NEW sq \in Seq(Pieces), NEW i \in 1..Len(sq)
    PROVE  /\ sq[i] \in Pieces /\ sq[i].src \in Senders /\ sq[i].number \in Nat /\ sq[i].number >= 1
           /\ sq[i].number <= Lengths[sq[i].src] /\ sq[i].attempt \in 0..1 /\ KindOK(sq[i])
<1>1. sq[i] \in Pieces
  OBVIOUS
<1>2. QED  BY <1>1 DEF Pieces

LEMMA SenderFields ==
    ASSUME ReTypes, NEW s \in Senders
    PROVE  /\ sender[s] \in SenderRecords /\ sender[s].next \in Nat /\ sender[s].attempt \in 0..1
           /\ sender[s].tries \in Nat /\ sender[s].state \in States /\ Lengths[s] \in Nat /\ Lengths[s] >= 1
BY ReConstants DEF ReTypes, SenderRecords

\* Only what the senders are told changes.
Told ==
    /\ sender' \in [Senders -> SenderRecords]
    /\ \A s \in Senders : /\ sender'[s].next = sender[s].next /\ sender'[s].attempt = sender[s].attempt
                          /\ sender'[s].state = "sending" => sender[s].state = "sending"

LEMMA ToldKeeps ==
    ASSUME ReInv, Told, UNCHANGED <<rx_q, active, src_alias, buf, dispatched, dropped>>
    PROVE  ReInv'
<1>1. ReTypes'
  BY DEF ReInv, ReTypes, Told
<1>3. Collected'
  <2>1. Collected
    BY DEF ReInv
  <2>2. CASE active
    <3>1. src_alias \in Senders
      BY <2>1, <2>2 DEF Collected
    <3>2. Expect(src_alias, 1)' <=> Expect(src_alias, 1)
      BY <3>1 DEF Told, Expect
    <3>3. Expect(src_alias, Len(buf) + 1)' <=> Expect(src_alias, Len(buf) + 1)
      BY <3>1 DEF Told, Expect
    <3>4. sender'[src_alias].attempt = sender[src_alias].attempt
      BY <3>1 DEF Told
    <3>5. QED  BY <2>1, <2>2, <3>2, <3>3, <3>4 DEF Collected, Numbered
  <2>3. CASE ~active
    BY <2>3 DEF Collected
  <2>4. QED  BY <2>2, <2>3
<1>4. Delivered'
  BY DEF ReInv, Delivered, Numbered
<1>5. \A s \in Senders : Counts(s)' /\ (s \notin dropped' => InRow(s)')
  <2> TAKE s \in Senders
  <2>1. Counts(s) /\ (s \notin dropped => InRow(s))
    BY DEF ReInv
  <2>2. Counts(s)'
    BY <2>1 DEF Counts, Told
  <2>3. InRow(s) => InRow(s)'
    BY DEF InRow, Told
  <2>4. QED  BY <2>1, <2>2, <2>3
<1>6. QED  BY <1>1, <1>3, <1>4, <1>5 DEF ReInv

\* A sender vanishes.
LEMMA VanishStep ==
    ASSUME ReInv, NEW s \in Senders, Dg!vanish(s) \/ Tr!vanish(s)
    PROVE  ReInv'
<1>1. /\ sender' = [sender EXCEPT ![s].state = "gone"]
      /\ UNCHANGED <<rx_q, active, src_alias, buf, dispatched, dropped>>
  BY DEF Dg!vanish, Tr!vanish
<1>2. sender \in [Senders -> SenderRecords]
  BY DEF ReInv, ReTypes
<1>3. Told
  BY <1>1, <1>2 DEF Told, SenderRecords, States
<1>4. QED  BY <1>1, <1>3, ToldKeeps

\* A sender gives up or starts over; nothing of it is in the queue.
LEMMA ResendStep ==
    ASSUME ReInv, NEW s \in Senders, Dg!resend(s) \/ Tr!resend(s)
    PROVE  ReInv'
<1> DEFINE again == [next |-> 1, attempt |-> 1 - sender[s].attempt, state |-> "sending",
                     tries |-> IF Tries[s] = 0 THEN 0 ELSE sender[s].tries + 1]
<1>t. sender \in [Senders -> SenderRecords]
  BY DEF ReInv, ReTypes
<1>q. rx_q \in Seq(Pieces) /\ DOMAIN rx_q = 1..Len(rx_q)
  BY DEF ReInv, ReTypes
<1>s. /\ sender[s] \in SenderRecords /\ sender[s].attempt \in 0..1 /\ sender[s].tries \in Nat
      /\ Lengths[s] \in Nat /\ Lengths[s] >= 1
  BY SenderFields DEF ReInv
<1>1. /\ \A i \in 1..Len(rx_q) : rx_q[i].src # s
      /\ UNCHANGED <<rx_q, active, src_alias, buf, dispatched, dropped>>
      /\ \/ sender' = [sender EXCEPT ![s] = [sender[s] EXCEPT !.state = "gone"]]
         \/ sender' = [sender EXCEPT ![s] = again]
  BY <1>q DEF Dg!resend, Tr!resend
<1>2. CASE sender' = [sender EXCEPT ![s] = [sender[s] EXCEPT !.state = "gone"]]
  <2>1. Told
    BY <1>t, <1>2 DEF Told, SenderRecords, States
  <2>2. QED  BY <1>1, <2>1, ToldKeeps
<1>3. CASE sender' = [sender EXCEPT ![s] = again]
  <2>1. again \in SenderRecords /\ again.next = 1
    BY <1>s DEF SenderRecords, States
  <2> HIDE DEF again
  <2>2. /\ sender' \in [Senders -> SenderRecords] /\ sender'[s].next = 1
        /\ \A u \in Senders : u # s => sender'[u] = sender[u]
    BY <1>t, <1>3, <2>1
  <2>3. ReTypes'
    BY <1>1, <2>2 DEF ReInv, ReTypes
  <2>4. ASSUME NEW u \in Senders
        PROVE  Counts(u)' /\ (u \notin dropped' => InRow(u)')
    <3>1. Counts(u) /\ (u \notin dropped => InRow(u))
      BY DEF ReInv
    <3>2. CASE u = s
      <4>1. Counts(u)'
        BY <1>s, <2>2, <3>2 DEF Counts
      <4>2. InRow(u)'
        BY <1>1, <3>2 DEF InRow
      <4>3. QED  BY <4>1, <4>2
    <3>3. CASE u # s
      <4>1. sender'[u] = sender[u]
        BY <2>2, <3>3
      <4>2. QED  BY <1>1, <3>1, <4>1 DEF Counts, InRow
    <3>4. QED  BY <3>2, <3>3
  <2>5. Collected'
    <3>1. Collected
      BY DEF ReInv
    <3>2. CASE active /\ src_alias = s
      <4>1. Expect(src_alias, 1)'
        BY <1>1, <2>2, <3>2 DEF Expect
      <4>2. QED  BY <1>1, <3>1, <3>2, <4>1 DEF Collected, Numbered
    <3>3. CASE active /\ src_alias # s
      <4>1. sender'[src_alias] = sender[src_alias]
        BY <2>2, <3>1, <3>3 DEF Collected
      <4>2. QED  BY <1>1, <3>1, <3>3, <4>1 DEF Collected, Expect, Numbered
    <3>4. CASE ~active
      BY <1>1, <3>4 DEF Collected
    <3>5. QED  BY <3>2, <3>3, <3>4
  <2>6. Delivered'
    BY <1>1 DEF ReInv, Delivered, Numbered
  <2>7. QED  BY <2>3, <2>4, <2>5, <2>6 DEF ReInv
<1>4. QED  BY <1>1, <1>2, <1>3

\* A sender sends a frame, which is queued or dropped.
LEMMA SendStep ==
    ASSUME ReInv, NEW s \in Senders, Dg!send(s) \/ Tr!send(s)
    PROVE  ReInv'
<1> DEFINE n == sender[s].next
           last == n = Lengths[s]
           kind == CASE n = 1 /\ last -> "ONE" [] n = 1 /\ ~last -> "FIRST"
                     [] n > 1 /\ ~last -> "MIDDLE" [] OTHER -> "FINAL"
           f == [src |-> s, attempt |-> sender[s].attempt, number |-> n, kind |-> kind]
           r == [sender[s] EXCEPT !.next = n + 1, !.state = IF last THEN "waiting" ELSE sender[s].state]
<1>t. /\ sender \in [Senders -> SenderRecords] /\ rx_q \in Seq(Pieces) /\ Len(rx_q) \in Nat
      /\ Collected /\ Delivered
  BY DEF ReInv, ReTypes
<1>s. /\ sender[s] \in SenderRecords /\ sender[s].attempt \in 0..1 /\ n \in Nat
      /\ Lengths[s] \in Nat /\ sender[s].state \in States
  BY SenderFields DEF ReInv
<1>1. /\ sender[s].state = "sending" /\ UNCHANGED <<active, src_alias, buf, dispatched>>
      /\ \/ Len(rx_q) < RxQueueLength /\ rx_q' = Append(rx_q, f) /\ dropped' = dropped
         \/ dropped' = dropped \union {s} /\ rx_q' = rx_q
  BY DEF Dg!send, Tr!send, Dg!lcc_if_enqueue_frame, Tr!lcc_if_enqueue_frame, Dg!Frame, Tr!Frame,
         Dg!AtLast, Tr!AtLast
<1>2. sender' = [sender EXCEPT ![s] = r]
  BY <1>t, <1>s DEF Dg!send, Tr!send, Dg!AtLast, Tr!AtLast, SenderRecords
<1>c. n >= 1 /\ n <= Lengths[s]
  BY <1>1 DEF ReInv, Counts
<1>3. f \in Pieces /\ f.src = s /\ f.number = n /\ f.attempt = sender[s].attempt
  <2>1. kind \in {"ONE", "FIRST", "MIDDLE", "FINAL"}
    OBVIOUS
  <2>2. (kind \in {"ONE", "FIRST"} <=> n = 1) /\ (kind \in {"ONE", "FINAL"} <=> n = Lengths[s])
    BY <1>s, <1>c
  <2> HIDE DEF kind, n
  <2>3. QED  BY <1>s, <1>c, <2>1, <2>2 DEF Pieces, KindOK
<1>4. /\ r \in SenderRecords /\ r.next = n + 1 /\ r.attempt = sender[s].attempt
      /\ r.state = "sending" => n # Lengths[s]
  <2> DEFINE x == IF last THEN "waiting" ELSE sender[s].state
  <2>1. x \in States /\ (x = "sending" => n # Lengths[s])
    BY <1>s, <1>1 DEF States
  <2>2. n + 1 \in Nat
    BY <1>s
  <2> HIDE DEF n, x, last
  <2>3. r = [sender[s] EXCEPT !.next = n + 1, !.state = x]
    BY DEF x
  <2> HIDE DEF r
  <2>4. QED  BY <1>s, <2>1, <2>2, <2>3 DEF SenderRecords
<1> HIDE DEF f, r, n
<1>5. /\ sender' \in [Senders -> SenderRecords] /\ sender'[s] = r
      /\ \A u \in Senders : u # s => sender'[u] = sender[u]
  BY <1>t, <1>2, <1>4
<1>6. ReTypes'
  <2>1. Append(rx_q, f) \in Seq(Pieces) /\ Len(Append(rx_q, f)) = Len(rx_q) + 1
    BY <1>t, <1>3
  <2>0. Len(rx_q) \in Nat /\ Len(rx_q) <= RxQueueLength /\ RxQueueLength \in Nat
    BY <1>t, ReConstants DEF ReInv, ReTypes
  <2>2. rx_q' \in Seq(Pieces) /\ Len(rx_q') <= RxQueueLength
    <3>1. CASE Len(rx_q) < RxQueueLength /\ rx_q' = Append(rx_q, f)
      BY ONLY <2>0, <2>1, <3>1
    <3>2. CASE rx_q' = rx_q
      BY ONLY <1>t, <2>0, <3>2
    <3>3. QED  BY <1>1, <3>1, <3>2
  <2>3. QED  BY <1>1, <1>5, <2>2 DEF ReInv, ReTypes
<1>7. \A u \in Senders : Counts(u)'
  <2> TAKE u \in Senders
  <2>1. Counts(u)
    BY DEF ReInv
  <2>2. CASE u = s
    BY <1>s, <1>c, <1>4, <1>5, <2>2 DEF Counts
  <2>3. CASE u # s
    BY <1>5, <2>1, <2>3 DEF Counts
  <2>4. QED  BY <2>2, <2>3
<1>8. Delivered'
  BY <1>t, <1>1 DEF Delivered, Numbered
<1>9. CASE dropped' = dropped \union {s} /\ rx_q' = rx_q
  <2>1. ASSUME NEW u \in Senders, u \notin dropped'
        PROVE  InRow(u)'
    <3>1. u # s /\ u \notin dropped /\ sender'[u] = sender[u]
      BY <1>5, <1>9, <2>1
    <3>2. InRow(u)
      BY <3>1 DEF ReInv
    <3>3. QED  BY <1>9, <3>1, <3>2 DEF InRow
  <2>2. Collected'
    <3>1. CASE active /\ src_alias # s
      <4>1. sender'[src_alias] = sender[src_alias]
        BY <1>t, <1>5, <3>1 DEF Collected
      <4>2. QED  BY <1>t, <1>1, <1>9, <3>1, <4>1 DEF Collected, Expect, Numbered
    <3>2. CASE active /\ src_alias = s
      BY <1>t, <1>1, <1>9, <3>2 DEF Collected
    <3>3. CASE ~active
      BY <1>1, <3>3 DEF Collected
    <3>4. QED  BY <3>1, <3>2, <3>3
  <2>3. QED  BY <1>6, <1>7, <1>8, <2>1, <2>2 DEF ReInv
<1>10. CASE rx_q' = Append(rx_q, f) /\ dropped' = dropped
  <2> DEFINE k == Len(rx_q)
  <2>1. /\ Len(rx_q') = k + 1 /\ rx_q'[k + 1] = f /\ k \in Nat
        /\ \A i \in 1..k : rx_q'[i] = rx_q[i]
        /\ \A i \in 1..k + 1 : i \in 1..k \/ i = k + 1
    BY <1>t, <1>3, <1>10
  <2>n. \A i \in 1..k : rx_q[i].number \in Nat
    BY <1>t, PieceFields
  <2> HIDE DEF k
  <2>k. k = Len(rx_q)
    BY DEF k
  <2>2. ASSUME NEW u \in Senders, u # s, NEW m
        PROVE  Expect(u, m)' <=> Expect(u, m)
    <3>1. sender'[u] = sender[u] /\ rx_q'[k + 1].src # u
      BY <1>3, <1>5, <2>1, <2>2
    <3>2. QED  BY <2>1, <2>k, <3>1 DEF Expect
  <2>3. ASSUME s \notin dropped, NEW m \in Nat, Expect(s, m)
        PROVE  Expect(s, m)'
    <3>0. InRow(s)
      BY <2>3 DEF ReInv
    <3>1. CASE \A i \in 1..k : rx_q[i].src # s
      <4>1. n = m
        BY <2>3, <2>k, <3>1 DEF Expect, n
      <4>2. QED  BY <1>3, <2>1, <3>1, <4>1 DEF Expect
    <3>2. CASE \E i \in 1..k : rx_q[i].src = s
      <4>1. /\ \E i \in 1..k : rx_q[i].src = s /\ rx_q[i].number = m
            /\ \A i \in 1..k : rx_q[i].src = s => rx_q[i].number >= m
        BY <2>3, <2>k, <3>2 DEF Expect
      <4>2. PICK i \in 1..k : rx_q[i].src = s /\ rx_q[i].number = m
        BY <4>1
      <4>3. m < n
        BY <2>k, <3>0, <4>2 DEF InRow, n
      <4>4. i \in 1..k + 1 /\ rx_q'[i] = rx_q[i]
        BY <2>1
      <4>5. QED  BY <1>3, <1>s, <2>1, <4>1, <4>2, <4>3, <4>4 DEF Expect
    <3>3. QED  BY <3>1, <3>2
  <2>4. ASSUME NEW u \in Senders, u \notin dropped'
        PROVE  InRow(u)'
    <3>0. InRow(u)
      BY <1>10, <2>4 DEF ReInv
    <3>1. CASE u # s
      <4>1. sender'[u] = sender[u] /\ rx_q'[k + 1].src # u
        BY <1>3, <1>5, <2>1, <3>1
      <4>2. ASSUME NEW i \in 1..k + 1, rx_q'[i].src = u
            PROVE  /\ i \in 1..k /\ rx_q'[i] = rx_q[i] /\ rx_q[i].src = u
        BY <2>1, <4>1, <4>2
      <4>3. ASSUME NEW i \in 1..k + 1, rx_q'[i].src = u
            PROVE  /\ rx_q'[i].attempt = sender'[u].attempt
                   /\ rx_q'[i].number < sender'[u].next
                   /\ \/ rx_q'[i].number + 1 = sender'[u].next
                      \/ \E j \in 1..k + 1 : rx_q'[j].src = u /\ rx_q'[j].number = rx_q'[i].number + 1
        BY <2>1, <2>k, <3>0, <4>1, <4>2, <4>3 DEF InRow
      <4>4. ASSUME NEW i \in 1..k + 1, NEW j \in 1..k + 1, i < j, rx_q'[i].src = u, rx_q'[j].src = u
            PROVE  rx_q'[i].number < rx_q'[j].number
        BY <2>k, <3>0, <4>2, <4>4 DEF InRow
      <4>5. QED  BY <2>1, <4>3, <4>4 DEF InRow
    <3>2. CASE u = s
      <4>1. sender'[s].next = n + 1 /\ sender'[s].attempt = sender[s].attempt
        BY <1>4, <1>5
      <4>2. ASSUME NEW i \in 1..k + 1, rx_q'[i].src = s
            PROVE  /\ rx_q'[i].attempt = sender'[s].attempt
                   /\ rx_q'[i].number < sender'[s].next
                   /\ \/ rx_q'[i].number + 1 = sender'[s].next
                      \/ \E j \in 1..k + 1 : rx_q'[j].src = s /\ rx_q'[j].number = rx_q'[i].number + 1
        <5>1. CASE i = k + 1
          BY <1>3, <1>s, <2>1, <4>1, <5>1
        <5>2. CASE i \in 1..k
          <6>1. /\ rx_q'[i] = rx_q[i] /\ rx_q[i].src = s /\ rx_q[i].attempt = sender[s].attempt
                /\ rx_q[i].number < n /\ rx_q[i].number \in Nat
                /\ \/ rx_q[i].number + 1 = n
                   \/ \E j \in 1..k : rx_q[j].src = s /\ rx_q[j].number = rx_q[i].number + 1
            BY <2>1, <2>k, <2>n, <3>0, <3>2, <4>2, <5>2 DEF InRow, n
          <6>2. rx_q[i].number < n + 1
            BY <1>s, <6>1
          <6>3. \E j \in 1..k + 1 : rx_q'[j].src = s /\ rx_q'[j].number = rx_q'[i].number + 1
            <7>1. CASE rx_q[i].number + 1 = n
              <8>1. k + 1 \in 1..k + 1
                BY <2>1
              <8>2. QED  BY <1>3, <2>1, <6>1, <7>1, <8>1
            <7>2. CASE \E j \in 1..k : rx_q[j].src = s /\ rx_q[j].number = rx_q[i].number + 1
              <8>1. PICK j \in 1..k : rx_q[j].src = s /\ rx_q[j].number = rx_q[i].number + 1
                BY <7>2
              <8>2. j \in 1..k + 1 /\ rx_q'[j] = rx_q[j]
                BY <2>1
              <8>3. QED  BY <6>1, <8>1, <8>2
            <7>3. QED  BY <6>1, <7>1, <7>2
          <6>4. QED  BY <4>1, <6>1, <6>2, <6>3
        <5>3. QED  BY <2>1, <5>1, <5>2
      <4>3. ASSUME NEW i \in 1..k + 1, NEW j \in 1..k + 1, i < j, rx_q'[i].src = s, rx_q'[j].src = s
            PROVE  rx_q'[i].number < rx_q'[j].number
        <5>1. i \in 1..k
          BY <2>1, <4>3
        <5>2. rx_q'[i] = rx_q[i] /\ rx_q[i].number < n
          BY <2>1, <2>k, <3>0, <3>2, <4>3, <5>1 DEF InRow, n
        <5>3. CASE j = k + 1
          BY <1>3, <2>1, <5>2, <5>3
        <5>4. CASE j \in 1..k
          BY <2>1, <2>k, <3>0, <3>2, <4>3, <5>1, <5>2, <5>4 DEF InRow
        <5>5. QED  BY <2>1, <5>3, <5>4
      <4>4. QED  BY <2>1, <3>2, <4>2, <4>3 DEF InRow
    <3>3. QED  BY <3>1, <3>2
  <2>5. Collected'
    <3>0. CASE ~active
      BY <1>1, <3>0 DEF Collected
    <3>1. CASE active
      <4> DEFINE a == src_alias
                 b == Len(buf) + 1
      <4>1. a \in Senders /\ sender'[a].attempt = sender[a].attempt
        BY <1>t, <1>4, <1>5, <3>1 DEF Collected
      <4>2. b \in Nat /\ 1 \in Nat
        BY DEF ReInv, ReTypes
      <4>3. a \notin dropped => (Expect(a, 1) => Expect(a, 1)') /\ (Expect(a, b) => Expect(a, b)')
        <5>1. \A m \in Nat, u \in Senders : u \notin dropped /\ Expect(u, m) => Expect(u, m)'
          BY <2>2, <2>3
        <5>2. PICK u \in Senders, m \in Nat : u = a /\ m = b
          BY <4>1, <4>2
        <5>3. a' = u /\ b' = m
          BY <1>1, <5>2
        <5>4. \A l \in Nat : Expect(u, l)' <=> Expect(a, l)'
          BY <5>2, <5>3 DEF Expect
        <5>5. Expect(u, m)' <=> Expect(a, b)'
          BY <5>2, <5>3 DEF Expect
        <5>6. QED  BY <4>2, <5>1, <5>2, <5>4, <5>5
      <4>4. QED  BY <1>t, <1>1, <1>10, <3>1, <4>1, <4>3 DEF Collected, Numbered
    <3>2. QED  BY <3>0, <3>1
  <2>6. QED  BY <1>6, <1>7, <1>8, <2>4, <2>5 DEF ReInv
<1>11. QED  BY <1>1, <1>9, <1>10

\* What handling a frame comes to, in both reassemblers.
SameBuffer == UNCHANGED <<active, src_alias, buf>>
Freed == active' = FALSE /\ buf' = <<>> /\ src_alias' = src_alias

Handled(f) ==
    /\ rx_q' = Tail(rx_q) /\ dropped' = dropped /\ Told
    /\ \/ /\ f.kind = "ONE" /\ dispatched' = [src |-> f.src, frames |-> <<f>>]
          /\ SameBuffer \/ Freed
       \/ /\ f.kind = "FIRST" /\ dispatched' = dispatched
          /\ active' = TRUE /\ src_alias' = f.src /\ buf' = <<f>>
       \/ f.kind \notin {"ONE", "FIRST"} /\ ~(active /\ src_alias = f.src)
          /\ SameBuffer /\ dispatched' = dispatched
       \/ Freed /\ dispatched' = dispatched
       \/ /\ f.kind = "MIDDLE" /\ active /\ src_alias = f.src /\ Len(buf) + 1 <= BufferFrames
          /\ buf' = Append(buf, f) /\ UNCHANGED <<active, src_alias, dispatched>>
       \/ /\ f.kind = "FINAL" /\ active /\ src_alias = f.src
          /\ dispatched' = [src |-> f.src, frames |-> Append(buf, f)]
          /\ Freed

LEMMA TellTold ==
    ASSUME sender \in [Senders -> SenderRecords], NEW s \in Senders,
           \/ sender' = sender
           \/ \E what \in {"refused", "done"} :
                 sender' = IF sender[s].state = "gone" THEN sender
                           ELSE [sender EXCEPT ![s].state = IF sender[s].state = "done"
                                                            THEN sender[s].state ELSE what]
    PROVE  Told
<1>1. CASE sender' = sender
  BY <1>1 DEF Told
<1>2. ASSUME NEW x \in {"refused", "done"}, sender' = [sender EXCEPT ![s].state = x]
      PROVE  Told
  BY <1>2 DEF Told, SenderRecords, States
<1>3. QED  BY <1>1, <1>2

LEMMA HandleCases ==
    ASSUME ReInv, Dg!handle_frame \/ Tr!handle_frame
    PROVE  rx_q # <<>> /\ Handled(Head(rx_q))
<1> DEFINE f == Head(rx_q)
<1>1. rx_q # <<>> /\ rx_q' = Tail(rx_q) /\ dropped' = dropped
  BY DEF Dg!handle_frame, Tr!handle_frame
<1>t. sender \in [Senders -> SenderRecords] /\ rx_q \in Seq(Pieces)
  BY DEF ReInv, ReTypes
<1>2. f = rx_q[1] /\ 1 \in 1..Len(rx_q)
  BY <1>1, <1>t
<1>3. f.src \in Senders /\ f.kind \in {"ONE", "FIRST", "MIDDLE", "FINAL"}
  <2>1. f \in Pieces
    BY <1>t, <1>2, PieceFields
  <2>2. QED  BY <2>1 DEF Pieces
<1>w. \/ f.kind = "ONE" /\ (Dg!whole(f) \/ Tr!whole(f))
      \/ f.kind = "FIRST" /\ (Dg!first(f) \/ Tr!first(f))
      \/ f.kind \notin {"ONE", "FIRST"} /\ (Dg!more(f) \/ Tr!more(f))
  BY DEF Dg!handle_frame, Tr!handle_frame
<1> HIDE DEF f
<1>4. CASE f.kind = "ONE" /\ (Dg!whole(f) \/ Tr!whole(f))
  <2>1. Told
    BY <1>3, <1>4, <1>t, TellTold
       DEF Dg!whole, Tr!whole, Dg!dispatch, Tr!dispatch, Dg!Tell, Tr!Tell
  <2>2. QED  BY <1>1, <1>4, <2>1
             DEF Handled, f, Dg!whole, Tr!whole, Dg!dispatch, Tr!dispatch, Dg!Free, SameBuffer, Freed
<1>5. CASE f.kind = "FIRST" /\ (Dg!first(f) \/ Tr!first(f))
  <2>1. /\ active' = TRUE /\ src_alias' = f.src /\ buf' = <<f>>
        /\ UNCHANGED <<sender, dispatched>>
    BY <1>5 DEF Dg!first, Tr!first, Dg!TakesOver, Tr!TakesOver
  <2>2. Told
    BY <1>3, <1>t, <2>1, TellTold
  <2>3. QED  BY <1>1, <1>5, <2>1, <2>2 DEF Handled, f
<1>6. CASE f.kind \notin {"ONE", "FIRST"} /\ (Dg!more(f) \/ Tr!more(f))
  <2> DEFINE mine == active /\ src_alias = f.src
             fits == Len(buf) + 1 <= BufferFrames
  <2>1. CASE ~mine
    <3>1. /\ Dg!refuse(f.src) \/ Tr!refuse(f.src)
          /\ SameBuffer /\ dispatched' = dispatched
      BY <1>6, <2>1 DEF Dg!more, Tr!more, Dg!Mine, Tr!Mine, SameBuffer
    <3>2. Told
      BY <1>3, <1>t, <3>1, TellTold DEF Dg!refuse, Tr!refuse, Dg!Tell
    <3>3. QED  BY <1>1, <1>6, <2>1, <3>1, <3>2 DEF Handled, f
  <2>2. CASE mine /\ ~fits
    <3>1. /\ Dg!never(f.src) \/ Tr!never(f.src)
          /\ Freed /\ dispatched' = dispatched
      BY <1>6, <2>2 DEF Dg!more, Tr!more, Dg!Mine, Tr!Mine, Dg!Fits, Tr!Fits, Dg!Free, Tr!Free, Freed
    <3>2. Told
      BY <1>3, <1>t, <3>1, TellTold DEF Dg!never, Tr!never, Dg!Tell
    <3>3. QED  BY <1>1, <3>1, <3>2 DEF Handled, f
  <2>3. CASE mine /\ fits /\ f.kind = "MIDDLE"
    <3>1. buf' = Append(buf, f) /\ UNCHANGED <<sender, active, src_alias, dispatched>>
      BY <1>6, <2>3 DEF Dg!more, Tr!more, Dg!Mine, Tr!Mine, Dg!Fits, Tr!Fits
    <3>2. Told
      BY <1>3, <1>t, <3>1, TellTold
    <3>3. QED  BY <1>1, <2>3, <3>1, <3>2 DEF Handled, f
  <2>4. CASE mine /\ fits /\ f.kind # "MIDDLE"
    <3>1. /\ Dg!dispatch(f.src, Append(buf, f)) \/ Tr!dispatch(f.src, Append(buf, f))
          /\ Freed
      BY <1>6, <2>4 DEF Dg!more, Tr!more, Dg!Mine, Tr!Mine, Dg!Fits, Tr!Fits, Dg!Free, Tr!Free, Freed
    <3>2. Told
      BY <1>3, <1>t, <3>1, TellTold DEF Dg!dispatch, Tr!dispatch, Dg!Tell, Tr!Tell
    <3>3. f.kind = "FINAL"
      BY <1>3, <1>6, <2>4
    <3>4. dispatched' = [src |-> f.src, frames |-> Append(buf, f)]
      BY <3>1 DEF Dg!dispatch, Tr!dispatch
    <3>5. QED  BY <1>1, <2>4, <3>1, <3>2, <3>3, <3>4 DEF Handled, f
  <2>5. QED  BY <2>1, <2>2, <2>3, <2>4
<1>7. QED  BY <1>1, <1>w, <1>4, <1>5, <1>6 DEF f

\* A frame leaves the queue.
LEMMA TailStep ==
    ASSUME ReInv, rx_q # <<>>, rx_q' = Tail(rx_q), Told, NEW f, f = rx_q[1]
    PROVE  /\ rx_q' \in Seq(Pieces) /\ Len(rx_q') <= RxQueueLength
           /\ f \in Pieces
           /\ \A u \in Senders : u \notin dropped => InRow(u)'
           /\ \A u \in Senders, m \in Nat : u # f.src /\ Expect(u, m) => Expect(u, m)'
           /\ f.src \notin dropped =>
                 /\ \A u \in Senders : u = f.src => \A m \in Nat : m = f.number + 1 => Expect(u, m)'
                 /\ \A m \in Nat : Expect(f.src, m) => m = f.number
                 /\ f.attempt = sender[f.src].attempt
<1> DEFINE k == Len(rx_q)
<1>t. rx_q \in Seq(Pieces) /\ k \in Nat /\ k <= RxQueueLength /\ RxQueueLength \in Nat
  BY ReConstants DEF ReInv, ReTypes
<1>1. /\ rx_q' \in Seq(Pieces) /\ Len(rx_q') = k - 1 /\ k >= 1
      /\ \A i \in 1..k - 1 : rx_q'[i] = rx_q[i + 1]
  BY <1>t
<1>k. k = Len(rx_q)
  OBVIOUS
<1> HIDE DEF k
<1>2. Len(rx_q') <= RxQueueLength
  BY ONLY <1>t, <1>1
<1>i. 1 \in 1..k
  BY <1>1, <1>t
<1>f. f \in Pieces /\ f.src \in Senders /\ f.number \in Nat
  BY <1>t, <1>i, <1>k, PieceFields
<1>n. \A i \in 1..k : rx_q[i].number \in Nat
  BY <1>t, <1>k, PieceFields
<1>u. \A i \in 1..k - 1 : i + 1 \in 1..k /\ 1 < i + 1
  BY <1>t
<1>d. \A j \in 1..k : j # 1 => j - 1 \in 1..k - 1 /\ rx_q'[j - 1] = rx_q[j]
  <2> SUFFICES ASSUME NEW j \in 1..k, j # 1
               PROVE  j - 1 \in 1..k - 1 /\ rx_q'[j - 1] = rx_q[j]
    OBVIOUS
  <2>1. j - 1 \in 1..k - 1 /\ (j - 1) + 1 = j
    BY <1>t
  <2>2. QED  BY <1>1, <2>1
<1>3. ASSUME NEW u \in Senders, u \notin dropped
      PROVE  InRow(u)'
  <2>0. InRow(u)
    BY <1>3 DEF ReInv
  <2>s. sender'[u].next = sender[u].next /\ sender'[u].attempt = sender[u].attempt
    BY DEF Told
  <2>1. ASSUME NEW i \in 1..k - 1, rx_q'[i].src = u
        PROVE  /\ rx_q'[i].attempt = sender'[u].attempt
               /\ rx_q'[i].number < sender'[u].next
               /\ \/ rx_q'[i].number + 1 = sender'[u].next
                  \/ \E j \in 1..k - 1 : rx_q'[j].src = u /\ rx_q'[j].number = rx_q'[i].number + 1
    <3>1. i + 1 \in 1..k /\ rx_q'[i] = rx_q[i + 1] /\ rx_q[i + 1].src = u /\ rx_q[i + 1].number \in Nat
      BY <1>1, <1>n, <1>u, <2>1
    <3>2. /\ rx_q[i + 1].attempt = sender[u].attempt /\ rx_q[i + 1].number < sender[u].next
          /\ \/ rx_q[i + 1].number + 1 = sender[u].next
             \/ \E j \in 1..k : rx_q[j].src = u /\ rx_q[j].number = rx_q[i + 1].number + 1
      BY <1>k, <2>0, <3>1 DEF InRow
    <3>3. ASSUME NEW j \in 1..k, rx_q[j].src = u, rx_q[j].number = rx_q[i + 1].number + 1
          PROVE  \E l \in 1..k - 1 : rx_q'[l].src = u /\ rx_q'[l].number = rx_q'[i].number + 1
      <4>1. j # 1
        <5> SUFFICES ASSUME j = 1 PROVE FALSE
          OBVIOUS
        <5>1. rx_q[1].number < rx_q[i + 1].number
          BY <1>i, <1>k, <1>u, <2>0, <3>1, <3>3 DEF InRow
        <5>2. QED  BY <1>i, <1>n, <3>1, <3>3, <5>1
      <4>2. QED  BY <1>d, <3>1, <3>3, <4>1
    <3>4. QED  BY <2>s, <3>1, <3>2, <3>3
  <2>2. ASSUME NEW i \in 1..k - 1, NEW j \in 1..k - 1, i < j, rx_q'[i].src = u, rx_q'[j].src = u
        PROVE  rx_q'[i].number < rx_q'[j].number
    <3>1. i + 1 \in 1..k /\ j + 1 \in 1..k /\ i + 1 < j + 1
      BY <1>t, <2>2
    <3>2. QED  BY <1>1, <1>k, <2>0, <2>2, <3>1 DEF InRow
  <2>3. QED  BY <1>1, <2>1, <2>2 DEF InRow
<1>4. ASSUME NEW u \in Senders, NEW m \in Nat, u # f.src, Expect(u, m)
      PROVE  Expect(u, m)'
  <2>s. sender'[u].next = sender[u].next
    BY DEF Told
  <2>1. CASE /\ \E i \in 1..k : rx_q[i].src = u /\ rx_q[i].number = m
             /\ \A i \in 1..k : rx_q[i].src = u => rx_q[i].number >= m
    <3>1. PICK i \in 1..k : rx_q[i].src = u /\ rx_q[i].number = m
      BY <2>1
    <3>2. i # 1
      BY <1>4, <3>1
    <3>3. i - 1 \in 1..k - 1 /\ rx_q'[i - 1] = rx_q[i]
      BY <1>d, <3>2
    <3>4. \A j \in 1..k - 1 : rx_q'[j].src = u => rx_q'[j].number >= m
      BY <1>1, <1>u, <2>1
    <3>5. QED  BY <1>1, <3>1, <3>3, <3>4 DEF Expect
  <2>2. CASE (\A i \in 1..k : rx_q[i].src # u) /\ sender[u].next = m
    BY <1>1, <1>u, <2>2, <2>s DEF Expect
  <2>3. QED  BY <1>4, <1>k, <2>1, <2>2 DEF Expect
<1>5. ASSUME f.src \notin dropped, NEW u \in Senders, u = f.src, NEW m \in Nat, m = f.number + 1
      PROVE  Expect(u, m)'
  <2>0. InRow(u)
    BY <1>5 DEF ReInv
  <2>s. sender'[u].next = sender[u].next
    BY DEF Told
  <2>1. /\ f.number < sender[u].next
        /\ \/ f.number + 1 = sender[u].next
           \/ \E j \in 1..k : rx_q[j].src = u /\ rx_q[j].number = f.number + 1
    BY <1>i, <1>k, <1>5, <2>0 DEF InRow
  <2>2. \A j \in 1..k : j # 1 /\ rx_q[j].src = u => rx_q[j].number >= m /\ rx_q[j].number < sender[u].next
    <3> SUFFICES ASSUME NEW j \in 1..k, j # 1, rx_q[j].src = u
                 PROVE  rx_q[j].number >= m /\ rx_q[j].number < sender[u].next
      OBVIOUS
    <3>1. 1 < j
      BY <1>t
    <3>2. f.number < rx_q[j].number /\ rx_q[j].number < sender[u].next
      BY <1>i, <1>k, <1>5, <2>0, <3>1 DEF InRow
    <3>3. QED  BY <1>5, <1>f, <1>n, <3>2
  <2>n. sender[u].next \in Nat
    BY SenderFields DEF ReInv
  <2>3. CASE \E j \in 1..k : rx_q[j].src = u /\ rx_q[j].number = f.number + 1
    <3>1. PICK j \in 1..k : rx_q[j].src = u /\ rx_q[j].number = f.number + 1
      BY <2>3
    <3>2. j # 1
      BY <1>f, <3>1
    <3>3. j - 1 \in 1..k - 1 /\ rx_q'[j - 1] = rx_q[j]
      BY <1>d, <3>2
    <3>4. \A i \in 1..k - 1 : i + 1 # 1 /\ (rx_q'[i].src = u => rx_q'[i].number >= m)
      BY <1>1, <1>u, <2>2
    <3>5. QED  BY <1>1, <1>5, <3>1, <3>3, <3>4 DEF Expect
  <2>4. CASE f.number + 1 = sender[u].next
    <3>1. \A j \in 1..k : j # 1 => rx_q[j].src # u
      BY <1>5, <1>n, <2>2, <2>4, <2>n
    <3>2. \A i \in 1..k - 1 : rx_q'[i].src # u
      <4> SUFFICES ASSUME NEW i \in 1..k - 1 PROVE rx_q'[i].src # u
        OBVIOUS
      <4>1. i + 1 \in 1..k /\ i + 1 # 1 /\ rx_q'[i] = rx_q[i + 1]
        BY <1>1, <1>u
      <4>2. QED  BY <3>1, <4>1
    <3>3. QED  BY <1>1, <1>5, <2>4, <2>s, <3>2 DEF Expect
  <2>5. QED  BY <2>1, <2>3, <2>4
<1>6. ASSUME f.src \notin dropped
      PROVE  /\ \A m \in Nat : Expect(f.src, m) => m = f.number
             /\ f.attempt = sender[f.src].attempt
  <2>0. InRow(f.src)
    BY <1>6, <1>f DEF ReInv
  <2>1. f.attempt = sender[f.src].attempt
    BY <1>i, <1>k, <2>0 DEF InRow
  <2>2. ASSUME NEW m \in Nat, Expect(f.src, m)
        PROVE  m = f.number
    <3>1. /\ \E i \in 1..k : rx_q[i].src = f.src /\ rx_q[i].number = m
          /\ f.number >= m
      BY <1>i, <1>k, <2>2 DEF Expect
    <3>2. PICK i \in 1..k : rx_q[i].src = f.src /\ rx_q[i].number = m
      BY <3>1
    <3>3. CASE i = 1
      BY <3>2, <3>3
    <3>4. CASE i # 1
      <4>1. 1 < i
        BY <1>t, <3>4
      <4>2. f.number < m
        BY <1>i, <1>k, <2>0, <3>2, <4>1 DEF InRow
      <4>3. QED  BY <1>f, <3>1, <4>2
    <3>5. QED  BY <3>3, <3>4
  <2>3. QED  BY <2>1, <2>2
<1>7. QED  BY <1>1, <1>2, <1>f, <1>3, <1>4, <1>5, <1>6

\* Collected in the next state, of the buffer's next sender and next frame.
LEMMA CollectedNext ==
    ASSUME NEW a \in Senders, NEW b \in Nat, src_alias' = a, Len(buf') + 1 = b, Len(buf') >= 1,
           \A i \in 1..Len(buf') : buf'[i].src = a,
           a \notin dropped' =>
              /\ Numbered(buf)' /\ Len(buf') < Lengths[a]
              /\ Expect(a, 1)' \/ (Expect(a, b)' /\ buf'[1].attempt = sender'[a].attempt)
    PROVE  Collected'
<1>1. Expect(a, 1)' => Expect(src_alias, 1)'
  BY DEF Expect
<1>2. Expect(a, b)' => Expect(src_alias, Len(buf) + 1)'
  BY DEF Expect
<1>3. QED  BY <1>1, <1>2 DEF Collected

\* The first frame of the queue is handled.
LEMMA HandleStep ==
    ASSUME ReInv, Dg!handle_frame \/ Tr!handle_frame
    PROVE  ReInv'
<1>1. PICK f : f = rx_q[1] /\ rx_q # <<>> /\ Handled(f)
  <2>1. rx_q # <<>> /\ Handled(Head(rx_q))
    BY HandleCases
  <2>2. Head(rx_q) = rx_q[1]
    BY <2>1 DEF ReInv, ReTypes
  <2>3. QED  BY <2>1, <2>2
<1>2. rx_q' = Tail(rx_q) /\ dropped' = dropped /\ Told
  BY <1>1 DEF Handled
<1>t. /\ rx_q' \in Seq(Pieces) /\ Len(rx_q') <= RxQueueLength
      /\ f \in Pieces
  BY <1>1, <1>2, TailStep
<1>r. \A u \in Senders : u \notin dropped => InRow(u)'
  BY <1>1, <1>2, TailStep
<1>o. \A u \in Senders, m \in Nat : u # f.src /\ Expect(u, m) => Expect(u, m)'
  BY <1>1, <1>2, TailStep
<1>e. f.src \notin dropped =>
         /\ \A u \in Senders : u = f.src => \A m \in Nat : m = f.number + 1 => Expect(u, m)'
         /\ \A m \in Nat : Expect(f.src, m) => m = f.number
         /\ f.attempt = sender[f.src].attempt
  BY <1>1, <1>2, TailStep
<1>f. /\ f.src \in Senders /\ f.number \in Nat /\ f.number >= 1 /\ f.number <= Lengths[f.src]
      /\ Lengths[f.src] \in Nat
      /\ f.kind \in {"ONE", "FIRST"} <=> f.number = 1
      /\ f.kind \in {"ONE", "FINAL"} <=> f.number = Lengths[f.src]
  BY <1>t, ReConstants DEF Pieces, KindOK
<1>b. /\ buf \in Seq(Pieces) /\ Len(buf) \in Nat /\ Len(buf) <= BufferFrames /\ BufferFrames \in Nat
      /\ BufferFrames >= 1 /\ dispatched \in [src : Senders \union {"nobody"}, frames : Seq(Pieces)]
      /\ active \in BOOLEAN /\ src_alias \in Senders \union {"nobody"} /\ dropped \subseteq Senders
  BY ReConstants DEF ReInv, ReTypes
<1>c. Collected /\ Delivered
  BY DEF ReInv
<1>1f. <<f>> \in Seq(Pieces) /\ Len(<<f>>) = 1 /\ <<f>>[1] = f
  BY <1>t
<1>af. /\ Append(buf, f) \in Seq(Pieces) /\ Len(Append(buf, f)) = Len(buf) + 1
       /\ Append(buf, f)[Len(buf) + 1] = f
       /\ \A i \in 1..Len(buf) : Append(buf, f)[i] = buf[i]
  BY <1>t, <1>b
<1>s. /\ sender' \in [Senders -> SenderRecords]
      /\ \A s \in Senders : sender'[s].next = sender[s].next /\ sender'[s].attempt = sender[s].attempt
  BY <1>2 DEF Told
<1>0. \A s \in Senders : Counts(s)' /\ (s \notin dropped' => InRow(s)')
  <2> TAKE s \in Senders
  <2>1. Counts(s)
    BY DEF ReInv
  <2>2. QED  BY <1>2, <1>r, <2>1 DEF Told, Counts
\* A frame of the buffer's own sender, which lost none, is the next or a first one.
<1>m. ASSUME active, src_alias = f.src, f.src \notin dropped
      PROVE  /\ Numbered(buf) /\ Len(buf) < Lengths[f.src] /\ Len(buf) >= 1
             /\ f.number = 1 \/ (f.number = Len(buf) + 1 /\ buf[1].attempt = f.attempt)
  <2>1. /\ Numbered(buf) /\ Len(buf) < Lengths[f.src] /\ Len(buf) >= 1
        /\ \/ Expect(f.src, 1)
           \/ Expect(f.src, Len(buf) + 1) /\ buf[1].attempt = sender[f.src].attempt
    BY <1>c, <1>m DEF Collected
  <2>2. 1 \in Nat /\ Len(buf) + 1 \in Nat
    BY <1>b
  <2>3. QED  BY <1>e, <1>m, <2>1, <2>2
\* The buffer stays another's.
<1>k. ASSUME SameBuffer, active => (src_alias # f.src \/ f.src \in dropped)
      PROVE  Collected'
  <2>1. CASE ~active
    BY <1>k, <2>1 DEF Collected, SameBuffer
  <2>2. CASE active
    <3>1. PICK a \in Senders, b \in Nat : a = src_alias /\ b = Len(buf) + 1
      BY <1>b, <1>c, <2>2 DEF Collected
    <3>2. /\ src_alias' = a /\ Len(buf') + 1 = b /\ Len(buf') >= 1
          /\ \A i \in 1..Len(buf') : buf'[i].src = a
      BY <1>c, <1>k, <2>2, <3>1 DEF Collected, SameBuffer
    <3>3. ASSUME a \notin dropped'
          PROVE  /\ Numbered(buf)' /\ Len(buf') < Lengths[a]
                 /\ Expect(a, 1)' \/ (Expect(a, b)' /\ buf'[1].attempt = sender'[a].attempt)
      <4>1. a # f.src /\ a \notin dropped
        BY <1>2, <1>k, <2>2, <3>1, <3>3
      <4>2. /\ Numbered(buf) /\ Len(buf) < Lengths[a]
            /\ Expect(a, 1) \/ (Expect(a, b) /\ buf[1].attempt = sender[a].attempt)
        BY <1>c, <2>2, <3>1, <4>1 DEF Collected
      <4>3. Numbered(buf)' /\ Len(buf') < Lengths[a] /\ buf' = buf
        BY <1>k, <4>2 DEF SameBuffer, Numbered
      <4>4. (Expect(a, 1) => Expect(a, 1)') /\ (Expect(a, b) => Expect(a, b)')
        BY <1>o, <4>1
      <4>5. sender'[a].attempt = sender[a].attempt
        BY <1>s
      <4>6. QED  BY <4>2, <4>3, <4>4, <4>5
    <3>4. QED  BY <3>2, <3>3, CollectedNext
  <2>3. QED  BY <1>b, <2>1, <2>2
\* What was handed on stays.
<1>d. dispatched' = dispatched => Delivered'
  BY <1>2, <1>c DEF Delivered, Numbered
<1>q. SameBuffer => buf' \in Seq(Pieces) /\ Len(buf') <= BufferFrames /\ active' \in BOOLEAN
                    /\ src_alias' \in Senders \union {"nobody"}
  BY <1>b DEF SameBuffer
<1>z. Freed => /\ Collected' /\ buf' \in Seq(Pieces) /\ Len(buf') <= BufferFrames /\ active' \in BOOLEAN
               /\ src_alias' \in Senders \union {"nobody"}
  <2> SUFFICES ASSUME Freed
               PROVE  /\ Collected' /\ buf' \in Seq(Pieces) /\ Len(buf') <= BufferFrames
                      /\ active' \in BOOLEAN /\ src_alias' \in Senders \union {"nobody"}
    OBVIOUS
  <2>1. active' = FALSE /\ buf' = <<>> /\ src_alias' = src_alias
    BY DEF Freed
  <2>2. Collected'
    BY <2>1 DEF Collected
  <2>3. buf' \in Seq(Pieces) /\ Len(buf') <= BufferFrames
    BY <1>b, <2>1
  <2>4. QED  BY <1>b, <2>1, <2>2, <2>3
<1>p. ASSUME buf' \in Seq(Pieces), Len(buf') <= BufferFrames, active' \in BOOLEAN,
             src_alias' \in Senders \union {"nobody"},
             dispatched' \in [src : Senders \union {"nobody"}, frames : Seq(Pieces)],
             Collected', Delivered'
      PROVE  ReInv'
  <2>1. ReTypes'
    BY <1>2, <1>t, <1>b, <1>s, <1>p DEF ReTypes
  <2>2. QED  BY <1>0, <1>p, <2>1 DEF ReInv
<1>3. CASE /\ f.kind = "ONE" /\ dispatched' = [src |-> f.src, frames |-> <<f>>]
           /\ SameBuffer \/ Freed
  <2>1. f.number = 1 /\ Lengths[f.src] = 1
    BY <1>f, <1>3
  <2>2. Delivered'
    <3>1. dispatched'.src = f.src /\ dispatched'.frames = <<f>>
      BY <1>3
    <3>2. QED  BY <1>1f, <2>1, <3>1 DEF Delivered, Numbered
  <2>3. dispatched' \in [src : Senders \union {"nobody"}, frames : Seq(Pieces)]
    BY <1>3, <1>f, <1>1f
  <2>4. CASE SameBuffer
    <3>1. active => (src_alias # f.src \/ f.src \in dropped)
      BY <1>m, <1>b, <2>1
    <3>2. QED  BY <1>k, <1>p, <1>q, <2>2, <2>3, <2>4, <3>1
  <2>5. CASE Freed
    BY <1>p, <1>z, <2>2, <2>3, <2>5
  <2>6. QED  BY <1>3, <2>4, <2>5
<1>4. CASE /\ f.kind = "FIRST" /\ dispatched' = dispatched
           /\ active' = TRUE /\ src_alias' = f.src /\ buf' = <<f>>
  <2>1. f.number = 1 /\ 1 < Lengths[f.src]
    BY <1>f, <1>4
  <2>2. PICK a \in Senders, b \in Nat : a = f.src /\ b = 2
    BY <1>f
  <2>3. /\ src_alias' = a /\ Len(buf') + 1 = b /\ Len(buf') >= 1
        /\ \A i \in 1..Len(buf') : buf'[i].src = a
    BY <1>4, <1>1f, <2>2
  <2>4. ASSUME a \notin dropped'
        PROVE  /\ Numbered(buf)' /\ Len(buf') < Lengths[a]
               /\ Expect(a, b)' /\ buf'[1].attempt = sender'[a].attempt
    <3>1. Expect(a, b)'
      BY <1>2, <1>e, <2>1, <2>2, <2>4
    <3>2. Numbered(buf)' /\ Len(buf') < Lengths[a]
      BY <1>4, <1>1f, <2>1, <2>2 DEF Numbered
    <3>3. buf'[1].attempt = sender'[a].attempt
      BY <1>2, <1>4, <1>1f, <1>e, <1>s, <2>2, <2>4
    <3>4. QED  BY <3>1, <3>2, <3>3
  <2>5. Collected'
    BY <2>3, <2>4, CollectedNext
  <2>6. buf' \in Seq(Pieces) /\ Len(buf') <= BufferFrames
    BY <1>4, <1>b, <1>1f
  <2>7. QED  BY <1>4, <1>b, <1>d, <1>f, <1>p, <2>5, <2>6
<1>5. CASE f.kind \notin {"ONE", "FIRST"} /\ ~(active /\ src_alias = f.src)
           /\ SameBuffer /\ dispatched' = dispatched
  BY <1>5, <1>b, <1>d, <1>k, <1>p, <1>q
<1>6. CASE Freed /\ dispatched' = dispatched
  BY <1>6, <1>b, <1>d, <1>p, <1>z
<1>7. CASE /\ f.kind = "MIDDLE" /\ active /\ src_alias = f.src /\ Len(buf) + 1 <= BufferFrames
           /\ buf' = Append(buf, f) /\ UNCHANGED <<active, src_alias, dispatched>>
  <2>1. f.number # 1 /\ f.number # Lengths[f.src]
    BY <1>f, <1>7
  <2>2. PICK a \in Senders, b \in Nat : a = f.src /\ b = Len(buf) + 2
    BY <1>b, <1>f
  <2>3. /\ src_alias' = a /\ Len(buf') + 1 = b /\ Len(buf') >= 1
    BY <1>7, <1>af, <1>b, <2>2
  <2>4. \A i \in 1..Len(buf') : buf'[i].src = a
    <3>1. \A i \in 1..Len(buf) : buf[i].src = a
      BY <1>7, <1>c, <2>2 DEF Collected
    <3>2. \A i \in 1..Len(buf') : i \in 1..Len(buf) \/ i = Len(buf) + 1
      BY <1>7, <1>af, <1>b
    <3>3. QED  BY <1>7, <1>af, <2>2, <3>1, <3>2
  <2>5. ASSUME a \notin dropped'
        PROVE  /\ Numbered(buf)' /\ Len(buf') < Lengths[a]
               /\ Expect(a, b)' /\ buf'[1].attempt = sender'[a].attempt
    <3>0. a \notin dropped
      BY <1>2, <2>5
    <3>1. /\ Numbered(buf) /\ Len(buf) < Lengths[a] /\ Len(buf) >= 1
          /\ f.number = Len(buf) + 1 /\ buf[1].attempt = f.attempt
      BY <1>7, <1>m, <2>1, <2>2, <3>0
    <3>2. Expect(a, b)'
      BY <1>b, <1>e, <2>2, <3>0, <3>1
    <3>3. Len(buf') < Lengths[a]
      BY <1>7, <1>af, <1>b, <1>f, <2>1, <2>2, <3>1
    <3>4. buf'[1] = buf[1]
      BY <1>7, <1>af, <1>b, <3>1
    <3>5. Numbered(buf)'
      <4>1. \A i \in 1..Len(buf') : i \in 1..Len(buf) \/ i = Len(buf) + 1
        BY <1>7, <1>af, <1>b
      <4>2. QED  BY <1>7, <1>af, <3>1, <3>4, <4>1 DEF Numbered
    <3>6. buf'[1].attempt = sender'[a].attempt
      BY <1>e, <1>s, <2>2, <3>0, <3>1, <3>4
    <3>7. QED  BY <3>2, <3>3, <3>5, <3>6
  <2>6. Collected'
    BY <2>3, <2>4, <2>5, CollectedNext
  <2>7. buf' \in Seq(Pieces) /\ Len(buf') <= BufferFrames
    BY <1>7, <1>af, <1>b
  <2>8. QED  BY <1>7, <1>b, <1>d, <1>p, <2>6, <2>7
<1>8. CASE /\ f.kind = "FINAL" /\ active /\ src_alias = f.src
           /\ dispatched' = [src |-> f.src, frames |-> Append(buf, f)]
           /\ Freed
  <2>1. f.number # 1 /\ f.number = Lengths[f.src]
    BY <1>f, <1>8
  <2>2. dispatched'.src = f.src /\ dispatched'.frames = Append(buf, f)
    BY <1>8
  <2>3. \A i \in 1..Len(Append(buf, f)) : i \in 1..Len(buf) \/ i = Len(buf) + 1
    BY <1>af, <1>b
  <2>4. \A i \in 1..Len(Append(buf, f)) : Append(buf, f)[i].src = f.src
    BY <1>8, <1>af, <1>c, <2>3 DEF Collected
  <2>5. ASSUME f.src \notin dropped
        PROVE  Numbered(Append(buf, f)) /\ Len(Append(buf, f)) = Lengths[f.src]
    <3>1. /\ Numbered(buf) /\ Len(buf) >= 1
          /\ f.number = Len(buf) + 1 /\ buf[1].attempt = f.attempt
      BY <1>8, <1>m, <2>1, <2>5
    <3>2. Append(buf, f)[1] = buf[1]
      BY <1>af, <1>b, <3>1
    <3>3. QED  BY <1>af, <2>1, <2>3, <3>1, <3>2 DEF Numbered
  <2>6. Delivered'
    <3> DEFINE g == Append(buf, f)
    <3> HIDE DEF g
    <3>1. dispatched'.src = f.src /\ dispatched'.frames = g
      BY <2>2 DEF g
    <3>2. \A i \in 1..Len(g) : g[i].src = f.src
      BY <2>4 DEF g
    <3>3. f.src \notin dropped => Numbered(g) /\ Len(g) = Lengths[f.src]
      BY <2>5 DEF g
    <3>4. QED  BY <1>2, <3>1, <3>2, <3>3 DEF Delivered, Numbered
  <2>7. dispatched' \in [src : Senders \union {"nobody"}, frames : Seq(Pieces)]
    BY <1>8, <1>f, <1>af
  <2>8. QED  BY <1>8, <1>p, <1>z, <2>6, <2>7
<1>9. QED  BY <1>1, <1>3, <1>4, <1>5, <1>6, <1>7, <1>8 DEF Handled

LEMMA ReInit == Dg!Init => ReInv
<1> SUFFICES ASSUME Dg!Init PROVE ReInv
  OBVIOUS
<1>1. /\ sender = [s \in Senders |-> [next |-> 1, attempt |-> 0, tries |-> 0, state |-> "sending"]]
      /\ rx_q = <<>> /\ active = FALSE /\ src_alias = "nobody" /\ buf = <<>>
      /\ dispatched = [src |-> "nobody", frames |-> <<>>] /\ dropped = {}
  BY DEF Dg!Init, Dg!Nobody
<1>2. ReTypes
  <2>1. sender \in [Senders -> SenderRecords]
    BY <1>1 DEF SenderRecords, States
  <2>2. <<>> \in Seq(Pieces) /\ Len(<<>>) <= RxQueueLength /\ Len(<<>>) <= BufferFrames
    BY ReConstants
  <2>3. QED  BY <1>1, <2>1, <2>2 DEF ReTypes
<1>3. \A s \in Senders : Counts(s) /\ InRow(s)
  BY <1>1, ReConstants DEF Counts, InRow
<1>4. Collected /\ Delivered
  BY <1>1 DEF Collected, Delivered
<1>5. QED  BY <1>2, <1>3, <1>4 DEF ReInv

LEMMA ReStep ==
    ASSUME ReInv, Dg!Next \/ Tr!Next \/ UNCHANGED frame_vars
    PROVE  ReInv'
<1>1. CASE UNCHANGED frame_vars
  <2>1. Told /\ UNCHANGED <<rx_q, active, src_alias, buf, dispatched, dropped>>
    BY <1>1 DEF frame_vars, Told, ReInv, ReTypes
  <2>2. QED  BY <2>1, ToldKeeps
<1>2. CASE Dg!Next
  BY <1>2, SendStep, ResendStep, VanishStep, HandleStep DEF Dg!Next
<1>3. CASE Tr!Next
  BY <1>3, SendStep, ResendStep, VanishStep, HandleStep DEF Tr!Next
<1>4. QED  BY <1>1, <1>2, <1>3

LEMMA ReResults == ReInv => Dg!TypeOK /\ Dg!OneSender /\ Dg!WholeMessage
<1> SUFFICES ASSUME ReInv PROVE Dg!TypeOK /\ Dg!OneSender /\ Dg!WholeMessage
  OBVIOUS
<1>t. ReTypes /\ Delivered
  BY DEF ReInv
<1>d. dispatched.frames \in Seq(Pieces) /\ dispatched.src \in Senders \union {"nobody"}
  BY <1>t DEF ReTypes
<1>1. Dg!TypeOK
  <2>1. \A s \in Senders : /\ sender[s].next \in 1..Lengths[s] + 1
                           /\ sender[s].attempt \in 0..1
                           /\ sender[s].state \in {"sending", "waiting", "refused", "done", "gone"}
    <3> TAKE s \in Senders
    <3>1. Counts(s)
      BY DEF ReInv
    <3>2. QED  BY <1>t, <3>1, SenderFields DEF Counts, States
  <2>2. \A sq \in Seq(Pieces) : \A f \in Dg!ToSet(sq) : Dg!FrameOK(f)
    <3> SUFFICES ASSUME NEW sq \in Seq(Pieces), NEW i \in 1..Len(sq)
                 PROVE  Dg!FrameOK(sq[i])
      BY DEF Dg!ToSet
    <3>1. sq[i] \in Pieces
      OBVIOUS
    <3>2. QED  BY <3>1, ReConstants DEF Pieces, Dg!FrameOK, Dg!Kinds
  <2>3. QED  BY <1>t, <1>d, <2>1, <2>2 DEF ReTypes, Dg!TypeOK, Dg!Nobody
<1>2. Dg!OneSender
  BY <1>t, <1>d DEF Delivered, Dg!OneSender, Dg!ToSet
<1>3. Dg!WholeMessage
  BY <1>t, <1>d DEF Delivered, Numbered, Dg!WholeMessage, Dg!Nobody
<1>4. QED  BY <1>1, <1>2, <1>3

\* A reassembled message, a datagram or a traction command, is one sender's, and
\* the whole of what it sent unless the receive queue dropped a frame of it, for
\* any senders, message lengths, buffer and queue sizes.
THEOREM MessagesWhole == Spec => []MessagesAreWhole
<1>1. Init => ReInv
  BY ReInit DEF Init
<1>2. ReInv /\ [Next]_vars => ReInv'
  BY ReStep DEF Next, vars
<1>3. ReInv => MessagesAreWhole
  BY ReResults DEF MessagesAreWhole
<1>4. QED  BY <1>1, <1>2, <1>3, PTL DEF Spec

-----------------------------------------------------------------------------
(* GridConnect.  While a frame is on the wire, the parser has taken the     *)
(* first p characters of it, and has either kept step with them or lost the *)
(* frame to the broken one before it.                                       *)

Size(f) == IdDigits + 2 * Len(f.data) + 5

\* What is left on the wire is f without its first p characters.
Rest(f, p) ==
    /\ Len(wire) + p = Size(f)
    /\ \A i \in 1..Len(wire) : wire[i] = Gc!lcc_gc_encode(f)[p + i]

\* The frame being sent is the first or comes after one that was not cut.
Follows == Len(sent) = 1 \/ ~sent[Len(sent) - 1].cut

\* The parser holds the first j bytes of f, as far as they fit.
Holds(f, j) ==
    /\ Len(data) = IF j <= MaxData THEN j ELSE MaxData
    /\ \A i \in 1..Len(data) : data[i] = f.data[i]

Shifted(f, i) == \A k \in 1..i : id[IdDigits - i + k] = f.id[k]

\* The parser has seen p characters of f.
Parsed(f, p) ==
    \/ p = 0 /\ (Follows => state = "IDLE")
    \/ p >= 1 /\ state = "IDLE" /\ ~Follows
    \/ p = 1 /\ state = "TYPE" /\ data = <<>> /\ half = -1
    \/ \E i \in 0..IdDigits :
          p = i + 2 /\ state = "ID" /\ data = <<>> /\ half = -1 /\ Shifted(f, i)
    \/ \E j \in 0..Len(f.data) :
          p = IdDigits + 3 + 2 * j /\ state = "DATA" /\ id = f.id /\ half = -1 /\ Holds(f, j)
    \/ \E j \in 0..Len(f.data) - 1 :
          /\ p = IdDigits + 4 + 2 * j /\ state = "DATA" /\ id = f.id /\ Holds(f, j)
          /\ half = IF j < MaxData THEN f.data[j + 1][1] ELSE -1
    \/ p = Size(f) - 1 /\ state = "IDLE" /\ \E i \in 1..Len(rx) : rx[i].at = Len(sent)

Sends == [frame : Frames, cut : BOOLEAN]
Parses == [frame : [id : [1..IdDigits -> Gc!Digits], data : Seq(Gc!Digits \X Gc!Digits)], at : Nat]

GcTypes ==
    /\ state \in {"IDLE", "TYPE", "ID", "DATA"}
    /\ id \in [1..IdDigits -> Gc!Digits]
    /\ data \in Seq(Gc!Digits \X Gc!Digits) /\ Len(data) <= MaxData
    /\ half \in Gc!Digits \cup {-1}
    /\ wire \in Seq(Nat)
    /\ sent \in Seq(Sends)
    /\ rx \in Seq(Parses)

OnWire ==
    /\ wire # <<>> => /\ sent # <<>> /\ ~sent[Len(sent)].cut
                      /\ \E f \in Frames, p \in Nat :
                            f = sent[Len(sent)].frame /\ Rest(f, p) /\ Parsed(f, p)
    /\ wire = <<>> => state = "IDLE" \/ (sent # <<>> /\ sent[Len(sent)].cut)

\* Each frame parsed is a frame started, and the last only when its ';' is through.
ParsedOnce ==
    /\ \A i \in 1..Len(rx) : /\ rx[i].at \in 1..Len(sent)
                             /\ rx[i].at = Len(sent) => Len(wire) <= 1
    /\ Gc!OnlySentFrames

GcInv == GcTypes /\ OnWire /\ ParsedOnce /\ Gc!RecoversInOneFrame

LEMMA GcConstants ==
    IdDigits \in Nat /\ IdDigits >= 1 /\ MaxData \in Nat /\ MaxSent \in Nat
BY LinkAssumption DEF Gc!GridConnectAssumption

LEMMA FrameFields ==
    ASSUME NEW f \in Frames
    PROVE  /\ f = [id |-> f.id, data |-> f.data]
           /\ f.id \in [1..IdDigits -> Gc!Digits] /\ f.id[1] \in {0, 1}
           /\ f.data \in Seq(Gc!Digits \X Gc!Digits) /\ Len(f.data) \in Nat
BY LinkAssumption DEF Gc!GridConnectAssumption

\* Byte j of the data is the digits 2j - 1 and 2j.
LEMMA HexDigits ==
    ASSUME NEW b \in Seq(Gc!Digits \X Gc!Digits)
    PROVE  /\ Gc!hex_digits(b) \in Seq(Nat) /\ Len(Gc!hex_digits(b)) = 2 * Len(b)
           /\ \A j \in 0..Len(b) - 1 : /\ Gc!hex_digits(b)[2 * j + 1] = b[j + 1][1]
                                       /\ Gc!hex_digits(b)[2 * j + 2] = b[j + 1][2]
<1> DEFINE h == Gc!hex_digits(b)
           n == Len(b)
<1>1. n \in Nat /\ 2 * n \in Nat
  OBVIOUS
<1>2. h = [i \in 1..2 * n |-> IF i % 2 = 1 THEN b[(i + 1) \div 2][1] ELSE b[i \div 2][2]]
  BY DEF Gc!hex_digits
<1>b. \A j \in 1..n : b[j][1] \in Nat /\ b[j][2] \in Nat
  BY DEF Gc!Digits
<1> HIDE DEF h, n
<1>3. \A i \in 1..2 * n : h[i] \in Nat
  <2> SUFFICES ASSUME NEW i \in 1..2 * n PROVE h[i] \in Nat
    OBVIOUS
  <2>1. CASE i % 2 = 1
    <3>1. (i + 1) \div 2 \in 1..n
      BY <1>1, <2>1
    <3>2. QED  BY <1>2, <1>b, <2>1, <3>1
  <2>2. CASE i % 2 # 1
    <3>1. i \div 2 \in 1..n
      BY <1>1, <2>2
    <3>2. QED  BY <1>2, <1>b, <2>2, <3>1
  <2>3. QED  BY <2>1, <2>2
<1>4. h \in Seq(Nat) /\ Len(h) = 2 * n
  BY <1>1, <1>2, <1>3
<1>5. ASSUME NEW j \in 0..n - 1
      PROVE  h[2 * j + 1] = b[j + 1][1] /\ h[2 * j + 2] = b[j + 1][2]
  <2>1. 2 * j + 1 \in 1..2 * n /\ (2 * j + 1) % 2 = 1 /\ (2 * j + 2) \div 2 = j + 1 /\ (2 * j + 1) + 1 = 2 * j + 2
    BY <1>1
  <2>2. 2 * j + 2 \in 1..2 * n /\ (2 * j + 2) % 2 # 1
    BY <1>1
  <2>3. QED  BY <1>2, <2>1, <2>2
<1>6. QED  BY <1>4, <1>5 DEF h, n

Joins(s, t, r) ==
    /\ r \in Seq(Nat) /\ Len(r) = Len(s) + Len(t)
    /\ \A i \in 1..Len(s) : r[i] = s[i]
    /\ \A i \in 1..Len(t) : r[Len(s) + i] = t[i]

LEMMA Joined ==
    ASSUME NEW s \in Seq(Nat), NEW t \in Seq(Nat), NEW r, r = s \o t
    PROVE  Joins(s, t, r)
<1>1. Len(s) \in Nat /\ Len(t) \in Nat
  OBVIOUS
<1>2. r \in Seq(Nat) /\ Len(r) = Len(s) + Len(t)
  OBVIOUS
<1>3. ASSUME NEW i \in 1..Len(s)
      PROVE  r[i] = s[i]
  OBVIOUS
<1>4. ASSUME NEW i \in 1..Len(t)
      PROVE  r[Len(s) + i] = t[i]
  <2>1. Len(s) + i \in 1..Len(s) + Len(t) /\ ~(Len(s) + i <= Len(s)) /\ (Len(s) + i) - Len(s) = i
    BY <1>1
  <2>2. QED  BY <2>1
<1>5. QED  BY <1>2, <1>3, <1>4 DEF Joins

\* The characters e of the frame f, by position.
Spelled(f, e) ==
    /\ e \in Seq(Nat) /\ Len(e) = Size(f)
    /\ e[1] = 16 /\ e[2] = 17
    /\ \A i \in 1..IdDigits : e[i + 2] = f.id[i]
    /\ e[IdDigits + 3] = 18
    /\ \A j \in 0..Len(f.data) - 1 : /\ e[IdDigits + 4 + 2 * j] = f.data[j + 1][1]
                                     /\ e[IdDigits + 5 + 2 * j] = f.data[j + 1][2]
    /\ e[IdDigits + 4 + 2 * Len(f.data)] = 19
    /\ e[IdDigits + 5 + 2 * Len(f.data)] = 20

\* The characters of an encoded frame.
LEMMA Encoded ==
    ASSUME NEW f \in Frames, NEW e, e = Gc!lcc_gc_encode(f)
    PROVE  Spelled(f, e)
<1> DEFINE h == Gc!hex_digits(f.data)
           n == Len(f.data)
           a == <<16, 17>>
           b == a \o f.id
           c == b \o <<18>>
           d == c \o h
           z == <<19, 20>>
<1>f. /\ f.id \in [1..IdDigits -> Gc!Digits] /\ n \in Nat /\ f.data \in Seq(Gc!Digits \X Gc!Digits)
      /\ IdDigits \in Nat
  BY FrameFields, GcConstants
<1>8. Size(f) = IdDigits + 5 + 2 * n
  BY FrameFields, GcConstants DEF Size
<1>e. e = d \o z
  BY DEF Gc!lcc_gc_encode, Gc!Colon, Gc!X, Gc!N, Gc!Semicolon, Gc!Newline
<1>h. /\ h \in Seq(Nat) /\ Len(h) = 2 * n
      /\ \A j \in 0..n - 1 : h[2 * j + 1] = f.data[j + 1][1] /\ h[2 * j + 2] = f.data[j + 1][2]
  BY <1>f, HexDigits
<1>i. f.id \in Seq(Nat) /\ Len(f.id) = IdDigits
  BY <1>f DEF Gc!Digits
<1>j. b = a \o f.id
  OBVIOUS
<1>k. d = c \o h
  OBVIOUS
<1> HIDE DEF h, n
<1>a. a \in Seq(Nat) /\ Len(a) = 2 /\ a[1] = 16 /\ a[2] = 17
  OBVIOUS
<1> HIDE DEF a, b
<1>1. /\ b \in Seq(Nat) /\ Len(b) = IdDigits + 2 /\ b[1] = 16 /\ b[2] = 17
      /\ \A i \in 1..IdDigits : b[i + 2] = f.id[i]
  <2>1. /\ b \in Seq(Nat) /\ Len(b) = 2 + IdDigits
        /\ \A i \in 1..2 : b[i] = a[i]
        /\ \A i \in 1..IdDigits : b[2 + i] = f.id[i]
    <3>1. /\ b \in Seq(Nat) /\ Len(b) = Len(a) + Len(f.id)
          /\ \A i \in 1..Len(a) : b[i] = a[i]
          /\ \A i \in 1..Len(f.id) : b[Len(a) + i] = f.id[i]
      <4>1. a \in Seq(Nat) /\ f.id \in Seq(Nat)
        BY <1>a, <1>i
      <4>2. Joins(a, f.id, b)
        BY <4>1, <1>j, Joined
      <4>3. QED  BY <4>2 DEF Joins
    <3>2. Len(a) = 2 /\ Len(f.id) = IdDigits
      BY <1>a, <1>i
    <3>3. QED  BY ONLY <3>1, <3>2
  <2>2. ASSUME NEW i \in 1..IdDigits
        PROVE  b[i + 2] = f.id[i]
    <3>1. 2 + i = i + 2
      BY <1>f
    <3>2. QED  BY <2>1, <3>1
  <2>3. b[1] = 16 /\ b[2] = 17
    BY <1>a, <2>1
  <2>4. QED  BY <1>f, <2>1, <2>2, <2>3
<1>2. /\ c \in Seq(Nat) /\ Len(c) = IdDigits + 3 /\ c[IdDigits + 3] = 18
      /\ \A i \in 1..IdDigits + 2 : c[i] = b[i]
  BY <1>1, <1>f
<1> HIDE DEF c, d
<1>3. /\ d \in Seq(Nat) /\ Len(d) = IdDigits + 3 + 2 * n
      /\ \A i \in 1..IdDigits + 3 : d[i] = c[i]
      /\ \A i \in 1..2 * n : d[IdDigits + 3 + i] = h[i]
  <2>1. /\ d \in Seq(Nat) /\ Len(d) = Len(c) + Len(h)
        /\ \A i \in 1..Len(c) : d[i] = c[i]
        /\ \A i \in 1..Len(h) : d[Len(c) + i] = h[i]
    <3>1. c \in Seq(Nat) /\ h \in Seq(Nat)
      BY <1>2, <1>h
    <3>2. Joins(c, h, d)
      BY <3>1, <1>k, Joined
    <3>3. QED  BY <3>2 DEF Joins
  <2>2. Len(c) = IdDigits + 3 /\ Len(h) = 2 * n
    BY <1>2, <1>h
  <2>3. QED  BY ONLY <2>1, <2>2
<1>z. z \in Seq(Nat) /\ Len(z) = 2 /\ z[1] = 19 /\ z[2] = 20
  OBVIOUS
<1> HIDE DEF z
<1>4. /\ e \in Seq(Nat) /\ Len(e) = IdDigits + 5 + 2 * n
      /\ \A i \in 1..IdDigits + 3 + 2 * n : e[i] = d[i]
      /\ e[IdDigits + 4 + 2 * n] = 19 /\ e[IdDigits + 5 + 2 * n] = 20
  <2> DEFINE k == IdDigits + 3 + 2 * n
  <2>1. /\ e \in Seq(Nat) /\ Len(e) = k + 2
        /\ \A i \in 1..k : e[i] = d[i]
        /\ \A i \in 1..2 : e[k + i] = z[i]
    <3>1. /\ e \in Seq(Nat) /\ Len(e) = Len(d) + Len(z)
          /\ \A i \in 1..Len(d) : e[i] = d[i]
          /\ \A i \in 1..Len(z) : e[Len(d) + i] = z[i]
      <4>1. d \in Seq(Nat) /\ z \in Seq(Nat)
        BY <1>3, <1>z
      <4>2. Joins(d, z, e)
        BY <4>1, <1>e, Joined
      <4>3. QED  BY <4>2 DEF Joins
    <3>2. Len(d) = k /\ Len(z) = 2
      BY <1>3, <1>z
    <3>3. QED  BY ONLY <3>1, <3>2
  <2>2. k + 1 = IdDigits + 4 + 2 * n /\ k + 2 = IdDigits + 5 + 2 * n
    BY <1>f
  <2>3. QED  BY <1>z, <2>1, <2>2
<1>5. e[1] = 16 /\ e[2] = 17 /\ e[IdDigits + 3] = 18
  BY <1>1, <1>2, <1>3, <1>4, <1>f
<1>6. ASSUME NEW i \in 1..IdDigits
      PROVE  e[i + 2] = f.id[i]
  <2>1. i + 2 \in 1..IdDigits + 2 /\ i + 2 \in 1..IdDigits + 3 /\ i + 2 \in 1..IdDigits + 3 + 2 * n
    BY <1>f
  <2>2. e[i + 2] = b[i + 2]
    BY <1>2, <1>3, <1>4, <2>1
  <2>3. QED  BY <1>1, <2>2
<1>7. ASSUME NEW j \in 0..n - 1
      PROVE  /\ e[IdDigits + 4 + 2 * j] = f.data[j + 1][1]
             /\ e[IdDigits + 5 + 2 * j] = f.data[j + 1][2]
  <2>1. /\ 2 * j + 1 \in 1..2 * n /\ 2 * j + 2 \in 1..2 * n
        /\ IdDigits + 3 + (2 * j + 1) = IdDigits + 4 + 2 * j
        /\ IdDigits + 3 + (2 * j + 2) = IdDigits + 5 + 2 * j
        /\ IdDigits + 4 + 2 * j \in 1..IdDigits + 3 + 2 * n
        /\ IdDigits + 5 + 2 * j \in 1..IdDigits + 3 + 2 * n
    BY <1>f
  <2>2. /\ d[IdDigits + 4 + 2 * j] = h[2 * j + 1] /\ d[IdDigits + 5 + 2 * j] = h[2 * j + 2]
    BY <1>3, <2>1
  <2>3. QED  BY <1>4, <1>h, <2>1, <2>2
<1>9. QED  BY <1>4, <1>5, <1>6, <1>7, <1>8 DEF n, Spelled

\* Only the first character of a frame is a ':'.
LEMMA OneColon ==
    ASSUME NEW f \in Frames, NEW e, e = Gc!lcc_gc_encode(f), NEW k \in 2..Size(f)
    PROVE  e[k] # 16
<1> DEFINE n == Len(f.data)
<1>f. /\ IdDigits \in Nat /\ n \in Nat /\ \A i \in 1..IdDigits : f.id[i] \in 0..15
      /\ \A j \in 0..n - 1 : f.data[j + 1][1] \in 0..15 /\ f.data[j + 1][2] \in 0..15
  <2>1. f.id \in [1..IdDigits -> 0..15] /\ f.data \in Seq((0..15) \X (0..15)) /\ IdDigits \in Nat
    BY FrameFields, GcConstants DEF Gc!Digits
  <2>2. ASSUME NEW j \in 0..n - 1
        PROVE  f.data[j + 1] \in (0..15) \X (0..15)
    BY <2>1
  <2>3. QED  BY <2>1, <2>2
<1>0. Spelled(f, e)
  BY ONLY f \in Frames, e = Gc!lcc_gc_encode(f), Encoded, Zenon
<1>e. /\ e[2] = 17 /\ \A i \in 1..IdDigits : e[i + 2] = f.id[i]
      /\ e[IdDigits + 3] = 18
      /\ \A j \in 0..n - 1 : /\ e[IdDigits + 4 + 2 * j] = f.data[j + 1][1]
                             /\ e[IdDigits + 5 + 2 * j] = f.data[j + 1][2]
      /\ e[IdDigits + 4 + 2 * n] = 19 /\ e[IdDigits + 5 + 2 * n] = 20
  BY ONLY <1>0, Zenon DEF Spelled
<1>s. k \in 2..IdDigits + 2 * n + 5
  BY DEF Size
<1> HIDE DEF n
<1>1. CASE k = 2 \/ k = IdDigits + 3 \/ k = IdDigits + 4 + 2 * n \/ k = IdDigits + 5 + 2 * n
  BY <1>1, <1>e
<1>2. CASE k \in 3..IdDigits + 2
  <2>1. k - 2 \in 1..IdDigits /\ (k - 2) + 2 = k
    BY <1>f, <1>2
  <2>2. QED  BY <1>e, <1>f, <2>1
<1>3. CASE k \in IdDigits + 4..IdDigits + 3 + 2 * n
  <2>1. \E j \in 0..n - 1 : k = IdDigits + 4 + 2 * j \/ k = IdDigits + 5 + 2 * j
    <3> DEFINE j == (k - IdDigits - 4) \div 2
    <3>1. j \in 0..n - 1 /\ (k = IdDigits + 4 + 2 * j \/ k = IdDigits + 5 + 2 * j)
      BY <1>f, <1>3
    <3>2. QED  BY <3>1
  <2>2. PICK j \in 0..n - 1 : k = IdDigits + 4 + 2 * j \/ k = IdDigits + 5 + 2 * j
    BY <2>1
  <2>3. e[k] = f.data[j + 1][1] \/ e[k] = f.data[j + 1][2]
    BY <1>e, <2>2
  <2>4. f.data[j + 1][1] \in 0..15 /\ f.data[j + 1][2] \in 0..15
    BY <1>f
  <2>5. QED  BY ONLY <2>3, <2>4
<1>4. QED  BY <1>f, <1>s, <1>1, <1>2, <1>3

\* A character leaves the wire.
LEMMA RestStep ==
    ASSUME GcTypes, wire # <<>>, wire' = Tail(wire), NEW f, NEW p \in Nat, Rest(f, p)
    PROVE  /\ Head(wire) = Gc!lcc_gc_encode(f)[p + 1]
           /\ wire' \in Seq(Nat) /\ Len(wire') = Len(wire) - 1 /\ Len(wire) \in Nat /\ Len(wire) >= 1
           /\ Len(wire) = 1 => wire' = <<>>
           /\ Rest(f, p + 1)'
<1> DEFINE e == Gc!lcc_gc_encode(f)
<1>1. wire \in Seq(Nat)
  BY DEF GcTypes
<1>2. /\ Head(wire) = wire[1] /\ 1 \in 1..Len(wire) /\ Len(wire) \in Nat
      /\ wire' \in Seq(Nat) /\ Len(wire') = Len(wire) - 1
      /\ \A i \in 1..Len(wire) - 1 : wire'[i] = wire[i + 1]
      /\ Len(wire) = 1 => wire' = <<>>
  BY <1>1
<1>3. Len(wire) + p = Size(f) /\ \A i \in 1..Len(wire) : wire[i] = e[p + i]
  BY DEF Rest
<1> HIDE DEF e
<1>4. ASSUME NEW i \in 1..Len(wire) - 1
      PROVE  wire'[i] = e[(p + 1) + i]
  <2>1. i + 1 \in 1..Len(wire) /\ p + (i + 1) = (p + 1) + i
    BY <1>2
  <2>2. QED  BY <1>2, <1>3, <2>1
<1>5. Len(wire') + (p + 1) = Size(f)
  BY <1>2, <1>3
<1>6. Size(f)' = Size(f) /\ Gc!lcc_gc_encode(f)' = e
  BY DEF Size, e, Gc!lcc_gc_encode, Gc!hex_digits
<1>7. QED  BY <1>2, <1>3, <1>4, <1>5, <1>6 DEF Rest, e

\* Whatever the character, the parser's state keeps its type.
LEMMA ParseTypes ==
    ASSUME GcTypes, NEW c \in Nat, Gc!lcc_gc_parse_byte(c)
    PROVE  /\ state' \in {"IDLE", "TYPE", "ID", "DATA"}
           /\ id' \in [1..IdDigits -> Gc!Digits]
           /\ data' \in Seq(Gc!Digits \X Gc!Digits) /\ Len(data') <= MaxData
           /\ half' \in Gc!Digits \cup {-1}
<1>t. /\ id \in [1..IdDigits -> Gc!Digits] /\ data \in Seq(Gc!Digits \X Gc!Digits)
      /\ Len(data) \in Nat /\ Len(data) <= MaxData
      /\ half \in Gc!Digits \cup {-1} /\ IdDigits \in Nat /\ IdDigits >= 1 /\ MaxData \in Nat
  BY GcConstants DEF GcTypes
<1>1. CASE Gc!parse_idle(c)
  <2>1. CASE c = Gc!Colon
    <3>1. state' = "TYPE" /\ id' = [i \in 1..IdDigits |-> 0] /\ data' = <<>> /\ half' = -1
      BY <1>1, <2>1 DEF Gc!parse_idle
    <3>2. id' \in [1..IdDigits -> Gc!Digits]
      BY <3>1 DEF Gc!Digits
    <3>3. <<>> \in Seq(Gc!Digits \X Gc!Digits) /\ Len(<<>>) <= MaxData
      BY <1>t
    <3>4. QED  BY <3>1, <3>2, <3>3
  <2>2. CASE c # Gc!Colon
    <3>1. UNCHANGED <<id, data, half>> /\ state' = "IDLE"
      BY <1>1, <2>2 DEF Gc!parse_idle, Gc!parser
    <3>2. QED  BY <1>t, <3>1
  <2>3. QED  BY <2>1, <2>2
<1>2. CASE Gc!parse_type(c)
  <2>1. UNCHANGED <<id, data, half>> /\ state' \in {"ID", "IDLE"}
    BY <1>2 DEF Gc!parse_type
  <2>2. QED  BY <1>t, <2>1
<1>3. CASE Gc!parse_id(c)
  <2>1. CASE c \in Gc!Digits
    <3>1. state' = "ID" /\ id' = Append(Tail(id), c) /\ UNCHANGED <<data, half>>
      BY <1>3, <2>1 DEF Gc!parse_id, Gc!Digit
    <3>2. id \in Seq(Gc!Digits) /\ Len(id) = IdDigits /\ id # <<>>
      BY <1>t
    <3>3. Tail(id) \in Seq(Gc!Digits) /\ Len(Tail(id)) = IdDigits - 1
      BY <1>t, <3>2
    <3>4. Append(Tail(id), c) \in Seq(Gc!Digits) /\ Len(Append(Tail(id), c)) = (IdDigits - 1) + 1
      BY <2>1, <3>3
    <3>5. (IdDigits - 1) + 1 = IdDigits
      BY <1>t
    <3>6. id' \in [1..IdDigits -> Gc!Digits]
      <4>1. PICK q \in Seq(Gc!Digits) : Len(q) = IdDigits /\ id' = q
        BY <3>1, <3>4, <3>5
      <4>2. q \in [1..Len(q) -> Gc!Digits]
        OBVIOUS
      <4>3. QED  BY <4>1, <4>2
    <3>7. QED  BY <1>t, <3>1, <3>6
  <2>2. CASE c \notin Gc!Digits
    <3>1. UNCHANGED <<id, data, half>> /\ state' \in {"DATA", "IDLE"}
      BY <1>3, <2>2 DEF Gc!parse_id, Gc!Digit
    <3>2. QED  BY <1>t, <3>1
  <2>3. QED  BY <2>1, <2>2
<1>4. CASE Gc!parse_data(c)
  <2>1. CASE c \in Gc!Digits /\ Len(data) < MaxData /\ half # -1
    <3>0. c # Gc!Semicolon
      BY <2>1 DEF Gc!Digits, Gc!Semicolon
    <3>1. state' = "DATA" /\ id' = id /\ half' = -1 /\ data' = Append(data, <<half, c>>)
      BY <1>4, <2>1, <3>0 DEF Gc!parse_data, Gc!Digit, Gc!Room, Gc!AfterDigit
    <3>2. <<half, c>> \in Gc!Digits \X Gc!Digits
      BY <1>t, <2>1
    <3>3. /\ Append(data, <<half, c>>) \in Seq(Gc!Digits \X Gc!Digits)
          /\ Len(Append(data, <<half, c>>)) = Len(data) + 1
      BY <1>t, <3>2
    <3>4. Len(data) + 1 <= MaxData
      BY <1>t, <2>1
    <3>5. QED  BY <1>t, <3>1, <3>3, <3>4
  <2>2. CASE ~(c \in Gc!Digits /\ Len(data) < MaxData /\ half # -1)
    <3>1. state' \in {"IDLE", "DATA"} /\ id' = id /\ data' = data
      BY <1>4, <2>2 DEF Gc!parse_data, Gc!Digit, Gc!Room, Gc!AfterDigit, Gc!StrayInData
    <3>2. half' \in {half, -1} \/ (c \in Gc!Digits /\ half' = c)
      BY <1>4, <2>2 DEF Gc!parse_data, Gc!Digit, Gc!Room
    <3>3. QED  BY <1>t, <3>1, <3>2
  <2>3. QED  BY <2>1, <2>2
<1>5. QED  BY <1>1, <1>2, <1>3, <1>4 DEF Gc!lcc_gc_parse_byte

LEMMA SameSeq ==
    ASSUME NEW S, NEW a \in Seq(S), NEW b \in Seq(S), Len(a) = Len(b),
           \A i \in 1..Len(a) : a[i] = b[i]
    PROVE  a = b
<1>1. a \in [1..Len(a) -> S] /\ b \in [1..Len(b) -> S]
  OBVIOUS
<1>2. b \in [1..Len(a) -> S]
  BY <1>1
<1>3. QED  BY ONLY <1>1, <1>2, \A i \in 1..Len(a) : a[i] = b[i]

LEMMA Prefix ==
    ASSUME NEW S, NEW a \in Seq(S), NEW m \in Nat, m < Len(a)
    PROVE  /\ SubSeq(a, 1, m) \in Seq(S) /\ Len(SubSeq(a, 1, m)) = m
           /\ \A i \in 1..m : SubSeq(a, 1, m)[i] = a[i]
<1>1. Len(a) \in Nat /\ a \in [1..Len(a) -> S]
  OBVIOUS
<1>2. SubSeq(a, 1, m) = [i \in 1..m |-> a[i]]
  OBVIOUS
<1>3. \A i \in 1..m : a[i] \in S
  BY <1>1
<1>4. QED  BY <1>2, <1>3

\* The parser takes a character that is not the last of its frame, and keeps step
\* or stays lost; a frame is complete at its ';', and is the frame sent.
LEMMA ParseStep ==
    ASSUME GcTypes, sent' = sent, NEW f \in Frames, NEW p \in Nat, NEW q, q = p + 1, q < Size(f),
           NEW c, c = Gc!lcc_gc_encode(f)[q], Parsed(f, p), Gc!lcc_gc_parse_byte(c)
    PROVE  /\ Parsed(f, q)'
           /\ \/ rx' = rx
              \/ q = Size(f) - 1 /\ rx' = Append(rx, [frame |-> Gc!Kept(f), at |-> Len(sent)])
<1> DEFINE n == Len(f.data)
           e == Gc!lcc_gc_encode(f)
           Kept == rx' = rx
<1>k. IdDigits \in Nat /\ IdDigits >= 1 /\ MaxData \in Nat
  BY GcConstants
<1>f. /\ f = [id |-> f.id, data |-> f.data] /\ f.id \in [1..IdDigits -> Gc!Digits] /\ f.id[1] \in {0, 1}
      /\ f.data \in Seq(Gc!Digits \X Gc!Digits) /\ n \in Nat
  BY FrameFields
<1>t. /\ state \in {"IDLE", "TYPE", "ID", "DATA"} /\ id \in [1..IdDigits -> Gc!Digits]
      /\ data \in Seq(Gc!Digits \X Gc!Digits) /\ Len(data) \in Nat /\ Len(data) <= MaxData
      /\ half \in Gc!Digits \cup {-1}
  BY DEF GcTypes
<1>0. Spelled(f, e)
  BY ONLY f \in Frames, Encoded, Zenon
<1>e. /\ e[1] = 16 /\ e[2] = 17
      /\ \A i \in 1..IdDigits : e[i + 2] = f.id[i]
      /\ e[IdDigits + 3] = 18
      /\ \A j \in 0..n - 1 : /\ e[IdDigits + 4 + 2 * j] = f.data[j + 1][1]
                             /\ e[IdDigits + 5 + 2 * j] = f.data[j + 1][2]
      /\ e[IdDigits + 4 + 2 * n] = 19
  BY ONLY <1>0, Zenon DEF Spelled
<1>z. Size(f) = IdDigits + 2 * n + 5
  BY DEF Size
<1>c. c = e[q]
  OBVIOUS
<1>d. \A j \in 0..n - 1 : /\ f.data[j + 1] \in Gc!Digits \X Gc!Digits
                          /\ f.data[j + 1][1] \in Gc!Digits /\ f.data[j + 1][2] \in Gc!Digits
                          /\ f.data[j + 1] = <<f.data[j + 1][1], f.data[j + 1][2]>>
  <2> SUFFICES ASSUME NEW j \in 0..n - 1, NEW y, y = f.data[j + 1]
               PROVE  y \in Gc!Digits \X Gc!Digits /\ y[1] \in Gc!Digits /\ y[2] \in Gc!Digits
                      /\ y = <<y[1], y[2]>>
    OBVIOUS
  <2>1. y \in Gc!Digits \X Gc!Digits
    BY <1>f
  <2>2. QED  BY <2>1
<1>w. Follows' <=> Follows
  BY DEF Follows
<1> HIDE DEF n, e
<1>1. CASE p = 0 /\ (Follows => state = "IDLE")
  <2>1. c = 16 /\ q = 1
    BY <1>1, <1>c, <1>e
  <2>2. CASE state = "IDLE"
    <3>1. state' = "TYPE" /\ data' = <<>> /\ half' = -1 /\ rx' = rx
      BY <2>1, <2>2 DEF Gc!lcc_gc_parse_byte, Gc!parse_idle, Gc!parse_type, Gc!parse_id, Gc!parse_data, Gc!Colon
    <3>2. QED  BY <2>1, <3>1 DEF Parsed
  <2>3. CASE state # "IDLE"
    <3>1. state' = "IDLE" /\ rx' = rx
      BY <1>t, <2>1, <2>3 DEF Gc!lcc_gc_parse_byte, Gc!parse_idle, Gc!parse_type, Gc!parse_id,
         Gc!parse_data, Gc!X, Gc!N, Gc!Digit, Gc!Digits, Gc!Semicolon, Gc!StrayInData
    <3>2. ~Follows'
      BY <1>1, <1>w, <2>3
    <3>3. QED  BY <2>1, <3>1, <3>2 DEF Parsed
  <2>4. QED  BY <2>2, <2>3
<1>2. CASE p >= 1 /\ state = "IDLE" /\ ~Follows
  <2>1. q \in 2..Size(f)
    BY <1>2, <1>f, <1>k, <1>z
  <2>2. c # 16
    BY <2>1, OneColon
  <2>3. state' = "IDLE" /\ rx' = rx
    BY <1>2, <2>2 DEF Gc!lcc_gc_parse_byte, Gc!parse_idle, Gc!parse_type, Gc!parse_id, Gc!parse_data,
       Gc!Colon, Gc!parser
  <2>4. q >= 1
    OBVIOUS
  <2>5. QED  BY <1>2, <1>w, <2>3, <2>4 DEF Parsed
<1>3. CASE p = 1 /\ state = "TYPE" /\ data = <<>> /\ half = -1
  <2>1. c = 17 /\ q = 0 + 2
    BY <1>3, <1>c, <1>e
  <2>2. state' = "ID" /\ data' = <<>> /\ half' = -1 /\ rx' = rx
    BY <1>3, <2>1 DEF Gc!lcc_gc_parse_byte, Gc!parse_idle, Gc!parse_type, Gc!parse_id, Gc!parse_data, Gc!X
  <2>3. 0 \in 0..IdDigits /\ Shifted(f, 0)'
    BY <1>k DEF Shifted
  <2>4. QED  BY <2>1, <2>2, <2>3 DEF Parsed
<1>4. ASSUME NEW i \in 0..IdDigits,
             p = i + 2 /\ state = "ID" /\ data = <<>> /\ half = -1 /\ Shifted(f, i)
      PROVE  Parsed(f, q)' /\ rx' = rx
  <2>1. CASE i < IdDigits
    <3>1. PICK l \in 1..IdDigits : l = i + 1 /\ q = l + 2
      BY <1>4, <1>k, <2>1
    <3>a. c = f.id[l]
      BY ONLY <1>c, <1>e, <3>1, Zenon
    <3>2. c = f.id[l] /\ c \in Gc!Digits
      BY ONLY <1>f, <3>1, <3>a
    <3>3. state' = "ID" /\ id' = Append(Tail(id), c) /\ data' = <<>> /\ half' = -1 /\ rx' = rx
      BY <1>4, <3>2 DEF Gc!lcc_gc_parse_byte, Gc!parse_idle, Gc!parse_type, Gc!parse_id, Gc!parse_data, Gc!Digit
    <3>4. ASSUME NEW m \in 1..l
          PROVE  id'[IdDigits - l + m] = f.id[m]
      <4>1. id \in Seq(Gc!Digits) /\ Len(id) = IdDigits /\ id # <<>>
        BY <1>k, <1>t
      <4>2. PICK r \in Seq(Gc!Digits) : /\ r = Tail(id) /\ Len(r) = IdDigits - 1
                                        /\ \A x \in 1..IdDigits - 1 : r[x] = id[x + 1]
        <5>1. Tail(id) \in Seq(Gc!Digits) /\ Len(Tail(id)) = IdDigits - 1
          BY <4>1
        <5>2. \A x \in 1..IdDigits - 1 : Tail(id)[x] = id[x + 1]
          BY <1>k, <4>1
        <5>3. QED  BY <5>1, <5>2
      <4>3. id' = Append(r, c) /\ id'[(IdDigits - 1) + 1] = c /\ \A x \in 1..IdDigits - 1 : id'[x] = r[x]
        BY <3>2, <3>3, <4>2
      <4>4. CASE m = l
        <5>1. IdDigits - l + m = (IdDigits - 1) + 1
          BY <1>k, <4>4
        <5>2. QED  BY <3>2, <4>3, <4>4, <5>1
      <4>5. CASE m # l
        <5>1. m \in 1..i /\ IdDigits - l + m \in 1..IdDigits - 1 /\ (IdDigits - l + m) + 1 = IdDigits - i + m
          BY <1>k, <3>1, <4>5
        <5>2. id'[IdDigits - l + m] = id[IdDigits - i + m]
          BY <4>2, <4>3, <5>1
        <5>3. QED  BY <1>4, <5>1, <5>2 DEF Shifted
      <4>6. QED  BY <4>4, <4>5
    <3>5. Shifted(f, l)'
      BY <3>4 DEF Shifted
    <3>6. l \in 0..IdDigits
      BY <3>1
    <3>7. QED  BY <3>1, <3>3, <3>5, <3>6 DEF Parsed
  <2>2. CASE i = IdDigits
    <3>1. q = IdDigits + 3 + 2 * 0 /\ q = IdDigits + 3
      BY <1>4, <1>k, <2>2
    <3>2. c = 18
      BY <1>c, <1>e, <3>1
    <3>3. state' = "DATA" /\ id' = id /\ data' = <<>> /\ half' = -1 /\ rx' = rx
      BY <1>4, <3>2 DEF Gc!lcc_gc_parse_byte, Gc!parse_idle, Gc!parse_type, Gc!parse_id, Gc!parse_data,
         Gc!Digit, Gc!Digits, Gc!N
    <3>4. id = f.id
      <4>1. \A m \in 1..IdDigits : IdDigits - IdDigits + m = m
        BY <1>k
      <4>2. \A m \in 1..IdDigits : id[m] = f.id[m]
        BY <1>4, <2>2, <4>1 DEF Shifted
      <4>3. id \in [1..IdDigits -> Gc!Digits] /\ f.id \in [1..IdDigits -> Gc!Digits]
        BY <1>t, <1>f
      <4>4. QED  BY ONLY <1>k, <4>2, <4>3
    <3>5. Holds(f, 0)'
      BY <1>k, <3>3 DEF Holds
    <3>6. 0 \in 0..Len(f.data)
      BY <1>f DEF n
    <3>7. QED  BY <3>1, <3>3, <3>4, <3>5, <3>6 DEF Parsed
  <2>3. QED  BY <1>k, <2>1, <2>2
<1>5. ASSUME NEW j \in 0..n,
             p = IdDigits + 3 + 2 * j /\ state = "DATA" /\ id = f.id /\ half = -1 /\ Holds(f, j)
      PROVE  /\ Parsed(f, q)'
             /\ \/ rx' = rx
                \/ q = Size(f) - 1 /\ rx' = Append(rx, [frame |-> Gc!Kept(f), at |-> Len(sent)])
  <2>h. Len(data) = (IF j <= MaxData THEN j ELSE MaxData) /\ \A i \in 1..Len(data) : data[i] = f.data[i]
    BY <1>5 DEF Holds
  <2>1. CASE j < n
    <3>1. q = IdDigits + 4 + 2 * j /\ j \in 0..n - 1
      BY <1>5, <1>f, <1>k, <2>1
    <3>2. c = f.data[j + 1][1] /\ c \in Gc!Digits /\ c # 19
      BY <1>c, <1>d, <1>e, <3>1 DEF Gc!Digits
    <3>3. state' = "DATA" /\ id' = id /\ data' = data /\ rx' = rx
          /\ half' = IF Len(data) < MaxData THEN c ELSE -1
      BY <1>5, <3>2 DEF Gc!lcc_gc_parse_byte, Gc!parse_idle, Gc!parse_type, Gc!parse_id, Gc!parse_data,
         Gc!Digit, Gc!Semicolon, Gc!Room, Gc!AfterDigit
    <3>4. Len(data) < MaxData <=> j < MaxData
      BY <1>k, <2>h
    <3>5. Holds(f, j)'
      BY <2>h, <3>3 DEF Holds
    <3>6. half' = IF j < MaxData THEN f.data[j + 1][1] ELSE -1
      BY <3>2, <3>3, <3>4
    <3>7. QED  BY <1>5, <3>1, <3>3, <3>5, <3>6 DEF Parsed, n
  <2>2. CASE j = n
    <3>1. q = IdDigits + 4 + 2 * n /\ q = Size(f) - 1
      BY <1>5, <1>f, <1>k, <1>z, <2>2
    <3>2. c = 19
      BY <1>c, <1>e, <3>1
    <3>3. /\ state' = "IDLE"
          /\ rx' = Append(rx, [frame |-> [id |-> [id EXCEPT ![1] = id[1] % 2], data |-> data],
                               at |-> Len(sent)])
      BY <1>5, <3>2 DEF Gc!lcc_gc_parse_byte, Gc!parse_idle, Gc!parse_type, Gc!parse_id, Gc!parse_data,
         Gc!Semicolon
    <3>4. [id EXCEPT ![1] = id[1] % 2] = f.id
      <4>1. id = f.id /\ id[1] % 2 = id[1]
        BY <1>5, <1>f
      <4>2. QED  BY <1>f, <4>1
    <3>5. data = IF n > MaxData THEN SubSeq(f.data, 1, MaxData) ELSE f.data
      <4>1. CASE n > MaxData
        <5>1. PICK r \in Seq(Gc!Digits \X Gc!Digits) :
                 r = SubSeq(f.data, 1, MaxData) /\ Len(r) = MaxData /\ \A i \in 1..MaxData : r[i] = f.data[i]
          <6>1. f.data \in Seq(Gc!Digits \X Gc!Digits) /\ MaxData \in Nat /\ MaxData < Len(f.data)
            BY <1>f, <1>k, <4>1 DEF n
          <6>2. /\ SubSeq(f.data, 1, MaxData) \in Seq(Gc!Digits \X Gc!Digits)
                /\ Len(SubSeq(f.data, 1, MaxData)) = MaxData
                /\ \A i \in 1..MaxData : SubSeq(f.data, 1, MaxData)[i] = f.data[i]
            BY ONLY <6>1, Prefix
          <6>3. QED  BY <6>2
        <5>2. Len(data) = Len(r) /\ \A i \in 1..Len(r) : data[i] = r[i]
          BY <1>k, <2>2, <2>h, <4>1, <5>1
        <5>3. data = r
          BY <1>t, <5>2, SameSeq
        <5>4. QED  BY <4>1, <5>1, <5>3
      <4>2. CASE ~(n > MaxData)
        <5>1. Len(data) = n
          BY <1>f, <1>k, <2>2, <2>h, <4>2
        <5>2. data = f.data
          <6>1. data \in Seq(Gc!Digits \X Gc!Digits) /\ f.data \in Seq(Gc!Digits \X Gc!Digits)
            BY <1>f, <1>t
          <6>2. Len(data) = Len(f.data) /\ \A i \in 1..Len(data) : data[i] = f.data[i]
            BY <2>h, <5>1 DEF n
          <6>3. QED  BY <6>1, <6>2, SameSeq
        <5>3. QED  BY <4>2, <5>2
      <4>3. QED  BY <4>1, <4>2
    <3>6. Gc!Kept(f) = [id |-> f.id, data |-> data]
      <4>1. Gc!Kept(f) = [f EXCEPT !.data = IF n > MaxData THEN SubSeq(f.data, 1, MaxData) ELSE f.data]
        BY DEF Gc!Kept, n
      <4>2. Gc!Kept(f) = [f EXCEPT !.data = data]
        BY <3>5, <4>1
      <4>3. PICK x, y : f = [id |-> x, data |-> y]
        BY <1>f
      <4>4. QED  BY <4>2, <4>3
    <3>7. rx' = Append(rx, [frame |-> Gc!Kept(f), at |-> Len(sent)])
      BY <3>3, <3>4, <3>6
    <3>8. \E i \in 1..Len(rx') : rx'[i].at = Len(sent')
      <4>1. rx \in Seq(Parses)
        BY DEF GcTypes
      <4> DEFINE y == [frame |-> Gc!Kept(f), at |-> Len(sent)]
      <4>2. y.at = Len(sent')
        OBVIOUS
      <4> HIDE DEF y
      <4>3. rx' = Append(rx, y)
        BY <3>7 DEF y
      <4>4. Len(rx) + 1 \in 1..Len(rx') /\ rx'[Len(rx) + 1] = y
        BY <4>1, <4>3
      <4>5. QED  BY <4>2, <4>4
    <3>9. Parsed(f, q)'
      <4>1. q = Size(f)' - 1
        BY <3>1 DEF Size
      <4>2. QED  BY <3>3, <3>8, <4>1 DEF Parsed
    <3>10. QED  BY <3>1, <3>7, <3>9
  <2>3. QED  BY <1>f, <2>1, <2>2
<1>6. ASSUME NEW j \in 0..n - 1,
             /\ p = IdDigits + 4 + 2 * j /\ state = "DATA" /\ id = f.id /\ Holds(f, j)
             /\ half = IF j < MaxData THEN f.data[j + 1][1] ELSE -1
      PROVE  Parsed(f, q)' /\ rx' = rx
  <2>h. Len(data) = (IF j <= MaxData THEN j ELSE MaxData) /\ \A i \in 1..Len(data) : data[i] = f.data[i]
    BY <1>6 DEF Holds
  <2>1. PICK l \in 0..n : l = j + 1 /\ q = IdDigits + 5 + 2 * j /\ q = IdDigits + 3 + 2 * l
    <3>1. n \in Nat /\ j \in Nat /\ j < n
      BY <1>f
    <3>2. j + 1 \in 0..n
      BY ONLY <3>1
    <3>3. q = IdDigits + 5 + 2 * j /\ q = IdDigits + 3 + 2 * (j + 1)
      BY <1>6, <1>k, <3>1
    <3>4. QED  BY <3>2, <3>3
  <2>2. c = f.data[j + 1][2] /\ c \in Gc!Digits /\ c # 19
    BY <1>c, <1>d, <1>e, <2>1 DEF Gc!Digits
  <2>3. CASE j < MaxData
    <3>1. half = f.data[j + 1][1] /\ half # -1 /\ Len(data) = j /\ Len(data) < MaxData
      <4>1. half = f.data[j + 1][1]
        BY <1>6, <2>3
      <4>2. half \in 0..15
        BY <1>d, <4>1 DEF Gc!Digits
      <4>3. Len(data) = j
        BY <1>k, <2>3, <2>h
      <4>4. \A x \in 0..15 : x # -1
        OBVIOUS
      <4>5. half # -1
        BY ONLY <4>2, <4>4
      <4>6. QED  BY ONLY <2>3, <4>1, <4>3, <4>5
    <3>2. state' = "DATA" /\ id' = id /\ rx' = rx /\ half' = -1 /\ data' = Append(data, <<half, c>>)
      BY <1>6, <2>2, <3>1 DEF Gc!lcc_gc_parse_byte, Gc!parse_idle, Gc!parse_type, Gc!parse_id, Gc!parse_data,
         Gc!Digit, Gc!Semicolon, Gc!Room, Gc!AfterDigit
    <3>3. <<half, c>> = f.data[j + 1] /\ <<half, c>> \in Gc!Digits \X Gc!Digits
      BY <1>d, <2>2, <3>1
    <3>4. PICK y \in Gc!Digits \X Gc!Digits : y = f.data[l] /\ data' = Append(data, y)
      BY <2>1, <3>2, <3>3
    <3>5. Len(data') = l /\ data'[l] = y /\ \A i \in 1..j : data'[i] = data[i]
      BY <1>t, <2>1, <3>1, <3>4
    <3>6. l <= MaxData /\ \A i \in 1..l : i \in 1..j \/ i = l
      BY <1>k, <2>1, <2>3
    <3>7. \A i \in 1..l : data'[i] = f.data[i]
      BY <2>h, <3>1, <3>4, <3>5, <3>6
    <3>8. Holds(f, l)'
      BY <3>5, <3>6, <3>7 DEF Holds
    <3>9. QED  BY <1>6, <2>1, <3>2, <3>8 DEF Parsed, n
  <2>4. CASE ~(j < MaxData)
    <3>1. half = -1 /\ Len(data) = MaxData /\ ~(l <= MaxData)
      BY <1>6, <1>k, <2>1, <2>h, <2>4
    <3>2. state' = "DATA" /\ id' = id /\ rx' = rx /\ half' = -1 /\ data' = data
      BY <1>6, <1>k, <2>2, <3>1 DEF Gc!lcc_gc_parse_byte, Gc!parse_idle, Gc!parse_type, Gc!parse_id,
         Gc!parse_data, Gc!Digit, Gc!Semicolon, Gc!Room, Gc!AfterDigit
    <3>3. Holds(f, l)'
      BY <2>h, <3>1, <3>2 DEF Holds
    <3>4. QED  BY <1>6, <2>1, <3>2, <3>3 DEF Parsed, n
  <2>5. QED  BY <2>3, <2>4
<1>7. p # Size(f) - 1
  BY <1>f, <1>k, <1>z
<1>8. QED  BY <1>1, <1>2, <1>3, <1>4, <1>5, <1>6, <1>7 DEF Parsed, n

LEMMA GcFields ==
    ASSUME GcTypes
    PROVE  /\ Len(sent) \in Nat /\ Len(rx) \in Nat /\ (sent # <<>> <=> Len(sent) >= 1)
           /\ \A k \in 1..Len(sent) : sent[k].frame \in Frames /\ sent[k].cut \in BOOLEAN
<1>1. sent \in Seq(Sends) /\ rx \in Seq(Parses)
  BY DEF GcTypes
<1>2. Len(sent) \in Nat /\ Len(rx) \in Nat /\ (sent # <<>> <=> Len(sent) >= 1)
  BY <1>1
<1>3. ASSUME NEW k \in 1..Len(sent)
      PROVE  sent[k] \in Sends
  BY <1>1
<1>4. QED  BY <1>2, <1>3 DEF Sends

\* The host starts a frame.
LEMMA StartStep ==
    ASSUME GcInv, NEW f \in Frames, Gc!start(f)
    PROVE  GcInv'
<1> DEFINE L == Len(sent)
           y == [frame |-> f, cut |-> FALSE]
<1>1. /\ wire = <<>> /\ wire' = Gc!lcc_gc_encode(f) /\ sent' = Append(sent, y)
      /\ UNCHANGED <<state, id, data, half, rx>>
  BY DEF Gc!start, Gc!parser
<1>t. GcTypes /\ OnWire /\ ParsedOnce /\ Gc!RecoversInOneFrame
  BY DEF GcInv
<1>y. y \in Sends /\ y.frame = f /\ y.cut = FALSE
  BY DEF Sends
<1> HIDE DEF y
<1>2. /\ L \in Nat /\ sent' \in Seq(Sends) /\ Len(sent') = L + 1
      /\ sent'[L + 1] = y
  BY <1>t, <1>1, <1>y DEF GcTypes
<1>s. \A k \in 1..L : sent'[k] = sent[k]
  BY <1>t, <1>1, <1>y DEF GcTypes
<1>3. /\ wire' \in Seq(Nat) /\ Len(wire') = Size(f) /\ Size(f) \in Nat /\ Size(f) >= 5
  <2>1. Size(f) \in Nat /\ Size(f) >= 5
    BY FrameFields, GcConstants DEF Size
  <2>2. Spelled(f, wire')
    BY <1>1, Encoded
  <2>3. QED  BY <2>1, <2>2 DEF Spelled
<1>w. wire' # <<>>
  BY <1>3
<1>4. GcTypes'
  BY <1>t, <1>1, <1>2, <1>3 DEF GcTypes
<1>5. OnWire'
  <2>1. sent' # <<>> /\ ~sent'[Len(sent')].cut /\ f = sent'[Len(sent')].frame
    BY <1>2, <1>y
  <2>2. Rest(f, 0)'
    <3>1. Size(f)' = Size(f) /\ Gc!lcc_gc_encode(f)' = Gc!lcc_gc_encode(f)
      BY DEF Size, Gc!lcc_gc_encode, Gc!hex_digits
    <3>2. Len(wire') + 0 = Size(f) /\ \A i \in 1..Len(wire') : 0 + i = i
      BY <1>3
    <3>3. QED  BY <1>1, <3>1, <3>2 DEF Rest
  <2>3. Parsed(f, 0)'
    <3>1. Follows' => state = "IDLE"
      <4>1. CASE sent = <<>>
        BY <1>1, <1>t, <4>1 DEF OnWire
      <4>2. CASE sent # <<>>
        <5>1. L >= 1 /\ L \in 1..L /\ Len(sent') - 1 = L /\ Len(sent') # 1
          BY <1>2, <1>t, <4>2, GcFields
        <5>2. Follows' => ~sent[L].cut
          BY <1>s, <5>1 DEF Follows
        <5>3. QED  BY <1>1, <1>t, <5>2 DEF OnWire
      <4>3. QED  BY <4>1, <4>2
    <3>2. QED  BY <1>1, <3>1 DEF Parsed
  <2>4. QED  BY <1>w, <2>1, <2>2, <2>3 DEF OnWire
<1>6. ParsedOnce'
  <2>1. \A i \in 1..Len(rx) : rx[i].at \in 1..L
    BY <1>t DEF ParsedOnce
  <2>2. \A k \in 1..L : k \in 1..L + 1 /\ k # L + 1
    BY <1>2
  <2>3. Gc!OnlySentFrames'
    <3>1. \A i \in 1..Len(rx) : rx[i].frame = Gc!Kept(sent'[rx[i].at].frame)
      BY <1>s, <1>t, <2>1 DEF ParsedOnce, Gc!OnlySentFrames
    <3>2. QED  BY <1>1, <1>t, <3>1 DEF ParsedOnce, Gc!OnlySentFrames, Gc!Kept
  <2>4. QED  BY <1>1, <1>2, <2>1, <2>2, <2>3 DEF ParsedOnce
<1>7. Gc!RecoversInOneFrame'
  <2> SUFFICES ASSUME NEW k \in 1..L + 1, Gc!Whole(k)', k = 1 \/ Gc!Whole(k - 1)'
               PROVE  \E i \in 1..Len(rx) : rx[i].at = k
    BY <1>1, <1>2 DEF Gc!RecoversInOneFrame
  <2>1. k \in 1..L /\ ~sent'[k].cut
    BY <1>2, <1>w DEF Gc!Whole
  <2>2. Gc!Whole(k)
    BY <1>1, <1>s, <2>1 DEF Gc!Whole
  <2>3. k = 1 \/ Gc!Whole(k - 1)
    <3> SUFFICES ASSUME k # 1 PROVE Gc!Whole(k - 1)
      OBVIOUS
    <3>1. k - 1 \in 1..L
      BY <1>2, <2>1
    <3>2. ~sent'[k - 1].cut
      BY DEF Gc!Whole
    <3>3. QED  BY <1>1, <1>s, <3>1, <3>2 DEF Gc!Whole
  <2>4. QED  BY <1>t, <2>1, <2>2, <2>3 DEF Gc!RecoversInOneFrame
<1>8. QED  BY <1>4, <1>5, <1>6, <1>7 DEF GcInv

\* The host breaks off the frame it is sending, before its last character.
LEMMA BreakStep ==
    ASSUME GcInv, Gc!break_off
    PROVE  GcInv'
<1> DEFINE L == Len(sent)
           y == [sent[L] EXCEPT !.cut = TRUE]
<1>1. Len(wire) > 1 /\ wire' = <<>> /\ UNCHANGED <<state, id, data, half, rx>>
  BY DEF Gc!break_off, Gc!parser
<1>t. GcTypes /\ OnWire /\ ParsedOnce /\ Gc!RecoversInOneFrame
  BY DEF GcInv
<1>w. wire # <<>> /\ wire \in Seq(Nat)
  BY <1>1, <1>t DEF GcTypes
<1>L. L \in Nat /\ L >= 1 /\ L \in 1..L
  BY <1>t, <1>w, GcFields DEF OnWire
<1>x. sent[L] \in Sends
  BY <1>t, <1>L DEF GcTypes
<1>y. y \in Sends /\ y.frame = sent[L].frame /\ y.cut = TRUE
  BY <1>x DEF Sends
<1>2. sent' = [sent EXCEPT ![L] = y]
  BY DEF Gc!break_off
<1> HIDE DEF y
<1>3. /\ sent' \in Seq(Sends) /\ Len(sent') = L /\ sent'[L] = y
      /\ \A k \in 1..L : k # L => sent'[k] = sent[k]
  BY <1>2, <1>t, <1>y, <1>L DEF GcTypes
<1>f. \A k \in 1..L : sent'[k].frame = sent[k].frame
  BY <1>3, <1>y
<1>c. \A k \in 1..L : ~sent'[k].cut => k # L /\ ~sent[k].cut
  BY <1>3, <1>y
<1>4. GcTypes'
  BY <1>t, <1>1, <1>3 DEF GcTypes
<1>5. OnWire'
  BY <1>1, <1>3, <1>y, <1>L, <1>4, GcFields DEF OnWire, GcTypes
<1>6. ParsedOnce'
  <2>1. \A i \in 1..Len(rx) : rx[i].at \in 1..L
    BY <1>t DEF ParsedOnce
  <2>2. Gc!OnlySentFrames'
    <3>1. \A i \in 1..Len(rx) : rx[i].frame = Gc!Kept(sent'[rx[i].at].frame)
      BY <1>f, <1>t, <2>1 DEF ParsedOnce, Gc!OnlySentFrames
    <3>2. QED  BY <1>1, <1>t, <3>1 DEF ParsedOnce, Gc!OnlySentFrames, Gc!Kept
  <2>3. Len(wire') <= 1
    BY <1>1
  <2>4. QED  BY <1>1, <1>3, <2>1, <2>2, <2>3 DEF ParsedOnce
<1>7. Gc!RecoversInOneFrame'
  <2> SUFFICES ASSUME NEW k \in 1..L, Gc!Whole(k)', k = 1 \/ Gc!Whole(k - 1)'
               PROVE  \E i \in 1..Len(rx) : rx[i].at = k
    BY <1>1, <1>3 DEF Gc!RecoversInOneFrame
  <2>1. k # L /\ ~sent[k].cut
    BY <1>c DEF Gc!Whole
  <2>2. Gc!Whole(k)
    BY <1>L, <2>1 DEF Gc!Whole
  <2>3. k = 1 \/ Gc!Whole(k - 1)
    <3> SUFFICES ASSUME k # 1 PROVE Gc!Whole(k - 1)
      OBVIOUS
    <3>1. k - 1 \in 1..L /\ k - 1 < L
      BY <1>L
    <3>2. ~sent[k - 1].cut
      BY <1>c, <3>1 DEF Gc!Whole
    <3>3. QED  BY <3>1, <3>2 DEF Gc!Whole
  <2>4. QED  BY <1>t, <2>2, <2>3 DEF Gc!RecoversInOneFrame
<1>8. QED  BY <1>4, <1>5, <1>6, <1>7 DEF GcInv

\* A parser that has all of a frame but its newline is idle, and has the frame or
\* lost it to the broken one before it.
LEMMA AtTheEnd ==
    ASSUME NEW f \in Frames, NEW p \in Nat, p = Size(f) - 1, Parsed(f, p)
    PROVE  state = "IDLE" /\ (~Follows \/ \E i \in 1..Len(rx) : rx[i].at = Len(sent))
<1>1. IdDigits \in Nat /\ IdDigits >= 1 /\ Len(f.data) \in Nat
  BY GcConstants, FrameFields
<1>2. p = IdDigits + 2 * Len(f.data) + 4
  BY <1>1 DEF Size
<1>3. p # 0 /\ p # 1 /\ \A i \in 0..IdDigits : p # i + 2
  BY <1>1, <1>2
<1>4. \A j \in 0..Len(f.data) : p # IdDigits + 3 + 2 * j
  BY <1>1, <1>2
<1>5. \A j \in 0..Len(f.data) - 1 : p # IdDigits + 4 + 2 * j
  BY <1>1, <1>2
<1>6. QED  BY <1>3, <1>4, <1>5 DEF Parsed

\* The parser takes a character.
LEMMA ByteStep ==
    ASSUME GcInv, Gc!lcc_if_on_rx_byte
    PROVE  GcInv'
<1> DEFINE L == Len(sent)
           c == Head(wire)
<1>1. wire # <<>> /\ wire' = Tail(wire) /\ sent' = sent /\ Gc!lcc_gc_parse_byte(c)
  BY DEF Gc!lcc_if_on_rx_byte
<1>t. GcTypes /\ OnWire /\ ParsedOnce /\ Gc!RecoversInOneFrame
  BY DEF GcInv
<1>2. PICK f \in Frames, p \in Nat : f = sent[L].frame /\ Rest(f, p) /\ Parsed(f, p)
  BY <1>1, <1>t DEF OnWire
<1>3. PICK q \in Nat : q = p + 1
  OBVIOUS
<1>r. /\ c = Gc!lcc_gc_encode(f)[q]
      /\ wire' \in Seq(Nat) /\ Len(wire') = Len(wire) - 1 /\ Len(wire) \in Nat /\ Len(wire) >= 1
      /\ Len(wire) = 1 => wire' = <<>>
      /\ Rest(f, q)'
  <2>1. /\ Head(wire) = Gc!lcc_gc_encode(f)[p + 1]
        /\ wire' \in Seq(Nat) /\ Len(wire') = Len(wire) - 1 /\ Len(wire) \in Nat /\ Len(wire) >= 1
        /\ Len(wire) = 1 => wire' = <<>>
        /\ Rest(f, p + 1)'
    BY <1>1, <1>2, <1>t, RestStep
  <2>2. Rest(f, q)'
    BY <1>3, <2>1 DEF Rest
  <2>3. QED  BY <1>3, <2>1, <2>2
<1>p. Len(wire) + p = Size(f)
  BY <1>2 DEF Rest
<1>L. L \in Nat /\ L >= 1 /\ L \in 1..L /\ ~sent[L].cut /\ Len(rx) \in Nat
  BY <1>1, <1>t, GcFields DEF OnWire
<1>c. c \in Nat
  BY <1>1, <1>t DEF GcTypes
<1> HIDE DEF c
<1>s. /\ state' \in {"IDLE", "TYPE", "ID", "DATA"}
      /\ id' \in [1..IdDigits -> Gc!Digits]
      /\ data' \in Seq(Gc!Digits \X Gc!Digits) /\ Len(data') <= MaxData
      /\ half' \in Gc!Digits \cup {-1}
  BY <1>1, <1>c, <1>t, ParseTypes
<1>w. ASSUME rx' \in Seq(Parses)
      PROVE  GcTypes'
  BY <1>1, <1>r, <1>s, <1>t, <1>w DEF GcTypes
<1>k. rx \in Seq(Parses)
  BY <1>t DEF GcTypes
\* What is parsed stays, while rx stays.
<1>o. ASSUME rx' = rx
      PROVE  ParsedOnce'
  <2>1. \A i \in 1..Len(rx) : rx[i].at \in 1..L /\ (rx[i].at = L => Len(wire') <= 1)
    BY <1>r, <1>t DEF ParsedOnce
  <2>2. Gc!OnlySentFrames'
    BY <1>1, <1>o, <1>t DEF ParsedOnce, Gc!OnlySentFrames, Gc!Kept
  <2>3. QED  BY <1>1, <1>o, <2>1, <2>2 DEF ParsedOnce
\* Of the frames before the last, nothing changes.
<1>b. ASSUME NEW k \in 1..L, k # L
      PROVE  /\ Gc!Whole(k)' => Gc!Whole(k)
             /\ k # 1 /\ Gc!Whole(k - 1)' => Gc!Whole(k - 1)
  <2>1. k < L /\ k - 1 < L
    BY <1>L, <1>b
  <2>2. QED  BY <1>1, <2>1 DEF Gc!Whole
<1>4. CASE Len(wire) = 1
  <2>1. p = Size(f) - 1 /\ wire' = <<>>
    BY <1>p, <1>r, <1>4
  <2>2. state = "IDLE" /\ (~Follows \/ \E i \in 1..Len(rx) : rx[i].at = L)
    BY <1>2, <2>1, AtTheEnd
  <2>z. Size(f) \in Nat /\ Size(f) >= 5
    BY FrameFields, GcConstants DEF Size
  <2>3. c # 16
    <3>1. q \in 2..Size(f)
      BY <1>3, <2>1, <2>z
    <3>2. QED  BY <1>r, <3>1, OneColon
  <2>4. state' = "IDLE" /\ rx' = rx
    BY <1>1, <2>2, <2>3 DEF Gc!lcc_gc_parse_byte, Gc!parse_idle, Gc!parse_type, Gc!parse_id, Gc!parse_data,
       Gc!Colon, Gc!parser
  <2>5. OnWire'
    BY <2>1, <2>4 DEF OnWire
  <2>6. Gc!RecoversInOneFrame'
    <3> SUFFICES ASSUME NEW k \in 1..L, Gc!Whole(k)', k = 1 \/ Gc!Whole(k - 1)'
                 PROVE  \E i \in 1..Len(rx) : rx[i].at = k
      BY <1>1, <2>4 DEF Gc!RecoversInOneFrame
    <3>1. CASE k # L
      BY <1>b, <1>t, <3>1 DEF Gc!RecoversInOneFrame
    <3>2. CASE k = L
      <4>1. Follows
        BY <1>1, <3>2 DEF Follows, Gc!Whole
      <4>2. QED  BY <2>2, <3>2, <4>1
    <3>3. QED  BY <3>1, <3>2
  <2>7. QED  BY <1>k, <1>o, <1>w, <2>4, <2>5, <2>6 DEF GcInv
<1>5. CASE Len(wire) > 1
  <2>1. q < Size(f) /\ Len(wire') >= 1
    BY <1>3, <1>5, <1>p, <1>r
  <2>2. wire' # <<>>
    BY <2>1
  <2>3. /\ Parsed(f, q)'
        /\ \/ rx' = rx
           \/ q = Size(f) - 1 /\ rx' = Append(rx, [frame |-> Gc!Kept(f), at |-> L])
    BY <1>1, <1>2, <1>3, <1>r, <1>t, <2>1, ParseStep
  <2>4. OnWire'
    BY <1>1, <1>2, <1>L, <1>r, <1>t, <2>2, <2>3, GcFields DEF OnWire
  <2>5. ASSUME \A i \in 1..Len(rx) : i \in 1..Len(rx') /\ rx'[i] = rx[i]
        PROVE  Gc!RecoversInOneFrame'
    <3> SUFFICES ASSUME NEW k \in 1..L, Gc!Whole(k)', k = 1 \/ Gc!Whole(k - 1)'
                 PROVE  \E i \in 1..Len(rx') : rx'[i].at = k
      BY <1>1 DEF Gc!RecoversInOneFrame
    <3>1. k # L
      BY <1>1, <2>2 DEF Gc!Whole
    <3>2. \E i \in 1..Len(rx) : rx[i].at = k
      BY <1>b, <1>t, <3>1 DEF Gc!RecoversInOneFrame
    <3>3. QED  BY <2>5, <3>2
  <2>6. CASE rx' = rx
    BY <1>k, <1>o, <1>w, <2>4, <2>5, <2>6 DEF GcInv
  <2>7. CASE q = Size(f) - 1 /\ rx' = Append(rx, [frame |-> Gc!Kept(f), at |-> L])
    <3> DEFINE y == [frame |-> Gc!Kept(f), at |-> L]
    <3>1. y \in Parses /\ y.frame = Gc!Kept(f) /\ y.at = L
      <4>1. PICK u \in [1..IdDigits -> Gc!Digits], v \in Seq(Gc!Digits \X Gc!Digits) :
               f = [id |-> u, data |-> v]
        BY FrameFields
      <4>2. PICK w \in Seq(Gc!Digits \X Gc!Digits) : Gc!Kept(f) = [id |-> u, data |-> w]
        <5> DEFINE w == IF Len(v) > MaxData THEN SubSeq(v, 1, MaxData) ELSE v
        <5>1. Gc!Kept(f) = [f EXCEPT !.data = w]
          BY <4>1 DEF Gc!Kept
        <5>2. w \in Seq(Gc!Digits \X Gc!Digits)
          BY GcConstants, Prefix
        <5> HIDE DEF w
        <5>3. Gc!Kept(f) = [id |-> u, data |-> w]
          BY <4>1, <5>1
        <5>4. QED  BY <5>2, <5>3
      <4>3. QED  BY <1>L, <4>2 DEF Parses
    <3> HIDE DEF y
    <3>2. rx' = Append(rx, y)
      BY <2>7 DEF y
    <3>3. /\ rx' \in Seq(Parses) /\ Len(rx') = Len(rx) + 1 /\ rx'[Len(rx) + 1] = y
          /\ \A i \in 1..Len(rx) : rx'[i] = rx[i]
      BY <1>k, <3>1, <3>2
    <3>i. /\ \A i \in 1..Len(rx) : i \in 1..Len(rx') /\ i # Len(rx) + 1
          /\ \A i \in 1..Len(rx') : i \in 1..Len(rx) \/ i = Len(rx) + 1
      BY <1>L, <3>3
    <3>4. \A i \in 1..Len(rx) : rx[i].at \in 1..L /\ rx[i].at # L
      BY <1>5, <1>r, <1>t DEF ParsedOnce
    <3>5. Len(wire') <= 1
      BY <1>3, <1>p, <1>r, <2>7
    <3>6. \A i \in 1..Len(rx') : rx'[i].at \in 1..L
      BY <1>L, <3>1, <3>3, <3>4, <3>i
    <3>7. \A i \in 1..Len(rx') : rx'[i].frame = Gc!Kept(sent[rx'[i].at].frame)
      BY <1>2, <1>t, <3>1, <3>3, <3>i DEF ParsedOnce, Gc!OnlySentFrames
    <3>8. \A i, j \in 1..Len(rx') : i # j => rx'[i].at # rx'[j].at
      BY <1>t, <3>1, <3>3, <3>4, <3>i DEF ParsedOnce, Gc!OnlySentFrames
    <3>9. ParsedOnce'
      BY <1>1, <3>5, <3>6, <3>7, <3>8 DEF ParsedOnce, Gc!OnlySentFrames, Gc!Kept
    <3>10. QED  BY <1>w, <2>4, <2>5, <3>3, <3>9, <3>i DEF GcInv
  <2>8. QED  BY <2>3, <2>6, <2>7
<1>6. QED  BY <1>r, <1>4, <1>5

LEMMA GcInit == Gc!Init => GcInv
<1> SUFFICES ASSUME Gc!Init PROVE GcInv
  OBVIOUS
<1>1. /\ state = "IDLE" /\ id = [i \in 1..IdDigits |-> 0] /\ data = <<>> /\ half = -1
      /\ wire = <<>> /\ sent = <<>> /\ rx = <<>>
  BY DEF Gc!Init
<1>2. GcTypes
  <2>1. id \in [1..IdDigits -> Gc!Digits]
    BY <1>1 DEF Gc!Digits
  <2>2. Len(<<>>) <= MaxData
    BY GcConstants
  <2>3. QED  BY <1>1, <2>1, <2>2 DEF GcTypes
<1>3. OnWire
  BY <1>1 DEF OnWire
<1>4. ParsedOnce /\ Gc!RecoversInOneFrame
  BY <1>1 DEF ParsedOnce, Gc!OnlySentFrames, Gc!RecoversInOneFrame
<1>5. QED  BY <1>2, <1>3, <1>4 DEF GcInv

LEMMA GcStep ==
    ASSUME GcInv, Gc!Next \/ UNCHANGED gc_vars
    PROVE  GcInv'
<1>1. CASE UNCHANGED gc_vars
  <2>1. UNCHANGED <<state, id, data, half, wire, sent, rx>>
    BY <1>1 DEF gc_vars
  <2>2. GcTypes' /\ ParsedOnce' /\ Gc!RecoversInOneFrame'
    BY <2>1 DEF GcInv, GcTypes, ParsedOnce, Gc!OnlySentFrames, Gc!Kept, Gc!RecoversInOneFrame, Gc!Whole
  <2>3. ASSUME NEW f \in Frames, NEW p \in Nat, Rest(f, p), Parsed(f, p)
        PROVE  Rest(f, p)' /\ Parsed(f, p)'
    <3>1. Rest(f, p)'
      BY <2>1, <2>3 DEF Rest, Size, Gc!lcc_gc_encode, Gc!hex_digits
    <3>2. Parsed(f, p)'
      BY <2>1, <2>3 DEF Parsed, Follows, Holds, Shifted, Size
    <3>3. QED  BY <3>1, <3>2
  <2>4. OnWire'
    BY <2>1, <2>3 DEF GcInv, OnWire
  <2>5. QED  BY <2>2, <2>4 DEF GcInv
<1>2. CASE Gc!Next
  BY <1>2, StartStep, ByteStep, BreakStep DEF Gc!Next
<1>3. QED  BY <1>1, <1>2

LEMMA GcResults == GcInv => Gc!TypeOK /\ Gc!OnlySentFrames /\ Gc!RecoversInOneFrame
<1> SUFFICES ASSUME GcInv PROVE Gc!TypeOK /\ Gc!OnlySentFrames /\ Gc!RecoversInOneFrame
  OBVIOUS
<1>1. Gc!TypeOK
  BY GcFields DEF GcInv, GcTypes, Gc!TypeOK
<1>2. QED  BY <1>1 DEF GcInv, ParsedOnce

-----------------------------------------------------------------------------

\* What a transport delivers was sent: every frame the CAN controller latched is
\* handed over once, a frame given to it for sending has exactly one fate, and the
\* text parser makes up no frame and recovers within one frame of a broken one, for
\* any number of digits and data bytes, any frames and any cuts.
THEOREM FramesTrue == Spec => []FramesAreTrue
<1>1. Init => McpInv /\ GcInv
  BY McpInit, GcInit DEF Init
<1>2. McpInv /\ GcInv /\ [Next]_vars => McpInv' /\ GcInv'
  BY McpStep, GcStep DEF Next, vars
<1>3. McpInv /\ GcInv => FramesAreTrue
  BY McpResults, GcResults DEF FramesAreTrue
<1>4. QED  BY <1>1, <1>2, <1>3, PTL DEF Spec

\* Type correctness of the three, and the bounds of their buffers and queues.
THEOREM TypeCorrect == Spec => []TypeOK
<1>1. Init => McpInv /\ GcInv /\ ReInv
  BY McpInit, GcInit, ReInit DEF Init
<1>2. McpInv /\ GcInv /\ ReInv /\ [Next]_vars => McpInv' /\ GcInv' /\ ReInv'
  BY McpStep, GcStep, ReStep DEF Next, vars
<1>3. McpInv /\ GcInv /\ ReInv => TypeOK
  BY McpResults, GcResults, ReResults DEF TypeOK
<1>4. QED  BY <1>1, <1>2, <1>3, PTL DEF Spec
=============================================================================
