------------------------------ MODULE MC_Link ------------------------------
(***************************************************************************)
(* From the wire to a message: the CAN controller (Mcp2515), the USB text  *)
(* frames (GridConnect), and the two reassemblers of frames, of datagrams  *)
(* and of traction commands (Reassembly).  A behaviour is one of the       *)
(* component in part; the others stay in their initial state.              *)
(***************************************************************************)
EXTENDS Integers, Sequences, TLC

CONSTANTS
    MaxFrames, MaxSends, Standard, Overlap,
    IdDigits, MaxData, Frames, MaxSent,
    Senders, Lengths, Tries, BufferFrames, RxQueueLength

VARIABLES
    part,
    rxb, tx0if, txreq, txb, g_rx_task, notified, rxpc, which, in, txpc, spi, heard,
    received, sends, out, tx_dropped,
    state, id, data, half, wire, sent, rx,
    sender, rx_q, active, src_alias, buf, dispatched, dropped

mcp_vars == <<rxb, tx0if, txreq, txb, g_rx_task, notified, rxpc, which, in, txpc, spi,
              heard, received, sends, out, tx_dropped>>
gc_vars == <<state, id, data, half, wire, sent, rx>>
frame_vars == <<sender, rx_q, active, src_alias, buf, dispatched, dropped>>
vars == <<part, mcp_vars, gc_vars, frame_vars>>

Mcp == INSTANCE Mcp2515 WITH rx_q <- received, dropped <- tx_dropped
Gc  == INSTANCE GridConnect
Dg  == INSTANCE Reassembly WITH Traction <- FALSE
Tr  == INSTANCE Reassembly WITH Traction <- TRUE

ASSUME LinkAssumption ==
    Mcp!McpAssumption /\ Gc!GridConnectAssumption /\ Dg!ConstantsAssumption

\* Three frames: no data, full data, and one byte more than fits.
SomeFrames ==
    {[id |-> <<1, 10>>, data |-> <<>>],
     [id |-> <<0, 5>>, data |-> <<<<1, 2>>, <<11, 4>>>>],
     [id |-> <<1, 3>>, data |-> <<<<0, 0>>, <<6, 7>>, <<8, 9>>>>]}

\* a keeps trying; b sends more than the buffer holds, gives up after two attempts
\* and may vanish; c sends a single frame.
FrameCounts == "a" :> 3 @@ "b" :> 4 @@ "c" :> 1
Attempts == "a" :> 0 @@ "b" :> 2 @@ "c" :> 1

Init ==
    /\ part \in {"mcp2515", "gridconnect", "datagram", "traction"}
    /\ Mcp!Init /\ Gc!Init /\ Dg!Init

Next ==
    /\ UNCHANGED part
    /\ \/ part = "mcp2515"     /\ Mcp!Next /\ UNCHANGED <<gc_vars, frame_vars>>
       \/ part = "gridconnect" /\ Gc!Next  /\ UNCHANGED <<mcp_vars, frame_vars>>
       \/ part = "datagram"    /\ Dg!Next  /\ UNCHANGED <<mcp_vars, gc_vars>>
       \/ part = "traction"    /\ Tr!Next  /\ UNCHANGED <<mcp_vars, gc_vars>>

Reassembling == part \in {"datagram", "traction"}

\* The fairness of each component, while it is the one that runs.
Spec ==
    /\ Init /\ [][Next]_vars
    /\ WF_mcp_vars(part = "mcp2515" /\ Mcp!mcp2515_set_rx_task)
    /\ WF_mcp_vars(part = "mcp2515" /\ Mcp!wake)
    /\ SF_mcp_vars(part = "mcp2515" /\ Mcp!cs_low("rx"))
    /\ WF_mcp_vars(part = "mcp2515" /\ Mcp!mcp2515_try_receive)
    /\ SF_mcp_vars(part = "mcp2515" /\ Mcp!cs_low("tx"))
    /\ WF_mcp_vars(part = "mcp2515" /\ Mcp!mcp2515_send)
    /\ WF_frame_vars(\/ part = "datagram" /\ Dg!handle_frame
                     \/ part = "traction" /\ Tr!handle_frame)
    /\ \A s \in Senders : /\ WF_frame_vars(Reassembling /\ Dg!send(s))
                          /\ WF_frame_vars(\/ part = "datagram" /\ Dg!resend(s)
                                           \/ part = "traction" /\ Tr!resend(s))

-----------------------------------------------------------------------------

\* Every variable has its type, and buffers and queues keep within their size.
TypeOK == Mcp!TypeOK /\ Gc!TypeOK /\ Dg!TypeOK

(* What a transport delivers was sent.  mcp2515_try_receive hands every     *)
(* frame over once; a frame given to mcp2515_send goes out or is dropped,   *)
(* and overwrites no other; lcc_gc_parse_byte makes no frame out of the     *)
(* pieces of others, and a frame that was broken off costs at most the next *)
(* one.                                                                     *)
FramesAreTrue ==
    /\ Mcp!ReceivedOnce /\ Mcp!SentOrDropped
    /\ Gc!OnlySentFrames /\ Gc!RecoversInOneFrame

(* A reassembled message is one sender's, and the whole of what it sent,    *)
(* unless the receive queue dropped a frame of it.                          *)
MessagesAreWhole == Dg!OneSender /\ Dg!WholeMessage

(* A frame the chip latched is received, also when its edge was lost, and a *)
(* sender that keeps trying is heard, whatever others did halfway.          *)
FramesGetThrough ==
    /\ Mcp!LatchedIsReceived
    /\ Reassembling => Dg!NotLockedOut
=============================================================================
