---------------------------- MODULE MC_CvAccess ----------------------------
(***************************************************************************)
(* Access to a decoder's CVs, level by level: the programming track's task *)
(* (ServiceMode) and its ACK detector (SvcAck), reads on the main          *)
(* (RailcomRead), and the generator that puts the packets of both on the   *)
(* track (Wavegen).  A behaviour is one of the level in part; the others   *)
(* stay in their initial state.                                            *)
(***************************************************************************)
EXTENDS Integers, Sequences

CONSTANTS
    Bits, READ_ATTEMPTS, POWER_ON_SETTLE_MS, IDLE_RECHECK_STEP_MS, RECOVERY_MS,
    WRITE_HOLD_MS, IDLE_RECHECKS, MIN_BACKOFF_MS, MaxSpurious, MaxJobs,
    SVC_ACK_AVG_SAMPLES, SVC_ACK_MIN_US, SVC_ACK_MAX_US, SVC_ACK_WINDOW_US,
    ACK_TAIL_US, Floor, Levels, Periods, MaxBaseline, MaxSamples,
    Reads, Long, RING_SIZE, IndexModulus, POM_READ_COPIES, POM_READ_ATTEMPTS,
    MaxAir, MaxReads, MaxOther, None, NoData, NoValue,
    FIFO_DEPTH, Lengths, BogusCounts, MaxPackets, MaxReinits

VARIABLES
    part,
    g_queue, req, svc_pc, attempt, step, v, any_ack, ack, res, value, rechecks, state,
    override, present, cv, lost, spurious, tripped, jobs,
    phase, ring, ring_sum, ring_fill, base_sum, base_n, base_peak_sum, threshold_sum,
    above, above_since, acked, now, sums, times,
    g_busy, g_req, g_req_pending, normal, notified, rc_pc, reading, r, air, g_ring,
    g_head, g_tail, popped, queued, ch2_seen, early, result, reads, others,
    initialized, enabled, fifo, need, wave_pc, pkt, i, n, rpc, reinits, started, torn

svc_vars == <<
    g_queue, req, svc_pc, attempt, step, v, any_ack, ack, res, value, rechecks, state,
    override, present, cv, lost, spurious, tripped, jobs>>
ack_vars == <<
    phase, ring, ring_sum, ring_fill, base_sum, base_n, base_peak_sum, threshold_sum,
    above, above_since, acked, now, sums, times>>
rc_vars == <<
    g_busy, g_req, g_req_pending, normal, notified, rc_pc, reading, r, air, g_ring,
    g_head, g_tail, popped, queued, ch2_seen, early, result, reads, others>>
wave_vars == <<
    initialized, enabled, fifo, need, wave_pc, pkt, i, n, rpc, reinits, started, torn>>
vars == <<part, svc_vars, ack_vars, rc_vars, wave_vars>>

Svc  == INSTANCE ServiceMode WITH pc <- svc_pc
Ack  == INSTANCE SvcAck
Rc   == INSTANCE RailcomRead WITH pc <- rc_pc
Wave == INSTANCE Wavegen WITH pc <- wave_pc

ASSUME CvAccessAssumption ==
    /\ Svc!ServiceModeAssumption /\ Ack!SvcAckAssumption
    /\ Rc!RailcomAssumption /\ Wave!WavegenAssumption

Init ==
    /\ part \in {"svc", "ack", "railcom", "wavegen"}
    /\ Svc!Init /\ Ack!Init /\ Rc!Init /\ Wave!Init

Next ==
    /\ UNCHANGED part
    /\ \/ part = "svc"     /\ Svc!Next  /\ UNCHANGED <<ack_vars, rc_vars, wave_vars>>
       \/ part = "ack"     /\ Ack!Next  /\ UNCHANGED <<svc_vars, rc_vars, wave_vars>>
       \/ part = "railcom" /\ Rc!Next   /\ UNCHANGED <<svc_vars, ack_vars, wave_vars>>
       \/ part = "wavegen" /\ Wave!Next /\ UNCHANGED <<svc_vars, ack_vars, rc_vars>>

\* Two CVs of a short address, and one of a long one.
SomeReads == {[address |-> 3, cv |-> 1], [address |-> 3, cv |-> 2],
              [address |-> 1000, cv |-> 1]}

\* The fairness of each level, while it is the one that runs.
Spec ==
    /\ Init /\ [][Next]_vars
    /\ WF_svc_vars(part = "svc" /\ Svc!task_servicemode)
    /\ WF_rc_vars(part = "railcom" /\ Rc!task_railcom)
    /\ SF_rc_vars(part = "railcom" /\ (Rc!poll_send(TRUE) \/ Rc!poll_finish(TRUE)))
    /\ WF_wave_vars(part = "wavegen" /\ Wave!wavegen_send)
    /\ WF_wave_vars(part = "wavegen" /\ Wave!wavegen_program)
    /\ WF_wave_vars(part = "wavegen" /\ Wave!restart)

-----------------------------------------------------------------------------

\* Every variable has its type, the ring and the FIFO keep within their size.
TypeOK == Svc!TypeOK /\ Rc!TypeOK /\ Wave!TypeOK

(* A CV that svc_cv_read or svc_cv_write reports is the decoder's; NO_LOCO  *)
(* is reported only when nothing answered; and the programming track is     *)
(* powered only under the main track's limit.                               *)
ServiceModeIsTrue ==
    Svc!ReportedValueIsTrue /\ Svc!NoLocoIsTrue /\ Svc!PoweredUnderMainLimit

(* svc_ack_sample sees an ACK exactly when there was a pulse of the right   *)
(* width; noise no higher than the baseline's is none; and hw_send does not *)
(* stop listening inside a rise that can still be one.                      *)
AcksAreRecognised == Ack!AckIsAPulse /\ Ack!NoiseIsNoAck /\ Ack!NoAckIsCutOff

(* A RailCom read takes its answer from the decoder it asked: the cutout    *)
(* ring is a queue, whenever the interrupt comes, and reads do not overlap. *)
ReadsDoNotMix == Rc!RingIsFifo /\ Rc!ReadsAreExclusive /\ Rc!AnswerFromDecoder

\* The PIO takes a data word for a count only after a torn packet.
FramedUnlessTorn == Wave!FramedUnlessTorn

\* Every service mode operation, RailCom read and wavegen_send ends.
AccessesEnd == Svc!OperationsEnd /\ Rc!ReadsEnd /\ Wave!SendsEnd
=============================================================================
