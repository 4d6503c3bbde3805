------------------------------- MODULE SvcAck -------------------------------
(***************************************************************************)
(* The Service Mode ACK detector of src/servicemode/svc_ack.c and the loop *)
(* of hw_send that feeds it: samples of the track current, first without   *)
(* an instruction (the baseline), then while one is sent.                  *)
(*                                                                         *)
(* sums and times record every sample, for the definition the detector is  *)
(* checked against.                                                        *)
(***************************************************************************)
EXTENDS Integers, Sequences

CONSTANTS
    SVC_ACK_AVG_SAMPLES,
    SVC_ACK_MIN_US, SVC_ACK_MAX_US, SVC_ACK_WINDOW_US,
    ACK_TAIL_US,        \* how long hw_send listens after the last packet
    Floor,              \* floor_raw
    Levels,             \* readings of the current
    Periods,            \* time between two samples
    MaxBaseline,        \* bound: baseline samples
    MaxSamples          \* bound: samples while listening

SvcAckAssumption ==
    /\ SVC_ACK_AVG_SAMPLES \in Nat \ {0}
    /\ SVC_ACK_MIN_US \in Nat /\ SVC_ACK_MAX_US \in Nat /\ SVC_ACK_WINDOW_US \in Nat
    /\ ACK_TAIL_US \in Nat /\ Floor \in Nat \ {0}
    /\ Levels \subseteq Nat /\ Periods \subseteq Nat \ {0}
    /\ MaxBaseline \in Nat /\ MaxSamples \in Nat

VARIABLES
    phase,          \* "baseline", "listen", "done"
    ring,           \* the moving average's window, oldest first
    ring_sum, ring_fill,
    base_sum, base_n, base_peak_sum,
    threshold_sum,
    above, above_since, acked,
    now,
    sums,           \* sums[k] is the sum of the first k samples since the reset
    times           \* when each was taken, 0 before listening

window == <<ring, ring_sum, ring_fill>>
base == <<base_sum, base_n, base_peak_sum, threshold_sum>>
rise == <<above, above_since, acked>>
vars == <<phase, window, base, rise, now, sums, times>>

\* The sum of the first k samples; before the first, the ring is zero.
SumTo(k) == IF k > 0 THEN sums[k] ELSE 0

\* Mutant: the sample that leaves the window stays in the sum.
smooth_all(raw) ==
    /\ ring' = Append(Tail(ring), raw)
    /\ ring_sum' = ring_sum + raw
    /\ ring_fill' = IF ring_fill < SVC_ACK_AVG_SAMPLES THEN ring_fill + 1 ELSE ring_fill

\* The moving average: the oldest sample leaves the sum, the new one enters it.
smooth(raw) ==
    /\ ring' = Append(Tail(ring), raw)
    /\ ring_sum' = ring_sum - Head(ring) + raw
    /\ ring_fill' = IF ring_fill < SVC_ACK_AVG_SAMPLES THEN ring_fill + 1 ELSE ring_fill

\* The history of the samples.
record(raw, t) ==
    /\ sums' = Append(sums, SumTo(Len(sums)) + raw)
    /\ times' = Append(times, t)

svc_ack_baseline(raw) ==
    /\ phase = "baseline"
    /\ base_n < MaxBaseline
    /\ smooth(raw)
    /\ base_sum' = base_sum + raw
    /\ base_n' = base_n + 1
    /\ base_peak_sum' = IF ring_fill' = SVC_ACK_AVG_SAMPLES /\ ring_sum' > base_peak_sum
                        THEN ring_sum' ELSE base_peak_sum
    /\ record(raw, 0)
    /\ UNCHANGED <<phase, threshold_sum, rise, now>>

Mean == IF base_n > 0 THEN base_sum \div base_n ELSE 0

\* Mutant: half the swing.
MarginHalf(swing) == swing \div 2

Margin(swing) == swing + swing \div 2

Larger(a, b) == IF a > b THEN a ELSE b

\* The threshold; a baseline too short to fill the window is filled up with its
\* mean, in the slots still zero since svc_ack_reset.
svc_ack_arm ==
    /\ phase = "baseline"
    /\ phase' = "listen"
    /\ LET pad      == SVC_ACK_AVG_SAMPLES - ring_fill
           mean_sum == Mean * SVC_ACK_AVG_SAMPLES
           swing    == IF base_peak_sum' > mean_sum THEN base_peak_sum' - mean_sum ELSE 0
       IN  /\ ring' = SubSeq(ring, pad + 1, SVC_ACK_AVG_SAMPLES) \o [i \in 1..pad |-> Mean]
           /\ ring_sum' = ring_sum + pad * Mean
           /\ base_peak_sum' = IF pad > 0 THEN ring_sum' ELSE base_peak_sum
           /\ threshold_sum' = mean_sum + Larger(Margin(swing), Floor * SVC_ACK_AVG_SAMPLES)
           /\ sums' = sums \o [i \in 1..pad |-> SumTo(Len(sums)) + i * Mean]
           /\ times' = times \o [i \in 1..pad |-> 0]
    /\ ring_fill' = SVC_ACK_AVG_SAMPLES
    /\ above' = FALSE /\ acked' = FALSE
    /\ UNCHANGED <<base_sum, base_n, above_since, now>>

\* Mutant: a rise that never ends counts too.
WidthOkUnbounded(width) == width >= SVC_ACK_MIN_US

WidthOk(width) == width >= SVC_ACK_MIN_US /\ width <= SVC_ACK_MAX_US

svc_ack_sample(raw, t) ==
    /\ smooth(raw)
    /\ LET high == ring_sum' > threshold_sum IN
       /\ above' = IF acked THEN above ELSE high
       /\ above_since' = IF ~acked /\ high /\ ~above THEN t ELSE above_since
       /\ acked' = (acked \/ (~high /\ above /\ WidthOk(t - above_since)))

\* Mutant: a rise is waited for only as long as the shortest ACK.
svc_ack_pending_short == ~acked /\ above /\ now - above_since <= SVC_ACK_MIN_US

svc_ack_pending ==
    ~acked /\ above /\ now - above_since <= SVC_ACK_MAX_US + SVC_ACK_WINDOW_US

\* hw_send's tail loop: listen until there is an ACK, or the tail is over and no
\* rise is under way that could become one.
Listening == ~acked /\ (now < ACK_TAIL_US \/ svc_ack_pending)

listen(raw, dt) ==
    /\ phase = "listen"
    /\ Listening
    /\ Len(sums) < MaxSamples
    /\ now' = now + dt
    /\ svc_ack_sample(raw, now')
    /\ record(raw, now')
    /\ UNCHANGED <<phase, base>>

stop ==
    /\ phase = "listen"
    /\ ~Listening
    /\ phase' = "done"
    /\ UNCHANGED <<window, base, rise, now, sums, times>>

\* svc_ack_reset.
Init ==
    /\ phase = "baseline"
    /\ ring = [i \in 1..SVC_ACK_AVG_SAMPLES |-> 0]
    /\ ring_sum = 0 /\ ring_fill = 0
    /\ base_sum = 0 /\ base_n = 0 /\ base_peak_sum = 0 /\ threshold_sum = 0
    /\ above = FALSE /\ above_since = 0 /\ acked = FALSE
    /\ now = 0
    /\ sums = <<>> /\ times = <<>>

Next ==
    \/ \E raw \in Levels : svc_ack_baseline(raw)
    \/ svc_ack_arm
    \/ \E raw \in Levels, dt \in Periods : listen(raw, dt)
    \/ stop

Spec == Init /\ [][Next]_vars

-----------------------------------------------------------------------------

\* The sum of the window that ends at a sample; the current is high at one taken
\* while listening whose window is above the threshold.
Window(k) == SumTo(k) - SumTo(k - SVC_ACK_AVG_SAMPLES)
High(k) == times[k] > 0 /\ Window(k) > threshold_sum

\* An ACK is seen exactly when, while listening, the smoothed current rose above
\* the threshold and fell again after a time between the two limits: neither a
\* spike nor a load that stays on (svc_ack.h).
AckIsAPulse ==
    phase # "baseline" =>
        (acked <=> \E i, j \in 1..Len(times) :
                      /\ i < j
                      /\ \A k \in i..j - 1 : High(k)
                      /\ ~High(i - 1) /\ ~High(j)
                      /\ times[j] - times[i] \in SVC_ACK_MIN_US..SVC_ACK_MAX_US)

\* The idle current's own swings stay below the threshold, so a noisy decoder
\* fails to read instead of reading wrong.
NoiseIsNoAck ==
    phase # "baseline" =>
        \A k \in SVC_ACK_AVG_SAMPLES..Len(times) : times[k] = 0 => Window(k) <= threshold_sum

\* hw_send does not stop listening in the middle of a rise that could still end
\* as an ACK.
NoAckIsCutOff == phase = "done" /\ ~acked /\ above => now - above_since > SVC_ACK_MAX_US

=============================================================================
