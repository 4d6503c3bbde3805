--------------------------- MODULE CvAccessProofs ---------------------------
(***************************************************************************)
(* Proofs about the levels of CV access that module MC_CvAccess puts side  *)
(* by side: the generator (Wavegen), the programming track (ServiceMode),  *)
(* reads on the main (RailcomRead) and the ACK detector (SvcAck).  Each    *)
(* level has an inductive invariant of its own, which the steps of the     *)
(* other levels leave alone.                                               *)
(***************************************************************************)
EXTENDS MC_CvAccess, TLAPS

-----------------------------------------------------------------------------
(* Wavegen *)

Word == [pkt : Nat, i : Nat \ {0}, n : Nat \ {0}]

\* Types, the words of the FIFO included.
WaveTypes ==
    /\ Wave!TypeOK
    /\ fifo \in Seq(Word)
    /\ started \in Seq(Word)
    /\ i \in Nat \ {0} /\ n \in Nat \ {0} /\ (wave_pc = "put" => i <= n)
    /\ wave_pc = "send" => i = 1

\* task_wavegen is between two words of a packet.
Inside == wave_pc = "put" /\ i > 1

\* Word b is put after word a: the next of its packet, or the first of another.
Follows(a, b) ==
    \/ b.pkt = a.pkt /\ b.n = a.n /\ b.i = a.i + 1 /\ a.i < a.n
    \/ a.i = a.n /\ b.i = 1

\* The words in the FIFO follow each other, the first is the one the state
\* machine wants, and the last is the one before the task's next.
Stream ==
    /\ \A k \in 1..Len(fifo) - 1 : Follows(fifo[k], fifo[k + 1])
    /\ fifo # <<>> =>
          /\ IF need = 0 THEN fifo[1].i = 1 ELSE fifo[1].i > 1 /\ need = fifo[1].n - fifo[1].i + 1
          /\ IF Inside THEN fifo[Len(fifo)].pkt = pkt /\ fifo[Len(fifo)].n = n
                            /\ fifo[Len(fifo)].i = i - 1
             ELSE fifo[Len(fifo)].i = fifo[Len(fifo)].n
    /\ fifo = <<>> => need = IF Inside THEN n - i + 1 ELSE 0

\* Packets leave in the order they came, and before those still to come.
InOrder ==
    /\ \A k, m \in 1..Len(started) : k < m => started[k].pkt < started[m].pkt
    /\ \A k \in 1..Len(started) :
          /\ started[k].i = 1
          /\ \A m \in 1..Len(fifo) : fifo[m].i = 1 => started[k].pkt < fifo[m].pkt
          /\ started[k].pkt <= pkt
          /\ wave_pc # "receive" /\ ~Inside => started[k].pkt < pkt
    /\ \A m \in 1..Len(fifo) :
          /\ fifo[m].i = 1 => \A k \in 1..m - 1 : fifo[k].pkt < fifo[m].pkt
          /\ fifo[m].pkt <= pkt
          /\ wave_pc # "receive" /\ ~Inside => fifo[m].pkt < pkt

WaveInv == WaveTypes /\ (~torn => Stream /\ InOrder)

\* Sending a word to a queue.
LEMMA Appended ==
    ASSUME NEW S, NEW q \in Seq(S), NEW x \in S
    PROVE  /\ Append(q, x) \in Seq(S)
           /\ Len(Append(q, x)) = Len(q) + 1
           /\ \A k \in 1..Len(q) : Append(q, x)[k] = q[k]
           /\ Append(q, x)[Len(q) + 1] = x
OBVIOUS

\* Taking the first element of a queue.
LEMMA Taken ==
    ASSUME NEW S, NEW q \in Seq(S), q # <<>>
    PROVE  /\ Tail(q) \in Seq(S)
           /\ Len(q) \in Nat \ {0}
           /\ Len(Tail(q)) = Len(q) - 1
           /\ \A k \in 1..Len(q) - 1 : Tail(q)[k] = q[k + 1]
           /\ Head(q) = q[1] /\ Head(q) \in S
OBVIOUS

\* The constants of the generator.
LEMMA WaveConstants ==
    /\ FIFO_DEPTH \in Nat \ {0} /\ MaxPackets \in Nat /\ MaxReinits \in Nat
    /\ Lengths \subseteq Nat \ {0} /\ BogusCounts \subseteq Nat
BY CvAccessAssumption DEF Wave!WavegenAssumption

\* The fields of a word.
LEMMA WordFields ==
    ASSUME NEW w \in Word
    PROVE  w.pkt \in Nat /\ w.i \in Nat \ {0} /\ w.n \in Nat \ {0}
BY DEF Word

\* The fields of the words of a sequence.
LEMMA WordsFields ==
    ASSUME NEW q \in Seq(Word)
    PROVE  \A m \in 1..Len(q) : /\ q[m] \in Word /\ q[m].pkt \in Nat
                                /\ q[m].i \in Nat \ {0} /\ q[m].n \in Nat \ {0}
<1>1. \A m \in 1..Len(q) : q[m] \in Word
  OBVIOUS
<1>2. QED  BY <1>1, WordFields

\* Once the state machine has taken a word, it wants what that word's packet has
\* left, and that is what follows.
LEMMA NextWanted ==
    ASSUME Stream, fifo \in Seq(Word), fifo' \in Seq(Word), Len(fifo) \in Nat \ {0},
           Len(fifo') = Len(fifo) - 1, \A k \in 1..Len(fifo) - 1 : fifo'[k] = fifo[k + 1],
           i \in Nat, n \in Nat, UNCHANGED <<wave_pc, pkt, i, n>>,
           need' = fifo[1].n - fifo[1].i
    PROVE  Stream'
<1>1. Inside' <=> Inside
  BY DEF Inside
<1>2. \A k \in 1..Len(fifo') - 1 : Follows(fifo'[k], fifo'[k + 1])
  <2> SUFFICES ASSUME NEW k \in 1..Len(fifo') - 1 PROVE Follows(fifo'[k], fifo'[k + 1])
    OBVIOUS
  <2>1. k + 1 \in 1..Len(fifo) - 1 /\ fifo'[k] = fifo[k + 1] /\ fifo'[k + 1] = fifo[k + 2]
    OBVIOUS
  <2>2. Follows(fifo[k + 1], fifo[(k + 1) + 1])
    BY <2>1 DEF Stream
  <2>3. QED  BY <2>1, <2>2
<1>3. \A m \in 1..Len(fifo) : /\ fifo[m].i \in Nat \ {0} /\ fifo[m].n \in Nat \ {0}
  BY WordsFields
<1>4. CASE fifo' = <<>>
  <2>1. Len(fifo) = 1 /\ fifo # <<>>
    BY <1>4
  <2>2. need' = IF Inside THEN n - i + 1 ELSE 0
    BY <1>3, <2>1 DEF Stream
  <2>3. QED  BY <1>1, <1>2, <1>4, <2>2 DEF Stream
<1>5. CASE fifo' # <<>>
  <2>1. Len(fifo) > 1 /\ fifo # <<>> /\ Len(fifo') \in 1..Len(fifo) - 1
    BY <1>5
  <2>2. fifo'[1] = fifo[2] /\ fifo'[Len(fifo')] = fifo[Len(fifo)]
    BY <2>1
  <2>3. Follows(fifo[1], fifo[1 + 1])
    BY <2>1 DEF Stream
  <2>4. IF need' = 0 THEN fifo[2].i = 1 ELSE fifo[2].i > 1 /\ need' = fifo[2].n - fifo[2].i + 1
    BY <1>3, <2>1, <2>3 DEF Follows
  <2>5. QED  BY <1>1, <1>2, <1>5, <2>1, <2>2, <2>4 DEF Stream
<1>6. QED  BY <1>4, <1>5

\* What is left in the FIFO is still in order.
LEMMA OrderTaken ==
    ASSUME InOrder, Len(fifo) \in Nat \ {0}, Len(fifo') = Len(fifo) - 1,
           \A k \in 1..Len(fifo) - 1 : fifo'[k] = fifo[k + 1], NEW m \in 1..Len(fifo')
    PROVE  /\ fifo'[m].i = 1 => \A k \in 1..m - 1 : fifo'[k].pkt < fifo'[m].pkt
           /\ fifo'[m].pkt <= pkt
           /\ wave_pc # "receive" /\ ~Inside => fifo'[m].pkt < pkt
<1>1. m + 1 \in 1..Len(fifo) /\ fifo'[m] = fifo[m + 1]
  OBVIOUS
<1>2. \A k \in 1..m - 1 : k + 1 \in 1..(m + 1) - 1 /\ fifo'[k] = fifo[k + 1]
  OBVIOUS
<1>3. fifo[m + 1].i = 1 => \A k \in 1..(m + 1) - 1 : fifo[k].pkt < fifo[m + 1].pkt
  BY <1>1 DEF InOrder
<1>4. QED  BY <1>1, <1>2, <1>3 DEF InOrder

\* WaveInv is inductive.
LEMMA WaveStep ==
    ASSUME WaveInv, [Wave!Next]_wave_vars
    PROVE  WaveInv'
<1> USE WaveConstants
<1>t. /\ fifo \in Seq(Word) /\ started \in Seq(Word)
      /\ Len(fifo) \in Nat /\ Len(started) \in Nat
      /\ i \in Nat \ {0} /\ n \in Nat \ {0} /\ pkt \in Nat /\ need \in Nat
  BY DEF WaveInv, WaveTypes, Wave!TypeOK
<1>f. /\ \A m \in 1..Len(fifo) : /\ fifo[m] \in Word /\ fifo[m].pkt \in Nat
                                 /\ fifo[m].i \in Nat \ {0} /\ fifo[m].n \in Nat \ {0}
      /\ \A m \in 1..Len(started) : started[m].pkt \in Nat
  BY <1>t, WordsFields
<1>1. ASSUME NEW len \in Lengths, Wave!receive(len) PROVE WaveInv'
  <2>1. len \in Nat \ {0}
    OBVIOUS
  <2>2. WaveTypes'
    BY <1>1, <2>1 DEF Wave!receive, Wave!sm, WaveInv, WaveTypes, Wave!TypeOK
  <2>3. ASSUME ~torn PROVE Stream' /\ InOrder'
    <3>1. /\ fifo' = fifo /\ need' = need /\ started' = started /\ pkt' = pkt + 1
          /\ ~Inside /\ ~Inside'
      BY <1>1 DEF Wave!receive, Wave!sm, Inside
    <3>2. Stream'
      BY <2>3, <3>1 DEF WaveInv, Stream
    <3>4. InOrder'
      BY <1>t, <1>f, <2>3, <3>1 DEF WaveInv, InOrder
    <3>5. QED  BY <3>2, <3>4
  <2>4. QED  BY <1>1, <2>2, <2>3 DEF WaveInv, Wave!receive
<1>2. CASE Wave!send
  <2>2. WaveTypes'
    BY <1>2, <1>t DEF Wave!send, Wave!sm, WaveInv, WaveTypes, Wave!TypeOK
  <2>3. ASSUME ~torn PROVE Stream' /\ InOrder'
    <3>1. /\ UNCHANGED <<fifo, need, started, pkt>>
          /\ ~Inside /\ ~Inside' /\ wave_pc = "send"
      BY <1>2, <1>t DEF Wave!send, Wave!sm, WaveInv, WaveTypes, Inside
    <3>2. QED  BY <1>t, <2>3, <3>1 DEF WaveInv, Stream, InOrder
  <2>4. QED  BY <1>2, <2>2, <2>3 DEF WaveInv, Wave!send
<1>3. CASE Wave!put
  <2> DEFINE w == [pkt |-> pkt, i |-> i, n |-> n]
  <2>0. w \in Word
    BY <1>t DEF Word
  <2>1. /\ fifo' \in Seq(Word) /\ Len(fifo') = Len(fifo) + 1
        /\ \A k \in 1..Len(fifo) : fifo'[k] = fifo[k]
        /\ fifo'[Len(fifo) + 1] = w
    BY <1>3, <1>t, <2>0, Appended DEF Wave!put
  <2>2. WaveTypes'
    BY <1>3, <1>t, <2>1 DEF Wave!put, Wave!fifo_full, WaveInv, WaveTypes, Wave!TypeOK
  <2>3. ASSUME ~torn PROVE Stream' /\ InOrder'
    <3>1. /\ UNCHANGED <<need, started, pkt, n>> /\ i' = i + 1 /\ i <= n
          /\ wave_pc = "put" /\ wave_pc' = IF i = n THEN "receive" ELSE "put"
          /\ Stream /\ InOrder
      BY <1>3, <2>3 DEF Wave!put, WaveInv, WaveTypes
    <3>2. /\ Inside <=> i > 1
          /\ Inside' <=> i < n
          /\ w.pkt = pkt /\ w.i = i /\ w.n = n
      BY <1>t, <3>1 DEF Inside
    <3> HIDE DEF w
    <3>3. fifo' # <<>> /\ fifo'[Len(fifo')] = w
      BY <1>t, <2>1
    <3>4. \A k \in 1..Len(fifo') - 1 : Follows(fifo'[k], fifo'[k + 1])
      <4>1. ASSUME NEW k \in 1..Len(fifo') - 1, k = Len(fifo) PROVE Follows(fifo'[k], fifo'[k + 1])
        <5>1. fifo # <<>> /\ k \in 1..Len(fifo) /\ fifo'[k] = fifo[Len(fifo)] /\ fifo'[k + 1] = w
          BY <1>t, <2>1, <4>1
        <5>2. CASE i > 1
          BY <1>t, <3>1, <3>2, <5>1, <5>2 DEF Stream, Follows
        <5>3. CASE i = 1
          BY <1>t, <3>1, <3>2, <5>1, <5>3 DEF Stream, Follows
        <5>4. QED  BY <1>t, <5>2, <5>3
      <4>2. ASSUME NEW k \in 1..Len(fifo') - 1, k # Len(fifo) PROVE Follows(fifo'[k], fifo'[k + 1])
        <5>1. k \in 1..Len(fifo) - 1 /\ fifo'[k] = fifo[k] /\ fifo'[k + 1] = fifo[k + 1]
          BY <1>t, <2>1, <4>2
        <5>2. QED  BY <3>1, <5>1 DEF Stream
      <4>3. QED  BY <4>1, <4>2
    <3>5. IF need' = 0 THEN fifo'[1].i = 1
          ELSE fifo'[1].i > 1 /\ need' = fifo'[1].n - fifo'[1].i + 1
      <4>1. CASE fifo = <<>>
        BY <1>t, <2>1, <3>1, <3>2, <4>1 DEF Stream
      <4>2. CASE fifo # <<>>
        BY <1>t, <2>1, <3>1, <4>2 DEF Stream
      <4>3. QED  BY <4>1, <4>2
    <3>6. Stream'
      BY <1>t, <3>1, <3>2, <3>3, <3>4, <3>5 DEF Stream
    <3>8. \A m \in 1..Len(fifo') : \/ m \in 1..Len(fifo) /\ fifo'[m] = fifo[m]
                                   \/ m = Len(fifo) + 1 /\ fifo'[m] = w
      BY <1>t, <2>1
    <3>9. InOrder'
      <4>1. \A k \in 1..Len(started) : \A m \in 1..Len(fifo') :
               fifo'[m].i = 1 => started[k].pkt < fifo'[m].pkt
        <5> SUFFICES ASSUME NEW k \in 1..Len(started), NEW m \in 1..Len(fifo'), fifo'[m].i = 1
                     PROVE  started[k].pkt < fifo'[m].pkt
          OBVIOUS
        <5>1. CASE m \in 1..Len(fifo) /\ fifo'[m] = fifo[m]
          BY <3>1, <5>1 DEF InOrder
        <5>2. CASE m = Len(fifo) + 1 /\ fifo'[m] = w
          <6>1. i = 1 /\ ~Inside
            BY <1>t, <3>1, <3>2, <5>2
          <6>2. started[k].pkt < pkt
            BY <3>1, <6>1 DEF InOrder
          <6>3. QED  BY <3>2, <5>2, <6>2
        <5>3. QED  BY <3>8, <5>1, <5>2
      <4>2. \A m \in 1..Len(fifo') : fifo'[m].i = 1 => \A k \in 1..m - 1 : fifo'[k].pkt < fifo'[m].pkt
        <5> SUFFICES ASSUME NEW m \in 1..Len(fifo'), fifo'[m].i = 1, NEW k \in 1..m - 1
                     PROVE  fifo'[k].pkt < fifo'[m].pkt
          OBVIOUS
        <5>1. k \in 1..Len(fifo) /\ fifo'[k] = fifo[k]
          BY <1>t, <2>1
        <5>2. CASE m \in 1..Len(fifo) /\ fifo'[m] = fifo[m]
          BY <3>1, <5>1, <5>2 DEF InOrder
        <5>3. CASE m = Len(fifo) + 1 /\ fifo'[m] = w
          <6>1. i = 1 /\ ~Inside
            BY <3>2, <5>3
          <6>2. fifo[k].pkt < pkt
            BY <3>1, <5>1, <6>1 DEF InOrder
          <6>3. QED  BY <3>2, <5>1, <5>3, <6>2
        <5>4. QED  BY <3>8, <5>2, <5>3
      <4>3. \A m \in 1..Len(fifo') : fifo'[m].pkt <= pkt
        BY <1>t, <3>1, <3>2, <1>f, <3>8 DEF InOrder
      <4>4. wave_pc' # "receive" => Inside'
        BY <1>t, <3>1, <3>2
      <4>5. QED  BY <3>1, <4>1, <4>2, <4>3, <4>4 DEF InOrder
    <3>10. QED  BY <3>6, <3>9
  <2>4. QED  BY <1>3, <2>2, <2>3 DEF WaveInv, Wave!put
<1>4. CASE Wave!start_packet
  <2>1. /\ fifo' \in Seq(Word) /\ Len(fifo) \in Nat \ {0} /\ Len(fifo') = Len(fifo) - 1
        /\ \A k \in 1..Len(fifo) - 1 : fifo'[k] = fifo[k + 1]
        /\ Head(fifo) = fifo[1] /\ Head(fifo) \in Word
    BY <1>4, <1>t, Taken DEF Wave!start_packet
  <2>a. /\ started' \in Seq(Word) /\ Len(started') = Len(started) + 1
        /\ \A k \in 1..Len(started) : started'[k] = started[k]
        /\ started'[Len(started) + 1] = fifo[1]
    BY <1>4, <1>t, <2>1, Appended DEF Wave!start_packet
  <2>2. WaveTypes'
    <3>0. Head(fifo).n \in Nat \ {0}
      BY <2>1, WordFields
    <3>1. need' = Head(fifo).n - 1 \/ need' \in BogusCounts
      BY <1>4 DEF Wave!start_packet, Wave!Wanted
    <3>a. need' \in Nat
      <4>1. \A x \in Nat \ {0} : x - 1 \in Nat
        OBVIOUS
      <4>2. QED  BY <3>0, <3>1, <4>1, WaveConstants, Zenon
    <3>2. QED  BY <1>4, <1>t, <2>1, <2>a, <3>a DEF Wave!start_packet, Wave!task, WaveInv, WaveTypes, Wave!TypeOK
  <2>3. ASSUME ~torn PROVE Stream' /\ InOrder'
    <3>1. need' = fifo[1].n - 1 /\ need = 0 /\ fifo[1].i = 1
      BY <1>4, <2>1, <2>3 DEF Wave!start_packet, Wave!Wanted, WaveInv, Stream
    <3>2. /\ UNCHANGED <<wave_pc, pkt, i, n>> /\ (Inside' <=> Inside)
          /\ Stream /\ InOrder
      BY <1>4, <2>3 DEF Wave!start_packet, Wave!task, WaveInv, Inside
    <3>3. Stream'
      BY <1>t, <1>f, <2>1, <3>1, <3>2, NextWanted
    <3>5. \A k \in 1..Len(started') : \/ k \in 1..Len(started) /\ started'[k] = started[k]
                                      \/ k = Len(started) + 1 /\ started'[k] = fifo[1]
      BY <1>t, <2>a
    <3>6. \A m \in 1..Len(fifo') : m + 1 \in 2..Len(fifo) /\ fifo'[m] = fifo[m + 1]
      BY <1>t, <2>1
    <3>7. InOrder'
      <4>1. \A k, m \in 1..Len(started') : k < m => started'[k].pkt < started'[m].pkt
        <5> SUFFICES ASSUME NEW k \in 1..Len(started'), NEW m \in 1..Len(started'), k < m
                     PROVE  started'[k].pkt < started'[m].pkt
          OBVIOUS
        <5>1. k \in 1..Len(started) /\ started'[k] = started[k]
          BY <1>t, <2>a
        <5>2. CASE m \in 1..Len(started) /\ started'[m] = started[m]
          BY <3>2, <5>1, <5>2 DEF InOrder
        <5>3. CASE m = Len(started) + 1 /\ started'[m] = fifo[1]
          <6>1. 1 \in 1..Len(fifo)
            BY <2>1
          <6>2. started[k].pkt < fifo[1].pkt
            BY <3>1, <3>2, <5>1, <6>1 DEF InOrder
          <6>3. QED  BY <5>1, <5>3, <6>2
        <5>4. QED  BY <3>5, <5>2, <5>3
      <4>2. \A k \in 1..Len(started') :
               /\ started'[k].i = 1
               /\ \A m \in 1..Len(fifo') : fifo'[m].i = 1 => started'[k].pkt < fifo'[m].pkt
        <5> SUFFICES ASSUME NEW k \in 1..Len(started')
                     PROVE  /\ started'[k].i = 1
                            /\ \A m \in 1..Len(fifo') : fifo'[m].i = 1 => started'[k].pkt < fifo'[m].pkt
          OBVIOUS
        <5>1. CASE k \in 1..Len(started) /\ started'[k] = started[k]
          <6>1. \A m \in 1..Len(fifo') : m + 1 \in 1..Len(fifo)
            BY <1>t, <3>6
          <6>2. QED  BY <3>2, <3>6, <5>1, <6>1 DEF InOrder
        <5>2. CASE k = Len(started) + 1 /\ started'[k] = fifo[1]
          <6>1. \A m \in 1..Len(fifo') : m + 1 \in 1..Len(fifo) /\ 1 \in 1..(m + 1) - 1
            BY <1>t, <3>6
          <6>2. QED  BY <3>1, <3>2, <3>6, <5>2, <6>1 DEF InOrder
        <5>3. QED  BY <3>5, <5>1, <5>2
      <4>3. \A k \in 1..Len(started') :
               /\ started'[k].pkt <= pkt
               /\ wave_pc # "receive" /\ ~Inside => started'[k].pkt < pkt
        <5>1. 1 \in 1..Len(fifo)
          BY <2>1
        <5>2. /\ fifo[1].pkt <= pkt
              /\ wave_pc # "receive" /\ ~Inside => fifo[1].pkt < pkt
          BY <3>2, <5>1 DEF InOrder
        <5>3. QED  BY <3>2, <3>5, <5>2 DEF InOrder
      <4>4. \A m \in 1..Len(fifo') :
               /\ fifo'[m].i = 1 => \A k \in 1..m - 1 : fifo'[k].pkt < fifo'[m].pkt
               /\ fifo'[m].pkt <= pkt
               /\ wave_pc # "receive" /\ ~Inside => fifo'[m].pkt < pkt
        BY <1>t, <2>1, <3>2, OrderTaken
      <4>5. QED  BY <3>2, <4>1, <4>2, <4>3, <4>4 DEF InOrder
    <3>8. QED  BY <3>3, <3>7
  <2>4. QED  BY <1>4, <2>2, <2>3 DEF WaveInv, Wave!start_packet
<1>5. CASE Wave!pull
  <2>1. /\ fifo' \in Seq(Word) /\ Len(fifo) \in Nat \ {0} /\ Len(fifo') = Len(fifo) - 1
        /\ \A k \in 1..Len(fifo) - 1 : fifo'[k] = fifo[k + 1]
        /\ Head(fifo) = fifo[1] /\ Head(fifo) \in Word
    BY <1>5, <1>t, Taken DEF Wave!pull
  <2>2. WaveTypes'
    BY <1>5, <1>t, <2>1 DEF Wave!pull, Wave!task, WaveInv, WaveTypes, Wave!TypeOK
  <2>3. ASSUME ~torn PROVE Stream' /\ InOrder'
    <3>1. /\ UNCHANGED <<wave_pc, pkt, i, n>> /\ (Inside' <=> Inside)
          /\ Stream /\ need' = need - 1 /\ need > 0
      BY <1>5, <2>3 DEF Wave!pull, Wave!task, WaveInv, Inside
    <3>0. fifo # <<>> /\ need \in Int /\ fifo[1].n \in Int /\ fifo[1].i \in Int
      BY <1>t, <2>1 DEF Word
    <3>n. need = fifo[1].n - fifo[1].i + 1
      BY <3>0, <3>1 DEF Stream
    <3>a. need' = fifo[1].n - fifo[1].i
      BY ONLY <3>0, <3>n, <3>1
    <3>2. Stream'
      BY <1>t, <2>1, <3>1, <3>a, NextWanted
    <3>b. InOrder /\ UNCHANGED started
      BY <1>5, <2>3 DEF Wave!pull, WaveInv
    <3>c. \A m \in 1..Len(fifo') :
               /\ fifo'[m].i = 1 => \A k \in 1..m - 1 : fifo'[k].pkt < fifo'[m].pkt
               /\ fifo'[m].pkt <= pkt
               /\ wave_pc # "receive" /\ ~Inside => fifo'[m].pkt < pkt
      BY <1>t, <2>1, <3>b, OrderTaken
    <3>d. \A m \in 1..Len(fifo') : m + 1 \in 2..Len(fifo) /\ fifo'[m] = fifo[m + 1]
      BY <1>t, <2>1
    <3>3. InOrder'
      <4>1. \A k \in 1..Len(started) : \A m \in 1..Len(fifo') :
               fifo'[m].i = 1 => started[k].pkt < fifo'[m].pkt
        <5>1. \A m \in 1..Len(fifo') : m + 1 \in 1..Len(fifo)
          BY <1>t, <3>d
        <5>2. QED  BY <3>b, <3>d, <5>1 DEF InOrder
      <4>2. QED  BY <3>1, <3>b, <3>c, <4>1 DEF InOrder
    <3>4. QED  BY <3>2, <3>3
  <2>4. QED  BY <1>5, <2>2, <2>3 DEF WaveInv, Wave!pull
<1>6. CASE Wave!init_wave_sm
  <2>1. fifo' = <<>> /\ <<>> \in Seq(Word) /\ Len(fifo') = 0
    BY <1>6 DEF Wave!init_wave_sm
  <2>2. WaveTypes'
    BY <1>6, <2>1 DEF Wave!init_wave_sm, Wave!task, WaveInv, WaveTypes, Wave!TypeOK
  <2>3. ASSUME ~torn' PROVE Stream' /\ InOrder'
    <3>1. ~torn /\ ~Inside
      BY <1>6, <2>3 DEF Wave!init_wave_sm, Inside
    <3>2. QED
      BY <1>6, <1>t, <2>1, <3>1 DEF Wave!init_wave_sm, Wave!task, WaveInv, Stream, InOrder, Inside
  <2>4. QED  BY <2>2, <2>3 DEF WaveInv
<1>7. ASSUME \/ Wave!disable \/ Wave!free \/ Wave!set_initialized \/ Wave!wavegen_enable
             \/ UNCHANGED wave_vars
      PROVE  WaveInv'
  <2>1. UNCHANGED <<fifo, need, started, wave_pc, pkt, i, n, torn>>
    BY <1>7 DEF Wave!disable, Wave!free, Wave!set_initialized, Wave!wavegen_enable, wave_vars,
                Wave!sm, Wave!task
  <2>a. initialized' \in BOOLEAN /\ enabled' \in BOOLEAN
    BY <1>7, Zenon DEF Wave!disable, Wave!free, Wave!set_initialized, Wave!wavegen_enable,
         Wave!Enables, Wave!sm, wave_vars, WaveInv, WaveTypes, Wave!TypeOK
  <2>b. /\ rpc' \in {"idle", "free", "init", "set", "enable"} /\ reinits' \in 0..MaxReinits
    BY <1>7 DEF Wave!disable, Wave!free, Wave!set_initialized, Wave!wavegen_enable,
         wave_vars, WaveInv, WaveTypes, Wave!TypeOK
  <2>2. Wave!TypeOK'
    BY <2>a, <2>b, <2>1 DEF WaveInv, WaveTypes, Wave!TypeOK
  <2>3. QED  BY <2>1, <2>2 DEF WaveInv, WaveTypes, Stream, InOrder, Inside
<1>8. QED
  BY <1>1, <1>2, <1>3, <1>4, <1>5, <1>6, <1>7
  DEF Wave!Next, Wave!wavegen_send, Wave!wavegen_program, Wave!wavegen_reinit, Wave!restart

\* WaveInv holds at first.
LEMMA WaveInit == Wave!Init => WaveInv
<1> USE WaveConstants
<1> SUFFICES ASSUME Wave!Init PROVE WaveInv
  OBVIOUS
<1>1. <<>> \in Seq(Word) /\ Len(<<>>) = 0
  OBVIOUS
<1>2. WaveTypes
  <2>1. initialized \in BOOLEAN /\ enabled \in BOOLEAN /\ torn \in BOOLEAN
    BY Zenon DEF Wave!Init
  <2>2. QED  BY <1>1, <2>1 DEF Wave!Init, WaveTypes, Wave!TypeOK
<1>3. Stream /\ InOrder
  BY <1>1 DEF Wave!Init, Stream, InOrder, Inside
<1>4. QED  BY <1>2, <1>3 DEF WaveInv

\* As long as no restart of the generator fell between two words of a packet, the
\* state machine reads every byte count from a first word, for every FIFO depth
\* and every length of packet.
THEOREM Framing == Spec => []FramedUnlessTorn
<1>1. Init => WaveInv
  BY WaveInit DEF Init
<1>2. WaveInv /\ [Next]_vars => WaveInv'
  BY WaveStep DEF Next, vars, wave_vars
<1>3. WaveInv => FramedUnlessTorn
  BY DEF WaveInv, InOrder, FramedUnlessTorn, Wave!FramedUnlessTorn, Wave!Framed
<1>4. QED  BY <1>1, <1>2, <1>3, PTL DEF Spec

-----------------------------------------------------------------------------
(* ServiceMode *)

Busy == {"limit_on", "power_on", "settle", "idle_check", "recheck", "send", "recovery"}
Settled == {"hold", "power_off", "limit_off", "done"}

\* The power and the limit, by where the task is.
Powered ==
    /\ svc_pc \in {"idle", "limit_on", "done"} => state = "OFF" /\ ~override
    /\ svc_pc = "power_on" => state = "OFF" /\ override
    /\ svc_pc \in {"settle", "idle_check", "recheck", "send", "recovery", "hold", "power_off"}
          => override
    /\ svc_pc = "limit_off" => state = "OFF"

\* The bits a read has so far: without noise only bits of the CV, and with no ACK
\* lost all of those it has asked for.
BitsSoFar ==
    svc_pc \in Busy /\ ~req.write =>
        /\ v \subseteq 0..step - 1
        /\ v # {} => any_ack
        /\ spurious = 0 => v \subseteq cv /\ (v # {} => present)
        /\ lost = 0 /\ present => \A b \in cv : b < step => b \in v

\* What the answer to the instruction just sent says, for a read ...
ReadAnswer ==
    svc_pc = "recovery" /\ ~req.write =>
        /\ step < Bits /\ ack /\ spurious = 0 => present /\ step \in cv
        /\ step < Bits /\ lost = 0 /\ present /\ step \in cv => ack
        /\ step = Bits /\ ack => \/ spurious > 1
                                 \/ spurious = 1 /\ (lost > 0 \/ ~present)
                                 \/ present /\ cv = v
        /\ step = Bits /\ lost = 0 /\ present /\ cv = v => ack

\* ... and for a write.
WriteAnswer ==
    svc_pc = "recovery" /\ req.write /\ ack => spurious > 0 \/ (present /\ cv = req.value)

\* The result once it is settled.
SettledIsTrue ==
    svc_pc \in Settled =>
        /\ res = "OK" => \/ spurious > 1
                         \/ spurious = 1 /\ (lost > 0 \/ req.write \/ ~present)
                         \/ present /\ cv = IF req.write THEN req.value ELSE value
        /\ res = "NO_LOCO" => ~present \/ lost > 0

SvcInv == Svc!TypeOK /\ Powered /\ BitsSoFar /\ ReadAnswer /\ WriteAnswer /\ SettledIsTrue

\* The constants of the programming track.
LEMMA SvcConstants ==
    /\ Bits \in Nat \ {0} /\ READ_ATTEMPTS \in Nat \ {0} /\ IDLE_RECHECKS \in Nat
    /\ MaxSpurious \in Nat /\ MaxJobs \in Nat
BY CvAccessAssumption DEF Svc!ServiceModeAssumption

\* The fields of an operation.
LEMMA OpFields ==
    ASSUME NEW op \in Svc!Ops
    PROVE  op.write \in BOOLEAN /\ op.value \in Svc!Values
BY DEF Svc!Ops, Svc!Values

\* The task's steps that only switch the track or wait.
Waits ==
    \/ Svc!raise_limit \/ Svc!power_on \/ Svc!settled \/ Svc!recheck
    \/ Svc!hold \/ Svc!power_off \/ Svc!restore_limit \/ Svc!done

\* The power and the limit follow where the task is.
LEMMA PoweredStep ==
    ASSUME Svc!TypeOK, Powered, [Svc!Next]_svc_vars
    PROVE  Powered'
<1>1. ASSUME NEW op \in Svc!Ops, Svc!servicemode_submit(op) PROVE Powered'
  BY <1>1 DEF Svc!servicemode_submit, Powered
<1>2. CASE Svc!motor_trip
  BY <1>2 DEF Svc!motor_trip, Powered
<1>3. CASE Svc!motor_restore
  <2>1. svc_pc \in {"settle", "recheck", "recovery", "hold"}
    BY <1>3 DEF Svc!motor_restore, Svc!DelayMs
  <2>2. QED  BY <1>3, <2>1 DEF Svc!motor_restore, Powered
<1>4. CASE Svc!place_decoder
  BY <1>4 DEF Svc!place_decoder, Powered
<1>5. CASE Svc!receive
  BY <1>5 DEF Svc!receive, Svc!Step, Powered
<1>6. CASE Waits
  BY <1>6 DEF Waits, Svc!raise_limit, Svc!power_on, Svc!settled, Svc!recheck, Svc!hold,
              Svc!power_off, Svc!restore_limit, Svc!done, Svc!Step, Powered
<1>7. ASSUME /\ svc_pc \in {"idle_check", "send", "recovery"} /\ UNCHANGED <<state, override>>
             /\ svc_pc' \in {"send", "recheck", "recovery", "hold", "power_off"}
      PROVE  Powered'
  BY <1>7 DEF Powered
<1>8. ASSUME NEW high \in BOOLEAN, Svc!idle_settles(high) PROVE Powered'
  <2>1. svc_pc' \in {"send", "recheck", "recovery", "hold", "power_off"}
    BY <1>8 DEF Svc!idle_settles, Svc!End
  <2>2. QED  BY <1>7, <1>8, <2>1 DEF Svc!idle_settles
<1>9. ASSUME NEW stores \in BOOLEAN, Svc!hw_send_short(stores) PROVE Powered'
  BY <1>7, <1>9 DEF Svc!hw_send_short, Svc!End
<1>10. ASSUME NEW stores \in BOOLEAN, NEW a \in BOOLEAN, Svc!hw_send(a, stores) PROVE Powered'
  BY <1>7, <1>10 DEF Svc!hw_send
<1>11. CASE Svc!recovered
  <2>1. svc_pc' \in {"send", "recheck", "recovery", "hold", "power_off"}
    BY <1>11 DEF Svc!recovered, Svc!svc_cv_write, Svc!svc_cv_read, Svc!End
  <2>2. QED  BY <1>7, <1>11, <2>1 DEF Svc!recovered
<1>12. CASE UNCHANGED svc_vars
  BY <1>12 DEF svc_vars, Powered
<1>13. QED
  BY <1>1, <1>2, <1>3, <1>4, <1>5, <1>6, <1>8, <1>9, <1>10, <1>11, <1>12
  DEF Svc!Next, Svc!task_servicemode, Waits

\* The instruction is over, or another follows: types of what svc_cv_read and
\* svc_cv_write assign.
LEMMA RecoveredTypes ==
    ASSUME Svc!TypeOK, Svc!recovered
    PROVE  /\ attempt' \in 0..READ_ATTEMPTS - 1 /\ step' \in 0..Bits /\ v' \in Svc!Values
           /\ any_ack' \in BOOLEAN
           /\ res' \in {"OK", "NO_ACK", "NO_LOCO", "SHORT"} /\ value' \in Svc!Values
           /\ svc_pc' \in {"send", "hold", "power_off"}
<1> USE SvcConstants
<1>t. /\ attempt \in 0..READ_ATTEMPTS - 1 /\ step \in 0..Bits /\ v \in Svc!Values
      /\ res \in {"OK", "NO_ACK", "NO_LOCO", "SHORT"} /\ value \in Svc!Values
  BY DEF Svc!TypeOK
<1>b. any_ack \in BOOLEAN /\ ack \in BOOLEAN
  BY Zenon DEF Svc!TypeOK
<1>1. any_ack' \in BOOLEAN
  <2>1. any_ack' = any_ack \/ any_ack' = (any_ack \/ ack)
    BY DEF Svc!recovered, Svc!svc_cv_write, Svc!svc_cv_read
  <2>2. QED  BY <1>b, <2>1, Zenon
<1>2. CASE Svc!track_tripped
  BY <1>1, <1>2, <1>t DEF Svc!recovered, Svc!End
<1>3. CASE ~Svc!track_tripped /\ req.write
  BY <1>1, <1>3, <1>t DEF Svc!recovered, Svc!svc_cv_write, Svc!End
<1>4. CASE ~Svc!track_tripped /\ ~req.write
  <2> Svc!svc_cv_read
    BY <1>4 DEF Svc!recovered
  <2>1. CASE step < Bits
    <3>1. step \in 0..Bits - 1
      BY <1>t, <2>1
    <3>2. v \union {step} \in Svc!Values
      BY <1>t, <3>1 DEF Svc!Values
    <3>3. /\ v' = (IF ack THEN v \union {step} ELSE v) /\ step' = step + 1 /\ svc_pc' = "send"
          /\ UNCHANGED <<attempt, res, value>>
      BY <2>1 DEF Svc!svc_cv_read
    <3>4. step' \in 0..Bits /\ v' \in Svc!Values
      BY <1>t, <3>1, <3>2, <3>3
    <3>5. QED  BY <1>1, <1>t, <3>3, <3>4
  <2>2. CASE step = Bits
    <3>1. {} \in Svc!Values
      BY DEF Svc!Values
    <3>2. ~(step < Bits)
      BY <1>t, <2>2
    <3>3. CASE ack
      BY <1>1, <1>t, <2>2, <3>2, <3>3 DEF Svc!svc_cv_read, Svc!End
    <3>4. CASE ~ack /\ Svc!MoreAttempts
      <4>1. /\ attempt' = attempt + 1 /\ step' = 0 /\ v' = {} /\ svc_pc' = "send"
            /\ UNCHANGED <<res, value>>
        BY <2>2, <3>2, <3>4 DEF Svc!svc_cv_read
      <4>2. attempt' \in 0..READ_ATTEMPTS - 1 /\ step' \in 0..Bits
        BY <1>t, <3>4, <4>1 DEF Svc!MoreAttempts
      <4>3. QED  BY <1>1, <1>t, <3>1, <4>1, <4>2
    <3>5. CASE ~ack /\ ~Svc!MoreAttempts
      BY <1>1, <1>t, <2>2, <3>2, <3>5 DEF Svc!svc_cv_read, Svc!ReadFailed, Svc!End
    <3>6. QED  BY <3>3, <3>4, <3>5
  <2>3. QED  BY <1>t, <2>1, <2>2
<1>5. QED  BY <1>2, <1>3, <1>4

\* Svc!TypeOK is inductive.
LEMMA SvcTypesStep ==
    ASSUME Svc!TypeOK, [Svc!Next]_svc_vars
    PROVE  Svc!TypeOK'
<1> USE SvcConstants
<1>t. /\ g_queue \subseteq Svc!Ops /\ (\A x, y \in g_queue : x = y) /\ req \in Svc!Ops
      /\ svc_pc \in {"idle", "limit_on", "power_on", "settle", "idle_check", "recheck", "send",
                     "recovery", "hold", "power_off", "limit_off", "done"}
      /\ attempt \in 0..READ_ATTEMPTS - 1 /\ step \in 0..Bits /\ v \in Svc!Values
      /\ res \in {"OK", "NO_ACK", "NO_LOCO", "SHORT"} /\ value \in Svc!Values
      /\ rechecks \in 0..IDLE_RECHECKS
      /\ state \in {"OFF", "ON", "OVERLOAD"} /\ cv \in Svc!Values
      /\ lost \in 0..1 /\ spurious \in 0..MaxSpurious /\ jobs \in 0..MaxJobs
      /\ {any_ack, ack, override, present, tripped} \subseteq BOOLEAN
  BY Zenon DEF Svc!TypeOK
<1>v. req.write \in BOOLEAN /\ req.value \in Svc!Values
  BY <1>t, OpFields
<1>1. ASSUME NEW op \in Svc!Ops, Svc!servicemode_submit(op) PROVE Svc!TypeOK'
  <2>2. g_queue' = {op}
    BY <1>1 DEF Svc!servicemode_submit
  <2>4. jobs' \in 0..MaxJobs
    BY <1>1, <1>t DEF Svc!servicemode_submit
  <2>5. g_queue' \subseteq Svc!Ops /\ \A x, y \in g_queue' : x = y
    BY <2>2
  <2>6. QED
    BY <1>1, <1>t, <2>4, <2>5
    DEF Svc!servicemode_submit, Svc!progress, Svc!faults, Svc!TypeOK
<1>2. CASE Svc!motor_trip
  <2>1. tripped' \in BOOLEAN
    BY <1>2, Zenon DEF Svc!motor_trip
  <2>2. {any_ack', ack', override', present', tripped'} \subseteq BOOLEAN
    BY <1>2, <1>t, <2>1 DEF Svc!motor_trip, Svc!progress
  <2>3. QED  BY <1>2, <1>t, <2>2 DEF Svc!motor_trip, Svc!progress, Svc!TypeOK
<1>3. CASE Svc!motor_restore
  BY <1>3, <1>t DEF Svc!motor_restore, Svc!progress, Svc!faults, Svc!TypeOK
<1>4. CASE Svc!place_decoder
  <2>1. present' \in BOOLEAN
    BY <1>4, Zenon DEF Svc!place_decoder
  <2>2. {any_ack', ack', override', present', tripped'} \subseteq BOOLEAN
    BY <1>4, <1>t, <2>1 DEF Svc!place_decoder, Svc!progress, Svc!faults
  <2>3. QED  BY <1>4, <1>t, <2>2 DEF Svc!place_decoder, Svc!progress, Svc!faults, Svc!TypeOK
<1>5. CASE Svc!receive
  <2>1. /\ req' \in Svc!Ops /\ value' = req'.value /\ {} \in Svc!Values
        /\ g_queue' = {}
    BY <1>5, <1>t DEF Svc!receive, Svc!Values
  <2>2. value' \in Svc!Values
    BY <2>1, OpFields
  <2>3. {any_ack', ack', override', present', tripped'} \subseteq BOOLEAN
    BY <1>5, <1>t DEF Svc!receive
  <2>a. /\ attempt' \in 0..READ_ATTEMPTS - 1 /\ step' \in 0..Bits /\ rechecks' \in 0..IDLE_RECHECKS
        /\ lost' \in 0..1 /\ spurious' \in 0..MaxSpurious
    BY <1>5 DEF Svc!receive
  <2>b. svc_pc' = "limit_on" /\ v' \in Svc!Values /\ UNCHANGED <<res, state, cv, jobs>>
    BY <1>5, <2>1 DEF Svc!receive, Svc!Step
  <2>4. QED  BY <1>t, <2>1, <2>2, <2>3, <2>a, <2>b DEF Svc!TypeOK
<1>6. CASE Waits
  <2>1. /\ UNCHANGED <<g_queue, req, ack, attempt, step, v, any_ack, rechecks, res, value, present,
                       cv, lost, spurious, tripped, jobs>>
        /\ svc_pc' \in {"power_on", "settle", "idle_check", "power_off", "limit_off", "done", "idle"}
        /\ state' \in {"OFF", "ON", "OVERLOAD"}
    BY <1>6, <1>t DEF Waits, Svc!raise_limit, Svc!power_on, Svc!settled, Svc!recheck, Svc!hold,
              Svc!power_off, Svc!restore_limit, Svc!done, Svc!Step, Svc!progress, Svc!faults
  <2>2. override' \in {override, TRUE, FALSE}
    BY <1>6 DEF Waits, Svc!raise_limit, Svc!power_on, Svc!settled, Svc!recheck, Svc!hold,
              Svc!power_off, Svc!restore_limit, Svc!done
  <2>3. {any_ack', ack', override', present', tripped'} \subseteq BOOLEAN
    BY <1>t, <2>1, <2>2
  <2>4. QED  BY <1>t, <2>1, <2>3 DEF Svc!TypeOK
<1>8. ASSUME NEW high \in BOOLEAN, Svc!idle_settles(high) PROVE Svc!TypeOK'
  <2>1. /\ svc_pc' \in {"send", "recheck", "hold", "power_off"}
        /\ res' \in {res, "SHORT"}
    BY <1>8 DEF Svc!idle_settles, Svc!End
  <2>2. rechecks' \in 0..IDLE_RECHECKS
    BY <1>8, <1>t DEF Svc!idle_settles
  <2>3. QED  BY <1>8, <1>t, <2>1, <2>2 DEF Svc!idle_settles, Svc!faults, Svc!TypeOK
<1>9. ASSUME NEW stores \in BOOLEAN, Svc!hw_send_short(stores) PROVE Svc!TypeOK'
  <2>1. cv' \in Svc!Values /\ svc_pc' \in {"hold", "power_off"} /\ res' = "SHORT"
    BY <1>9, <1>t, <1>v DEF Svc!hw_send_short, Svc!End
  <2>2. QED  BY <1>9, <1>t, <2>1 DEF Svc!hw_send_short, Svc!progress, Svc!faults, Svc!TypeOK
<1>10. ASSUME NEW stores \in BOOLEAN, NEW a \in BOOLEAN, Svc!hw_send(a, stores) PROVE Svc!TypeOK'
  <2>1. cv' \in Svc!Values /\ svc_pc' = "recovery" /\ lost' \in 0..1
    BY <1>10, <1>t, <1>v DEF Svc!hw_send
  <2>2. spurious' \in 0..MaxSpurious
    BY <1>10, <1>t DEF Svc!hw_send
  <2>3. {any_ack', ack', override', present', tripped'} \subseteq BOOLEAN
    BY <1>10, <1>t DEF Svc!hw_send, Svc!progress
  <2>4. QED  BY <1>10, <1>t, <2>1, <2>2, <2>3 DEF Svc!hw_send, Svc!progress, Svc!TypeOK
<1>11. CASE Svc!recovered
  <2>1. {any_ack', ack', override', present', tripped'} \subseteq BOOLEAN
    BY <1>11, <1>t, RecoveredTypes DEF Svc!recovered, Svc!faults
  <2>2. QED  BY <1>11, <1>t, <2>1, RecoveredTypes DEF Svc!recovered, Svc!faults, Svc!TypeOK
<1>12. CASE UNCHANGED svc_vars
  BY <1>12, <1>t DEF svc_vars, Svc!TypeOK
<1>13. QED
  BY <1>1, <1>2, <1>3, <1>4, <1>5, <1>6, <1>8, <1>9, <1>10, <1>11, <1>12
  DEF Svc!Next, Svc!task_servicemode, Waits

\* What a read or write knows, and what was settled.
Answers == BitsSoFar /\ ReadAnswer /\ WriteAnswer /\ SettledIsTrue

\* A step between two waits of an operation that leaves what it knows alone.
LEMMA AnswersKept ==
    ASSUME Answers,
           UNCHANGED <<req, step, v, any_ack, ack, res, value, present, cv, lost, spurious>>,
           \/ svc_pc' = svc_pc
           \/ svc_pc \in Busy /\ svc_pc' \in Busy \ {"recovery"}
           \/ svc_pc \in Settled /\ svc_pc' \in Settled
           \/ svc_pc' = "idle"
    PROVE  Answers'
<1>1. CASE svc_pc' = svc_pc
  BY <1>1 DEF Answers, BitsSoFar, ReadAnswer, WriteAnswer, SettledIsTrue
<1>2. CASE svc_pc \in Busy /\ svc_pc' \in Busy \ {"recovery"}
  BY <1>2 DEF Answers, BitsSoFar, ReadAnswer, WriteAnswer, SettledIsTrue, Busy, Settled
<1>3. CASE svc_pc \in Settled /\ svc_pc' \in Settled
  BY <1>3 DEF Answers, BitsSoFar, ReadAnswer, WriteAnswer, SettledIsTrue, Busy, Settled
<1>4. CASE svc_pc' = "idle"
  BY <1>4 DEF Answers, BitsSoFar, ReadAnswer, WriteAnswer, SettledIsTrue, Busy, Settled
<1>5. QED  BY <1>1, <1>2, <1>3, <1>4

\* An operation that ends without a value.
LEMMA AnswersEnd ==
    ASSUME svc_pc' \in Settled, res' \notin {"OK", "NO_LOCO"}
    PROVE  Answers'
BY DEF Answers, BitsSoFar, ReadAnswer, WriteAnswer, SettledIsTrue, Busy, Settled

\* A burst went out, and the verdict may be wrong.
LEMMA SendAnswers ==
    ASSUME Svc!TypeOK, Answers, NEW stores \in BOOLEAN, NEW a \in BOOLEAN, Svc!hw_send(a, stores)
    PROVE  Answers'
<1> USE SvcConstants
<1>t. /\ req \in Svc!Ops /\ step \in 0..Bits /\ v \subseteq 0..Bits - 1 /\ cv \subseteq 0..Bits - 1
      /\ lost \in 0..1 /\ spurious \in Nat
  BY DEF Svc!TypeOK, Svc!Values
<1>s. /\ svc_pc = "send" /\ svc_pc' = "recovery" /\ ack' = a
      /\ UNCHANGED <<req, step, v, any_ack, res, value, present>>
      /\ Svc!Truth(stores) /\ ~a => lost' = 1
      /\ ~(Svc!Truth(stores) /\ ~a) => lost' = lost
      /\ ~Svc!Truth(stores) /\ a => spurious' = spurious + 1
      /\ ~(~Svc!Truth(stores) /\ a) => spurious' = spurious
      /\ cv' = IF Svc!WritesNow /\ present /\ stores THEN req.value ELSE cv
  BY DEF Svc!hw_send, Svc!progress
<1>n. /\ spurious' = 0 => spurious = 0 /\ (a => Svc!Truth(stores))
      /\ lost' = 0 => lost = 0 /\ (Svc!Truth(stores) => a)
  BY <1>s, <1>t
<1>1. SettledIsTrue'
  BY <1>s DEF SettledIsTrue, Settled
<1>2. CASE req.write
  <2>1. BitsSoFar' /\ ReadAnswer'
    BY <1>2, <1>s DEF BitsSoFar, ReadAnswer
  <2>2. Svc!Truth(stores) => present /\ cv' = req.value
    <3>1. CASE Svc!WritesNow
      BY <1>2, <1>s, <3>1 DEF Svc!Truth
    <3>2. CASE ~Svc!WritesNow
      BY <1>2, <1>s, <3>2 DEF Svc!Truth
    <3>3. QED  BY <3>1, <3>2
  <2>3. WriteAnswer'
    BY <1>s, <1>t, <2>2 DEF WriteAnswer
  <2>4. QED  BY <1>1, <2>1, <2>3 DEF Answers
<1>3. CASE ~req.write
  <2>1. WriteAnswer'
    BY <1>3, <1>s DEF WriteAnswer
  <2>2. ~Svc!WritesNow /\ cv' = cv
    BY <1>3, <1>s DEF Svc!WritesNow
  <2>b. /\ v \subseteq 0..step - 1
        /\ v # {} => any_ack
        /\ spurious = 0 => v \subseteq cv /\ (v # {} => present)
        /\ lost = 0 /\ present => \A b \in cv : b < step => b \in v
    BY <1>3, <1>s DEF Answers, BitsSoFar, Busy
  <2>3. BitsSoFar'
    BY <1>s, <1>n, <2>2, <2>b DEF BitsSoFar
  <2>4. CASE step < Bits
    <3>2. step # Bits
      BY <1>t, <2>4
    <3>1. Svc!Truth(stores) <=> present /\ step \in cv
      BY <1>3, <2>2, <2>4, <3>2 DEF Svc!Truth
    <3>3. ReadAnswer'
      BY <1>s, <1>n, <2>2, <3>1, <3>2 DEF ReadAnswer
    <3>4. QED  BY <1>1, <2>1, <2>3, <3>3 DEF Answers
  <2>5. CASE step = Bits
    <3>0. ~(step < Bits)
      BY <1>t, <2>5
    <3>1. Svc!Truth(stores) <=> present /\ v = cv
      BY <1>3, <2>2, <2>5, <3>0 DEF Svc!Truth
    <3>2. spurious = 0 /\ lost = 0 /\ present => v = cv
      <4>1. \A b \in cv : b < step
        BY <1>t, <2>5
      <4>2. QED  BY <2>b, <4>1
    <3>3. a => \/ spurious' > 1
               \/ spurious' = 1 /\ (lost' > 0 \/ ~present)
               \/ present /\ cv = v
      BY <1>s, <1>t, <3>1, <3>2
    <3>4. ReadAnswer'
      BY <1>s, <1>n, <2>2, <3>0, <3>1, <3>3 DEF ReadAnswer
    <3>5. QED  BY <1>1, <2>1, <2>3, <3>4 DEF Answers
  <2>6. QED  BY <1>t, <2>4, <2>5
<1>4. QED  BY <1>2, <1>3

\* The answer is used: the next bit, the verify, the next attempt or the result.
LEMMA RecoveredAnswers ==
    ASSUME Svc!TypeOK, Answers, Svc!recovered
    PROVE  Answers'
<1> USE SvcConstants
<1>t. /\ req \in Svc!Ops /\ step \in 0..Bits /\ v \subseteq 0..Bits - 1 /\ cv \subseteq 0..Bits - 1
      /\ lost \in 0..1 /\ spurious \in Nat
  BY DEF Svc!TypeOK, Svc!Values
<1>s. svc_pc = "recovery" /\ UNCHANGED <<req, ack, present, cv, lost, spurious>>
  BY DEF Svc!recovered, Svc!faults
<1>1. CASE Svc!track_tripped
  <2>1. svc_pc' \in Settled /\ res' = "SHORT"
    BY <1>1 DEF Svc!recovered, Svc!End, Settled
  <2>2. QED  BY <2>1, AnswersEnd
<1>2. CASE ~Svc!track_tripped /\ req.write
  <2>1. Svc!svc_cv_write
    BY <1>2 DEF Svc!recovered
  <2>2. CASE svc_pc' = "send"
    BY <1>2, <1>s, <2>2 DEF Answers, BitsSoFar, ReadAnswer, WriteAnswer, SettledIsTrue, Settled
  <2>3. CASE svc_pc' # "send"
    <3>1. svc_pc' \in Settled /\ res' = IF ack THEN "OK" ELSE "NO_ACK"
      BY <2>1, <2>3 DEF Svc!svc_cv_write, Svc!End, Settled
    <3>2. CASE ~ack
      BY <3>1, <3>2, AnswersEnd
    <3>3. CASE ack
      <4>1. spurious > 0 \/ (present /\ cv = req.value)
        BY <1>2, <1>s, <3>3 DEF Answers, WriteAnswer
      <4>2. SettledIsTrue'
        BY <1>2, <1>s, <1>t, <3>1, <3>3, <4>1 DEF SettledIsTrue
      <4>3. BitsSoFar' /\ ReadAnswer' /\ WriteAnswer'
        BY <1>2, <1>s, <3>1 DEF BitsSoFar, ReadAnswer, WriteAnswer, Settled
      <4>4. QED  BY <4>2, <4>3 DEF Answers
    <3>4. QED  BY <3>2, <3>3
  <2>4. QED  BY <2>2, <2>3
<1>3. CASE ~Svc!track_tripped /\ ~req.write
  <2>1. Svc!svc_cv_read
    BY <1>3 DEF Svc!recovered
  <2>b. /\ v \subseteq 0..step - 1
        /\ v # {} => any_ack
        /\ spurious = 0 => v \subseteq cv /\ (v # {} => present)
        /\ lost = 0 /\ present => \A b \in cv : b < step => b \in v
    BY <1>3, <1>s DEF Answers, BitsSoFar, Busy
  <2>r. /\ step < Bits /\ ack /\ spurious = 0 => present /\ step \in cv
        /\ step < Bits /\ lost = 0 /\ present /\ step \in cv => ack
        /\ step = Bits /\ ack => \/ spurious > 1
                                 \/ spurious = 1 /\ (lost > 0 \/ ~present)
                                 \/ present /\ cv = v
        /\ step = Bits /\ lost = 0 /\ present /\ cv = v => ack
    BY <1>3, <1>s DEF Answers, ReadAnswer
  <2>2. CASE step < Bits
    <3>1. /\ v' = (IF ack THEN v \union {step} ELSE v) /\ any_ack' = (any_ack \/ ack)
          /\ step' = step + 1 /\ svc_pc' = "send"
      BY <2>1, <2>2 DEF Svc!svc_cv_read
    <3>2. v' \subseteq 0..step' - 1
      BY <1>t, <2>b, <3>1
    <3>3. v' # {} => any_ack'
      BY <2>b, <3>1
    <3>4. spurious = 0 => v' \subseteq cv /\ (v' # {} => present)
      BY <2>2, <2>b, <2>r, <3>1
    <3>5. lost = 0 /\ present => \A b \in cv : b < step' => b \in v'
      <4>1. SUFFICES ASSUME lost = 0, present, NEW b \in cv, b < step' PROVE b \in v'
        OBVIOUS
      <4>2. CASE b < step
        BY <2>b, <3>1, <4>1, <4>2
      <4>3. CASE b = step
        BY <2>2, <2>r, <3>1, <4>1, <4>3
      <4>4. QED  BY <1>t, <3>1, <4>1, <4>2, <4>3
    <3>6. BitsSoFar'
      BY <1>s, <3>2, <3>3, <3>4, <3>5 DEF BitsSoFar
    <3>7. QED
      BY <3>1, <3>6 DEF Answers, ReadAnswer, WriteAnswer, SettledIsTrue, Settled
  <2>3. CASE step = Bits /\ ack
    <3>0. ~(step < Bits)
      BY <1>t, <2>3
    <3>1. value' = v /\ res' = "OK" /\ svc_pc' = "power_off"
      BY <1>3, <2>1, <2>3, <3>0 DEF Svc!svc_cv_read, Svc!End
    <3>2. SettledIsTrue'
      BY <1>3, <1>s, <2>3, <2>r, <3>1 DEF SettledIsTrue
    <3>3. QED  BY <3>1, <3>2 DEF Answers, BitsSoFar, ReadAnswer, WriteAnswer, Busy
  <2>4. CASE step = Bits /\ ~ack /\ Svc!MoreAttempts
    <3>0. ~(step < Bits)
      BY <1>t, <2>4
    <3>1. step' = 0 /\ v' = {} /\ svc_pc' = "send"
      BY <2>1, <2>4, <3>0 DEF Svc!svc_cv_read
    <3>2. \A b \in cv : ~(b < step')
      BY <1>t, <3>1
    <3>3. BitsSoFar'
      BY <1>s, <3>1, <3>2 DEF BitsSoFar
    <3>4. QED  BY <3>1, <3>3 DEF Answers, ReadAnswer, WriteAnswer, SettledIsTrue, Settled
  <2>5. CASE step = Bits /\ ~ack /\ ~Svc!MoreAttempts
    <3>0. ~(step < Bits)
      BY <1>t, <2>5
    <3>1. /\ svc_pc' \in Settled /\ res' \in {"NO_ACK", "NO_LOCO"}
          /\ res' = "NO_LOCO" => ~any_ack
      BY <2>1, <2>5, <3>0 DEF Svc!svc_cv_read, Svc!ReadFailed, Svc!End, Settled
    <3>2. ~any_ack => ~present \/ lost > 0
      <4>1. SUFFICES ASSUME ~any_ack, present, lost = 0 PROVE FALSE
        BY <1>t
      <4>2. \A b \in cv : b < step
        BY <1>t, <2>5
      <4>3. v = {} /\ cv = {}
        BY <2>b, <4>1, <4>2
      <4>4. QED  BY <2>5, <2>r, <4>1, <4>3
    <3>3. SettledIsTrue'
      BY <1>s, <3>1, <3>2 DEF SettledIsTrue
    <3>4. QED  BY <3>1, <3>3 DEF Answers, BitsSoFar, ReadAnswer, WriteAnswer, Busy, Settled
  <2>6. QED  BY <1>t, <2>2, <2>3, <2>4, <2>5
<1>4. QED  BY <1>1, <1>2, <1>3

\* What an operation knows is preserved by every step.
LEMMA AnswersStep ==
    ASSUME Svc!TypeOK, Answers, [Svc!Next]_svc_vars
    PROVE  Answers'
<1> USE DEF Busy, Settled
<1>1. ASSUME NEW op \in Svc!Ops, Svc!servicemode_submit(op) PROVE Answers'
  BY <1>1, AnswersKept DEF Svc!servicemode_submit, Svc!progress, Svc!faults
<1>2. CASE Svc!motor_trip
  BY <1>2, AnswersKept DEF Svc!motor_trip, Svc!progress
<1>3. CASE Svc!motor_restore
  BY <1>3, AnswersKept DEF Svc!motor_restore, Svc!progress, Svc!faults
<1>4. CASE Svc!place_decoder
  BY <1>4 DEF Svc!place_decoder, Answers, BitsSoFar, ReadAnswer, WriteAnswer, SettledIsTrue
<1>5. CASE Svc!receive
  <2>1. svc_pc' = "limit_on" /\ step' = 0 /\ v' = {} /\ UNCHANGED cv
    BY <1>5 DEF Svc!receive, Svc!Step
  <2>2. cv' \subseteq 0..Bits - 1
    BY <2>1 DEF Svc!TypeOK, Svc!Values
  <2>3. \A b \in cv' : ~(b < step')
    BY <2>1, <2>2, SvcConstants
  <2>4. BitsSoFar'
    BY <2>1, <2>3 DEF BitsSoFar
  <2>5. QED  BY <2>1, <2>4 DEF Answers, ReadAnswer, WriteAnswer, SettledIsTrue
<1>6. CASE Waits
  BY <1>6, AnswersKept
  DEF Waits, Svc!raise_limit, Svc!power_on, Svc!settled, Svc!recheck, Svc!hold, Svc!power_off,
      Svc!restore_limit, Svc!done, Svc!Step, Svc!progress, Svc!faults
<1>7. ASSUME NEW high \in BOOLEAN, Svc!idle_settles(high) PROVE Answers'
  <2>1. CASE svc_pc' \in {"send", "recheck"}
    <3>1. res' = res
      BY <1>7, <2>1 DEF Svc!idle_settles, Svc!End
    <3>2. QED  BY <1>7, <2>1, <3>1, AnswersKept DEF Svc!idle_settles, Svc!faults
  <2>2. CASE svc_pc' \notin {"send", "recheck"}
    BY <1>7, <2>2, AnswersEnd DEF Svc!idle_settles, Svc!End
  <2>3. QED  BY <2>1, <2>2
<1>8. ASSUME NEW stores \in BOOLEAN, Svc!hw_send_short(stores) PROVE Answers'
  BY <1>8, AnswersEnd DEF Svc!hw_send_short, Svc!End
<1>9. ASSUME NEW stores \in BOOLEAN, NEW a \in BOOLEAN, Svc!hw_send(a, stores) PROVE Answers'
  BY <1>9, SendAnswers
<1>10. CASE Svc!recovered
  BY <1>10, RecoveredAnswers
<1>11. CASE UNCHANGED svc_vars
  BY <1>11, AnswersKept DEF svc_vars
<1>12. QED
  BY <1>1, <1>2, <1>3, <1>4, <1>5, <1>6, <1>7, <1>8, <1>9, <1>10, <1>11
  DEF Svc!Next, Svc!task_servicemode, Waits

\* The invariant holds at the start ...
LEMMA SvcInit == Svc!Init => SvcInv
<1> SUFFICES ASSUME Svc!Init PROVE SvcInv
  OBVIOUS
<1>1. req \in Svc!Ops /\ {} \in Svc!Values
  BY DEF Svc!Init, Svc!Ops, Svc!Values
<1>a. {any_ack, ack, override, present, tripped} \subseteq BOOLEAN
  BY DEF Svc!Init
<1>b. /\ attempt \in 0..READ_ATTEMPTS - 1 /\ step \in 0..Bits /\ rechecks \in 0..IDLE_RECHECKS
      /\ lost \in 0..1 /\ spurious \in 0..MaxSpurious /\ jobs \in 0..MaxJobs
  BY SvcConstants DEF Svc!Init
<1>2. Svc!TypeOK
  BY <1>1, <1>a, <1>b DEF Svc!Init, Svc!TypeOK
<1>3. QED
  BY <1>2 DEF Svc!Init, SvcInv, Powered, BitsSoFar, ReadAnswer, WriteAnswer, SettledIsTrue,
              Busy, Settled

\* ... and after every step of the programming track.
LEMMA SvcStep ==
    ASSUME SvcInv, [Svc!Next]_svc_vars
    PROVE  SvcInv'
BY PoweredStep, SvcTypesStep, AnswersStep DEF SvcInv, Answers

(* What svc_cv_read and svc_cv_write report is what the decoder holds,      *)
(* NO_LOCO is never reported of a decoder all of whose ACKs were seen, and  *)
(* task_servicemode powers the track only under the main track's limit:     *)
(* for CVs of any width, any number of attempts and any pattern of lost     *)
(* ACKs, noise and short circuits.                                          *)
THEOREM ServiceMode == Spec => []ServiceModeIsTrue
<1>1. Init => SvcInv
  BY SvcInit DEF Init
<1>2. SvcInv /\ [Next]_vars => SvcInv'
  BY SvcStep DEF Next, vars, svc_vars
<1>3. SvcInv => ServiceModeIsTrue
  <2> SUFFICES ASSUME SvcInv PROVE ServiceModeIsTrue
    OBVIOUS
  <2>1. svc_pc \in Busy \union Settled \union {"idle"}
    BY DEF SvcInv, Svc!TypeOK, Busy, Settled
  <2>2. Svc!PoweredUnderMainLimit
    BY DEF SvcInv, Svc!TypeOK, Powered, Svc!PoweredUnderMainLimit
  <2>3. Svc!ReportedValueIsTrue /\ Svc!NoLocoIsTrue
    BY DEF SvcInv, SettledIsTrue, Settled, Svc!ReportedValueIsTrue, Svc!NoLocoIsTrue
  <2>4. QED  BY <2>2, <2>3 DEF ServiceModeIsTrue
<1>4. QED  BY <1>1, <1>2, <1>3, PTL DEF Spec

-----------------------------------------------------------------------------
(* Arithmetic of the ring's indices *)

\* Division with remainder.
LEMMA Remainder ==
    ASSUME NEW a \in Int, NEW b \in Nat \ {0}
    PROVE  a % b \in 0..b - 1 /\ a \div b \in Int /\ a = b * (a \div b) + (a % b)
OBVIOUS

\* The remainder is unique.
LEMMA RemainderUnique ==
    ASSUME NEW b \in Nat \ {0}, NEW q \in Int, NEW s \in 0..b - 1
    PROVE  (b * q + s) % b = s
<1> DEFINE a == b * q + s
           p == a \div b
           u == a % b
<1>1. u \in 0..b - 1 /\ p \in Int /\ a = b * p + u
  BY Remainder
<1> HIDE DEF p, u
<1>2. b * (q - p) = u - s
  BY <1>1
<1>3. CASE q - p >= 1
  <2>1. b * (q - p) >= b
    BY <1>1, <1>3
  <2>2. QED  BY <1>1, <1>2, <2>1
<1>4. CASE q - p <= -1
  <2>1. b * (q - p) <= -b
    BY <1>1, <1>4
  <2>2. QED  BY <1>1, <1>2, <2>1
<1>5. CASE q = p
  <2>1. u = s
    BY <1>1, <1>2, <1>5
  <2>2. QED  BY <2>1 DEF u
<1>6. QED  BY <1>1, <1>3, <1>4, <1>5

\* A multiple of the modulus does not count.
LEMMA RemainderShift ==
    ASSUME NEW a \in Int, NEW b \in Nat \ {0}, NEW k \in Int
    PROVE  (a + b * k) % b = a % b
<1> DEFINE q == a \div b
           s == a % b
<1>1. s \in 0..b - 1 /\ q \in Int /\ a = b * q + s
  BY Remainder
<1> HIDE DEF q, s
<1>2. a + b * k = b * (q + k) + s /\ q + k \in Int
  BY <1>1
<1>3. (b * (q + k) + s) % b = s
  BY <1>1, <1>2, RemainderUnique
<1>4. QED  BY <1>2, <1>3 DEF s

\* A remainder may be taken before a sum ...
LEMMA RemainderAdd ==
    ASSUME NEW a \in Int, NEW c \in Int, NEW b \in Nat \ {0}
    PROVE  ((a % b) + c) % b = (a + c) % b
<1> DEFINE q == a \div b
           s == a % b
<1>1. s \in 0..b - 1 /\ q \in Int /\ a = b * q + s
  BY Remainder
<1> HIDE DEF q, s
<1>2. a + c = (s + c) + b * q /\ s + c \in Int
  BY <1>1
<1>3. ((s + c) + b * q) % b = (s + c) % b
  BY <1>1, <1>2, RemainderShift
<1>4. QED  BY <1>2, <1>3 DEF s

\* ... and before a difference,
LEMMA RemainderSub ==
    ASSUME NEW a \in Int, NEW c \in Int, NEW b \in Nat \ {0}
    PROVE  ((a % b) - (c % b)) % b = (a - c) % b
<1> DEFINE q == c \div b
           s == c % b
           u == a % b
<1>1. s \in 0..b - 1 /\ q \in Int /\ c = b * q + s /\ u \in Int
  BY Remainder
<1>a. \A d \in Int : (u + d) % b = (a + d) % b
  BY RemainderAdd
<1> HIDE DEF q, s, u
<1>b. -s \in Int
  BY <1>1
<1>2. (u + (-s)) % b = (a + (-s)) % b
  BY <1>a, <1>b
<1>3. u + (-s) = u - s /\ a + (-s) = (a - c) + b * q /\ a - c \in Int
  BY <1>1
<1>4. ((a - c) + b * q) % b = (a - c) % b
  BY <1>1, <1>3, RemainderShift
<1>5. QED  BY <1>2, <1>3, <1>4 DEF s, u

\* ... and for a multiple of the modulus first.
LEMMA RemainderOfMultiple ==
    ASSUME NEW a \in Int, NEW c \in Int, NEW b \in Nat \ {0}, NEW m \in Nat \ {0}, m % b = 0
    PROVE  ((a % m) + c) % b = (a + c) % b
<1> DEFINE q == a \div m
           s == a % m
           k == m \div b
<1>1. s \in 0..m - 1 /\ q \in Int /\ a = m * q + s
  BY Remainder
<1>2. k \in Int /\ m = b * k
  BY Remainder
<1> HIDE DEF q, s, k
<1>3. m * q = b * (k * q) /\ k * q \in Int
  BY <1>1, <1>2
<1>4. a + c = (s + c) + b * (k * q) /\ s + c \in Int
  BY <1>1, <1>3
<1>5. ((s + c) + b * (k * q)) % b = (s + c) % b
  BY <1>3, <1>4, RemainderShift
<1>6. QED  BY <1>4, <1>5 DEF s

\* Less than the modulus apart, numbers have different remainders.
LEMMA RemaindersApart ==
    ASSUME NEW a \in Int, NEW c \in Int, NEW b \in Nat \ {0}, a < c, c - a < b
    PROVE  a % b # c % b
<1>1. c - a \in 0..b - 1
  OBVIOUS
<1>2. (b * 0 + (c - a)) % b = c - a
  BY <1>1, RemainderUnique
<1>3. ((c % b) - (a % b)) % b = (c - a) % b
  BY RemainderSub
<1>4. b * 0 + (c - a) = c - a
  OBVIOUS
<1>5. c % b \in Int /\ a % b \in Int
  BY Remainder
<1>6. SUFFICES ASSUME a % b = c % b PROVE FALSE
  OBVIOUS
<1>7. (c % b) - (a % b) = b * 0 + 0
  BY <1>5, <1>6
<1>8. (b * 0 + 0) % b = 0
  BY RemainderUnique
<1>9. QED  BY <1>2, <1>3, <1>4, <1>7, <1>8

-----------------------------------------------------------------------------
(* RailcomRead *)

Words == {Rc!Word(p) : p \in Reads} \union {<<>>}

\* A cutout in which a value was answered to the packet before it.
Honest == {c \in Rc!Cutouts : c.ch2 \in Reads => c.packet = Rc!Word(c.ch2)}

ReadStates ==
    [packet : Words, attempts : 0..POM_READ_ATTEMPTS, answers : 0..POM_READ_COPIES,
     done : BOOLEAN, value : Reads \union {None}]

RcTypes ==
    /\ g_busy \in BOOLEAN /\ g_req_pending \in BOOLEAN /\ normal \in BOOLEAN
    /\ notified \in BOOLEAN /\ reading \in BOOLEAN
    /\ g_req \in Reads \union {None}
    /\ rc_pc \in {"wait", "drain", "pop", "poll", "clear"}
    /\ r \in ReadStates
    /\ air \in Seq(Reads) /\ Len(air) <= MaxAir
    /\ g_ring \in [0..RING_SIZE - 1 -> Rc!Cutouts \union {None}]
    /\ popped \in Rc!Cutouts \union {None}
    /\ ch2_seen \in 0..POM_READ_COPIES

\* The indices as if they did not wrap: the ring's slots from t to h hold queued.
RingAt(t, h) ==
    /\ t <= h /\ h - t <= RING_SIZE
    /\ g_tail = t % IndexModulus /\ g_head = h % IndexModulus
    /\ Len(queued) = h - t
    /\ \A k \in 1..h - t : queued[k] = g_ring[(t + k - 1) % RING_SIZE]

Ring ==
    /\ queued \in Seq(Honest)
    /\ \E t, h \in Nat : RingAt(t, h)
    /\ rc_pc = "pop" => queued # <<>> /\ popped = queued[1]

\* One read at a time, from the request to the callback.
OneRead ==
    /\ reading \/ g_req_pending \/ rc_pc = "clear" <=> g_busy
    /\ ~(reading /\ g_req_pending)
    /\ rc_pc = "clear" => ~reading /\ ~g_req_pending
    /\ rc_pc = "poll" => reading
    /\ reading \/ g_req_pending => g_req \in Reads
    /\ reading => r.packet = Rc!Word(g_req)
    /\ r.done => r.value \in Reads /\ Rc!Word(r.value) = r.packet

RcInv == RcTypes /\ Ring /\ OneRead /\ Rc!AnswerFromDecoder

\* The constants of the RailCom part: the ring's ...
LEMMA RcConstants ==
    /\ RING_SIZE \in Nat \ {0} /\ IndexModulus \in Nat \ {0}
    /\ IndexModulus % RING_SIZE = 0 /\ IndexModulus > RING_SIZE
BY CvAccessAssumption DEF Rc!RailcomAssumption

\* ... and the reads'.
LEMMA ReadConstants ==
    /\ Reads \subseteq [address : Nat, cv : 1..1024]
    /\ NoData \notin Reads /\ NoValue \notin Reads
    /\ POM_READ_COPIES \in Nat \ {0} /\ POM_READ_ATTEMPTS \in Nat \ {0}
    /\ MaxAir \in Nat
BY CvAccessAssumption DEF Rc!RailcomAssumption

\* A number is told by its quotient and its remainder (of a CV's: by its high bits and low byte).
LEMMA BytesTell ==
    ASSUME NEW a \in Int, NEW c \in Int, NEW b \in Nat \ {0},
           a \div b = c \div b, a % b = c % b
    PROVE  a = c
<1>1. a = b * (a \div b) + (a % b) /\ c = b * (c \div b) + (c % b)
  BY Remainder, Zenon
<1>2. QED  BY ONLY <1>1, a \div b = c \div b, a % b = c % b, Zenon

\* The first word of a packet tells the address, and with a short one the CV.
LEMMA WordTells ==
    ASSUME NEW p \in Reads, NEW q \in Reads, Rc!Word(p) = Rc!Word(q)
    PROVE  p.address = q.address /\ (q.address \notin Long => p = q)
<1>t. p \in [address : Nat, cv : 1..1024] /\ q \in [address : Nat, cv : 1..1024]
  BY ReadConstants
<1>1. Rc!Word(p)[1] = p.address /\ Rc!Word(q)[1] = q.address
  BY DEF Rc!Word
<1>2. p.address = q.address
  BY <1>1
<1>3. ASSUME q.address \notin Long PROVE p.cv = q.cv
  <2>1. /\ Rc!Word(p)[2] = (p.cv - 1) \div 256 /\ Rc!Word(p)[3] = (p.cv - 1) % 256
        /\ Rc!Word(q)[2] = (q.cv - 1) \div 256 /\ Rc!Word(q)[3] = (q.cv - 1) % 256
    BY <1>2, <1>3 DEF Rc!Word
  <2>2. PICK b \in Nat \ {0} : b = 256
    OBVIOUS
  <2>a. p.cv \in Int
    BY ONLY <1>t
  <2>b. q.cv \in Int
    BY ONLY <1>t
  <2>3. PICK x, y \in Int : x = p.cv - 1 /\ y = q.cv - 1
    BY ONLY <2>a, <2>b
  <2>4. x \div b = y \div b /\ x % b = y % b
    BY ONLY <2>1, <2>2, <2>3, Rc!Word(p) = Rc!Word(q)
  <2>5. x = y
    BY ONLY <2>4, BytesTell, Zenon
  <2>6. QED  BY ONLY <2>a, <2>b, <2>3, <2>5
<1>5. /\ p = [address |-> p.address, cv |-> p.cv]
      /\ q = [address |-> q.address, cv |-> q.cv]
  BY ONLY <1>t
<1>6. ASSUME q.address \notin Long PROVE p = q
  <2>1. p.cv = q.cv
    BY <1>3, <1>6, Zenon
  <2>2. QED  BY ONLY <1>2, <1>5, <2>1, Zenon
<1>7. QED  BY <1>2, <1>6, Zenon

\* The number of cutouts in the ring, from its indices.
LEMMA RingCount ==
    ASSUME NEW t \in Nat, NEW h \in Nat, RingAt(t, h)
    PROVE  (g_head - g_tail) % IndexModulus = h - t
<1> USE RcConstants
<1>1. ((h % IndexModulus) - (t % IndexModulus)) % IndexModulus = (h - t) % IndexModulus
  <2>1. t \in Int /\ h \in Int /\ IndexModulus \in Nat \ {0}
    OBVIOUS
  <2>2. QED  BY ONLY <2>1, RemainderSub, Zenon
<1>2. h - t \in 0..IndexModulus - 1
  BY DEF RingAt
<1>3. (IndexModulus * 0 + (h - t)) % IndexModulus = h - t
  BY <1>2, RemainderUnique
<1>4. IndexModulus * 0 + (h - t) = h - t
  BY <1>2
<1>5. QED  BY <1>1, <1>3, <1>4 DEF RingAt

\* The ring is read where it was written.
LEMMA RingFifo ==
    ASSUME Ring
    PROVE  Rc!RingIsFifo
<1> USE RcConstants
<1>1. PICK t, h \in Nat : RingAt(t, h)
  BY DEF Ring
<1>2. (g_head - g_tail) % IndexModulus = h - t
  BY <1>1, RingCount
<1>3. ASSUME NEW k \in 1..h - t
      PROVE  queued[k] = g_ring[(g_tail + k - 1) % RING_SIZE]
  <2>1. /\ k - 1 \in Int /\ t \in Int /\ IndexModulus \in Nat \ {0}
        /\ RING_SIZE \in Nat \ {0} /\ IndexModulus % RING_SIZE = 0
    BY <1>3
  <2>2. ((t % IndexModulus) + (k - 1)) % RING_SIZE = (t + (k - 1)) % RING_SIZE
    BY ONLY <2>1, RemainderOfMultiple, ZenonT(60)
  <2>3. t % IndexModulus \in Int
    BY Remainder
  <2>4. (t % IndexModulus) + (k - 1) = (t % IndexModulus) + k - 1 /\ t + (k - 1) = t + k - 1
    BY <2>1, <2>3
  <2>5. QED  BY <1>1, <2>2, <2>4 DEF RingAt
<1>4. queued = [k \in 1..h - t |-> g_ring[(g_tail + k - 1) % RING_SIZE]]
  <2>1. DOMAIN queued = 1..h - t /\ queued = [k \in DOMAIN queued |-> queued[k]]
    BY <1>1 DEF Ring, RingAt
  <2>2. QED  BY <1>3, <2>1, Zenon
<1>5. rc_pc = "pop" => popped = Head(queued)
  BY DEF Ring
<1>6. QED  BY <1>2, <1>4, <1>5 DEF Rc!RingIsFifo

\* An index that wraps names the same slot.
LEMMA SameSlot ==
    ASSUME NEW t \in Nat
    PROVE  (t % IndexModulus) % RING_SIZE = t % RING_SIZE /\ t % RING_SIZE \in 0..RING_SIZE - 1
<1>1. /\ t \in Int /\ 0 \in Int /\ IndexModulus \in Nat \ {0}
      /\ RING_SIZE \in Nat \ {0} /\ IndexModulus % RING_SIZE = 0
  BY RcConstants
<1>2. ((t % IndexModulus) + 0) % RING_SIZE = (t + 0) % RING_SIZE
  BY ONLY <1>1, RemainderOfMultiple, ZenonT(60)
<1>3. t % IndexModulus \in Int /\ t % RING_SIZE \in 0..RING_SIZE - 1
  BY ONLY <1>1, Remainder
<1>4. (t % IndexModulus) + 0 = t % IndexModulus /\ t + 0 = t
  BY <1>3
<1>5. QED  BY <1>2, <1>3, <1>4, Zenon

\* A cutout is put into the ring: what it does there.
LEMMA PushRing ==
    ASSUME RcTypes, Ring, NEW c \in Honest, Rc!push_cutout(c), UNCHANGED <<rc_pc, popped>>
    PROVE  Ring' /\ notified' \in BOOLEAN
           /\ g_ring' \in [0..RING_SIZE - 1 -> Rc!Cutouts \union {None}]
<1> USE RcConstants
<1>1. PICK t, h \in Nat : RingAt(t, h)
  BY DEF Ring
<1>2. (g_head - g_tail) % IndexModulus = h - t
  BY <1>1, RingCount
<1>q. queued \in Seq(Honest) /\ Len(queued) = h - t /\ t <= h
  BY <1>1 DEF Ring, RingAt
<1>3. CASE Rc!RingFull
  <2>1. UNCHANGED <<g_ring, g_head, g_tail, queued, notified>>
    BY <1>3 DEF Rc!push_cutout, Rc!ring
  <2>a. RingAt(t, h)'
    BY <1>1, <2>1, Zenon DEF RingAt
  <2>2. Ring'
    BY <2>1, <2>a DEF Ring
  <2>3. QED  BY <2>1, <2>2 DEF RcTypes
<1>4. CASE ~Rc!RingFull
  <2>1. h - t < RING_SIZE
    BY <1>1, <1>2, <1>4 DEF Rc!RingFull, RingAt
  <2>2. /\ g_ring' = [g_ring EXCEPT ![g_head % RING_SIZE] = c]
        /\ g_head' = (g_head + 1) % IndexModulus /\ g_tail' = g_tail
        /\ queued' = Append(queued, c) /\ notified' = TRUE
    BY <1>4 DEF Rc!push_cutout
  <2>3. g_head' = (h + 1) % IndexModulus
    <3>1. h \in Int /\ 1 \in Int /\ IndexModulus \in Nat \ {0}
      OBVIOUS
    <3>2. ((h % IndexModulus) + 1) % IndexModulus = (h + 1) % IndexModulus
      BY ONLY <3>1, RemainderAdd, Zenon
    <3>3. g_head = h % IndexModulus
      BY <1>1 DEF RingAt
    <3>4. QED  BY ONLY <2>2, <3>2, <3>3, Zenon
  <2>4. g_head % RING_SIZE = h % RING_SIZE
    BY <1>1, SameSlot, Zenon DEF RingAt
  <2>5. h % RING_SIZE \in 0..RING_SIZE - 1
    BY SameSlot
  <2>6. c \in Rc!Cutouts /\ DOMAIN g_ring = 0..RING_SIZE - 1
    BY DEF Honest, RcTypes
  <2>7. g_ring' \in [0..RING_SIZE - 1 -> Rc!Cutouts \union {None}]
    BY <2>2, <2>6 DEF RcTypes
  <2>8. queued' \in Seq(Honest) /\ Len(queued') = (h + 1) - t
    <3>1. queued' = Append(queued, c) /\ c \in Honest
      BY <2>2
    <3>2. QED  BY ONLY <1>q, <3>1, t \in Nat, h \in Nat
  <2>9. ASSUME NEW k \in 1..(h + 1) - t
        PROVE  queued'[k] = g_ring'[(t + k - 1) % RING_SIZE]
    <3>1. CASE k = (h + 1) - t
      <4>1. t + k - 1 = h
        BY <3>1
      <4>2. queued'[k] = c
        BY <1>q, <2>2, <3>1
      <4>3. g_ring'[h % RING_SIZE] = c
        BY <2>2, <2>4, <2>5, <2>6
      <4>4. QED  BY <4>1, <4>2, <4>3
    <3>2. CASE k < (h + 1) - t
      <4>1. k \in 1..h - t
        BY <3>2
      <4>2. queued'[k] = queued[k]
        BY <1>q, <2>2, <4>1
      <4>3. t + k - 1 \in Int /\ h \in Int /\ t + k - 1 < h /\ h - (t + k - 1) < RING_SIZE
        BY <1>1, <2>1, <4>1
      <4>a. RING_SIZE \in Nat \ {0}
        OBVIOUS
      <4>4. (t + k - 1) % RING_SIZE # h % RING_SIZE
        BY ONLY <4>3, <4>a, RemaindersApart, Zenon
      <4>5. (t + k - 1) % RING_SIZE \in 0..RING_SIZE - 1
        BY ONLY <4>3, <4>a, Remainder, Zenon
      <4>6. g_ring'[(t + k - 1) % RING_SIZE] = g_ring[(t + k - 1) % RING_SIZE]
        BY <2>2, <2>4, <2>6, <4>4, <4>5
      <4>7. QED  BY <1>1, <4>1, <4>2, <4>6 DEF RingAt
    <3>3. QED  BY <3>1, <3>2
  <2>10. RingAt(t, h + 1)'
    <3>1. t <= h + 1 /\ (h + 1) - t <= RING_SIZE
      BY <1>q, <2>1
    <3>2. g_tail' = t % IndexModulus
      BY <1>1, <2>2, Zenon DEF RingAt
    <3>3. QED  BY <2>3, <2>8, <2>9, <3>1, <3>2, Zenon DEF RingAt
  <2>11. rc_pc' = "pop" => queued' # <<>> /\ popped' = queued'[1]
    <3>1. SUFFICES ASSUME rc_pc = "pop" PROVE queued' # <<>> /\ popped' = queued'[1]
      OBVIOUS
    <3>2. queued # <<>> /\ popped = queued[1]
      BY <3>1 DEF Ring
    <3>3. QED  BY <1>q, <2>2, <3>2
  <2>12. Ring'
    <3>1. h + 1 \in Nat
      OBVIOUS
    <3>2. QED  BY <2>8, <2>10, <2>11, <3>1 DEF Ring
  <2>13. QED  BY <2>2, <2>7, <2>12
<1>5. QED  BY <1>3, <1>4

\* The oldest cutout leaves the ring.
LEMMA PopRing ==
    ASSUME RcTypes, Ring, Rc!ring_popped
    PROVE  Ring' /\ g_ring' \in [0..RING_SIZE - 1 -> Rc!Cutouts \union {None}]
<1> USE RcConstants
<1>1. PICK t, h \in Nat : RingAt(t, h)
  BY DEF Ring
<1>2. /\ rc_pc' = "drain" /\ g_tail' = (g_tail + 1) % IndexModulus /\ g_head' = g_head
      /\ g_ring' = [g_ring EXCEPT ![g_tail % RING_SIZE] = None]
      /\ queued' = Tail(queued)
  BY DEF Rc!ring_popped
<1>3. queued \in Seq(Honest) /\ queued # <<>>
  BY DEF Ring, Rc!ring_popped
<1>4. h - t >= 1
  BY <1>1, <1>3 DEF RingAt
<1>5. queued' \in Seq(Honest) /\ Len(queued') = h - (t + 1)
  BY <1>1, <1>2, <1>3 DEF RingAt
<1>6. g_tail' = (t + 1) % IndexModulus
  <2>1. t \in Int /\ 1 \in Int /\ IndexModulus \in Nat \ {0}
    OBVIOUS
  <2>2. ((t % IndexModulus) + 1) % IndexModulus = (t + 1) % IndexModulus
    BY ONLY <2>1, RemainderAdd, Zenon
  <2>3. QED  BY <1>1, <1>2, <2>2 DEF RingAt
<1>7. g_tail % RING_SIZE = t % RING_SIZE
  BY <1>1, SameSlot, Zenon DEF RingAt
<1>8. g_ring' \in [0..RING_SIZE - 1 -> Rc!Cutouts \union {None}] /\ DOMAIN g_ring = 0..RING_SIZE - 1
  BY <1>2 DEF RcTypes
<1>9. ASSUME NEW k \in 1..h - (t + 1)
      PROVE  queued'[k] = g_ring'[((t + 1) + k - 1) % RING_SIZE]
  <2>1. k + 1 \in 1..h - t /\ (t + 1) + k - 1 = t + (k + 1) - 1
    BY <1>9
  <2>2. queued'[k] = queued[k + 1]
    BY <1>2, <1>3, <1>1, <2>1 DEF RingAt
  <2>3. /\ t \in Int /\ t + (k + 1) - 1 \in Int /\ t < t + (k + 1) - 1
        /\ (t + (k + 1) - 1) - t < RING_SIZE /\ RING_SIZE \in Nat \ {0}
    BY <1>1, <2>1 DEF RingAt
  <2>4. t % RING_SIZE # (t + (k + 1) - 1) % RING_SIZE
    BY ONLY <2>3, RemaindersApart, Zenon
  <2>5. (t + (k + 1) - 1) % RING_SIZE \in 0..RING_SIZE - 1
    BY ONLY <2>3, Remainder, Zenon
  <2>6. g_ring'[(t + (k + 1) - 1) % RING_SIZE] = g_ring[(t + (k + 1) - 1) % RING_SIZE]
    BY <1>2, <1>7, <1>8, <2>4, <2>5
  <2>7. QED  BY <1>1, <2>1, <2>2, <2>6 DEF RingAt
<1>10. RingAt(t + 1, h)'
  <2>1. t + 1 <= h /\ h - (t + 1) <= RING_SIZE
    BY <1>1, <1>4 DEF RingAt
  <2>2. g_head' = h % IndexModulus
    BY <1>1, <1>2, Zenon DEF RingAt
  <2>3. QED  BY <1>5, <1>6, <1>9, <2>1, <2>2, Zenon DEF RingAt
<1>11. t + 1 \in Nat
  OBVIOUS
<1>12. QED  BY <1>2, <1>5, <1>8, <1>10, <1>11 DEF Ring

\* What the task copies out is the oldest cutout.
LEMMA CopyRing ==
    ASSUME RcTypes, Ring, Rc!ring_pop
    PROVE  Ring' /\ popped' \in Rc!Cutouts
<1> USE RcConstants
<1>1. PICK t, h \in Nat : RingAt(t, h)
  BY DEF Ring
<1>2. /\ g_tail # g_head /\ popped' = g_ring[g_tail % RING_SIZE]
      /\ UNCHANGED <<g_ring, g_head, g_tail, queued>>
  BY DEF Rc!ring_pop, Rc!ring
<1>3. h - t >= 1 /\ queued \in Seq(Honest) /\ Len(queued) = h - t
  BY <1>1, <1>2 DEF RingAt, Ring
<1>4. queued # <<>> /\ queued[1] \in Honest /\ 1 \in 1..h - t
  BY <1>3
<1>5. g_tail % RING_SIZE = t % RING_SIZE
  BY <1>1, SameSlot, Zenon DEF RingAt
<1>6. t + 1 - 1 = t
  OBVIOUS
<1>7. popped' = queued[1]
  BY <1>1, <1>2, <1>4, <1>5, <1>6 DEF RingAt
<1>8. RingAt(t, h)'
  BY <1>1, <1>2, Zenon DEF RingAt
<1>9. QED  BY <1>2, <1>3, <1>4, <1>7, <1>8 DEF Ring, Honest

\* The fields of a read and of a cutout.
LEMMA ReadFields ==
    ASSUME NEW x \in ReadStates
    PROVE  /\ x = [packet |-> x.packet, attempts |-> x.attempts, answers |-> x.answers,
                   done |-> x.done, value |-> x.value]
           /\ x.packet \in Words /\ x.attempts \in 0..POM_READ_ATTEMPTS
           /\ x.answers \in 0..POM_READ_COPIES /\ x.done \in BOOLEAN
           /\ x.value \in Reads \union {None}
BY DEF ReadStates

LEMMA CutoutFields ==
    ASSUME NEW c \in Rc!Cutouts
    PROVE  c.packet \in Words /\ c.ch2 \in Reads \union {NoData, NoValue}
BY DEF Rc!Cutouts, Words

LEMMA NoReadType == Rc!NoRead \in ReadStates /\ ~Rc!NoRead.done
BY ReadConstants DEF Rc!NoRead, ReadStates, Words

\* A cutout taken out of the ring changes nothing of a read but its answer.
LEMMA CutoutTaken ==
    ASSUME RcTypes, OneRead, NEW c \in Honest
    PROVE  LET x == Rc!pom_read_cutout(c)
           IN  /\ x \in ReadStates /\ x.packet = r.packet
               /\ x.done => x.value \in Reads /\ Rc!Word(x.value) = x.packet
<1> DEFINE x == Rc!pom_read_cutout(c)
<1>f. /\ r \in ReadStates /\ r.packet \in Words /\ r.attempts \in 0..POM_READ_ATTEMPTS
      /\ r.answers \in 0..POM_READ_COPIES /\ r.done \in BOOLEAN
      /\ r.value \in Reads \union {None}
  BY ReadFields DEF RcTypes
<1>h. c.ch2 \in Reads => c.packet = Rc!Word(c.ch2)
  BY DEF Honest
<1>d. r.done => r.value \in Reads /\ Rc!Word(r.value) = r.packet
  BY DEF OneRead
<1>1. CASE ~reading \/ r.done \/ ~Rc!Matches(c)
  <2>1. x = r
    BY <1>1 DEF Rc!pom_read_cutout
  <2>2. QED  BY <1>f, <1>d, <2>1
<1>2. CASE ~(~reading \/ r.done \/ ~Rc!Matches(c)) /\ c.ch2 \in Reads
  <2>1. x = [r EXCEPT !.done = TRUE, !.value = c.ch2]
    BY <1>2 DEF Rc!pom_read_cutout
  <2>2. x \in ReadStates /\ x.packet = r.packet /\ x.value = c.ch2
    BY <1>2, <1>f, <2>1 DEF ReadStates
  <2>3. Rc!Word(c.ch2) = r.packet
    BY <1>2, <1>h DEF Rc!Matches
  <2>4. QED  BY <1>2, <2>2, <2>3
<1>3. CASE ~(~reading \/ r.done \/ ~Rc!Matches(c)) /\ c.ch2 \notin Reads
  <2>1. x = [r EXCEPT !.answers = IF @ < POM_READ_COPIES THEN @ + 1 ELSE @]
    BY <1>3 DEF Rc!pom_read_cutout
  <2>2. (IF r.answers < POM_READ_COPIES THEN r.answers + 1 ELSE r.answers) \in 0..POM_READ_COPIES
    BY <1>f, ReadConstants
  <2>3. x \in ReadStates /\ x.packet = r.packet /\ x.done = r.done /\ x.value = r.value
    BY <1>f, <2>1, <2>2 DEF ReadStates
  <2>4. QED  BY <1>d, <2>3
<1>4. QED  BY <1>1, <1>2, <1>3

\* Two sequences, one after the other.
LEMMA Concatenated ==
    ASSUME NEW S, NEW x \in Seq(S), NEW y \in Seq(S)
    PROVE  x \o y \in Seq(S) /\ Len(x \o y) = Len(x) + Len(y)
OBVIOUS

\* A step that leaves the read alone.
LEMMA OneReadKept ==
    ASSUME OneRead, UNCHANGED <<g_busy, g_req, g_req_pending, reading, r>>,
           rc_pc' = rc_pc \/ (rc_pc # "clear" /\ rc_pc' \in {"wait", "drain", "pop"})
    PROVE  OneRead'
BY DEF OneRead

\* A step that leaves the ring alone.
LEMMA RingKept ==
    ASSUME Ring, UNCHANGED <<g_ring, g_head, g_tail, queued>>,
           UNCHANGED <<rc_pc, popped>> \/ rc_pc' # "pop"
    PROVE  Ring'
<1>1. PICK t, h \in Nat : RingAt(t, h)
  BY DEF Ring
<1>2. RingAt(t, h)'
  BY <1>1, Zenon DEF RingAt
<1>3. QED  BY <1>2 DEF Ring

\* RcInv is inductive.
LEMMA RcStep ==
    ASSUME RcInv, [Rc!Next]_rc_vars
    PROVE  RcInv'
<1>c. POM_READ_COPIES \in Nat \ {0} /\ POM_READ_ATTEMPTS \in Nat \ {0} /\ MaxAir \in Nat
  BY ReadConstants
<1>t. RcTypes /\ Ring /\ OneRead /\ Rc!AnswerFromDecoder
  BY DEF RcInv
<1>f. /\ r \in ReadStates /\ r.packet \in Words /\ r.attempts \in 0..POM_READ_ATTEMPTS
      /\ r.answers \in 0..POM_READ_COPIES /\ r.done \in BOOLEAN
      /\ r.value \in Reads \union {None}
  BY <1>t, ReadFields DEF RcTypes
<1>a. ASSUME result' = result PROVE Rc!AnswerFromDecoder'
  BY <1>a, <1>t DEF Rc!AnswerFromDecoder
<1>1. ASSUME NEW p \in Reads, Rc!railcom_pom_read(p) PROVE RcInv'
  <2>1. RcTypes'
    BY <1>1, <1>t DEF Rc!railcom_pom_read, Rc!ring, Rc!history, RcTypes
  <2>2. Ring'
    BY <1>1, <1>t, RingKept DEF Rc!railcom_pom_read, Rc!ring
  <2>3. OneRead'
    BY <1>1, <1>t DEF Rc!railcom_pom_read, Rc!ReadRefused, OneRead
  <2>4. QED  BY <1>1, <1>a, <2>1, <2>2, <2>3 DEF Rc!railcom_pom_read, Rc!history, RcInv
<1>2. CASE Rc!set_railcom
  <2>1. normal' \in BOOLEAN
    BY <1>2, Zenon DEF Rc!set_railcom
  <2>2. RcTypes'
    BY <1>2, <1>t, <2>1 DEF Rc!set_railcom, Rc!request, Rc!ring, Rc!history, RcTypes
  <2>3. Ring'
    BY <1>2, <1>t, RingKept DEF Rc!set_railcom, Rc!ring
  <2>4. OneRead'
    BY <1>2, <1>t, OneReadKept DEF Rc!set_railcom, Rc!request
  <2>5. QED  BY <1>2, <1>a, <2>2, <2>3, <2>4 DEF Rc!set_railcom, Rc!history, RcInv
<1>3. CASE Rc!cutout_isr
  <2>0. /\ air # <<>> /\ air' = Tail(air)
        /\ UNCHANGED <<g_busy, g_req, g_req_pending, normal, rc_pc, reading, r, popped, ch2_seen,
                       result>>
    BY <1>3 DEF Rc!cutout_isr, Rc!request, Rc!history
  <2>a. /\ air \in Seq(Reads) /\ Len(air) <= MaxAir /\ Head(air) \in Reads
        /\ air' \in Seq(Reads) /\ Len(air') <= MaxAir
    BY <1>c, <1>t, <2>0 DEF RcTypes
  <2>1. /\ Ring' /\ notified' \in BOOLEAN
        /\ g_ring' \in [0..RING_SIZE - 1 -> Rc!Cutouts \union {None}]
    <3>1. CASE UNCHANGED <<Rc!ring, notified>>
      <4>1. Ring'
        BY <1>t, <2>0, <3>1, RingKept DEF Rc!ring
      <4>2. QED  BY <1>t, <3>1, <4>1 DEF Rc!ring, RcTypes
    <3>2. ASSUME NEW ch2 \in {NoData, NoValue, Head(air)},
                 Rc!push_cutout([packet |-> Rc!Word(Head(air)), ch2 |-> ch2])
          PROVE  /\ Ring' /\ notified' \in BOOLEAN
                 /\ g_ring' \in [0..RING_SIZE - 1 -> Rc!Cutouts \union {None}]
      <4>1. [packet |-> Rc!Word(Head(air)), ch2 |-> ch2] \in Honest
        BY <2>a, <3>2, ReadConstants DEF Honest, Rc!Cutouts
      <4>2. QED  BY <1>t, <2>0, <3>2, <4>1, PushRing
    <3>3. QED  BY <1>3, <3>1, <3>2 DEF Rc!cutout_isr
  <2>2. RcTypes'
    BY <1>t, <2>0, <2>a, <2>1 DEF RcTypes
  <2>3. OneRead'
    BY <1>t, <2>0, OneReadKept
  <2>4. QED  BY <1>a, <2>0, <2>1, <2>2, <2>3 DEF RcInv
<1>4. CASE Rc!other_cutout
  <2>0. UNCHANGED <<g_busy, g_req, g_req_pending, normal, rc_pc, reading, r, air, popped, ch2_seen,
                    result>>
    BY <1>4 DEF Rc!other_cutout, Rc!request, Rc!history
  <2>1. [packet |-> <<>>, ch2 |-> NoValue] \in Honest
    BY ReadConstants DEF Honest, Rc!Cutouts
  <2>2. /\ Ring' /\ notified' \in BOOLEAN
        /\ g_ring' \in [0..RING_SIZE - 1 -> Rc!Cutouts \union {None}]
    BY <1>4, <1>t, <2>0, <2>1, PushRing DEF Rc!other_cutout
  <2>3. RcTypes'
    BY <1>t, <2>0, <2>2 DEF RcTypes
  <2>4. OneRead'
    BY <1>t, <2>0, OneReadKept
  <2>5. QED  BY <1>a, <2>0, <2>2, <2>3, <2>4 DEF RcInv
<1>5. CASE Rc!task_wake
  <2>0. /\ rc_pc = "wait" /\ rc_pc' = "drain" /\ notified' = FALSE
        /\ UNCHANGED <<g_busy, g_req, normal, air, g_ring, g_head, g_tail, queued, popped,
                       ch2_seen, result>>
    BY <1>5 DEF Rc!task_wake, Rc!ring, Rc!history
  <2>1. Ring'
    BY <1>t, <2>0, RingKept
  <2>2. CASE g_req_pending
    <3>1. r' = Rc!pom_read_start(g_req) /\ reading' = TRUE /\ g_req_pending' = FALSE
      BY <1>5, <2>2 DEF Rc!task_wake
    <3>2. g_req \in Reads
      BY <1>t, <2>2 DEF OneRead
    <3>3. r' \in ReadStates /\ r'.packet = Rc!Word(g_req) /\ ~r'.done
      <4>1. Rc!Word(g_req) \in Words
        BY <3>2 DEF Words
      <4>2. r' = [packet |-> Rc!Word(g_req), attempts |-> 0, answers |-> 0, done |-> FALSE,
                  value |-> None]
        BY <3>1 DEF Rc!pom_read_start, Rc!NoRead
      <4>3. QED  BY <1>c, <4>1, <4>2 DEF ReadStates
    <3>4. RcTypes'
      BY <1>t, <2>0, <3>1, <3>3 DEF RcTypes
    <3>5. OneRead'
      BY <1>t, <2>0, <2>2, <3>1, <3>2, <3>3 DEF OneRead
    <3>6. QED  BY <1>a, <2>0, <2>1, <3>4, <3>5 DEF RcInv
  <2>3. CASE ~g_req_pending
    <3>1. UNCHANGED <<r, reading, g_req_pending>>
      BY <1>5, <2>3 DEF Rc!task_wake
    <3>2. RcTypes'
      BY <1>t, <2>0, <3>1 DEF RcTypes
    <3>3. OneRead'
      BY <1>t, <2>0, <3>1, OneReadKept
    <3>4. QED  BY <1>a, <2>0, <2>1, <3>2, <3>3 DEF RcInv
  <2>4. QED  BY <2>2, <2>3
<1>6. CASE Rc!ring_pop
  <2>0. /\ rc_pc = "drain" /\ rc_pc' = "pop"
        /\ UNCHANGED <<g_busy, g_req, g_req_pending, normal, notified, reading, r, air, g_ring,
                       ch2_seen, result>>
    BY <1>6 DEF Rc!ring_pop, Rc!request, Rc!ring, Rc!history
  <2>1. Ring' /\ popped' \in Rc!Cutouts
    BY <1>6, <1>t, CopyRing
  <2>2. RcTypes'
    BY <1>t, <2>0, <2>1 DEF RcTypes
  <2>3. OneRead'
    BY <1>t, <2>0, OneReadKept
  <2>4. QED  BY <1>a, <2>0, <2>1, <2>2, <2>3 DEF RcInv
<1>7. CASE Rc!ring_popped
  <2>0. /\ rc_pc = "pop" /\ rc_pc' = "drain" /\ popped' = None /\ r' = Rc!pom_read_cutout(popped)
        /\ UNCHANGED <<g_busy, g_req, g_req_pending, normal, notified, reading, air, result>>
    BY <1>7 DEF Rc!ring_popped, Rc!request
  <2>1. Ring' /\ g_ring' \in [0..RING_SIZE - 1 -> Rc!Cutouts \union {None}]
    BY <1>7, <1>t, PopRing
  <2>2. popped \in Honest
    BY <1>t, <2>0 DEF Ring
  <2>3. /\ r' \in ReadStates /\ r'.packet = r.packet
        /\ r'.done => r'.value \in Reads /\ Rc!Word(r'.value) = r'.packet
    BY <1>t, <2>0, <2>2, CutoutTaken
  <2>4. ch2_seen' \in 0..POM_READ_COPIES
    BY <1>7, <1>c, <1>t DEF Rc!ring_popped, RcTypes
  <2>5. RcTypes'
    BY <1>t, <2>0, <2>1, <2>3, <2>4 DEF RcTypes
  <2>6. OneRead'
    BY <1>t, <2>0, <2>3 DEF OneRead
  <2>7. QED  BY <1>a, <2>0, <2>1, <2>5, <2>6 DEF RcInv
<1>8. CASE Rc!drained
  <2>0. /\ rc_pc = "drain" /\ rc_pc' = (IF reading THEN "poll" ELSE "wait")
        /\ UNCHANGED <<g_busy, g_req, g_req_pending, normal, notified, reading, r, air, g_ring,
                       g_head, g_tail, queued, popped, ch2_seen, result>>
    BY <1>8 DEF Rc!drained, Rc!request, Rc!ring, Rc!history
  <2>1. Ring'
    BY <1>t, <2>0, RingKept
  <2>2. RcTypes'
    BY <1>t, <2>0 DEF RcTypes
  <2>3. OneRead'
    BY <1>t, <2>0 DEF OneRead
  <2>4. QED  BY <1>a, <2>0, <2>1, <2>2, <2>3 DEF RcInv
<1>9. ASSUME NEW late \in BOOLEAN, Rc!poll_send(late) PROVE RcInv'
  <2>0. /\ rc_pc = "poll" /\ rc_pc' = "wait" /\ r' = Rc!NextAttempt /\ ch2_seen' = 0
        /\ ~r.done /\ r.attempts < POM_READ_ATTEMPTS
        /\ UNCHANGED <<g_busy, g_req, g_req_pending, normal, notified, reading, g_ring,
                       g_head, g_tail, queued, popped, result>>
    BY <1>9 DEF Rc!poll_send, Rc!request, Rc!ring
  <2>1. Ring'
    BY <1>t, <2>0, RingKept
  <2>2. r.attempts + 1 \in 0..POM_READ_ATTEMPTS
    BY <1>c, <1>f, <2>0
  <2>3. r' \in ReadStates /\ r'.packet = r.packet /\ ~r'.done
    <3>1. r' = [r EXCEPT !.answers = 0, !.attempts = r.attempts + 1]
      BY <2>0 DEF Rc!NextAttempt
    <3>2. 0 \in 0..POM_READ_COPIES
      BY <1>c
    <3>3. QED  BY <1>f, <2>0, <2>2, <3>1, <3>2 DEF ReadStates
  <2>4. g_req \in Reads
    BY <1>t, <2>0 DEF OneRead
  <2>5. air' \in Seq(Reads) /\ Len(air') <= MaxAir
    <3>1. air \in Seq(Reads) /\ Len(air) <= MaxAir
      BY <1>t DEF RcTypes
    <3>2. CASE /\ Len(air) + POM_READ_COPIES <= MaxAir
               /\ air' = air \o [k \in 1..POM_READ_COPIES |-> g_req]
      <4> DEFINE copies == [k \in 1..POM_READ_COPIES |-> g_req]
      <4>1. copies \in Seq(Reads) /\ Len(copies) = POM_READ_COPIES
        BY <1>c, <2>4
      <4> HIDE DEF copies
      <4>2. air \o copies \in Seq(Reads) /\ Len(air \o copies) = Len(air) + POM_READ_COPIES
        BY <3>1, <4>1, Concatenated
      <4>3. air' = air \o copies
        BY <3>2 DEF copies
      <4>4. QED  BY <1>c, <3>1, <3>2, <4>2, <4>3
    <3>3. CASE UNCHANGED air
      BY <3>1, <3>3
    <3>4. QED  BY <1>9, <3>2, <3>3 DEF Rc!poll_send
  <2>6. RcTypes'
    BY <1>c, <1>t, <2>0, <2>3, <2>5 DEF RcTypes
  <2>7. OneRead'
    BY <1>t, <2>0, <2>3 DEF OneRead
  <2>8. QED  BY <1>a, <2>0, <2>1, <2>6, <2>7 DEF RcInv
<1>10. ASSUME NEW late \in BOOLEAN, Rc!poll_finish(late) PROVE RcInv'
  <2>0. /\ rc_pc = "poll" /\ rc_pc' = "clear" /\ r' = Rc!NoRead /\ ch2_seen' = 0 /\ reading' = FALSE
        /\ result' = [read |-> g_req, answered |-> r.done, value |-> r.value]
        /\ UNCHANGED <<g_busy, g_req, g_req_pending, normal, notified, air, g_ring,
                       g_head, g_tail, queued, popped>>
    BY <1>10 DEF Rc!poll_finish, Rc!request, Rc!ring
  <2>1. Ring'
    BY <1>t, <2>0, RingKept
  <2>2. RcTypes'
    <3>1. 0 \in 0..POM_READ_COPIES /\ r' \in ReadStates
      BY <1>c, <2>0, NoReadType
    <3>2. QED  BY <1>t, <2>0, <3>1 DEF RcTypes
  <2>3. reading /\ g_req \in Reads /\ r.packet = Rc!Word(g_req)
    BY <1>t, <2>0 DEF OneRead
  <2>4. OneRead'
    BY <1>t, <2>0, <2>3, NoReadType DEF OneRead
  <2>5. ASSUME r.done
        PROVE  /\ r.value.address = g_req.address
               /\ g_req.address \notin Long => r.value = g_req
    <3>1. r.value \in Reads /\ Rc!Word(r.value) = r.packet
      BY <1>t, <2>5 DEF OneRead
    <3>2. QED  BY <2>3, <3>1, WordTells
  <2>6. Rc!AnswerFromDecoder'
    <3>1. SUFFICES ASSUME r.done
                   PROVE  /\ r.value.address = g_req.address
                          /\ g_req.address \notin Long => r.value = g_req
      BY <2>0 DEF Rc!AnswerFromDecoder
    <3>2. QED  BY <2>5, <3>1
  <2>7. QED  BY <2>1, <2>2, <2>4, <2>6 DEF RcInv
<1>11. CASE Rc!poll_wait
  <2>0. /\ rc_pc = "poll" /\ rc_pc' = "wait"
        /\ UNCHANGED <<g_busy, g_req, g_req_pending, normal, notified, reading, r, air, g_ring,
                       g_head, g_tail, queued, popped, ch2_seen, result>>
    BY <1>11 DEF Rc!poll_wait, Rc!request, Rc!ring, Rc!history
  <2>1. Ring'
    BY <1>t, <2>0, RingKept
  <2>2. RcTypes'
    BY <1>t, <2>0 DEF RcTypes
  <2>3. OneRead'
    BY <1>t, <2>0, OneReadKept
  <2>4. QED  BY <1>a, <2>0, <2>1, <2>2, <2>3 DEF RcInv
<1>12. CASE Rc!clear_busy
  <2>0. /\ rc_pc = "clear" /\ rc_pc' = "wait" /\ g_busy' = FALSE /\ result' = None
        /\ UNCHANGED <<g_req, g_req_pending, normal, notified, reading, r, air, g_ring,
                       g_head, g_tail, queued, popped, ch2_seen>>
    BY <1>12 DEF Rc!clear_busy, Rc!ring
  <2>1. Ring'
    BY <1>t, <2>0, RingKept
  <2>2. RcTypes'
    BY <1>t, <2>0 DEF RcTypes
  <2>3. OneRead'
    BY <1>t, <2>0 DEF OneRead
  <2>4. Rc!AnswerFromDecoder'
    BY <2>0 DEF Rc!AnswerFromDecoder
  <2>5. QED  BY <2>1, <2>2, <2>3, <2>4 DEF RcInv
<1>13. CASE UNCHANGED rc_vars
  <2>1. Ring'
    BY <1>13, <1>t, RingKept DEF rc_vars
  <2>2. RcTypes'
    BY <1>13, <1>t DEF rc_vars, RcTypes
  <2>3. OneRead'
    BY <1>13, <1>t, OneReadKept DEF rc_vars
  <2>4. QED  BY <1>13, <1>a, <2>1, <2>2, <2>3 DEF rc_vars, RcInv
<1>14. QED
  BY <1>1, <1>2, <1>3, <1>4, <1>5, <1>6, <1>7, <1>8, <1>9, <1>10, <1>11, <1>12, <1>13
  DEF Rc!Next, Rc!task_railcom

\* The RailCom part starts with an empty ring and no read.
LEMMA RcInit == Rc!Init => RcInv
<1> SUFFICES ASSUME Rc!Init PROVE RcInv
  OBVIOUS
<1>c. POM_READ_COPIES \in Nat \ {0} /\ POM_READ_ATTEMPTS \in Nat \ {0} /\ MaxAir \in Nat
  BY ReadConstants
<1>1. RcTypes
  <2>1. r \in ReadStates
    BY NoReadType DEF Rc!Init
  <2>2. g_ring \in [0..RING_SIZE - 1 -> Rc!Cutouts \union {None}]
    BY DEF Rc!Init
  <2>3. air \in Seq(Reads) /\ Len(air) <= MaxAir /\ ch2_seen \in 0..POM_READ_COPIES
    BY <1>c DEF Rc!Init
  <2>4. QED  BY <2>1, <2>2, <2>3 DEF Rc!Init, RcTypes
<1>2. Ring
  <2>1. 0 \in Nat /\ 0 % IndexModulus = 0
    <3>1. IndexModulus \in Nat \ {0} /\ 0 \in Int /\ 0 \in 0..IndexModulus - 1
      BY RcConstants
    <3>2. (IndexModulus * 0 + 0) % IndexModulus = 0
      BY ONLY <3>1, RemainderUnique, Zenon
    <3>3. IndexModulus * 0 + 0 = 0
      BY <3>1
    <3>4. QED  BY <3>2, <3>3
  <2>2. 0 <= 0 /\ 0 - 0 <= RING_SIZE /\ 0 - 0 = 0 /\ 1..0 - 0 = {}
    BY RcConstants
  <2>3. queued = <<>> /\ g_tail = 0 /\ g_head = 0 /\ Len(queued) = 0
    BY DEF Rc!Init
  <2>4. RingAt(0, 0)
    BY <2>1, <2>2, <2>3 DEF RingAt
  <2>5. queued \in Seq(Honest)
    BY <2>3
  <2>6. QED  BY <2>1, <2>4, <2>5 DEF Ring, Rc!Init
<1>3. OneRead
  BY NoReadType DEF Rc!Init, OneRead
<1>4. Rc!AnswerFromDecoder
  BY DEF Rc!Init, Rc!AnswerFromDecoder
<1>5. QED  BY <1>1, <1>2, <1>3, <1>4 DEF RcInv

\* The steps of the whole module keep the RailCom invariant.
LEMMA RcAlways == Spec => []RcInv
<1>1. Init => RcInv
  BY RcInit DEF Init
<1>2. RcInv /\ [Next]_vars => RcInv'
  BY RcStep DEF Next, vars, rc_vars
<1>3. QED  BY <1>1, <1>2, PTL DEF Spec

(* push_cutout and ring_pop make a queue of the cutout ring, whenever the   *)
(* interrupt comes and through the wrap of its counters; railcom_pom_read   *)
(* lets one read in at a time; and the value a read returns comes from the  *)
(* decoder it asked, and from a short address is the CV it asked for.  For  *)
(* any ring size that divides the counters' range, any addresses and CVs.   *)
THEOREM Unmixed == Spec => []ReadsDoNotMix
<1>1. RcInv => ReadsDoNotMix
  <2> SUFFICES ASSUME RcInv PROVE ReadsDoNotMix
    OBVIOUS
  <2>1. Rc!RingIsFifo
    BY RingFifo DEF RcInv
  <2>2. Rc!ReadsAreExclusive
    BY DEF RcInv, OneRead, Rc!ReadsAreExclusive
  <2>3. QED  BY <2>1, <2>2 DEF RcInv, ReadsDoNotMix
<1>2. QED  BY <1>1, RcAlways, PTL

-----------------------------------------------------------------------------
(* SvcAck *)

\* Types; every sample has its time.
AckTypes ==
    /\ phase \in {"baseline", "listen", "done"}
    /\ ring \in Seq(Int) /\ Len(ring) = SVC_ACK_AVG_SAMPLES
    /\ ring_sum \in Int /\ ring_fill \in 0..SVC_ACK_AVG_SAMPLES
    /\ base_sum \in Int /\ base_n \in Int /\ base_peak_sum \in Int /\ threshold_sum \in Int
    /\ above \in BOOLEAN /\ above_since \in Nat /\ acked \in BOOLEAN
    /\ now \in Nat
    /\ sums \in Seq(Int) /\ times \in Seq(Nat) /\ Len(times) = Len(sums)

\* The sum of the first k samples, of the sums s.
At(s, k) == IF k > 0 THEN s[k] ELSE 0

\* The ring holds the last samples, and ring_sum, which smooth keeps up to date by
\* a subtraction and an addition, is their sum.
Averaged ==
    /\ \A k \in 1..SVC_ACK_AVG_SAMPLES :
          ring[k] = At(sums, Len(sums) - SVC_ACK_AVG_SAMPLES + k)
                    - At(sums, Len(sums) - SVC_ACK_AVG_SAMPLES + k - 1)
    /\ ring_sum = At(sums, Len(sums)) - At(sums, Len(sums) - SVC_ACK_AVG_SAMPLES)

\* The baseline's peak is that of every window it filled.
Baseline ==
    /\ ring_fill = IF Len(sums) < SVC_ACK_AVG_SAMPLES THEN Len(sums) ELSE SVC_ACK_AVG_SAMPLES
    /\ \A k \in 1..Len(times) : times[k] = 0
    /\ \A k \in SVC_ACK_AVG_SAMPLES..Len(sums) : Ack!Window(k) <= base_peak_sum

\* The rise that began at sample s goes on.
RiseFrom(s) ==
    /\ times[s] = above_since
    /\ \A k \in s..Len(times) : Ack!High(k)
    /\ ~Ack!High(s - 1)

\* Listening, after a baseline of at least a window: above tells a rise under way,
\* and above_since when it began.
Armed ==
    /\ Len(times) >= SVC_ACK_AVG_SAMPLES
    /\ \A k \in 1..SVC_ACK_AVG_SAMPLES : times[k] = 0
    /\ ~acked => /\ above <=> Ack!High(Len(times))
                 /\ above => \E s \in 2..Len(times) : RiseFrom(s)

AckInv ==
    /\ AckTypes /\ Averaged
    /\ phase = "baseline" => Baseline
    /\ phase # "baseline" => Armed
    /\ Ack!AckIsAPulse /\ Ack!NoiseIsNoAck /\ Ack!NoAckIsCutOff

\* The constants of the detector.
LEMMA AckConstants ==
    /\ SVC_ACK_AVG_SAMPLES \in Nat \ {0} /\ SVC_ACK_MIN_US \in Nat /\ SVC_ACK_MAX_US \in Nat
    /\ SVC_ACK_WINDOW_US \in Nat /\ ACK_TAIL_US \in Nat /\ Floor \in Nat \ {0}
    /\ Levels \subseteq Nat /\ Periods \subseteq Nat \ {0}
BY CvAccessAssumption DEF Ack!SvcAckAssumption

\* Another sample leaves the sums and times of the earlier ones.
LEMMA Recorded ==
    ASSUME AckTypes, NEW raw \in Int, NEW t \in Nat, Ack!record(raw, t)
    PROVE  /\ sums' \in Seq(Int) /\ times' \in Seq(Nat)
           /\ Len(sums') = Len(sums) + 1 /\ Len(times') = Len(times) + 1
           /\ \A k \in Int : k <= Len(sums) => At(sums', k) = At(sums, k)
           /\ At(sums', Len(sums) + 1) = At(sums, Len(sums)) + raw
           /\ \A k \in 1..Len(times) : times'[k] = times[k]
           /\ times'[Len(times) + 1] = t
<1>1. At(sums, Len(sums)) \in Int
  BY DEF AckTypes, At
<1>2. /\ sums' = Append(sums, At(sums, Len(sums)) + raw)
      /\ times' = Append(times, t)
  BY DEF Ack!record, Ack!SumTo, At
<1>3. /\ sums' \in Seq(Int) /\ Len(sums') = Len(sums) + 1
      /\ \A k \in 1..Len(sums) : sums'[k] = sums[k]
      /\ sums'[Len(sums) + 1] = At(sums, Len(sums)) + raw
  BY <1>1, <1>2, Appended DEF AckTypes
<1>4. /\ times' \in Seq(Nat) /\ Len(times') = Len(times) + 1
      /\ \A k \in 1..Len(times) : times'[k] = times[k]
      /\ times'[Len(times) + 1] = t
  BY <1>2, Appended DEF AckTypes
<1>5. Len(sums) \in Nat
  BY DEF AckTypes
<1>6. ASSUME NEW k \in Int, k <= Len(sums)
      PROVE  At(sums', k) = At(sums, k)
  <2>1. CASE k > 0
    <3>1. k \in 1..Len(sums)
      BY <1>5, <1>6, <2>1
    <3>2. QED  BY <1>3, <2>1, <3>1 DEF At
  <2>2. CASE ~(k > 0)
    BY <2>2 DEF At
  <2>3. QED  BY <2>1, <2>2
<1>7. At(sums', Len(sums) + 1) = At(sums, Len(sums)) + raw
  <2>1. At(sums', Len(sums) + 1) = sums'[Len(sums) + 1]
    BY <1>3, <1>5 DEF At
  <2>2. QED  BY <1>3, <2>1
<1>8. QED  BY <1>3, <1>4, <1>6, <1>7

\* The sum of the first samples is a number.
LEMMA SumType == ASSUME AckTypes, NEW k \in Int, k <= Len(sums) PROVE At(sums, k) \in Int
BY DEF AckTypes, At

\* Another sample leaves the windows of the earlier ones.
LEMMA WindowsKept ==
    ASSUME AckTypes, NEW raw \in Int, NEW t \in Nat, Ack!record(raw, t)
    PROVE  \A k \in 1..Len(sums) : Ack!Window(k)' = Ack!Window(k) /\ Ack!Window(k) \in Int
<1> SUFFICES ASSUME NEW k \in 1..Len(sums)
             PROVE  Ack!Window(k)' = Ack!Window(k) /\ Ack!Window(k) \in Int
  OBVIOUS
<1>1. k \in Int /\ k - SVC_ACK_AVG_SAMPLES \in Int /\ Len(sums) \in Nat
      /\ k <= Len(sums) /\ k - SVC_ACK_AVG_SAMPLES <= Len(sums)
  BY AckConstants DEF AckTypes
<1>2. /\ At(sums', k) = At(sums, k)
      /\ At(sums', k - SVC_ACK_AVG_SAMPLES) = At(sums, k - SVC_ACK_AVG_SAMPLES)
  BY <1>1, Recorded
<1>3. At(sums, k) \in Int /\ At(sums, k - SVC_ACK_AVG_SAMPLES) \in Int
  BY <1>1, SumType
<1>4. QED  BY <1>2, <1>3 DEF Ack!Window, Ack!SumTo, At

\* smooth keeps the ring the last samples and ring_sum their sum.
LEMMA Smoothed ==
    ASSUME AckTypes, Averaged, NEW raw \in Int, NEW t \in Nat,
           Ack!smooth(raw), Ack!record(raw, t)
    PROVE  /\ ring' \in Seq(Int) /\ Len(ring') = SVC_ACK_AVG_SAMPLES
           /\ ring_sum' \in Int
           /\ Averaged'
<1> DEFINE N == SVC_ACK_AVG_SAMPLES
           M == Len(sums)
<1>c. N \in Nat \ {0} /\ M \in Nat
  BY AckConstants DEF AckTypes
<1>r. /\ Len(sums') = M + 1
      /\ \A k \in Int : k <= M => At(sums', k) = At(sums, k)
      /\ At(sums', M + 1) = At(sums, M) + raw
  BY Recorded
<1>s. \A k \in Int : k <= M => At(sums, k) \in Int
  BY SumType
<1>1. ring' = Append(Tail(ring), raw) /\ ring_sum' = ring_sum - Head(ring) + raw
  BY DEF Ack!smooth
<1>2. /\ Tail(ring) \in Seq(Int) /\ Len(Tail(ring)) = N - 1
      /\ \A k \in 1..N - 1 : Tail(ring)[k] = ring[k + 1]
      /\ Head(ring) = ring[1] /\ Head(ring) \in Int
  <2>1. ring # <<>>
    BY <1>c DEF AckTypes
  <2>2. QED  BY <2>1, Taken DEF AckTypes
<1>3. /\ ring' \in Seq(Int) /\ Len(ring') = N
      /\ \A k \in 1..N - 1 : ring'[k] = ring[k + 1]
      /\ ring'[N] = raw
  <2>1. /\ ring' \in Seq(Int) /\ Len(ring') = (N - 1) + 1
        /\ \A k \in 1..N - 1 : ring'[k] = Tail(ring)[k]
        /\ ring'[(N - 1) + 1] = raw
    BY <1>1, <1>2, Appended
  <2>2. (N - 1) + 1 = N
    BY <1>c
  <2>3. QED  BY <1>2, <2>1, <2>2
<1>a. /\ \A k \in 1..N : ring[k] = At(sums, M - N + k) - At(sums, M - N + k - 1)
      /\ ring_sum = At(sums, M) - At(sums, M - N)
  BY DEF Averaged
<1>4. ASSUME NEW k \in 1..N
      PROVE  ring'[k] = At(sums', M + 1 - N + k) - At(sums', M + 1 - N + k - 1)
  <2>1. CASE k = N
    <3>1. M + 1 - N + k = M + 1 /\ M + 1 - N + k - 1 = M
      BY <1>c, <2>1
    <3>2. At(sums, M) \in Int /\ At(sums', M) = At(sums, M)
      BY <1>c, <1>r, <1>s
    <3>3. QED  BY <1>3, <1>r, <2>1, <3>1, <3>2
  <2>2. CASE k # N
    <3>1. k + 1 \in 1..N /\ k \in 1..N - 1
      BY <1>c, <2>2
    <3>2. ring'[k] = At(sums, M - N + (k + 1)) - At(sums, M - N + (k + 1) - 1)
      BY <1>3, <1>a, <3>1
    <3>3. /\ M - N + (k + 1) = M + 1 - N + k /\ M - N + (k + 1) - 1 = M + 1 - N + k - 1
          /\ M + 1 - N + k <= M /\ M + 1 - N + k - 1 <= M
          /\ M + 1 - N + k \in Int /\ M + 1 - N + k - 1 \in Int
      BY <1>c, <3>1
    <3>4. QED  BY <1>r, <3>2, <3>3
  <2>3. QED  BY <2>1, <2>2
<1>5. ring_sum' = At(sums', M + 1) - At(sums', M + 1 - N)
  <2>1. ring[1] = At(sums, M - N + 1) - At(sums, M - N)
    <3>1. 1 \in 1..N /\ M - N + 1 - 1 = M - N
      BY <1>c
    <3>2. QED  BY <1>a, <3>1
  <2>2. /\ M - N + 1 = M + 1 - N /\ M + 1 - N \in Int /\ M + 1 - N <= M
        /\ M - N \in Int /\ M - N <= M
    BY <1>c
  <2>3. /\ At(sums', M + 1 - N) = At(sums, M - N + 1)
        /\ At(sums, M - N + 1) \in Int /\ At(sums, M - N) \in Int /\ At(sums, M) \in Int
    BY <1>c, <1>r, <1>s, <2>2
  <2>4. QED  BY <1>1, <1>2, <1>a, <1>r, <2>1, <2>3
<1>6. ring_sum' \in Int
  <2>1. ring_sum \in Int
    BY DEF AckTypes
  <2>2. QED  BY <1>1, <1>2, <2>1
<1>7. Averaged'
  BY <1>c, <1>4, <1>5, <1>r DEF Averaged
<1>8. QED  BY <1>3, <1>6, <1>7

\* The height of a window, as a difference of sums.
LEMMA WindowIs ==
    ASSUME NEW k
    PROVE  /\ Ack!Window(k) = At(sums, k) - At(sums, k - SVC_ACK_AVG_SAMPLES)
           /\ Ack!Window(k)' = At(sums', k) - At(sums', k - SVC_ACK_AVG_SAMPLES)
BY DEF Ack!Window, Ack!SumTo, At

\* Another sample leaves the rises among the earlier ones.
LEMMA HighsKept ==
    ASSUME AckTypes, NEW raw \in Int, NEW t \in Nat, Ack!record(raw, t),
           threshold_sum' = threshold_sum
    PROVE  \A k \in 1..Len(times) : Ack!High(k)' <=> Ack!High(k)
<1> SUFFICES ASSUME NEW k \in 1..Len(times)
             PROVE  Ack!High(k)' <=> Ack!High(k)
  OBVIOUS
<1>1. k \in 1..Len(sums)
  BY DEF AckTypes
<1>2. Ack!Window(k)' = Ack!Window(k)
  BY <1>1, WindowsKept
<1>3. times'[k] = times[k]
  BY Recorded
<1>4. QED  BY <1>2, <1>3 DEF Ack!High

\* svc_ack_baseline keeps the invariant: a window it fills is no higher than the
\* peak it records.
LEMMA BaselineStep ==
    ASSUME AckInv, NEW raw \in Levels, Ack!svc_ack_baseline(raw)
    PROVE  AckInv'
<1> DEFINE N == SVC_ACK_AVG_SAMPLES
           M == Len(sums)
<1>t. AckTypes /\ Averaged
  BY DEF AckInv
<1>c. N \in Nat \ {0} /\ M \in Nat /\ Len(times) = M /\ raw \in Int
  BY AckConstants, <1>t DEF AckTypes
<1>0. /\ phase = "baseline" /\ phase' = "baseline"
      /\ Ack!smooth(raw) /\ Ack!record(raw, 0)
      /\ ring_fill' = IF ring_fill < N THEN ring_fill + 1 ELSE ring_fill
      /\ base_sum' = base_sum + raw /\ base_n' = base_n + 1
      /\ base_peak_sum' = IF ring_fill' = N /\ ring_sum' > base_peak_sum
                          THEN ring_sum' ELSE base_peak_sum
      /\ threshold_sum' = threshold_sum
      /\ above' = above /\ above_since' = above_since /\ acked' = acked /\ now' = now
  BY DEF Ack!svc_ack_baseline, Ack!smooth, Ack!rise
<1>b. Baseline
  BY <1>0 DEF AckInv
<1>r. /\ sums' \in Seq(Int) /\ times' \in Seq(Nat)
      /\ Len(sums') = M + 1 /\ Len(times') = M + 1
      /\ \A k \in 1..M : times'[k] = times[k]
      /\ times'[M + 1] = 0
  BY <1>0, <1>c, <1>t, Recorded
<1>s. /\ ring' \in Seq(Int) /\ Len(ring') = N /\ ring_sum' \in Int /\ Averaged'
  BY <1>0, <1>c, <1>t, Smoothed
<1>1. AckTypes'
  BY <1>0, <1>c, <1>r, <1>s, <1>t DEF AckTypes
<1>2. ring_fill' = IF M + 1 < N THEN M + 1 ELSE N
  BY <1>0, <1>b, <1>c DEF Baseline
<1>3. ring_sum' \in Int /\ base_peak_sum \in Int /\ base_peak_sum' >= base_peak_sum
  BY <1>0, <1>s, <1>t DEF AckTypes
<1>4. ASSUME NEW k \in N..M + 1
      PROVE  Ack!Window(k)' <= base_peak_sum'
  <2>1. CASE k = M + 1
    <3>1. ring_fill' = N
      BY <1>2, <1>c, <2>1
    <3>2. Ack!Window(k)' = ring_sum'
      BY <1>r, <1>s, <2>1, WindowIs DEF Averaged
    <3>3. QED  BY <1>0, <1>3, <3>1, <3>2
  <2>2. CASE k # M + 1
    <3>1. k \in 1..M /\ k \in N..M
      BY <1>c, <2>2
    <3>2. Ack!Window(k)' = Ack!Window(k) /\ Ack!Window(k) \in Int
      BY <1>0, <1>c, <1>t, <3>1, WindowsKept
    <3>3. Ack!Window(k) <= base_peak_sum
      BY <1>b, <3>1 DEF Baseline
    <3>4. base_peak_sum' \in Int
      BY <1>1 DEF AckTypes
    <3>5. QED  BY <1>3, <3>2, <3>3, <3>4
  <2>3. QED  BY <2>1, <2>2
<1>5. ASSUME NEW k \in 1..M + 1
      PROVE  times'[k] = 0
  <2>1. CASE k = M + 1
    BY <1>r, <2>1
  <2>2. CASE k # M + 1
    <3>1. k \in 1..M
      BY <1>c, <2>2
    <3>2. QED  BY <1>b, <1>c, <1>r, <3>1 DEF Baseline
  <2>3. QED  BY <2>1, <2>2
<1>6. Baseline'
  BY <1>2, <1>4, <1>5, <1>r DEF Baseline
<1>7. QED
  BY <1>0, <1>1, <1>6, <1>s
  DEF AckInv, Ack!AckIsAPulse, Ack!NoiseIsNoAck, Ack!NoAckIsCutOff

\* What svc_ack_arm appends to a window, to the sums and to the times.
LEMMA Padded ==
    ASSUME NEW S, NEW q \in Seq(S), NEW n_pad \in Nat, NEW f \in [1..n_pad -> S]
    PROVE  /\ q \o f \in Seq(S) /\ Len(q \o f) = Len(q) + n_pad
           /\ \A k \in 1..Len(q) : (q \o f)[k] = q[k]
           /\ \A k \in 1..n_pad : (q \o f)[Len(q) + k] = f[k]
<1>1. f \in Seq(S) /\ Len(f) = n_pad
  OBVIOUS
<1>2. QED  BY <1>1

\* The threshold is no lower than the baseline's peak.
LEMMA ThresholdAbovePeak ==
    ASSUME NEW peak \in Int, NEW mean_sum \in Int, NEW floor \in Int, NEW swing,
           swing = IF peak > mean_sum THEN peak - mean_sum ELSE 0
    PROVE  /\ mean_sum + Ack!Larger(Ack!Margin(swing), floor) \in Int
           /\ peak <= mean_sum + Ack!Larger(Ack!Margin(swing), floor)
<1>1. swing \in Nat /\ peak <= mean_sum + swing
  OBVIOUS
<1>2. Ack!Margin(swing) \in Int /\ Ack!Margin(swing) >= swing
  BY <1>1 DEF Ack!Margin
<1>3. /\ Ack!Larger(Ack!Margin(swing), floor) \in Int
      /\ Ack!Larger(Ack!Margin(swing), floor) >= Ack!Margin(swing)
  BY <1>2 DEF Ack!Larger
<1>4. QED  BY <1>1, <1>2, <1>3

\* svc_ack_arm keeps the invariant: with a filled window the sum and the peak are
\* those of the samples taken, else those of the samples and their mean.
LEMMA ArmStep == ASSUME AckInv, Ack!svc_ack_arm PROVE AckInv'
<1> DEFINE N == SVC_ACK_AVG_SAMPLES
           M == Len(sums)
           pad == N - ring_fill
           mean == Ack!Mean
           mean_sum == mean * N
           swing == IF base_peak_sum' > mean_sum THEN base_peak_sum' - mean_sum ELSE 0
           filled == [k \in 1..pad |-> mean]
           grown == [k \in 1..pad |-> Ack!SumTo(M) + k * mean]
           zeros == [k \in 1..pad |-> 0]
<1>t. AckTypes /\ Averaged
  BY DEF AckInv
<1>c. N \in Nat \ {0} /\ M \in Nat /\ Len(times) = M
  BY AckConstants, <1>t DEF AckTypes
<1>0. /\ phase = "baseline" /\ phase' = "listen"
      /\ ring' = SubSeq(ring, pad + 1, N) \o filled
      /\ ring_sum' = ring_sum + pad * mean
      /\ base_peak_sum' = IF pad > 0 THEN ring_sum' ELSE base_peak_sum
      /\ threshold_sum' = mean_sum + Ack!Larger(Ack!Margin(swing), Floor * N)
      /\ sums' = sums \o grown
      /\ times' = times \o zeros
      /\ ring_fill' = N /\ above' = FALSE /\ acked' = FALSE
      /\ base_sum' = base_sum /\ base_n' = base_n
      /\ above_since' = above_since /\ now' = now
  BY DEF Ack!svc_ack_arm
<1>b. Baseline
  BY <1>0 DEF AckInv
<1>p. /\ pad \in 0..N /\ M + pad \in Nat /\ M + pad >= N
      /\ pad > 0 => M < N /\ M + pad = N
  BY <1>b, <1>c DEF Baseline
<1>m. mean \in Int
  <2>1. CASE base_n > 0
    <3>1. base_n \in Int /\ base_n > 0 /\ base_sum \in Int
      BY <1>t, <2>1 DEF AckTypes
    <3>2. base_sum \div base_n \in Int
      BY <3>1
    <3>3. QED  BY <2>1, <3>2 DEF Ack!Mean
  <2>2. CASE ~(base_n > 0)
    BY <2>2 DEF Ack!Mean
  <2>3. QED  BY <2>1, <2>2
<1> HIDE DEF pad, mean, mean_sum, swing, filled, grown, zeros
<1>n. /\ \A k \in Int : k * mean \in Int
      /\ \A k \in Int : k * mean - (k - 1) * mean = mean
      /\ 0 * mean = 0 /\ mean_sum \in Int /\ Floor * N \in Int
  BY <1>c, <1>m, AckConstants DEF mean_sum
<1>z. Ack!SumTo(M) = At(sums, M) /\ At(sums, M) \in Int
  BY <1>c, <1>t, SumType DEF Ack!SumTo, At
<1>r. /\ sums' \in Seq(Int) /\ Len(sums') = M + pad
      /\ \A k \in 1..M : sums'[k] = sums[k]
      /\ \A k \in 1..pad : sums'[M + k] = At(sums, M) + k * mean
  <2>1. pad \in Nat /\ sums \in Seq(Int)
    BY <1>p, <1>t DEF AckTypes
  <2>a. ASSUME NEW k \in 1..pad PROVE Ack!SumTo(M) + k * mean \in Int
    <3>1. k \in Int
      BY <2>1
    <3>2. k * mean \in Int
      BY <1>n, <3>1
    <3>3. QED  BY <1>z, <3>2
  <2>b. grown \in [1..pad -> Int]
    BY <2>a DEF grown
  <2>2. /\ sums \o grown \in Seq(Int) /\ Len(sums \o grown) = M + pad
        /\ \A k \in 1..M : (sums \o grown)[k] = sums[k]
        /\ \A k \in 1..pad : (sums \o grown)[M + k] = grown[k]
    BY <2>1, <2>b, Padded
  <2>3. QED  BY <1>0, <1>z, <2>2 DEF grown
<1>u. /\ times' \in Seq(Nat) /\ Len(times') = M + pad
      /\ \A k \in 1..M + pad : times'[k] = 0
  <2>1. pad \in Nat /\ times \in Seq(Nat) /\ zeros \in [1..pad -> Nat]
    BY <1>p, <1>t DEF AckTypes, zeros
  <2>a. /\ times \o zeros \in Seq(Nat) /\ Len(times \o zeros) = Len(times) + pad
        /\ \A k \in 1..Len(times) : (times \o zeros)[k] = times[k]
        /\ \A k \in 1..pad : (times \o zeros)[Len(times) + k] = zeros[k]
    BY ONLY <2>1, Padded, SMTT(30)
  <2>2. /\ times \o zeros \in Seq(Nat) /\ Len(times \o zeros) = M + pad
        /\ \A k \in 1..M : (times \o zeros)[k] = times[k]
        /\ \A k \in 1..pad : (times \o zeros)[M + k] = zeros[k]
    BY <1>c, <2>a
  <2>3. ASSUME NEW k \in 1..M + pad PROVE times'[k] = 0
    <3>1. CASE k <= M
      BY <1>0, <1>b, <1>c, <2>2, <3>1 DEF Baseline
    <3>2. CASE k > M
      <4>1. k - M \in 1..pad /\ M + (k - M) = k
        BY <1>c, <1>p, <3>2
      <4>2. QED  BY <1>0, <2>2, <4>1 DEF zeros
    <3>3. QED  BY <1>c, <3>1, <3>2
  <2>4. QED  BY <1>0, <2>2, <2>3
<1>a. /\ \A k \in Int : k <= M => At(sums', k) = At(sums, k) /\ At(sums, k) \in Int
      /\ \A k \in 1..pad : At(sums', M + k) = At(sums, M) + k * mean
      /\ \A k \in 0..pad : At(sums', M + k) = At(sums, M) + k * mean
  <2>1. ASSUME NEW k \in Int, k <= M
        PROVE  At(sums', k) = At(sums, k) /\ At(sums, k) \in Int
    BY <1>c, <1>r, <1>t, <2>1, SumType DEF At
  <2>2. ASSUME NEW k \in 1..pad
        PROVE  At(sums', M + k) = At(sums, M) + k * mean
    <3>1. M + k > 0
      BY <1>c
    <3>2. sums'[M + k] = At(sums, M) + k * mean
      BY <1>r
    <3>3. QED  BY <3>1, <3>2 DEF At
  <2>3. At(sums', M + 0) = At(sums, M) + 0 * mean
    <3>1. M + 0 = M /\ M \in Int /\ M <= M
      BY <1>c
    <3>2. At(sums', M) = At(sums, M)
      BY <2>1, <3>1
    <3>3. At(sums, M) + 0 * mean = At(sums, M)
      BY <1>n, <1>z
    <3>4. QED  BY <3>1, <3>2, <3>3
  <2>4. QED  BY <1>p, <2>1, <2>2, <2>3
<1>q. /\ ring' \in Seq(Int) /\ Len(ring') = N
      /\ \A k \in 1..N - pad : ring'[k] = ring[pad + k]
      /\ \A k \in 1..pad : ring'[N - pad + k] = mean
  <2> DEFINE kept == SubSeq(ring, pad + 1, N)
  <2>1. pad \in Nat /\ filled \in [1..pad -> Int]
    BY <1>m, <1>p DEF filled
  <2>2. /\ kept \in Seq(Int) /\ Len(kept) = N - pad
        /\ \A k \in 1..N - pad : kept[k] = ring[pad + k]
    BY <1>c, <1>p, <1>t DEF AckTypes
  <2> HIDE DEF kept
  <2>a. /\ kept \o filled \in Seq(Int) /\ Len(kept \o filled) = Len(kept) + pad
        /\ \A k \in 1..Len(kept) : (kept \o filled)[k] = kept[k]
        /\ \A k \in 1..pad : (kept \o filled)[Len(kept) + k] = filled[k]
    <3>1. kept \in Seq(Int)
      BY <2>2
    <3>2. QED  BY ONLY <2>1, <3>1, Padded, SMTT(30)
  <2>3. /\ kept \o filled \in Seq(Int) /\ Len(kept \o filled) = (N - pad) + pad
        /\ \A k \in 1..N - pad : (kept \o filled)[k] = kept[k]
        /\ \A k \in 1..pad : (kept \o filled)[(N - pad) + k] = filled[k]
    BY <2>2, <2>a
  <2>4. (N - pad) + pad = N
    BY <1>c, <1>p
  <2>5. QED  BY <1>0, <2>2, <2>3, <2>4 DEF filled, kept
<1>1. Averaged'
  <2>1. ASSUME NEW k \in 1..N
        PROVE  ring'[k] = At(sums', M + pad - N + k) - At(sums', M + pad - N + k - 1)
    <3>1. CASE k <= N - pad
      <4>1. k \in 1..N - pad /\ pad + k \in 1..N
        BY <1>c, <1>p, <3>1
      <4>2. ring'[k] = At(sums, M - N + (pad + k)) - At(sums, M - N + (pad + k) - 1)
        BY <1>q, <1>t, <4>1 DEF Averaged
      <4>3. /\ M - N + (pad + k) = M + pad - N + k
            /\ M - N + (pad + k) - 1 = M + pad - N + k - 1
            /\ M + pad - N + k \in Int /\ M + pad - N + k - 1 \in Int
            /\ M + pad - N + k <= M /\ M + pad - N + k - 1 <= M
        BY <1>c, <1>p, <4>1
      <4>4. QED  BY <1>a, <4>2, <4>3
    <3>2. CASE k > N - pad
      <4> DEFINE j == k - (N - pad)
      <4>1. /\ j \in 1..pad /\ j - 1 \in 0..pad /\ k = N - pad + j
            /\ M + pad - N + k = M + j /\ M + pad - N + k - 1 = M + (j - 1)
        BY <1>c, <1>p, <3>2
      <4>2. ring'[k] = mean
        BY <1>q, <4>1
      <4>3. /\ At(sums', M + j) = At(sums, M) + j * mean
            /\ At(sums', M + (j - 1)) = At(sums, M) + (j - 1) * mean
        BY <1>a, <4>1
      <4>4. j * mean \in Int /\ (j - 1) * mean \in Int /\ j * mean - (j - 1) * mean = mean
        BY <1>n, <4>1
      <4>5. (At(sums, M) + j * mean) - (At(sums, M) + (j - 1) * mean) = mean
        BY <1>m, <1>z, <4>4
      <4>6. QED  BY <4>1, <4>2, <4>3, <4>5
    <3>3. QED  BY <1>c, <1>p, <3>1, <3>2
  <2>2. ring_sum' = At(sums', M + pad) - At(sums', M + pad - N)
    <3>1. ring_sum = At(sums, M) - At(sums, M - N)
      BY <1>t DEF Averaged
    <3>2. At(sums', M + pad) = At(sums, M) + pad * mean
      BY <1>a, <1>p
    <3>3. At(sums', M + pad - N) = At(sums, M - N) /\ At(sums, M - N) \in Int
      <4>1. CASE pad > 0
        <5>1. M + pad - N = 0 /\ M - N <= 0
          BY <1>c, <1>p, <4>1
        <5>2. QED  BY <1>c, <5>1 DEF At
      <4>2. CASE pad = 0
        <5>1. M + pad - N = M - N /\ M - N \in Int /\ M - N <= M
          BY <1>c, <4>2
        <5>2. QED  BY <1>a, <5>1
      <4>3. QED  BY <1>p, <4>1, <4>2
    <3>4. pad * mean \in Int
      BY <1>n, <1>p
    <3>5. QED  BY <1>0, <1>z, <3>1, <3>2, <3>3, <3>4
  <2>3. QED  BY <1>c, <1>p, <1>r, <2>1, <2>2 DEF Averaged
<1>2. ring_sum' \in Int /\ base_peak_sum' \in Int
  <2>1. ring_sum \in Int /\ base_peak_sum \in Int /\ pad * mean \in Int
    BY <1>n, <1>p, <1>t DEF AckTypes
  <2>2. QED  BY <1>0, <2>1
<1>3. threshold_sum' \in Int /\ base_peak_sum' <= threshold_sum'
  BY <1>0, <1>2, <1>n, ThresholdAbovePeak DEF swing
<1>4. AckTypes'
  <2>1. phase' \in {"baseline", "listen", "done"} /\ ring_fill' \in 0..N
    BY <1>0, <1>c
  <2>2. /\ base_sum' \in Int /\ base_n' \in Int /\ above_since' \in Nat /\ now' \in Nat
        /\ above' \in BOOLEAN /\ acked' \in BOOLEAN
    BY <1>0, <1>t DEF AckTypes
  <2>3. QED  BY <1>2, <1>3, <1>q, <1>r, <1>u, <2>1, <2>2 DEF AckTypes
<1>5. ASSUME NEW k \in N..M + pad
      PROVE  Ack!Window(k)' <= threshold_sum'
  <2>1. CASE pad > 0
    <3>1. k = M + pad
      BY <1>c, <1>p, <2>1
    <3>2. Ack!Window(k)' = ring_sum'
      BY <1>1, <1>r, <3>1, WindowIs DEF Averaged
    <3>3. QED  BY <1>0, <1>3, <2>1, <3>2
  <2>2. CASE pad = 0
    <3>1. k \in N..M /\ k \in Int /\ k - N \in Int /\ k <= M /\ k - N <= M
      BY <1>c, <2>2
    <3>2. Ack!Window(k)' = Ack!Window(k) /\ Ack!Window(k) \in Int
      BY <1>a, <3>1, WindowIs
    <3>3. Ack!Window(k) <= base_peak_sum
      BY <1>b, <3>1 DEF Baseline
    <3>4. base_peak_sum' = base_peak_sum
      BY <1>0, <2>2
    <3>5. QED  BY <1>2, <1>3, <3>2, <3>3, <3>4
  <2>3. QED  BY <1>p, <2>1, <2>2
<1>6. Ack!NoiseIsNoAck'
  BY <1>5, <1>u DEF Ack!NoiseIsNoAck
<1>7. \A k \in 1..M + pad : ~Ack!High(k)'
  BY <1>u DEF Ack!High
<1>8. Armed'
  <2>1. M + pad \in 1..M + pad /\ 1..N \subseteq 1..M + pad
    BY <1>c, <1>p
  <2>2. QED  BY <1>0, <1>7, <1>p, <1>u, <2>1 DEF Armed
<1>9. Ack!AckIsAPulse'
  <2>1. ASSUME NEW k \in 1..M + pad, NEW m \in 1..M + pad, k < m
        PROVE  ~(\A l \in k..m - 1 : Ack!High(l)')
    <3>1. k \in k..m - 1
      BY <1>p, <2>1
    <3>2. QED  BY <1>7, <3>1
  <2>2. QED  BY <1>0, <1>u, <2>1 DEF Ack!AckIsAPulse
<1>10. Ack!NoAckIsCutOff'
  BY <1>0 DEF Ack!NoAckIsCutOff
<1>11. QED  BY <1>0, <1>1, <1>4, <1>6, <1>8, <1>9, <1>10 DEF AckInv

\* A rise that goes on until now began where above_since says.
LEMMA OneRise ==
    ASSUME AckTypes, NEW s \in 2..Len(times), RiseFrom(s),
           NEW k \in 2..Len(times), ~Ack!High(k - 1),
           \A m \in k..Len(times) : Ack!High(m)
    PROVE  k = s
<1>c. Len(times) \in Nat
  BY DEF AckTypes
<1>1. CASE k < s
  <2>1. s - 1 \in k..Len(times)
    BY <1>1, <1>c
  <2>2. QED  BY <2>1 DEF RiseFrom
<1>2. CASE k > s
  <2>1. k - 1 \in s..Len(times)
    BY <1>2, <1>c
  <2>2. QED  BY <2>1 DEF RiseFrom
<1>3. QED  BY <1>1, <1>2

\* A pulse whose fall is sample j.
Pulse(k, j) ==
    /\ k < j
    /\ \A m \in k..j - 1 : Ack!High(m)
    /\ ~Ack!High(k - 1) /\ ~Ack!High(j)
    /\ times[j] - times[k] \in SVC_ACK_MIN_US..SVC_ACK_MAX_US

\* listen keeps the invariant: the fall it sees ends the one rise under way.
LEMMA ListenStep ==
    ASSUME AckInv, NEW raw \in Levels, NEW dt \in Periods, Ack!listen(raw, dt)
    PROVE  AckInv'
<1> DEFINE N == SVC_ACK_AVG_SAMPLES
           M == Len(times)
<1>t. AckTypes /\ Averaged
  BY DEF AckInv
<1>c. N \in Nat \ {0} /\ M \in Nat /\ Len(sums) = M /\ raw \in Int /\ dt \in Nat \ {0}
  BY AckConstants, <1>t DEF AckTypes
<1>0. /\ phase = "listen" /\ phase' = "listen" /\ ~acked
      /\ now' = now + dt
      /\ Ack!smooth(raw) /\ Ack!record(raw, now')
      /\ ring_fill' = IF ring_fill < N THEN ring_fill + 1 ELSE ring_fill
      /\ above' = (ring_sum' > threshold_sum)
      /\ above_since' = IF ring_sum' > threshold_sum /\ ~above THEN now' ELSE above_since
      /\ acked' = (~(ring_sum' > threshold_sum) /\ above /\ Ack!WidthOk(now' - above_since))
      /\ base_sum' = base_sum /\ base_n' = base_n /\ base_peak_sum' = base_peak_sum
      /\ threshold_sum' = threshold_sum
  BY DEF Ack!listen, Ack!Listening, Ack!svc_ack_sample, Ack!smooth, Ack!base
<1>e. PICK e \in Nat : e = M + 1
  BY <1>c
<1>n. now' \in Nat \ {0}
  BY <1>0, <1>c, <1>t DEF AckTypes
<1>r. /\ sums' \in Seq(Int) /\ times' \in Seq(Nat)
      /\ Len(sums') = M + 1 /\ Len(times') = M + 1
      /\ \A k \in 1..M : times'[k] = times[k]
      /\ times'[M + 1] = now'
  BY <1>0, <1>c, <1>n, <1>t, Recorded
<1>s. /\ ring' \in Seq(Int) /\ Len(ring') = N /\ ring_sum' \in Int /\ Averaged'
  BY <1>0, <1>c, <1>n, <1>t, Smoothed
<1>1. AckTypes'
  <2>1. /\ phase' \in {"baseline", "listen", "done"} /\ ring_fill' \in 0..N
        /\ base_sum' \in Int /\ base_n' \in Int /\ base_peak_sum' \in Int
        /\ threshold_sum' \in Int
    BY <1>0, <1>c, <1>t DEF AckTypes
  <2>2. above' \in BOOLEAN /\ acked' \in BOOLEAN
    BY <1>0
  <2>3. above_since' \in Nat /\ now' \in Nat
    BY <1>0, <1>n, <1>t DEF AckTypes
  <2>4. QED  BY <1>r, <1>s, <2>1, <2>2, <2>3 DEF AckTypes
<1>a. Armed
  BY <1>0 DEF AckInv
<1>b. M >= N /\ times[1] = 0 /\ M \in 1..M /\ 1 \in 1..M
  BY <1>a, <1>c DEF Armed
<1>h. /\ \A k \in 1..M : Ack!High(k)' <=> Ack!High(k)
      /\ \A k \in 1..M : Ack!Window(k)' = Ack!Window(k)
  BY <1>0, <1>c, <1>n, <1>t, HighsKept, WindowsKept
<1>j. Ack!High(e)' <=> ring_sum' > threshold_sum
  <2>1. Ack!Window(e)' = ring_sum'
    BY <1>e, <1>r, <1>s, WindowIs DEF Averaged
  <2>2. QED  BY <1>0, <1>e, <1>n, <1>r, <2>1 DEF Ack!High
<1>l. ~Ack!High(1)
  BY <1>b DEF Ack!High
<1>2. \A k \in 1..N : times'[k] = 0
  BY <1>a, <1>b, <1>c, <1>r DEF Armed
<1>3. ASSUME above' PROVE \E s \in 2..M + 1 : RiseFrom(s)'
  <2>1. CASE above
    <3>1. PICK s \in 2..M : RiseFrom(s)
      BY <1>0, <1>a, <2>1 DEF Armed
    <3>2. times'[s] = above_since'
      <4>1. s \in 1..M /\ times[s] = above_since
        BY <1>c, <3>1 DEF RiseFrom
      <4>2. above_since' = above_since
        BY <1>0, <2>1
      <4>3. QED  BY <1>r, <4>1, <4>2
    <3>3. ASSUME NEW k \in s..M + 1 PROVE Ack!High(k)'
      <4>1. CASE k = M + 1
        BY <1>0, <1>3, <1>e, <1>j, <4>1
      <4>2. CASE k # M + 1
        <5>1. k \in s..M /\ k \in 1..M
          BY <1>c, <3>1, <4>2
        <5>2. QED  BY <1>h, <3>1, <5>1 DEF RiseFrom
      <4>3. QED  BY <4>1, <4>2
    <3>4. ~Ack!High(s - 1)'
      <4>1. s - 1 \in 1..M
        BY <1>c, <3>1
      <4>2. QED  BY <1>h, <3>1, <4>1 DEF RiseFrom
    <3>5. RiseFrom(s)'
      BY <1>r, <3>2, <3>3, <3>4 DEF RiseFrom
    <3>6. s \in 2..M + 1
      BY <1>c, <3>1
    <3>7. QED  BY <3>5, <3>6
  <2>2. CASE ~above
    <3>1. ~Ack!High(M)
      BY <1>0, <1>a, <2>2 DEF Armed
    <3>2. ~Ack!High(e - 1)'
      <4>1. e - 1 = M
        BY <1>c, <1>e
      <4>2. QED  BY <1>b, <1>h, <3>1, <4>1
    <3>3. times'[M + 1] = above_since'
      BY <1>0, <1>3, <1>r, <2>2
    <3>4. ASSUME NEW k \in e..M + 1 PROVE Ack!High(k)'
      <4>1. k = e
        BY <1>c, <1>e
      <4>2. QED  BY <1>0, <1>3, <1>j, <4>1
    <3>5. RiseFrom(e)'
      BY <1>e, <1>r, <3>2, <3>3, <3>4 DEF RiseFrom
    <3>6. e \in 2..M + 1
      BY <1>b, <1>c, <1>e
    <3>7. QED  BY <3>5, <3>6
  <2>3. QED  BY <2>1, <2>2
<1>4. Armed'
  <2>1. M + 1 >= N
    BY <1>b, <1>c
  <2>2. above' <=> Ack!High(e)'
    BY <1>0, <1>j
  <2>3. QED  BY <1>2, <1>3, <1>e, <1>r, <2>1, <2>2 DEF Armed
<1>5. Ack!NoiseIsNoAck'
  <2>1. ASSUME NEW k \in N..M + 1, times'[k] = 0
        PROVE  Ack!Window(k)' <= threshold_sum'
    <3>1. k # M + 1
      BY <1>n, <1>r, <2>1
    <3>2. k \in 1..M /\ k \in N..M
      BY <1>c, <3>1
    <3>3. times[k] = 0
      BY <1>r, <2>1, <3>2
    <3>4. Ack!Window(k) <= threshold_sum
      BY <1>0, <3>2, <3>3 DEF AckInv, Ack!NoiseIsNoAck
    <3>5. QED  BY <1>0, <1>h, <3>2, <3>4
  <2>2. QED  BY <1>r, <2>1 DEF Ack!NoiseIsNoAck
<1>6. ASSUME NEW k \in 1..M + 1, NEW j \in 1..M + 1, Pulse(k, j)'
      PROVE  acked'
  <2>1. /\ k < j /\ \A m \in k..j - 1 : Ack!High(m)'
        /\ ~Ack!High(k - 1)' /\ ~Ack!High(j)'
        /\ times'[j] - times'[k] \in SVC_ACK_MIN_US..SVC_ACK_MAX_US
    BY <1>6 DEF Pulse
  <2>2. k \in 2..M
    <3>1. Ack!High(k)
      <4>1. k \in k..j - 1 /\ k \in 1..M
        BY <1>c, <2>1
      <4>2. QED  BY <1>h, <2>1, <4>1
    <3>2. k # 1
      BY <1>l, <3>1
    <3>3. QED  BY <1>c, <2>1, <3>2
  <2>3. \A m \in k..j - 1 : Ack!High(m)
    BY <1>c, <1>h, <2>1, <2>2
  <2>4. k - 1 \in 1..M /\ k \in 1..M
    BY <1>c, <2>2
  <2>5. ~Ack!High(k - 1)
    BY <1>h, <2>1, <2>4
  <2>6. CASE j \in 1..M
    <3>1. times[j] - times[k] \in SVC_ACK_MIN_US..SVC_ACK_MAX_US /\ ~Ack!High(j)
      BY <1>h, <1>r, <2>1, <2>4, <2>6
    <3>2. acked
      BY <1>0, <2>1, <2>3, <2>4, <2>5, <2>6, <3>1 DEF AckInv, Ack!AckIsAPulse
    <3>3. QED  BY <1>0, <3>2
  <2>7. CASE j = M + 1
    <3>1. M \in k..j - 1 /\ j - 1 = M
      BY <1>c, <2>2, <2>7
    <3>2. above
      BY <1>0, <1>a, <2>3, <3>1 DEF Armed
    <3>3. PICK s \in 2..M : RiseFrom(s)
      BY <1>0, <1>a, <3>2 DEF Armed
    <3>4. k = s
      BY <1>t, <2>2, <2>3, <2>5, <3>1, <3>3, OneRise
    <3>5. now' - above_since \in SVC_ACK_MIN_US..SVC_ACK_MAX_US
      BY <1>r, <2>1, <2>4, <2>7, <3>3, <3>4 DEF RiseFrom
    <3>6. ~(ring_sum' > threshold_sum)
      BY <1>e, <1>j, <2>1, <2>7
    <3>7. Ack!WidthOk(now' - above_since)
      BY <3>5, AckConstants DEF Ack!WidthOk
    <3>8. QED  BY <1>0, <3>2, <3>6, <3>7
  <2>8. QED  BY <1>c, <2>6, <2>7
<1>7. ASSUME acked' PROVE \E k, j \in 1..M + 1 : Pulse(k, j)'
  <2>1. ~(ring_sum' > threshold_sum) /\ above /\ Ack!WidthOk(now' - above_since)
    BY <1>0, <1>7
  <2>2. PICK s \in 2..M : RiseFrom(s)
    BY <1>0, <1>a, <2>1 DEF Armed
  <2>3. s < M + 1 /\ s \in 1..M /\ s - 1 \in 1..M /\ (M + 1) - 1 = M
    BY <1>c, <2>2
  <2>4. \A m \in s..(M + 1) - 1 : Ack!High(m)'
    <3>1. SUFFICES ASSUME NEW m \in s..M PROVE Ack!High(m)'
      BY <2>3
    <3>2. m \in 1..M
      BY <1>c, <2>2
    <3>3. QED  BY <1>h, <2>2, <3>2 DEF RiseFrom
  <2>5. ~Ack!High(s - 1)' /\ ~Ack!High(e)'
    BY <1>h, <1>j, <2>1, <2>2, <2>3 DEF RiseFrom
  <2>6. times'[M + 1] - times'[s] = now' - above_since
    BY <1>r, <2>2, <2>3 DEF RiseFrom
  <2>7. now' - above_since \in SVC_ACK_MIN_US..SVC_ACK_MAX_US
    <3>1. now' - above_since \in Int
      BY <1>n, <1>t DEF AckTypes
    <3>2. QED  BY <2>1, <3>1, AckConstants DEF Ack!WidthOk
  <2>8. Pulse(s, e)'
    BY <1>e, <2>3, <2>4, <2>5, <2>6, <2>7 DEF Pulse
  <2>9. s \in 1..M + 1 /\ e \in 1..M + 1
    BY <1>c, <1>e, <2>2
  <2>10. QED  BY <2>8, <2>9
<1>8. Ack!AckIsAPulse'
  BY <1>6, <1>7, <1>r DEF Ack!AckIsAPulse, Pulse
<1>9. Ack!NoAckIsCutOff'
  BY <1>0 DEF Ack!NoAckIsCutOff
<1>10. QED  BY <1>0, <1>1, <1>4, <1>5, <1>8, <1>9, <1>s DEF AckInv

\* stop keeps the invariant: it waits for what svc_ack_pending says may become an
\* ACK.
LEMMA StopStep == ASSUME AckInv, Ack!stop PROVE AckInv'
<1>0. /\ phase = "listen" /\ phase' = "done" /\ ~Ack!Listening
      /\ ring' = ring /\ ring_sum' = ring_sum /\ ring_fill' = ring_fill
      /\ base_sum' = base_sum /\ base_n' = base_n /\ base_peak_sum' = base_peak_sum
      /\ threshold_sum' = threshold_sum
      /\ above' = above /\ above_since' = above_since /\ acked' = acked
      /\ now' = now /\ sums' = sums /\ times' = times
  BY DEF Ack!stop, Ack!window, Ack!base, Ack!rise
<1>1. AckTypes /\ Averaged /\ Armed /\ Ack!AckIsAPulse /\ Ack!NoiseIsNoAck
  BY <1>0 DEF AckInv
<1>2. AckTypes' /\ Averaged'
  BY <1>0, <1>1 DEF AckTypes, Averaged
<1>3. \A k : (Ack!High(k)' <=> Ack!High(k)) /\ Ack!Window(k)' = Ack!Window(k)
  BY <1>0 DEF Ack!High, Ack!Window, Ack!SumTo
<1>4. Armed'
  BY <1>0, <1>1, <1>3 DEF Armed, RiseFrom
<1>5. Ack!AckIsAPulse' /\ Ack!NoiseIsNoAck'
  BY <1>0, <1>1, <1>3 DEF Ack!AckIsAPulse, Ack!NoiseIsNoAck
<1>6. Ack!NoAckIsCutOff'
  <2>1. SUFFICES ASSUME ~acked, above PROVE now - above_since > SVC_ACK_MAX_US
    BY <1>0 DEF Ack!NoAckIsCutOff
  <2>2. ~(now - above_since <= SVC_ACK_MAX_US + SVC_ACK_WINDOW_US)
    BY <1>0, <2>1 DEF Ack!Listening, Ack!svc_ack_pending
  <2>3. QED  BY <1>1, <2>2, AckConstants DEF AckTypes
<1>7. QED  BY <1>0, <1>2, <1>4, <1>5, <1>6 DEF AckInv

\* The detector starts with an empty window.
LEMMA AckInit == Ack!Init => AckInv
<1> SUFFICES ASSUME Ack!Init PROVE AckInv
  OBVIOUS
<1>c. SVC_ACK_AVG_SAMPLES \in Nat \ {0}
  BY AckConstants
<1>0. /\ phase = "baseline" /\ sums = <<>> /\ times = <<>> /\ ring_sum = 0 /\ ring_fill = 0
      /\ ring = [k \in 1..SVC_ACK_AVG_SAMPLES |-> 0]
  BY DEF Ack!Init
<1>1. ring \in Seq(Int) /\ Len(ring) = SVC_ACK_AVG_SAMPLES
  BY <1>0, <1>c
<1>2. AckTypes
  <2>1. sums \in Seq(Int) /\ times \in Seq(Nat) /\ Len(times) = Len(sums)
    BY <1>0
  <2>2. ring_fill \in 0..SVC_ACK_AVG_SAMPLES
    BY <1>0, <1>c
  <2>3. /\ phase \in {"baseline", "listen", "done"} /\ ring_sum \in Int
        /\ base_sum \in Int /\ base_n \in Int /\ base_peak_sum \in Int
        /\ threshold_sum \in Int /\ now \in Nat
    BY DEF Ack!Init
  <2>4. above \in BOOLEAN /\ above_since \in Nat /\ acked \in BOOLEAN
    BY DEF Ack!Init
  <2>5. QED  BY <1>1, <2>1, <2>2, <2>3, <2>4 DEF AckTypes
<1>3. Averaged
  BY <1>0, <1>c DEF Averaged, At
<1>4. Baseline
  BY <1>0, <1>c DEF Baseline
<1>5. QED
  BY <1>0, <1>2, <1>3, <1>4
  DEF AckInv, Ack!AckIsAPulse, Ack!NoiseIsNoAck, Ack!NoAckIsCutOff

\* The steps of the detector, and those of the other levels, keep its invariant.
LEMMA AckStep ==
    ASSUME AckInv, Ack!Next \/ UNCHANGED ack_vars
    PROVE  AckInv'
<1>1. CASE UNCHANGED ack_vars
  <2>1. /\ phase' = phase /\ ring' = ring /\ ring_sum' = ring_sum /\ ring_fill' = ring_fill
        /\ base_sum' = base_sum /\ base_n' = base_n /\ base_peak_sum' = base_peak_sum
        /\ threshold_sum' = threshold_sum
        /\ above' = above /\ above_since' = above_since /\ acked' = acked
        /\ now' = now /\ sums' = sums /\ times' = times
    BY <1>1 DEF ack_vars
  <2>2. \A k : (Ack!High(k)' <=> Ack!High(k)) /\ Ack!Window(k)' = Ack!Window(k)
    BY <2>1 DEF Ack!High, Ack!Window, Ack!SumTo
  <2>3. AckTypes' /\ Averaged'
    BY <2>1 DEF AckInv, AckTypes, Averaged
  <2>4. (phase = "baseline" => Baseline)' /\ (phase # "baseline" => Armed)'
    BY <2>1, <2>2 DEF AckInv, Baseline, Armed, RiseFrom
  <2>5. (Ack!AckIsAPulse /\ Ack!NoiseIsNoAck /\ Ack!NoAckIsCutOff)'
    BY <2>1, <2>2 DEF AckInv, Ack!AckIsAPulse, Ack!NoiseIsNoAck, Ack!NoAckIsCutOff
  <2>6. QED  BY <2>3, <2>4, <2>5 DEF AckInv
<1>2. QED  BY <1>1, BaselineStep, ArmStep, ListenStep, StopStep DEF Ack!Next

(* svc_ack_sample sees an ACK exactly when the smoothed current rose above  *)
(* the threshold and fell again after a time between the two limits; the    *)
(* baseline's own swings stay below the threshold; and hw_send does not     *)
(* stop listening inside a rise that can still be an ACK.  For any window,  *)
(* widths, readings and sampling periods.                                   *)
THEOREM Acknowledged == Spec => []AcksAreRecognised
<1>1. Init => AckInv
  BY AckInit DEF Init
<1>2. AckInv /\ [Next]_vars => AckInv'
  BY AckStep DEF Next, vars, ack_vars
<1>3. AckInv => AcksAreRecognised
  BY DEF AckInv, AcksAreRecognised
<1>4. QED  BY <1>1, <1>2, <1>3, PTL DEF Spec

-----------------------------------------------------------------------------
(* Types *)

(* Every variable of task_servicemode, task_railcom and wavegen_send keeps  *)
(* its type: the ring's indices and slots, the attempts and answers, the    *)
(* FIFO's depth.                                                            *)
THEOREM TypeCorrect == Spec => []TypeOK
<1>1. Init => SvcInv /\ WaveInv
  BY SvcInit, WaveInit DEF Init
<1>2. SvcInv /\ WaveInv /\ [Next]_vars => (SvcInv /\ WaveInv)'
  BY SvcStep, WaveStep DEF Next, vars, svc_vars, wave_vars
<1>3. RcInv => Rc!TypeOK
  <2> SUFFICES ASSUME RcInv PROVE Rc!TypeOK
    OBVIOUS
  <2>1. RcTypes
    BY DEF RcInv
  <2>2. /\ r.attempts \in 0..POM_READ_ATTEMPTS /\ r.answers \in 0..POM_READ_COPIES
        /\ r.done \in BOOLEAN /\ r.value \in Reads \union {None}
    BY <2>1, ReadFields DEF RcTypes
  <2>3. \A k \in DOMAIN air : air[k] \in Reads
    BY <2>1 DEF RcTypes
  <2>4. g_head \in 0..IndexModulus - 1 /\ g_tail \in 0..IndexModulus - 1
    <3>1. PICK t, h \in Nat : RingAt(t, h)
      BY DEF RcInv, Ring
    <3>2. t \in Int /\ h \in Int /\ IndexModulus \in Nat \ {0}
      BY RcConstants
    <3>3. t % IndexModulus \in 0..IndexModulus - 1 /\ h % IndexModulus \in 0..IndexModulus - 1
      BY ONLY <3>2, Remainder, Zenon
    <3>4. QED  BY <3>1, <3>3, Zenon DEF RingAt
  <2>5. QED  BY <2>1, <2>2, <2>3, <2>4 DEF RcTypes, Rc!TypeOK
<1>4. WaveInv => Wave!TypeOK
  BY DEF WaveInv, WaveTypes, Wave!TypeOK
<1>5. SvcInv /\ WaveInv /\ RcInv => TypeOK
  BY <1>3, <1>4 DEF SvcInv, TypeOK
<1>6. QED  BY <1>1, <1>2, <1>5, RcAlways, PTL DEF Spec
=============================================================================
