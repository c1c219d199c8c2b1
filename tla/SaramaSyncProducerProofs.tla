------------------------ MODULE SaramaSyncProducerProofs ------------------------
(***************************************************************************)
(* Proofs about the traced SyncProducer, for every set of calling          *)
(* goroutines, number of messages and batch size, with or without headers. *)
(***************************************************************************)
EXTENDS SaramaSyncProducer, SequenceTheorems, TLAPS

(* The messages the callers have taken so far. *)
Sent == {m \in PMsgs : m < nextMsg}

(* Caller c is inside SendMessage / SendMessages. *)
Busy(c) == cpc[c] # "idle"

(* Some caller inside a call holds message m in its slice. *)
Held(m) == \E c \in Callers : Busy(c) /\ m \in BatchMsgs(c)

(* What "no span is finished twice" rests on: a call only holds messages    *)
(* it took fresh, two calls in progress never share one, and a taken        *)
(* message's span has been finished exactly when no call holds it any more. *)
Calls ==
    /\ \A c \in Callers : Busy(c) => BatchMsgs(c) \subseteq Sent
    /\ \A c, d \in Callers :
          c # d /\ Busy(c) /\ Busy(d) => BatchMsgs(c) \cap BatchMsgs(d) = {}
    /\ \A m \in PMsgs : pfinishes[m] = IF m \in Sent /\ ~Held(m) THEN 1 ELSE 0

ProducerInv == ProducerTypeOK /\ Calls

USE ProducerAssumption

-----------------------------------------------------------------------------

LEMMA InitProducerInv == ProducerInit => ProducerInv
<1> SUFFICES ASSUME ProducerInit PROVE ProducerInv
    OBVIOUS
<1>1. ProducerTypeOK
    <2>1. << >> \in Seq(PMsgs) /\ << >> \in Seq([msg : PMsgs, ctx : PMsgs \cup {NoCtx}])
        BY EmptySeq
    <2>2. MaxMsgs \in Nat
        OBVIOUS
    <2>. QED
        BY <2>1, <2>2 DEF ProducerInit, ProducerTypeOK, CallerLocations
<1>2. Calls
    BY DEF ProducerInit, Calls, Busy, Held, Sent
<1>. QED
    BY <1>1, <1>2 DEF ProducerInv

(* The slice a call takes: n fresh messages from nextMsg on, all of them   *)
(* messages of the model when the last one is.                             *)
LEMMA FreshBatchMsgs ==
    ASSUME nextMsg \in Nat, NEW n \in Nat, nextMsg + n - 1 <= MaxMsgs, 1 <= nextMsg
    PROVE  /\ FreshBatch(n) \in Seq(PMsgs)
           /\ {FreshBatch(n)[i] : i \in DOMAIN FreshBatch(n)}
                = {m \in PMsgs : nextMsg <= m /\ m < nextMsg + n}
<1>1. FreshBatch(n) \in [1..n -> PMsgs]
    BY DEF FreshBatch, PMsgs
<1>2. FreshBatch(n) \in Seq(PMsgs)
    BY <1>1, SeqDef
<1>3. ASSUME NEW m \in PMsgs, nextMsg <= m, m < nextMsg + n
      PROVE  \E i \in 1..n : m = nextMsg + i - 1
    <2>1. m - nextMsg + 1 \in 1..n /\ m = nextMsg + (m - nextMsg + 1) - 1
        BY <1>3 DEF PMsgs
    <2>. QED
        BY <2>1
<1>4. DOMAIN FreshBatch(n) = 1..n /\ \A i \in 1..n : FreshBatch(n)[i] = nextMsg + i - 1
    BY DEF FreshBatch
<1>5. \A i \in 1..n : nextMsg + i - 1 \in {m \in PMsgs : nextMsg <= m /\ m < nextMsg + n}
    BY DEF PMsgs
<1>6. \A x \in {FreshBatch(n)[i] : i \in DOMAIN FreshBatch(n)} :
         x \in {m \in PMsgs : nextMsg <= m /\ m < nextMsg + n}
    BY <1>4, <1>5
<1>7. \A m \in {m \in PMsgs : nextMsg <= m /\ m < nextMsg + n} :
         m \in {FreshBatch(n)[i] : i \in DOMAIN FreshBatch(n)}
    BY <1>3, <1>4
<1>. QED
    BY <1>2, <1>6, <1>7

(* A call that starts (SendMessage / SendMessages) keeps ProducerInv. *)
LEMMA SendKeepsInv ==
    ASSUME ProducerInv, NEW c \in Callers, SendMessage(c) \/ SendMessages(c)
    PROVE  ProducerInv'
<1> USE DEF ProducerInv, ProducerTypeOK, CallerLocations
<1> DEFINE Fresh(n) == {m \in PMsgs : nextMsg <= m /\ m < nextMsg + n}
<1>1. PICK n \in 1..BatchSize :
         /\ cpc[c] = "idle"
         /\ nextMsg + n - 1 <= MaxMsgs
         /\ batch' = [batch EXCEPT ![c] = FreshBatch(n)]
         /\ pending' = [pending EXCEPT ![c] = FreshBatch(n)]
         /\ nextMsg' = nextMsg + n
         /\ hdr' = [m \in PMsgs |-> IF m \in {nextMsg + i - 1 : i \in 1..n} /\ Headers
                                    THEN m ELSE hdr[m]]
         /\ cpc' = [cpc EXCEPT ![c] = "sending"]
         /\ UNCHANGED <<pfinishes, klog>>
    <2>1. CASE SendMessage(c)
        <3>1. {nextMsg} = {nextMsg + i - 1 : i \in 1..1} /\ 1 \in 1..BatchSize
            OBVIOUS
        <3>2. /\ cpc[c] = "idle"
              /\ nextMsg + 1 - 1 <= MaxMsgs
              /\ batch' = [batch EXCEPT ![c] = FreshBatch(1)]
              /\ pending' = [pending EXCEPT ![c] = FreshBatch(1)]
              /\ nextMsg' = nextMsg + 1
              /\ hdr' = [m \in PMsgs |-> IF m \in {nextMsg + i - 1 : i \in 1..1} /\ Headers
                                         THEN m ELSE hdr[m]]
              /\ cpc' = [cpc EXCEPT ![c] = "sending"]
              /\ UNCHANGED <<pfinishes, klog>>
            BY <2>1, <3>1 DEF SendMessage, StartSpans
        <3>. QED
            BY <3>1, <3>2
    <2>2. CASE SendMessages(c)
        BY <2>2 DEF SendMessages, StartSpans
    <2>. QED
        BY <2>1, <2>2
<1>2. /\ FreshBatch(n) \in Seq(PMsgs)
      /\ BatchMsgs(c)' = Fresh(n)
    <2>1. batch'[c] = FreshBatch(n)
        BY <1>1
    <2>2. /\ FreshBatch(n) \in Seq(PMsgs)
          /\ {FreshBatch(n)[i] : i \in DOMAIN FreshBatch(n)} = Fresh(n)
        BY <1>1, FreshBatchMsgs
    <2>. QED
        BY <2>1, <2>2 DEF BatchMsgs
<1>3. \A d \in Callers \ {c} : BatchMsgs(d)' = BatchMsgs(d) /\ (Busy(d)' <=> Busy(d))
    BY <1>1 DEF BatchMsgs, Busy
<1>4. Busy(c)' /\ ~Busy(c) /\ Sent' = Sent \cup Fresh(n) /\ Sent \cap Fresh(n) = {}
    BY <1>1 DEF Busy, Sent, PMsgs
<1>5. ProducerTypeOK'
    <2>1. hdr' \in [PMsgs -> PMsgs \cup {NoCtx}]
        BY <1>1
    <2>. QED
        BY <1>1, <1>2, <2>1
<1>6. \A m \in PMsgs : Held(m)' <=> Held(m) \/ m \in Fresh(n)
    BY <1>2, <1>3, <1>4 DEF Held
<1>7. Calls'
    <2>1. \A d \in Callers : Busy(d)' => BatchMsgs(d)' \subseteq Sent'
        BY <1>2, <1>3, <1>4 DEF Calls
    <2>2. \A d, e \in Callers :
             d # e /\ Busy(d)' /\ Busy(e)' => BatchMsgs(d)' \cap BatchMsgs(e)' = {}
        <3>1. \A e \in Callers \ {c} : Busy(e) => BatchMsgs(e) \cap Fresh(n) = {}
            <4>1. \A e \in Callers : Busy(e) => BatchMsgs(e) \subseteq Sent
                BY DEF Calls
            <4>. QED
                BY <4>1, <1>4
        <3> SUFFICES ASSUME NEW d \in Callers, NEW e \in Callers, d # e,
                            Busy(d)', Busy(e)'
                     PROVE  BatchMsgs(d)' \cap BatchMsgs(e)' = {}
            OBVIOUS
        <3>2. CASE d = c
            BY <3>2, <1>2, <1>3, <3>1
        <3>3. CASE e = c
            BY <3>3, <1>2, <1>3, <3>1
        <3>4. CASE d # c /\ e # c
            BY <3>4, <1>3 DEF Calls
        <3>. QED
            BY <3>2, <3>3, <3>4
    <2>3. \A m \in PMsgs : pfinishes'[m] = IF m \in Sent' /\ ~Held(m)' THEN 1 ELSE 0
        BY <1>1, <1>4, <1>6 DEF Calls
    <2>. QED
        BY <2>1, <2>2, <2>3 DEF Calls
<1>. QED
    BY <1>5, <1>7

(* Sarama delivering or failing one message touches only pending and the   *)
(* partition.                                                              *)
LEMMA ProduceKeepsInv ==
    ASSUME ProducerInv, NEW c \in Callers, SaramaProduce(c)
    PROVE  ProducerInv'
<1> USE DEF ProducerInv, ProducerTypeOK, CallerLocations, PMsgs
<1> DEFINE m == Head(pending[c])
           e == [msg |-> m, ctx |-> IF Headers THEN hdr[m] ELSE NoCtx]
<1>1. /\ pending[c] # << >>
      /\ pending' = [pending EXCEPT ![c] = Tail(pending[c])]
      /\ klog' = Append(klog, e) \/ UNCHANGED klog
      /\ UNCHANGED <<cpc, batch, nextMsg, hdr, pfinishes>>
    BY DEF SaramaProduce
<1>2. m \in PMsgs /\ Tail(pending[c]) \in Seq(PMsgs)
    BY <1>1, HeadTailProperties
<1>3. e \in [msg : PMsgs, ctx : PMsgs \cup {NoCtx}]
    BY <1>2
<1>4. klog' \in Seq([msg : PMsgs, ctx : PMsgs \cup {NoCtx}])
    <2>1. CASE klog' = Append(klog, e)
        <3>1. Append(klog, e) \in Seq([msg : PMsgs, ctx : PMsgs \cup {NoCtx}])
            BY <1>3, AppendProperties
        <3>. QED
            BY <2>1, <3>1
    <2>2. CASE UNCHANGED klog
        BY <2>2
    <2>. QED
        BY <1>1, <2>1, <2>2
<1>5. /\ \A d \in Callers : Busy(d)' = Busy(d) /\ BatchMsgs(d)' = BatchMsgs(d)
      /\ Sent' = Sent
    BY <1>1 DEF Busy, BatchMsgs, Sent
<1>6. \A x \in PMsgs : Held(x)' <=> Held(x)
    BY <1>5 DEF Held
<1>7. Calls'
    BY <1>1, <1>5, <1>6 DEF Calls
<1>. QED
    BY <1>1, <1>2, <1>4, <1>7

(* The wrapped call returning moves its caller from sending to finishing:  *)
(* still inside the call.                                                  *)
LEMMA ReturnKeepsInv ==
    ASSUME ProducerInv, NEW c \in Callers, SaramaReturn(c)
    PROVE  ProducerInv'
<1> USE DEF ProducerInv, ProducerTypeOK, CallerLocations
<1>1. /\ cpc' = [cpc EXCEPT ![c] = "finishing"]
      /\ UNCHANGED <<batch, pending, nextMsg, hdr, pfinishes, klog>>
      /\ \A d \in Callers : Busy(d)' <=> Busy(d)
    BY DEF SaramaReturn, Busy
<1>2. /\ \A d \in Callers : BatchMsgs(d)' = BatchMsgs(d)
      /\ Sent' = Sent
    BY <1>1 DEF BatchMsgs, Sent, PMsgs
<1>3. \A x \in PMsgs : Held(x)' <=> Held(x)
    BY <1>1, <1>2 DEF Held
<1>4. Calls'
    BY <1>1, <1>2, <1>3 DEF Calls
<1>. QED
    BY <1>1, <1>4

(* Finishing the spans of a call: they were unfinished, since the call     *)
(* held them, and no other call holds them; the caller then leaves.        *)
LEMMA FinishKeepsInv ==
    ASSUME ProducerInv, NEW c \in Callers, ReturnSpans(c)
    PROVE  ProducerInv'
<1> USE DEF ProducerInv, ProducerTypeOK, CallerLocations
<1>1. /\ cpc[c] = "finishing"
      /\ cpc' = [cpc EXCEPT ![c] = "idle"]
      /\ pfinishes' = [x \in PMsgs |-> IF x \in BatchMsgs(c) THEN pfinishes[x] + 1
                                                             ELSE pfinishes[x]]
      /\ UNCHANGED <<batch, pending, nextMsg, hdr, klog>>
    BY DEF ReturnSpans, FinishSpans
<1>2. /\ Busy(c) /\ ~Busy(c)'
      /\ \A d \in Callers \ {c} : Busy(d)' <=> Busy(d)
      /\ \A d \in Callers : BatchMsgs(d)' = BatchMsgs(d)
      /\ Sent' = Sent
    BY <1>1 DEF Busy, BatchMsgs, Sent
<1>3. ASSUME NEW x \in PMsgs, x \in BatchMsgs(c)
      PROVE  /\ x \in Sent /\ Held(x) /\ ~Held(x)'
    <2>1. x \in Sent /\ Held(x)
        BY <1>2, <1>3 DEF Calls, Held
    <2>2. \A d \in Callers \ {c} : Busy(d) => x \notin BatchMsgs(d)
        BY <1>2, <1>3 DEF Calls
    <2>. QED
        BY <1>2, <2>1, <2>2 DEF Held
<1>4. ASSUME NEW x \in PMsgs, x \notin BatchMsgs(c)
      PROVE  Held(x)' <=> Held(x)
    BY <1>2, <1>4 DEF Held
<1>5. \A x \in PMsgs : pfinishes'[x] = IF x \in Sent' /\ ~Held(x)' THEN 1 ELSE 0
    BY <1>1, <1>2, <1>3, <1>4 DEF Calls
<1>6. Calls'
    BY <1>2, <1>5 DEF Calls
<1>7. pfinishes' \in [PMsgs -> 0..1]
    BY <1>1, <1>5
<1>. QED
    BY <1>1, <1>6, <1>7

LEMMA NextProducerInv == ProducerInv /\ [ProducerNext]_pvars => ProducerInv'
<1> SUFFICES ASSUME ProducerInv, [ProducerNext]_pvars PROVE ProducerInv'
    OBVIOUS
<1>1. CASE ProducerNext
    BY <1>1, SendKeepsInv, ProduceKeepsInv, ReturnKeepsInv, FinishKeepsInv
       DEF ProducerNext
<1>2. CASE UNCHANGED pvars
    <2>1. /\ UNCHANGED <<cpc, batch, pending, nextMsg, hdr, pfinishes, klog>>
          /\ \A d \in Callers : Busy(d)' = Busy(d) /\ BatchMsgs(d)' = BatchMsgs(d)
          /\ Sent' = Sent
        BY <1>2 DEF pvars, Busy, BatchMsgs, Sent, PMsgs
    <2>2. \A x \in PMsgs : Held(x)' <=> Held(x)
        BY <2>1 DEF Held
    <2>3. ProducerTypeOK'
        BY <2>1 DEF ProducerInv, ProducerTypeOK, CallerLocations, PMsgs
    <2>. QED
        BY <2>1, <2>2, <2>3 DEF ProducerInv, Calls
<1>. QED
    BY <1>1, <1>2

-----------------------------------------------------------------------------

(* For every set of calling goroutines, number of messages and batch size, *)
(* with or without headers, every reachable state of the traced            *)
(* SyncProducer is well typed; in particular no kafka.produce span is      *)
(* finished twice: SendMessage / SendMessages finish (lines 122, 135-137)  *)
(* only the spans of their own slice, started fresh at lines 120 / 132.    *)
THEOREM ProducerTypeCorrect == ProducerSpec => []ProducerTypeOK
<1>1. ProducerInit => ProducerInv
    BY InitProducerInv
<1>2. ProducerInv /\ [ProducerNext]_pvars => ProducerInv'
    BY NextProducerInv
<1>3. ProducerInv => ProducerTypeOK
    BY DEF ProducerInv
<1>. QED
    BY <1>1, <1>2, <1>3, PTL DEF ProducerSpec


-----------------------------------------------------------------------------

(* The messages sarama has yet to deliver or fail in a caller's call. *)
PendingMsgs(c) == {pending[c][i] : i \in DOMAIN pending[c]}

(* Sarama works only through the messages of a call that is blocked in it. *)
PendOK(c) ==
    /\ PendingMsgs(c) \subseteq BatchMsgs(c)
    /\ cpc[c] # "sending" => pending[c] = << >>

Pend == \A c \in Callers : PendOK(c)

LEMMA InitPend == ProducerInit => Pend
BY DEF ProducerInit, Pend, PendOK, PendingMsgs, BatchMsgs

(* A step that leaves a caller alone keeps PendOK for it. *)
LEMMA PendFrame ==
    ASSUME NEW c, PendOK(c),
           pending'[c] = pending[c], batch'[c] = batch[c], cpc'[c] = cpc[c]
    PROVE  PendOK(c)'
BY DEF PendOK, PendingMsgs, BatchMsgs

LEMMA NextPend ==
    ASSUME ProducerInv, Pend, [ProducerNext]_pvars
    PROVE  Pend'
<1> USE DEF ProducerInv, ProducerTypeOK, CallerLocations, PMsgs
<1> SUFFICES ASSUME NEW d \in Callers PROVE PendOK(d)'
    BY DEF Pend
<1>0. PendOK(d)
    BY DEF Pend
<1>1. ASSUME NEW c \in Callers, SendMessage(c) \/ SendMessages(c)
      PROVE  PendOK(d)'
    <2>1. /\ pending'[c] = batch'[c] /\ cpc'[c] = "sending"
          /\ \A e \in Callers \ {c} : /\ pending'[e] = pending[e]
                                     /\ batch'[e] = batch[e]
                                     /\ cpc'[e] = cpc[e]
        BY <1>1 DEF SendMessage, SendMessages
    <2>2. CASE d = c
        BY <2>1, <2>2 DEF PendOK, PendingMsgs, BatchMsgs
    <2>3. CASE d # c
        BY <2>1, <2>3, <1>0, PendFrame
    <2>. QED
        BY <2>2, <2>3
<1>2. ASSUME NEW c \in Callers, SaramaProduce(c)
      PROVE  PendOK(d)'
    <2>1. /\ pending[c] \in Seq(PMsgs) /\ pending[c] # << >>
          /\ pending' = [pending EXCEPT ![c] = Tail(pending[c])]
          /\ UNCHANGED <<cpc, batch>>
        BY <1>2 DEF SaramaProduce
    <2>2. CASE d = c
        <3>1. /\ Len(Tail(pending[c])) = Len(pending[c]) - 1
              /\ \A i \in 1..Len(pending[c]) - 1 : Tail(pending[c])[i] = pending[c][i + 1]
              /\ Tail(pending[c]) \in Seq(PMsgs)
            BY <2>1, HeadTailProperties
        <3>2. pending'[c] = Tail(pending[c])
            BY <2>1
        <3>3. PendingMsgs(c)' \subseteq PendingMsgs(c)
            BY <3>1, <3>2, <2>1 DEF PendingMsgs
        <3>4. cpc[c] = "sending"
            BY <2>1, <2>2, <1>0 DEF PendOK
        <3>. QED
            BY <3>3, <3>4, <2>1, <2>2, <1>0 DEF PendOK, BatchMsgs
    <2>3. CASE d # c
        BY <2>1, <2>3, <1>0, PendFrame
    <2>. QED
        BY <2>2, <2>3
<1>3. ASSUME NEW c \in Callers, SaramaReturn(c)
      PROVE  PendOK(d)'
    <2>1. /\ pending[c] = << >> /\ UNCHANGED <<pending, batch>>
          /\ \A e \in Callers \ {c} : cpc'[e] = cpc[e]
        BY <1>3 DEF SaramaReturn
    <2>2. CASE d = c
        BY <2>1, <2>2 DEF PendOK, PendingMsgs
    <2>3. CASE d # c
        BY <2>1, <2>3, <1>0, PendFrame
    <2>. QED
        BY <2>2, <2>3
<1>4. ASSUME NEW c \in Callers, ReturnSpans(c)
      PROVE  PendOK(d)'
    <2>1. /\ cpc[c] = "finishing" /\ UNCHANGED <<pending, batch>>
          /\ \A e \in Callers \ {c} : cpc'[e] = cpc[e]
        BY <1>4 DEF ReturnSpans
    <2>2. CASE d = c
        BY <2>1, <2>2, <1>0 DEF PendOK, PendingMsgs
    <2>3. CASE d # c
        BY <2>1, <2>3, <1>0, PendFrame
    <2>. QED
        BY <2>2, <2>3
<1>5. CASE UNCHANGED pvars
    BY <1>5, <1>0, PendFrame DEF pvars
<1>. QED
    BY <1>1, <1>2, <1>3, <1>4, <1>5 DEF ProducerNext

(* Finishing spans: the caller's own messages are no longer pending, since *)
(* it left sarama's call; and any other caller with one of them pending    *)
(* would be blocked in sarama with a batch sharing that message.           *)
LEMMA StepFinishAfterSend ==
    ASSUME ProducerInv, Pend, [ProducerNext]_pvars
    PROVE  FinishAfterSend
<1> USE DEF ProducerInv, ProducerTypeOK, CallerLocations, PMsgs
<1> SUFFICES ASSUME NEW m \in PMsgs, pfinishes'[m] # pfinishes[m],
                    NEW d \in Callers, NEW i \in DOMAIN pending[d],
                    pending[d][i] = m
             PROVE  FALSE
    BY DEF FinishAfterSend
<1>1. PICK c \in Callers : ReturnSpans(c)
    BY DEF ProducerNext, SendMessage, SendMessages, SaramaProduce, SaramaReturn, pvars
<1>2. m \in BatchMsgs(c) /\ cpc[c] = "finishing"
    BY <1>1 DEF ReturnSpans, FinishSpans
<1>3. m \in BatchMsgs(d) /\ cpc[d] = "sending"
    BY DEF Pend, PendOK, PendingMsgs
<1>4. c # d
    BY <1>2, <1>3
<1>. QED
    BY <1>2, <1>3, <1>4 DEF Calls, Busy

(* For every set of callers, number of messages and batch size, the traced *)
(* SyncProducer finishes a kafka.produce span (finishProducerSpan, lines   *)
(* 122 and 136) only once sarama has delivered or failed its message and   *)
(* no concurrent call is still sending it.                                 *)
THEOREM ProducerFinishAfterSend == ProducerSpec => SpanFinishedAfterSend
<1>1. ProducerInit => ProducerInv /\ Pend
    BY InitProducerInv, InitPend
<1>2. ProducerInv /\ Pend /\ [ProducerNext]_pvars => (ProducerInv /\ Pend)'
    BY NextProducerInv, NextPend
<1>3. ProducerInv /\ Pend /\ [ProducerNext]_pvars => [FinishAfterSend]_pvars
    BY StepFinishAfterSend
<1>. QED
    BY <1>1, <1>2, <1>3, PTL DEF ProducerSpec, SpanFinishedAfterSend

=============================================================================
