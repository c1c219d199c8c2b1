------------------------- MODULE SaramaPipelineProofs -------------------------
(***************************************************************************)
(* Trace continuity from the traced SyncProducer to the traced partition   *)
(* consumer, for every number of messages, callers and batch size, with or *)
(* without header support.                                                 *)
(***************************************************************************)
EXTENDS SaramaPipeline, SaramaPartitionConsumerProofs, SaramaSyncProducerProofs,
        SequenceTheorems, TLAPS

(* The span context a message's headers carry on the broker. *)
Ctx(m) == IF Headers THEN m ELSE NoCtx

LogEntry == [msg : PMsgs, ctx : PMsgs \cup {NoCtx}]

(* What the producer side maintains: a call only ever holds messages that  *)
(* were taken, and each of those already carries its own span context      *)
(* (startProducerSpan runs before the sarama call), so the partition holds *)
(* every message with its own context; the consumer has fetched only what  *)
(* the partition holds, and each span it started is the child of what the  *)
(* partition held for that message.                                        *)
Carried ==
    /\ nextMsg \in Nat \ {0}
    /\ pending \in [Callers -> Seq(Sent)]
    /\ \A m \in Sent : Headers => hdr[m] = m
    /\ klog \in Seq(LogEntry)
    /\ \A i \in 1..Len(klog) : klog[i].ctx = Ctx(klog[i].msg)
    /\ produced <= Len(klog)
    /\ cparent \in [Msg -> PMsgs \cup {NoCtx}]
    /\ \A k \in 1..taken : cparent[k] = klog[k].ctx

PInv == IInv /\ Carried

USE NAssumption, ProducerAssumption, PipelineAssumption

-----------------------------------------------------------------------------

(* Every pipeline step is a consumer step or leaves the consumer alone. *)
LEMMA ConsumerProjection == [PipelineNext]_allvars => [Next]_vars
BY DEF PipelineNext, ReceiveTraced, ConsumerStep, FetchLogged, ProducerStep,
       Next, allvars, vars

LEMMA InitPInv == PipelineInit => PInv
<1> SUFFICES ASSUME PipelineInit PROVE PInv
    OBVIOUS
<1>1. IInv
    BY InitIInv DEF PipelineInit
<1>2. pending \in [Callers -> Seq(Sent)]
    BY EmptySeq DEF PipelineInit, ProducerInit
<1>3. klog \in Seq(LogEntry) /\ Len(klog) = 0
    BY EmptySeq DEF PipelineInit, ProducerInit
<1>. QED
    BY <1>1, <1>2, <1>3 DEF PipelineInit, ProducerInit, Init, PInv, Carried,
                            Sent, Msg, PMsgs

(* A call's fresh messages, taken from nextMsg on, are taken messages      *)
(* once nextMsg has moved past them.                                       *)
LEMMA FreshBatchSent ==
    ASSUME nextMsg \in Nat \ {0}, NEW n \in 1..BatchSize,
           nextMsg + n - 1 <= MaxMsgs, nextMsg' = nextMsg + n
    PROVE  FreshBatch(n) \in Seq(Sent')
<1>1. FreshBatch(n) \in [1..n -> Sent']
    BY DEF FreshBatch, Sent, PMsgs
<1>. QED
    BY <1>1, SeqDef

(* The producer's steps keep what it carries. *)
LEMMA ProducerCarried ==
    ASSUME PInv, ProducerStep
    PROVE  Carried'
<1> USE DEF PInv, Carried, IInv, TypeOK, PMsgs, Msg, Ctx, LogEntry
<1>0. UNCHANGED <<produced, taken, cparent>>
    BY DEF ProducerStep, vars
<1>a. PICK c \in Callers : \/ SendMessage(c) \/ SendMessages(c)
                           \/ SaramaProduce(c) \/ SaramaReturn(c) \/ ReturnSpans(c)
    BY DEF ProducerStep, ProducerNext
<1>b. Sent \subseteq Sent'
    <2>1. CASE SendMessage(c)
        BY <2>1 DEF SendMessage, Sent, PMsgs
    <2>2. CASE SendMessages(c)
        BY <2>2 DEF SendMessages, Sent, PMsgs
    <2>3. CASE SaramaProduce(c) \/ SaramaReturn(c) \/ ReturnSpans(c)
        BY <2>3 DEF SaramaProduce, SaramaReturn, ReturnSpans, Sent
    <2>. QED
        BY <1>a, <2>1, <2>2, <2>3
<1>c. \A d \in Callers : pending[d] \in Seq(Sent')
    BY <1>b, SeqMonotonic
<1>1. CASE SendMessage(c) \/ SendMessages(c)
    <2>. DEFINE Taken(n) ==
             /\ nextMsg + n - 1 <= MaxMsgs
             /\ pending' = [pending EXCEPT ![c] = FreshBatch(n)]
             /\ nextMsg' = nextMsg + n
             /\ hdr' = [m \in PMsgs |-> IF m \in {nextMsg + i - 1 : i \in 1..n} /\ Headers
                                        THEN m ELSE hdr[m]]
             /\ UNCHANGED klog
    <2>1. \E n \in 1..BatchSize : Taken(n)
        <3>1. CASE SendMessage(c)
            <4>1. {nextMsg} = {nextMsg + i - 1 : i \in 1..1}
                OBVIOUS
            <4>2. Taken(1)
                BY <3>1, <4>1 DEF SendMessage, StartSpans
            <4>3. 1 \in 1..BatchSize
                OBVIOUS
            <4>. QED
                BY <4>2, <4>3
        <3>2. CASE SendMessages(c)
            BY <3>2 DEF SendMessages, StartSpans
        <3>. QED
            BY <1>1, <3>1, <3>2
    <2>2. PICK n \in 1..BatchSize : Taken(n)
        BY <2>1
    <2>3. pending' \in [Callers -> Seq(Sent')]
        <3>1. FreshBatch(n) \in Seq(Sent')
            BY <2>2, FreshBatchSent
        <3>. QED
            BY <2>2, <3>1, <1>c
    <2>4. \A m \in Sent' : Headers => hdr'[m] = m
        <3> SUFFICES ASSUME NEW m \in Sent', Headers PROVE hdr'[m] = m
            OBVIOUS
        <3>1. CASE m < nextMsg
            BY <2>2, <3>1 DEF Sent
        <3>2. CASE m >= nextMsg
            <4>1. m - nextMsg + 1 \in 1..n /\ m = nextMsg + (m - nextMsg + 1) - 1
                BY <2>2, <3>2 DEF Sent
            <4>. QED
                BY <2>2, <4>1 DEF Sent
        <3>. QED
            BY <3>1, <3>2 DEF Sent
    <2>5. UNCHANGED klog /\ nextMsg' \in Nat \ {0}
        BY <2>2
    <2>. QED
        BY <2>3, <2>4, <2>5, <1>0
<1>2. CASE SaramaProduce(c)
    <2>. DEFINE m == Head(pending[c])
                e == [msg |-> m, ctx |-> IF Headers THEN hdr[m] ELSE NoCtx]
    <2>1. pending[c] # << >> /\ UNCHANGED <<nextMsg, hdr>>
          /\ pending' = [pending EXCEPT ![c] = Tail(pending[c])]
          /\ (klog' = Append(klog, e) \/ UNCHANGED klog)
        BY <1>2 DEF SaramaProduce
    <2>2. m \in Sent /\ Tail(pending[c]) \in Seq(Sent)
        BY <2>1, HeadTailProperties
    <2>3. pending' \in [Callers -> Seq(Sent')]
        <3>1. Sent' = Sent
            BY <2>1 DEF Sent
        <3>. QED
            BY <2>1, <2>2, <3>1, <1>c
    <2>4. e \in LogEntry /\ e.ctx = Ctx(e.msg)
        BY <2>2 DEF LogEntry, Ctx, Sent
    <2>5. CASE klog' = Append(klog, e)
        <3>1. /\ klog' \in Seq(LogEntry)
              /\ Len(klog') = Len(klog) + 1
              /\ \A i \in 1..Len(klog) : klog'[i] = klog[i]
              /\ klog'[Len(klog) + 1] = e
            BY <2>4, <2>5, AppendProperties
        <3>2. \A i \in 1..Len(klog') : klog'[i].ctx = Ctx(klog'[i].msg)
            <4> SUFFICES ASSUME NEW i \in 1..Len(klog')
                         PROVE  klog'[i].ctx = Ctx(klog'[i].msg)
                OBVIOUS
            <4>1. Len(klog) \in Nat
                BY LenProperties
            <4>2. CASE i \in 1..Len(klog)
                BY <4>2, <3>1
            <4>3. CASE i = Len(klog) + 1
                BY <4>3, <3>1, <2>4
            <4>. QED
                BY <4>1, <3>1, <4>2, <4>3
        <3>3. \A k \in 1..taken : cparent[k] = klog'[k].ctx
            <4>1. 1..taken \subseteq 1..Len(klog)
                OBVIOUS
            <4>. QED
                BY <4>1, <3>1
        <3>. QED
            BY <2>1, <2>3, <3>1, <3>2, <3>3, <1>0 DEF Sent
    <2>6. CASE UNCHANGED klog
        BY <2>1, <2>3, <2>6, <1>0 DEF Sent
    <2>. QED
        BY <2>1, <2>5, <2>6
<1>3. CASE SaramaReturn(c) \/ ReturnSpans(c)
    <2>1. UNCHANGED <<pending, nextMsg, hdr, klog>>
        BY <1>3 DEF SaramaReturn, ReturnSpans
    <2>. QED
        BY <2>1, <1>0 DEF Sent
<1> HIDE DEF PInv, Carried, IInv, TypeOK, PMsgs, Msg, Ctx, LogEntry
<1>. QED
    BY <1>a, <1>1, <1>2, <1>3

(* The consumer's steps keep it too: the goroutine only takes a message    *)
(* sarama fetched, and sarama only fetches what the partition holds.       *)
LEMMA ConsumerCarried ==
    ASSUME PInv, ReceiveTraced \/ ConsumerStep \/ FetchLogged
    PROVE  Carried'
<1> USE DEF PInv, Carried, IInv, TypeOK, PMsgs, Msg, Ctx, LogEntry
<1>1. CASE ReceiveTraced
    <2>1. /\ taken < produced /\ taken' = taken + 1 /\ UNCHANGED produced
          /\ cparent' = [cparent EXCEPT ![taken + 1] = klog[taken + 1].ctx]
          /\ UNCHANGED <<pending, nextMsg, hdr, klog>>
        BY <1>1 DEF ReceiveTraced, Receive, pvars
    <2>2. taken + 1 \in 1..Len(klog) /\ taken + 1 \in Msg
        BY <2>1
    <2>3. klog[taken + 1] \in LogEntry
        BY <2>2, ElementOfSeq
    <2>4. cparent' \in [Msg -> PMsgs \cup {NoCtx}]
        BY <2>1, <2>2, <2>3
    <2>5. \A k \in 1..taken' : cparent'[k] = klog'[k].ctx
        BY <2>1, <2>2
    <2>. QED
        BY <2>1, <2>4, <2>5 DEF Sent
<1>2. CASE ConsumerStep
    <2>1. UNCHANGED <<produced, taken, pending, nextMsg, hdr, klog, cparent>>
        BY <1>2 DEF ConsumerStep, Send, AfterSend, RangeEnd, AppClose,
                    SaramaClose, pvars
    <2>. QED
        BY <2>1 DEF Sent
<1>3. CASE FetchLogged
    <2>1. /\ produced < Len(klog) /\ produced' = produced + 1
          /\ UNCHANGED <<taken, pending, nextMsg, hdr, klog, cparent>>
        BY <1>3 DEF FetchLogged, Fetch, pvars
    <2>. QED
        BY <2>1 DEF Sent
<1> HIDE DEF PInv, Carried, IInv, TypeOK, PMsgs, Msg, Ctx, LogEntry
<1>. QED
    BY <1>1, <1>2, <1>3

LEMMA NextPInv == PInv /\ [PipelineNext]_allvars => PInv'
<1> SUFFICES ASSUME PInv, [PipelineNext]_allvars PROVE PInv'
    OBVIOUS
<1>1. IInv'
    BY ConsumerProjection, NextIInv DEF PInv
<1>2. CASE ProducerStep
    BY <1>1, <1>2, ProducerCarried DEF PInv
<1>3. CASE ReceiveTraced \/ ConsumerStep \/ FetchLogged
    BY <1>1, <1>3, ConsumerCarried DEF PInv
<1>4. CASE UNCHANGED allvars
    <2>1. UNCHANGED <<produced, taken, pending, nextMsg, hdr, klog, cparent>>
        BY <1>4 DEF allvars, vars, pvars
    <2>. QED
        BY <1>1, <2>1 DEF PInv, Carried, Sent, PMsgs, Msg, Ctx, LogEntry
<1>. QED
    BY <1>2, <1>3, <1>4 DEF PipelineNext

-----------------------------------------------------------------------------

(* Trace continuity holds in every reachable state, for every number of    *)
(* messages, callers and batch size and with or without headers: the       *)
(* consumer goroutine (sarama.go lines 63-67) always starts a message's    *)
(* kafka.consume span as the child of the kafka.produce span that          *)
(* startProducerSpan (lines 257-279) injected into that very message.      *)
THEOREM PipelineTraceContinuity == PipelineSpec => []TraceContinuity
<1>1. PipelineInit => PInv
    BY InitPInv
<1>2. PInv /\ [PipelineNext]_allvars => PInv'
    BY NextPInv
<1>3. PInv => TraceContinuity
    BY DEF PInv, Carried, IInv, TypeOK, TraceContinuity, Ctx
<1>. QED
    BY <1>1, <1>2, <1>3, PTL DEF PipelineSpec


(* Every pipeline step is a producer step or leaves the producer alone. *)
LEMMA ProducerProjection == [PipelineNext]_allvars => [ProducerNext]_pvars
BY DEF PipelineNext, ReceiveTraced, ConsumerStep, FetchLogged, ProducerStep,
       allvars

(* With the partition consumer running beside it, the traced SyncProducer  *)
(* still finishes each kafka.produce span at most once (lines 122 and      *)
(* 135-137), for every number of messages, callers and batch size.         *)
THEOREM PipelineProducerTypeCorrect == PipelineSpec => []ProducerTypeOK
<1>1. PipelineInit => ProducerInv
    BY InitProducerInv DEF PipelineInit
<1>2. ProducerInv /\ [PipelineNext]_allvars => ProducerInv'
    BY ProducerProjection, NextProducerInv
<1>3. ProducerInv => ProducerTypeOK
    BY DEF ProducerInv
<1>. QED
    BY <1>1, <1>2, <1>3, PTL DEF PipelineSpec


(* Beside the partition consumer too, the traced SyncProducer finishes a   *)
(* kafka.produce span only once sarama has delivered or failed its message *)
(* (lines 121-122, 134-137) and no concurrent call is still sending it.    *)
THEOREM PipelineFinishAfterSend == PipelineSpec => SpanFinishedAfterSend
<1>1. PipelineInit => ProducerInv /\ Pend
    BY InitProducerInv, InitPend DEF PipelineInit
<1>2. ProducerInv /\ Pend /\ [PipelineNext]_allvars => (ProducerInv /\ Pend)'
    BY ProducerProjection, NextProducerInv, NextPend
<1>3. ProducerInv /\ Pend /\ [PipelineNext]_allvars => [FinishAfterSend]_pvars
    BY ProducerProjection, StepFinishAfterSend
<1>. QED
    BY <1>1, <1>2, <1>3, PTL DEF PipelineSpec, SpanFinishedAfterSend

=============================================================================
