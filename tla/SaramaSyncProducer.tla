------------------------- MODULE SaramaSyncProducer -------------------------
(***************************************************************************)
(* WrapSyncProducer (src/contrib/Shopify/sarama/sarama.go, lines 112-158): *)
(* SendMessage and SendMessages start a kafka.produce span per message     *)
(* (startProducerSpan, lines 257-279, which re-injects the span context    *)
(* into the message headers when the Kafka version has headers), make the  *)
(* one blocking call to the wrapped sarama.SyncProducer, and then finish   *)
(* every span (finishProducerSpan, lines 281-285).  Any number of          *)
(* goroutines (Callers) may share the producer.                            *)
(*                                                                         *)
(* Messages are 1..MaxMsgs, taken fresh by each call in turn; a message's  *)
(* span is identified with the message, and a span context in headers with *)
(* the span.  During the blocking call sarama delivers each message of the *)
(* call, in slice order, to the one partition modelled -- with its headers *)
(* when the version has them -- or fails it; other callers' messages may   *)
(* land in between.  The span tags (partition, offset, error) are left out. *)
(*                                                                         *)
(* The definitions that would clash with a composed consumer module carry  *)
(* a Producer prefix.                                                      *)
(***************************************************************************)
EXTENDS Naturals, Sequences, FiniteSets

CONSTANTS
    Callers,    \* goroutines calling SendMessage / SendMessages
    MaxMsgs,    \* messages produced in all
    BatchSize,  \* the longest msgs slice given to SendMessages
    Headers,    \* saramaConfig.Version.IsAtLeast(sarama.V0_11_0_0)
    NoCtx       \* headers without a span context

ASSUME ProducerAssumption ==
    /\ IsFiniteSet(Callers)
    /\ MaxMsgs \in Nat
    /\ BatchSize \in Nat \ {0}
    /\ Headers \in BOOLEAN
    /\ NoCtx \notin Nat

VARIABLES
    cpc,        \* where each caller is
    batch,      \* the msgs of each caller's current call, in slice order
    pending,    \* those sarama has not yet delivered or failed
    nextMsg,    \* the next fresh message
    hdr,        \* the span context in each message's headers
    pfinishes,  \* how many times each message's produce span was finished
    klog        \* the partition: delivered messages with their headers

pvars == <<cpc, batch, pending, nextMsg, hdr, pfinishes, klog>>

PMsgs == 1..MaxMsgs

(* Not in a call; blocked in the wrapped SendMessage(s) (lines 121, 134);  *)
(* finishing the spans after it returned (122, 135-137).                    *)
CallerLocations == {"idle", "sending", "finishing"}

(* startProducerSpan for each message of the call: the span starts (as a   *)
(* child of any context already in the headers) and, if the version has    *)
(* headers, its own context replaces it.                                   *)
StartSpans(msgs) ==
    hdr' = [m \in PMsgs |-> IF m \in msgs /\ Headers THEN m ELSE hdr[m]]

(* finishProducerSpan for each message of the call. *)
FinishSpans(msgs) ==
    pfinishes' = [m \in PMsgs |-> IF m \in msgs THEN pfinishes[m] + 1 ELSE pfinishes[m]]

(* The messages 1..n of a call starting at the next fresh message. *)
FreshBatch(n) == [i \in 1..n |-> nextMsg + i - 1]

BatchMsgs(c) == {batch[c][i] : i \in DOMAIN batch[c]}

(***************************************************************************)
(* Plausible faults of the calls, each a small edit of an action below.    *)
(***************************************************************************)

(* The caller is not released after the spans are finished, so they are   *)
(* finished again (a missing return after the finish loop).               *)
ReturnSpansNoReturn(c) ==
    /\ cpc[c] = "finishing"
    /\ FinishSpans(BatchMsgs(c))
    /\ UNCHANGED <<cpc, batch, pending, nextMsg, hdr, klog>>

(* SendMessages finishes spans[:len(spans)-1] only (an off-by-one). *)
ReturnSpansSkipLast(c) ==
    /\ cpc[c] = "finishing"
    /\ FinishSpans({batch[c][i] : i \in 1..Len(batch[c]) - 1})
    /\ cpc' = [cpc EXCEPT ![c] = "idle"]
    /\ UNCHANGED <<batch, pending, nextMsg, hdr, klog>>

(* The spans are finished before the wrapped call has returned (the loop  *)
(* of lines 135-137 moved above line 134).                                 *)
ReturnSpansEarly(c) ==
    /\ cpc[c] \in {"sending", "finishing"}
    /\ FinishSpans(BatchMsgs(c))
    /\ cpc' = [cpc EXCEPT ![c] = "idle"]
    /\ UNCHANGED <<batch, pending, nextMsg, hdr, klog>>

(* The span context is not injected into the message (the version check   *)
(* of line 274 inverted): the headers keep whatever they carried.          *)
SendMessageInjectParent(c) ==
    /\ cpc[c] = "idle"
    /\ nextMsg <= MaxMsgs
    /\ batch' = [batch EXCEPT ![c] = FreshBatch(1)]
    /\ pending' = [pending EXCEPT ![c] = FreshBatch(1)]
    /\ nextMsg' = nextMsg + 1
    /\ cpc' = [cpc EXCEPT ![c] = "sending"]
    /\ UNCHANGED <<hdr, pfinishes, klog>>

-----------------------------------------------------------------------------

(* WrapSyncProducer: nothing sent, no span, an empty partition. *)
ProducerInit ==
    /\ cpc = [c \in Callers |-> "idle"]
    /\ batch = [c \in Callers |-> << >>]
    /\ pending = [c \in Callers |-> << >>]
    /\ nextMsg = 1
    /\ hdr = [m \in PMsgs |-> NoCtx]
    /\ pfinishes = [m \in PMsgs |-> 0]
    /\ klog = << >>

(* SendMessage(msg): span := startProducerSpan(...), then the wrapped call. *)
SendMessage(c) ==
    /\ cpc[c] = "idle"
    /\ nextMsg <= MaxMsgs
    /\ batch' = [batch EXCEPT ![c] = FreshBatch(1)]
    /\ pending' = [pending EXCEPT ![c] = FreshBatch(1)]
    /\ nextMsg' = nextMsg + 1
    /\ StartSpans({nextMsg})
    /\ cpc' = [cpc EXCEPT ![c] = "sending"]
    /\ UNCHANGED <<pfinishes, klog>>

(* SendMessages(msgs): a span per message (lines 130-133), then the one    *)
(* wrapped call.                                                            *)
SendMessages(c) ==
    /\ cpc[c] = "idle"
    /\ \E n \in 1..BatchSize :
          /\ nextMsg + n - 1 <= MaxMsgs
          /\ batch' = [batch EXCEPT ![c] = FreshBatch(n)]
          /\ pending' = [pending EXCEPT ![c] = FreshBatch(n)]
          /\ nextMsg' = nextMsg + n
          /\ StartSpans({nextMsg + i - 1 : i \in 1..n})
    /\ cpc' = [cpc EXCEPT ![c] = "sending"]
    /\ UNCHANGED <<pfinishes, klog>>

(* Inside the wrapped call sarama delivers the next message of the call,   *)
(* headers included if the version has them, or fails it.                  *)
SaramaProduce(c) ==
    /\ cpc[c] = "sending"
    /\ pending[c] # << >>
    /\ LET m == Head(pending[c]) IN
       \/ klog' = Append(klog, [msg |-> m, ctx |-> IF Headers THEN hdr[m] ELSE NoCtx])
       \/ UNCHANGED klog
    /\ pending' = [pending EXCEPT ![c] = Tail(pending[c])]
    /\ UNCHANGED <<cpc, batch, nextMsg, hdr, pfinishes>>

(* The wrapped call returns once every message is delivered or failed. *)
SaramaReturn(c) ==
    /\ cpc[c] = "sending"
    /\ pending[c] = << >>
    /\ cpc' = [cpc EXCEPT ![c] = "finishing"]
    /\ UNCHANGED <<batch, pending, nextMsg, hdr, pfinishes, klog>>

(* finishProducerSpan for the span (line 122) or each span (lines 135-137), *)
(* then return.                                                             *)
ReturnSpans(c) ==
    /\ cpc[c] = "finishing"
    /\ FinishSpans(BatchMsgs(c))
    /\ cpc' = [cpc EXCEPT ![c] = "idle"]
    /\ UNCHANGED <<batch, pending, nextMsg, hdr, klog>>

ProducerNext ==
    \E c \in Callers :
        \/ SendMessage(c)
        \/ SendMessages(c)
        \/ SaramaProduce(c)
        \/ SaramaReturn(c)
        \/ ReturnSpans(c)

(* The calling goroutines are scheduled fairly, and sarama's SendMessage(s) *)
(* returns once every message is acknowledged or has failed after its       *)
(* retries and timeouts.                                                    *)
ProducerFairness ==
    \A c \in Callers :
        /\ WF_pvars(SaramaProduce(c))
        /\ WF_pvars(SaramaReturn(c))
        /\ WF_pvars(ReturnSpans(c))

ProducerSpec == ProducerInit /\ [][ProducerNext]_pvars /\ ProducerFairness

-----------------------------------------------------------------------------

(* Every variable ranges over its type; in particular no kafka.produce     *)
(* span is finished twice.                                                  *)
ProducerTypeOK ==
    /\ cpc \in [Callers -> CallerLocations]
    /\ batch \in [Callers -> Seq(PMsgs)]
    /\ pending \in [Callers -> Seq(PMsgs)]
    /\ nextMsg \in 1..MaxMsgs + 1
    /\ hdr \in [PMsgs -> PMsgs \cup {NoCtx}]
    /\ pfinishes \in [PMsgs -> 0..1]
    /\ klog \in Seq([msg : PMsgs, ctx : PMsgs \cup {NoCtx}])

(* Every kafka.produce span a call starts is finished once the call        *)
(* returns, whether sarama delivered its message or not.                   *)
ProduceSpansFinished ==
    \A m \in PMsgs : (m < nextMsg) ~> (pfinishes[m] = 1)

(* A step that finishes a span, finishes only spans whose message no call  *)
(* still has pending with sarama.                                          *)
FinishAfterSend ==
    \A m \in PMsgs :
        pfinishes'[m] # pfinishes[m] =>
            \A c \in Callers : \A i \in DOMAIN pending[c] : pending[c][i] # m

(* finishProducerSpan reads the partition, offset and error of sarama's    *)
(* answer (lines 122, 136), so no kafka.produce span is finished while     *)
(* sarama -- in this caller's call or any other's -- has yet to deliver    *)
(* or fail its message.                                                    *)
SpanFinishedAfterSend == [][FinishAfterSend]_pvars

=============================================================================
