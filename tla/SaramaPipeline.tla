--------------------------- MODULE SaramaPipeline ---------------------------
(***************************************************************************)
(* The two sarama wrappers as one application uses them: goroutines send   *)
(* through a traced SyncProducer (SaramaSyncProducer) into a partition,    *)
(* and a consumer made by WrapConsumer reads that partition through the    *)
(* traced PartitionConsumer its ConsumePartition returns                   *)
(* (SaramaPartitionConsumer).  They interact through the partition and the *)
(* span context in each message's headers: startProducerSpan injects it    *)
(* (line 276), the broker keeps it with the message when the version has   *)
(* headers, and the consumer goroutine extracts it (lines 63-66) and       *)
(* starts the kafka.consume span as its child.                             *)
(***************************************************************************)
EXTENDS SaramaPartitionConsumer, SaramaSyncProducer

(* The consumer's partition is the producer's: it holds at most MaxMsgs.  *)
ASSUME PipelineAssumption == N = MaxMsgs

VARIABLE
    cparent     \* the context each kafka.consume span was started as a child of

allvars == <<vars, pvars, cparent>>

-----------------------------------------------------------------------------

(* WrapConsumer, then ConsumePartition: the wrapped sarama consumer        *)
(* returns a partition consumer without error and WrapPartitionConsumer    *)
(* wraps it; WrapSyncProducer wraps the producer.                          *)
PipelineInit ==
    /\ Init
    /\ ProducerInit
    /\ cparent = [k \in Msg |-> NoCtx]

(* Sarama's partition consumer fetches the next message of the partition. *)
FetchLogged ==
    /\ Fetch
    /\ produced < Len(klog)
    /\ UNCHANGED <<pvars, cparent>>

(* The goroutine takes the next message and starts its span: ChildOf the   *)
(* span context tracer.Extract finds in its headers, if any (lines 63-67).  *)
ReceiveTraced ==
    /\ Receive
    /\ cparent' = [cparent EXCEPT ![taken + 1] = klog[taken + 1].ctx]
    /\ UNCHANGED pvars

(* The consumer's other steps leave the producer alone. *)
ConsumerStep ==
    /\ Send \/ AfterSend \/ RangeEnd \/ AppClose \/ SaramaClose
    /\ UNCHANGED <<pvars, cparent>>

(* The producer's steps leave the consumer alone. *)
ProducerStep ==
    /\ ProducerNext
    /\ UNCHANGED <<vars, cparent>>

PipelineNext ==
    \/ ReceiveTraced
    \/ ConsumerStep
    \/ FetchLogged
    \/ ProducerStep

(* The goroutines of both wrappers are fair (Fairness, ProducerFairness),  *)
(* and sarama's partition consumer keeps fetching while it is open.        *)
PipelineSpec ==
    /\ PipelineInit
    /\ [][PipelineNext]_allvars
    /\ Fairness
    /\ ProducerFairness
    /\ WF_allvars(FetchLogged)

-----------------------------------------------------------------------------

(* Trace continuity across the two wrappers: every kafka.consume span the  *)
(* consumer goroutine starts is the child of the kafka.produce span of the *)
(* very message it consumes -- the context startProducerSpan injected      *)
(* before the sarama call, not another message's, nor nothing.             *)
TraceContinuity ==
    \A k \in 1..taken :
        cparent[k] = IF Headers THEN klog[k].msg ELSE NoCtx

(* Every message sarama delivers is eventually handed to the application   *)
(* by the consumer goroutine, unless the application closes the consumer.  *)
DeliveredHandedOver ==
    \A k \in Msg : (Len(klog) >= k) ~> (received >= k \/ closing)

=============================================================================
