\* Two goroutines sending through the traced SyncProducer, single messages
\* or batches of two, three messages in all on a Kafka version with headers,
\* and the traced consumer reading the partition, closed by the application
\* at any point.  The model stops once everything is sent and consumed.
CONSTANTS
    N = 3
    MaxMsgs = 3
    Callers = {c1, c2}
    BatchSize = 2
    Headers = TRUE
    NoCtx = NoCtx
SPECIFICATION PipelineSpec
INVARIANT TypeOK
INVARIANT ConsumeSpanWindow
INVARIANT ProducerTypeOK
INVARIANT TraceContinuity
PROPERTY SpanFinishedAfterSend
PROPERTY CloseFinishesSpans
PROPERTY ImplementsConsumeSpans
PROPERTY ProduceSpansFinished
PROPERTY DeliveredHandedOver
CHECK_DEADLOCK FALSE
