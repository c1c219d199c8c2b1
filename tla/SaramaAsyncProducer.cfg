\* The wrapper under the default configs, sarama's pipeline never full and
\* the application closing an idle producer.  The goroutine legitimately
\* stops: it idles in its select until the application closes, then exits.
CONSTANTS
    Msgs = {m1, m2, m3}
    NoMsg = NoMsg
    Configs <- MCConfigsDefault
    ProducerBuf = 3
    QuiescentClose = TRUE
SPECIFICATION Spec
INVARIANT SpanFinishedOnExit
PROPERTY ResultsDelivered
PROPERTY SpansFinished
CHECK_DEADLOCK FALSE
