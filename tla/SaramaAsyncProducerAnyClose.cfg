\* The wrapper under the default configs with the application closing the
\* producer (AsyncClose or Close) at any moment after its last write.
CONSTANTS
    Msgs = {m1, m2, m3}
    NoMsg = NoMsg
    Configs <- MCConfigsDefault
    ProducerBuf = 3
    QuiescentClose = FALSE
SPECIFICATION Spec
INVARIANT TypeOK
INVARIANT SpanFinishedBeforeResult
CHECK_DEADLOCK FALSE
