\* The application calls Close() while results are still in flight.
CONSTANTS
    Msgs = {m1, m2}
    NoMsg = NoMsg
    Configs <- MCConfigsBoth
    ProducerBuf = 2
    QuiescentClose = FALSE
SPECIFICATION Spec
INVARIANT SpanFinishedOnExit
CHECK_DEADLOCK FALSE
