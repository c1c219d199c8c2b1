\* Producer.Return.Successes on and Producer.Return.Errors off.
CONSTANTS
    Msgs = {m1, m2}
    NoMsg = NoMsg
    Configs <- MCConfigsNoErrors
    ProducerBuf = 2
    QuiescentClose = TRUE
SPECIFICATION Spec
PROPERTY SpansFinished
CHECK_DEADLOCK FALSE
