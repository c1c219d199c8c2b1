\* The application closes right after its last write returns.
CONSTANTS
    Msgs = {m1, m2}
    NoMsg = NoMsg
    Configs <- MCConfigsBoth
    ProducerBuf = 2
    QuiescentClose = FALSE
SPECIFICATION Spec
INVARIANT NoSendOnClosedInput
CHECK_DEADLOCK FALSE
