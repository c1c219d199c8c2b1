\* Sarama's pipeline holds fewer messages than the application writes.
CONSTANTS
    Msgs = {m1, m2}
    NoMsg = NoMsg
    Configs <- MCConfigsBoth
    ProducerBuf = 1
    QuiescentClose = TRUE
SPECIFICATION Spec
PROPERTY ResultsDelivered
CHECK_DEADLOCK FALSE
