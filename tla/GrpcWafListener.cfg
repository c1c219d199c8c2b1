\* One receive callback at a time, as grpc-go allows one RecvMsg caller per
\* stream; a cap of 2 events reached within a stream of 4 messages, with the
\* WAF handle released at any point.  The model stops once the RPC is done.
CONSTANTS
    Receivers = {r1}
    MaxEvents = 2
    NMsgs = 4
SPECIFICATION Spec
INVARIANT TypeOK
INVARIANT EventsCapped
CHECK_DEADLOCK FALSE
