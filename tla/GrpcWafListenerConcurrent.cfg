\* Two receive callbacks running at once, which the atomic counter and the
\* events mutex are there for: both can pass the cap check before either
\* counts its event.
CONSTANTS
    Receivers = {r1, r2}
    MaxEvents = 2
    NMsgs = 5
SPECIFICATION Spec
INVARIANT EventsCapped
CHECK_DEADLOCK FALSE
