\* Two requests through one WrapHandler, the first named by the resource
\* namer and the second not; the model stops once both are served.
CONSTANTS
    q1 = q1
    q2 = q2
    Reqs <- MCReqs
    Ignored = {}
    Names = {"GET /", "users"}
    Namer <- MCNamer
    Default = "GET /"
    Handler = "wrap"
    NoSpan = NoSpan
SPECIFICATION Spec
INVARIANT SpanConfigured
CHECK_DEADLOCK FALSE
