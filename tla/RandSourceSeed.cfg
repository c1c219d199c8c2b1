\* Two goroutines drawing numbers while one of them may reseed.
CONSTANTS
    Procs = {p1, p2}
    SeedProcs = {p2}
    NoProc = NoProc
    MaxCalls = 3
SPECIFICATION Spec
PROPERTY Int63Returns
CHECK_DEADLOCK FALSE
