\* Three goroutines drawing numbers, one of which may also reseed, four
\* draws in all; the model stops once the draws are used up or Seed has
\* locked itself out with everyone else queued behind it.
CONSTANTS
    Procs = {p1, p2, p3}
    SeedProcs = {p3}
    NoProc = NoProc
    MaxCalls = 4
SPECIFICATION Spec
INVARIANT DistinctDraws
CHECK_DEADLOCK FALSE
