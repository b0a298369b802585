\* Two requests: a holder and the one that takes its claim over or claims the key afresh.  TLC
\* checks liveness without symmetry.
CONSTANTS
    r1 = r1
    r2 = r2
    i1 = i1
    i2 = i2
    None = None
    Requests = {r1, r2}
    Identities = {i1, i2}
    Timeout = 1
    Lease = 1
    Window = 3
    KeyRetention = 3
    MaxTime = 5
SPECIFICATION FairCheckoutSpec
\* The requests of an instance are finite: the system stops when all have ended.
CHECK_DEADLOCK FALSE
INVARIANTS
    SecondSessionNeedsRelease
    ReleasedCallIsNotReplayed
PROPERTIES
    EveryRequestEnds
