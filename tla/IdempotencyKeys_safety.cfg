\* Three requests, two identities, a window of three ticks: a crash, a takeover,
\* a replay and a fresh claim past the window fit in one behaviour.
CONSTANTS
    r1 = r1
    r2 = r2
    r3 = r3
    i1 = i1
    i2 = i2
    None = None
    Requests = {r1, r2, r3}
    Identities = {i1, i2}
    Timeout = 1
    Lease = 1
    Window = 3
    MaxTime = 5
SPECIFICATION Spec
SYMMETRY Symmetry
\* The requests of an instance are finite: the system stops when all have ended.
CHECK_DEADLOCK FALSE
INVARIANTS
    HandlerHoldsItsClaim
    StoredAnswerHoldsWindow
    NewGenerationNeedsRelease
    ReplayIsFaithful
PROPERTIES
    CompletedClaimIsFinal
    Refinement
