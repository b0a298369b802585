\* One operation retried with one key: does its side effect commit twice in a
\* window when nothing crashes and no database call is lost?
CONSTANTS
    r1 = r1
    r2 = r2
    i1 = i1
    None = None
    Requests = {r1, r2}
    Identities = {i1}
    Timeout = 1
    Lease = 2
    Window = 3
    MaxTime = 5
SPECIFICATION Spec
CHECK_DEADLOCK FALSE
INVARIANT
    NeverTwiceWithoutFault
