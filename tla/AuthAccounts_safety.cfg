SPECIFICATION Spec
CONSTANTS
    Registrations = {r1}
    SignIns = {s1}
    Changes = {c1}
    Resets = {p1, p2}
    SignOuts = {}
    Jobs = {j1}
    Passwords = {old, new}
    MaxTries = 2
    MaxFaults = 1
    Nobody = Nobody
SYMMETRY Symmetry
CHECK_DEADLOCK FALSE
INVARIANTS
    SessionsAreCurrent
    OneLinkWorks
    LinkWorksOnce
PROPERTY
    Refinement
