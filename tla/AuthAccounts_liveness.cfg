SPECIFICATION FairSpec
CONSTANTS
    Registrations = {r1, r2}
    SignIns = {}
    Changes = {c1}
    Resets = {p1}
    SignOuts = {o1}
    Jobs = {j1}
    Passwords = {old}
    MaxTries = 2
    MaxFaults = 1
    Nobody = Nobody
CHECK_DEADLOCK FALSE
PROPERTY
    EveryRequestEnds
