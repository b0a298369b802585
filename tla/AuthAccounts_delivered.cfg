SPECIFICATION Spec
CONSTANTS
    Registrations = {r1}
    SignIns = {}
    Changes = {}
    Resets = {}
    SignOuts = {}
    Jobs = {j1}
    Passwords = {old}
    MaxTries = 2
    MaxFaults = 0
    Nobody = Nobody
CHECK_DEADLOCK FALSE
INVARIANT
    OnlyDeliveredLinkWorks
