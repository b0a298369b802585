CONSTANTS
    s1 = s1
    s2 = s2
    None = None
    Sessions = {s1, s2}
    Admins = {s2}
    Window = 2
    Skews <- AheadOrBehind
    Horizon = 3
    MaxAttempts = 2
    MaxMoves = 3
SPECIFICATION FairSpec
INVARIANTS
    SignOutIsFinal
PROPERTIES
    RevokedIsTurnedAway
    OutageSignsNobodyOut
    TrustIsBounded
    NavigationSettles
