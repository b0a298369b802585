CONSTANTS
    r1 = r1
    r2 = r2
    None = None
    Slots = {r1, r2}
    Shapes <- AllShapes
    Servers <- AllServers
    Timeout = 1
    GlobalLimit = 2
    AuthLimit = 1
    Window = 2
SPECIFICATION FairSpec
INVARIANTS
    EveryResponseIsDecorated
    CrossOriginCallersAreServed
    RefusedRequestsLeaveNoTrace
    HeldClaimHasRequest
    AuthLimitHolds
PROPERTIES
    AnsweredOnce
    EveryRequestEnds
    EveryWindowEnds
