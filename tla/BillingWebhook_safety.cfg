\* Two concurrent deliveries of four events of every kind, with two faults.
CONSTANTS
    d1 = d1
    d2 = d2
    None = None
    Users = {"ann"}
    Events = {1, 2, 3, 4}
    EventOf <- OneUser
    Deliveries = {d1, d2}
    Timeout = 1
    StaleClaimAge = 1
    MaxFaults = 2
SPECIFICATION Spec
SYMMETRY Slots
INVARIANTS
    AppliedOnce
    AcknowledgedIsApplied
    NewestEventWins
PROPERTIES
    RowsOnlyMoveForward
