\* Two users and one customer: the lookup of one races the write of the other.
\* No symmetry: TLC checks liveness on the whole graph.
CONSTANTS
    d1 = d1
    d2 = d2
    None = None
    Users = {"ann", "bob"}
    Events = {1, 2, 3}
    EventOf <- TwoUsers
    Deliveries = {d1, d2}
    Timeout = 1
    StaleClaimAge = 1
    MaxFaults = 1
SPECIFICATION FairSpec
INVARIANTS
    CustomersAreNotShared
PROPERTIES
    EventuallyApplied
