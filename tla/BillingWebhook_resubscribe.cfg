\* One delivery at a time, nothing fails: is a new subscription linked?
CONSTANTS
    d1 = d1
    d2 = d2
    None = None
    Users = {"ann"}
    Events = {1, 2, 3, 4}
    EventOf <- Resubscription
    Deliveries = {d1}
    Timeout = 1
    StaleClaimAge = 1
    MaxFaults = 0
SPECIFICATION Spec
INVARIANT
    ResubscriptionIsLinked
