\* Three expired keys and batches of two: a full batch, a short one, and rows skipped in either.
\* No row is interchangeable with another: TLC checks liveness without symmetry.
CONSTANTS
    s1 = s1
    k1 = k1
    k2 = k2
    k3 = k3
    Rows = {s1, k1, k2, k3}
    TableOf <- TableOfRow
    BatchSize = 2
    MaxFaults = 2
SPECIFICATION FairSpec
INVARIANTS
    LocksAreOneBatch
PROPERTIES
    Refinement
    BacklogIsCleared
    ExpiredRowsGo
