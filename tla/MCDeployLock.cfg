CONSTANTS
    Deployers = {d1, d2}
    Tokens = {1, 2, 3, 4, 5}
    None = 0
    Lease = 3
    AcquireTime = 1
    TxnTime = 1
    UnlockTime = 1
    MaxTime = 6
SYMMETRY Symmetry
SPECIFICATION Spec
INVARIANTS MutualExclusion OwnerFileSurvives
PROPERTY RemovalsAreOwn
