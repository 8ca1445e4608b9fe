CONSTANTS
    Deployers = {d1, d2}
    Tokens = {1, 2, 3, 4, 5, 6}
    None = 0
    Lease = 5
    AcquireTime = 2
    TxnTime = 4
    UnlockTime = 1
    MaxTime = 6
SYMMETRY Symmetry
SPECIFICATION Spec
INVARIANT MutualExclusion
