CONSTANTS
    Deployers = {d1, d2, d3}
    Tokens = {1, 2, 3, 4, 5, 6}
    None = 0
    Lease = 3
    AcquireTime = 1
    TxnTime = 1
    UnlockTime = 1
    MaxTime = 4
SYMMETRY Symmetry
SPECIFICATION Spec
INVARIANT MutualExclusion
