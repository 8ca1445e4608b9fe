SPECIFICATION Spec
CONSTANTS
    Servers = {s1, s2, s3}
    NoOne = NoOne
    MaxKeys = 3
    MaxTime = 3
    AccessTtl = 1
    ClockSkew = 1
    DefaultOverlap = 1
INVARIANTS
    TokensVerify
PROPERTY
    ActiveKeyStands
SYMMETRY ServerSymmetry
CHECK_DEADLOCK FALSE
