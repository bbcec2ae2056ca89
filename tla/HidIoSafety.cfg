SPECIFICATION Safety
CONSTANTS
    Calls = {c1, c2, c3}
    None = None
    Capacity = 1
    Mode = "Wireless"
    MaxUnasked = 1
SYMMETRY CallSymmetry
INVARIANTS
    TypeOK
    NoOrphan
    SkewBounded
    EachOnce
    InStep
    NoTimeoutNoMixup
    DisconnectedIsLast
