SPECIFICATION Spec
CONSTANTS
    Rpcs = {r1, r2}
    Handler = handler
    Ids = {p, q}
    Configs = {k1, k2}
    DefaultId = p
    None = None
    Empty = Empty
    Torn = Torn
    MaxCalls = 2
    MaxFaults = 2
SYMMETRY RpcSymmetry
INVARIANTS
    SavedIsThere
    AtMostOneDefault
    RecordNamesMouse
PROPERTIES
    OnlyDeleteRemoves
CHECK_DEADLOCK FALSE
