SPECIFICATION Safety
CONSTANTS
    Rpcs = {r1, r2}
    Handles = {h1, h2}
    NoHandle = NoHandle
    MaxPlugs = 2
    EventCapacity = 2
    Polling = TRUE
    Flaky = TRUE
SYMMETRY RpcSymmetry
INVARIANTS
    TypeOK
    BorrowedFromSlot
    SlotNotShutDown
    ActiveFollowsPaths
    EventsTellOneStory
CHECK_DEADLOCK FALSE
