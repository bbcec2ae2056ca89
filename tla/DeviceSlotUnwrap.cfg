SPECIFICATION Safety
CONSTANTS
    Rpcs = {r1}
    Handles = {h1, h2}
    NoHandle = NoHandle
    MaxPlugs = 2
    EventCapacity = 1
    Polling = FALSE
    Flaky = FALSE
INVARIANTS
    EnsuredBeforeBody
CHECK_DEADLOCK FALSE
