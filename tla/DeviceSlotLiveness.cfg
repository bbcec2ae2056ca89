SPECIFICATION Insistent
CONSTANTS
    Rpcs = {r1}
    Handles = {h1, h2}
    NoHandle = NoHandle
    MaxPlugs = 2
    EventCapacity = 1
    Polling = FALSE
    Flaky = FALSE
PROPERTIES
    RpcReturns
    GoneIsTold
    RpcRecovers
    ModeSettles
CHECK_DEADLOCK FALSE
