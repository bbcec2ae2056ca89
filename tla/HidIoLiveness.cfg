SPECIFICATION Spec
CONSTANTS
    Calls = {c1, c2}
    None = None
    Capacity = 1
    Mode = "Wireless"
    MaxUnasked = 1
PROPERTIES
    EveryCallResolved
    ShutdownEnds
    UnplugAnnounced
    ImplementsService
