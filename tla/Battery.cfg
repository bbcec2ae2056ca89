SPECIFICATION LiveSpec
CONSTANTS
    Levels = {10, 12, 15}
    Thresholds = {5, 10}
    Refreshers = {f1}
    MaxAttempts = 2
    Charging = Charging
    Failed = Failed
    Gone = Gone
    Here = Here
    None = None
INVARIANT
    TypeOK
PROPERTIES
    HoveringIsQuiet
    LowIsAlerted
    StreamFollows
