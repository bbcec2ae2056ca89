SPECIFICATION Spec
CONSTANTS
    Thresholds = {10, 20}
    LogPaths = {"battery.jsonl", "daemon.toml"}
    Inodes = {1, 2, 3, 4, 5}
    Threads = {k1, k2}
    MaxCalls = 3
    NewsCapacity = 2
INVARIANTS
    TypeOK
    OldOrNew
    Restartable
    LogFollowsConfig
    CaughtUp
CHECK_DEADLOCK FALSE
