SPECIFICATION Spec
CONSTANTS
    Thresholds = {10, 20}
    LogPaths = {"battery.jsonl", "daemon.tmp"}
    Inodes = {1, 2, 3, 4, 5}
    Threads = {k1, k2}
    MaxCalls = 3
    NewsCapacity = 2
INVARIANT
    LogIsNotConfig
CHECK_DEADLOCK FALSE
