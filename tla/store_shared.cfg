\* Two processes on one file that holds one notification; either may die once.
SPECIFICATION LiveSpec
CONSTANTS
    Process = {p1, p2}
    Job = {j1, j2}
    MaxNotifications = 2
    MaxQueueSize = 1
    NoLock = NoLock
    Orphan = Orphan
    None = None
    Faults = {"read", "rewrite", "append", "clear"}
    OwnersStall = FALSE
    MaxCrashes = 1
INVARIANTS
    OnlyDeathOrDelayRobs
PROPERTIES
    ImplementsQueue
    LockIsFreed
CHECK_DEADLOCK FALSE
