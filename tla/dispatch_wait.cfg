SPECIFICATION LiveSpec
CONSTANTS
    Waiter = {w1, w2}
    Job = {j1}
    None = None
    Given = {None, 9}
    DefaultWait = 1
    MinWait = 1
    MaxWait = 7
    DefaultPoll = 1
    MinPoll = 1
    MaxPoll = 2
    Grace = 1
    RequestTimeout = 1
    DrainTimeout = 0
    MaxNotifications = 2
    MaxQueueSize = 2
    MaxTime = 0
INVARIANTS WaitIsBounded TimedOutIsTrue MissingIsTrue EndIsReported
PROPERTIES EveryWaitEnds
CHECK_DEADLOCK FALSE
