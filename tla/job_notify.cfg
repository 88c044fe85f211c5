SPECIFICATION LiveSpec
CONSTANTS
    Job = {j1, j2}
    Client = {c1, c2}
    Request = {r1}
    NoRequest = NoRequest
    Mode = {"claude", "openclaw"}
    PerJob = {j1}
    Broker = {}
    Configured = {"telegram"}
    MaxActiveJobs = 2
    MaxTerminalJobs = 1
    HistoryLimit = 1
    MaxTries = 2
    Faults = {"list", "read", "save", "cancel"}
    MaxEvents = 3
INVARIANTS OneFilePerRequest HistoryIsComplete
PROPERTIES NewestAreKept RetentionIsEnforced EveryEndIsAnnounced
CHECK_DEADLOCK FALSE
