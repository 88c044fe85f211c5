\* Two jobs on one slot; the process ends once, and once a job file cannot be
\* read, or cannot be written.
CONSTANTS
    MaxJobs = 2
    MaxActiveJobs = 2
    MaxConcurrency = 1
    MaxRestarts = 1
    MaxFaults = 1
SPECIFICATION LiveSpec
INVARIANTS
    ChildrenWithinCap
    RunningIsOwned
    LockCoversWork
    ShutdownStopsChildren
PROPERTIES
    AtMostOneExecution
    ClaimedInOrder
    ImplementsLifecycle
    JobsSettle
    ResultsAnnounced
