\* One job and one API cancellation are enough.
CONSTANTS
    MaxJobs = 1
    MaxActiveJobs = 1
    MaxConcurrency = 1
    MaxRestarts = 0
    MaxFaults = 0
SPECIFICATION Spec
INVARIANTS
    CancelStopsChild
