SPECIFICATION Spec
CONSTANTS
    None = None
    Callers <- MCCallers
    MaxOdd = 2
INVARIANTS AcceptedJobsAreKept
CHECK_DEADLOCK FALSE
