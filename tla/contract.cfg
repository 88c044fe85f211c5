SPECIFICATION Spec
CONSTANTS
    None = None
    Callers <- MCCallers
    MaxOdd = 2
INVARIANTS ToolJobsAreKept RetryFindsTheJob SameJobSameWork ReplayIsIdempotent NoticeTellsTheJob
CHECK_DEADLOCK FALSE
