SPECIFICATION Spec
CONSTANTS
    None = None
    Callers <- MCCallers
    MaxOdd = 2
INVARIANTS OmittedReplayIsAnswered
CHECK_DEADLOCK FALSE
