\* One job in tmux mode; the bridge may stop or die once, and one tmux
\* command, read or write may fail. Once the job is deleted nothing may be left to do.
CONSTANTS
    MaxRestarts = 1
    MaxFaults = 1
SPECIFICATION LiveSpec
INVARIANTS
    SessionStartedOnce
    FailedSessionIsOver
    ExitCodeCounts
    ArtifactsOutliveSession
    ResolvedSessionIsEnded
PROPERTIES
    JobIsResolved
CHECK_DEADLOCK FALSE
