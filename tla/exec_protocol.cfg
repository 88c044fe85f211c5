\* A child that forks twice; limits of which the marker fills one.
SPECIFICATION OutputSpec
CONSTANTS
    Leader = leader
    Descendant = {d1, d2}
    Escapes = TRUE
    SignalMayFail = TRUE
    PidsReused = TRUE
    Limits = {4, 8}
    Wording = 2
    Radix = 3
    MaxWritten = 14
    MaxChunk = 5
INVARIANTS
    StoppedGroupIsGone
    NothingArmedOnceSettled
    OutputIsFaithful
PROPERTIES
    SettlesAsAsked
    ExecutionEnds
CHECK_DEADLOCK FALSE
