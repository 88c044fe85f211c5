\* Three bridge processes that start, release and die in any order.
CONSTANTS
    Process = {p1, p2, p3}
    NoFile = NoFile
    DeadPid = DeadPid
    DeadEmpty = DeadEmpty
SPECIFICATION LiveSpec
PROPERTIES
    SettledStaysAlone
    LockIsObtained
