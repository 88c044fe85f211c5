\* Two processes and no crash are enough.
CONSTANTS
    Process = {p1, p2}
    NoFile = NoFile
    DeadPid = DeadPid
    DeadEmpty = DeadEmpty
SPECIFICATION Spec
INVARIANTS
    AtMostOneInstance
