CONSTANTS
    XAddr = {a1, a2}
    MaxLocal = 3
    MaxHeard = 3
    Token = {t1, t2}
    MaxProfiles = 2
    MaxOpen = 5
SPECIFICATION Spec
INVARIANTS
    TypeOK
    Collected
    ReadsByPath
    Answers
CHECK_DEADLOCK FALSE
