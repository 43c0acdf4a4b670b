SPECIFICATION FairSpec
CONSTANTS
    Procs = {p1, p2}
    Files = {f1}
    Contents = {a, b}
    Absent = absent
    Unreadable = unreadable
    Kinds = {"read", "diff"}
    EditsDuringRegen = FALSE
    Crashes = TRUE
    LockUnavailable = TRUE
    WaitCapExpires = TRUE
    MaxEdits = 1
    MaxRequests = 2
CHECK_DEADLOCK FALSE
PROPERTIES
    EveryRequestEnds
