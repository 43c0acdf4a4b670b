SPECIFICATION Spec
CONSTANTS
    Procs = {p1, p2}
    Files = {f1}
    Contents = {a, b}
    Absent = absent
    Unreadable = unreadable
    Kinds = {"read", "diff"}
    EditsDuringRegen = FALSE
    Crashes = FALSE
    LockUnavailable = FALSE
    WaitCapExpires = FALSE
    MaxEdits = 2
    MaxRequests = 3
CHECK_DEADLOCK FALSE
INVARIANTS
    CurrentSideMatchesTree
