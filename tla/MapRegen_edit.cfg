SPECIFICATION Spec
CONSTANTS
    Procs = {p1}
    Files = {f1}
    Contents = {a, b}
    Absent = absent
    Unreadable = unreadable
    Kinds = {"read"}
    EditsDuringRegen = TRUE
    Crashes = FALSE
    LockUnavailable = FALSE
    WaitCapExpires = FALSE
    MaxEdits = 1
    MaxRequests = 2
CHECK_DEADLOCK FALSE
INVARIANTS
    NeverServedStale
