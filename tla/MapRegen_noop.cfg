SPECIFICATION Spec
CONSTANTS
    Procs = {p1}
    Files = {f1}
    Contents = {a, b}
    Absent = absent
    Unreadable = unreadable
    Kinds = {"read", "mapto"}
    EditsDuringRegen = FALSE
    Crashes = FALSE
    LockUnavailable = FALSE
    WaitCapExpires = FALSE
    MaxEdits = 1
    MaxRequests = 3
CHECK_DEADLOCK FALSE
PROPERTIES
    NoopIsIdentical
