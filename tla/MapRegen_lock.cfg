SPECIFICATION Spec
CONSTANTS
    Procs = {p1}
    Files = {f1}
    Contents = {a, b}
    Absent = absent
    Unreadable = unreadable
    Kinds = {"read"}
    EditsDuringRegen = FALSE
    Crashes = FALSE
    LockUnavailable = TRUE
    WaitCapExpires = TRUE
    MaxEdits = 1
    MaxRequests = 1
CHECK_DEADLOCK FALSE
PROPERTIES
    WaitsForAHolder
