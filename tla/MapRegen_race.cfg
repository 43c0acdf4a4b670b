SPECIFICATION Spec
CONSTANTS
    Procs = {p1, p2}
    Files = {f1}
    Contents = {a, b}
    Absent = absent
    Unreadable = unreadable
    Kinds = {"read", "peek", "diff", "map", "mapto"}
    EditsDuringRegen = FALSE
    Crashes = TRUE
    LockUnavailable = TRUE
    WaitCapExpires = TRUE
    MaxEdits = 2
    MaxRequests = 3
CHECK_DEADLOCK FALSE
SYMMETRY ProcSymmetry
INVARIANTS
    TypeOK
    LockDiscipline
    HonestDocuments
    NoMaskedEdit
    JudgedAnswerIsCurrent
    MemoryAnswerIsCurrent
