SPECIFICATION Spec
CONSTANTS
    Paths = {p, q}
    Contents = {x, y}
    Commits = {c1, c2}
    MaxEdits = 2
    MaxMaps = 1
    MaxCalls = 1
    Reverts = FALSE
    CommitsMidCall = TRUE
CHECK_DEADLOCK FALSE
SYMMETRY Symmetry
INVARIANTS
    SameSideIsTheRevision
