SPECIFICATION Spec
CONSTANTS
    Paths = {p, q}
    Contents = {x, y, z}
    Commits = {c1, c2}
    MaxEdits = 3
    MaxMaps = 1
    MaxCalls = 3
    Reverts = FALSE
    CommitsMidCall = FALSE
CHECK_DEADLOCK FALSE
SYMMETRY Symmetry
INVARIANTS
    TypeOK
    NewSideIsCurrent
    SameSideIsTheRevision
