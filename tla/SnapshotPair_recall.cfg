SPECIFICATION Spec
CONSTANTS
    Paths = {p, q}
    Contents = {x, y}
    Commits = {c1, c2}
    MaxEdits = 3
    MaxMaps = 0
    MaxCalls = 2
    Reverts = TRUE
    CommitsMidCall = FALSE
CHECK_DEADLOCK FALSE
SYMMETRY Symmetry
INVARIANTS
    NewSideIsCurrent
