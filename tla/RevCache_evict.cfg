SPECIFICATION Spec
CONSTANTS
    Commands = {c1, c2, c3}
    Revs = {r1, r2, r3}
    Options = {o1}
    Builds = {b1}
    NoCommand = nocommand
    MaxEntries = 1
    Polls = 1
    GitFails = FALSE
    ReadFails = FALSE
    LockFails = FALSE
    Dies = FALSE
CHECK_DEADLOCK FALSE

INVARIANTS
    OnlyExportFails
