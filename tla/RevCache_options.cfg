SPECIFICATION Spec
CONSTANTS
    Commands = {c1, c2}
    Revs = {r1}
    Options = {o1, o2}
    Builds = {b1}
    NoCommand = nocommand
    MaxEntries = 1
    Polls = 1
    GitFails = FALSE
    ReadFails = FALSE
    LockFails = FALSE
    Dies = FALSE
CHECK_DEADLOCK FALSE

INVARIANTS
    HitsAreWhatABuildGives
