SPECIFICATION FairSpec
CONSTANTS
    Commands = {c1, c2}
    Revs = {r1, r2, r3}
    Options = {o1}
    Builds = {b1, b2}
    NoCommand = nocommand
    MaxEntries = 1
    Polls = 2
    GitFails = TRUE
    ReadFails = TRUE
    LockFails = TRUE
    Dies = TRUE
CHECK_DEADLOCK FALSE
INVARIANTS
    TypeOK
    CachedAnswersAreTrue
    BoundedAtRest
PROPERTIES
    EveryCommandEnds
