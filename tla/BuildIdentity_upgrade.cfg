SPECIFICATION UsedSpec
CONSTANTS
    LongLived = {d1}
    Commands = {c1}
    Releases = {r1, r2}
    MaxInstalls = 2
    MaxEdits = 1
    ChildFails = TRUE
INVARIANTS
    TypeOK
    OutdatedNeverAuthors
    KnownOutdatedIsTrue
PROPERTIES
    NoRewriteWar
    MapBecomesInstalled
