SPECIFICATION FairSpec
CONSTANTS
    Clients = {c1, c2}
    NoClient = noclient
    SendFailures = TRUE
    Dies = TRUE
    SilentProbes = TRUE
    OtherBuild = TRUE
    WaitCap = 3
CHECK_DEADLOCK FALSE
INVARIANTS
    TypeOK
PROPERTIES
    RunsAtMostOnce
    EveryWaitEnds
