SPECIFICATION Spec
CONSTANTS
    Clients = {c1, c2}
    NoClient = noclient
    SendFailures = FALSE
    Dies = FALSE
    SilentProbes = FALSE
    OtherBuild = FALSE
    WaitCap = 3
CHECK_DEADLOCK FALSE
PROPERTIES
    WaitsForBoth
