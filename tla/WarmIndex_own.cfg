SPECIFICATION Spec
CONSTANTS
    Notes = {}
    MapSizes = {1}
    MaxEdits = 1
    MaxMaps = 2
    MaxRequests = 1
    CoarseClock = FALSE
    Dies = FALSE
CHECK_DEADLOCK FALSE
INVARIANTS
    RegeneratedIsCurrent
