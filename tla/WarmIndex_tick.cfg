SPECIFICATION Spec
CONSTANTS
    Notes = {n1}
    MapSizes = {1}
    MaxEdits = 0
    MaxMaps = 1
    MaxRequests = 1
    CoarseClock = TRUE
    Dies = FALSE
CHECK_DEADLOCK FALSE
SYMMETRY Symmetry
INVARIANTS
    SignatureMeansContent
