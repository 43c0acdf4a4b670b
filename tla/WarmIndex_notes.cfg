SPECIFICATION Spec
CONSTANTS
    Notes = {n1, n2}
    MapSizes = {1}
    MaxEdits = 0
    MaxMaps = 0
    MaxRequests = 0
    CoarseClock = FALSE
    Dies = FALSE
CHECK_DEADLOCK FALSE
SYMMETRY Symmetry
INVARIANTS
    NotesAreDurable
