SPECIFICATION Spec
CONSTANTS
    Notes = {n1}
    MapSizes = {1}
    MaxEdits = 2
    MaxMaps = 3
    MaxRequests = 2
    CoarseClock = FALSE
    Dies = TRUE
CHECK_DEADLOCK FALSE
SYMMETRY Symmetry
INVARIANTS
    TypeOK
    AnswerIsCurrent
    SignatureMeansContent
    ViewsAgree
