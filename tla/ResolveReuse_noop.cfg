SPECIFICATION Spec
CONSTANTS
    Procs = {p1}
    Paths <- MCPaths
    Contents <- MCContents
    Starts <- MCStarts
    Configs = {"b", "c"}
    Kinds = {"map"}
    EditsInSave = FALSE
    Kills = FALSE
    MaxEdits = 1
    MaxRuns = 1
    Module = module
    Star = star
    Here = here
    External = external
    Alias = alias
    AliasStem = "c"
    ReexportDepth = 4
CHECK_DEADLOCK FALSE
PROPERTIES
    NoopIsIdentical
