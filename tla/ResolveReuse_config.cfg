SPECIFICATION Spec
CONSTANTS
    Procs = {p1}
    Paths <- MCPaths
    Contents <- MCContents
    Starts <- MCStarts
    Configs = {"b", "c"}
    Kinds = {"map", "full", "diff", "rev"}
    EditsInSave = TRUE
    Kills = TRUE
    MaxEdits = 2
    MaxRuns = 2
    Module = module
    Star = star
    Here = here
    External = external
    Alias = alias
    AliasStem = "c"
    ReexportDepth = 4
CHECK_DEADLOCK FALSE
INVARIANTS
    CacheIsOneTree
