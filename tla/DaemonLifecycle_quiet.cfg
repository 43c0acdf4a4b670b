SPECIFICATION Spec
CONSTANTS
    Daemons = {d1, d2, d3}
    Clients = {c1, c2}
    NoOne = noone
    Commands = {"start", "stop", "status", "run"}
    Overlap = FALSE
    Kills = TRUE
    ConnectTimeouts = FALSE
    ReplyTimeouts = TRUE
    PollCapExpires = TRUE
    MaxCommands = 5
CHECK_DEADLOCK FALSE
SYMMETRY DaemonSymmetry
INVARIANTS
    TypeOK
    OneDaemon
    ServingIsReachable
PROPERTIES
    TruthfulReports
