SPECIFICATION Spec
CONSTANTS
    Daemons = {d1}
    Clients = {c1, c2}
    NoOne = noone
    Commands = {"start", "stop", "status"}
    Overlap = TRUE
    Kills = FALSE
    ConnectTimeouts = FALSE
    ReplyTimeouts = FALSE
    PollCapExpires = FALSE
    MaxCommands = 3
CHECK_DEADLOCK FALSE
PROPERTIES
    TeardownSignal
