SPECIFICATION Spec
CONSTANTS
    Daemons = {d1}
    Clients = {c1}
    NoOne = noone
    Commands = {"start", "status"}
    Overlap = TRUE
    Kills = FALSE
    ConnectTimeouts = FALSE
    ReplyTimeouts = FALSE
    PollCapExpires = FALSE
    MaxCommands = 2
CHECK_DEADLOCK FALSE
PROPERTIES
    NoFalseNegative
