SPECIFICATION FairSpec
CONSTANTS
    Daemons = {d1, d2}
    Clients = {c1, c2}
    NoOne = noone
    Commands = {"start", "stop", "status", "run"}
    Overlap = TRUE
    Kills = TRUE
    ConnectTimeouts = TRUE
    ReplyTimeouts = TRUE
    PollCapExpires = TRUE
    MaxCommands = 2
CHECK_DEADLOCK FALSE
PROPERTIES
    OrphansEnd
    EveryCommandEnds
