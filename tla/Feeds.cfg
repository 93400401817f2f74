SPECIFICATION Spec
CONSTANTS
    BotLogs <- Bots2
    Admins = {1}
    Sockets = {"c"}
    Replay = 1
    MaxLines = 2
    MaxRotations = 1
    MaxRestarts = 1
    Bots = {b1}
    Clients = {c1}
    MaxTicks = 1
    MaxStarts = 1
    MaxBoots = 1
CHECK_DEADLOCK FALSE
INVARIANTS NoGap Settled NewCode
PROPERTIES DeathsShown
