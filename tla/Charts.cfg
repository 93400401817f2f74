SPECIFICATION ChartsSpec
CONSTANTS
    Threads = {r1, r2}
    Walkers = {r1}
    Null = Null
    Threshold = 2
    Cooldown = 1
    MaxClock = 2
    Ttl = 1
    First = 1
    End = 9
    Present = 9
    PageSize = 2
    MaxPages = 8
    Listed <- MCListed
INVARIANTS LatchedForGood ServedInOrder OneBadPage
