SPECIFICATION MCSpec
CONSTANTS
    Pids = {p1, p2}
    NoPid = NoPid
    Handlers = {h1, h2, h3}
    Requests <- AllRequests
    Faults <- AllFaults
    Prices = {1, 2, 3}
    TpGap = 1
    SlGap = 1
    Step = 1
    MaxOrders = 3
    MaxDeals = 2
INVARIANTS OneEngine RunningIsAuthoritative OwnExtremes
PROPERTIES StopIsFinal
