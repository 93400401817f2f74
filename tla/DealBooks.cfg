SPECIFICATION LiveSpec
CONSTANTS
    Deals = {d1, d2}
    Closers = {c1, c2}
    NoDeal = NoDeal
    Faults <- AllFaults
INVARIANTS PnlCountedOnce CloserExcludesEngine
PROPERTIES FollowsHistory SentinelServed
