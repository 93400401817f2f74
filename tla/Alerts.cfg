SPECIFICATION Spec
CONSTANTS
    Wishes <- SomeWishes
    Cap = 2
    Threshold = 2
    MaxItems = 4
    Deals = {d1, d2}
    NoDeal = NoDeal
CHECK_DEADLOCK FALSE
INVARIANTS InOrder Drained FewLateWarnings
PROPERTIES StopCompletes OutageHeard DangerTold
