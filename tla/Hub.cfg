CONSTANTS
    Clients = {c1, c2}
    Broadcasts = {b1, b2}
    Capacity = 1
    MaxLosses = 1
    None = None
    Hello = Hello
SPECIFICATION FairSpec
INVARIANTS
    NobodyElseMisses
PROPERTIES
    DeadAreForgotten
    BroadcastReturns
CHECK_DEADLOCK FALSE
