CONSTANTS
    NodeIds = {1, 2}
    Conns = {i1, i2}
    None = None
    MissedHeartbeats = 2
SPECIFICATION FairSpec
INVARIANTS
    OneOpenClientPerNode
PROPERTIES
    DeadClientsLeaveRotation
    SlowNodesRecover
CHECK_DEADLOCK FALSE
