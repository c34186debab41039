CONSTANTS
    Requests = {q1, q2}
    Inputs = {x1, x2}
    MaxModel = 2
    NodeIds = {1, 2}
    Capacity = 1
    MaxFaults = 1
    None = None
SPECIFICATION FairSpec
INVARIANTS
    RecordNamesItsModel
    SteadyNodeServes
    RecordInOnePlace
PROPERTIES
    RequestReturns
    AnsweredIsStored
CHECK_DEADLOCK FALSE
