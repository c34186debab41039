CONSTANTS
    MaxSize = 5
    MaxWorkers = 3
    Idle = Idle
SPECIFICATION FairLoadSpec
INVARIANTS
    LoadIsExact
PROPERTIES
    LoadReturns
CHECK_DEADLOCK FALSE
