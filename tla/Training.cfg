CONSTANTS
    NodeIds = {1, 2, 3}
    MaxRows = 4
    Epochs = 2
    None = None
SPECIFICATION FairSpec
INVARIANTS
    NoStragglers
PROPERTIES
    ImplementsBatchDescent
    TrainReturns
    TrainingSurvivesFailures
CHECK_DEADLOCK FALSE
