CONSTANTS
    Runs = {r1, r2, r3}
    Initial = Initial
    Legacy = Legacy
    None = None
    MaxFaults = 3
SPECIFICATION FairSpec
INVARIANTS
    OneTrainingAtATime
    OneActiveModel
    ServedModelIsActive
PROPERTIES
    CompletedOnceActive
    SlotIsReleased
    RunsEnd
CHECK_DEADLOCK FALSE
