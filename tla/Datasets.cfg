CONSTANTS
    History = 3
    Horizon = 3
    Sustained = 2
    Stride = 2
    HourLength = 4
    DayLength = 2
    WeekLength = 2
    MonthLength = 1
    YearLength = 3
    Threshold = 2
    MaxRows = 12
    MaxTotal = 4
    MaxCount = 3
    Thresholds = 3
    Location = 3
    Zones = {0, 3}
    None = None
SPECIFICATION FairBuildSpec
INVARIANTS
    WindowsAreExact
    CoversExactlyOnce
    ServedLikeTrained
    ThresholdIsBest
PROPERTIES
    BuildReturns
CHECK_DEADLOCK FALSE
