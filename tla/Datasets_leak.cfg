CONSTANTS
    History = 2
    Horizon = 3
    Sustained = 2
    Stride = 2
    HourLength = 4
    DayLength = 2
    WeekLength = 2
    MonthLength = 1
    YearLength = 3
    Threshold = 2
    MaxRows = 8
    MaxTotal = 4
    MaxCount = 2
    Thresholds = 3
    Location = 3
    Zones = {0, 3}
    None = None
SPECIFICATION BuildSpec
INVARIANTS
    FutureIsKeptApart
CHECK_DEADLOCK FALSE
