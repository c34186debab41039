CONSTANTS
    MaxRuns = 3
    None = None
SPECIFICATION FairSpec
INVARIANTS
    DataNotBehindModel
    MetricsMeanComplete
PROPERTIES
    StaleReportExpires
CHECK_DEADLOCK FALSE
