SPECIFICATION RunningSpec
CONSTANTS
    Capacity = 2
    CatchUpBatch = 2
    LagBatch = 1
    MaxRecords = 6
    Appenders = {p1}
    MaxFailures = 1
INVARIANT SkipsOnlyFailed
CHECK_DEADLOCK FALSE
