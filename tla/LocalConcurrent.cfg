SPECIFICATION RunningSpec
CONSTANTS
    Capacity = 2
    CatchUpBatch = 2
    LagBatch = 1
    MaxRecords = 4
    Appenders = {p1, p2}
    MaxFailures = 0
INVARIANT GapFree
CHECK_DEADLOCK FALSE
