SPECIFICATION Spec
CONSTANTS
    Capacity = 2
    CatchUpBatch = 2
    LagBatch = 1
    MaxRecords = 6
    Unreadable = {}
INVARIANT GapFree
CHECK_DEADLOCK FALSE
