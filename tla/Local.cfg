SPECIFICATION Spec
CONSTANTS
    Capacity = 2
    CatchUpBatch = 2
    LagBatch = 1
    MaxRecords = 6
    Appenders = {p1, p2}
    MaxFailures = 1
INVARIANT TypeOK
INVARIANT NeverRepeats
PROPERTY OrderedSpec
CHECK_DEADLOCK FALSE
