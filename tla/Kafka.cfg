SPECIFICATION FairSpec
CONSTANTS
    Capacity = 2
    CatchUpBatch = 2
    LagBatch = 1
    MaxRecords = 7
    Unreadable = {6}
INVARIANT TypeOK
INVARIANT NeverRepeats
INVARIANT GapFreeWhileRunning
PROPERTY OrderedSpec
PROPERTY EventuallyDelivered
PROPERTY EventuallyStops
CHECK_DEADLOCK FALSE
