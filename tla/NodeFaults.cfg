SPECIFICATION FairSpec
CONSTANTS
    Clients = {c1}
    Startup = startup
    Claims = {x}
    Junk = junk
    Capacity = 1
    StartupBatch = 3
    MaxRecords = 3
    MaxCrashes = 1
    MaxFaults = 1
INVARIANT RepliesMatchStorage
INVARIANT DbImmutable
PROPERTY ExecuteReturns
PROPERTY StartupReturns
CHECK_DEADLOCK FALSE
