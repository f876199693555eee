SPECIFICATION Spec
CONSTANTS
    Clients = {c1, c2}
    Startup = startup
    Claims = {x, y}
    Junk = junk
    Capacity = 1
    StartupBatch = 3
    MaxRecords = 3
    MaxCrashes = 2
    MaxFaults = 0
SYMMETRY Symmetry
INVARIANT IdentsCoverBasis
CHECK_DEADLOCK FALSE
