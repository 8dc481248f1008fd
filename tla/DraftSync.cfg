SPECIFICATION DraftSpec
CONSTANTS
    i1 = i1
    i2 = i2
    Ids = {i1, i2}
    None = None
    MaxRebases = 1
    MaxChanges = 2
    MaxFlushes = 1
    MaxOpens = 2
    MaxReloads = 1
    MaxFaults = 1
    MaxCrashes = 1
SYMMETRY Symmetry
INVARIANTS
    ShowsTheUsersWork
    ReopenBringsBack
    SettledMeansStored
CHECK_DEADLOCK FALSE
