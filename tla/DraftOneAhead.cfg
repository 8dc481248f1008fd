SPECIFICATION DraftSpec
CONSTANTS
    i1 = i1
    i2 = i2
    Ids = {i1, i2}
    None = None
    MaxRebases = 1
    MaxChanges = 1
    MaxFlushes = 0
    MaxOpens = 0
    MaxReloads = 0
    MaxFaults = 0
    MaxCrashes = 1
SYMMETRY Symmetry
INVARIANTS
    OneAheadIsReadable
CHECK_DEADLOCK FALSE
