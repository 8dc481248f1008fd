SPECIFICATION FairSpec
CONSTANTS
    a = a
    b = b
    c = c
    Bytes = {a, b, c}
    InitialBytes = a
    MaxSaves = 2
    MaxExternal = 2
    MaxWrites = 3
    MaxCrashes = 2
    MaxFaults = 1
INVARIANTS
    TypeOK
    NothingVanishes
    MissingIsParked
    OpenedIsSettled
PROPERTIES
    ParkedReturns
    RecoveryNeverOverwrites
CHECK_DEADLOCK FALSE
