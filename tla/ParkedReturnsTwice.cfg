SPECIFICATION FairSpec
CONSTANTS
    a = a
    b = b
    c = c
    Bytes = {a, b, c}
    InitialBytes = a
    MaxSaves = 2
    MaxExternal = 0
    MaxWrites = 4
    MaxCrashes = 1
    MaxFaults = 1
PROPERTIES
    ParkedReturnsTwice
CHECK_DEADLOCK FALSE
