SPECIFICATION Spec
CONSTANTS
    a = a
    b = b
    c = c
    Bytes = {a, b, c}
    InitialBytes = a
    MaxSaves = 2
    MaxExternal = 1
    MaxWrites = 4
    MaxCrashes = 1
    MaxFaults = 0
SYMMETRY Symmetry
PROPERTIES
    RolledBackStaysBack
CHECK_DEADLOCK FALSE
