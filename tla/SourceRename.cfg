SPECIFICATION Spec
CONSTANTS
    a = a
    b = b
    c = c
    s1 = s1
    s2 = s2
    Names = {a, b, c}
    First = a
    Bytes = {s1, s2}
    None = None
    MaxExternal = 2
    MaxFaults = 1
    MaxCrashes = 2
    MaxRenames = 2
    MaxSaves = 1
    MaxEvents = 5
INVARIANTS
    NothingLost
    MainFollows
    RecoveredIsSettled
SYMMETRY Symmetry
PROPERTIES
    HonestAnswer
CHECK_DEADLOCK FALSE
