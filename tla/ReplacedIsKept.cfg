SPECIFICATION Spec
CONSTANTS
    a = a
    b = b
    c = c
    s1 = s1
    s2 = s2
    Names = {a, b, c}
    First = a
    Bytes = {s1, s2}
    None = None
    MaxExternal = 1
    MaxFaults = 0
    MaxCrashes = 0
    MaxRenames = 1
    MaxSaves = 0
    MaxEvents = 9
PROPERTY ReplacedIsKept
CHECK_DEADLOCK FALSE
