SPECIFICATION Spec
CONSTANTS
    a = a
    b = b
    c = c
    s1 = s1
    s2 = s2
    Names = {a, b, c}
    First = a
    Bytes = {s1, s2}
    None = None
    MaxExternal = 0
    MaxFaults = 1
    MaxCrashes = 0
    MaxRenames = 2
    MaxSaves = 0
    MaxEvents = 9
PROPERTY DeniedMeansUnchanged
CHECK_DEADLOCK FALSE
