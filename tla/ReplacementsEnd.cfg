SPECIFICATION FairSpec
CONSTANTS
    v1 = v1
    v2 = v2
    Ops = {v1}
    Kinds = {"history-copy"}
    Comments = {}
    Original = Original
    Edited = {e1}
    Foreign = {f1}
    None = None
    MaxSaves = 1
    MaxEdits = 0
    MaxFaults = 0
    MaxCrashes = 1
PROPERTIES
    InterruptedResolve
CHECK_DEADLOCK FALSE
