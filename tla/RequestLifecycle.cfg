SPECIFICATION Spec
CONSTANTS
    r1 = r1
    r2 = r2
    Requests = {r1, r2}
    None = None
    MaxFaults = 1
    MaxCrashes = 1
    MaxLeaves = 1
INVARIANTS
    TypeOK
    LiveIsOwned
    RecoveredIsWhole
PROPERTIES
    LateResultsStayOut
SYMMETRY Symmetry
CHECK_DEADLOCK FALSE
