SPECIFICATION Spec
CONSTANTS
    r1 = r1
    r2 = r2
    Requests = {r1}
    None = None
    MaxFaults = 0
    MaxCrashes = 0
    MaxLeaves = 1
INVARIANT NotStartedHasNoRequest
CHECK_DEADLOCK FALSE
