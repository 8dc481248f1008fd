SPECIFICATION Spec
CONSTANTS
    MaxRuns = 3
    MaxStarts = 3
    MaxStops = 1
    MaxFaults = 0
    MaxLaunches = 1
INVARIANTS
    OneAgent
CHECK_DEADLOCK FALSE
