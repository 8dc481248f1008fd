SPECIFICATION Spec
CONSTANTS
    MaxRuns = 1
    MaxStarts = 1
    MaxStops = 1
    MaxFaults = 0
    MaxLaunches = 0
INVARIANTS
    CancelledMeansStopped
CHECK_DEADLOCK FALSE
