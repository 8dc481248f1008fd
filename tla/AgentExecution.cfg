SPECIFICATION Spec
CONSTANTS
    MaxRuns = 2
    MaxStarts = 2
    MaxStops = 2
    MaxFaults = 1
    MaxLaunches = 1
INVARIANTS
    LeaseAccountedFor
    ExitMeansStopped
    StopCoversEarlierStarts
PROPERTIES
    StartsClean
CHECK_DEADLOCK FALSE
