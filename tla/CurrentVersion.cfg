SPECIFICATION Spec
CONSTANTS
    v1 = v1
    v2 = v2
    Ops = {v1, v2}
    Kinds = {"local-save", "history-copy", "recovery-copy"}
    Comments = {c1}
    Original = Original
    Edited = {e1}
    Foreign = {f1}
    None = None
    MaxSaves = 2
    MaxEdits = 2
    MaxFaults = 1
    MaxCrashes = 1
INVARIANTS
    TypeOK
    ReceiptsHold
    WholeWhenResolved
    ForeignWritesSurvive
PROPERTIES
    ImplementsLedger
CHECK_DEADLOCK FALSE
