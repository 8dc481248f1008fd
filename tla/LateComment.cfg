SPECIFICATION Spec
CONSTANTS
    v1 = v1
    v2 = v2
    Ops = {v1}
    Kinds = {"local-save"}
    Comments = {c1}
    Original = Original
    Edited = {e1}
    Foreign = {f1}
    None = None
    MaxSaves = 1
    MaxEdits = 0
    MaxFaults = 1
    MaxCrashes = 0
INVARIANTS
    CommentsSurvive
CHECK_DEADLOCK FALSE
