SPECIFICATION Spec
CONSTANTS
    r1 = r1
    r2 = r2
    Request = {r1, r2}
    NoRequest = NoRequest
    MaxCloses = 2
    MaxEdits = 1
INVARIANT OnlyLatestHandedOff
CHECK_DEADLOCK FALSE
