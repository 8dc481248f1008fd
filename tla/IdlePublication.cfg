SPECIFICATION Spec
CONSTANTS
    h0 = h0
    h1 = h1
    h2 = h2
    c1 = c1
    c2 = c2
    Html = {h0, h1, h2}
    InitialHtml = h0
    NoHash = NoHash
    NoWrite = NoWrite
    Autosave = Autosave
    Callers = {}
    MaxRevision = 1
    MaxAuthority = 2
    MaxExternal = 0
INVARIANTS
    IdlePublication
CHECK_DEADLOCK FALSE
