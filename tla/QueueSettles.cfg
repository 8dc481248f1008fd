SPECIFICATION FairSpec
CONSTANTS
    h0 = h0
    h1 = h1
    h2 = h2
    c1 = c1
    c2 = c2
    Html = {h0, h1}
    InitialHtml = h0
    NoHash = NoHash
    NoWrite = NoWrite
    Autosave = Autosave
    Callers = {}
    MaxRevision = 2
    MaxAuthority = 1
    MaxExternal = 1
PROPERTIES
    QueueSettles
CHECK_DEADLOCK FALSE
