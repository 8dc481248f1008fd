SPECIFICATION FairSpec
CONSTANTS
    h0 = h0
    h1 = h1
    h2 = h2
    c1 = c1
    c2 = c2
    Html = {h0, h1}
    InitialHtml = h0
    NoHash = NoHash
    NoWrite = NoWrite
    Autosave = Autosave
    Callers = {c1}
    MaxRevision = 2
    MaxAuthority = 2
    MaxExternal = 1
INVARIANTS
    TypeOK
    LatestEditOwned
    NoFalseClaim
    FlushHonoursCutoff
    SavedIsOnDisk
PROPERTIES
    FlushReturns
    FencedWriteConfirmsNothing
CHECK_DEADLOCK FALSE
