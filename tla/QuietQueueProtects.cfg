SPECIFICATION Spec
CONSTANTS
    h0 = h0
    h1 = h1
    h2 = h2
    h3 = h3
    Html = {h0, h1, h2}
    InitialHtml = h0
    NoHash = NoHash
    NoWrite = NoWrite
    NoJournal = NoJournal
    MaxRevision = 3
    MaxAuthority = 1
    MaxCrashes = 1
    MaxFailures = 0
INVARIANTS
    QuietQueueProtects
CHECK_DEADLOCK FALSE
