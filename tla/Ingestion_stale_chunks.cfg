SPECIFICATION Spec
CONSTANTS
    t1 = t1
    t2 = t2
    h1 = h1
    h2 = h2
    p1 = p1
    Null = Null
    MaxJobs = 3
    Tenant = {t1}
    Registered = {t1}
    Content = {h1, h2}
    Principal = {p1}
    Uploads <- MixedScopes
    IndexerWired = FALSE
    StageFaults = FALSE
    DbFaults = FALSE
    MaxRetries = 0
    MaxCrashes = 0
INVARIANT ReplacedChunksRemoved
CHECK_DEADLOCK FALSE
