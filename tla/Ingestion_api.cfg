SPECIFICATION FairSpec
CONSTANTS
    t1 = t1
    t2 = t2
    h1 = h1
    h2 = h2
    p1 = p1
    Null = Null
    MaxJobs = 3
    Tenant = {t1}
    Registered = {t1}
    Content = {h1, h2}
    Principal = {p1}
    Uploads <- MixedScopes
    IndexerWired = FALSE
    StageFaults = TRUE
    DbFaults = TRUE
    MaxRetries = 0
    MaxCrashes = 1
INVARIANTS
    TypeOK
    EveryDocumentSearchable
    RowsFollowMemory
    ActiveJobsPublished
    TemporariesFollowJob
PROPERTIES
    MemoryNamesPublished
    ImplementsVersionHistory
    AcceptedJobSettles
CHECK_DEADLOCK FALSE
