SPECIFICATION Spec
CONSTANTS
    t1 = t1
    t2 = t2
    h1 = h1
    h2 = h2
    p1 = p1
    Null = Null
    MaxJobs = 2
    Tenant = {t1, t2}
    Registered = {t1}
    Content = {h1, h2}
    Principal = {p1}
    Uploads <- TwoTenants
    IndexerWired = TRUE
    StageFaults = TRUE
    DbFaults = FALSE
    MaxRetries = 2
    MaxCrashes = 1
INVARIANTS
    DocumentMirrorsActiveVersion
PROPERTIES
    CommittedActiveIsFinal
CHECK_DEADLOCK FALSE
