SPECIFICATION FairSpec
CONSTANTS
    a1 = a1
    a2 = a2
    s1 = s1
    s2 = s2
    m1 = m1
    d1 = d1
    vector = vector
    parametric = parametric
    sql = sql
    Null = Null
    Topic = {a1, a2}
    Near <- Similar
    Scope = {s1, s2}
    Mode = {m1}
    Doc = {d1}
    Query = {q1, q2}
    Requests <- Mixed
    Tool <- Tools
    Wired = {}
    Vector = vector
    Parametric = parametric
    Readable <- Rights
    Guarded = TRUE
    CacheWired = TRUE
    Ttl = 1
    MaxVersion = 2
    MaxTime = 1
    MaxForeign = 1
INVARIANTS
    TypeOK
    EvidenceInScope
    ParametricNeverRetrieves
PROPERTIES
    HitRepeatsAnswer
    ReferencedHitsCurrent
    QueryEnds
CHECK_DEADLOCK FALSE
