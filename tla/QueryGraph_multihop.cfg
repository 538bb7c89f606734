SPECIFICATION Spec
CONSTANTS
    a1 = a1
    a2 = a2
    s1 = s1
    s2 = s2
    m1 = m1
    d1 = d1
    vector = vector
    parametric = parametric
    sql = sql
    Null = Null
    Topic = {a1, a2}
    Near <- Similar
    Scope = {s1, s2}
    Mode = {m1}
    Doc = {d1}
    Query = {q1, q2}
    Requests <- One
    Tool <- Tools
    Wired = {}
    Vector = vector
    Parametric = parametric
    Readable <- Rights
    Guarded = TRUE
    CacheWired = FALSE
    Ttl = 1
    MaxVersion = 2
    MaxTime = 0
    MaxForeign = 0
INVARIANT AgentAnswersArrive
CHECK_DEADLOCK FALSE
