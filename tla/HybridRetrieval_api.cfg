SPECIFICATION FairSpec
CONSTANTS
    acme = acme
    globex = globex
    staff = staff
    finance = finance
    Null = Null
    Tenant = {acme, globex}
    Principal = {staff, finance}
    Doc <- MCDoc
    Owner <- MCOwner
    Acl <- MCAcl
    Size <- MCSize
    Request <- MCRequest
    Ranking <- MCRanking
    Reranker = {"none", "nim", "function", "fallback"}
    RrfK = 60
    Unit <- MCUnit
    Budget = 4
    StageLimit = 0
    Changing = {1}
    MaxVersion = 2
INVARIANT TypeOK
INVARIANT MissedOnlyInACrowd
INVARIANT BudgetHeldAndUsed
INVARIANT StoredUnlessReplaced
PROPERTY RequestEnds
CHECK_DEADLOCK FALSE
