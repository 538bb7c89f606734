SPECIFICATION Spec
CONSTANTS
    acme = acme
    globex = globex
    staff = staff
    finance = finance
    Null = Null
    Tenant = {acme, globex}
    Scope <- MCScope
    ChunkCount = 2
    Client = {"delete_by_query", "delete"}
    Limit = {1, 3, 6}
    MaxUploads = 3
    MaxRestarts = 1
INVARIANT LeftoversExposed
INVARIANT ActiveFound
CHECK_DEADLOCK FALSE
