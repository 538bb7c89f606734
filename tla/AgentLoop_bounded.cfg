SPECIFICATION FairSpec
CONSTANTS
    vector = vector
    parametric = parametric
    web = web
    q1 = q1
    q2 = q2
    NoTool = NoTool
    Tool <- Tools
    Query = {q1, q2}
    Allowed <- Permitted
    Available <- Tools
    SelfCharging = {parametric}
    PolicySteps = 2
    MaxSteps = 3
    MaxTokens = 2
    MaxCost = 2
    MaxWall = 2
    BudgetAge = 0
    Guarded = TRUE
    Usage = 1
    Overtime = 1
    Overrun = 1
INVARIANTS
    TypeOK
    StepsBounded
    NoActionTwice
    GroundedOnEvidence
    OvershootBounded
    WallBounded
PROPERTIES
    Terminates
CHECK_DEADLOCK FALSE
