SPECIFICATION FairSpec
CONSTANTS
    Null = Null
    Setup <- MCSetup
    Statement <- MCStatement
    Name = {"a", "b"}
INVARIANT RetriesWithinTime
INVARIANT OnlyVettedStatementsRun
PROPERTY CallEnds
CHECK_DEADLOCK FALSE
