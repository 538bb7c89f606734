SPECIFICATION FairSpec
CONSTANTS
    Thread = {th1, th2, th3}
    Tenant = {t1}
    Lock = {l1, l2, l3, l4}
    MaxWrites = 2
    Null = Null
INVARIANTS
    TypeOK
    StaleOnlyByRace
    LocksMatch
PROPERTIES
    SearchReturns
