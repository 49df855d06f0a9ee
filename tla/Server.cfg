CONSTANTS
    r1 = r1  r2 = r2
    Requests = {r1, r2}
    AuditPath = "/audit/reads"
    Served <- MCServed
    Free = Free
SPECIFICATION FairSpec
INVARIANTS
    TypeOK
    OnlyAbandonedAreCut
    PoolsAccountedFor
PROPERTIES
    ShutdownEnds
CHECK_DEADLOCK FALSE
