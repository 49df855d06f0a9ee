CONSTANTS
    r1 = r1  r2 = r2  r3 = r3  r4 = r4
    u1 = u1  u2 = u2  u3 = u3
    k1 = k1  k2 = k2
    p1 = p1  p2 = p2
    Requests = {r1, r2, r3}
    Users = {u1, u2}
    Managers = {u1}
    Keys = {k1, k2}
    Payloads = {p1, p2}
    Edits <- MCEdits
    MaxVersion = 3
    PoolSize = 2
    NoRow = NoRow
    Nobody = Nobody
SPECIFICATION Spec
SYMMETRY Interchangeable
INVARIANTS
    TypeOK
    OneFlowPerKey
    NoLostUpdate
    AuditGapsAreFailures
PROPERTIES
    ImplementsPromise
    LegalHistory
CHECK_DEADLOCK FALSE
