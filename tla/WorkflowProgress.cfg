CONSTANTS
    r1 = r1  r2 = r2  r3 = r3  r4 = r4
    u1 = u1  u2 = u2  u3 = u3
    k1 = k1  k2 = k2
    p1 = p1  p2 = p2
    Requests = {r1, r2, r3}
    Users = {u1}
    Managers = {}
    Keys = {k1}
    Payloads = {p1}
    Edits <- MCEdits
    MaxVersion = 3
    PoolSize = 2
    NoRow = NoRow
    Nobody = Nobody
SPECIFICATION FairSpec
PROPERTIES
    EveryRequestAnswered
CHECK_DEADLOCK FALSE
