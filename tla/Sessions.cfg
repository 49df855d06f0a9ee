CONSTANTS
    r1 = r1  r2 = r2  r3 = r3  r4 = r4
    u1 = u1  u2 = u2
    e1 = e1
    p1 = p1  p2 = p2
    Requests = {r1, r2, r3}
    Users = {u1, u2}
    Emails = {e1}
    Secrets = {p1, p2}
    MaxActive = 2
    Lifetime = 2
    MaxClock = 2
    NoAccount = NoAccount
    NoSession = NoSession
    Nobody = Nobody
SPECIFICATION Spec
SYMMETRY Interchangeable
INVARIANTS
    TypeOK
    SessionCap
    RevokeOthersComplete
    AnsweredRevocationHolds
PROPERTIES
    LoginRechecked
    RevokedByOwner
CHECK_DEADLOCK FALSE
