CONSTANTS
    r1 = r1  r2 = r2  r3 = r3  r4 = r4
    d1 = d1  d2 = d2
    k1 = k1  k2 = k2
    Requests = {r1, r2, r3, r4}
    Documents = {d1, d2}
    Keys = {k1, k2}
    Contents = {"matching", "differing", "unlabelled"}
    NoRow = NoRow
    NoKey = NoKey
    NoAttempt = NoAttempt
    NoCall = NoCall
SPECIFICATION Spec
INVARIANTS
    SameRequestIsReplayed
CHECK_DEADLOCK FALSE
