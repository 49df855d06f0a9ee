CONSTANTS
    r1 = r1  r2 = r2  r3 = r3  r4 = r4
    d1 = d1  d2 = d2  d3 = d3
    k1 = k1  k2 = k2
    e1 = e1  f1 = f1  f2 = f2  a = a  b = b
    Requests = {r1, r2, r3}
    Documents = {d1, d2, d3}
    Stored = {d1}
    References = {e1}
    Keys = {k1, k2}
    FieldKeys = {f1, f2}
    Values = {a, b}
    Results <- MCResults
    Patches <- MCPatches
    Grain = 2
    MaxTime = 7
    NoRow = NoRow
    NoField = NoField
    Nobody = Nobody
SPECIFICATION Spec
SYMMETRY Interchangeable
INVARIANTS
    TypeOK
    ReceivedOnce
    OneExtractionPerKey
    DuplicateOnlyInRace
    AppliedToVersionSeen
    CorrectionsHold
    AcceptedIsAudited
PROPERTIES
    ImplementsPromise
    CompletedOnce
CHECK_DEADLOCK FALSE
