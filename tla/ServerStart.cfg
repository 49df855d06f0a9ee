CONSTANTS
    r1 = r1  r2 = r2
    Requests = {r1, r2}
    AuditPath = "/audit/events"
    Served <- MCServed
    Free = Free
SPECIFICATION Spec
INVARIANTS
    StartsWhenConfigured
CHECK_DEADLOCK FALSE
