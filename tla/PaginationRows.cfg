CONSTANTS
    active = active  paused = paused
    Ids <- MCIds
    MaxTime = 4
    Status = {active, paused}
    Grain = 2
    MaxLimit = 2
    None = None
SPECIFICATION Spec
INVARIANTS
    EveryRowListed
CHECK_DEADLOCK FALSE
