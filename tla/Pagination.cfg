CONSTANTS
    active = active  paused = paused
    Ids <- MCIds
    MaxTime = 4
    Status = {active, paused}
    Grain = 2
    MaxLimit = 2
    None = None
SPECIFICATION Spec
INVARIANTS
    TypeOK
    OnlyCursorMillisecondSkipped
PROPERTIES
    NoRowTwice
    ListingEnds
CHECK_DEADLOCK FALSE
