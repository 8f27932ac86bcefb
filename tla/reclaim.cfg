CONSTANTS
    d1 = d1
    d2 = d2
    d3 = d3
    k1 = k1
    k2 = k2
    Devices = {d1, d2}
    Keys = {k1}
    MaxFid = 1
    Legacy = 0
    Drainable = {d1}
    Dest = {d2}
    Timely = FALSE
    ResetOnStart = TRUE
    Overlap = TRUE
    TornCreate = TRUE
    MaxEvents = 2
SPECIFICATION FairSpec
INVARIANTS
    DeleteTaskSafe
PROPERTIES
    GarbageCollected
    DeletedIsGone
