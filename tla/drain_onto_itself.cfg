CONSTANTS
    d1 = d1
    d2 = d2
    d3 = d3
    k1 = k1
    k2 = k2
    Devices = {d1, d2}
    Keys = {k1}
    MaxFid = 1
    Legacy = 0
    Drainable = {d1}
    Dest = {}
    Timely = TRUE
    ResetOnStart = TRUE
    Overlap = FALSE
    TornCreate = FALSE
    MaxEvents = 2
SPECIFICATION Spec
PROPERTIES
    DrainMovesElsewhere
