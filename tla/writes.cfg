CONSTANTS
    d1 = d1
    d2 = d2
    d3 = d3
    k1 = k1
    k2 = k2
    Devices = {d1, d2}
    Keys = {k1, k2}
    MaxFid = 2
    Legacy = 1
    Drainable = {}
    Dest = {}
    Timely = TRUE
    ResetOnStart = FALSE
    Overlap = FALSE
    TornCreate = FALSE
    MaxEvents = 2
SPECIFICATION Spec
SYMMETRY Symmetry
INVARIANTS
    EfesTypeOK
    Durable
    DeleteTaskSafe
PROPERTIES
    CleanerSparesClosed
    KeepsLocation
    ImplementsKeyStore
