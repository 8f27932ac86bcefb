CONSTANTS
    r1 = r1
    r2 = r2
    Size = 3
    ChunkSize = 2
    Requests = {r1, r2}
    Overlap = TRUE
    MaxCrashes = 0
    MaxTimeouts = 3
    MaxFaults = 0
SPECIFICATION Spec
CHECK_DEADLOCK FALSE
SYMMETRY Symmetry
INVARIANTS
    Intact
