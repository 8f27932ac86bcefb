CONSTANTS
    r1 = r1
    r2 = r2
    Size = 3
    ChunkSize = 2
    Requests = {r1}
    Overlap = FALSE
    MaxCrashes = 2
    MaxTimeouts = 2
    MaxFaults = 2
SPECIFICATION FairSpec
CHECK_DEADLOCK FALSE
INVARIANTS
    UploadTypeOK
    Intact
    InfoHonest
PROPERTIES
    Completes
    SavesAsInEfes
    DrainsAsInEfes
