CONSTANTS
    MaxFiles = 4
SPECIFICATION FairSpec
CHECK_DEADLOCK FALSE
INVARIANTS
    DrainLifecycleTypeOK
    StopsBetweenFiles
PROPERTIES
    ProcessEnds
