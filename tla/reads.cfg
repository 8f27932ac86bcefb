CONSTANTS
    Size = 4
    MaxRead = 2
    MaxRewrites = 1
SPECIFICATION Spec
INVARIANTS
    ReadsTypeOK
    RightBytes
    ReadWhole
