CONSTANTS
    d1 = d1
    d2 = d2
    k1 = k1
    k2 = k2
    k3 = k3
    Devices = {d1, d2}
    Keys = {k1, k2, k3}
    MaxFid = 4
    Legacy = 1
    Count = 2
SPECIFICATION ListingSpec
SYMMETRY Symmetry
INVARIANTS
    ListingTypeOK
    SchemaOK
    OpenOrClosed
    ListingComplete
    ListedOnce
PROPERTIES
    NeverResurrected
