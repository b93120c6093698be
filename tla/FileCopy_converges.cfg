SPECIFICATION FairSpec
CONSTANTS
    MaxVersion = 3
    Size <- MCSize
    Ids = {i1, i2, i3, i4, i5, i6}
    NoObj = NoObj
    Parts = {p1, p2, p3}
    LargeThreshold = 2
    CkptThreshold = 2
    CkptEvery = 2
    Modes <- MCModes
    PoisonFails = TRUE
    ForeignLen = 1
    MaxFaults = 2
PROPERTIES
    Converges
