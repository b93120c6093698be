SPECIFICATION Spec
CONSTANTS
    MaxVersion = 2
    Size <- LargeSize
    Ids = {i1, i2, i3, i4, i5, i6}
    NoObj = NoObj
    Parts = {p1, p2}
    LargeThreshold = 2
    CkptThreshold = 3
    CkptEvery = 1
    Modes <- LargeModes
    PoisonFails = TRUE
    ForeignLen = 2
    MaxFaults = 3
VIEW View
PROPERTIES
    AtomicPublication
