CONSTANTS
    NumBits = 16
    WordBits = 4
    NoPage = NoPage
    PageUnits = 2
    PoolEnd = 28
    BootSizes <- MCBootSizes
    BootTop <- MCBootTop
    EcSize = 1
    MaxRun = 2
SPECIFICATION Spec
INVARIANTS
    ScanInv
    PagesBelowEnd
    NoPanic
PROPERTIES
    ReturnsFirstFit
    ImplementsKalloc
