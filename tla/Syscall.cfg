CONSTANTS
    NumBits = 9
    NoPage = NoPage
    Image = Image
    PtSize = 2
    NumSlots = 6
    PageSize = 2
    StackPage = 10
    Bytes = {0, 1}
    KernelFrames = {0}
    Layouts <- MCLayouts
    BreakArgs <- MCBreakArgs
    WriteAddrs <- MCWriteAddrs
    SumArgs = {50}
    WordSize = 64
SPECIFICATION Spec
INVARIANTS
    Ownership
    HeapExtent
    LoopBounds
    NoPanic
PROPERTIES
    ImplementsBreak
    BreakReturns
CHECK_DEADLOCK FALSE
