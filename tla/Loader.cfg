CONSTANTS
    NumBits = 7
    NoPage = NoPage
    Image = Image
    PtSize = 4
    NumSlots = 4
    PageSize = 2
    StackPage = 13
    KernelFrames = {0}
    ModPages = 4
    Images <- MCImages
SPECIFICATION Spec
INVARIANTS
    ImageLoaded
    LeavesLayout
    RunsIffFits
PROPERTIES
    Decides
CHECK_DEADLOCK FALSE
