CONSTANTS
    Base = 1
    MaxBreak = 16
    Sizes = {0, 1, 3, 4}
    Cookies = {0, 7}
SPECIFICATION Spec
INVARIANTS
    BlocksDisjoint
    ListOrdered
PROPERTIES
    ReusesFreeBlocks
    FreeMarksNoOther
    DamageIsTailNext
    MallocReturns
