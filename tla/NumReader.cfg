CONSTANTS
    Digits = {0, 9}
    Space = Space
    Other = Other
    MaxInput = 4
    BufSize = 2
    WordSize = 64
SPECIFICATION ReaderSpec
INVARIANTS
    PrintsNumbers
PROPERTIES
    Exits
CHECK_DEADLOCK FALSE
