CONSTANTS
    Word = 16
    Null = Null
    Chars <- MCChars
    Programs <- MCPrograms
    BufSize = 4
    Tickets = 4
    Unmapped = Unmapped
    None = None
SPECIFICATION Spec
INVARIANTS
    TerminalShows
    LosesOnlyLastLine
PROPERTIES
    Finishes
CHECK_DEADLOCK FALSE
