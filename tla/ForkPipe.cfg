CONSTANTS
    Pairs <- MCPairs
    MaxPairs = 2
    PipeSize = 1
SPECIFICATION Spec
INVARIANTS
    OkMeansAnswered
    AnswersRight
PROPERTIES
    AllEnd
CHECK_DEADLOCK FALSE
