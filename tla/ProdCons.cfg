CONSTANTS
    Consumers = {c1, c2}
    Producer = Producer
    Main = Main
    Nobody = Nobody
    MaxItems = 3
SPECIFICATION Spec
INVARIANTS
    SemAccounting
    Fifo
    EachHandledOnce
    LeftOnlyByStaleCheck
    ExitStatus
PROPERTIES
    Termination
    Delivered
CHECK_DEADLOCK FALSE
