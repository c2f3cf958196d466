CONSTANTS
    w1 = w1
    w2 = w2
    Workers = {w1, w2}
    Main = Main
    Nobody = Nobody
    Inputs <- MCInputs
SPECIFICATION Spec
PROPERTY EndDoesNotWait
CHECK_DEADLOCK FALSE
