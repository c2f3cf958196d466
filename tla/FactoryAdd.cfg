CONSTANTS
    w1 = w1
    w2 = w2
    Workers = {w1}
    Main = Main
    Nobody = Nobody
    Inputs <- MCLateAdd
SPECIFICATION Spec
PROPERTY AddWakesWorker
CHECK_DEADLOCK FALSE
