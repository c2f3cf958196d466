CONSTANTS
    w1 = w1
    w2 = w2
    Workers = {w1, w2}
    Main = Main
    Nobody = Nobody
    Inputs <- MCInputs
SPECIFICATION Spec
INVARIANTS
    PhasesInOrder
    WrongPhaseOnlyByRace
PROPERTIES
    NothingAfterSelfLock
    PhaseGetsDone
CHECK_DEADLOCK FALSE
