CONSTANTS
    MaxTroubles = 1
    MaxMishaps = 0
    Starts = {6}
SPECIFICATION Spec
INVARIANTS WaitingMendsIt
CHECK_DEADLOCK FALSE
