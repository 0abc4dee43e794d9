CONSTANTS
    MaxTroubles = 2
    MaxMishaps = 1
    Starts = {2, 6}
SPECIFICATION Spec
INVARIANTS NoFalseAlarm NothingMissed CleanReportHasWritten
CHECK_DEADLOCK FALSE
