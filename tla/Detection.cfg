SPECIFICATION FairSpec
CONSTANTS
    t1 = t1
    t2 = t2
    Tools = {t1, t2}
    Runs = 5
    Watchdog = 1
    Backstop = 5
    MaxRetries = 3
    MaxFaults = 2
    MaxClicks = 1
INVARIANTS
    RowsAreCurrent
PROPERTIES
    DetectionEnds
CHECK_DEADLOCK FALSE
