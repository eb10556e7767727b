SPECIFICATION FairSpec
CONSTANTS
    OutCap = 1
    ErrCap = 1
    MaxOut = 1
    MaxErr = 2
INVARIANTS
    ExitCodeMeansUndisturbed
    LeaderNeverOutlivesTheTask
PROPERTIES
    CallsEnd
CHECK_DEADLOCK FALSE
