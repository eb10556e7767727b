SPECIFICATION FairSpec
CONSTANTS
    CmdCap = 2
    EventCap = 2
    MaxOps = 2
    MaxProgress = 1

    
PROPERTIES
    OutcomeIsOwnAndFinal
    CancelEndsTheOperation
CHECK_DEADLOCK FALSE
