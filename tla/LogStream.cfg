SPECIFICATION FairSpec
CONSTANTS
    CmdCap = 2
    EventCap = 1
    RingCap = 2
    MaxStreams = 2
    MaxTabs = 2
    MaxLines = 2
INVARIANTS
    StreamsBelongToTheTab
PROPERTIES
    ReplacedStreamsAreDropped
    CancelledStreamReports
CHECK_DEADLOCK FALSE
