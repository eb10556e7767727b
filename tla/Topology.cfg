SPECIFICATION FairSpec
CONSTANTS
  NoOwner = NoOwner
  Histories <- SomeHistories
  Collapses <- SomeCollapses
  CmdCap = 2
  EventCap = 2
  MaxFetches = 3
  MaxChanges = 1
  MaxTabs = 2
INVARIANT LoopsAreTheTabs
INVARIANT DiagramIsTrue
PROPERTY ReplacedFetchesAreDropped
PROPERTY LoadingEnds
CHECK_DEADLOCK FALSE
