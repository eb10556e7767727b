SPECIFICATION FairSpec
CONSTANTS
  Runs = {r1, r2}
  Specs <- SomeSpecs
  None = None
  MaxPolls = 1
  MaxDeletes = 1
INVARIANT EventsTellTheRun
INVARIANT CrdsComeFirst
PROPERTY AppliedWasChecked
PROPERTY SuccessIsComplete
 
CHECK_DEADLOCK FALSE
