SPECIFICATION FairSpec
CONSTANTS
  NumWorkers = 2
  MaxBlocks = 2
  Hosted = 1
  MaxMail = 1
  MaxOps = 1
  MaxKills = 1
  MayStop = TRUE
  None = None
INVARIANTS LastLeavesWhenCounted
PROPERTIES DoneIsNoticed
CHECK_DEADLOCK FALSE
