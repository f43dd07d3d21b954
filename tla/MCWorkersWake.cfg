SPECIFICATION FairSpec
CONSTANTS
  NumWorkers = 2
  MaxBlocks = 2
  Hosted = 2
  MaxMail = 1
  MaxOps = 1
  MaxKills = 0
  MayStop = TRUE
  None = None
PROPERTY WokenRuns
CHECK_DEADLOCK FALSE
