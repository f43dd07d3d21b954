SPECIFICATION Spec
CONSTANTS
  NumWorkers = 2
  MaxBlocks = 3
  Hosted = 3
  MaxMail = 1
  MaxOps = 0
  MaxKills = 1
  MayStop = TRUE
  None = None
INVARIANT LeaveWhenDone
CHECK_DEADLOCK FALSE
