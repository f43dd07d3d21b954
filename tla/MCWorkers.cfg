SPECIFICATION Spec
CONSTANTS
  NumWorkers = 2
  MaxBlocks = 3
  Hosted = 3
  MaxMail = 1
  MaxOps = 1
  MaxKills = 1
  MayStop = FALSE
  None = None
INVARIANTS TypeOK RunsAlone RunnableIsHeld
CHECK_DEADLOCK FALSE
