SPECIFICATION Spec
CONSTANTS
  MaxBlocks = 3
  Hosted = 3
  InitialCaps <- Plain
  MaxMail = 1
  MaxOps = 2
  MaxKills = 1
  None = None
INVARIANT TerminatedOnce
CHECK_DEADLOCK FALSE
