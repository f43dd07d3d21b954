SPECIFICATION FairSpec
CONSTANTS
  MaxBlocks = 3
  Hosted = 2
  InitialCaps <- Mixed
  MaxMail = 1
  MaxOps = 3
  MaxKills = 1
  None = None
INVARIANTS TypeOK QueueExact WaitersAreWoken RelationsAgree
PROPERTIES DeadIsFinal BystandersDieByCrash DownEndsMonitor RunnableRuns
CHECK_DEADLOCK FALSE
