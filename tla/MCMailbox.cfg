SPECIFICATION FairSpec
CONSTANTS
  p1 = p1
  p2 = p2
  Producers <- MCProducers
  MaxSend = 3
  MaxSize = 2
  CountMod = 8
  Stub = Stub
  Null = Null
CHECK_DEADLOCK FALSE
INVARIANTS
  TypeOK
  FifoDelivery
  Overshoot
  CountSettles
  FreeReleasesRest
PROPERTIES
  NullOnlyMidPush
  AcceptedIsDone
  ImplementsQueue
