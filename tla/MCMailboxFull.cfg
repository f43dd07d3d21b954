SPECIFICATION Spec
CONSTANTS
  p1 = p1
  p2 = p2
  Producers <- MCProducers
  MaxSend = 2
  MaxSize = 5
  CountMod = 8
  Stub = Stub
  Null = Null
CHECK_DEADLOCK FALSE
PROPERTY RefusedOnlyWhenFull
