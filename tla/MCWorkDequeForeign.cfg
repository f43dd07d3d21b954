SPECIFICATION Spec
CONSTANTS
  t1 = t1
  t2 = t2
  e1 = e1
  Owner = Owner
  Nobody = Nobody
  Enqueuers <- OneEnqueuer
  Thieves <- OneThief
  InitialCapacity = 2
  MaxPush = 2
  MaxGrow = 1
INVARIANT WaitingOrClaimed
