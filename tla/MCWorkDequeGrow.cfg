SPECIFICATION Spec
CONSTANTS
  t1 = t1
  t2 = t2
  e1 = e1
  Owner = Owner
  Nobody = Nobody
  Enqueuers <- NoEnqueuers
  Thieves <- OneThief
  InitialCapacity = 2
  MaxPush = 5
  MaxGrow = 2
INVARIANT ReturnsPushed
