SPECIFICATION TimedPoolSpec
CONSTANTS
  c1 = c1
  c2 = c2
  r1 = r1
  Caller = {c1, c2}
  Remote = {r1}
  Sizes <- MCSizes
INVARIANTS
  PoolTypeOK
  StuckShape
  SpareNeverStuck
  LoneWorkerUnserved
PROPERTIES
  OwnSlotStarves
  CallsServed
  CallsReturn
CHECK_DEADLOCK FALSE
