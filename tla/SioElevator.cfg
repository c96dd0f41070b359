SPECIFICATION FairSpec
CONSTANTS
  r1 = r1
  r2 = r2
  NONE = NONE
  Rq = {r1, r2}
  Expires <- MCExpires
  DefaultExpire <- MCExpire
  Batches = {0, 1}
  DefaultBatch = 1
CHECK_DEADLOCK FALSE
INVARIANTS
  RequestsAccounted
  BarrierNotOvertaken
  DeadlinesKept
PROPERTIES
  EverybodyServed
