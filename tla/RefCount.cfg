CONSTANTS
  Threads = {t1, t2}
  Loop = loop
  MaxOps = 5
SPECIFICATION FairSpec
CHECK_DEADLOCK FALSE
INVARIANTS StrongExact AliveWhileReferenced NothingDangles
PROPERTY Collected
