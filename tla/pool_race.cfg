SPECIFICATION FairSpec
CONSTANTS
  Task = {t1, t2, t3, t4}
  Pool = {p1, p2, p3}
  None = None
  MaxSize = 2
  Batches = 2
  MaxFaults = 2
INVARIANTS NoPoolLost PromiseKept
PROPERTY EveryCallEnds
CHECK_DEADLOCK FALSE
