SPECIFICATION FairSpec
CONSTANTS
  Threads = {t1, t2}
  InitPkts = 2
  InitBufs = 2
  Bulk = {2}
  Replenish = TRUE
  PeFails = FALSE
PROPERTY WaitEnds
CHECK_DEADLOCK FALSE
