SPECIFICATION FairSpec
CONSTANTS
  t1 = t1  t2 = t2  t3 = t3
  p1 = p1  p2 = p2  p3 = p3
  Tasks <- Pair
  Parent <- PairParent
  Procs = {p1, p2}
  NoTask = NoTask
  NoProc = NoProc
  MaxConcurrent = 1
  MaxRetries = 0
  MaxCrashes = 0
  CtxMayDie = FALSE
  ApiEnds = FALSE
  ConfigMayGo = FALSE
PROPERTY ThrottledFails
CHECK_DEADLOCK FALSE
