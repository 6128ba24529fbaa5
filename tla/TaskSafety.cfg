SPECIFICATION Spec
CONSTANTS
  t1 = t1  t2 = t2  t3 = t3
  p1 = p1  p2 = p2  p3 = p3
  Tasks <- Pair
  Parent <- PairParent
  Procs = {p1, p2, p3}
  NoTask = NoTask
  NoProc = NoProc
  MaxConcurrent = 1
  MaxRetries = 1
  MaxCrashes = 0
  CtxMayDie = TRUE
  ApiEnds = TRUE
  ConfigMayGo = TRUE
SYMMETRY Symmetry
INVARIANTS TypeOK SlotsAreRuns SlotsBounded RunningIsDriven
PROPERTY EndedIsKept
CHECK_DEADLOCK FALSE
