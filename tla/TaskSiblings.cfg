SPECIFICATION Spec
CONSTANTS
  t1 = t1  t2 = t2  t3 = t3
  p1 = p1  p2 = p2  p3 = p3
  Tasks <- Family
  Parent <- FamilyParent
  Procs = {p1, p2, p3}
  NoTask = NoTask
  NoProc = NoProc
  MaxConcurrent = 3
  MaxRetries = 0
  MaxCrashes = 1
  CtxMayDie = FALSE
  ApiEnds = FALSE
  ConfigMayGo = FALSE
SYMMETRY FamilySymmetry
INVARIANTS ParentIsTold
CHECK_DEADLOCK FALSE
