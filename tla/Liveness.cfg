SPECIFICATION LivenessSpec
CONSTANTS
  Parts = {"env", "task", "retry", "mesh", "agent", "watch", "intake", "local"}
  te = te  s1 = s1  p1 = p1  p2 = p2  NoServer = NoServer  NoEnv = NoEnv
  t1 = t1  t2 = t2  NoTask = NoTask  NoProc = NoProc
  org = org  main = main  dev = dev  f = f  h = h
  Propagator = Propagator  NoOrg = NoOrg
  k1 = k1  a1 = a1  a2 = a2  pip = pip  i1 = i1  hook = hook
  w1 = w1  Listener = Listener  NoWaiter = NoWaiter
PROPERTIES
  CreatingResolves TaskServerTornDown TaskUsageStops TasksEnd SlotsFreed
  MessagesSettle LinesAreTried PackagesSettle IssuesServed
CHECK_DEADLOCK FALSE
