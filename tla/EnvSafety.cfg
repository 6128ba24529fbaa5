SPECIFICATION Spec
CONSTANTS
  a = a  f = f  t = t
  s1 = s1  s2 = s2  s3 = s3
  p1 = p1  p2 = p2  p3 = p3
  ApiEnvs = {}
  ForkEnvs = {}
  TaskEnvs = {t}
  Servers = {s1, s2}
  Procs = {p1, p2, p3}
  NoServer = NoServer
  NoEnv = NoEnv
  MaxCrashes = 1
  CloudMayFail = TRUE
  CtxMayDie = TRUE
  GoneOutcomes = {"ok", "err"}
  WakeUsed = TRUE
SYMMETRY Symmetry
INVARIANTS TypeOK NoOrphanServer DestroyedMeansGone OneServerPerEnv RunningIsUp DestroyedNotBilled
