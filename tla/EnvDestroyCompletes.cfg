SPECIFICATION FairSpec
CONSTANTS
  a = a  f = f  t = t
  s1 = s1  s2 = s2  s3 = s3
  p1 = p1  p2 = p2  p3 = p3
  ApiEnvs = {}
  ForkEnvs = {f}
  TaskEnvs = {}
  Servers = {s1}
  Procs = {p1, p2}
  NoServer = NoServer
  NoEnv = NoEnv
  MaxCrashes = 0
  CloudMayFail = FALSE
  CtxMayDie = FALSE
  GoneOutcomes = {"err"}
  WakeUsed = FALSE
PROPERTY DestroyCompletes
