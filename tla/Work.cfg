SPECIFICATION WorkSpec
CONSTANTS
  x1 = x1  x2 = x2  y1 = y1  y2 = y2
  Parts = {"pool", "run", "memory", "snapshots", "guidance", "links"}
  PoolConfig <- MCPoolConfig
  Targets = {"small"}
  Configured = {"hetzner"}
  Provisions = {x1, x2}
  TargetOf <- MCTargetOf
  PoolEnvs = {y1, y2}
  Wants <- MCWants
  Callers = {r1}
  Nobody = Nobody
  TaskRuns = {x1, x2}
  NoRun = NoRun
  Attempts = {x1, x2}
  NoAttempt = NoAttempt
  Texts = {y1, y2}
  NoText = NoText
  Vms = {x1, x2}
  NoVm = NoVm
  Branches = {b1, b2}
  Parent = b1
  Tags = {y1, y2}
  NoTag = NoTag
  Jobs = {j1, j2}
  MaxInstalls = 1
  MaxRows = 2
  TipCount = 4
  Scores = {0, 1, 3}
  KeepNewest = 3
  DefaultLimit = 1
  MaxLimit = 2
  KeepLexical = 2
  KeepCandidates = 2
  KeepVector = 1
  Alien = 0
  MaxAnswer = 2
  Owners = {y1, y2}
  NoOwner = NoOwner
  Linkers = {x1, x2}
  Installation = 7
  MaxHooks = 2
  MaxRowIds = 2
  MaxTurns = 2
  Kinds = {"push", "create"}
SYMMETRY Symmetry
INVARIANTS WorkWellFormed PoolSafe TaskRunSafe InheritanceSafe
CHECK_DEADLOCK FALSE
