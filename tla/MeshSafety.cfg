SPECIFICATION Spec
CONSTANTS
  o1 = o1  o2 = o2  main = main  dev = dev  other = other  f = f
  h1 = h1  h2 = h2  c = c
  Orgs = {o1}
  Branches = {main, dev}
  Facts = {f}
  Org <- MCOrg
  Propagatable = {f}
  Handlers = {h1, h2}
  Propagator = Propagator
  Clients = {c}
  Watched <- MCWatched
  NoOrg = NoOrg
  MaxDeliver = 2
  ReplayLimit = 1
  MaxPosts = 2
  MaxFaults = 1
INVARIANTS TypeOK CopiesAreOfOriginals StoredIsBroadcast SequenceIsTheRows CopiedOnce AckedIsCopied StreamIsComplete
CHECK_DEADLOCK FALSE
