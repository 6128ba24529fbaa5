SPECIFICATION Spec
CONSTANTS
  o1 = o1  o2 = o2  main = main  dev = dev  other = other  f = f
  h1 = h1  h2 = h2  c = c
  Orgs = {o1, o2}
  Branches = {main, other}
  Facts = {f}
  Org <- MCOrg
  Propagatable = {f}
  Handlers = {h1}
  Propagator = Propagator
  Clients = {}
  Watched <- MCWatched
  NoOrg = NoOrg
  MaxDeliver = 2
  ReplayLimit = 1
  MaxPosts = 1
  MaxFaults = 0
INVARIANTS AllOrgsServed
CHECK_DEADLOCK FALSE
