SPECIFICATION SuiteSpec
CONSTANTS
  r1 = r1  main = main  feat = feat  e1 = e1  e2 = e2  i1 = i1  o1 = o1
  Parts = {"agent", "watch", "contexts", "billing", "autoscale", "device", "intake", "local", "keys", "limits"}
  Keys = {k1}
  Deployments = {TRUE, FALSE}
  RecentCap = 1
  MaxDeliver = 2
  MaxEvents = 2
  MaxLines = 1
  MaxFaults = 2
  MaxReads = 2
  Peers = {a, b}
  Packages = {p, n}
  Npm = {n}
  Saved = {p}
  MaxChanges = 2
  MaxLost = 1
  Repos = {r1}
  Branches = {main, feat}
  Default = main
  Learned = {x1, x2}
  KeyOf <- MCKeyOf
  Handlers = {h1, h2}
  MaxErrors = 1
  MaxJobs = 1
  Sessions = {e1, e2}
  SizeOf <- MCSizeOf
  Multiplier <- MCMultiplier
  Included = 3
  Minute = 1
  MonthTicks = 2
  Callers = {c1, c2}
  MaxTicks = 5
  MaxFailures = 2
  Policies <- MCPolicies
  Loads = {20, 95}
  Feeds = {TRUE, FALSE}
  ServerHolds = 2
  MaxRounds = 2
  MaxServers = 2
  MaxSlips = 1
  Logins = {l1, l2}
  Users = {u1, u2}
  Personal = {u2}
  Forms <- MCForms
  MaxApprovals = 2
  MaxAccidents = 1
  Issues = {i1}
  Workspaces = {o1, o2}
  Home <- MCHome
  Hooks = {g1}
  MaxEdits = 1
  MaxTasks = 2
  MaxMishaps = 1
  LocalBranches = {main, feat}
  Posters = {h1, h2}
  Watchers = {w1}
  Listener = Listener
  NoWaiter = NoWaiter
  MaxPostings = 2
  SigningKeys = {k1, k2}
  Requests = {q1, q2}
  MaxRotations = 1
  Addresses = {i1}
  OrgNames = {o1}
  NoOrg = NoOrg
  BurstOf <- MCBurst
  RateOf <- MCRate
  GlobalBurst = 4
  GlobalRate = 2
  StaleAfter = 3
  InFlight = {q1, q2}
INVARIANTS TypesOK AgentSafe BillingSafe AutoscaleSafe EntranceSafe
PROPERTIES UndisturbedKeeps NothingTakenBack ImplementsGrant
CHECK_DEADLOCK FALSE
