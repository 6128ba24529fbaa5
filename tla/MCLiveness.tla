---------------------------- MODULE MCLiveness ----------------------------
(***************************************************************************)
(* What must happen in the end, component by component, in one instance    *)
(* for TLC: "part" says which component a behaviour is about, the others   *)
(* stay at their initial state.  Environments and tasks have variables of  *)
(* the same names, so each component is an instance on variables of its    *)
(* own.                                                                    *)
(***************************************************************************)
EXTENDS Naturals, Sequences, FiniteSets, TLC

CONSTANTS
  Parts,
  te, s1, p1, p2, NoServer, NoEnv,
  t1, t2, NoTask, NoProc,
  org, main, dev, f, h, Propagator, NoOrg,
  k1, a1, a2, pip, i1, hook,
  w1, Listener, NoWaiter

VARIABLES
  part,
  status, cluster, usage, cloud, madeFor, task, proc, crashes, mishap,
  taskStatus, retries, active, runs, restarts, adrift, untoldTasks,
  posts, serial, store, deleted, stream, window, pub, filter, from, tries, settled,
  listening, handler, sse, faults, owed, gaps, lost, unstored, overtaken, aged,
  shared, log, sent, acked, agent, live, cursor, outbox, host, offset, batch,
  published, tried, shown, missed, reordered, budget,
  installed, variable, tracker, inbox, installing, told, untold, used,
  issue, connected, hooked, mail, request, poller, tasks, launching, reports,
  forgotten, spent,
  tuned, listens, reads, blocked, taker, post, watcher, heard, ended

\* the environment of a task; two goroutines, cloud errors and a restart
Env == INSTANCE EnvLifecycle WITH
  ApiEnvs <- {}, ForkEnvs <- {}, TaskEnvs <- {te}, Servers <- {s1}, Procs <- {p1, p2},
  MaxCrashes <- 1, CloudMayFail <- TRUE, CtxMayDie <- TRUE, GoneOutcomes <- {"err"},
  WakeUsed <- FALSE

\* two tasks, one slot, two goroutines, timeouts and a restart
Task == INSTANCE TaskLifecycle WITH
  Tasks <- {t1, t2}, Parent <- [x \in {t1, t2} |-> NoTask], Procs <- {p1, p2},
  MaxConcurrent <- 1, MaxRetries <- 0, MaxCrashes <- 1, CtxMayDie <- TRUE,
  ApiEnds <- FALSE, ConfigMayGo <- TRUE,
  status <- taskStatus, proc <- runs, crashes <- restarts, untold <- untoldTasks

\* the same with a retry, of which one task makes use
Retried == INSTANCE TaskLifecycle WITH
  Tasks <- {t1, t2}, Parent <- [x \in {t1, t2} |-> NoTask], Procs <- {p1, p2},
  MaxConcurrent <- 1, MaxRetries <- 1, MaxCrashes <- 1, CtxMayDie <- TRUE,
  ApiEnds <- FALSE, ConfigMayGo <- TRUE,
  status <- taskStatus, proc <- runs, crashes <- restarts, untold <- untoldTasks

\* a handler and two branches, a post and its copy, two deliveries, two faults
Bus == INSTANCE Mesh WITH
  Orgs <- {org}, Branches <- {main, dev}, Facts <- {f}, Org <- [b \in {main, dev} |-> org],
  Propagatable <- {f}, Handlers <- {h}, Clients <- {}, Watched <- <<>>,
  MaxDeliver <- 2, ReplayLimit <- 1, MaxPosts <- 1, MaxFaults <- 2,
  acked <- settled, missed <- gaps, forgotten <- aged

\* an agent whose context directory is the container's, or is not
Agent == INSTANCE LiveContext WITH
  Keys <- {k1}, Deployments <- {TRUE, FALSE}, RecentCap <- 1, MaxDeliver <- 1, MaxEvents <- 0,
  MaxLines <- 2, MaxFaults <- 2, MaxReads <- 0

\* two agents of a branch and one package, which the saved context lists
Watch == INSTANCE ChangeWatch WITH
  Peers <- {a1, a2}, Packages <- {pip}, Npm <- {}, Saved <- {pip}, MaxChanges <- 1, MaxLost <- 1

\* an issue, a workspace and a webhook
Linear == INSTANCE Intake WITH
  Issues <- {i1}, Workspaces <- {org}, Home <- [i \in {i1} |-> org], Hooks <- {hook},
  MaxEdits <- 1, MaxTasks <- 2, MaxMishaps <- 1

\* a server without NATS: a request that publishes twice, a client, the listener
Local == INSTANCE LocalMesh WITH
  LocalBranches <- {main, dev}, Posters <- {h}, Watchers <- {w1}, MaxPostings <- 2

envVars == <<status, cluster, usage, cloud, madeFor, task, proc, crashes, mishap>>
taskVars == <<taskStatus, retries, active, runs, restarts, adrift, untoldTasks>>
busVars == <<posts, serial, store, deleted, stream, window, pub, filter, from, tries,
             settled, listening, handler, sse, faults, owed, gaps, lost, unstored, overtaken,
             aged>>
agentVars == <<shared, log, sent, acked, agent, live, cursor, outbox, host, offset,
               batch, published, tried, shown, missed, reordered, budget>>
watchVars == <<installed, variable, tracker, inbox, installing, told, untold, used>>
linearVars == <<issue, connected, hooked, mail, request, poller, tasks, launching,
                reports, forgotten, spent>>
localVars == <<tuned, listens, reads, blocked, taker, post, watcher, heard, ended>>
livenessVars == <<part, envVars, taskVars, busVars, agentVars, watchVars, linearVars, localVars>>

LivenessInit ==
  /\ part \in Parts
  /\ Env!Init /\ Task!Init /\ Bus!Init /\ Agent!LiveInit /\ Watch!WatchInit
  /\ Linear!IntakeInit /\ Local!LocalInit
  /\ part # "agent" => shared
  /\ part # "local" => watcher[Listener].pc = "gone"
  /\ part # "watch" => \A a \in {a1, a2} : installed[a] = {} /\ installing[a] = {}

LivenessNext ==
  /\ UNCHANGED part
  /\ \/ part = "env" /\ Env!Next
     \/ part # "env" /\ UNCHANGED envVars
  /\ \/ part = "task" /\ Task!Next
     \/ part = "retry" /\ Retried!Next /\ taskStatus'[t2] = "none"
     \/ part \notin {"task", "retry"} /\ UNCHANGED taskVars
  /\ \/ part = "mesh" /\ Bus!Next
     \/ part # "mesh" /\ UNCHANGED busVars
  /\ \/ part = "agent" /\ Agent!LiveNext
     \/ part # "agent" /\ UNCHANGED agentVars
  /\ \/ part = "watch" /\ Watch!WatchNext
     \/ part # "watch" /\ UNCHANGED watchVars
  /\ \/ part = "intake" /\ Linear!IntakeNext
     \/ part # "intake" /\ UNCHANGED linearVars
  /\ \/ part = "local" /\ Local!LocalNext
     \/ part # "local" /\ UNCHANGED localVars

(* The fairness each component's module states and explains, asked of the    *)
(* behaviours that are about it.                                             *)
Fairness ==
  /\ \A p \in {p1, p2} : /\ WF_envVars(part = "env" /\ Env!Step(p))
                         /\ WF_taskVars(part \in {"task", "retry"} /\ Task!Step(p))
  /\ SF_envVars(part = "env" /\ \E p \in {p1, p2} : Env!TaskCleanup(p, te))
  /\ \A w \in {h, Propagator} : WF_busVars(part = "mesh" /\ Bus!PublishStep(w))
  /\ WF_busVars(part = "mesh" /\ Bus!StartListening(org))
  /\ WF_busVars(part = "mesh" /\ \E i \in DOMAIN stream : Bus!Deliver(i))
  /\ WF_busVars(part = "mesh" /\ Bus!HandlerStep)
  /\ WF_agentVars(part = "agent" /\ Agent!TakeLines)
  /\ WF_agentVars(part = "agent" /\ Agent!PublishLine)
  /\ WF_agentVars(part = "agent" /\ Agent!AgentStarts)
  /\ \A a \in {a1, a2} : /\ WF_watchVars(part = "watch" /\ Watch!Scan(a))
                         /\ WF_watchVars(part = "watch" /\ Watch!Receive(a))
                         /\ WF_watchVars(part = "watch" /\ Watch!AutoInstall(a, pip))
  /\ WF_linearVars(part = "intake" /\ Linear!PollerStep)
  /\ WF_localVars(part = "local" /\ Local!PostStep(h))
  /\ \A w \in {w1, Listener} : WF_localVars(part = "local" /\ Local!WriterStep(w))

LivenessSpec == LivenessInit /\ [][LivenessNext]_livenessVars /\ Fairness

-----------------------------------------------------------------------------
\* EnvLifecycle: boots end, the executor's clean-up tears its server down and
\* stops its usage
CreatingResolves == Env!CreatingResolves
TaskServerTornDown == Env!TaskServerTornDown
TaskUsageStops == Env!TaskUsageStops

\* TaskLifecycle: driven tasks end and give their slots back
TasksEnd == Task!TasksEnd
SlotsFreed == Task!SlotsFreed

\* Mesh and LocalMesh: every message is acknowledged or given up; without NATS
\* every call of the bus returns, or a handler and a writer wait for each other
MessagesSettle == Bus!MessagesSettle /\ Local!NobodyWaits

\* LiveContext: every line of the outbox that reaches the host is tried
LinesAreTried == Agent!LinesAreTried

\* ChangeWatch: agents that install what they hear of come to rest
PackagesSettle == Watch!PackagesSettle

\* Intake: labelled issues of connected workspaces get a task
IssuesServed == Linear!IssuesServed
=============================================================================
