---------------------------- MODULE EnvLifecycle ----------------------------
(***************************************************************************)
(* The life of a cloud environment: its row in the environments table, its *)
(* open usage_events row, and the cloud servers booted for it, under the   *)
(* goroutines that work on them:                                           *)
(*   - EnvService (internal/services/env_service.go): Create, Destroy,     *)
(*     Sleep, Wake, each a sequence of separate database and cloud calls;  *)
(*   - its callers: the HTTP handlers, the task executor, the GitHub       *)
(*     webhook (branch fork and branch cleanup) and the idle monitor;      *)
(*   - BillingService.TrackUsageStart / TrackUsageStop, which the callers  *)
(*     call beside EnvService.                                             *)
(* A step is one database statement or one cloud call.  Destroy, Sleep and *)
(* Wake read the row once and write the WHOLE row back from that copy,     *)
(* whatever has happened to it in between; the boot goroutine instead      *)
(* updates by id, whatever the row says by then.                           *)
(* The warm pool is nil here, as NewServer leaves it.                      *)
(***************************************************************************)
EXTENDS Naturals, FiniteSets

CONSTANTS
  ApiEnvs,       \* created by POST /environments: billed, no repository
  ForkEnvs,      \* created by autoForkEnvironment: repository, never billed
  TaskEnvs,      \* created by the task executor: repository, billed
  Servers,       \* servers the cloud can hand out
  Procs,         \* goroutines: request handlers, monitors, boot goroutines
  NoServer,      \* the empty cluster_name
  NoEnv,         \* the environment of an idle goroutine
  MaxCrashes,    \* bound: restarts of the API server
  CloudMayFail,  \* the provider's API may return an error
  CtxMayDie,     \* request contexts may be cancelled (client gone, timeout)
  GoneOutcomes,  \* what deleting a deleted server returns: "err" (Hetzner), "ok" (EC2)
  WakeUsed       \* WakeEnvironment is called (nothing in the repository does)

Envs == ApiEnvs \cup ForkEnvs \cup TaskEnvs
Billed == ApiEnvs \cup TaskEnvs
RepoEnvs == ForkEnvs \cup TaskEnvs

ASSUME EnvAssumption ==
  /\ NoServer \notin Servers
  /\ NoEnv \notin Envs
  /\ ApiEnvs \cap RepoEnvs = {} /\ ForkEnvs \cap TaskEnvs = {}
  /\ MaxCrashes \in Nat
  /\ CloudMayFail \in BOOLEAN /\ CtxMayDie \in BOOLEAN /\ WakeUsed \in BOOLEAN
  /\ GoneOutcomes \subseteq {"ok", "err"}

VARIABLES
  status,   \* environments.status of each environment, "none" before its row
  cluster,  \* environments.cluster_name of each environment
  usage,    \* its usage_events row: none, open (stopped_at IS NULL) or closed
  cloud,    \* each server at the provider: not made yet, up or deleted
  madeFor,  \* the environment each server was booted for
  task,     \* the task of a task environment, see TypeOK
  proc,     \* what each goroutine is doing: [pc, env, row, ctx]
  crashes,
  mishap    \* history: the accidents that have befallen each environment

vars == <<status, cluster, usage, cloud, madeFor, task, proc, crashes, mishap>>
db == <<status, cluster, usage>>
provider == <<cloud, madeFor>>

(***************************************************************************)
(* A goroutine at "d_cloud" is about to delete the server it read as "row" *)
(* and so on.  HoldsRow: its next full-row Update comes from its copy.     *)
(* Boots: it is the boot goroutine of a create or of a wake.               *)
(***************************************************************************)
DestroyPcs == {"d_mark", "d_cloud", "d_done"}
SleepPcs == {"s_read", "s_cloud", "s_write"}
HoldsRow == DestroyPcs \cup {"s_cloud", "s_write", "w_mark"}
Boots == {"boot", "wakeboot", "report"}
Pcs == {"idle", "usage_start", "usage_stop", "d_read", "s_read"}
         \cup HoldsRow \cup Boots

Accidents ==
  { "raced",     \* a boot ran beside a call holding a copy of the row
    "bootlost",  \* the server crashed under a boot
    "lost",      \* the provider did not delete a server it was told to
    "cut",       \* a sleep or destroy was cut short after its first effect
    "unstopped" }\* nobody is left who stops the usage

Goroutine == [pc : Pcs, env : Envs \cup {NoEnv}, row : Servers \cup {NoServer},
              ctx : {"request", "background"}]

TypeOK ==
  /\ status \in [Envs -> {"none", "creating", "running", "failed", "sleeping",
                          "destroying", "destroyed"}]
  /\ cluster \in [Envs -> Servers \cup {NoServer}]
  /\ usage \in [Envs -> {"none", "open", "closed"}]
  /\ cloud \in [Servers -> {"free", "up", "gone"}]
  /\ madeFor \in [Servers -> Envs \cup {NoEnv}]
  \* exec: the executor runs and agent_tasks says so; ending: only the row has
  \* ended; orphan: only the row still says running
  /\ task \in [TaskEnvs -> {"no", "exec", "ending", "orphan"}]
  /\ proc \in [Procs -> Goroutine]
  /\ crashes \in 0..MaxCrashes
  /\ mishap \in [Envs -> SUBSET Accidents]

IdleProc == [pc |-> "idle", env |-> NoEnv, row |-> NoServer, ctx |-> "background"]

Init ==
  /\ status = [e \in Envs |-> "none"]
  /\ cluster = [e \in Envs |-> NoServer]
  /\ usage = [e \in Envs |-> "none"]
  /\ cloud = [s \in Servers |-> "free"]
  /\ madeFor = [s \in Servers |-> NoEnv]
  /\ task = [e \in TaskEnvs |-> "no"]
  /\ proc = [p \in Procs |-> IdleProc]
  /\ crashes = 0
  /\ mishap = [e \in Envs |-> {}]

-----------------------------------------------------------------------------
(* Goroutines. *)

On(e, pcs) == {p \in Procs : proc[p].env = e /\ proc[p].pc \in pcs}

Call(pc, e, ctx) == [pc |-> pc, env |-> e, row |-> NoServer, ctx |-> ctx]

Start(p, c) == proc[p].pc = "idle" /\ proc' = [proc EXCEPT ![p] = c]
At(p, pc) == proc[p].pc = pc
Goto(p, pc) == proc' = [proc EXCEPT ![p].pc = pc]
Holding(p, pc, s) == proc' = [proc EXCEPT ![p] = [@ EXCEPT !.pc = pc, !.row = s]]
Return(p) == proc' = [proc EXCEPT ![p] = IdleProc]

Befalls(e, accidents) == mishap' = [mishap EXCEPT ![e] = @ \cup accidents]
When(condition, accident) == IF condition THEN {accident} ELSE {}

(***************************************************************************)
(* The two ways a row is written.                                          *)
(* WriteRow: Repository.Update, every column from the caller's copy.       *)
(* SetStatus: setEnvStatus / setEnvStatusFull, by id; an empty cluster     *)
(* name leaves the column alone.                                           *)
(***************************************************************************)
WriteRow(e, st, c) ==
  /\ status' = [status EXCEPT ![e] = st]
  /\ cluster' = [cluster EXCEPT ![e] = c]

\* mutant of SetStatus: the provider reference is not stored
SetStatusAlone(e, st, c) ==
  /\ status' = [status EXCEPT ![e] = st]
  /\ UNCHANGED cluster

SetStatus(e, st, c) ==
  /\ status' = [status EXCEPT ![e] = st]
  /\ cluster' = [cluster EXCEPT ![e] = IF c = NoServer THEN @ ELSE c]

-----------------------------------------------------------------------------
(* Creation: the row is inserted, the boot goes to a goroutine of its own, *)
(* and the caller starts the usage when it bills this kind of environment. *)

CreateEnvironment(p, q, e) ==
  /\ status[e] = "none"
  /\ p # q /\ proc[p].pc = "idle" /\ proc[q].pc = "idle"
  /\ status' = [status EXCEPT ![e] = "creating"]
  /\ proc' = [proc EXCEPT
       ![q] = Call("boot", e, "background"),
       ![p] = IF e \in Billed THEN Call("usage_start", e, "request") ELSE IdleProc]
  /\ task' = IF e \in TaskEnvs THEN [task EXCEPT ![e] = "exec"] ELSE task
  /\ UNCHANGED <<cluster, usage, provider, crashes, mishap>>

TrackUsageStart(p) ==
  /\ At(p, "usage_start")
  /\ usage' = [usage EXCEPT ![proc[p].env] = "open"]
  /\ Return(p)
  /\ UNCHANGED <<status, cluster, provider, task, crashes, mishap>>

BootCloud(p, s) ==
  /\ proc[p].pc \in {"boot", "wakeboot"}
  /\ cloud[s] = "free"
  /\ cloud' = [cloud EXCEPT ![s] = "up"]
  /\ madeFor' = [madeFor EXCEPT ![s] = proc[p].env]
  /\ Holding(p, "report", s)
  /\ UNCHANGED <<db, task, crashes, mishap>>

\* mutants of BootFail: a status nobody else knows; the status left alone
BootFailUnknown(p) ==
  /\ CloudMayFail
  /\ proc[p].pc \in {"boot", "wakeboot"}
  /\ SetStatus(proc[p].env, "error", NoServer)
  /\ Return(p)
  /\ UNCHANGED <<usage, provider, task, crashes, mishap>>

BootFailSilent(p) ==
  /\ CloudMayFail
  /\ proc[p].pc \in {"boot", "wakeboot"}
  /\ Return(p)
  /\ UNCHANGED <<db, provider, task, crashes, mishap>>

BootFail(p) ==
  /\ CloudMayFail
  /\ proc[p].pc \in {"boot", "wakeboot"}
  /\ SetStatus(proc[p].env, IF At(p, "boot") THEN "failed" ELSE "sleeping", NoServer)
  /\ Return(p)
  /\ UNCHANGED <<usage, provider, task, crashes, mishap>>

BootReport(p) ==
  /\ At(p, "report")
  /\ SetStatus(proc[p].env, "running", proc[p].row)
  /\ Return(p)
  /\ UNCHANGED <<usage, provider, task, crashes, mishap>>

-----------------------------------------------------------------------------
(* Who asks for a destruction. *)

\* DELETE /environments/{id}, for any row the caller can list
ApiDestroy(p, e) ==
  /\ status[e] # "none"
  /\ Start(p, Call("usage_stop", e, "request"))
  /\ UNCHANGED <<db, provider, task, crashes, mishap>>

\* mutants of TaskCleanup: the usage is not stopped; a task whose row has
\* ended already (cancelled) is not cleaned up after
TaskCleanupUnbilled(p, e) ==
  /\ task[e] \in {"exec", "ending"}
  /\ On(e, {"usage_start"}) = {}
  /\ Start(p, Call("d_read", e, "background"))
  /\ task' = [task EXCEPT ![e] = IF @ = "exec" THEN "orphan" ELSE "no"]
  /\ UNCHANGED <<db, provider, crashes, mishap>>

TaskCleanupUnlessCancelled(p, e) ==
  /\ task[e] = "exec"
  /\ On(e, {"usage_start"}) = {}
  /\ Start(p, Call("usage_stop", e, "background"))
  /\ task' = [task EXCEPT ![e] = "orphan"]
  /\ UNCHANGED <<db, provider, crashes, mishap>>

\* the deferred and early-exit cleanupEnv of the executor: background context,
\* after the task's final row write, which may have failed
TaskCleanup(p, e) ==
  /\ task[e] \in {"exec", "ending"}
  /\ On(e, {"usage_start"}) = {}
  /\ Start(p, Call("usage_stop", e, "background"))
  /\ task' = [task EXCEPT ![e] = IF @ = "exec" THEN "orphan" ELSE "no"]
  /\ UNCHANGED <<db, provider, crashes, mishap>>

\* the task's row leaves 'running': completed, failed or cancelled
TaskRowEnds(e) ==
  /\ task[e] \in {"exec", "orphan"}
  /\ task' = [task EXCEPT ![e] = IF @ = "exec" THEN "ending" ELSE "no"]
  /\ UNCHANGED <<db, provider, proc, crashes, mishap>>

\* merged or deleted branch: DestroyEnvironment alone, no TrackUsageStop
BranchCleanup(p, e) ==
  /\ status[e] \in {"running", "sleeping"}
  /\ Start(p, Call("d_read", e, "request"))
  /\ UNCHANGED <<db, provider, task, crashes, mishap>>

TrackUsageStop(p) ==
  LET e == proc[p].env IN
  /\ At(p, "usage_stop")
  /\ usage' = [usage EXCEPT ![e] = IF @ = "open" THEN "closed" ELSE @]
  /\ Goto(p, "d_read")
  /\ Befalls(e, When(On(e, {"usage_start"}) # {}, "unstopped"))
  /\ UNCHANGED <<status, cluster, provider, task, crashes>>

-----------------------------------------------------------------------------
(* EnvService.DestroyEnvironment. *)

DestroyRefused(p) ==
  /\ At(p, "d_read")
  /\ status[proc[p].env] \in {"destroying", "destroyed"}
  /\ Return(p)
  /\ UNCHANGED <<db, provider, task, crashes, mishap>>

DestroyRead(p) ==
  LET e == proc[p].env IN
  /\ At(p, "d_read")
  /\ status[e] \notin {"destroying", "destroyed"}
  /\ Holding(p, "d_mark", cluster[e])
  /\ Befalls(e, When(On(e, Boots) # {}, "raced"))
  /\ UNCHANGED <<db, provider, task, crashes>>

\* mutant of DestroyMark: the server is never deleted
DestroyMarkOnly(p) ==
  /\ At(p, "d_mark")
  /\ WriteRow(proc[p].env, "destroying", proc[p].row)
  /\ Goto(p, "d_done")
  /\ UNCHANGED <<usage, provider, task, crashes, mishap>>

DestroyMark(p) ==
  /\ At(p, "d_mark")
  /\ WriteRow(proc[p].env, "destroying", proc[p].row)
  /\ Goto(p, IF proc[p].row = NoServer THEN "d_done" ELSE "d_cloud")
  /\ UNCHANGED <<usage, provider, task, crashes, mishap>>

DeleteOk(s) ==
  /\ cloud[s] = "up" \/ (cloud[s] = "gone" /\ "ok" \in GoneOutcomes)
  /\ cloud' = [cloud EXCEPT ![s] = "gone"]
  /\ UNCHANGED madeFor

DeleteErr(s) ==
  /\ (cloud[s] = "up" /\ CloudMayFail) \/ (cloud[s] = "gone" /\ "err" \in GoneOutcomes)
  /\ UNCHANGED provider

DestroyCloudOk(p) ==
  /\ At(p, "d_cloud")
  /\ DeleteOk(proc[p].row)
  /\ Goto(p, "d_done")
  /\ UNCHANGED <<db, task, crashes, mishap>>

\* the error is returned, and the row stays at "destroying"
DestroyCloudErr(p) ==
  /\ At(p, "d_cloud")
  /\ DeleteErr(proc[p].row)
  /\ Return(p)
  /\ Befalls(proc[p].env, When(cloud[proc[p].row] = "up", "lost"))
  /\ UNCHANGED <<db, task, crashes>>

DestroyDone(p) ==
  /\ At(p, "d_done")
  /\ WriteRow(proc[p].env, "destroyed", proc[p].row)
  /\ Return(p)
  /\ UNCHANGED <<usage, provider, task, crashes, mishap>>

-----------------------------------------------------------------------------
(* The idle monitor and EnvService.SleepEnvironment.  The monitor is one   *)
(* goroutine, so at most one sleep is in flight.  How long an environment  *)
(* has been idle is left open.                                             *)

IdleSleep(p, e) ==
  /\ status[e] = "running"
  /\ e \in TaskEnvs => task[e] \notin {"exec", "orphan"}
  /\ \A x \in Envs : On(x, SleepPcs) = {}
  /\ Start(p, Call("s_read", e, "request"))
  /\ UNCHANGED <<db, provider, task, crashes, mishap>>

SleepRead(p) ==
  LET e == proc[p].env IN
  /\ At(p, "s_read")
  /\ status[e] = "running"
  /\ Holding(p, IF cluster[e] = NoServer THEN "s_write" ELSE "s_cloud", cluster[e])
  /\ Befalls(e, When(On(e, Boots) # {}, "raced"))
  /\ UNCHANGED <<db, provider, task, crashes>>

SleepRefused(p) ==
  /\ At(p, "s_read")
  /\ status[proc[p].env] # "running"
  /\ Return(p)
  /\ UNCHANGED <<db, provider, task, crashes, mishap>>

SleepCloudOk(p) ==
  /\ At(p, "s_cloud")
  /\ DeleteOk(proc[p].row)
  /\ Goto(p, "s_write")
  /\ UNCHANGED <<db, task, crashes, mishap>>

\* the error is logged, and the environment goes to sleep all the same
SleepCloudErr(p) ==
  /\ At(p, "s_cloud")
  /\ DeleteErr(proc[p].row)
  /\ Goto(p, "s_write")
  /\ Befalls(proc[p].env, When(cloud[proc[p].row] = "up", "lost"))
  /\ UNCHANGED <<db, task, crashes>>

\* mutant of SleepWrite: the status in the copy is not changed
SleepWriteRunning(p) ==
  /\ At(p, "s_write")
  /\ WriteRow(proc[p].env, "running", proc[p].row)
  /\ Return(p)
  /\ UNCHANGED <<usage, provider, task, crashes, mishap>>

SleepWrite(p) ==
  /\ At(p, "s_write")
  /\ WriteRow(proc[p].env, "sleeping", proc[p].row)
  /\ Return(p)
  /\ UNCHANGED <<usage, provider, task, crashes, mishap>>

-----------------------------------------------------------------------------
(* EnvService.WakeEnvironment: the caller that has marked the row goes on  *)
(* as the boot goroutine.                                                  *)

\* mutant of WakeEnvironment: a running environment is woken too
WakeAnyEnvironment(p, e) ==
  /\ WakeUsed
  /\ status[e] \in {"sleeping", "running"}
  /\ Start(p, [Call("w_mark", e, "request") EXCEPT !.row = cluster[e]])
  /\ Befalls(e, When(On(e, Boots) # {}, "raced"))
  /\ UNCHANGED <<db, provider, task, crashes>>

WakeEnvironment(p, e) ==
  /\ WakeUsed
  /\ status[e] = "sleeping"
  /\ Start(p, [Call("w_mark", e, "request") EXCEPT !.row = cluster[e]])
  /\ Befalls(e, When(On(e, Boots) # {}, "raced"))
  /\ UNCHANGED <<db, provider, task, crashes>>

WakeMark(p) ==
  LET e == proc[p].env IN
  /\ At(p, "w_mark")
  /\ WriteRow(e, "creating", proc[p].row)
  /\ proc' = [proc EXCEPT ![p] = Call("wakeboot", e, "background")]
  /\ Befalls(e, When(On(e, HoldsRow) # {p}, "raced"))
  /\ UNCHANGED <<usage, provider, task, crashes>>

-----------------------------------------------------------------------------
(* What ends a call early. *)

\* A cancelled context fails every later database and cloud call of its
\* goroutine: whatever it had still to do is not done.
CtxDies(p) ==
  LET e == proc[p].env IN
  /\ CtxMayDie
  /\ proc[p].pc # "idle" /\ proc[p].ctx = "request"
  /\ Return(p)
  /\ Befalls(e, When(proc[p].pc \in {"d_cloud", "d_done", "s_write"}, "cut"))
  /\ UNCHANGED <<db, provider, task, crashes>>

\* somebody in memory who will stop the usage of a task environment
ExecutorOf(e) ==
  e \in TaskEnvs /\ (task[e] \in {"exec", "ending"} \/ On(e, {"usage_stop"}) # {})

\* The API server restarts: every goroutine is gone, nothing is recovered.
Crash ==
  /\ crashes < MaxCrashes
  /\ crashes' = crashes + 1
  /\ proc' = [p \in Procs |-> IdleProc]
  /\ task' = [e \in TaskEnvs |-> IF task[e] = "exec" THEN "orphan"
                                 ELSE IF task[e] = "ending" THEN "no" ELSE task[e]]
  /\ mishap' = [e \in Envs |-> mishap[e]
       \cup When(On(e, Boots) # {}, "bootlost")
       \cup When(On(e, {"d_cloud", "d_done", "s_write"}) # {}, "cut")
       \cup When(ExecutorOf(e), "unstopped")]
  /\ UNCHANGED <<db, provider>>

-----------------------------------------------------------------------------
Boot(p) == BootFail(p) \/ BootReport(p) \/ \E s \in Servers : BootCloud(p, s)

Destroy(p) ==
  \/ TrackUsageStop(p) \/ DestroyRefused(p) \/ DestroyRead(p) \/ DestroyMark(p)
  \/ DestroyCloudOk(p) \/ DestroyCloudErr(p) \/ DestroyDone(p)

Sleep(p) ==
  \/ SleepRead(p) \/ SleepRefused(p) \/ SleepCloudOk(p) \/ SleepCloudErr(p)
  \/ SleepWrite(p)

\* the next step of a call or goroutine that has begun
Step(p) == TrackUsageStart(p) \/ Boot(p) \/ Destroy(p) \/ Sleep(p) \/ WakeMark(p)

Begin(p) ==
  \/ \E e \in Envs, q \in Procs : CreateEnvironment(p, q, e)
  \/ \E e \in Envs : ApiDestroy(p, e) \/ WakeEnvironment(p, e)
  \/ \E e \in RepoEnvs : BranchCleanup(p, e) \/ IdleSleep(p, e)
  \/ \E e \in TaskEnvs : TaskCleanup(p, e)

Next ==
  \/ \E p \in Procs : Step(p) \/ Begin(p) \/ CtxDies(p)
  \/ \E e \in TaskEnvs : TaskRowEnds(e)
  \/ Crash

Spec == Init /\ [][Next]_vars

(***************************************************************************)
(* The Go scheduler runs every started goroutine, every cloud and database *)
(* call has a timeout, and an executor gets to its cleanup because its     *)
(* task has a 60 minute context.  Nothing else is fair: nobody has to      *)
(* create, destroy, sleep or wake an environment.                          *)
(***************************************************************************)
Fairness ==
  /\ \A p \in Procs : WF_vars(Step(p))
  /\ \A e \in TaskEnvs : SF_vars(\E p \in Procs : TaskCleanup(p, e))

FairSpec == Spec /\ Fairness

-----------------------------------------------------------------------------
(* Correctness. *)

UpFor(e) == {s \in Servers : cloud[s] = "up" /\ madeFor[s] = e}

\* the accidents after which a server of e may be up and unaccounted for
Leaky == {"raced", "bootlost", "lost"}
Clean(e) == mishap[e] \cap Leaky = {}

\* Every server that is up is named by its environment's row, or the boot
\* goroutine that made it has still to report it: the full-row writes of
\* Destroy, Sleep and Wake never lose the name of a server, however they
\* interleave, unless a boot ran beside them.
NoOrphanServer ==
  \A e \in Envs : Clean(e) =>
    \A s \in UpFor(e) : cluster[e] = s \/ \E p \in On(e, {"report"}) : proc[p].row = s

\* A destroyed environment has no server left at the provider, whichever
\* destroys and sleeps ran at the same time.
DestroyedMeansGone ==
  \A e \in Envs : Clean(e) /\ status[e] = "destroyed" => UpFor(e) = {}

\* An environment never has two servers up at once: sleeping and waking
\* replace the server, they never add one.
OneServerPerEnv ==
  \A e \in Envs : Clean(e) => \A s, t \in UpFor(e) : s = t

\* Once no call is at work on it, a row that says 'running' names a server
\* that is up: nobody deletes a server and leaves 'running' behind.
RunningIsUp ==
  \A e \in Envs :
    status[e] = "running" /\ On(e, HoldsRow) = {} /\ "cut" \notin mishap[e] =>
      cluster[e] \in UpFor(e)

\* The usage of a destroyed environment is stopped, or the executor that
\* will stop it is still there (cleanupBranchResources does not stop it).
DestroyedNotBilled ==
  \A e \in Envs :
    status[e] = "destroyed" /\ usage[e] = "open" /\ "unstopped" \notin mishap[e] =>
      ExecutorOf(e)

\* Every boot ends: a row does not stay at 'creating' unless the API server
\* went down under the boot goroutine.
CreatingResolves ==
  \A e \in Envs :
    status[e] = "creating" ~> status[e] # "creating" \/ "bootlost" \in mishap[e]

\* The server of a task is deleted in the end, whoever else destroys the
\* environment meanwhile, if no accident befell it and no restart of the API
\* server made it forget the cleanup.
TaskServerTornDown ==
  \A e \in TaskEnvs :
    task[e] = "exec" /\ UpFor(e) # {} ~>
      UpFor(e) = {} \/ mishap[e] # {} \/ crashes > 0

\* The usage of a task environment is stopped in the end, even when a branch
\* cleanup destroys it under the executor.
TaskUsageStops ==
  \A e \in TaskEnvs :
    usage[e] = "open" ~> usage[e] # "open" \/ "unstopped" \in mishap[e]

-----------------------------------------------------------------------------
(* What the documentation says, and the code does not do. *)

\* TECHNICAL_DOC.md:509, destroyed is the final state.
DestroyedIsFinal ==
  [][\A e \in Envs : status[e] = "destroyed" => status'[e] = "destroyed"]_vars

\* TECHNICAL_DOC.md:507, a sleeping environment can be destroyed: a destroy
\* that nothing cuts short gets the row out of 'destroying'.
DestroyCompletes ==
  \A e \in Envs : status[e] = "destroying" ~> status[e] = "destroyed"
=============================================================================
