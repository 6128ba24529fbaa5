--------------------------- MODULE TaskLifecycle ----------------------------
(***************************************************************************)
(* Agent tasks: their rows in agent_tasks and the executor's activeTasks   *)
(* map, under the goroutines that launch, run, cancel, retry and end them: *)
(* TaskService (internal/services/task_service.go), the entry and exit of  *)
(* TaskExecutorService.ExecuteTaskWithOptions                              *)
(* (internal/services/task_executor.go) and the handlers of                *)
(* internal/api/server.go that call both.                                  *)
(* A step is one database statement or one critical section of the         *)
(* executor's mutex.  What an executor does between registering and ending *)
(* (environment, clone, Claude, push) has no effect on these rows; its     *)
(* environment is the subject of EnvLifecycle.                             *)
(***************************************************************************)
EXTENDS Naturals, FiniteSets

CONSTANTS
  Tasks,          \* rows that may be created
  Parent,         \* [Tasks -> Tasks \cup {NoTask}]: parent_task_id
  Procs,          \* goroutines: handlers, launchers, executor runs
  NoTask, NoProc,
  MaxConcurrent,  \* maxConcurrent, 5 in the code
  MaxRetries,     \* bound: retries of a task that are explored
  MaxCrashes,     \* bound: restarts of the API server
  CtxMayDie,      \* a run may exceed its 60 minutes, a client may hang up
  ApiEnds,        \* POST /tasks/{id}/complete and /fail are used
  ConfigMayGo     \* the Claude configuration may be removed

ASSUME TaskAssumption ==
  /\ NoTask \notin Tasks /\ NoProc \notin Procs
  /\ Parent \in [Tasks -> Tasks \cup {NoTask}]
  /\ IsFiniteSet(Tasks) /\ \A t \in Tasks : Parent[t] # t
  /\ MaxConcurrent \in Nat /\ MaxRetries \in Nat /\ MaxCrashes \in Nat
  /\ CtxMayDie \in BOOLEAN /\ ApiEnds \in BOOLEAN /\ ConfigMayGo \in BOOLEAN

VARIABLES
  status,   \* agent_tasks.status, "none" before and "deleted" after the row
  retries,  \* agent_tasks.retry_count
  active,   \* activeTasks: the run whose cancel function is registered, or NoProc
  proc,     \* what each goroutine does: [pc, task, ctx, fatal, verdict]
  crashes,
  adrift,   \* history: why the row of each task has lost its last run, or "no"
  untold    \* history: the tasks whose children may have ended with nobody left
            \* to tell them

vars == <<status, retries, active, proc, crashes, adrift, untold>>
history == <<adrift, untold>>

Ended == {"complete", "failed", "cancelled"}
HasRow(t) == status[t] \notin {"none", "deleted"}

(***************************************************************************)
(* A launch is at "classify" (the classifier's answer is awaited), "start" *)
(* (StartTaskExecution has read the row) and "spawned" (go                 *)
(* ExecuteTaskWithOptions); a run is at "work" once registered.  "count"   *)
(* and "parent" are the two statements of checkAndCompleteParent, "finish" *)
(* is the clean-up of a run.  fatal: a launch error ends in FailTask.      *)
(* ctx: a run has a context of its own, which is live or dead; a call with *)
(* the context of a request is given up when the client hangs up.          *)
(***************************************************************************)
Pcs == {"idle", "classify", "start", "launch_fail", "spawned", "work", "count",
        "parent", "finish", "cancel", "retry"}
Goroutine == [pc : Pcs, task : Tasks \cup {NoTask}, ctx : {"none", "request", "live", "dead"},
              fatal : BOOLEAN, verdict : {"none", "complete", "failed"}]

TypeOK ==
  /\ status \in [Tasks -> {"none", "pending", "running", "deleted"} \cup Ended]
  /\ retries \in [Tasks -> Nat]
  /\ active \in [Tasks -> Procs \cup {NoProc}]
  /\ proc \in [Procs -> Goroutine]
  /\ crashes \in 0..MaxCrashes
  /\ adrift \in [Tasks -> {"no", "throttled", "killed", "crashed"}]
  /\ untold \subseteq Tasks

Frame(pc, t, ctx, fatal, verdict) ==
  [pc |-> pc, task |-> t, ctx |-> ctx, fatal |-> fatal, verdict |-> verdict]
Call(pc, t, fatal) == Frame(pc, t, "none", fatal, "none")
IdleProc == Call("idle", NoTask, FALSE)

Init ==
  /\ status = [t \in Tasks |-> "none"]
  /\ retries = [t \in Tasks |-> 0]
  /\ active = [t \in Tasks |-> NoProc]
  /\ proc = [p \in Procs |-> IdleProc]
  /\ crashes = 0
  /\ adrift = [t \in Tasks |-> "no"]
  /\ untold = {}

-----------------------------------------------------------------------------
At(p, pc) == proc[p].pc = pc
Become(p, c) == proc' = [proc EXCEPT ![p] = c]
Start(p, c) == At(p, "idle") /\ Become(p, c)
Goto(p, pc) == proc' = [proc EXCEPT ![p].pc = pc]
Return(p) == Become(p, IdleProc)

\* who will end a row at 'running': an executor about to register, or a run
\* whose context is alive
Drives(p, t) ==
  /\ proc[p].task = t
  /\ At(p, "spawned") \/ (At(p, "work") /\ proc[p].ctx = "live")

\* UPDATE agent_tasks SET status = st WHERE id = t, whatever the status was
SetStatus(t, st) ==
  /\ status' = [status EXCEPT ![t] = IF HasRow(t) THEN st ELSE @]
  /\ adrift' = [adrift EXCEPT ![t] = "no"]

\* p no longer drives the row of t; does anybody else?
Adrift(p, t, why) ==
  adrift' = [adrift EXCEPT ![t] =
    IF status[t] = "running" /\ \A q \in Procs \ {p} : ~Drives(q, t) THEN why ELSE @]

\* nobody will tell the parent of t that t has ended; somebody will
Untold(t) == untold' = untold \cup {x \in Tasks : x = Parent[t]}
Told(t) == untold' = untold \ {Parent[t]}

Children(t) == {c \in Tasks : Parent[c] = t /\ HasRow(c)}
ChildrenEnded(t) == Children(t) # {} /\ \A c \in Children(t) : status[c] \in Ended

\* CompleteTask and FailTask: the row, and then on to the parent
EndTask(p, t, st, ctx) ==
  /\ SetStatus(t, st)
  /\ Become(p, Frame("count", t, ctx, FALSE, "none"))
  /\ Told(t)

-----------------------------------------------------------------------------
(* Creation and launch. *)

\* POST /tasks, with auto_start or from Linear when it goes on to a launch;
\* parent_task_id references a row
CreateTask(p, t) ==
  /\ status[t] = "none"
  /\ Parent[t] # NoTask => HasRow(Parent[t])
  /\ status' = [status EXCEPT ![t] = "pending"]
  /\ \/ UNCHANGED proc
     \/ Start(p, Call("classify", t, TRUE))
  /\ UNCHANGED <<retries, active, crashes, history>>

\* POST /tasks/{id}/start
HandleStart(p, t) ==
  /\ HasRow(t)
  /\ Start(p, Call("classify", t, FALSE))
  /\ UNCHANGED <<status, retries, active, crashes, history>>

\* StartTaskExecution reads the row after up to 30 s of classification
StartRead(p) ==
  /\ At(p, "classify")
  /\ status[proc[p].task] = "pending"
  /\ Goto(p, "start")
  /\ UNCHANGED <<status, retries, active, crashes, history>>

StartRefused(p) ==
  /\ At(p, "classify")
  /\ status[proc[p].task] # "pending"
  /\ IF proc[p].fatal THEN Goto(p, "launch_fail") ELSE Return(p)
  /\ UNCHANGED <<status, retries, active, crashes, history>>

\* FailTask for the launch error, whoever runs the task by now
LaunchFail(p) ==
  LET t == proc[p].task IN
  /\ At(p, "launch_fail")
  /\ EndTask(p, t, "failed", "none")
  /\ UNCHANGED <<retries, active, crashes>>

\* the write does not look at the status again; the executor is spawned
StartWrite(p) ==
  /\ At(p, "start")
  /\ SetStatus(proc[p].task, "running")
  /\ Become(p, Call("spawned", proc[p].task, FALSE))
  /\ untold' = untold \cup {x \in {proc[p].task} : ChildrenEnded(x)}
  /\ UNCHANGED <<retries, active, crashes>>

\* without a Claude configuration the row is failed, the parent is not told,
\* and the error is nil: the executor is spawned all the same
StartUnconfigured(p) ==
  /\ ConfigMayGo
  /\ At(p, "start")
  /\ SetStatus(proc[p].task, "failed")
  /\ Become(p, Call("spawned", proc[p].task, FALSE))
  /\ Untold(proc[p].task)
  /\ UNCHANGED <<retries, active, crashes>>

-----------------------------------------------------------------------------
(* The run: ExecuteTaskWithOptions. *)

Registered == {t \in Tasks : active[t] # NoProc}

\* mutant of Register: one run too many
RegisterOneMore(p) ==
  LET t == proc[p].task IN
  /\ At(p, "spawned")
  /\ Cardinality(Registered) <= MaxConcurrent
  /\ active' = [active EXCEPT ![t] = p]
  /\ Become(p, Frame("work", t, "live", FALSE, "none"))
  /\ UNCHANGED <<status, retries, crashes, history>>

\* the cancel function replaces one that is registered for the same task
Register(p) ==
  LET t == proc[p].task IN
  /\ At(p, "spawned")
  /\ Cardinality(Registered) < MaxConcurrent
  /\ active' = [active EXCEPT ![t] = p]
  /\ Become(p, Frame("work", t, "live", FALSE, "none"))
  /\ UNCHANGED <<status, retries, crashes, history>>

\* a log entry and nothing else
Throttled(p) ==
  /\ At(p, "spawned")
  /\ Cardinality(Registered) >= MaxConcurrent
  /\ Adrift(p, proc[p].task, "throttled")
  /\ Return(p)
  /\ UNCHANGED <<status, retries, active, crashes, untold>>

\* mutant of RunEnds: an error path that forgets FailTask
RunEndsSilently(p) ==
  /\ At(p, "work") /\ proc[p].ctx = "live"
  /\ Become(p, Call("finish", proc[p].task, FALSE))
  /\ UNCHANGED <<status, retries, active, crashes, history>>

\* CompleteTask or FailTask with the run's own context, whatever the status
RunEnds(p) ==
  /\ At(p, "work") /\ proc[p].ctx = "live"
  /\ \E st \in {"complete", "failed"} : EndTask(p, proc[p].task, st, "live")
  /\ UNCHANGED <<retries, active, crashes>>

\* a run whose context is dead ends without a write; so does one whose row
\* was deleted before it read it
RunGivesUp(p) ==
  /\ At(p, "work")
  /\ proc[p].ctx = "dead" \/ ~HasRow(proc[p].task)
  /\ Become(p, Call("finish", proc[p].task, FALSE))
  /\ UNCHANGED <<status, retries, active, crashes, history>>

\* mutant of RunReturns: the entry is not deleted
RunReturnsRegistered(p) ==
  /\ At(p, "finish")
  /\ Return(p)
  /\ UNCHANGED <<status, retries, active, crashes, history>>

\* the deferred delete is by task, not by run
RunReturns(p) ==
  /\ At(p, "finish")
  /\ active' = [active EXCEPT ![proc[p].task] = NoProc]
  /\ Return(p)
  /\ UNCHANGED <<status, retries, crashes, history>>

\* the context of run p is cancelled: it writes nothing any more
Kill(p) ==
  LET t == proc[p].task IN
  /\ IF At(p, "work") THEN Adrift(p, t, "killed") ELSE UNCHANGED adrift
  /\ IF proc[p].pc \in {"count", "parent"} THEN Untold(t) ELSE UNCHANGED untold

Timeout(p) ==
  /\ CtxMayDie
  /\ proc[p].ctx = "live"
  /\ proc' = [proc EXCEPT ![p].ctx = "dead"]
  /\ Kill(p)
  /\ UNCHANGED <<status, retries, active, crashes>>

-----------------------------------------------------------------------------
(* checkAndCompleteParent: the siblings are counted in one statement, the  *)
(* parent is ended in another; the parent's own parent is not told.        *)

\* a run goes on to its deferred clean-up, which cancels its context first
AfterParent(p) ==
  Become(p, IF proc[p].ctx \in {"none", "request"} THEN IdleProc ELSE Call("finish", proc[p].task, FALSE))

\* mutant of CountSiblings: a cancelled sibling is not counted as ended
CountSiblingsUncancelled(p) ==
  LET parent == Parent[proc[p].task] IN
  /\ At(p, "count")
  /\ IF /\ proc[p].ctx # "dead" /\ HasRow(proc[p].task) /\ parent # NoTask
        /\ \A c \in Children(parent) : status[c] \in {"complete", "failed"}
     THEN Become(p, Frame("parent", proc[p].task, proc[p].ctx, FALSE, "complete"))
     ELSE AfterParent(p)
  /\ UNCHANGED <<status, retries, active, crashes, history>>

CountSiblings(p) ==
  LET parent == Parent[proc[p].task] IN
  /\ At(p, "count")
  /\ IF /\ proc[p].ctx # "dead" /\ HasRow(proc[p].task) /\ parent # NoTask
        /\ ChildrenEnded(parent)
     THEN Become(p, Frame("parent", proc[p].task, proc[p].ctx, FALSE,
                          IF \E c \in Children(parent) : status[c] = "failed"
                          THEN "failed" ELSE "complete"))
     ELSE AfterParent(p)
  /\ UNCHANGED <<status, retries, active, crashes, history>>

EndParent(p) ==
  LET parent == Parent[proc[p].task] IN
  /\ At(p, "parent")
  /\ IF status[parent] = "running" /\ proc[p].ctx # "dead"
     THEN SetStatus(parent, proc[p].verdict) /\ Untold(parent)
     ELSE UNCHANGED <<status, history>>
  /\ AfterParent(p)
  /\ UNCHANGED <<retries, active, crashes>>

-----------------------------------------------------------------------------
(* Cancelling, retrying, ending and deleting from outside. *)

\* mutant of CancelTask: whatever the status is
CancelAnyTask(p, t) ==
  /\ status[t] # "none"
  /\ Start(p, Call("cancel", t, FALSE))
  /\ SetStatus(t, "cancelled")
  /\ Untold(t)
  /\ UNCHANGED <<retries, active, crashes>>

\* the row first, if it is not ended; the parent is not told
CancelTask(p, t) ==
  /\ status[t] # "none"
  /\ Start(p, Call("cancel", t, FALSE))
  /\ IF status[t] \in {"pending", "running"}
     THEN SetStatus(t, "cancelled") /\ Untold(t)
     ELSE UNCHANGED <<status, history>>
  /\ UNCHANGED <<retries, active, crashes>>

\* then TaskExecutorService.CancelTask: whichever run is registered by now
CancelRun(p) ==
  LET t == proc[p].task  run == active[t] IN
  /\ At(p, "cancel")
  /\ active' = [active EXCEPT ![t] = NoProc]
  /\ proc' = [q \in Procs |-> IF q = p THEN IdleProc
                              ELSE IF q = run /\ proc[q].ctx = "live"
                              THEN [proc[q] EXCEPT !.ctx = "dead"]
                              ELSE proc[q]]
  /\ IF run # NoProc THEN Kill(run) ELSE UNCHANGED history
  /\ UNCHANGED <<status, retries, crashes>>

HandleRetry(p, t) ==
  /\ retries[t] < MaxRetries
  /\ status[t] \in {"failed", "cancelled"}
  /\ Start(p, Frame("retry", t, "request", FALSE, "none"))
  /\ UNCHANGED <<status, retries, active, crashes, history>>

\* mutant of RetryWrite: a status that no query selects
RetryWriteUnknown(p) ==
  LET t == proc[p].task IN
  /\ At(p, "retry")
  /\ SetStatus(t, "retrying")
  /\ retries' = [retries EXCEPT ![t] = IF HasRow(t) THEN @ + 1 ELSE @]
  /\ Become(p, Call("classify", t, FALSE))
  /\ UNCHANGED <<active, crashes, untold>>

\* back to pending whatever the status, and on to a launch; max_retries is
\* not consulted
RetryWrite(p) ==
  LET t == proc[p].task IN
  /\ At(p, "retry")
  /\ SetStatus(t, "pending")
  /\ retries' = [retries EXCEPT ![t] = IF HasRow(t) THEN @ + 1 ELSE @]
  /\ Become(p, Call("classify", t, FALSE))
  /\ UNCHANGED <<active, crashes, untold>>

\* POST /tasks/{id}/complete and /fail, for a task in any state
ApiEnd(p, t) ==
  /\ ApiEnds /\ HasRow(t)
  /\ At(p, "idle")
  /\ \E st \in {"complete", "failed"} : EndTask(p, t, st, "request")
  /\ UNCHANGED <<retries, active, crashes>>

\* the client of a retry, complete or fail hangs up: the statements that are
\* left, under the context of the request, fail
ClientGone(p) ==
  /\ CtxMayDie
  /\ proc[p].ctx = "request"
  /\ IF At(p, "retry") THEN UNCHANGED untold ELSE Untold(proc[p].task)
  /\ Return(p)
  /\ UNCHANGED <<status, retries, active, crashes, adrift>>

\* DELETE /tasks: the runs go on
DeleteAllTasks ==
  /\ \E t \in Tasks : HasRow(t)
  /\ status' = [t \in Tasks |-> IF HasRow(t) THEN "deleted" ELSE status[t]]
  /\ adrift' = [t \in Tasks |-> "no"]
  /\ UNCHANGED <<retries, active, proc, crashes, untold>>

\* the API server restarts; nothing looks at the rows it finds at 'running'
Crash ==
  /\ crashes < MaxCrashes
  /\ crashes' = crashes + 1
  /\ active' = [t \in Tasks |-> NoProc]
  /\ proc' = [p \in Procs |-> IdleProc]
  /\ adrift' = [t \in Tasks |-> IF status[t] = "running" THEN "crashed" ELSE adrift[t]]
  /\ untold' = Tasks
  /\ UNCHANGED <<status, retries>>

-----------------------------------------------------------------------------
\* the next step of a goroutine that has begun
Step(p) ==
  \/ StartRead(p) \/ StartRefused(p) \/ LaunchFail(p) \/ StartWrite(p)
  \/ StartUnconfigured(p) \/ Register(p) \/ Throttled(p) \/ RunEnds(p)
  \/ RunGivesUp(p) \/ RunReturns(p) \/ CountSiblings(p) \/ EndParent(p)
  \/ CancelRun(p) \/ RetryWrite(p)

Request(p) ==
  \E t \in Tasks : CreateTask(p, t) \/ HandleStart(p, t) \/ CancelTask(p, t)
                   \/ HandleRetry(p, t) \/ ApiEnd(p, t)

Next ==
  \/ \E p \in Procs : Step(p) \/ Request(p) \/ Timeout(p) \/ ClientGone(p)
  \/ DeleteAllTasks \/ Crash

Spec == Init /\ [][Next]_vars

\* The scheduler runs every goroutine; the classifier has 30 seconds, and a
\* run ends within the 60 minutes of its context.  Requests need not come.
FairSpec == Spec /\ \A p \in Procs : WF_vars(Step(p))

-----------------------------------------------------------------------------
(* Correctness. *)

\* A slot of the executor is held by a run of that very task: an entry never
\* outlives its goroutine, although others delete and replace it.
SlotsAreRuns ==
  \A t \in Tasks : active[t] # NoProc =>
    /\ proc[active[t]].task = t
    /\ proc[active[t]].pc \in {"work", "count", "parent", "finish"}

\* The throttle: never more entries than maxConcurrent.
SlotsBounded == Cardinality(Registered) <= MaxConcurrent

\* A row at 'running' has a run with a live context that will end it, or an
\* executor about to register; it loses the last of them only to the throttle,
\* to the context of a run and to a restart, whatever launches, cancellations,
\* retries and late ends do beside each other.
RunningIsDriven ==
  \A t \in Tasks : status[t] = "running" /\ adrift[t] = "no" =>
    \E p \in Procs : Drives(p, t)

\* The last child to end tells the parent: when all children of a running task
\* have ended, one of the goroutines that ended them is on its way to end the
\* parent too, in whatever order siblings ended and counted each other.  Not so
\* when the last was cancelled, found no configuration or was ended by children
\* of its own, when the context died or the server restarted on the way, or when
\* the parent started after them.
ParentIsTold ==
  \A t \in Tasks :
    status[t] = "running" /\ t \notin untold /\ ChildrenEnded(t)
    => \E p \in Procs : /\ proc[p].pc \in {"count", "parent"}
                        /\ proc[p].ctx # "dead"
                        /\ Parent[proc[p].task] = t

\* A row that has ended is moved only by a deletion, by a goroutine that works on
\* that very task, or by the API: never by a cancellation that comes too late,
\* and never by the end of its children.
EndedIsKept ==
  [][\A t \in Tasks : status[t] \in Ended /\ status'[t] # status[t] =>
       \/ status'[t] = "deleted"
       \/ \E p \in Procs :
            \/ ApiEnd(p, t)
            \/ /\ proc[p].task = t /\ proc'[p] # proc[p]
               /\ proc[p].pc \in {"retry", "start", "launch_fail", "work"}]_vars

\* Every driven task ends: it leaves 'running', or has lost its run.
TasksEnd ==
  \A t \in Tasks : status[t] = "running" ~> status[t] # "running" \/ adrift[t] # "no"

\* Every slot is given back in the end.
SlotsFreed ==
  \A t \in Tasks : \A p \in Procs : active[t] = p ~> active[t] # p

-----------------------------------------------------------------------------
(* What the documentation says, and the code does not do. *)

\* OBSERVABILITY_REFERENCE.md:801, a throttled task fails immediately: it does not
\* stay at 'running' for ever.
ThrottledFails ==
  \A t \in Tasks : adrift[t] = "throttled" ~> status[t] # "running"

\* TECHNICAL_DOC.md:431, a task is executed when fewer than maxConcurrent are.
ConcurrencyLimit ==
  Cardinality({p \in Procs : At(p, "work") /\ proc[p].ctx = "live"}) <= MaxConcurrent
=============================================================================
