------------------------------ MODULE TaskRun -------------------------------
(***************************************************************************)
(* One task from its launch to its clean-up: the pipeline of               *)
(* TaskExecutorService.ExecuteTaskWithOptions                              *)
(* (internal/services/task_executor.go), step by step, for the successive  *)
(* or overlapping runs of one task.  Every run has an environment and a    *)
(* clone of its own; they share the row, the branch task/<id> on GitHub    *)
(* and its pull request.                                                   *)
(* TaskLifecycle has the row, the slots and the launches of many tasks;    *)
(* this module opens up what happens between registering and ending there. *)
(* All database calls, GitHub calls and new remote commands of a run use   *)
(* its context: once that is dead (a cancellation, the 60 minutes) they    *)
(* fail, and the code ignores or logs most of those failures.  A remote    *)
(* command in flight goes on: sshExec does not look at the context, and an *)
(* SSM command runs on whoever polls it.                                   *)
(***************************************************************************)
EXTENDS Naturals, FiniteSets

CONSTANTS TaskRuns, NoRun

ASSUME RunAssumption == NoRun \notin TaskRuns

VARIABLES
  setup,     \* [clones, ofDefault, opensPR]: a repository is connected, the
             \* task's base branch is its default branch, AutoCreatePR
  row,       \* agent_tasks: [status, sha, pr]; sha is the run whose HEAD
             \* commit_sha names
  remote,    \* whose commits the task branch on GitHub has, or NoRun
  pull,      \* an open pull request for that branch
  run,       \* [TaskRuns -> [pc, ctx, ahead, pushed, url]]
  made,      \* what Claude left in each clone: "commits", "edits"
  committed, \* what of it is committed there
  published, \* history: what of it has reached GitHub
  session,   \* agent_sessions.status, "none" before the row
  bundles,   \* the steps of the session's change bundles
  env        \* each run's environment

runVars == <<setup, row, remote, pull, run, made, committed, published, session,
             bundles, env>>

Works == {"commits", "edits"}
\* in the order of the code; "fail..." are the steps of failExecution
RunPcs == {"idle", "gate", "create", "prepare", "session", "prompt", "start_claude",
           "claude", "inspect", "fallback", "push", "pushing", "pr", "save", "tell",
           "close", "failing", "fail_close", "fail_row", "cleanup", "done"}
Blank == [status |-> "pending", sha |-> NoRun, pr |-> FALSE]
IdleRun == [pc |-> "idle", ctx |-> "live", ahead |-> FALSE, pushed |-> FALSE, url |-> FALSE]

RunTypeOK ==
  /\ setup \in [clones : BOOLEAN, ofDefault : BOOLEAN, opensPR : BOOLEAN]
  /\ row \in [status : {"pending", "running", "complete", "failed", "cancelled"},
              sha : TaskRuns \cup {NoRun}, pr : BOOLEAN]
  /\ remote \in TaskRuns \cup {NoRun} /\ pull \in BOOLEAN
  /\ run \in [TaskRuns -> [pc : RunPcs, ctx : {"live", "dead"}, ahead : BOOLEAN,
                       pushed : BOOLEAN, url : BOOLEAN]]
  /\ \A f \in {made, committed, published} : f \in [TaskRuns -> SUBSET Works]
  /\ session \in [TaskRuns -> {"none", "active", "completed", "failed"}]
  /\ bundles \in [TaskRuns -> SUBSET {"prompt_built", "claude_failed", "claude_done",
       "auto_commit_created", "auto_commit_failed", "push_completed", "push_failed",
       "pr_created", "pr_failed", "task_completed", "task_failed"}]
  /\ env \in [TaskRuns -> {"none", "up", "gone"}]

RunInit ==
  /\ setup \in [clones : BOOLEAN, ofDefault : BOOLEAN, opensPR : BOOLEAN]
  /\ setup.clones \/ (setup.ofDefault /\ ~setup.opensPR)
  /\ row = Blank /\ remote = NoRun /\ pull = FALSE
  /\ run = [r \in TaskRuns |-> IdleRun]
  /\ made = [r \in TaskRuns |-> {}] /\ committed = made /\ published = made
  /\ session = [r \in TaskRuns |-> "none"]
  /\ bundles = [r \in TaskRuns |-> {}]
  /\ env = [r \in TaskRuns |-> "none"]

-----------------------------------------------------------------------------
RunAt(r, pc) == run[r].pc = pc
Alive(r) == run[r].ctx = "live"
RunTo(r, pc) == run' = [run EXCEPT ![r].pc = pc]

\* recordBundle: nothing without a session, and nothing once the context is dead
Records(r, step) ==
  bundles' = [bundles EXCEPT ![r] = IF Alive(r) /\ session[r] # "none" THEN @ \cup {step} ELSE @]
CloseSession(r, st) ==
  session' = [session EXCEPT ![r] = IF Alive(r) /\ @ # "none" THEN st ELSE @]

git == <<remote, pull, made, committed, published>>
books == <<session, bundles>>

-----------------------------------------------------------------------------
(* Around the run: launches, cancellations, and the death of a context.      *)

\* a launch of the pending row, a retry of an ended one, or the second of two
\* launches that have both read the row before either wrote it
Launch(r) ==
  /\ RunAt(r, "idle")
  /\ \/ row.status \in {"pending", "failed", "cancelled"}
     \/ row.status = "running" /\ \E q \in TaskRuns : RunAt(q, "gate")
  /\ row' = [Blank EXCEPT !.status = "running"]
  /\ RunTo(r, "gate")
  /\ UNCHANGED <<setup, git, books, env>>

\* POST /tasks/{id}/cancel: the row; which run its executor call hits, if any,
\* is left to ContextDies
CancelRow ==
  /\ row.status = "running"
  /\ row' = [row EXCEPT !.status = "cancelled"]
  /\ UNCHANGED <<setup, git, run, books, env>>

ContextDies(r) ==
  /\ run[r].pc \notin {"idle", "done"} /\ Alive(r)
  /\ run' = [run EXCEPT ![r].ctx = "dead"]
  /\ UNCHANGED <<setup, row, git, books, env>>

-----------------------------------------------------------------------------
(* Step 1: the billing gate, an environment, and waiting for it.             *)

Fails(r) == RunTo(r, "failing")

PassGate(r) ==
  /\ RunAt(r, "gate")
  /\ \/ Alive(r) /\ RunTo(r, "create")
     \/ Fails(r)
  /\ UNCHANGED <<setup, row, git, books, env>>

CreateTaskEnv(r) ==
  /\ RunAt(r, "create")
  /\ \/ Alive(r) /\ RunTo(r, "prepare") /\ env' = [env EXCEPT ![r] = "up"]
     \/ Fails(r) /\ UNCHANGED env
  /\ UNCHANGED <<setup, row, git, books>>

\* the environment, SSM or SSH, cloud-init and the clone, any of which may fail
Prepare(r) ==
  /\ RunAt(r, "prepare")
  /\ \/ Alive(r) /\ RunTo(r, "session")
     \/ Fails(r)
  /\ UNCHANGED <<setup, row, git, books, env>>

\* a run whose session cannot be created goes on without one
StartSession(r) ==
  /\ RunAt(r, "session")
  /\ RunTo(r, "prompt")
  /\ \/ Alive(r) /\ session' = [session EXCEPT ![r] = "active"]
     \/ UNCHANGED session
  /\ UNCHANGED <<setup, row, git, bundles, env>>

\* seeds, guidance, context, the prompt and the files for the agent: their
\* failures are logged
BuildPrompt(r) ==
  /\ RunAt(r, "prompt")
  /\ RunTo(r, "start_claude")
  /\ Records(r, "prompt_built")
  /\ UNCHANGED <<setup, row, git, session, env>>

-----------------------------------------------------------------------------
(* Step 4 and 5: Claude, the fallback commit, the push, the pull request.    *)

\* looking for the CLI, installing it, and the command itself
StartClaude(r) ==
  /\ RunAt(r, "start_claude")
  /\ \/ Alive(r) /\ RunTo(r, "claude")
     \/ Fails(r)
  /\ UNCHANGED <<setup, row, git, books, env>>

\* the command returns, with an error or a fatal message, or without
ClaudeReturns(r) ==
  /\ RunAt(r, "claude")
  /\ \E w \in SUBSET IF setup.clones THEN Works ELSE {} :
       /\ made' = [made EXCEPT ![r] = w]
       /\ committed' = [committed EXCEPT ![r] = w \cap {"commits"}]
  /\ \/ Fails(r) /\ Records(r, "claude_failed")
     \/ /\ RunTo(r, IF setup.clones THEN "inspect" ELSE "save")
        /\ Records(r, "claude_done")
  /\ UNCHANGED <<setup, row, remote, pull, published, session, env>>

\* `git clone --depth=50` takes the default branch only: origin/<base> is unknown
\* for another base, and the error of `git log origin/<base>..HEAD` is dropped
SeesCommits(r) == setup.ofDefault /\ "commits" \in committed[r]
Dirty(r) == made[r] \ committed[r] # {}

InspectGitState(r) ==
  /\ RunAt(r, "inspect")
  /\ \/ /\ Alive(r)
        /\ run' = [run EXCEPT ![r].ahead = SeesCommits(r),
                     ![r].pc = IF SeesCommits(r) THEN "push"
                               ELSE IF Dirty(r) THEN "fallback" ELSE "save"]
     \/ Fails(r)
  /\ UNCHANGED <<setup, row, git, books, env>>

\* git add -A && git commit
FallbackCommit(r) ==
  /\ RunAt(r, "fallback")
  /\ \/ /\ Alive(r)
        /\ committed' = [committed EXCEPT ![r] = made[r]]
        /\ run' = [run EXCEPT ![r].ahead = TRUE, ![r].pc = "push"]
        /\ Records(r, "auto_commit_created")
     \/ Fails(r) /\ Records(r, "auto_commit_failed") /\ UNCHANGED committed
  /\ UNCHANGED <<setup, row, remote, pull, made, published, session, env>>

\* mutant of PushFails: the pull request is tried all the same
PushFailsAnyway(r) == RunTo(r, "pr") /\ Records(r, "push_failed")

PushFails(r) == RunTo(r, "save") /\ Records(r, "push_failed")

StartPush(r) ==
  /\ RunAt(r, "push")
  /\ \/ Alive(r) /\ RunTo(r, "pushing") /\ UNCHANGED bundles
     \/ ~Alive(r) /\ PushFails(r)
  /\ UNCHANGED <<setup, row, git, session, env>>

\* GitHub takes a push to a branch that does not exist; a branch an earlier run
\* has pushed is not an ancestor of this clone, and the push is not forced
Takes(r) == remote = NoRun
LandOnRemote(r) ==
  /\ remote' = r
  /\ published' = [published EXCEPT ![r] = committed[r]]

\* the answer may be lost, or come after the two minutes
PushReturns(r) ==
  /\ RunAt(r, "pushing")
  /\ \/ /\ Takes(r) /\ LandOnRemote(r)
        /\ \/ /\ run' = [run EXCEPT ![r].pushed = TRUE,
                           ![r].pc = IF setup.opensPR THEN "pr" ELSE "save"]
              /\ Records(r, "push_completed")
           \/ PushFails(r)
     \/ PushFails(r) /\ UNCHANGED <<remote, published>>
  /\ UNCHANGED <<setup, row, pull, made, committed, session, env>>

\* GitHub refuses a second pull request for the same branch
CreatePR(r) ==
  /\ RunAt(r, "pr")
  /\ \/ /\ Alive(r) /\ ~pull /\ pull' = TRUE
        /\ run' = [run EXCEPT ![r].url = TRUE, ![r].pc = "save"]
        /\ Records(r, "pr_created")
     \/ \* refused, not reached, or created and the answer lost
        /\ RunTo(r, "save") /\ Records(r, "pr_failed")
        /\ pull' \in {pull, pull \/ Alive(r)}
  /\ UNCHANGED <<setup, row, remote, made, committed, published, session, env>>

-----------------------------------------------------------------------------
(* Step 6: the row, the last bundle and the session, in this order; and      *)
(* failExecution, where the row comes last.  What runMemoryPipeline then does *)
(* is in TrajectoryMemory.                                                   *)

\* SaveContext and SnapshotEnvironment only set flags of the row that
\* CompleteTask writes, whatever its status has become
CompleteRow(r) ==
  /\ RunAt(r, "save")
  /\ RunTo(r, "tell")
  /\ IF Alive(r)
     THEN row' = [status |-> "complete", sha |-> IF setup.clones THEN r ELSE NoRun,
                  pr |-> run[r].url]
     ELSE UNCHANGED row
  /\ UNCHANGED <<setup, git, books, env>>

TellCompleted(r) ==
  /\ RunAt(r, "tell") /\ RunTo(r, "close") /\ Records(r, "task_completed")
  /\ UNCHANGED <<setup, row, git, session, env>>

CloseCompleted(r) ==
  /\ RunAt(r, "close") /\ RunTo(r, "cleanup") /\ CloseSession(r, "completed")
  /\ UNCHANGED <<setup, row, git, bundles, env>>

TellFailed(r) ==
  /\ RunAt(r, "failing") /\ RunTo(r, "fail_close") /\ Records(r, "task_failed")
  /\ UNCHANGED <<setup, row, git, session, env>>

CloseFailed(r) ==
  /\ RunAt(r, "fail_close") /\ RunTo(r, "fail_row") /\ CloseSession(r, "failed")
  /\ UNCHANGED <<setup, row, git, bundles, env>>

FailRow(r) ==
  /\ RunAt(r, "fail_row")
  /\ RunTo(r, IF env[r] = "up" THEN "cleanup" ELSE "done")
  /\ IF Alive(r) THEN row' = [row EXCEPT !.status = "failed"] ELSE UNCHANGED row
  /\ UNCHANGED <<setup, git, books, env>>

\* with a context of its own
CleanupEnv(r) ==
  /\ RunAt(r, "cleanup") /\ RunTo(r, "done")
  /\ env' = [env EXCEPT ![r] = "gone"]
  /\ UNCHANGED <<setup, row, git, books>>

RunStep(r) ==
  \/ Launch(r) \/ ContextDies(r)
  \/ PassGate(r) \/ CreateTaskEnv(r) \/ Prepare(r) \/ StartSession(r) \/ BuildPrompt(r)
  \/ StartClaude(r) \/ ClaudeReturns(r) \/ InspectGitState(r) \/ FallbackCommit(r)
  \/ StartPush(r) \/ PushReturns(r) \/ CreatePR(r)
  \/ CompleteRow(r) \/ TellCompleted(r) \/ CloseCompleted(r)
  \/ TellFailed(r) \/ CloseFailed(r) \/ FailRow(r) \/ CleanupEnv(r)

RunNext == CancelRow \/ \E r \in TaskRuns : RunStep(r)
RunSpec == RunInit /\ [][RunNext]_runVars

-----------------------------------------------------------------------------
(* What Claude made is on GitHub when the row says complete and names the    *)
(* run's commit, or one of three things has happened: the push failed, or    *)
(* its answer did; the base is not the default branch and Claude committed   *)
(* everything itself, which the executor takes for no new commits; or Claude *)
(* left edits beside its commits, which nobody commits.                      *)
CompleteIsPublished ==
  \A r \in TaskRuns : row.status = "complete" /\ row.sha = r =>
    \/ published[r] = made[r]
    \/ run[r].ahead /\ ~run[r].pushed
    \/ ~setup.ofDefault /\ made[r] = {"commits"}
    \/ run[r].pushed /\ made[r] \ published[r] = {"edits"} /\ "commits" \in published[r]

\* the row names a pull request only if one is open and its branch has the very
\* commit the row names
RequestHasTheCommit == row.pr => pull /\ remote = row.sha

\* the status a session is closed with is what its bundles end with and what the
\* run has told the row; and only a run whose context died leaves one open
SessionsTellTheEnd ==
  \A r \in TaskRuns :
    /\ session[r] = "completed" =>
         "task_completed" \in bundles[r] /\ bundles[r] \cap {"task_failed", "claude_failed"} = {}
    /\ session[r] = "failed" =>
         "task_failed" \in bundles[r] /\ bundles[r] \cap {"task_completed", "pr_created"} = {}
    /\ RunAt(r, "done") /\ session[r] = "active" => ~Alive(r)

\* no return leaves the environment up, on whichever of the early returns
RunsCleanUp == \A r \in TaskRuns : RunAt(r, "done") => env[r] # "up"

RunSafe == CompleteIsPublished /\ RequestHasTheCommit /\ SessionsTellTheEnd /\ RunsCleanUp
=============================================================================
