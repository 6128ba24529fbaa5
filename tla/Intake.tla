------------------------------- MODULE Intake -------------------------------
(***************************************************************************)
(* How Linear issues become tasks.  A webhook tells the API server of each *)
(* change of an issue, and a poller asks Linear every 30 seconds for the   *)
(* issues that are labelled and in state Todo (server.go).  Both ask       *)
(* whether there is a task for the issue, create one if not, and launch it *)
(* in a goroutine; tasks report their progress to Linear in goroutines of  *)
(* their own (task_service.go), which again causes webhooks.               *)
(***************************************************************************)
EXTENDS Naturals, Sequences, FiniteSets

CONSTANTS
  Issues,
  Workspaces,     \* organisations, and Linear workspaces: one each
  Home,           \* the workspace of each issue
  Hooks,          \* requests of the webhook that are handled at once
  MaxEdits,       \* bound: changes of issues by people
  MaxTasks,       \* bound: tasks
  MaxMishaps      \* bound: failed calls, repeated deliveries, restarts, disconnections

ASSUME IntakeAssumption ==
  /\ Home \in [Issues -> Workspaces]
  /\ MaxEdits \in Nat /\ MaxTasks \in Nat /\ MaxMishaps \in Nat

VARIABLES
  issue,          \* Linear: [labelled, state] of each issue
  connected,      \* organisations with an active row in linear_connections
  hooked,         \* workspaces in which a webhook was registered
  mail,           \* issues with a webhook on its way
  request,        \* each Hooks: [at, issue, org, base, sure]
  poller,         \* [at, todo, org, found, issue, base, sure]
  tasks,          \* agent_tasks: [issue, org, status, base, sure]
  launching,      \* tasks whose launch goroutine has not ended
  reports,        \* goroutines that report to Linear: [issue, state]
  forgotten,      \* history: tasks whose launch a restart took
  spent           \* [edits, mishaps]

intakeVars == <<issue, connected, hooked, mail, request, poller, tasks, launching,
                reports, forgotten, spent>>
linear == <<issue, connected, hooked>>

Quiet == [at |-> "idle", issue |-> CHOOSE i \in Issues : TRUE,
          org |-> CHOOSE o \in Workspaces : TRUE, base |-> 0, sure |-> TRUE]
Resting == [at |-> "idle", issue |-> Quiet.issue, org |-> Quiet.org, base |-> 0, sure |-> TRUE,
            todo |-> {}, found |-> {}]

IntakeInit ==
  /\ issue = [i \in Issues |-> [labelled |-> FALSE, state |-> "Todo"]]
  /\ connected = {} /\ hooked = {} /\ mail = {}
  /\ request = [h \in Hooks |-> Quiet] /\ poller = Resting
  /\ tasks = <<>> /\ launching = {} /\ reports = {} /\ forgotten = {}
  /\ spent = [edits |-> 0, mishaps |-> 0]

Mishap == spent.mishaps < MaxMishaps /\ spent' = [spent EXCEPT !.mishaps = @ + 1]
Fine == UNCHANGED spent

Eligible(x) == x.labelled /\ x.state = "Todo"

\* Linear changes an issue and tells the workspace's webhook
Change(i, x) ==
  /\ issue' = [issue EXCEPT ![i] = x]
  /\ mail' = IF Home[i] \in hooked THEN mail \cup {i} ELSE mail

-----------------------------------------------------------------------------
(* handleLinearCallback: the connection is saved, then a webhook registered, *)
(* whose failure is only logged.  A disconnection leaves the webhook.        *)
Connect(o) ==
  /\ o \notin connected /\ connected' = connected \cup {o}
  /\ \/ hooked' = hooked \cup {o} /\ Fine
     \/ o \notin hooked /\ hooked' = hooked /\ Mishap
  /\ UNCHANGED <<issue, mail, request, poller, tasks, launching, reports, forgotten>>

Disconnect(o) ==
  /\ o \in connected /\ connected' = connected \ {o} /\ Mishap
  /\ UNCHANGED <<issue, hooked, mail, request, poller, tasks, launching, reports, forgotten>>

Edit(i) ==
  /\ spent.edits < MaxEdits /\ spent' = [spent EXCEPT !.edits = @ + 1]
  /\ \E x \in {[issue[i] EXCEPT !.labelled = ~@], [issue[i] EXCEPT !.state = "Todo"],
               [issue[i] EXCEPT !.state = "Backlog"]} : x # issue[i] /\ Change(i, x)
  /\ UNCHANGED <<connected, hooked, request, poller, tasks, launching, reports, forgotten>>

-----------------------------------------------------------------------------
(* What both do: count the tasks of the issue (an error counts as none), and *)
(* create one.                                                               *)
TasksOf(i, o) == {k \in DOMAIN tasks : tasks[k].issue = i /\ tasks[k].org = o}

\* mutant of Known: failed tasks do not count
KnownUnfailed(i, o) == {k \in TasksOf(i, o) : tasks[k].status # "failed"} # {}
Known(i, o) == TasksOf(i, o) # {}

Insert(w) ==
  /\ Len(tasks) < MaxTasks
  /\ tasks' = Append(tasks, [issue |-> w.issue, org |-> w.org, status |-> "pending",
                             base |-> w.base, sure |-> w.sure])
  /\ launching' = launching \cup {Len(tasks) + 1}

(* handleLinearWebhook.  GetAllConnections does not read the filters, so     *)
(* that ShouldProcessIssue accepts every issue for the first connection of   *)
(* an unordered list.                                                        *)
HookArrives(h, i) ==
  /\ request[h].at = "idle" /\ i \in mail
  /\ \/ mail' = mail \ {i} /\ Fine
     \/ mail' = mail /\ Mishap
  /\ request' = [request EXCEPT ![h] = [Quiet EXCEPT !.at = "match", !.issue = i]]
  /\ UNCHANGED <<linear, poller, tasks, launching, reports, forgotten>>

Match(h) ==
  /\ request[h].at = "match"
  /\ \/ \E o \in connected :
          request' = [request EXCEPT ![h].at = "dedup", ![h].org = o] /\ Fine
     \/ connected = {} /\ request' = [request EXCEPT ![h] = Quiet] /\ Fine
     \/ request' = [request EXCEPT ![h] = Quiet] /\ Mishap
  /\ UNCHANGED <<linear, mail, poller, tasks, launching, reports, forgotten>>

Dedup(h) ==
  LET r == request[h] IN
  /\ r.at = "dedup"
  /\ \/ /\ request' = [request EXCEPT ![h] = IF Known(r.issue, r.org) THEN Quiet
                         ELSE [r EXCEPT !.at = "create", !.base = Len(tasks)]]
        /\ Fine
     \/ /\ request' = [request EXCEPT ![h] = [r EXCEPT !.at = "create", !.sure = FALSE]]
        /\ Mishap
  /\ UNCHANGED <<linear, mail, poller, tasks, launching, reports, forgotten>>

HookCreates(h) ==
  /\ request[h].at = "create" /\ request' = [request EXCEPT ![h] = Quiet]
  /\ \/ Insert(request[h]) /\ Fine
     \/ Mishap /\ UNCHANGED <<tasks, launching>>
  /\ UNCHANGED <<linear, mail, poller, reports, forgotten>>

-----------------------------------------------------------------------------
(* startLinearPoller: the connections, then for each its labelled issues,    *)
(* then issue by issue.                                                      *)
\* mutant of Poll: workspaces with a webhook are left to it
PollUnhooked ==
  /\ poller.at = "idle" /\ connected \ hooked # {}
  /\ poller' = [Resting EXCEPT !.at = "next", !.todo = connected \ hooked]
  /\ UNCHANGED <<linear, mail, request, tasks, launching, reports, forgotten, spent>>

Poll ==
  /\ poller.at = "idle" /\ connected # {}
  /\ poller' = [Resting EXCEPT !.at = "next", !.todo = connected]
  /\ UNCHANGED <<linear, mail, request, tasks, launching, reports, forgotten, spent>>

FetchLabeledIssues(o) ==
  LET found == {i \in Issues : Home[i] = o /\ Eligible(issue[i])} IN
  /\ poller.at = "next" /\ o \in poller.todo
  /\ \/ /\ o \in connected /\ Fine
        /\ poller' = [poller EXCEPT !.todo = @ \ {o}, !.org = o, !.found = found,
                                    !.at = IF found = {} THEN "next" ELSE "check"]
     \/ o \notin connected /\ poller' = [poller EXCEPT !.todo = @ \ {o}] /\ Fine
     \/ poller' = [poller EXCEPT !.todo = @ \ {o}] /\ Mishap
  /\ UNCHANGED <<linear, mail, request, tasks, launching, reports, forgotten>>

Passed(i) == [poller EXCEPT !.found = @ \ {i}, !.sure = TRUE, !.base = 0,
                            !.at = IF poller.found = {i} THEN "next" ELSE "check"]

PollerChecks(i) ==
  /\ poller.at = "check" /\ i \in poller.found
  /\ \/ /\ poller' = IF Known(i, poller.org) THEN Passed(i)
                     ELSE [poller EXCEPT !.at = "create", !.issue = i, !.base = Len(tasks)]
        /\ Fine
     \/ poller' = [poller EXCEPT !.at = "create", !.issue = i, !.sure = FALSE] /\ Mishap
  /\ UNCHANGED <<linear, mail, request, tasks, launching, reports, forgotten>>

PollerCreates ==
  /\ poller.at = "create" /\ poller' = Passed(poller.issue)
  /\ \/ Insert(poller) /\ Fine
     \/ Mishap /\ UNCHANGED <<tasks, launching>>
  /\ UNCHANGED <<linear, mail, request, reports, forgotten>>

PollEnds ==
  /\ poller.at = "next" /\ poller.todo = {} /\ poller' = Resting
  /\ UNCHANGED <<linear, mail, request, tasks, launching, reports, forgotten, spent>>

-----------------------------------------------------------------------------
(* launchTaskWithClassification: the task runs, or is failed.  A start and a *)
(* completion are reported to Linear; a failure is not.                      *)
Launch(k) ==
  /\ k \in launching /\ launching' = launching \ {k}
  /\ \/ /\ tasks' = [tasks EXCEPT ![k].status = "running"] /\ Fine
        /\ reports' = reports \cup {[issue |-> tasks[k].issue, state |-> "InProgress"]}
     \/ tasks' = [tasks EXCEPT ![k].status = "failed"] /\ Mishap /\ UNCHANGED reports
  /\ UNCHANGED <<linear, mail, request, poller, forgotten>>

TaskEnds(k) ==
  /\ tasks[k].status = "running"
  /\ \/ /\ tasks' = [tasks EXCEPT ![k].status = "complete"]
        /\ reports' = reports \cup {[issue |-> tasks[k].issue, state |-> "Done"]}
     \/ tasks' = [tasks EXCEPT ![k].status = "failed"] /\ UNCHANGED reports
  /\ UNCHANGED <<linear, mail, request, poller, launching, forgotten, spent>>

\* Reports go out in any order; one that fails is not sent again
UpdateIssueState(r) ==
  /\ r \in reports /\ reports' = reports \ {r}
  /\ \/ Change(r.issue, [issue[r.issue] EXCEPT !.state = r.state]) /\ Fine
     \/ Mishap /\ UNCHANGED <<issue, mail>>
  /\ UNCHANGED <<connected, hooked, request, poller, tasks, launching, forgotten>>

\* The rows stay; nothing launches a task again
RestartIntake ==
  /\ Mishap
  /\ request' = [h \in Hooks |-> Quiet] /\ poller' = Resting
  /\ forgotten' = forgotten \cup launching /\ launching' = {} /\ reports' = {}
  /\ UNCHANGED <<linear, mail, tasks>>

PollerStep ==
  \/ Poll \/ PollerCreates \/ PollEnds
  \/ \E o \in Workspaces : FetchLabeledIssues(o)
  \/ \E i \in Issues : PollerChecks(i)

IntakeNext ==
  \/ \E o \in Workspaces : Connect(o) \/ Disconnect(o)
  \/ \E i \in Issues : Edit(i)
  \/ \E h \in Hooks :
       Match(h) \/ Dedup(h) \/ HookCreates(h) \/ \E i \in mail : HookArrives(h, i)
  \/ PollerStep
  \/ \E k \in DOMAIN tasks : Launch(k) \/ TaskEnds(k)
  \/ \E r \in reports : UpdateIssueState(r)
  \/ RestartIntake

IntakeSpec == IntakeInit /\ [][IntakeNext]_intakeVars

\* The ticker ticks
IntakeFairSpec == IntakeSpec /\ WF_intakeVars(PollerStep)

-----------------------------------------------------------------------------
IntakeTypeOK ==
  /\ connected \subseteq Workspaces /\ hooked \subseteq Workspaces
  /\ \A i \in Issues : issue[i].state \in {"Backlog", "Todo", "InProgress", "Done"}
  /\ \A k \in DOMAIN tasks : tasks[k].status \in {"pending", "running", "complete", "failed"}
  /\ launching \cup forgotten \subseteq DOMAIN tasks /\ launching \cap forgotten = {}

(* "Deduplicate: skip if we already have a task for this Linear issue": an   *)
(* organisation has a second task for an issue only if the two were created  *)
(* at once, each checked for before the other was there, or if the check met *)
(* an error; webhooks delivered twice, the webhooks that tasks cause, edits, *)
(* failures and restarts between them make none.                             *)
DuplicatesAreRaces ==
  \A k \in DOMAIN tasks : \A j \in TasksOf(tasks[k].issue, tasks[k].org) :
    j < k /\ tasks[k].sure => tasks[k].base < j

(* A task that waits for its launch has a goroutine that launches it, unless *)
(* a restart took that goroutine; no task is launched twice.                 *)
PendingIsLaunched ==
  \A k \in DOMAIN tasks :
    tasks[k].status = "pending" <=> k \in launching \cup forgotten

(* "Label issues and move to Todo; Gradient picks them up automatically": an *)
(* issue that stays so while its workspace is connected gets a task, whether *)
(* or not its webhook arrives and whatever failed before.                    *)
IssuesServed ==
  \A i \in Issues :
    (Eligible(issue[i]) /\ Home[i] \in connected)
      ~> (TasksOf(i, Home[i]) # {} \/ ~Eligible(issue[i]) \/ Home[i] \notin connected
          \/ Len(tasks) = MaxTasks)

=============================================================================
