# Verification of Gradient's control plane

Gradient's API server boots cloud environments, runs agent tasks in them and
carries live events between them.  This directory holds TLA+ models of its
control logic, TLC configurations that check them on small instances, and
TLAPS proofs of the main invariants for every instance.  All paths below are
relative to `src/`.

    tlc -workers 2 -config EnvSafety.cfg MCEnvLifecycle     # one of the runs
    tlapm EnvLifecycleProofs.tla                            # the proofs

`PROJECT.json` lists the runs, the mutants that show each property can fail,
the source lines behind each definition, the hazards and the theorems.

1. [The system](#1-the-system)
2. [The modules](#2-the-modules)
3. [The runs](#3-the-runs), their bounds, fairness and findings
4. [The theorems](#4-the-theorems)
5. [Read in the code](#5-read-in-the-code)
6. [What is not modelled, and the plan](#6-what-is-not-modelled-and-the-plan)

## 1. The system

| Component | State | Operations | Talks to |
|---|---|---|---|
| Environment service (`internal/services/env_service.go`, `pkg/env/repository.go`) | rows of `environments`: `status`, `cluster_name` | Create (inserts the row, boots in a goroutine), Destroy, Sleep, Wake | cloud provider, warm pool, context store |
| Its callers (`internal/api/server.go`, `task_executor.go`, `repo_service.go`, `env_idle_monitor.go`) | none of their own | `POST`/`DELETE /environments`, the executor's `cleanupEnv`, branch fork and branch cleanup on webhooks, the idle monitor | environment service, usage tracking |
| Cloud providers (`pkg/env/*_provider.go`) | the servers | create, destroy, snapshot, exec | Hetzner, EC2, GCP |
| Warm pool (`warm_pool.go`) | rows of `warm_pool`, the servers they name | replenish, provision, acquire, return, idle clean-up, drain | cloud provider, environment service |
| Snapshots (`env_service.go`, `snapshot_store.go`, `repo_service.go`, providers) | rows of `snapshots`, images in the registry | docker commit and push, the row, the fork's row, creation from the latest | registry |
| Task service (`task_service.go`) | rows of `agent_tasks`: `status`, `retry_count`, `parent_task_id` | Create, Start, Complete, Fail, Cancel, Retry, Delete, the completion of parents | Linear |
| Task executor (`task_executor.go`) | `activeTasks`: task id to cancel function, under a mutex; a clone, a session, a branch and a pull request per run | ExecuteTaskWithOptions, CancelTask, the git pipeline, runMemoryPipeline | environment service, Claude, GitHub, memory |
| Task launches (`internal/api/server.go`) | none | task handlers, classification before a start | task service, executor |
| Linear intake (`server.go`, `linear_service.go`) | `linear_connections`, goroutines that launch and report | webhook, poller | Linear, task service |
| Memory (`memory_service.go`, `trajectory_analysis_service.go`, `memory_retrieval_service.go`) | sessions, analyses, tips with evidence and embeddings, the document of a branch | analyse, upsert tips, embed, refresh; retrieve guidance for a prompt | Claude, executor |
| Event bus and store (`pkg/livectx/bus.go`, `store.go`, `events.go`) | stored events with sequence numbers, keys for deduplication, subscribers | publish, subscribe, replay | Postgres, NATS |
| Propagation (`event_propagation.go`) | none | copies an event to the other branches | event bus |
| Environment agent (`cmd/agent/main.go`, the script in `task_executor.go`, `cmd/mcp-context`) | live context, LastSequence, read cursor, outbox offset, package list | poll, handle, publish, install | event bus |
| Contexts of branches (`repo_service.go`, `context_service.go`, `context_store.go`) | `contexts` rows | fork, save, merge, delete on branch webhooks | task executor, memory |
| Repository connections (`repo_service.go`, `github_service.go`) | `repo_connections`, `github_connections`, the webhook at GitHub, the App | connect, disconnect, handle an installation, dispatch an event | GitHub |
| Usage tracking and billing (`billing_service.go`) | `usage_events` (open while `stopped_at IS NULL`), credits, Stripe's customer and subscription | TrackUsageStart/Stop, CheckBillingAllowed, the report, the set-up | Stripe |
| Autoscaling (`autoscale_service.go`) | policies, replica rows and containers, last scaling | evaluate, scale up, scale down | cloud provider |
| Device authorisation (`device_auth.go`, `cmd/gc`) | codes in memory | start, approve, poll | browser, CLI |
| Signing keys (`middleware.go`) and rate limits (`ratelimit.go`) | caches in memory | look up, refresh; ask, fill, drop | identity provider |
| The rest (organisations, secrets, merge simulation, CLI, MCP, web) | small stores, or none | | |

What is hard to get right here:

- **Nothing is transactional.**  An operation is a handful of database
  statements and cloud calls, minutes apart.  `Destroy`, `Sleep` and `Wake` read
  a row once and write *all* of its columns back (`repository.go:217`); the boot
  goroutine updates by id whatever the row says by then
  (`env_service.go:620-630`); a task's status is checked in one statement and
  set in another (`task_service.go:354,363`); the pool is counted, filled and
  trimmed by statements that each see another pool.
- **Every operation can be cut short**: a handler's context dies with its
  client, a run's context is cancelled or times out and then fails the very
  write that should record this, and a restart forgets every goroutine with
  nothing that looks at the rows it leaves.
- **Several actors share a row**: an environment's handlers, its executor, the
  webhook for its branch, the idle monitor and its own boot; a task's launches,
  runs, cancellations, retries, children and API ends; the context of a branch,
  which tasks, merges, forks and the API read and replace.
- **Errors are logged and passed over**: an event that could not be stored is
  broadcast, an outbox line that could not be published is gone, a push that
  failed completes the task, a webhook that could not be made is saved as 0.
- **Answers from outside differ**: deleting a server that is gone is an error at
  Hetzner and none on EC2 (`GoneOutcomes`); a late answer of the identity
  provider replaces an earlier one; Claude names a tip twice.

What makes each component correct: no server is up that no row names; a row does
not claim a server that is gone; nothing destroyed is billed for; boots,
clean-ups and billing end; the pool stays within its maximum and hands a server to
one caller only; a task at `running` is being run; slots are bounded, belong to
runs and are given back; ended tasks stay ended; parents learn of their
children's ends; a completed task's work is on GitHub; a stored event is broadcast
and copied to the other branches once, and a client that comes back misses none; an
agent's context is current and what Claude was told of is readable; no line of the
outbox is skipped; contexts of branches are not lost; credits close the gate when
they are used; replicas stay within their policy; a login is one approval's; an
issue gets one task; memory is about what it says it is about; what happens on
GitHub reaches each organisation once.

## 2. The modules

| Module | Contents |
|---|---|
| `EnvLifecycle` | environments: rows, servers, usage, and the goroutines at work on them |
| `TaskLifecycle` | tasks: rows, `activeTasks`, and the goroutines at work on them |
| `Mesh` | live events: the table, the JetStream stream, propagation to other branches, streams to clients |
| `MCEnvLifecycle`, `MCTaskLifecycle`, `MCMesh` | their instances |
| `EnvLifecycleProofs`, `TaskLifecycleProofs`, `MeshProofs` | theorems about them |
| `WarmPool` | the pool of booted servers and the environments that take and return them |
| `TaskRun` | the git pipeline of the runs of one task |
| `TrajectoryMemory` | what the attempts at a task leave: sessions, analyses, a tip, the branch's document |
| `Guidance` | which tips a prompt gets |
| `Snapshots` | rows, images and what environments start from |
| `RepoLinks` | organisations that link a repository, its webhook and the App |
| `LiveContext` | an agent's live context, Claude's cursor, the outbox |
| `ChangeWatch` | the agents' trackers of packages and variables |
| `LocalMesh` | the bus of a server without NATS: its lock, its handlers |
| `BranchContexts` | contexts of branches under forks, merges, tasks and the API |
| `Billing` | usage, the credits' gate, Stripe's reports and set-up |
| `Autoscale` | a policy, its monitor, the replicas |
| `DeviceGrant`, `DeviceAuth` | what the device login promises, and the store that implements it |
| `Intake` | Linear issues that become tasks |
| `KeyCache` | the cache of signing keys that requests share |
| `RateLimiter` | the token buckets |
| `ServiceProofs` | theorems about `DeviceAuth`, `KeyCache`, `RateLimiter`, `Intake` and `BranchContexts` |
| `UsageProofs` | theorems about `Autoscale` and `Billing` |
| `AgentProofs` | theorems about `LocalMesh`, `ChangeWatch` and `LiveContext` |
| `SuiteProofs` | theorems about all of these side by side, as `MCSuite` composes them |
| `WorkProofs` | theorems about `WarmPool`, `TaskRun`, `TrajectoryMemory`, `Snapshots`, `Guidance` and `RepoLinks`, and about all of them side by side, as `MCWork` composes them |
| `MCSuite`, `MCWork`, `MCLiveness` | instances of several components, see [below](#instances-of-several-components) |

Everywhere, one action is one database statement, one call of the cloud, of
GitHub, of Stripe, of Claude or of NATS, one command on a server, or what one
goroutine does under a lock.  A variable marked "history" is written and never
read by the rest of the model: it names the accidents the code has no protection
against, and the properties say precisely after which of them they no longer hold.

### EnvLifecycle

`status`, `cluster` and `usage` are the database; `cloud` and `madeFor` the
provider; `task` says for the environment of a task whether its executor is
there and whether its row in `agent_tasks` says `running`; `proc` is what each
goroutine is doing: the place it is at (`pc`), the environment, the
`cluster_name` in its copy of the row, and whether its context is that of a
request, which may be cancelled, or `context.Background()`.

One action is one database statement or one cloud call:

| Actions | Code |
|---|---|
| `CreateEnvironment`, `BootCloud`, `BootFail`, `BootReport` | `CreateEnvironment` and its goroutine `bootFromScratch` |
| `TrackUsageStart`, `TrackUsageStop` | the callers' calls of BillingService |
| `ApiDestroy`, `TaskCleanup`, `BranchCleanup` | who asks for a destruction, and whether usage is stopped first: the handler and `cleanupEnv` do, `cleanupBranchResources` does not |
| `DestroyRead`, `DestroyRefused`, `DestroyMark`, `DestroyCloudOk/Err`, `DestroyDone` | `DestroyEnvironment` |
| `IdleSleep`, `SleepRead`, `SleepRefused`, `SleepCloudOk/Err`, `SleepWrite` | the idle monitor and `SleepEnvironment` |
| `WakeEnvironment`, `WakeMark` | `WakeEnvironment`, which goes on as a boot |
| `TaskRowEnds` | the task's row leaves `running` |
| `CtxDies`, `Crash` | a cancelled context; a restart of the API server |

There are three kinds of environment because the callers differ: `ApiEnvs`
(billed, no repository, so neither webhook nor idle monitor sees them),
`ForkEnvs` (made by `autoForkEnvironment`, never billed) and `TaskEnvs`.

`mishap` is a history variable: the accidents that have befallen an
environment.  The code has no protection against them, and the safety
properties say precisely after which of them they no longer hold:

- `raced`: a boot was running beside a call that holds a copy of the row
  (a destroy or sleep of a booting environment, a second wake);
- `bootlost`: the API server restarted under a boot;
- `lost`: the provider did not delete a server it was told to;
- `cut`: a destroy or sleep was abandoned after its first effect;
- `unstopped`: nobody is left who would stop the usage: a restart forgot the
  executor, or the usage was stopped before it was started.

Everything *else* that may happen, such as destroys beside sleeps beside other
destroys, cancelled requests, failed boots, a provider that says no or a branch
cleanup under a running executor, is shown to do no harm.

### TaskLifecycle

`status` and `retries` are the rows; `active` is `activeTasks`, with the
goroutine that owns the registered cancel function as its value; `proc` is again
the goroutines.  A launch is at `classify` (up to 30 s of classification),
`start` (the status has been read) and `spawned` (`go ExecuteTaskWithOptions`);
a run is at `work`, then `count` and `parent` (the two statements of
`checkAndCompleteParent`), then `finish` (the deferred clean-up).  `ctx` is the
run's 60-minute context (`live` or `dead`), the `request` whose client may hang
up, or `none` for background contexts.

| Actions | Code |
|---|---|
| `CreateTask`, `HandleStart` | `POST /tasks` (with or without auto-start), `POST /tasks/{id}/start` |
| `StartRead`, `StartRefused`, `StartWrite`, `StartUnconfigured`, `LaunchFail` | `launchTaskWithClassification`, `StartTaskExecution` |
| `Register`, `Throttled`, `RunEnds`, `RunGivesUp`, `RunReturns`, `Timeout` | `ExecuteTaskWithOptions` |
| `CountSiblings`, `EndParent` | `checkAndCompleteParent` |
| `CancelTask`, `CancelRun` | the cancel handler: the row, then the executor |
| `HandleRetry`, `RetryWrite` | `RetryTask`, and on to a launch |
| `ApiEnd`, `ClientGone` | `POST /tasks/{id}/complete` and `/fail`; their client hangs up |
| `DeleteAllTasks`, `Crash` | `DELETE /tasks`; a restart |

Two history variables: `adrift[t]` says why a row at `running` has nobody left to
end it (`throttled`, `killed` with its context, `crashed`); `untold` is the set
of parents whose children may have ended without anybody on the way to tell
them.

### Mesh

`store` is the table `context_events` and `serial` its sequence, `deleted` the rows
that the clean-up after a merge has taken from it; `stream`,
`window` and the durable consumer (`filter`, `from`, `tries`, `acked`) are
JetStream, modelled from how `bus.go` uses it; `pub` is what each goroutine that
publishes is doing, `handler` the consumer's callback, `sse` each client of
`GET /events/stream` with the sequence number and the place on the stream it has
reached.  A fact stands for the type, environment and data of an event: posted
again, by a retry or for another branch, it has a new id and the same content
key.

| Actions | Code |
|---|---|
| `Post` | the handlers and executors that call `MeshPublisher.Publish` |
| `TakeSequence`, `Store`, `StoreFails` | the insert of `PGEventStore.Insert`: the number is drawn before the row can be seen; a duplicate comes back without a number; an error is logged and the event broadcast all the same |
| `Send`, `SendFails`, `SendTimesOut` | `NATSBus.Publish`; its message id is the idempotency key, for all branches alike |
| `AgentPublish` | an agent's own message: never stored, no key |
| `DeleteRows` | `cleanupBranchResources` after a merge (`repo_service.go:716-721`): the rows of a branch that are of one repository |
| `StartListening`, `Deliver` | `SubscribeAll` and JetStream's consumer of it, with up to `MaxDeliver` deliveries |
| `Ignore`, `FindBranches`, `FindBranchesFails`, `Copy`, `Copies`, `CopiesLate` | `handleEvent` and `propagateAcrossBranches` |
| `Replay`, `ReplayFails`, `Subscribe`, `SubscribeFails`, `Forward`, `Drop`, `Disconnect` | `handleStreamEvents`: the table first, one page of it, then what is live |
| `WindowCloses`, `Crash` | JetStream forgets a message id; a restart of the API server |

History variables again name the accidents the code has no protection against:
`lost` (a broadcast that failed, or that JetStream took for a duplicate of another
branch's message), `unstored` (an insert that returned an error), `overtaken` (a
number drawn earlier and stored or broadcast later), `missed` (published between
a client's replay and its subscription, dropped for a slow client, beyond the
`ReplayLimit` rows of a replay, or behind a replay whose query failed) and
`forgotten` (an id has left the duplicate window).  `owed` remembers the branches
propagation found for an event, and `Given` is every row there is or was: a message's
number is that of one of these (`SequenceIsTheRows`), as the message outlives the row.

### WarmPool

`pool` is the table `warm_pool`, `up` the servers that are up, `keeper` the one
replenishment loop, `job` the provisioners it spawns, `boot` and `caller` the
environments' side: the boot goroutine, which acquires, and destroys and sleeps,
each with the server's name in its copy of the row.

| Actions | Code |
|---|---|
| `Tick`, `Fill`, `InsertWarming`, `CreateServer`, `ProvisionFails`, `MarkReady` | `replenish`: the counts, then a goroutine per missing server that inserts its row itself |
| `CountIdle`, `ListIdle`, `DestroyDoomed`, `ForgetDoomed`, `ForgetStale`, `ListDraining` | `cleanupIdleServers`, the stale rows, draining |
| `CreatePoolEnv`, `AcquireServer`, `NoneReady`, `MarkAssigned`, `StartWarm`, `StartFails`, `ColdBoot`, `ReportCold` | `bootWithWarmPool` |
| `StartDestroy` ... `FinishDestroy`, `StartSleep` ... `FinishSleep` | `DestroyEnvironment` with `ReturnServer`; `SleepEnvironment`, which deletes the server |
| `Restart` | a restart of the API server |

Any statement may fail, and most of these errors are dropped (`ErrorDropped`): the
global count of `replenish` reads 0 then (`warm_pool.go:369`), a server is up whose row
stays `warming` (`549`), an acquisition is committed and its answer lost
(`AcquiredUnheard`), a return changes no row (`ReturnFails`).

Properties: a server that runs an environment is that one's alone (`ServesOne`),
every server that is up is accounted for (`ServersAccounted`), and the pool stays
within `MaxSize` (`PoolBounded`).  Their exceptions are histories: `spoilt` servers
had two parties at work on them (a destroy beside the idle clean-up that listed the
server when it was ready), `stranded` ones were given up by the code (a provision
that failed after its creation, a row deleted for its age or not updated, an
acquisition nobody heard of, a container that did not start, a restart, a server
returned without a row), `grown` says the global count failed or came before the
inserts of an earlier round, or a server was returned to a full pool.

### TaskRun

`TaskLifecycle` has a run work until it ends; `TaskRun` opens that step for two
runs of one task, one after the other or overlapping: the gate, the environment, the
clone, the session, Claude, what git says afterwards, a fallback commit, the push,
the pull request, the row, the session's bundles, the clean-up.  Every step of a run
whose context is dead fails and goes on as the code does.  `setup` is chosen once: is
there a repository, is the base the default branch, are pull requests wanted.
`CompleteIsPublished` says what a completed row promises about GitHub and the three
ways in which it does not; `RequestHasTheCommit`, `SessionsTellTheEnd` and
`RunsCleanUp` relate the row, the pull request, the session and the environment.

### TrajectoryMemory, Guidance, Snapshots

`TrajectoryMemory` is `runMemoryPipeline` of attempts that may run side by side:
session, `AnalyzeTask` of the task's *latest* session, `upsertTip`, the embedding in
three steps, `RefreshMaterializedContext` as a read and a write.  `MemorySafe`: an
analysis is of an ended session unless another run made it; a run credits no
session older than its own; a tip marked `embedded` has the vector of its text, unless
one of the upserts since it has that text met another pipeline at the embedding, or died
there; once all are done, the document tells of every credit.  The history variable
`overlap` remembers such meetings, of the last upsert (`tip`) and of any since the tip has
its text (`text`).  The second is needed from three pipelines on: an upsert of
the same text that meets nobody leaves the tip `embedded`, with the vector of the other
text that an earlier, overlapping pipeline has stored, until it stores its own.  With
two pipelines nobody is left to do so, and the property without `text` held; its
proof, which is for any number, did not go through.

`Guidance` is one request of `RetrieveGuidance` with its caps (the query's own, lexical,
candidates, vector, limit) and whatever Claude answers: `WithinTheOffer` and
`CapsKeepTheBest` hold for *every* scoring of the tips, every set of tips the query
reads and every answer, which the initial states and `Rerank` enumerate.  The query
keeps the 200 tips that were updated last (`memory_retrieval_service.go:109-110`,
`KeepNewest`) before any is scored: in a repository with more, a better older tip is never
looked at, and the properties speak of the tips that were read (`newest`).

`Snapshots` counts the changes of each container, so that an image is a pair of an
environment and a count; two jobs snapshot at a time, under tags that may clash.
`SnapshotsSafe`: a row's image is of the row's environment, of two rows the later is
not older, and an environment starts from its branch or its parent's.

### RepoLinks

Requests to connect (`AskToConnect`, `CreateWebhook`, `SaveLink`) and to disconnect
(`AskToDisconnect`, `DeleteWebhook`, `DeleteLink`) of two organisations that link one
repository, their GitHub connections, and an event on its way by the webhook, by the
App or by both (`Happens`, `ToggleApp`, `HandleWebhookEvent`, `LoseNotice`).
`Addressed` is the WHERE clause of each handler.  `EventsServed` bounds from both
sides how often an event is handled for an organisation; `WebhookRemembered` says
that, between requests that do not cross, the webhook at GitHub is the one that one
row remembers.

### LiveContext, ChangeWatch, LocalMesh

`LiveContext` is one environment: the agent on the host (`Handle`, `Truncate` and
`Write`, the two steps of saving `live.json`), the MCP script in the container
(`GetContextUpdates`, `AppendLine`), the outbox loop (`TakeLines`, `PublishLine`) and
restarts of the agent.  `shared` is chosen once, because the commands that start
the container do not mount the directory the two programs were written to share.
`AckedIsReadable` lists the ways an update can become unreadable (`missed`);
`ContextIsCurrent` compares the context with the newest event of each key;
`LinesAccounted` and the liveness property `LinesAreTried` are about the outbox.  In the
containers the repository starts the directory is not shared, and the loop copies the
container's outbox once (`cmd/agent/main.go:809-813`): lines written before that are
tried, later ones never.  Where it is shared every line is.

`ChangeWatch` has two agents of a branch that publish what changed in their
containers (`Scan`), install what they hear of (`Receive`, `AutoInstall`) and, at a
start, the saved context's packages (`ReplayContext`).  `ChangesAreTold` relates what
the peers were told to what the last scan saw; `PackagesSettle` says the agents do
not keep each other busy for ever.

`LocalMesh` is the bus without NATS: `Publish` runs the handlers under a read lock,
the propagation's handler publishes again, and Go's `RWMutex` lets no reader in
behind a waiting writer.  `HeardOnce` is its contract with clients; `NobodyWaits` says
that `Entangled`, a handler in `RLock` behind a `Subscribe` that waits for the event
it handles, is the only way it stops.  It is one: the bus then stands still.

### BranchContexts, Billing, Autoscale

`BranchContexts`: a handler (fork, merge, end of a task) reads rows and writes them
back statements later.  A thing learned is a value of a key (`KeyOf`): `mergeJSONMaps`
lets the head's value of a pattern or configuration take the place of the base's
(`With`), while lists of packages and failures are joined.  `UndisturbedKeeps` says no
handler loses knowledge by itself, but for a base's value of a key for which the head has
one of its own; two merges into one base, or a save of what was read long ago, do.

`Billing`: the gate reads ended sessions, running sessions and the payment method in
three queries (`CheckEnded`, `CheckRunning`); a stop reads, writes and reports; the
set-up of customer and subscription is five steps of two systems.  The gate is
"fail-closed" by its comment (`billing_service.go:104`), and an error of the query for
ended sessions does close it; an error of the query for running ones only leaves them
out, as does a session that ends between the two queries.  A check that misread in
one of these ways is marked (`misread`), and `GateCloses` is about the others.
`CreditsNeverFall`, `MeterCoversRow`, `SetupNeverForgets`.  Its clock ticks twice a second
while all this happens, so that minutes begun and the least billed minute matter, and
what a row rounds (`billing_service.go:201`) a report cuts (`208`): a row of 60.6 seconds
bills two minutes where Stripe is told of one, and `MeterCoversRow` is true up to one
second of the row and not beyond.  The clocks of server and database are taken as one.

`Autoscale`: one monitor that works from the policy it read while the API replaces or
deletes it, one container and one row at a time, and scales only an environment that is
`running` (`autoscale_service.go:351`).  The environment is put to sleep, woken on another
server and destroyed meanwhile (`IdleSleep`, `Wake`, `Destroy`): its containers go with
the server and no statement touches the replicas' rows, which stay at `running`.
`CountStaysInLimits`, `HotNeverShrinks`, `CapacityKept` on each server, and
`RowsHaveContainers`, which names those rows (`gone`) among its exceptions.  The calls on
the environment are single steps here; `EnvLifecycle` has them in detail.

### DeviceGrant and DeviceAuth

`DeviceGrant` is the promise: a code is open for a while, approvals write an identity for
it while it is, and what a login holds was written by approvals of its code.
`DeviceAuth` is the code: entries in memory, an approval that writes identity, token and
status in steps under the lock, a poll handler that takes the entry under the lock and
reads its fields after letting go, expiry, clean-up, restarts and lost answers.

The identity is the request's, and the verified claims fill in only what it leaves empty
(`device_auth.go:230-242`): `Forms` is what a request may fill in, `Personal` whose claims
name no organisation, and `Identity` what comes of both.  The page
(`device_auth.go:657-695`) sends the user it has signed in; that form and claims agree
rests on the page and is not claimed here.  `ImplementsGrant` is the refinement, with
`Live` entries as open grants and what a login saved as what it holds;
`OneApprovalWhole` says that a login with one approval has the user, organisation and
token of that approval, which the order of the handler's reads gives.

### Intake, KeyCache, RateLimiter

`Intake`: webhooks (each delivered perhaps twice), the poller, their separate checks
for a task, launches, reports to Linear that cause webhooks again, restarts and
disconnections.  `DuplicatesAreRaces`, `PendingIsLaunched`, `IssuesServed`.

`KeyCache`: requests look a key up, refresh side by side and store their answers in
any order; `editions` is what the provider has published.  `CurrentKeysServe` and
`WithdrawnKeysGo` hold but for a failed refresh and `swapped`, an older answer stored
over a newer.

`RateLimiter`: the server's bucket, one per address and one per organisation, all
filled by the tick of a clock, made when first asked and dropped when idle.  `ideal`
is a bucket that is never dropped, and `LimitsKept` says nobody can tell the
difference.

### How they compose

An executor is a goroutine of several models: `TaskLifecycle` has its row and slot
and leaves out its environment, `EnvLifecycle` has its environment and reduces
the row to `exec`, `ending`, `orphan` and `no`, all that the idle monitor and
the clean-up can tell apart; `TaskRun` and `TrajectoryMemory` open up what it does in
between for one task.  `WarmPool` reduces an environment to a status and a server.
Executors and handlers publish to the mesh and read nothing back from it, except that
propagation asks which branches have an environment that is running or sleeping:
`FindBranches` lets the answer be any set of them.  `LiveContext` and `ChangeWatch`
take the other end: what reaches an agent is what `Mesh` shows can reach a consumer,
each event perhaps several times, later ones before earlier ones.  `Intake` ends where
`TaskLifecycle` begins, at a launch.

### Instances of several components

Components that share no state are checked in one run each of `MCSuite`, `MCWork`
and `MCLiveness`.  The variable `part` says which component a behaviour is about; the
others stay at an initial state, so the states of a run are the *sum* of the
components' states and not their product, and nothing is assumed of one for the sake
of another.  The properties of a part are conjuncts of the run's properties, guarded
by `part`.  In `MCWork` the parts use the same symmetric values, `{x1, x2}` and
`{y1, y2}`, so that the symmetry group is that of one part.

## 3. The runs

| Run | Question | Bounds |
|---|---|---|
| `env_safety` | no server unaccounted for (`NoOrphanServer`), none left behind a destroyed row (`DestroyedMeansGone`), never two (`OneServerPerEnv`), `running` is true (`RunningIsUp`), nothing destroyed is billed (`DestroyedNotBilled`) | one task environment, 2 servers, 3 goroutines, 1 restart, all failures, both provider answers, wakes |
| `env_destroyed_final`, `env_destroy_completes` | two claims of the documentation, both refuted | one environment, no failures at all |
| `task_safety` | entries name runs (`SlotsAreRuns`) within the limit (`SlotsBounded`), running rows are driven (`RunningIsDriven`), ended rows are kept (`EndedIsKept`) | a task and its sub-task, 3 goroutines, maxConcurrent 1, 1 retry |
| `task_siblings` | the last sub-task to end ends the parent (`ParentIsTold`) | a task with 2 sub-tasks, 3 goroutines |
| `task_throttled`, `task_concurrency` | two claims of the documentation, both refuted | a task and its sub-task, no failures at all |
| `mesh_safety` | copies are of originals (`CopiesAreOfOriginals`), made once (`CopiedOnce`) and for every acknowledged message (`AckedIsCopied`); what is stored is broadcast (`StoredIsBroadcast`) under its own number (`SequenceIsTheRows`); a client that comes back sees every stored event (`StreamIsComplete`) | 2 handlers, 2 branches of one organisation, a client, one fact, 2 posts, 2 deliveries, replays of 1 row, 1 fault |
| `mesh_orgs` | a comment, refuted | 2 organisations |
| `liveness` | boots end, the executor's clean-up deletes the server and stops the usage; driven tasks end and give slots back; messages are acknowledged or given up, and calls of the local bus return; outbox lines are tried; packages settle; issues get tasks | the instances at the head of `MCLiveness` |
| `suite` | agents, contexts, billing, autoscaling, logins, intake, local bus, keys and limits: `AgentSafe`, `UndisturbedKeeps`, `BillingSafe`, `AutoscaleSafe`, `EntranceSafe`, `NothingTakenBack`, and the refinement `ImplementsGrant` | below |
| `work` | pool, runs, memory, snapshots, guidance and links: `PoolSafe` (and `PoolBounded` in `WorkWellFormed`), `TaskRunSafe`, `InheritanceSafe` | below |

Environments share only the pool of servers and the idle monitor's single
goroutine, so one environment shows what several do; a task environment is used
because every caller reaches it.  Two servers are needed for a wake that boots a
second one, three goroutines for a boot beside two calls with copies of the row.
One free slot and two tasks are enough to meet the throttle, to share an entry
between two runs and to lose it; three goroutines give two runs and a canceller,
or two siblings and their parent.  `task_safety` has no restart, which would only
repeat the same states with idle goroutines; `liveness` has one, and the
theorems cover any number.

The mesh needs two handlers so that numbers can be drawn in one order and stored
in the other, two posts of one fact so that an event comes again under another
id, on the same branch or on the other, and two deliveries so that a message comes
back.  One fault (a restart, an error, a dropped message, an id that is forgotten, a merge)
at any step is enough to lose anything that can be lost, as no fault helps another.
A third branch makes two copies per event and too many states for the time there
is.  Organisations share a durable consumer, which is what `mesh_orgs` shows; the
passing run has one.

The parts of `suite`:

| Part | Bounds, and why they are enough |
|---|---|
| agent | one key, 2 events of 2 deliveries each, 2 reads, 1 outbox line, 2 faults; one kept update (100 in the code), so that the cap is met; both deployments |
| watch | 2 agents, a pip and an npm package (npm's listing knows no removals), the pip one in the saved context; 2 changes by users, 1 lost publish or restart |
| contexts | one repository, its default and a feature branch, 2 handlers that each do one thing, two values of one key, 1 error: every read-write pair can be overtaken by one writer, and by the other handler; different keys are left to the proof |
| billing | 2 sessions of a size that uses the 3 included credits up, 2 callers (two readings and a stop between them), a minute of one second, a month of 2 ticks of 5, 2 failures: half a second is what a row rounds up and a report cuts |
| autoscale | 3 policies (one that needs normalising, one whose threshold is below its target), loads below and above the thresholds, 2 replicas on a server, 2 servers in turn, 2 rounds, 1 failure |
| device | 2 logins, 2 users, one of them without an organisation, requests that fill in nothing or that user, 2 approvals, 1 restart or lost answer |
| intake | an issue, its workspace and another, one webhook handled beside the poller, 2 tasks, 1 edit, 1 mishap |
| local | 2 branches, 2 requests that publish, a client and the listener, 2 events |
| keys | 2 keys, 2 connections, 1 rotation: two refreshes can bracket it |
| limits | an address, an organisation, 2 requests; bursts of 2 and 3, rate 1, idle after 3 ticks |

and of `work`:

| Part | Bounds, and why they are enough |
|---|---|
| pool | 2 provisions of one target, 2 environments, 1 caller besides the two boots and the loop, restarts and failing statements at every step; `MaxSize` 1, below the default size, so that normalisation matters; several targets, and one without credentials, are left to the proof |
| run | 2 runs of a task, every `setup` |
| memory | 2 attempts, 2 texts of the one tip, with and without embeddings |
| snapshots | 2 environments, parent and child branch, 2 tags, 2 snapshots at a time, 2 rows, 1 change per container |
| guidance | 4 tips with scores 0, 1 and 3 in every combination, of which any 3 are read, caps of 2, 2 and 1, limits 0 to 3, answers of up to 2 entries that name candidates or no tip; several near vectors at once are left to the proof |
| links | 2 organisations, 2 requests at a time, 2 webhooks, 2 rows, 2 events, failures or crossings |

Every action fires in some passing run.  Bounds are the constants called `Max...`
(the code has no limit on retries, for one) and the sizes of the sets.

The configurations say `CHECK_DEADLOCK FALSE` where the system does stop: with every
row deleted and no id left, with a throttled row and nobody to cancel it, when all
that the bounds allow has happened, and in `LocalMesh` when the bus is `Entangled`.

**Symmetry** is over goroutines, servers, sibling tasks and, in `work`, the values
the parts share; in runs without liveness properties only.

**Fairness.**  `WF` of `Step(p)`: a goroutine that has begun goes on, as the Go
scheduler guarantees, because every database and cloud call has a timeout.
Requests, webhooks, idle periods, timeouts and crashes are not fair: they need
not happen.  `SF` of `TaskCleanup` stands for the executor reaching its deferred
clean-up: its 60-minute context ends whatever it is waiting for.  It is strong
because in the small instance all goroutines may be busy again and again, which
is a bound of the model and not of the program.  Weak fairness of a run's `Step`
relies on the same 60 minutes.
In the mesh, publishing, the start of listening, JetStream's deliveries and the
callback are weakly fair: the calls have timeouts, and NATS sends again what is not
acknowledged within 30 s.  Posts, clients and faults are not.
The agent's loops are tickers (`TakeLines`, `PublishLine`, `Scan`), its subscription
pulls (`Receive`), an installation is a command with a timeout (`AutoInstall`), and
systemd starts it again (`AgentStarts`).  The Linear poller is a ticker
(`PollerStep`); webhooks, launches and tasks are not fair, and `IssuesServed` holds
without them.  In `LocalMesh` the goroutines run (`PostStep`, `WriterStep`), but a
lock is only given when it is free: that it may never be is the point.

### Findings

The five violation runs are disagreements between the documentation and the
code, each with a trace of a few steps that needs no failure:

1. *A destroyed environment comes back* (`env_destroyed_final`; `TECHNICAL_DOC.md:509`
   has `destroyed --> [*]`).  A destroy of a booting environment finds no server to
   delete; the boot then writes `running` by id.
2. *A sleeping environment cannot be destroyed* where deleting a deleted server is
   an error (`env_destroy_completes`; `TECHNICAL_DOC.md:507`): the row stays at
   `destroying` and later destroys are refused.
3. *A throttled task does not fail* (`task_throttled`;
   `docs/OBSERVABILITY_REFERENCE.md:801`): the row stays at `running`.
4. *More than maxConcurrent runs* (`task_concurrency`; `TECHNICAL_DOC.md:431`): two
   launches of one task share an entry, and the first to return deletes it.
5. *One organisation's events are propagated* (`mesh_orgs`; the comment at
   `internal/api/server.go:246`, "all known orgs").  `SubscribeAll` names its durable
   consumer without the organisation (`bus.go:300`): each call changes the filter of
   the one before.

More disagreements, with no run of their own, are in section 5.

## 4. The theorems

For every set of environments, servers, goroutines and tasks, every family tree,
every `maxConcurrent`, every set of branches, organisations, events and clients, every
number of restarts, retries, deliveries and faults, every burst, rate and interval, every
set of users, codes, requests, issues, policies, sessions, packages and peers, from the
named assumptions of the modules alone:

| Theorem | Statement |
|---|---|
| `EnvLifecycleProofs!TypeCorrect` | `Spec => []TypeOK` |
| `NothingOrphaned` | `Spec => []NoOrphanServer` |
| `NothingLeftBehind` | `Spec => []DestroyedMeansGone` |
| `AtMostOneServer` | `Spec => []OneServerPerEnv` |
| `RunningMeansUp` | `Spec => []RunningIsUp` |
| `DestroyedUnbilled` | `Spec => []DestroyedNotBilled` |
| `TaskLifecycleProofs!TypeCorrect` | `Spec => []TypeOK` |
| `SlotsHeldByRuns`, `ThrottleHolds` | `Spec => []SlotsAreRuns`, `Spec => []SlotsBounded` |
| `RunningDriven` | `Spec => []RunningIsDriven` |
| `ParentTold` | `Spec => []ParentIsTold` |
| `EndedKept` | `Spec => EndedIsKept` |
| `MeshProofs!TypeCorrect` | `Spec => []TypeOK` |
| `SequenceTheRows` | `Spec => []SequenceIsTheRows` |
| `StoredBroadcast` | `Spec => []StoredIsBroadcast` |
| `CopiesOfOriginals`, `OneCopy` | `Spec => []CopiesAreOfOriginals`, `Spec => []CopiedOnce` |
| `AckedCopied` | `Spec => []AckedIsCopied` |
| `StreamComplete` | `Spec => []StreamIsComplete` |
| `ServiceProofs!LoginIsItsApproval` | `DeviceSpec => []OneApprovalWhole` |
| `StoreImplementsGrant` | `DeviceSpec => ImplementsGrant`, which is `Grant!GrantSpec` |
| `KeysAreTheProviders` | `KeySpec => []KeysSafe` |
| `CleanupInvisible` | `LimitSpec => []LimitsKept` |
| `SecondTasksAreRaces`, `WaitingTasksHaveLaunches` | `IntakeSpec => []DuplicatesAreRaces`, `IntakeSpec => []PendingIsLaunched` |
| `UndisturbedHandlersKeep` | `ContextSpec => UndisturbedKeeps` |
| `UsageProofs!CountsAreAskedFor`, `ServersHaveRoom`, `ReplicasRun` | `AutoscaleSpec => []CountStaysInLimits`, `[]CapacityKept`, `[]RowsHaveContainers` |
| `LoadTakesNothing` | `AutoscaleSpec => HotNeverShrinks` |
| `GateClosesInTime`, `MeterCovers` | `BillingSpec => []GateCloses`, `[]MeterCoversRow` |
| `CreditsStay`, `SetupsRemember` | `BillingSpec => CreditsNeverFall`, `SetupNeverForgets` |
| `AgentProofs!HeardExactlyOnce` | `LocalMesh`: `[]HeardOnce` |
| `PeersKnow` | `WatchSpec => []ChangesAreTold` |
| `AckedStaysReadable`, `ContextStaysCurrent`, `NoLineTwice` | `LiveSpec => []AckedIsReadable`, `[]ContextIsCurrent`, `[]LinesAccounted` |
| `DeviceTypes`, `KeyTypes`, `LimiterTypes`, `IntakeTypes`, `ContextTypes`, `AutoscaleTypes`, `BillingTypes`, `LocalTypes`, `WatchTypes`, `LiveTypes` | the type invariant of each of these |
| `WorkProofs!ServersServeOne`, `ServersAreAccounted` | `PoolSpec => []ServesOne`, `[]ServersAccounted` |
| `RunsTellTheTruth` | `RunSpec => []RunSafe` |
| `MemoryHolds` | `MemorySpec => []MemorySafe` |
| `SnapshotsHold` | `SnapSpec => []SnapshotsSafe` |
| `GuidanceHolds` | `GuidanceSpec => []GuidanceSound` |
| `LinksHold` | `LinkSpec => []LinksSafe` |
| `PoolTypes`, `RunTypes`, `MemoryTypes`, `SnapTypes`, `GuidanceTypes`, `LinkTypes` | the type invariant of each of these, and `[]PoolBounded` |
| `WorkTypes`, `PoolIsSafe`, `TaskRunsAreSafe`, `InheritanceIsSafe` | `WorkSpec =>` the properties of the run `work`: `[]WorkWellFormed`, `[]PoolSafe`, `[]TaskRunSafe`, `[]InheritanceSafe` |
| `SuiteProofs!SuiteTypes`, `AgentsLoseNothing`, `UsageIsPaid`, `ScalingIsBounded`, `EntranceIsSafe`, `NothingIsTakenBack` | `SuiteSpec =>` the properties of the run `suite`: `[]TypesOK`, `[]AgentSafe`, `[]BillingSafe`, `[]AutoscaleSafe`, `[]EntranceSafe`, `NothingTakenBack` |

The assumptions are those a reader would expect of the code: markers such as `NoUser`
are not members of the sets they stand beside, bounds are natural numbers, and the rest
is what the configuration gives.  `AutoscaleAssumption` has policies with the ranges the API lets
through; `BillingAssumption` has finitely many sessions and a month of at least a tick;
`LimiterAssumption` says that a bucket fills before an idle entry is dropped;
`LiveAssumption` that the context keeps at least one update and that JetStream delivers
at least once; `LocalAssumption` and `WatchAssumption` that requests and packages are
finitely many.  `PoolAssumption` has finitely many provisioners, disjoint from the
environments, and a default and a maximum that are numbers; `MemoryAssumption` finitely
many runs of a task; `GuidanceAssumption` the caps of `RetrieveGuidance` in the order the code gives them: at
most as many are asked for as candidates are kept, and no more of these than pass the
lexical cap; `SnapAssumption` and `LinkAssumption` have markers outside their sets and bounds
that are numbers.  TLC evaluates all of them on the runs.

**Environments.**  None of the properties is inductive: whether a destroy may
write `destroyed` depends on the copy it holds.  The invariant `IInv` adds what
the copies know.  Rows and copies name servers of their own environment
(`OwnServers`); a server not yet reported is known to its boot alone
(`Unreported`); a boot beside a copy has been noted as a race (`RacesNoted`), and
without one a copy agrees with the row on the server's name (`CopiesAgree`) and
the row says `creating` during a boot (`BootIsCreating`); a row at `sleeping` or
`destroyed`, and a copy about to be written back as such, name a server that is
deleted (`KnownDown`).  `RunningInv` says of a running row that no destroyer past
its mark holds its server's name: `DestroyMark` itself takes the row out of
`running`, and only a boot, with a new server, brings it back.

**Usage.**  `UsageInv` treats the three kinds of environment apart.  A fork's usage
is never opened; a task's usage that is open, or about to be, has its executor, or
a stop with a background context that nothing can cancel; an API environment's usage
that is open has no destroyer past the stop, and its row is not destroyed.

**Tasks.**  `IInv` strengthens `SlotsAreRuns` to `EntriesAreRuns` (an entry's run
has a context of its own, unlike an API call that is ending the same task, so that a
cancellation hits a run), says what a goroutine holds at each place (`ProcsInv`),
and that a child's row exists only with its parent's (`FamilyRows`); the rest of
the properties are inductive with these.  `EndedKept` follows from the invariant
step by step.  The slots are counted with the library's theorems on cardinality.

**Mesh.**  The invariants are proved in layers, each from the ones before.  `TypeInv`
adds to the types that ids in use are at most `posts` and numbers at most `serial`.
`SeqInv`: rows have different numbers, all different from those drawn and not yet
stored, and a number carried to the broadcast is a row's.  `KeyInv`: whatever is
stored, on its way or on the stream has the key of its kind, a copy has its original
on the stream, and what the callback holds is there too.  `WindowInv`: while JetStream
forgets nothing, its window holds the id of every message and no two messages share
one; with `KeyInv` it gives `CopiedOnce`.  `IdInv` and `AckInv`: an id stands for one
event, and a branch owed to the event in the callback's hands is still to do, being
published by the propagator, done or lost, which is what an acknowledgement needs.
`KnownInv`, `OrderInv` and `ViewInv` are about clients: what is on the stream is a row
or could not be stored; a row that comes on the stream after a higher number of its
branch has been overtaken; a cursor is the number of a row, and no row below the
cursor, or at a place of the stream the client has passed, is unexcused.
`StreamIsComplete` alone is not inductive, because a replay starts at the cursor and
sees nothing of how the cursor came there.

**Rate limits.**  `LimitsKept` is not inductive: dropping an entry sets its client back
to a full bucket, and nothing in it says the bucket was full.  `Filled` does: an entry
that nobody asked for in `age` ticks is full or holds at least `age * rate` tokens.  An
entry that is dropped is older than `StaleAfter`, and `LimiterAssumption` says that a
bucket fills within that time (the defaults need two seconds, and the clean-up waits ten
minutes), so it was full.  Under a configuration whose buckets take
longer than that to fill, the clean-up would be a gift.

**Device login.**  `OneApprovalWhole` is about what a login saved, after reads without
the lock.  `DeviceInv` says what makes these reads harmless: one approval at a time
holds the lock, and what it has written is in the entry (`WriterInv`); what an entry
holds is the identities of its approvals (`IdentitiesOf`), all of it once it is completed
(`EntryInv`); a poll that has seen "completed" works on an entry that is, and what it
has read is from such approvals (`PollInv`).  `StoreImplementsGrant` is the
refinement step by step: `StartLogin` is `Issue`, `BeginApproval` is `Approve`,
expiry and a restart are `Close`, and the last read of a poll, with which the login
saves what it has, is `Deliver`; clean-up, the writes under the lock, the other reads
and lost answers are no step of `DeviceGrant`.

**Signing keys.**  `CacheInv`: the cache is a whole edition of the provider's keys, the
newest that was stored unless an older answer came after it.  `AskInv` relates what a
request has fetched to the editions since it looked; with it `KeysSafe` follows, whatever
the order in which any number of refreshes are answered.

**Linear issues.**  `LaunchInv` says that a task is pending exactly while its launch
goroutine runs or after a restart took that.  `Checked` says of a webhook or the poller
about to insert that, if its check met no error, the issue had none of the tasks that were
there then; tasks are only appended and keep their issue, so this lasts until the insert
and gives `DuplicatesAreRaces` there.

**Contexts of branches.**  Rows hold and handlers have read only what was learned
(`KnownInv`); `UpToDate` says, place by place, that what an undisturbed handler has read
of its two rows is what they hold (`FreshInv`); a row holds one value of a key
(`OneValue`), which the merge needs and keeps.  `UndisturbedKeeps` follows at the step
with which a handler ends.

**Autoscaling.**  The policy's row and the monitor's copy of it have limits that were
asked for, perhaps of different policies, and every count, the monitor's decision
included, is within some such limits (`LimitsInv`); there is room for every container
still to be started (`RoomInv`), which is what one count before several starts needs;
rows and containers correspond on the servers that are there (`ReplicaInv`).  `LoadTakesNothing` rests on
`CeilingGrows`: the ceiling of a * b / c is at least a when b is at least c.

**Billing.**  `SessionInv`: a row begins once, after its environment, and ends with what
is billed for it.  `CallersInv`: what a caller holds of a session, a customer or a
subscription is of one that exists, and no two creations are about to begin one row.
`GateHeld`: what a check has counted of ended sessions is what they are still, unless it
misread them, and credits that were used up when it began still are; this needs that a
sum over the sessions grows when its terms do, which is proved for the fold that defines
it, and that the ticks of a session never fall (`CreditsStay`).  `MetersInv`: what Stripe
was told after a recorded stop covers the row, up to the second that rounding and cutting
differ by.

**The bus of a server without NATS.**  `LockInv`: a handler holds as many read locks as
its place says, two while it publishes a copy (`HeldAt`).  `NumberInv`: events in
flight have different numbers.  `Owed` says, for each place of a publisher and each
client, whether the client has heard the event already and which copies are still to
come, `Paid` that nothing is owed of an event whose publisher has returned, and
`TunedInv` that what a client heard it heard once, on its branch.

**Trackers.**  `ChangesAreTold` is inductive with the shape of the trackers and the
bound of a variable's values (`CountedChanges`).

**Live context.**  `AckedIsReadable` needs to know where an update is.  `Kept`: an
acknowledged update nobody may have missed or seen (`Settled`) is in the agent's memory
while it is up and in the file when that is whole; `InMemory` and `InFile`: such updates
are beyond Claude's cursor, and one in memory that the file lacks is beyond the file's
horizon.  `CurrentInv` is `ContextIsCurrent` for each key, memory and file apart, and
`PhaseInv` what holds between the steps of one event.  `OutboxInv`: the batch is the
file's lines up to the offset, and the lines tried are those before it.

**The warm pool.**  `ServesOne` speaks of rows, and what breaks it is a copy: a boot, a
destroyer, the replenishment loop each hold the name of a server they read before.  The
invariant has one clause for each place of such a copy.  `JobInv`: nobody knows the
server a provisioner is still making.  `BootInv` and `CallInv`: an environment has no
server until its boot is over, and what a destroyer or sleeper holds is what the row
says, unless the server is spoilt, and no two calls are at one environment then.
`UserInv`: a server has one user, a boot, a live environment or a call that has not yet
given it back, and its row says `assigned` for as long; the loop's list holds only servers
at `ready` or `draining`.  `KnownInv` and `ColdInv` name who knows of each server that is
up, and give `ServersAccounted`.  `PoolBounded` needs `BoundInv`: unless the global count
failed, the running total of `replenish` is no less than the rows there are, for as long
as it inserts.

**A run of a task.**  `CloneInv` says place by place what Claude made, what of that is
committed and what is on GitHub; `RowInv` that a row which names a run's commit and is
`complete` is one whose run is past its save and was `Published`, in one of the four ways
`CompleteIsPublished` allows.  This is kept by the steps of every other run, since a run
whose commit the row names is past the pushing.  `BooksInv` relates bundles and session:
nothing is said of the end before the end, and a session is closed only after that.

**Memory.**  `SessInv`: a session is one run's and a run has one at most, so that
`Len(sess)` counts runs.  `LookInv`: a run has ended its own session before it looks, and
looks at that one or a later one; hence an analysis that saw an active session was made
by another run.  `TipInv` treats the pipelines at the embedding: if the last upsert was
alone, there is one of them, it has the tip's text, and what it has stored is that text;
if all upserts since the tip has its text were alone, the mark is true.  `DocInv` is
its counterpart for the readers of the lists.  `SeedInv` bounds the evidence by the runs
past `Brief`.

**Snapshots.**  `TagInv`: of a tag that was used once, the image is nothing before the push
and what that snapshot took afterwards.  `ClashInv`: two snapshots of one environment in
flight know of each other.  `ShownInv` says of each row that its image is of its
environment and branch, and no later than any snapshot of that environment that is still
in flight and was not taken at the same time; without it `LaterRowsAreNewer` is not
inductive, since the order of the rows is that of the inserts.  `MadeInv` keeps counts
below what the environment has.

**Guidance.**  Everything is said of the tips that were read.  `First(n, s)`, the first n of a set in the order the code sorts it, is
defined by counting who comes before; the lemmas about it are proved for every finite set:
it is closed under who comes before, it has n members or all, and it is empty only if s or
n is (`FirstClosed`, `FirstAtMost`, `FirstFull`, `FirstSome`).  That needs that a finite
set with a transitive relation without cycles has a least element (`LeastExists`).  `Fair`
says of a set of candidates that a tip which fits is in it, with no lower score, or fits no
better than any that is; it survives the first cap, the merge with the nearest vectors
and the second cap (`FairlyMerged`), and gives `CapsKeepTheBest` at the limit.

**Links to GitHub.**  `NoticeOK` counts how often an event was handled by the routes that
are no longer due.  `CalmInv`: as long as no two requests crossed, the row is as the
request at it has read it, and no two are at one organisation; `HolderInv` says who
remembers the webhook then, a row, or the request that is about to write it, and that
the only row that remembers another is about to be deleted.

**Side by side.**  The components of `MCSuite` share no variable and step one at a time.
A step of the whole is a step of one and leaves the variables of the others, so that
`SuiteSpec` implies the specification of each (`SuiteRunsLive` and nine more), and the
theorems of the components hold of it.  The same goes for `MCWork` (`WorkRunsPool` and
five more).  Every invariant that a run checks is a theorem.

**Only model-checked.**  Liveness (`CreatingResolves`, `TaskServerTornDown`,
`TaskUsageStops`, `TasksEnd`, `SlotsFreed`, `MessagesSettle`, `LinesAreTried`,
`PackagesSettle`, `IssuesServed`): fairness and ENABLED are out of the prover's reach.

## 5. Read in the code

Divergences and traps met while modelling, each part of the model, none with a run of
its own.

*Environments and tasks.*  `max_retries` is never read (`TECHNICAL_DOC.md:474` says
"max 2").  Forked environments are never billed (`TECHNICAL_DOC.md:513` has "Billing
active" for a running one); a branch's clean-up destroys without stopping the usage.
Cancelling the last open sub-task does not complete its parent
(`task_service.go:500-501` speaks of all sub-tasks being done).

*Mesh.*  NATS refuses a consumer's name with a dot in it, and a client's name has its
address: `SubscribeFails`, after which the stream stays open without events although
`server.go:2349` speaks of polling.  `bus.go:572` has agents' events stored by the
wildcard consumer, which only propagates.  A content key has no time in it: a fact
posted again after the duplicate window is broadcast but not stored, and posted
within it on another branch it is stored but not broadcast there; one posted again after a
merge has deleted its row is stored, and taken for a duplicate by JetStream.  A replay
reads 1000 rows and ignores that there are more, and one whose query fails is skipped
without a word (`server.go:2310`).  The clean-up after a merge deletes events that
clients and the stream still know by number.  Without NATS
(`server.go:187`) the propagation listens on `LocalBus`, whose nested `RLock`
(`bus.go:445`) behind a waiting `Subscribe` (`bus.go:477`) stops the bus for good;
`Subscribe` ignores its context, so handlers of clients that left stay.

*Warm pool.*  `ReturnServer` of a server that was booted cold updates no row: the
server is up and nobody's (`docs/OBSERVABILITY_REFERENCE.md:264`).  "never exceed
WarmPoolConfig.MaxSize" (`warm_pool.go:90`) is not kept by returns, nor when the global
count fails, which counts as an empty pool (`warm_pool.go:369`).  `assigned_to` is
read by nothing, and `SetWarmPool` has no caller.

*Task runs.*  With a base branch that is not the default, "new commits" are looked
for where there is no such ref, the error is dropped and nothing is pushed
(`TECHNICAL_DOC.md:444`); a retry of a pushed task pushes from a fresh clone without
force and fails; a failed push is logged and the task completes, with a `commit_sha`
that GitHub does not have, although the document has "failed" for an error at any
step.  The environment of a failed run stays up, and billed, during the memory
pipeline.  A dead context leaves the session "active".

*Memory.*  A run without a session credits the previous attempt's again; seeds gain
evidence with each run and are never embedded; an outcome "failure" that has no case
of its own becomes a "strategy" tip; an analysis made while another run's session was
open is never redone; candidates of the vector search may have an outdated embedding;
without a lexical candidate the vector search is never asked; the query takes the 200
newest tips before any is scored; a tip Claude names twice
is in the prompt twice and counted twice.

*Snapshots.*  `WakeEnvironment` ("restores VM from snapshot", `env_service.go:471`)
passes no image; the snapshots of sleep, destroy and the executor get no row;
`/workspace` is a volume, so the image omits it although `hetzner_provider.go:330-333`
says "complete filesystem state".  Tags are per second, in one registry for all
organisations; the agent's own tag (`main.go:1207`) does not name the environment, and
the image it pushes has no row.  `GetLatestByBranch` ignores the repository.

*Contexts of branches.*  The executor's save drops the error of its read, and the merge
treats any error reading the base as "no row": both then overwrite what is there; an
error reading the head skips the merge and still deletes the head.  A merge keeps the
head's value of a pattern or configuration and drops the base's.  The fork reads the
parent by organisation and branch, whatever its repository (`schema.sql:702` has
"per-repo isolation").  `UpsertContextObject` names a constraint that no longer exists
(`schema.sql:743-748`): it always fails, and `event_propagation.go:81` ignores that.

*Agents.*  `/gradient/context` is mounted by none of the commands that start the
container (`env_service.go:270-286`, `hetzner_provider.go:656-678`,
`aws_provider.go:392-400`) though `TECHNICAL_DOC.md:869` has it shared.  An event that
could not be stored is given the number after the last one, and stored events up to it
are then never shown.  `has_updates` is read by nothing (`TECHNICAL_DOC.md:761`).  A
package a user removed comes back when the agent restarts and replays the saved
context.

*Billing.*  The destroy handler stops the usage before a destroy that may fail; a
session that stops between the two readings is counted by neither; two stops report
twice; two set-ups at once may leave the subscription of one customer with the id of
the other.  The row rounds what the report to Stripe cuts, so that a row may bill a minute
more than Stripe is told.

*Device login.*  The handler takes user and organisation from the request before the
verified claims, which only fill in what is empty, although its comment says "use the
real user/org from claims" (`device_auth.go:229`).

*Autoscaling.*  Agents report `cpu_percent` and `mem_percent`, the monitor reads other
keys (`server.go:2035-2075`, `autoscale_service.go:360-361`), so no report reaches it;
`Feeds` has both cases.  A replica's number that is used again keeps its "destroyed"
row (`ON CONFLICT DO NOTHING`); deleting a policy leaves its replicas; the environment's
sleep or destruction leaves their rows at `running`, and while one is, the idle monitor
lists nothing, as their `context_branch` is NULL; a threshold below the target lets load
take replicas away.

*Linear.*  `GetAllConnections` does not select the filters, so `ShouldProcessIssue`
accepts every issue for the first connection (`TECHNICAL_DOC.md:1055`); the poller sees
the first 20 issues; a failed issue stays at Todo and is not tried again; "In Progress"
and "Done" are reported by goroutines that may overtake each other; `VerifyWebhook` has
no caller; a disconnection leaves the webhook.

*Repositories.*  A webhook that exists, or could not be made, is saved as 0; connecting
again overwrites its number with 0, and the later disconnection ("cleans up the
webhook", `repo_service.go:857`) leaves it.  Creations and merges
(`repo_service.go:180,533`) are looked up by `installation_id = $2 OR installation_id =
0`, pushes and deletions (`377,474`) by `= $2` alone, and rows always store 0: with App
and webhook a creation or merge is handled twice, and a push that comes only by the App
not at all.  "Installation deleted" deletes by an id no row has.

*Keys and limits.*  Refreshes run side by side and an older answer may be stored last;
a token that names no key is checked against whichever key the map gives, and a
mismatch refreshes nothing; `getAnyKey` reads the map's length without the lock
(`middleware.go:95`).  The rate limiter runs before authentication (`server.go:318`),
so the organisation is what the request's header says; refused requests have spent the
server's token.

## 6. What is not modelled, and the plan

Left out of `EnvLifecycle`: the warm-pool branch of a boot and the return of a server
(in `WarmPool`), snapshots and addresses (they change no status), how long an
environment has been idle.  Left out of `TaskLifecycle`: the pipeline of a run (in
`TaskRun`), Linear comments, logs and statistics.  Database statements are assumed not
to fail while their context lives in `EnvLifecycle` and `TaskLifecycle`, and a provider
that answers a create with an error is assumed to have made no server.  Nothing in the
repository calls `WakeEnvironment`; it is modelled because it is a public operation of
the service, behind `WakeUsed`.

Partly modelled:

- *memory*: the heuristic tips that stand in for a failed analysis, and the scores.  The
  heuristics count events of all attempts of a task but sessions and logs of the
  latest, and one pass that leaves an event, a bundle and a log counts as a repetition;
- *sessions*: `CreateBundle` takes the highest sequence and inserts in two statements,
  but each session has one writer; context objects are written by a statement that
  always fails (section 5);
- *the mesh*: notifications of contract updates and bugs, the web socket (it has no
  replay), statistics, the deletion of rows by age (`CleanupExpired`, `CleanupOlderThan`),
  which has no caller; the deletion after a merge is modelled (`DeleteRows`).  A full
  channel of a slow client is in `Mesh` (`Drop`) and not in `LocalMesh`;
- *autoscaling*: the environment's own sleep, wake and destruction are one step each;
- *billing*: the clocks of the server and of the database are one;
- *cloud providers*: their answers only; the requests, SSH and SSM are I/O;
- *authentication*: the server's own tokens and the static key need no cache; the
  development mode of the device login, which fills in a fixed user, is not modelled.

Hazards no property covers: an environment whose destroy or sleep was cut with its
request stays as it is, and nothing recovers what a restart forgot.  The code has no
answer to either, so the properties name these accidents (`cut`, `bootlost`, `unstopped`)
and say what holds without them.  `EndedIsKept` is about cancellations and parents; that
a late `CompleteTask` or `FailTask` overwrites an ended row is what its statement does.

Not modelled: merge simulation and multi-agent orchestration (no caller);
organisations and secrets (single-row reads and writes); the clients of Claude and the
vaults; the CLI, MCP and web front ends (formatting and transport; the parts of them
that keep state are in `LiveContext` and `DeviceAuth`).

Next, in this order:

1. An abstract specification of an environment (a row and the set of its servers,
   without copies or goroutines) that `EnvLifecycle` implements.
2. The heuristic tips as a function of what the attempts left, against a reference.
3. `LiveContext` composed with `Mesh`: the consumer's numbers as the table gives them.
