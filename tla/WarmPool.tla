------------------------------ MODULE WarmPool ------------------------------
(***************************************************************************)
(* The pool of servers booted in advance (internal/services/warm_pool.go): *)
(* rows of the table warm_pool, the servers they name, and whoever works   *)
(* on them:                                                                *)
(*   - the replenishment loop, which counts, spawns provisioners, trims    *)
(*     idle servers, forgets stale rows and drains;                        *)
(*   - the provisioners, one goroutine per new server;                     *)
(*   - EnvService.CreateEnvironment's boot goroutine, which acquires;      *)
(*   - DestroyEnvironment, which returns, and SleepEnvironment, which does *)
(*     not know of the pool.                                               *)
(* A step is one database statement or one call of a server or of the      *)
(* cloud.  EnvLifecycle models the calls on environments in full; here an  *)
(* environment is what the pool needs to know of it.                       *)
(***************************************************************************)
EXTENDS Naturals, FiniteSets

CONSTANTS
  PoolConfig,     \* [default, max] of WarmPoolConfig, as configured
  Targets,        \* the targets the service is given, some of the default ones
  Configured,     \* cloud providers the API server has credentials for
  Provisions,     \* runs of provisionWarmServer; also names their row and server
  TargetOf,       \* the target each provision is for
  PoolEnvs,       \* environments; also names the server of their cold boot
  Wants,          \* the target each environment asks for
  Callers,        \* requests that destroy environments or put them to sleep
  Nobody          \* no server, no environment

-----------------------------------------------------------------------------
(* Configuration. *)

HardMaxWarmPoolSize == 8

\* NewWarmPoolService: defaults and the hard cap
Normalised(c) ==
  LET d == IF c.default = 0 THEN 3 ELSE c.default
      m == IF c.max = 0 THEN d ELSE c.max
  IN [default |-> d, max |-> IF m > HardMaxWarmPoolSize THEN HardMaxWarmPoolSize ELSE m]

Least(a, b) == IF a < b THEN a ELSE b

\* DefaultPoolTargets: all but one small, one medium, and AWS beside them
DefaultPoolTargets(c) ==
  LET mediumMin == IF c.default >= 2 THEN 1 ELSE 0
      smallMin == c.default - mediumMin
      Target(p, min, max) == [provider |-> p, min |-> min, max |-> max]
  IN [small     |-> Target("hetzner", smallMin, Least(smallMin + 2, c.max)),
      medium    |-> Target("hetzner", mediumMin, Least(mediumMin + 1, c.max)),
      aws_small |-> Target("aws", 2, 4),
      aws_medium |-> Target("aws", 1, 2)]

PoolTargets == DefaultPoolTargets(PoolConfig)
MaxSize == Normalised(PoolConfig).max

ASSUME PoolAssumption ==
  /\ PoolConfig \in [default : Nat, max : Nat]
  /\ Targets \subseteq DOMAIN PoolTargets
  /\ TargetOf \in [Provisions -> Targets] /\ Wants \in [PoolEnvs -> Targets]
  /\ Provisions \cap PoolEnvs = {} /\ Nobody \notin Provisions \cup PoolEnvs
  /\ IsFiniteSet(Provisions)

PoolServers == Provisions \cup PoolEnvs

VARIABLES
  pool,      \* warm_pool.status of each provision's row
  job,       \* what each provisioner is doing
  keeper,    \* the replenishment loop, with the servers it listed for destruction
  up,        \* servers that are up at the provider
  environ,   \* each environment's row: [status, server]
  boot,      \* each environment's boot goroutine: [pc, server]
  caller,    \* each request: [pc, env, server], its copy of the row
  grown,     \* history: the pool was counted too early or not at all, or given a
             \* server back
  spoilt,    \* history: servers two parties were at work on
  stranded   \* history: servers that were given up, until they are down

poolVars == <<pool, job, keeper, up, environ, boot, caller,
              grown, spoilt, stranded>>
history == <<grown, spoilt, stranded>>

PoolTypeOK ==
  /\ pool \in [Provisions -> {"none", "warming", "ready", "assigned", "draining", "gone"}]
  /\ job \in [Provisions -> {"none", "spawned", "creating", "booting", "done"}]
  /\ keeper \in [pc : {"asleep", "fill", "trim", "list", "trimming", "drain", "draining"},
                 total : Nat, todo : SUBSET Targets,
                 target : Targets \cup {Nobody}, excess : Nat,
                 doomed : SUBSET Provisions, deleted : Provisions \cup {Nobody}]
  /\ up \subseteq PoolServers
  /\ environ \in [PoolEnvs -> [status : {"none", "creating", "running", "failed",
                                         "sleeping", "destroying", "destroyed"},
                               server : PoolServers \cup {Nobody}]]
  /\ boot \in [PoolEnvs -> [pc : {"none", "acquire", "mark", "start", "cold", "report",
                                  "done"},
                            server : Provisions \cup {Nobody}]]
  /\ caller \in [Callers -> [pc : {"idle", "d_mark", "d_clean", "d_return", "d_drain",
                                   "d_cloud", "d_done", "s_cloud", "s_write"},
                             env : PoolEnvs \cup {Nobody},
                             server : PoolServers \cup {Nobody}]]
  /\ grown \in BOOLEAN /\ spoilt \subseteq PoolServers /\ stranded \subseteq PoolServers

Asleep == [pc |-> "asleep", total |-> 0, todo |-> {}, target |-> Nobody,
           excess |-> 0, doomed |-> {}, deleted |-> Nobody]
NoBoot == [pc |-> "none", server |-> Nobody]
NoCall == [pc |-> "idle", env |-> Nobody, server |-> Nobody]

PoolInit ==
  /\ pool = [w \in Provisions |-> "none"]
  /\ job = [w \in Provisions |-> "none"] /\ keeper = Asleep /\ up = {}
  /\ environ = [e \in PoolEnvs |-> [status |-> "none", server |-> Nobody]]
  /\ boot = [e \in PoolEnvs |-> NoBoot] /\ caller = [c \in Callers |-> NoCall]
  /\ grown = FALSE /\ spoilt = {} /\ stranded = {}

-----------------------------------------------------------------------------
(* The cloud.  Hetzner reports an error for a server that is gone. *)

Deletes(s) == s \in up /\ up' = up \ {s} /\ stranded' = stranded \ {s}
DeleteFails == UNCHANGED <<up, stranded>>

Rows(t, statuses) == {w \in Provisions : TargetOf[w] = t /\ pool[w] \in statuses}

\* mutant of CountedStatuses: servers on their way are not counted
ReadyOnly == {"ready"}
CountedStatuses == {"ready", "warming"}
Counted == {w \in Provisions : pool[w] \in CountedStatuses}

\* assigned_to is written too, and read by nothing
SetRow(w, st) == pool' = [pool EXCEPT ![w] = st]

HasRow(s) == s \in Provisions /\ pool[s] \in {"ready", "assigned", "draining"}

\* UPDATE ... WHERE provider_id = s: no row names a server that was booted cold,
\* nor one whose row is deleted or has no provider_id yet
UpdateByServer(s, st) ==
  IF HasRow(s)
    THEN SetRow(s, st)
    ELSE UNCHANGED pool

\* Any statement may fail.  The pool drops most of these errors and goes on as if
\* the statement had been executed.
ErrorDropped == UNCHANGED pool

-----------------------------------------------------------------------------
(* The replenishment loop. *)

Keeper(pc) == keeper.pc = pc

\* From one part of the loop to the next, when nothing of it is left to do, or the
\* pool is full.
Onwards(k) ==
  CASE k.pc = "fill" /\ (k.todo = {} \/ k.total >= MaxSize) ->
         [Asleep EXCEPT !.pc = "trim", !.todo = Targets]
    [] k.pc = "trimming" /\ k.doomed = {} /\ k.deleted = Nobody ->
         [Asleep EXCEPT !.pc = "trim", !.todo = k.todo]
    [] k.pc = "draining" /\ k.doomed = {} /\ k.deleted = Nobody -> Asleep
    [] OTHER -> k

\* The global count, once for all targets.  If it fails the pool counts as empty.
Tick ==
  /\ Keeper("asleep")
  /\ \E total \in {0, Cardinality(Counted)} :
       /\ keeper' = Onwards([Asleep EXCEPT !.pc = "fill", !.total = total, !.todo = Targets])
       /\ grown' = \/ grown /\ Cardinality(Counted) > MaxSize
                   \/ total < Cardinality(Counted)
                   \/ \E w \in Provisions : job[w] = "spawned"
  /\ UNCHANGED <<pool, job, up, environ, boot, caller, spoilt, stranded>>

\* How many servers a target lacks, within its limit and the global one.
Deficit(t) ==
  LET have == Cardinality(Rows(t, CountedStatuses)) IN
  IF keeper.total >= MaxSize \/ have >= PoolTargets[t].min \/ have >= PoolTargets[t].max
    THEN 0
    ELSE Least(Least(PoolTargets[t].min, PoolTargets[t].max) - have, MaxSize - keeper.total)

\* Provisioners are spawned and counted at once; they insert their rows later.
\* One for a provider without credentials returns before it does anything.  A
\* target whose count fails is passed over.
Fill(t) ==
  /\ Keeper("fill") /\ t \in keeper.todo
  /\ \E n \in {0, Deficit(t)} :
        /\ keeper' = Onwards([keeper EXCEPT !.total = @ + n, !.todo = @ \ {t}])
        /\ LET free == {w \in Provisions : TargetOf[w] = t /\ job[w] = "none"} IN
           IF PoolTargets[t].provider \in Configured
             THEN \E new \in SUBSET free :
                    /\ Cardinality(new) = Least(n, Cardinality(free))  \* bound: Provisions
                    /\ job' = [w \in Provisions |-> IF w \in new THEN "spawned" ELSE job[w]]
             ELSE UNCHANGED job
  /\ UNCHANGED <<pool, up, environ, boot, caller, history>>

\* cleanupIdleServers: one statement counts a target's ready servers, another
\* selects the oldest of those beyond MinReady that have been idle too long.
\* A target with no more than MinReady, or whose count fails, is passed over.
CountIdle(t) ==
  /\ Keeper("trim") /\ t \in keeper.todo
  /\ Cardinality(Rows(t, {"ready"})) > PoolTargets[t].min
  /\ keeper' = [keeper EXCEPT !.pc = "list", !.todo = @ \ {t}, !.target = t,
                 !.excess = Cardinality(Rows(t, {"ready"})) - PoolTargets[t].min]
  /\ UNCHANGED <<pool, job, up, environ, boot, caller, history>>

ListIdle ==
  /\ Keeper("list")
  /\ \E idle \in SUBSET Rows(keeper.target, {"ready"}) :
       /\ Cardinality(idle) <= keeper.excess
       /\ keeper' = Onwards([keeper EXCEPT !.pc = "trimming", !.doomed = idle])
  /\ UNCHANGED <<pool, job, up, environ, boot, caller, history>>

\* mutant of DestroyDoomed: the row is deleted whatever the cloud said
DestroyDoomedAnyway(w) ==
  /\ keeper.pc \in {"trimming", "draining"} /\ keeper.deleted = Nobody /\ w \in keeper.doomed
  /\ Deletes(w) \/ DeleteFails
  /\ keeper' = [keeper EXCEPT !.doomed = @ \ {w}, !.deleted = w]
  /\ UNCHANGED <<pool, job, environ, boot, caller, grown, spoilt>>

\* An idle or draining server is destroyed, then its row deleted; a failure
\* leaves both for another round.
DestroyDoomed(w) ==
  /\ keeper.pc \in {"trimming", "draining"} /\ keeper.deleted = Nobody /\ w \in keeper.doomed
  /\ \/ /\ Deletes(w)
        /\ keeper' = [keeper EXCEPT !.doomed = @ \ {w}, !.deleted = w]
     \/ /\ DeleteFails
        /\ keeper' = Onwards([keeper EXCEPT !.doomed = @ \ {w}])
  /\ UNCHANGED <<pool, job, environ, boot, caller, grown, spoilt>>

ForgetDoomed ==
  /\ keeper.deleted # Nobody
  /\ SetRow(keeper.deleted, "gone") \/ ErrorDropped
  /\ keeper' = Onwards([keeper EXCEPT !.deleted = Nobody])
  /\ UNCHANGED <<job, up, environ, boot, caller, history>>

\* Rows that have been warming for 15 minutes are deleted, and nothing else.
ForgetStale ==
  /\ Keeper("trim")
  /\ keeper' = [Asleep EXCEPT !.pc = "drain"]
  /\ \E stale \in SUBSET {w \in Provisions : pool[w] = "warming"} :
       /\ pool' = [w \in Provisions |-> IF w \in stale THEN "gone" ELSE pool[w]]
       /\ stranded' = stranded \cup stale
  /\ UNCHANGED <<job, up, environ, boot, caller, grown, spoilt>>

\* drainStaleServers: nothing to do if the select fails
ListDraining ==
  /\ Keeper("drain")
  /\ \E drained \in {{}, {w \in Provisions : pool[w] = "draining"}} :
       keeper' = Onwards([Asleep EXCEPT !.pc = "draining", !.doomed = drained])
  /\ UNCHANGED <<pool, job, up, environ, boot, caller, history>>

KeeperStep ==
  \/ Tick \/ ForgetDoomed \/ ForgetStale \/ ListDraining \/ ListIdle
  \/ \E t \in Targets : Fill(t) \/ CountIdle(t)
  \/ \E w \in Provisions : DestroyDoomed(w)

-----------------------------------------------------------------------------
(* provisionWarmServer. *)

Job(w, pc) == job[w] = pc
JobTo(w, pc) == job' = [job EXCEPT ![w] = pc]

\* Without a row there is no server.
InsertWarming(w) ==
  /\ Job(w, "spawned")
  /\ \/ JobTo(w, "creating") /\ SetRow(w, "warming")
     \/ JobTo(w, "done") /\ UNCHANGED pool
  /\ UNCHANGED <<keeper, up, environ, boot, caller, history>>

CreateServer(w) ==
  /\ Job(w, "creating") /\ JobTo(w, "booting")
  /\ up' = up \cup {w}
  /\ UNCHANGED <<pool, keeper, environ, boot, caller, history>>

\* The row goes by its id; a server that was created and has no address or is
\* not ready in five minutes stays up, and nobody knows of it.
ProvisionFails(w) ==
  /\ Job(w, "creating") \/ Job(w, "booting")
  /\ JobTo(w, "done")
  /\ SetRow(w, "gone") \/ ErrorDropped
  /\ stranded' = stranded \cup (up \cap {w})
  /\ UNCHANGED <<keeper, up, environ, boot, caller, grown, spoilt>>

\* The update is by id: without effect if the row has been deleted as stale.  If it
\* fails the server stays up, and its row has neither its name nor its state.
MarkReady(w) ==
  /\ Job(w, "booting") /\ JobTo(w, "done")
  /\ \/ pool[w] = "warming" /\ SetRow(w, "ready") /\ UNCHANGED stranded
     \/ pool[w] # "warming" /\ UNCHANGED <<pool, stranded>>
     \/ ErrorDropped /\ stranded' = stranded \cup (up \cap {w})
  /\ UNCHANGED <<keeper, up, environ, boot, caller, grown, spoilt>>

ProvisionStep(w) == InsertWarming(w) \/ CreateServer(w) \/ ProvisionFails(w) \/ MarkReady(w)

-----------------------------------------------------------------------------
(* The boot of an environment. *)

Booting(e, pc) == boot[e].pc = pc
BootTo(e, pc, s) == boot' = [boot EXCEPT ![e] = [pc |-> pc, server |-> s]]

\* By id, whatever has become of the row; a call at work on it has an older copy.
Runs(e, s) ==
  /\ environ' = [environ EXCEPT ![e] = [status |-> "running", server |-> s]]
  /\ spoilt' = spoilt \cup {t \in {s} : \E c \in Callers : caller[c].env = e}

CreatePoolEnv(e) ==
  /\ environ[e].status = "none"
  /\ environ' = [environ EXCEPT ![e].status = "creating"]
  /\ BootTo(e, "acquire", Nobody)
  /\ UNCHANGED <<pool, job, keeper, up, caller, history>>

\* Servers the replenishment loop is about to destroy, or has.
OnTheBlock == keeper.doomed \cup ({keeper.deleted} \ {Nobody})

\* mutant of AcquireServer: a select without the row lock and its status check
AcquireUnlocked(e) ==
  /\ Booting(e, "acquire")
  /\ \E w \in Rows(Wants[e], {"ready", "assigned"}) :
       /\ SetRow(w, "assigned")
       /\ BootTo(e, "mark", w)
       /\ spoilt' = spoilt \cup ({w} \cap OnTheBlock)
  /\ UNCHANGED <<job, keeper, up, environ, caller, grown, stranded>>

\* One statement claims a ready server: FOR UPDATE SKIP LOCKED keeps it from
\* being claimed twice, and nothing keeps it from the clean-up's list.
AcquireServer(e) ==
  /\ Booting(e, "acquire")
  /\ \E w \in Rows(Wants[e], {"ready"}) :
       /\ SetRow(w, "assigned")
       /\ BootTo(e, "mark", w)
       /\ spoilt' = spoilt \cup ({w} \cap OnTheBlock)
  /\ UNCHANGED <<job, keeper, up, environ, caller, grown, stranded>>

\* No server is ready, or the statement fails: a cold boot either way.
NoneReady(e) ==
  /\ Booting(e, "acquire") /\ BootTo(e, "cold", Nobody)
  /\ UNCHANGED <<pool, job, keeper, up, environ, caller, history>>

\* The statement is committed and its answer lost: the server is assigned to nobody.
AcquiredUnheard(e) ==
  /\ Booting(e, "acquire") /\ BootTo(e, "cold", Nobody)
  /\ \E w \in Rows(Wants[e], {"ready"}) :
       /\ SetRow(w, "assigned")
       /\ stranded' = stranded \cup (up \cap {w})
       /\ spoilt' = spoilt \cup ({w} \cap OnTheBlock)
  /\ UNCHANGED <<job, keeper, up, environ, caller, grown>>

MarkAssigned(e) ==
  /\ Booting(e, "mark") /\ BootTo(e, "start", boot[e].server)
  /\ IF pool[boot[e].server] = "gone" THEN UNCHANGED pool ELSE SetRow(boot[e].server, "assigned")
  /\ UNCHANGED <<job, keeper, up, environ, caller, history>>

StartWarm(e) ==
  /\ Booting(e, "start") /\ boot[e].server \in up
  /\ Runs(e, boot[e].server) /\ BootTo(e, "done", Nobody)
  /\ UNCHANGED <<pool, job, keeper, up, caller, grown, stranded>>

\* The container does not start: a cold boot instead.  The row stays assigned
\* and the server up.
StartFails(e) ==
  /\ Booting(e, "start") /\ BootTo(e, "cold", Nobody)
  /\ stranded' = stranded \cup (up \cap {boot[e].server})
  /\ UNCHANGED <<pool, job, keeper, up, environ, caller, grown, spoilt>>

ColdBoot(e) ==
  /\ Booting(e, "cold")
  /\ \/ /\ up' = up \cup {e} /\ BootTo(e, "report", Nobody)
        /\ UNCHANGED environ
     \/ /\ environ' = [environ EXCEPT ![e].status = "failed"] /\ BootTo(e, "done", Nobody)
        /\ UNCHANGED up
  /\ UNCHANGED <<pool, job, keeper, caller, history>>

ReportCold(e) ==
  /\ Booting(e, "report") /\ BootTo(e, "done", Nobody)
  /\ Runs(e, e)
  /\ UNCHANGED <<pool, job, keeper, up, caller, grown, stranded>>

BootStep(e) ==
  \/ CreatePoolEnv(e) \/ AcquireServer(e) \/ NoneReady(e) \/ AcquiredUnheard(e)
  \/ MarkAssigned(e) \/ StartWarm(e) \/ StartFails(e) \/ ColdBoot(e) \/ ReportCold(e)

-----------------------------------------------------------------------------
(* Destroy and sleep, from the copy of the row they read. *)

Calling(c, pc) == caller[c].pc = pc
CallTo(c, pc) == caller' = [caller EXCEPT ![c].pc = pc]
CallEnds(c) == caller' = [caller EXCEPT ![c] = NoCall]
Write(c, st) ==
  environ' = [environ EXCEPT ![caller[c].env] = [status |-> st, server |-> caller[c].server]]

\* Two calls at work on one server.
Overlap(e) == {environ[e].server : c \in {d \in Callers : caller[d].env = e}} \ {Nobody}

ReadEnv(c, e, pc) ==
  /\ Calling(c, "idle")
  /\ caller' = [caller EXCEPT ![c] = [pc |-> pc, env |-> e, server |-> environ[e].server]]
  /\ spoilt' = spoilt \cup Overlap(e)
  /\ UNCHANGED <<pool, job, keeper, up, environ, boot, grown, stranded>>

StartDestroy(c, e) ==
  environ[e].status \notin {"none", "destroyed", "destroying"} /\ ReadEnv(c, e, "d_mark")

StartSleep(c, e) == environ[e].status = "running" /\ ReadEnv(c, e, "s_cloud")

MarkDestroying(c) ==
  /\ Calling(c, "d_mark") /\ Write(c, "destroying")
  /\ CallTo(c, IF caller[c].server = Nobody THEN "d_done" ELSE "d_clean")
  /\ UNCHANGED <<pool, job, keeper, up, boot, history>>

\* ReturnServer: the server is cleaned through its shell, or else drained.
CleanServer(c) ==
  /\ Calling(c, "d_clean")
  /\ \/ CallTo(c, "d_return") /\ caller[c].server \in up
     \/ CallTo(c, "d_drain")
  /\ UNCHANGED <<pool, job, keeper, up, environ, boot, history>>

\* The row of a server booted cold does not exist: the server counts as recycled
\* and is neither in the pool nor destroyed.
ReturnServer(c) ==
  LET s == caller[c].server IN
  /\ Calling(c, "d_return") /\ CallTo(c, "d_done")
  /\ UpdateByServer(s, "ready")
  /\ grown' = TRUE
  /\ stranded' = IF HasRow(s) THEN stranded ELSE stranded \cup (up \cap {s})
  /\ spoilt' = spoilt \cup ({s} \cap OnTheBlock)
  /\ UNCHANGED <<job, keeper, up, environ, boot>>

\* The row is not made ready again: the server is destroyed instead.
ReturnFails(c) ==
  /\ Calling(c, "d_return") /\ CallTo(c, "d_cloud")
  /\ UNCHANGED <<pool, job, keeper, up, environ, boot, history>>

DrainServer(c) ==
  /\ Calling(c, "d_drain") /\ CallTo(c, "d_cloud")
  /\ UpdateByServer(caller[c].server, "draining") \/ ErrorDropped
  /\ UNCHANGED <<job, keeper, up, environ, boot, history>>

\* A destroy that fails leaves the row at destroying.
DestroyServer(c) ==
  /\ Calling(c, "d_cloud")
  /\ \/ Deletes(caller[c].server) /\ CallTo(c, "d_done")
     \/ DeleteFails /\ CallEnds(c)
  /\ UNCHANGED <<pool, job, keeper, environ, boot, grown, spoilt>>

FinishDestroy(c) ==
  /\ Calling(c, "d_done") /\ Write(c, "destroyed") /\ CallEnds(c)
  /\ UNCHANGED <<pool, job, keeper, up, boot, history>>

\* SleepEnvironment destroys the server, whosever it is; an error is logged.
SleepServer(c) ==
  LET s == caller[c].server IN
  /\ Calling(c, "s_cloud") /\ CallTo(c, "s_write")
  /\ \/ Deletes(s)
     \/ UNCHANGED up /\ stranded' = stranded \cup (up \cap {s})
  /\ UNCHANGED <<pool, job, keeper, environ, boot, grown, spoilt>>

FinishSleep(c) ==
  /\ Calling(c, "s_write") /\ Write(c, "sleeping") /\ CallEnds(c)
  /\ UNCHANGED <<pool, job, keeper, up, boot, history>>

CallStep(c) ==
  \/ \E e \in PoolEnvs : StartDestroy(c, e) \/ StartSleep(c, e)
  \/ MarkDestroying(c) \/ CleanServer(c) \/ ReturnServer(c) \/ ReturnFails(c)
  \/ DrainServer(c) \/ DestroyServer(c) \/ FinishDestroy(c) \/ SleepServer(c) \/ FinishSleep(c)

-----------------------------------------------------------------------------
InHand == {caller[c].server : c \in Callers}

\* A restart, at any time and as often as it likes, takes every goroutine; the
\* rows and the servers stay.
Restart ==
  /\ keeper' = Asleep
  /\ stranded' = stranded \cup
       (({w \in Provisions : job[w] = "booting"} \cup {e \in PoolEnvs : Booting(e, "report")}
         \cup {boot[e].server : e \in PoolEnvs} \cup InHand) \cap up)
  /\ spoilt' = spoilt \cup ((OnTheBlock \cup InHand) \ {Nobody})
  /\ job' = [w \in Provisions |-> IF job[w] = "none" THEN "none" ELSE "done"]
  /\ boot' = [e \in PoolEnvs |-> IF Booting(e, "none") THEN NoBoot ELSE [NoBoot EXCEPT !.pc = "done"]]
  /\ caller' = [c \in Callers |-> NoCall]
  /\ UNCHANGED <<pool, up, environ, grown>>

PoolNext ==
  \/ KeeperStep
  \/ \E w \in Provisions : ProvisionStep(w)
  \/ \E e \in PoolEnvs : BootStep(e)
  \/ \E c \in Callers : CallStep(c)
  \/ Restart

PoolSpec == PoolInit /\ [][PoolNext]_poolVars

-----------------------------------------------------------------------------
(* Properties. *)

\* A server that has got a running environment is that one's alone: it is up, no
\* other environment runs on it or is being booted on it, and the pool does not
\* offer it; unless two calls, or a call and the clean-up, were at work on it at
\* once (AcquireServer, ReturnServer, cleanupIdleServers).
ServesOne ==
  \A e \in PoolEnvs :
    LET s == environ[e].server IN
    environ[e].status = "running" /\ s \notin spoilt /\ e \notin {caller[c].env : c \in Callers}
    => /\ s \in up
       /\ \A f \in PoolEnvs \ {e} :
            /\ boot[f].server # s
            /\ ~(environ[f].status = "running" /\ environ[f].server = s)
       /\ s \in Provisions => pool[s] \notin {"ready", "draining"}

\* A server that is up is in the pool, or being provisioned or booted, or the
\* server of an environment that is not destroyed, unless it was given up for a
\* named reason: provisioning failed after its creation, its row was too old or not
\* updated, the answer to its acquisition was lost, its container did not start, it
\* was returned without a row, or a restart.
ServersAccounted ==
  \A s \in up \ (stranded \cup spoilt) :
    \/ \E e \in PoolEnvs : \/ environ[e].server = s /\ environ[e].status # "destroyed"
                           \/ boot[e].server = s
                           \/ Booting(e, "report") /\ e = s
    \/ s \in Provisions /\ (pool[s] \in {"ready", "draining"} \/ job[s] = "booting")

\* The pool is never larger than MaxSize, whatever is spawned, acquired and
\* destroyed while it is counted and whatever the counts of single targets do, unless
\* the global count failed or came before the inserts of an earlier round, or a
\* server was returned, which nothing limits (replenish).
PoolBounded ==
  grown \/ Cardinality({w \in Provisions : pool[w] \in {"ready", "warming"}
                                             \/ job[w] = "spawned"}) <= MaxSize
=============================================================================
