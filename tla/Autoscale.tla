------------------------------ MODULE Autoscale ------------------------------
(***************************************************************************)
(* Autoscaling of one environment (autoscale_service.go): its policy row,  *)
(* which the API sets and deletes, and the monitor, one goroutine, that    *)
(* evaluates the policy every 30 seconds and adds or removes containers on *)
(* the environment's server, one command and one statement at a time.      *)
(* Beside it the environment is put to sleep, woken on another server and  *)
(* destroyed (env_service.go), which takes the server with its containers  *)
(* and leaves the rows of the replicas; how those calls race each other is *)
(* EnvLifecycle's.  Loads, targets and thresholds are percentages.         *)
(***************************************************************************)
EXTENDS Integers, Sequences, FiniteSets

CONSTANTS
  Policies,       \* what the API is asked for: [min, max, target, up, down]
  Loads,          \* loads an agent reports
  Feeds,          \* does a report reach the keys the monitor reads
  ServerHolds,    \* maxPerServer, less the environment's own container
  MaxRounds,      \* bound: evaluations that scale
  MaxServers,     \* bound: servers the environment has in turn
  MaxSlips        \* bound: commands and statements that fail

ASSUME AutoscaleAssumption ==
  /\ Policies \subseteq [min : Nat, max : 0 .. 10, target : 1 .. 100, up : Nat, down : Nat]
  /\ Loads \subseteq Nat /\ Feeds \subseteq BOOLEAN
  /\ {ServerHolds, MaxRounds, MaxServers, MaxSlips} \subseteq Nat

VARIABLES
  policy,         \* row of autoscale_policies; id 0 when there is none
  cooling,        \* is the last scaling more recent than the cooldown
  load,           \* last report, [cpu, mem]
  feeds,          \* see Feeds
  replicas,       \* rows of environments, oldest first: [n, on, running]
  containers,     \* the replica containers there are: [n, on], on a server
  parent,         \* the environment's row, [status, server], and is it on the
                  \* list of the idle monitor
  gone,           \* servers that were taken away
  monitor,        \* what the monitor is doing
  unmarked,       \* history: rows whose end could not be written
  ids, slips, rounds

autoscaleVars == <<policy, cooling, load, feeds, replicas, containers, parent, gone, monitor,
                   unmarked, ids, slips, rounds>>
settingVars == <<policy, cooling, load, feeds, ids>>
serverVars == <<parent, gone>>

NoPolicy == [id |-> 0, min |-> 1, max |-> 1, target |-> 1, up |-> 1, down |-> 1, current |-> 1]
Waiting == [at |-> "wait", policy |-> NoPolicy, desired |-> 1, on |-> 0, next |-> 1, last |-> 0,
            doomed |-> <<>>]

AutoscaleInit ==
  /\ policy = NoPolicy /\ cooling = FALSE /\ load = [cpu |-> 0, mem |-> 0]
  /\ feeds \in Feeds
  /\ replicas = <<>> /\ containers = {}
  /\ parent = [status |-> "running", server |-> 1, listed |-> FALSE] /\ gone = {}
  /\ monitor = Waiting /\ unmarked = {} /\ ids = 0 /\ slips = 0 /\ rounds = 0

Slip == slips < MaxSlips /\ slips' = slips + 1
NoSlip == UNCHANGED slips

-----------------------------------------------------------------------------
(* CreateOrUpdatePolicy: what is asked for is normalised; the number of      *)
(* replicas is the row's, or 1 for a new row.                                *)
Larger(a, b) == IF a < b THEN b ELSE a
Smaller(a, b) == IF a < b THEN a ELSE b
Normal(p) == [p EXCEPT !.min = Larger(1, @), !.max = Larger(@, Larger(1, p.min))]

SetPolicy(p) ==
  /\ Normal(p).max <= 10
  /\ \E q \in {[id |-> IF policy.id = 0 THEN ids + 1 ELSE policy.id,
                current |-> IF policy.id = 0 THEN 1 ELSE policy.current,
                min |-> Normal(p).min, max |-> Normal(p).max,
                target |-> p.target, up |-> p.up, down |-> p.down]} :
       q # policy /\ policy' = q
  /\ ids' = IF policy.id = 0 THEN ids + 1 ELSE ids
  /\ cooling' = (policy.id # 0 /\ cooling)
  /\ ids' <= MaxRounds
  /\ UNCHANGED <<load, feeds, replicas, containers, serverVars, monitor, unmarked, slips, rounds>>

DeletePolicy ==
  /\ policy.id # 0 /\ policy' = NoPolicy /\ cooling' = FALSE
  /\ UNCHANGED <<load, feeds, replicas, containers, serverVars, monitor, unmarked, ids, slips, rounds>>

CooldownEnds ==
  /\ cooling /\ cooling' = FALSE
  /\ UNCHANGED <<policy, load, feeds, replicas, containers, serverVars, monitor, unmarked, ids, slips, rounds>>

\* handleAgentHealthReport: the report goes to config.agent_health
HealthReport(cpu, mem) ==
  /\ load' = [cpu |-> cpu, mem |-> mem] /\ load' # load
  /\ UNCHANGED <<policy, cooling, feeds, replicas, containers, serverVars, monitor, unmarked, ids, slips, rounds>>

-----------------------------------------------------------------------------
(* evaluate: how many replicas there should be.                              *)
Ceiling(a, b) == (a + b - 1) \div b
Hot(p, l) == l.cpu > p.up \/ l.mem > p.up
Cold(p, l) == l.cpu < p.down /\ l.mem < p.down
Clamp(p, n) == Smaller(Larger(n, p.min), p.max)

Desired(p, l) ==
  LET peak == Larger(l.cpu, l.mem)
      risen == IF Hot(p, l) THEN Ceiling(p.current * peak, p.target) ELSE p.current
  IN Clamp(p, IF Cold(p, l) /\ 2 * peak < p.target THEN Larger(p.min, p.current - 1) ELSE risen)

\* config's cpu_percent and mem_percent
Metrics == IF feeds THEN load ELSE [cpu |-> 0, mem |-> 0]

Evaluate ==
  /\ monitor.at = "wait" /\ policy.id # 0 /\ ~cooling /\ rounds < MaxRounds
  /\ monitor' = [Waiting EXCEPT !.at = "measure", !.policy = policy]
  /\ UNCHANGED <<settingVars, replicas, containers, serverVars, unmarked, slips, rounds>>

Measure ==
  LET p == monitor.policy
      n == Desired(p, Metrics)
  IN /\ monitor.at = "measure"
     /\ IF parent.status # "running" \/ Metrics = [cpu |-> 0, mem |-> 0] \/ n = p.current
        THEN monitor' = Waiting /\ UNCHANGED rounds
        ELSE /\ monitor' = [monitor EXCEPT !.at = IF n > p.current THEN "count" ELSE "select",
                                           !.desired = n]
             /\ rounds' = rounds + 1
     /\ UNCHANGED <<settingVars, replicas, containers, serverVars, unmarked, slips>>

-----------------------------------------------------------------------------
(* scaleUp, scaleUpContainers: as many as the server has room for.  On a     *)
(* server that is gone every command fails.                                  *)
On(server) == {c \in containers : c.on = server}

CountContainers ==
  LET p == monitor.policy
      free == ServerHolds - Cardinality(On(parent.server))
      wanted == monitor.desired - p.current
  IN /\ monitor.at = "count"
     /\ \/ /\ parent.server \notin gone /\ NoSlip
           /\ monitor' = [monitor EXCEPT !.at = IF free > 0 THEN "run" ELSE "update",
                                         !.on = parent.server, !.next = p.current,
                                         !.last = p.current + Smaller(wanted, free) - 1]
        \/ (IF parent.server \in gone THEN NoSlip ELSE Slip)
           /\ monitor' = [monitor EXCEPT !.at = "update"]
     /\ UNCHANGED <<settingVars, replicas, containers, serverVars, unmarked, rounds>>

Replica == [n |-> monitor.next, on |-> monitor.on]
NextReplica == [monitor EXCEPT !.at = IF monitor.next = monitor.last THEN "update" ELSE "run",
                               !.next = @ + 1]

\* mutant of RunContainer: a row is written whether or not the container runs
RunContainerOrNot ==
  /\ monitor.at = "run" /\ monitor' = [monitor EXCEPT !.at = "insert"]
  /\ \/ containers' = containers \cup {Replica} /\ NoSlip
     \/ Slip /\ UNCHANGED containers
  /\ UNCHANGED <<settingVars, replicas, serverVars, unmarked, rounds>>

\* docker run --name fails when there is a container of that name
RunContainer ==
  LET refused == monitor.on \in gone \/ Replica \in containers IN
  /\ monitor.at = "run"
  /\ \/ ~refused /\ containers' = containers \cup {Replica} /\ NoSlip
        /\ monitor' = [monitor EXCEPT !.at = "insert"]
     \/ refused /\ monitor' = NextReplica /\ NoSlip /\ UNCHANGED containers
     \/ /\ ~refused /\ Slip /\ monitor' = NextReplica
        /\ containers' \in {containers, containers \cup {Replica}}
  /\ UNCHANGED <<settingVars, replicas, serverVars, unmarked, rounds>>

\* INSERT ... ON CONFLICT (id) DO NOTHING
InsertReplica ==
  LET n == monitor.next
      known == \E i \in DOMAIN replicas : replicas[i].n = n
  IN /\ monitor.at = "insert" /\ monitor' = NextReplica
     /\ \/ NoSlip /\ replicas' = IF known THEN replicas
                                 ELSE Append(replicas, [n |-> n, on |-> monitor.on,
                                                        running |-> TRUE])
        \/ Slip /\ UNCHANGED replicas
     /\ UNCHANGED <<settingVars, containers, serverVars, unmarked, rounds>>

-----------------------------------------------------------------------------
(* scaleDown: the youngest running rows, each removed from the server it     *)
(* names; the command's result is ignored.                                   *)
Container(row) == [n |-> row.n, on |-> row.on]
Up == {i \in DOMAIN replicas : replicas[i].running}
YoungestFirst(picked) ==
  \A k \in DOMAIN picked : {j \in Up : j > picked[k]} = {picked[i] : i \in 1 .. k - 1}

SelectReplicas ==
  LET count == Smaller(monitor.policy.current - monitor.desired, Cardinality(Up))
  IN /\ monitor.at = "select"
     /\ \E picked \in [1 .. count -> Up] :
          /\ YoungestFirst(picked)
          /\ monitor' = [monitor EXCEPT !.at = IF count = 0 THEN "update" ELSE "remove",
                                        !.doomed = [k \in 1 .. count |-> Container(replicas[picked[k]])]]
     /\ UNCHANGED <<settingVars, replicas, containers, serverVars, unmarked, slips, rounds>>

RemoveContainer ==
  /\ monitor.at = "remove" /\ monitor' = [monitor EXCEPT !.at = "mark"]
  /\ \/ NoSlip /\ containers' = containers \ {Head(monitor.doomed)}
     \/ Slip /\ UNCHANGED containers
  /\ UNCHANGED <<settingVars, replicas, serverVars, unmarked, rounds>>

MarkDestroyed ==
  /\ monitor.at = "mark"
  /\ monitor' = [monitor EXCEPT !.at = IF Len(monitor.doomed) = 1 THEN "update" ELSE "remove",
                                !.doomed = Tail(@)]
  /\ \/ NoSlip /\ replicas' = [i \in DOMAIN replicas |->
                                IF replicas[i].n = Head(monitor.doomed).n
                                THEN [replicas[i] EXCEPT !.running = FALSE] ELSE replicas[i]]
        /\ UNCHANGED unmarked
     \/ Slip /\ unmarked' = unmarked \cup {Head(monitor.doomed).n} /\ UNCHANGED replicas
  /\ UNCHANGED <<settingVars, containers, serverVars, rounds>>

\* The count is what was desired, whatever came of it; an error is ignored
UpdatePolicy ==
  /\ monitor.at = "update" /\ monitor' = Waiting
  /\ \/ /\ NoSlip /\ policy.id = monitor.policy.id
        /\ policy' = [policy EXCEPT !.current = monitor.desired] /\ cooling' = TRUE
     \/ NoSlip /\ policy.id # monitor.policy.id /\ UNCHANGED <<policy, cooling>>
     \/ Slip /\ UNCHANGED <<policy, cooling>>
  /\ UNCHANGED <<load, feeds, replicas, containers, serverVars, unmarked, ids, rounds>>

MonitorStep == Evaluate \/ Measure \/ CountContainers \/ RunContainer \/ InsertReplica
               \/ SelectReplicas \/ RemoveContainer \/ MarkDestroyed \/ UpdatePolicy

-----------------------------------------------------------------------------
(* The environment itself.  Its server goes when the provider has removed    *)
(* it, with the containers on it; no statement touches the replicas' rows.   *)
Without(servers) == {c \in containers : c.on \notin servers}

\* ListAllRunning cannot read a replica's row, which has no context_branch
\* (NULL into a string): while one is running the idle monitor lists nothing
IdleList ==
  /\ parent.status = "running" /\ ~parent.listed
  /\ Up = {}
  /\ parent' = [parent EXCEPT !.listed = TRUE]
  /\ UNCHANGED <<settingVars, replicas, containers, gone, monitor, unmarked, slips, rounds>>

\* SleepEnvironment: the provider's error is only logged
IdleSleep ==
  /\ parent.listed
  /\ IF parent.status = "running"
     THEN /\ parent' = [parent EXCEPT !.status = "sleeping", !.listed = FALSE]
          /\ gone' \in {gone, gone \cup {parent.server}}
     ELSE parent' = [parent EXCEPT !.listed = FALSE] /\ UNCHANGED gone
  /\ containers' = Without(gone')
  /\ UNCHANGED <<settingVars, replicas, monitor, unmarked, slips, rounds>>

\* WakeEnvironment, up to the end of its boot
Wake ==
  /\ parent.status = "sleeping" /\ parent.server < MaxServers
  /\ parent' = [parent EXCEPT !.status = "running", !.server = @ + 1]
  /\ UNCHANGED <<settingVars, replicas, containers, gone, monitor, unmarked, slips, rounds>>

\* DestroyEnvironment: the server goes, or is left when the provider fails, or
\* goes back to the pool, where only gradient-env is removed from it
Destroy ==
  /\ parent.status # "destroyed"
  /\ parent' = [parent EXCEPT !.status = "destroyed"]
  /\ gone' \in {gone, gone \cup {parent.server}}
  /\ containers' = Without(gone')
  /\ UNCHANGED <<settingVars, replicas, monitor, unmarked, slips, rounds>>

AutoscaleNext ==
  \/ \E p \in Policies : SetPolicy(p)
  \/ DeletePolicy \/ CooldownEnds
  \/ \E c, m \in Loads : HealthReport(c, m)
  \/ MonitorStep
  \/ IdleList \/ IdleSleep \/ Wake \/ Destroy

AutoscaleSpec == AutoscaleInit /\ [][AutoscaleNext]_autoscaleVars

-----------------------------------------------------------------------------
AutoscaleTypeOK ==
  /\ policy.id \in 0 .. ids /\ cooling \in BOOLEAN
  /\ \A i, j \in DOMAIN replicas : replicas[i].n = replicas[j].n => i = j
  /\ monitor.at \in {"wait", "measure", "count", "run", "insert", "select", "remove",
                     "mark", "update"}
  /\ parent \in [status : {"running", "sleeping", "destroyed"}, server : 1 .. MaxServers + 1,
                listed : BOOLEAN]
  /\ gone \subseteq 1 .. parent.server
  /\ slips \in 0 .. MaxSlips /\ rounds \in 0 .. MaxRounds

(* The policy's count stays between 1 and the cap of 10, and within the      *)
(* limits of some policy that was asked for, whatever the API does to the    *)
(* policy while the monitor works from what it read.                         *)
CountStaysInLimits ==
  \/ policy.current = 1
  \/ \E p \in Policies : policy.current \in Normal(p).min .. Normal(p).max

(* "Scale up: if either CPU or memory exceeds the scale-up threshold": under *)
(* a policy whose threshold is not below its target, load above it never     *)
(* makes the monitor want fewer replicas than there are, except to come down *)
(* to a lowered maximum.                                                     *)
HotNeverShrinks ==
  [][(monitor.at = "measure" /\ Hot(monitor.policy, Metrics)
      /\ monitor.policy.up >= monitor.policy.target
      /\ monitor.policy.current <= monitor.policy.max)
     => monitor'.at # "select"]_autoscaleVars

(* "If a server is at container capacity, scaling stops."                    *)
CapacityKept == \A server \in 1 .. parent.server : Cardinality(On(server)) <= ServerHolds

(* A row that says a replica is running is that of a container that runs on  *)
(* the server the row names, but for the one the monitor is just removing,   *)
(* rows whose end could not be written, and the rows a server leaves behind  *)
(* that was taken away with the environment, asleep or destroyed: no         *)
(* replica loses its container while the environment keeps its server.       *)
RowsHaveContainers ==
  \A i \in DOMAIN replicas :
    replicas[i].running =>
      \/ Container(replicas[i]) \in containers
      \/ monitor.at = "mark" /\ Head(monitor.doomed) = Container(replicas[i])
      \/ replicas[i].n \in unmarked
      \/ replicas[i].on \in gone

=============================================================================
