----------------------------- MODULE UsageProofs -----------------------------
(***************************************************************************)
(* Theorems of what is counted and paid for: autoscaling (Autoscale), and  *)
(* usage, credits and Stripe (Billing).                                    *)
(***************************************************************************)
EXTENDS Autoscale, Billing, FiniteSetTheorems, TLAPS

-----------------------------------------------------------------------------
(* Autoscale.                                                               *)

Rules == [id : Nat, min : Int, max : Int, target : Int, up : Int, down : Int, current : Int]
MonitorPlaces == {"wait", "measure", "count", "run", "insert", "select", "remove", "mark", "update"}

\* a policy with the limits of one that was asked for
AskedFor(q) == \E p \in Policies : q.min = Normal(p).min /\ q.max = Normal(p).max
                                /\ q.target = p.target /\ q.up = p.up
CountWithin(n) == n = 1 \/ \E p \in Policies : n \in Normal(p).min .. Normal(p).max

Spot == [n : Int, on : Int]
ReplicaRow == [n : Int, on : Int, running : BOOLEAN]
MonitorRow == [at : MonitorPlaces, policy : Rules, desired : Int, on : Int, next : Int, last : Int,
               doomed : Seq(Spot)]
Held(C, server) == Cardinality({c \in C : c.on = server})

ParentTyped ==
  /\ parent \in [status : {"running", "sleeping", "destroyed"}, server : 1 .. MaxServers + 1,
                 listed : BOOLEAN]
  /\ gone \subseteq 1 .. parent.server

AutoscaleShape ==
  /\ policy \in Rules /\ policy.id \in 0 .. ids /\ ids \in Nat /\ cooling \in BOOLEAN
  /\ load \in [cpu : Nat, mem : Nat] /\ feeds \in BOOLEAN
  /\ replicas \in Seq(ReplicaRow)
  /\ containers \in SUBSET Spot /\ IsFiniteSet(containers)
  /\ ParentTyped
  /\ monitor \in MonitorRow
  /\ slips \in 0 .. MaxSlips /\ rounds \in 0 .. MaxRounds
  /\ monitor.at = "measure" => rounds < MaxRounds

\* the row and the monitor's copy of it are NoPolicy or have limits that were asked
\* for, and their counts are within such limits, as is what the monitor decided
LimitsInv ==
  /\ policy.id # 0 => AskedFor(policy)
  /\ CountWithin(policy.current) /\ CountWithin(monitor.policy.current)
  /\ monitor.at # "wait" => monitor.policy.id # 0 /\ AskedFor(monitor.policy)
  /\ monitor.at \notin {"wait", "measure"} => CountWithin(monitor.desired)

\* there is room for the containers that are still to be started
RoomInv ==
  /\ \A server \in Int : Held(containers, server) <= ServerHolds
  /\ monitor.at = "count" => monitor.desired > monitor.policy.current
  /\ monitor.at = "run" =>
       /\ monitor.next <= monitor.last
       /\ Held(containers, monitor.on) + (monitor.last - monitor.next + 1) <= ServerHolds
  /\ monitor.at = "insert" =>
       /\ monitor.next <= monitor.last
       /\ Replica \in containers \/ monitor.on \in gone
       /\ Held(containers, monitor.on) + (monitor.last - monitor.next) <= ServerHolds

\* the rows and their containers
ReplicaInv ==
  /\ \A i, j \in DOMAIN replicas : replicas[i].n = replicas[j].n => i = j
  /\ monitor.at \in {"remove", "mark"} => monitor.doomed # <<>>
  /\ monitor.at = "select" => monitor.desired < monitor.policy.current
  /\ RowsHaveContainers

AutoscaleInv == AutoscaleShape /\ LimitsInv /\ RoomInv /\ ReplicaInv

LEMMA SmallerLarger ==
  ASSUME NEW a \in Int, NEW b \in Int
  PROVE  /\ Smaller(a, b) \in Int /\ Smaller(a, b) <= a /\ Smaller(a, b) <= b
         /\ Smaller(a, b) = a \/ Smaller(a, b) = b
         /\ Larger(a, b) \in Int /\ Larger(a, b) >= a /\ Larger(a, b) >= b
         /\ Larger(a, b) = a \/ Larger(a, b) = b
  BY DEF Smaller, Larger

\* what is asked for, normalised, leaves room for a count
LEMMA NormalLimits ==
  ASSUME NEW p \in Policies
  PROVE  /\ Normal(p).min \in Int /\ Normal(p).max \in Int /\ 1 <= Normal(p).min
         /\ Normal(p).min <= Normal(p).max
         /\ p.target \in 1 .. 100 /\ p.up \in Nat /\ p.down \in Nat
<1>1. p \in [min : Nat, max : 0 .. 10, target : 1 .. 100, up : Nat, down : Nat]
  BY AutoscaleAssumption
<1>2. Normal(p).min = Larger(1, p.min) /\ Normal(p).max = Larger(p.max, Larger(1, p.min))
  BY <1>1 DEF Normal
<1> QED BY <1>1, <1>2 DEF Larger

LEMMA Started ==
  /\ NoPolicy \in Rules /\ NoPolicy.id = 0 /\ NoPolicy.current = 1
  /\ Waiting \in MonitorRow
  /\ Waiting.at = "wait" /\ Waiting.policy = NoPolicy
  BY DEF NoPolicy, Waiting, Rules, MonitorPlaces, MonitorRow

LEMMA AutoscaleInitInv == AutoscaleInit => AutoscaleInv
<1> SUFFICES ASSUME AutoscaleInit PROVE AutoscaleInv
  OBVIOUS
<1>1. IsFiniteSet({}) /\ Cardinality({}) = 0 /\ \A server \in Int : Held({}, server) = 0
  <2>1. \A server \in Int : {c \in {} : c.on = server} = {}
    OBVIOUS
  <2> QED BY <2>1, FS_EmptySet DEF Held
<1>2. AutoscaleShape
  <2>1. policy = NoPolicy /\ policy \in Rules /\ policy.id \in 0 .. ids /\ ids = 0
    BY Started DEF AutoscaleInit
  <2>2. replicas = <<>> /\ replicas \in Seq(ReplicaRow)
    BY DEF AutoscaleInit
  <2>4. ParentTyped
    BY AutoscaleAssumption DEF AutoscaleInit, ParentTyped
  <2>3. cooling \in BOOLEAN /\ load \in [cpu : Nat, mem : Nat] /\ feeds \in BOOLEAN
    BY AutoscaleAssumption DEF AutoscaleInit
  <2> QED BY <1>1, <2>1, <2>2, <2>3, <2>4, Started, AutoscaleAssumption DEF AutoscaleInit, AutoscaleShape
<1>3. LimitsInv /\ RoomInv /\ ReplicaInv
  BY <1>1, Started, AutoscaleAssumption
  DEF AutoscaleInit, LimitsInv, RoomInv, ReplicaInv, CountWithin, RowsHaveContainers
<1> QED BY <1>2, <1>3 DEF AutoscaleInv

-----------------------------------------------------------------------------
\* The API's steps leave the monitor and its replicas alone.
LEMMA PolicyStepInv ==
  ASSUME AutoscaleInv, policy' \in Rules, policy'.id \in 0 .. ids', ids' \in Nat,
         cooling' \in BOOLEAN, policy'.id # 0 => AskedFor(policy'), CountWithin(policy'.current),
         UNCHANGED <<load, feeds, replicas, containers, parent, gone, monitor, unmarked, slips, rounds>>
  PROVE  AutoscaleInv'
<1>1. AutoscaleShape'
  BY DEF AutoscaleInv, AutoscaleShape, ParentTyped
<1>2. LimitsInv'
  BY DEF AutoscaleInv, LimitsInv, CountWithin, AskedFor
<1>3. RoomInv' /\ ReplicaInv'
  BY DEF AutoscaleInv, RoomInv, ReplicaInv, RowsHaveContainers, Container, Replica, Held
<1> QED BY <1>1, <1>2, <1>3 DEF AutoscaleInv

LEMMA SetPolicyInv ==
  ASSUME AutoscaleInv, NEW p \in Policies, SetPolicy(p) PROVE AutoscaleInv'
<1> DEFINE q == [id |-> IF policy.id = 0 THEN ids + 1 ELSE policy.id,
                 current |-> IF policy.id = 0 THEN 1 ELSE policy.current,
                 min |-> Normal(p).min, max |-> Normal(p).max,
                 target |-> p.target, up |-> p.up, down |-> p.down]
<1>1. policy' = q /\ ids' = (IF policy.id = 0 THEN ids + 1 ELSE ids)
  BY DEF SetPolicy
<1>2. policy \in Rules /\ ids \in Nat /\ policy.id \in 0 .. ids /\ cooling \in BOOLEAN
      /\ CountWithin(policy.current)
  BY DEF AutoscaleInv, AutoscaleShape, LimitsInv
<1>3. q \in Rules /\ q.id \in 0 .. ids' /\ ids' \in Nat
  BY <1>1, <1>2, NormalLimits DEF Rules
<1>4. q.min = Normal(p).min /\ q.max = Normal(p).max /\ q.target = p.target /\ q.up = p.up
      /\ q.current = IF policy.id = 0 THEN 1 ELSE policy.current
  OBVIOUS
<1> HIDE DEF q
<1>5. AskedFor(q) /\ CountWithin(q.current)
  BY <1>2, <1>4 DEF AskedFor, CountWithin
<1>6. cooling' \in BOOLEAN
  BY <1>2 DEF SetPolicy
<1> QED BY <1>1, <1>3, <1>5, <1>6, PolicyStepInv DEF SetPolicy, serverVars

LEMMA DeletePolicyInv == ASSUME AutoscaleInv, DeletePolicy PROVE AutoscaleInv'
<1>1. policy' \in Rules /\ policy'.id = 0 /\ CountWithin(policy'.current) /\ ids \in Nat
  BY Started DEF DeletePolicy, CountWithin, AutoscaleInv, AutoscaleShape
<1>2. policy'.id \in 0 .. ids' /\ ids' \in Nat
  BY <1>1 DEF DeletePolicy
<1>3. cooling' \in BOOLEAN
  <2>1. cooling' = FALSE
    BY DEF DeletePolicy
  <2> QED BY <2>1
<1> QED BY <1>1, <1>2, <1>3, PolicyStepInv DEF DeletePolicy, serverVars

LEMMA SignalsInv ==
  ASSUME AutoscaleInv, CooldownEnds \/ \E c, m \in Loads : HealthReport(c, m) PROVE AutoscaleInv'
<1>1. cooling' \in BOOLEAN
  <2>1. cooling' = FALSE \/ cooling' = cooling
    BY DEF CooldownEnds, HealthReport
  <2> QED BY <2>1 DEF AutoscaleInv, AutoscaleShape
<1>4. load' \in [cpu : Nat, mem : Nat]
  <2>1. CASE CooldownEnds
    BY <2>1 DEF AutoscaleInv, AutoscaleShape, CooldownEnds
  <2>2. ASSUME NEW c \in Loads, NEW m \in Loads, HealthReport(c, m) PROVE load' \in [cpu : Nat, mem : Nat]
    BY <2>2, AutoscaleAssumption DEF HealthReport
  <2> QED BY <2>1, <2>2
<1>3. AutoscaleShape'
  BY <1>1, <1>4 DEF AutoscaleInv, AutoscaleShape, ParentTyped, CooldownEnds, HealthReport, serverVars
<1>2. LimitsInv' /\ RoomInv' /\ ReplicaInv'
  BY DEF AutoscaleInv, LimitsInv, RoomInv, ReplicaInv, RowsHaveContainers, CooldownEnds, HealthReport,
         serverVars, Container, Replica, Held
<1> QED BY <1>2, <1>3 DEF AutoscaleInv

-----------------------------------------------------------------------------
\* What the monitor decides.
LEMMA DesiredWithin ==
  ASSUME NEW q \in Rules, AskedFor(q), NEW l \in [cpu : Nat, mem : Nat]
  PROVE  Desired(q, l) \in Int /\ CountWithin(Desired(q, l))
<1>1. PICK p \in Policies : q.min = Normal(p).min /\ q.max = Normal(p).max /\ q.target = p.target
  BY DEF AskedFor
<1>2. q.min \in Int /\ q.max \in Int /\ q.min <= q.max /\ q.target \in 1 .. 100
  BY <1>1, NormalLimits
<1>3. ASSUME NEW n \in Int PROVE Clamp(q, n) \in q.min .. q.max
  BY <1>2 DEF Clamp, Smaller, Larger
<1> DEFINE peak == Larger(l.cpu, l.mem)
           risen == IF Hot(q, l) THEN Ceiling(q.current * peak, q.target) ELSE q.current
           n == IF Cold(q, l) /\ 2 * peak < q.target THEN Larger(q.min, q.current - 1) ELSE risen
<1>4. peak \in Int /\ q.current \in Int
  BY DEF Larger, Rules
<1>5. Ceiling(q.current * peak, q.target) \in Int
  <2>1. q.current * peak \in Int
    BY <1>4
  <2> HIDE DEF peak
  <2> QED BY <1>2, <2>1 DEF Ceiling
<1>6. n \in Int
  BY <1>2, <1>4, <1>5 DEF Larger
<1>7. Desired(q, l) = Clamp(q, n)
  BY DEF Desired
<1> HIDE DEF n
<1>8. Desired(q, l) \in Normal(p).min .. Normal(p).max
  BY <1>1, <1>3, <1>6, <1>7
<1> QED BY <1>1, <1>8, NormalLimits DEF CountWithin

LEMMA MetricsAreLoads == AutoscaleInv => Metrics \in [cpu : Nat, mem : Nat]
  BY DEF AutoscaleInv, AutoscaleShape, Metrics

\* a step of the monitor that touches neither containers nor replicas
LEMMA DecisionInv ==
  ASSUME AutoscaleInv, UNCHANGED <<policy, cooling, load, feeds, replicas, containers, parent, gone, unmarked, ids>>,
         slips' \in 0 .. MaxSlips, rounds' \in 0 .. MaxRounds,
         monitor' \in MonitorRow,
         monitor.at # "mark", monitor'.at # "insert",
         monitor'.at = "measure" => rounds' < MaxRounds,
         CountWithin(monitor'.policy.current),
         monitor'.at # "wait" => monitor'.policy.id # 0 /\ AskedFor(monitor'.policy),
         monitor'.at \notin {"wait", "measure"} => CountWithin(monitor'.desired),
         monitor'.at = "count" => monitor'.desired > monitor'.policy.current,
         monitor'.at = "select" => monitor'.desired < monitor'.policy.current,
         monitor'.at = "run" =>
           /\ monitor'.next <= monitor'.last
           /\ Held(containers, monitor'.on) + (monitor'.last - monitor'.next + 1) <= ServerHolds,
         monitor'.at \in {"remove", "mark"} => monitor'.doomed # <<>>
  PROVE  AutoscaleInv'
<1>1. AutoscaleShape'
  BY DEF AutoscaleInv, AutoscaleShape, ParentTyped
<1>2. LimitsInv'
  BY DEF AutoscaleInv, LimitsInv, CountWithin, AskedFor
<1>3. RoomInv'
  BY DEF AutoscaleInv, RoomInv, Held
<1>4. ReplicaInv'
  BY DEF AutoscaleInv, ReplicaInv, RowsHaveContainers, Container
<1> QED BY <1>1, <1>2, <1>3, <1>4 DEF AutoscaleInv

LEMMA EvaluateInv == ASSUME AutoscaleInv, Evaluate PROVE AutoscaleInv'
<1> DEFINE m == [Waiting EXCEPT !.at = "measure", !.policy = policy]
<1>1. /\ policy \in Rules /\ policy.id # 0 /\ AskedFor(policy) /\ CountWithin(policy.current)
      /\ slips \in 0 .. MaxSlips /\ rounds \in 0 .. MaxRounds /\ monitor.at = "wait"
  BY DEF AutoscaleInv, AutoscaleShape, LimitsInv, Evaluate
<1>2. /\ m \in MonitorRow
      /\ m.at = "measure" /\ m.policy = policy
  BY <1>1, Started DEF MonitorPlaces, MonitorRow
<1>3. monitor' = m /\ rounds' < MaxRounds
  BY DEF Evaluate
<1> HIDE DEF m
<1> QED BY <1>1, <1>2, <1>3, DecisionInv DEF Evaluate, settingVars, serverVars

LEMMA MeasureInv == ASSUME AutoscaleInv, Measure PROVE AutoscaleInv'
<1> DEFINE p == monitor.policy
           n == Desired(p, Metrics)
           m == [monitor EXCEPT !.at = IF n > p.current THEN "count" ELSE "select",
                                !.desired = n]
<1>1. /\ p \in Rules /\ p.id # 0 /\ AskedFor(p) /\ CountWithin(p.current)
      /\ slips \in 0 .. MaxSlips /\ rounds \in 0 .. MaxRounds /\ monitor.at = "measure"
  BY DEF AutoscaleInv, AutoscaleShape, LimitsInv, Measure, MonitorRow
<1>2. n \in Int /\ CountWithin(n)
  BY <1>1, MetricsAreLoads, DesiredWithin
<1>3. UNCHANGED <<policy, cooling, load, feeds, replicas, containers, parent, gone, unmarked, ids, slips>>
  BY DEF Measure, settingVars, serverVars
<1>4. CASE monitor' = Waiting /\ UNCHANGED rounds
  <2>1. CountWithin(monitor'.policy.current)
    BY <1>4, Started DEF CountWithin
  <2> QED BY <1>1, <1>3, <1>4, <2>1, Started, DecisionInv
<1>5. CASE n # p.current /\ monitor' = m /\ rounds' = rounds + 1
  <2> HIDE DEF n
  <2>1. /\ m \in MonitorRow
        /\ m.at = (IF n > p.current THEN "count" ELSE "select") /\ m.policy = p /\ m.desired = n
    BY <1>1, <1>2 DEF MonitorPlaces, MonitorRow, AutoscaleInv, AutoscaleShape
  <2>2. p.current \in Int
    BY <1>1 DEF Rules
  <2>3. rounds' \in 0 .. MaxRounds
    BY <1>1, <1>5, AutoscaleAssumption DEF AutoscaleInv, AutoscaleShape
  <2> HIDE DEF m, p
  <2> QED BY <1>1, <1>2, <1>3, <1>5, <2>1, <2>2, <2>3, DecisionInv
<1> QED BY <1>4, <1>5 DEF Measure

-----------------------------------------------------------------------------
\* Scaling up.
LEMMA Slipping == ASSUME AutoscaleInv, Slip \/ NoSlip PROVE slips' \in 0 .. MaxSlips
  BY AutoscaleAssumption DEF AutoscaleInv, AutoscaleShape, Slip, NoSlip

LEMMA HeldSome ==
  ASSUME NEW C, IsFiniteSet(C), NEW D \in SUBSET C, NEW s
  PROVE  /\ IsFiniteSet(D) /\ Held(C, s) \in Nat /\ Held(D, s) \in Nat
         /\ Held(D, s) <= Held(C, s)
<1> DEFINE X == {c \in C : c.on = s}
           Y == {c \in D : c.on = s}
<1>1. IsFiniteSet(X) /\ IsFiniteSet(D)
  <2>1. X \subseteq C
    OBVIOUS
  <2> QED BY <2>1, FS_Subset
<1>2. Y \subseteq X
  OBVIOUS
<1> HIDE DEF X, Y
<1>3. IsFiniteSet(Y) /\ Cardinality(Y) <= Cardinality(X)
  BY <1>1, <1>2, FS_Subset
<1>4. Cardinality(X) \in Nat /\ Cardinality(Y) \in Nat
  BY <1>1, <1>3, FS_CardinalityType
<1> QED BY <1>1, <1>3, <1>4 DEF Held, X, Y

LEMMA HeldMore ==
  ASSUME NEW C, IsFiniteSet(C), NEW c, NEW s
  PROVE  /\ IsFiniteSet(C \cup {c}) /\ Held(C, s) \in Nat /\ Held(C \cup {c}, s) \in Nat
         /\ Held(C \cup {c}, s) <= Held(C, s) + 1
         /\ c.on # s => Held(C \cup {c}, s) = Held(C, s)
<1> DEFINE X == {d \in C : d.on = s}
           Y == {d \in C \cup {c} : d.on = s}
<1>1. IsFiniteSet(X)
  <2>1. X \subseteq C
    OBVIOUS
  <2> QED BY <2>1, FS_Subset
<1>2. (c.on # s => Y = X) /\ (c.on = s => Y = X \cup {c})
  OBVIOUS
<1>3. IsFiniteSet(C \cup {c})
  BY FS_AddElement
<1> HIDE DEF X, Y
<1>4. /\ IsFiniteSet(X \cup {c})
      /\ Cardinality(X \cup {c}) = (IF c \in X THEN Cardinality(X) ELSE Cardinality(X) + 1)
      /\ Cardinality(X) \in Nat
  BY <1>1, FS_AddElement, FS_CardinalityType
<1>5. /\ Cardinality(Y) \in Nat /\ Cardinality(Y) <= Cardinality(X) + 1
      /\ c.on # s => Cardinality(Y) = Cardinality(X)
  BY <1>2, <1>4
<1> QED BY <1>3, <1>4, <1>5 DEF Held, X, Y

LEMMA Counted ==
  ASSUME AutoscaleInv
  PROVE  /\ IsFiniteSet(containers) /\ containers \in SUBSET Spot
         /\ \A s \in Int : Held(containers, s) \in Nat /\ Held(containers, s) <= ServerHolds
<1>1. IsFiniteSet(containers) /\ containers \in SUBSET Spot
  BY DEF AutoscaleInv, AutoscaleShape
<1>2. \A s \in Int : Held(containers, s) \in Nat
  BY <1>1, HeldSome
<1> QED BY <1>1, <1>2 DEF AutoscaleInv, RoomInv

LEMMA CountContainersInv == ASSUME AutoscaleInv, CountContainers PROVE AutoscaleInv'
<1> DEFINE p == monitor.policy
           free == ServerHolds - Cardinality(On(parent.server))
           wanted == monitor.desired - p.current
           m == [monitor EXCEPT !.at = IF free > 0 THEN "run" ELSE "update",
                                !.on = parent.server, !.next = p.current,
                                !.last = p.current + Smaller(wanted, free) - 1]
           u == [monitor EXCEPT !.at = "update"]
<1>7. /\ monitor \in MonitorRow /\ p \in Rules /\ p.id # 0 /\ AskedFor(p) /\ CountWithin(p.current)
      /\ monitor.at = "count" /\ CountWithin(monitor.desired) /\ monitor.desired \in Int
      /\ monitor.desired > p.current /\ rounds \in 0 .. MaxRounds
  BY DEF AutoscaleInv, AutoscaleShape, LimitsInv, RoomInv, CountContainers, MonitorRow
<1>8. p.current \in Int
  BY <1>7 DEF Rules
<1>1. /\ monitor \in MonitorRow /\ p \in Rules /\ p.id # 0 /\ AskedFor(p) /\ CountWithin(p.current)
      /\ monitor.at = "count" /\ CountWithin(monitor.desired) /\ monitor.desired \in Int
      /\ p.current \in Int /\ wanted > 0 /\ rounds \in 0 .. MaxRounds /\ slips' \in 0 .. MaxSlips
      /\ parent.server \in Int
  BY <1>7, <1>8, Slipping DEF CountContainers, AutoscaleInv, AutoscaleShape, ParentTyped
<1>9. free = ServerHolds - Held(containers, parent.server)
  BY DEF Held, On
<1>2. free \in Int /\ wanted \in Int
  BY <1>1, <1>9, Counted, AutoscaleAssumption
<1> HIDE DEF free, wanted
<1>3. /\ m \in MonitorRow /\ m.at = (IF free > 0 THEN "run" ELSE "update") /\ m.policy = p
      /\ m.desired = monitor.desired /\ m.on = parent.server /\ m.next = p.current
      /\ m.last = p.current + Smaller(wanted, free) - 1
      /\ u \in MonitorRow /\ u.at = "update" /\ u.policy = p /\ u.desired = monitor.desired
  <2> DEFINE last == p.current + Smaller(wanted, free) - 1
             at == IF free > 0 THEN "run" ELSE "update"
  <2>5. Smaller(wanted, free) \in Int
    BY <1>2, SmallerLarger
  <2>6. p.current \in Int
    BY <1>1
  <2>7. last \in Int
    BY <2>5, <2>6
  <2>8. at \in MonitorPlaces /\ "update" \in MonitorPlaces
    BY DEF MonitorPlaces
  <2>1. last \in Int /\ at \in MonitorPlaces /\ p.current \in Int /\ "update" \in MonitorPlaces
    BY <2>6, <2>7, <2>8
  <2> HIDE DEF last, at
  <2>2. m = [monitor EXCEPT !.at = at, !.on = parent.server, !.next = p.current, !.last = last]
    BY DEF at, last
  <2> HIDE DEF m
  <2>3. /\ m \in MonitorRow /\ m.at = at /\ m.policy = p
        /\ m.desired = monitor.desired /\ m.on = parent.server /\ m.next = p.current /\ m.last = last
    BY <1>1, <2>1, <2>2 DEF MonitorRow
  <2>4. u \in MonitorRow /\ u.at = "update" /\ u.policy = p /\ u.desired = monitor.desired
    BY <1>1, <2>1 DEF MonitorRow
  <2> QED BY <2>3, <2>4 DEF at, last
<1>4. free > 0 => m.next <= m.last
  BY <1>1, <1>2, <1>3 DEF Smaller
<1>5. Held(containers, m.on) + (m.last - m.next + 1) <= ServerHolds
  <2>1. m.last - m.next + 1 = Smaller(wanted, free)
    BY <1>1, <1>2, <1>3, SmallerLarger
  <2>2. Smaller(wanted, free) \in Int /\ Smaller(wanted, free) <= free
    BY <1>2, SmallerLarger
  <2> QED BY <1>1, <1>3, <1>9, <2>1, <2>2, Counted, AutoscaleAssumption
<1>6. monitor' = m \/ monitor' = u
  BY DEF CountContainers, free, wanted
<1> HIDE DEF m, u
<1>10. UNCHANGED <<policy, cooling, load, feeds, replicas, containers, parent, gone, unmarked, ids, rounds>>
  BY DEF CountContainers, settingVars, serverVars
<1> QED BY <1>1, <1>3, <1>4, <1>5, <1>6, <1>10, DecisionInv

LEMMA NextOne ==
  ASSUME AutoscaleInv, monitor.at \in {"run", "insert"}
  PROVE  /\ NextReplica \in MonitorRow /\ NextReplica.policy = monitor.policy
         /\ NextReplica.desired = monitor.desired /\ NextReplica.next = monitor.next + 1
         /\ NextReplica.last = monitor.last /\ NextReplica.on = monitor.on
         /\ NextReplica.at = IF monitor.next = monitor.last THEN "update" ELSE "run"
<1>1. monitor \in MonitorRow
  BY DEF AutoscaleInv, AutoscaleShape, MonitorRow
<1> DEFINE at == IF monitor.next = monitor.last THEN "update" ELSE "run"
           next == monitor.next + 1
<1>2. at \in MonitorPlaces /\ next \in Int
  BY <1>1 DEF MonitorRow, MonitorPlaces
<1>3. NextReplica = [monitor EXCEPT !.at = at, !.next = next]
  BY <1>1 DEF NextReplica, MonitorRow
<1> HIDE DEF at, next
<1>4. /\ NextReplica \in MonitorRow /\ NextReplica.policy = monitor.policy
      /\ NextReplica.desired = monitor.desired /\ NextReplica.next = next
      /\ NextReplica.last = monitor.last /\ NextReplica.on = monitor.on /\ NextReplica.at = at
  BY <1>1, <1>2, <1>3 DEF MonitorRow
<1> QED BY <1>4 DEF at, next

LEMMA RunContainerInv == ASSUME AutoscaleInv, RunContainer PROVE AutoscaleInv'
<1> DEFINE n == monitor.next
           c == Replica
           m == [monitor EXCEPT !.at = "insert"]
<1>1. /\ monitor \in MonitorRow /\ monitor.at = "run" /\ n \in Int /\ monitor.last \in Int
      /\ n <= monitor.last /\ monitor.policy.id # 0 /\ AskedFor(monitor.policy)
      /\ CountWithin(monitor.policy.current) /\ CountWithin(monitor.desired)
      /\ Held(containers, monitor.on) + (monitor.last - n + 1) <= ServerHolds
      /\ slips' \in 0 .. MaxSlips /\ monitor.on \in Int
  BY Slipping DEF AutoscaleInv, AutoscaleShape, LimitsInv, RoomInv, RunContainer, MonitorRow
<1>2. /\ m \in MonitorRow /\ m.at = "insert" /\ m.policy = monitor.policy
      /\ m.desired = monitor.desired /\ m.next = n /\ m.last = monitor.last /\ m.on = monitor.on
  BY <1>1 DEF MonitorRow, MonitorPlaces
<1>3. /\ containers' \in {containers, containers \cup {c}}
      /\ \/ monitor' = m /\ c \in containers'
         \/ monitor' = NextReplica
  BY DEF RunContainer
<1>10. UNCHANGED <<policy, cooling, load, feeds, ids, replicas, parent, gone, unmarked, rounds>>
  BY DEF RunContainer, settingVars, serverVars
<1>11. c \in Spot /\ c.on = monitor.on /\ c = [n |-> n, on |-> monitor.on]
  BY <1>1 DEF Replica, Spot
<1> HIDE DEF m, c
<1>4. /\ IsFiniteSet(containers') /\ containers' \in SUBSET Spot /\ containers \subseteq containers'
      /\ \A s \in Int : /\ Held(containers', s) \in Nat
                        /\ s # monitor.on => Held(containers', s) = Held(containers, s)
                        /\ Held(containers', s) <= Held(containers, s) + 1
  <2>2. CASE containers' = containers
    BY <2>2, Counted
  <2>3. CASE containers' = containers \cup {c}
    BY <1>11, <2>3, Counted, HeldMore
  <2> QED BY <1>3, <2>2, <2>3
<1>5. /\ monitor' \in MonitorRow /\ monitor'.policy = monitor.policy /\ monitor'.on = monitor.on
      /\ monitor'.desired = monitor.desired /\ monitor'.at \in {"insert", "update", "run"}
  BY <1>1, <1>2, <1>3, NextOne
<1>6. AutoscaleShape'
  BY <1>1, <1>4, <1>5, <1>10 DEF AutoscaleInv, AutoscaleShape, ParentTyped
<1>7. LimitsInv'
  BY <1>1, <1>5, <1>10 DEF AutoscaleInv, LimitsInv, CountWithin, AskedFor
<1>8. RoomInv'
  <2>1. \A s \in Int : Held(containers', s) <= ServerHolds
    <3>1. Held(containers', monitor.on) <= ServerHolds
      BY <1>1, <1>4, Counted, AutoscaleAssumption
    <3>2. ASSUME NEW s \in Int, s # monitor.on PROVE Held(containers', s) <= ServerHolds
      BY <1>4, <3>2, Counted
    <3> QED BY <3>1, <3>2
  <2>4. (\A s \in Int : Held(containers, s) <= ServerHolds)' = \A s \in Int : Held(containers', s) <= ServerHolds
    BY DEF Held
  <2>2. CASE monitor' = m /\ c \in containers'
    <3>1. Held(containers', m.on) + (m.last - m.next) <= ServerHolds
      BY <1>1, <1>2, <1>4, Counted, AutoscaleAssumption
    <3>2. Replica' \in containers'
      BY <1>2, <1>11, <2>2 DEF Replica
    <3> QED BY <1>1, <1>2, <2>1, <2>2, <3>1, <3>2 DEF RoomInv, Held
  <2>3. CASE monitor' = NextReplica
    <3>1. NextReplica.at = "run" =>
            /\ NextReplica.next <= NextReplica.last
            /\ Held(containers', NextReplica.on) + (NextReplica.last - NextReplica.next + 1) <= ServerHolds
      BY <1>1, <1>4, NextOne, Counted, AutoscaleAssumption
    <3>2. NextReplica.at \in {"run", "update"}
      BY <1>1, NextOne
    <3> QED BY <2>1, <2>3, <3>1, <3>2 DEF RoomInv, Held
  <2> QED BY <1>3, <2>2, <2>3
<1>9. ReplicaInv'
  BY <1>1, <1>4, <1>5, <1>10 DEF AutoscaleInv, ReplicaInv, RowsHaveContainers, Container
<1> QED BY <1>6, <1>7, <1>8, <1>9 DEF AutoscaleInv

LEMMA InsertReplicaInv == ASSUME AutoscaleInv, InsertReplica PROVE AutoscaleInv'
<1> DEFINE n == monitor.next
           new == [n |-> n, on |-> monitor.on, running |-> TRUE]
<1>1. /\ monitor.at = "insert" /\ n \in Int /\ monitor.on \in Int /\ monitor.last \in Int
      /\ n <= monitor.last /\ monitor.policy.id # 0 /\ AskedFor(monitor.policy)
      /\ CountWithin(monitor.policy.current) /\ CountWithin(monitor.desired)
      /\ Held(containers, monitor.on) + (monitor.last - n) <= ServerHolds
      /\ Replica \in containers \/ monitor.on \in gone
      /\ slips' \in 0 .. MaxSlips /\ monitor' = NextReplica
      /\ replicas \in Seq(ReplicaRow)
      /\ UNCHANGED <<policy, cooling, load, feeds, containers, parent, gone, unmarked, ids, rounds>>
  BY Slipping DEF AutoscaleInv, AutoscaleShape, LimitsInv, RoomInv, InsertReplica, MonitorRow,
     settingVars, serverVars
<1>2. /\ monitor' \in MonitorRow /\ monitor'.policy = monitor.policy
      /\ monitor'.desired = monitor.desired /\ monitor'.at \in {"update", "run"}
  BY <1>1, NextOne
<1>3. new \in ReplicaRow /\ new.n = n /\ new.on = monitor.on /\ Container(new) = Replica
  BY <1>1 DEF ReplicaRow, Container, Replica
<1>4. \/ UNCHANGED replicas
      \/ replicas' = Append(replicas, new) /\ \A i \in DOMAIN replicas : replicas[i].n # n
  BY DEF InsertReplica
<1> HIDE DEF new
<1>5. /\ replicas' \in Seq(ReplicaRow)
      /\ \A i \in DOMAIN replicas' : \/ i \in DOMAIN replicas /\ replicas'[i] = replicas[i]
                                     \/ i = Len(replicas) + 1 /\ replicas'[i] = new
                                        /\ \A j \in DOMAIN replicas : replicas[j].n # n
  <2> HIDE DEF n
  <2>1. CASE UNCHANGED replicas
    BY <1>1, <2>1
  <2>2. CASE replicas' = Append(replicas, new) /\ \A i \in DOMAIN replicas : replicas[i].n # n
    <3>1. /\ replicas' \in Seq(ReplicaRow) /\ Len(replicas') = Len(replicas) + 1
          /\ replicas'[Len(replicas) + 1] = new
          /\ \A i \in 1 .. Len(replicas) : replicas'[i] = replicas[i]
      BY <1>1, <1>3, <2>2
    <3>2. DOMAIN replicas = 1 .. Len(replicas) /\ DOMAIN replicas' = 1 .. Len(replicas) + 1
          /\ Len(replicas) \in Nat
      BY <1>1, <3>1
    <3>3. ASSUME NEW i \in DOMAIN replicas'
          PROVE  i \in DOMAIN replicas \/ i = Len(replicas) + 1
      BY <3>2
    <3> QED BY <2>2, <3>1, <3>2, <3>3
  <2> QED BY <1>4, <2>1, <2>2
<1>6. AutoscaleShape'
  BY <1>1, <1>2, <1>5 DEF AutoscaleInv, AutoscaleShape, ParentTyped
<1>7. LimitsInv'
  BY <1>1, <1>2 DEF AutoscaleInv, LimitsInv, CountWithin, AskedFor
<1>8. RoomInv'
  <2>1. NextReplica.at = "run" =>
          /\ NextReplica.next <= NextReplica.last
          /\ Held(containers, NextReplica.on) + (NextReplica.last - NextReplica.next + 1) <= ServerHolds
    <3>1. Held(containers, monitor.on) \in Nat
      BY <1>1, Counted
    <3>2. /\ NextReplica.on = monitor.on /\ NextReplica.next = n + 1 /\ NextReplica.last = monitor.last
          /\ NextReplica.at = IF n = monitor.last THEN "update" ELSE "run"
      BY <1>1, NextOne
    <3>3. /\ n \in Int /\ monitor.last \in Int /\ n <= monitor.last /\ ServerHolds \in Nat
          /\ Held(containers, monitor.on) + (monitor.last - n) <= ServerHolds
      BY <1>1, AutoscaleAssumption
    <3> DEFINE held == Held(containers, monitor.on)
               last == monitor.last
    <3>4. n # last => n + 1 <= last /\ held + (last - (n + 1) + 1) <= ServerHolds
      BY <3>1, <3>3
    <3>5. NextReplica.at = "run" => n # last
      BY <3>2 DEF n, last
    <3> HIDE DEF n, held, last
    <3> QED BY <3>2, <3>4, <3>5 DEF held, last
  <2>2. \A s \in Int : Held(containers, s) <= ServerHolds
    BY Counted
  <2> QED BY <1>1, <1>2, <2>1, <2>2 DEF RoomInv, Held
<1>9. ReplicaInv'
  <2>1. \A i, j \in DOMAIN replicas' : replicas'[i].n = replicas'[j].n => i = j
    BY <1>3, <1>5 DEF AutoscaleInv, ReplicaInv
  <2>2. RowsHaveContainers'
    <3> SUFFICES ASSUME NEW i \in DOMAIN replicas', replicas'[i].running
                 PROVE  \/ Container(replicas'[i]) \in containers
                        \/ replicas'[i].n \in unmarked
                        \/ replicas'[i].on \in gone
      BY <1>1 DEF RowsHaveContainers, Container
    <3>1. CASE i \in DOMAIN replicas /\ replicas'[i] = replicas[i]
      BY <1>1, <3>1 DEF AutoscaleInv, ReplicaInv, RowsHaveContainers
    <3>2. CASE replicas'[i] = new
      BY <1>1, <1>3, <3>2
    <3> QED BY <1>5, <3>1, <3>2
  <2> QED BY <1>2, <2>1, <2>2 DEF ReplicaInv
<1> QED BY <1>6, <1>7, <1>8, <1>9 DEF AutoscaleInv

-----------------------------------------------------------------------------
\* Scaling down.
LEMMA RowsTyped ==
  ASSUME AutoscaleInv
  PROVE  \A i \in DOMAIN replicas : replicas[i] \in ReplicaRow
<1>1. replicas \in Seq(ReplicaRow)
  BY DEF AutoscaleInv, AutoscaleShape
<1> QED BY <1>1

LEMMA SelectReplicasInv == ASSUME AutoscaleInv, SelectReplicas PROVE AutoscaleInv'
<1> DEFINE excess == monitor.policy.current - monitor.desired
           count == Smaller(excess, Cardinality(Up))
           at == IF count = 0 THEN "update" ELSE "remove"
<1>1. /\ monitor \in MonitorRow /\ monitor.policy \in Rules /\ monitor.policy.id # 0
      /\ AskedFor(monitor.policy) /\ CountWithin(monitor.policy.current)
      /\ monitor.at = "select" /\ CountWithin(monitor.desired) /\ monitor.desired \in Int
      /\ monitor.desired < monitor.policy.current /\ slips \in 0 .. MaxSlips
      /\ rounds \in 0 .. MaxRounds /\ replicas \in Seq(ReplicaRow)
  BY DEF AutoscaleInv, AutoscaleShape, LimitsInv, ReplicaInv, SelectReplicas, MonitorRow
<1>2. excess \in Nat
  BY <1>1 DEF Rules
<1>3. Cardinality(Up) \in Nat
  <2>1. DOMAIN replicas = 1 .. Len(replicas) /\ Len(replicas) \in Nat
    BY <1>1
  <2>2. IsFiniteSet(DOMAIN replicas)
    BY <2>1, FS_Interval
  <2>3. Up \subseteq DOMAIN replicas
    BY DEF Up
  <2> QED BY <2>2, <2>3, FS_Subset, FS_CardinalityType
<1>4. PICK picked \in [1 .. count -> Up] :
        monitor' = [monitor EXCEPT !.at = at,
                                   !.doomed = [k \in 1 .. count |-> Container(replicas[picked[k]])]]
  BY DEF SelectReplicas
<1> HIDE DEF excess
<1>5. count \in Nat
  BY <1>2, <1>3 DEF Smaller
<1> DEFINE doomed == [k \in 1 .. count |-> Container(replicas[picked[k]])]
<1>6. monitor' = [monitor EXCEPT !.at = at, !.doomed = doomed] /\ at \in MonitorPlaces
  BY <1>4 DEF MonitorPlaces
<1> HIDE DEF count
<1>7. doomed \in Seq(Spot) /\ (doomed = <<>> => count = 0)
  <2>1. ASSUME NEW k \in 1 .. count PROVE Container(replicas[picked[k]]) \in Spot
    <3>1. picked[k] \in Up
      OBVIOUS
    <3>2. picked[k] \in DOMAIN replicas
      BY <3>1 DEF Up
    <3> QED BY <3>2, RowsTyped DEF Container, ReplicaRow, Spot
  <2>2. doomed \in [1 .. count -> Spot]
    BY <2>1
  <2>3. doomed \in Seq(Spot) /\ Len(doomed) = count
    BY <1>5, <2>2
  <2> QED BY <2>3
<1> HIDE DEF doomed, at
<1>8. /\ monitor' \in MonitorRow /\ monitor'.at = at /\ monitor'.policy = monitor.policy
      /\ monitor'.desired = monitor.desired /\ monitor'.doomed = doomed
  BY <1>1, <1>6, <1>7 DEF MonitorRow
<1>9. at = (IF count = 0 THEN "update" ELSE "remove")
  BY DEF at
<1> QED BY <1>1, <1>7, <1>8, <1>9, DecisionInv DEF SelectReplicas, settingVars, serverVars

LEMMA Doomed ==
  ASSUME AutoscaleInv, monitor.at \in {"remove", "mark"}
  PROVE  /\ monitor \in MonitorRow /\ monitor.doomed \in Seq(Spot) /\ monitor.doomed # <<>>
         /\ Head(monitor.doomed) \in Spot /\ Tail(monitor.doomed) \in Seq(Spot)
         /\ Len(monitor.doomed) # 1 => Tail(monitor.doomed) # <<>>
         /\ monitor.policy.id # 0 /\ AskedFor(monitor.policy) /\ CountWithin(monitor.policy.current)
         /\ CountWithin(monitor.desired)
<1>1. /\ monitor \in MonitorRow /\ monitor.doomed \in Seq(Spot) /\ monitor.doomed # <<>>
      /\ monitor.policy.id # 0 /\ AskedFor(monitor.policy) /\ CountWithin(monitor.policy.current)
      /\ CountWithin(monitor.desired)
  BY DEF AutoscaleInv, AutoscaleShape, LimitsInv, ReplicaInv, MonitorRow
<1>2. Tail(monitor.doomed) \in Seq(Spot) /\ Len(Tail(monitor.doomed)) = Len(monitor.doomed) - 1
      /\ Head(monitor.doomed) \in Spot /\ Len(monitor.doomed) \in Nat
  BY <1>1
<1>3. Len(monitor.doomed) # 1 => Tail(monitor.doomed) # <<>>
  <2>1. Len(<<>>) = 0
    OBVIOUS
  <2>2. Tail(monitor.doomed) = <<>> => Len(Tail(monitor.doomed)) = 0
    BY <2>1
  <2> QED BY <1>2, <2>2
<1> QED BY <1>1, <1>2, <1>3

LEMMA RemoveContainerInv == ASSUME AutoscaleInv, RemoveContainer PROVE AutoscaleInv'
<1> DEFINE m == [monitor EXCEPT !.at = "mark"]
           head == Head(monitor.doomed)
<1>1. /\ monitor.at = "remove" /\ monitor' = m /\ slips' \in 0 .. MaxSlips
      /\ UNCHANGED <<policy, cooling, load, feeds, replicas, parent, gone, unmarked, ids, rounds>>
      /\ containers' = containers \ {head} \/ containers' = containers
  BY Slipping DEF RemoveContainer, settingVars, serverVars
<1>2. /\ m \in MonitorRow /\ m.at = "mark" /\ m.policy = monitor.policy
      /\ m.desired = monitor.desired /\ m.doomed = monitor.doomed
  BY <1>1, Doomed DEF MonitorRow, MonitorPlaces
<1> HIDE DEF m
<1>4. /\ IsFiniteSet(containers') /\ containers' \in SUBSET Spot
      /\ \A s \in Int : Held(containers', s) <= ServerHolds
      /\ \A c \in containers : c \in containers' \/ c = head
  <2>1. containers' \in SUBSET containers
    BY <1>1
  <2>2. \A s \in Int : /\ IsFiniteSet(containers') /\ Held(containers', s) \in Nat
                      /\ Held(containers', s) <= Held(containers, s)
    BY <2>1, Counted, HeldSome
  <2>3. \A s \in Int : Held(containers', s) <= ServerHolds
    BY <2>2, Counted, AutoscaleAssumption
  <2>4. IsFiniteSet(containers')
    BY <2>1, Counted, FS_Subset
  <2> QED BY <1>1, <2>1, <2>3, <2>4, Counted
<1>5. AutoscaleShape'
  BY <1>1, <1>2, <1>4 DEF AutoscaleInv, AutoscaleShape, ParentTyped
<1>6. LimitsInv'
  BY <1>1, <1>2, Doomed DEF AutoscaleInv, LimitsInv, CountWithin, AskedFor
<1>7. RoomInv'
  BY <1>1, <1>2, <1>4 DEF RoomInv, Held
<1>8. ReplicaInv'
  <2>1. monitor'.doomed = monitor.doomed /\ monitor'.at = "mark" /\ monitor.doomed # <<>>
    BY <1>1, <1>2, Doomed
  <2>2. RowsHaveContainers'
    BY <1>1, <1>4, <2>1 DEF AutoscaleInv, ReplicaInv, RowsHaveContainers, Container
  <2> QED BY <1>1, <2>1, <2>2 DEF AutoscaleInv, ReplicaInv
<1> QED BY <1>5, <1>6, <1>7, <1>8 DEF AutoscaleInv

LEMMA MarkDestroyedInv == ASSUME AutoscaleInv, MarkDestroyed PROVE AutoscaleInv'
<1> DEFINE head == Head(monitor.doomed)
           rest == Tail(monitor.doomed)
           at == IF Len(monitor.doomed) = 1 THEN "update" ELSE "remove"
           marked == [i \in DOMAIN replicas |->
                        IF replicas[i].n = head.n
                        THEN [replicas[i] EXCEPT !.running = FALSE] ELSE replicas[i]]
<1>1. /\ monitor.at = "mark" /\ monitor' = [monitor EXCEPT !.at = at, !.doomed = rest]
      /\ slips' \in 0 .. MaxSlips
      /\ UNCHANGED <<policy, cooling, load, feeds, containers, parent, gone, ids, rounds>>
      /\ \/ replicas' = marked /\ unmarked' = unmarked
         \/ replicas' = replicas /\ unmarked' = unmarked \cup {head.n}
      /\ replicas \in Seq(ReplicaRow)
  <2>1. monitor' = [monitor EXCEPT !.at = at, !.doomed = rest]
    BY Doomed DEF MarkDestroyed, MonitorRow
  <2> QED BY <2>1, Slipping DEF MarkDestroyed, AutoscaleInv, AutoscaleShape, settingVars, serverVars
<1>2. at \in MonitorPlaces /\ rest \in Seq(Spot) /\ (at = "remove" => rest # <<>>) /\ at \in {"update", "remove"}
  BY <1>1, Doomed DEF MonitorPlaces
<1> HIDE DEF at, rest
<1>3. /\ monitor' \in MonitorRow /\ monitor'.at = at /\ monitor'.policy = monitor.policy
      /\ monitor'.desired = monitor.desired /\ monitor'.doomed = rest
  BY <1>1, <1>2, Doomed DEF MonitorRow
<1>4. /\ marked \in Seq(ReplicaRow) /\ DOMAIN marked = DOMAIN replicas
      /\ \A i \in DOMAIN replicas : /\ marked[i].n = replicas[i].n /\ marked[i].on = replicas[i].on
                                    /\ marked[i].running => replicas[i].running /\ replicas[i].n # head.n
  <2>1. ASSUME NEW i \in DOMAIN replicas
        PROVE  /\ marked[i] \in ReplicaRow /\ marked[i].n = replicas[i].n
               /\ marked[i].on = replicas[i].on
               /\ marked[i].running => replicas[i].running /\ replicas[i].n # head.n
    <3>1. replicas[i] \in ReplicaRow
      BY RowsTyped
    <3>2. CASE replicas[i].n = head.n
      BY <3>1, <3>2 DEF ReplicaRow
    <3>3. CASE replicas[i].n # head.n
      BY <3>1, <3>3
    <3> QED BY <3>2, <3>3
  <2>2. DOMAIN marked = 1 .. Len(replicas) /\ Len(replicas) \in Nat
    BY <1>1
  <2> HIDE DEF marked
  <2>3. marked \in [1 .. Len(replicas) -> ReplicaRow]
    <3>1. marked = [i \in DOMAIN marked |-> marked[i]]
      BY DEF marked
    <3>2. DOMAIN replicas = DOMAIN marked
      BY DEF marked
    <3> QED BY <2>1, <2>2, <3>1, <3>2
  <2> QED BY <2>1, <2>2, <2>3 DEF marked
<1> HIDE DEF marked
<1>5. AutoscaleShape'
  BY <1>1, <1>2, <1>3, <1>4 DEF AutoscaleInv, AutoscaleShape, ParentTyped
<1>6. LimitsInv'
  BY <1>1, <1>3, Doomed DEF AutoscaleInv, LimitsInv, CountWithin, AskedFor
<1>7. RoomInv'
  BY <1>1, <1>2, <1>3, Counted DEF RoomInv, Held
<1>8. ReplicaInv'
  <2>1. \A i, j \in DOMAIN replicas' : replicas'[i].n = replicas'[j].n => i = j
    BY <1>1, <1>4 DEF AutoscaleInv, ReplicaInv
  <2>2. RowsHaveContainers'
    <3> SUFFICES ASSUME NEW i \in DOMAIN replicas', replicas'[i].running
                 PROVE  \/ Container(replicas'[i]) \in containers
                        \/ replicas'[i].n \in unmarked'
                        \/ replicas'[i].on \in gone
      BY <1>1 DEF RowsHaveContainers, Container
    <3>1. /\ i \in DOMAIN replicas /\ replicas'[i].n = replicas[i].n /\ replicas'[i].on = replicas[i].on
          /\ replicas[i].running
          /\ replicas'[i].n \in unmarked' \/ replicas[i].n # head.n \/ unmarked' = unmarked \cup {head.n}
      BY <1>1, <1>4
    <3>2. Container(replicas[i]) = head => replicas[i].n = head.n
      BY DEF Container
    <3>3. Container(replicas'[i]) = Container(replicas[i])
      BY <3>1 DEF Container
    <3>4. \/ Container(replicas[i]) \in containers \/ Container(replicas[i]) = head
          \/ replicas[i].n \in unmarked \/ replicas[i].on \in gone
      BY <1>1, <3>1 DEF AutoscaleInv, ReplicaInv, RowsHaveContainers
    <3> QED BY <1>1, <1>4, <3>1, <3>2, <3>3, <3>4
  <2> QED BY <1>2, <1>3, <2>1, <2>2 DEF ReplicaInv
<1> QED BY <1>5, <1>6, <1>7, <1>8 DEF AutoscaleInv

LEMMA UpdatePolicyInv == ASSUME AutoscaleInv, UpdatePolicy PROVE AutoscaleInv'
<1> DEFINE q == [policy EXCEPT !.current = monitor.desired]
<1>1. /\ monitor.at = "update" /\ monitor' = Waiting /\ slips' \in 0 .. MaxSlips
      /\ UNCHANGED <<load, feeds, replicas, containers, parent, gone, unmarked, ids, rounds>>
      /\ \/ policy' = q /\ cooling' = TRUE
         \/ UNCHANGED <<policy, cooling>>
  BY Slipping DEF UpdatePolicy, serverVars
<1>2. policy \in Rules /\ monitor.desired \in Int /\ CountWithin(monitor.desired)
  BY <1>1 DEF AutoscaleInv, AutoscaleShape, LimitsInv, MonitorRow
<1>3. /\ q \in Rules /\ q.id = policy.id /\ q.min = policy.min /\ q.max = policy.max
      /\ q.target = policy.target /\ q.up = policy.up /\ q.current = monitor.desired
  BY <1>2 DEF Rules
<1> HIDE DEF q
<1>4. cooling' \in BOOLEAN
  BY <1>1 DEF AutoscaleInv, AutoscaleShape
<1>5. AutoscaleShape'
  BY <1>1, <1>3, <1>4, Started DEF AutoscaleInv, AutoscaleShape, ParentTyped
<1>6. LimitsInv'
  BY <1>1, <1>2, <1>3, Started DEF AutoscaleInv, LimitsInv, CountWithin, AskedFor
<1>7. RoomInv' /\ ReplicaInv'
  BY <1>1, Started DEF AutoscaleInv, RoomInv, ReplicaInv, RowsHaveContainers, Container, Held
<1> QED BY <1>5, <1>6, <1>7 DEF AutoscaleInv

-----------------------------------------------------------------------------
\* The environment's own steps: containers only go, and only with their server.
LEMMA ServerStepInv ==
  ASSUME AutoscaleInv, ParentTyped', gone \subseteq gone',
         containers' = Without(gone') \/ (containers' = containers /\ gone' = gone),
         UNCHANGED <<policy, cooling, load, feeds, ids, replicas, monitor, unmarked, slips, rounds>>
  PROVE  AutoscaleInv'
<1>1. containers' \in SUBSET containers /\ \A c \in containers : c \in containers' \/ c.on \in gone'
  BY DEF Without
<1>2. \A s \in Int : /\ IsFiniteSet(containers') /\ Held(containers', s) \in Nat
                    /\ Held(containers', s) <= Held(containers, s)
  BY <1>1, Counted, HeldSome
<1>3. IsFiniteSet(containers') /\ containers' \in SUBSET Spot
  BY <1>1, Counted, FS_Subset
<1>4. AutoscaleShape'
  BY <1>3 DEF AutoscaleInv, AutoscaleShape
<1>5. LimitsInv'
  BY DEF AutoscaleInv, LimitsInv, CountWithin, AskedFor
<1>6. RoomInv'
  <2>1. monitor.on \in Int /\ monitor.next \in Int /\ monitor.last \in Int
    BY DEF AutoscaleInv, AutoscaleShape, MonitorRow
  <2>2. \A s \in Int : Held(containers', s) <= ServerHolds
    BY <1>2, Counted, AutoscaleAssumption
  <2>3. monitor.at = "run" =>
          Held(containers', monitor.on) + (monitor.last - monitor.next + 1) <= ServerHolds
    BY <1>2, <2>1, Counted, AutoscaleAssumption DEF AutoscaleInv, RoomInv
  <2>4. monitor.at = "insert" =>
          Held(containers', monitor.on) + (monitor.last - monitor.next) <= ServerHolds
    BY <1>2, <2>1, Counted, AutoscaleAssumption DEF AutoscaleInv, RoomInv
  <2>5. monitor.at = "insert" => Replica \in containers' \/ monitor.on \in gone'
    <3>1. Replica.on = monitor.on
      BY DEF Replica
    <3> QED BY <1>1, <3>1 DEF AutoscaleInv, RoomInv
  <2>6. Replica' = Replica
    BY DEF Replica
  <2> QED BY <2>2, <2>3, <2>4, <2>5, <2>6 DEF AutoscaleInv, RoomInv, Held
<1>7. ReplicaInv'
  <2>1. RowsHaveContainers'
    <3> SUFFICES ASSUME NEW i \in DOMAIN replicas, replicas[i].running
                 PROVE  \/ Container(replicas[i]) \in containers'
                        \/ monitor.at = "mark" /\ Head(monitor.doomed) = Container(replicas[i])
                        \/ replicas[i].n \in unmarked
                        \/ replicas[i].on \in gone'
      BY DEF RowsHaveContainers, Container
    <3>1. Container(replicas[i]).on = replicas[i].on
      BY DEF Container
    <3> QED BY <1>1, <3>1 DEF AutoscaleInv, ReplicaInv, RowsHaveContainers
  <2> QED BY <2>1 DEF AutoscaleInv, ReplicaInv
<1> QED BY <1>4, <1>5, <1>6, <1>7 DEF AutoscaleInv

LEMMA ParentInv ==
  ASSUME AutoscaleInv, IdleList \/ IdleSleep \/ Wake \/ Destroy PROVE AutoscaleInv'
<1>1. /\ parent \in [status : {"running", "sleeping", "destroyed"}, server : 1 .. MaxServers + 1,
                     listed : BOOLEAN]
      /\ gone \subseteq 1 .. parent.server /\ parent.server \in 1 .. MaxServers + 1
  BY DEF AutoscaleInv, AutoscaleShape, ParentTyped
<1>2. UNCHANGED <<policy, cooling, load, feeds, ids, replicas, monitor, unmarked, slips, rounds>>
  BY DEF IdleList, IdleSleep, Wake, Destroy, settingVars
<1>3. gone' \in {gone, gone \cup {parent.server}}
  BY DEF IdleList, IdleSleep, Wake, Destroy
<1>4. containers' = Without(gone') \/ (containers' = containers /\ gone' = gone)
  BY DEF IdleList, IdleSleep, Wake, Destroy
<1>5. /\ parent' \in [status : {"running", "sleeping", "destroyed"}, server : 1 .. MaxServers + 1,
                      listed : BOOLEAN]
      /\ parent'.server = parent.server \/ (parent'.server = parent.server + 1 /\ gone' = gone)
  <2>1. CASE IdleList
    BY <1>1, <2>1 DEF IdleList
  <2>2. CASE IdleSleep
    BY <1>1, <2>2 DEF IdleSleep
  <2>3. CASE Wake
    <3>1. /\ parent.server < MaxServers /\ gone' = gone
          /\ parent' = [parent EXCEPT !.status = "running", !.server = parent.server + 1]
      BY <1>1, <2>3 DEF Wake
    <3>2. parent.server + 1 \in 1 .. MaxServers + 1
      BY <1>1, <3>1, AutoscaleAssumption
    <3> DEFINE n == parent.server + 1
    <3> HIDE DEF n
    <3>3. parent' = [parent EXCEPT !.status = "running", !.server = n] /\ n \in 1 .. MaxServers + 1
      BY <3>1, <3>2 DEF n
    <3>4. /\ parent' \in [status : {"running", "sleeping", "destroyed"}, server : 1 .. MaxServers + 1,
                          listed : BOOLEAN]
          /\ parent'.server = n
      BY <1>1, <3>3
    <3> QED BY <3>1, <3>4 DEF n
  <2>4. CASE Destroy
    BY <1>1, <2>4 DEF Destroy
  <2> QED BY <2>1, <2>2, <2>3, <2>4
<1>6. ParentTyped'
  BY <1>1, <1>3, <1>5, AutoscaleAssumption DEF ParentTyped
<1> QED BY <1>2, <1>3, <1>4, <1>6, ServerStepInv

LEMMA AutoscaleNextInv == AutoscaleInv /\ [AutoscaleNext]_autoscaleVars => AutoscaleInv'
<1> SUFFICES ASSUME AutoscaleInv, [AutoscaleNext]_autoscaleVars PROVE AutoscaleInv'
  OBVIOUS
<1>1. CASE UNCHANGED autoscaleVars
  BY <1>1 DEF autoscaleVars, AutoscaleInv, AutoscaleShape, ParentTyped, LimitsInv, RoomInv, ReplicaInv,
              RowsHaveContainers, Container, Replica, Held
<1>2. CASE AutoscaleNext
  BY <1>2, SetPolicyInv, DeletePolicyInv, SignalsInv, EvaluateInv, MeasureInv, CountContainersInv,
     RunContainerInv, InsertReplicaInv, SelectReplicasInv, RemoveContainerInv, MarkDestroyedInv,
     UpdatePolicyInv, ParentInv
  DEF AutoscaleNext, MonitorStep
<1> QED BY <1>1, <1>2

LEMMA AutoscaleSpecInv == AutoscaleSpec => []AutoscaleInv
<1> QED BY AutoscaleInitInv, AutoscaleNextInv, PTL DEF AutoscaleSpec

(* Every variable of Autoscale keeps its type, and no two rows are of one replica. *)
THEOREM AutoscaleTypes == AutoscaleSpec => []AutoscaleTypeOK
<1>1. AutoscaleInv => AutoscaleTypeOK
  BY DEF AutoscaleInv, AutoscaleShape, ParentTyped, MonitorRow, ReplicaInv, AutoscaleTypeOK, MonitorPlaces
<1> QED BY AutoscaleSpecInv, <1>1, PTL

(* The policy's count stays at 1 or within limits that were asked for, however  *)
(* the API changes the policy while the monitor works from what it read.        *)
THEOREM CountsAreAskedFor == AutoscaleSpec => []CountStaysInLimits
<1>1. AutoscaleInv => CountStaysInLimits
  BY DEF AutoscaleInv, LimitsInv, CountWithin, CountStaysInLimits
<1> QED BY AutoscaleSpecInv, <1>1, PTL

(* No server of the environment ever holds more containers than it has room     *)
(* for, although the monitor counts them once and starts several, and the       *)
(* environment may be put to sleep and woken elsewhere meanwhile.               *)
THEOREM ServersHaveRoom == AutoscaleSpec => []CapacityKept
<1>1. AutoscaleInv => CapacityKept
  BY DEF AutoscaleInv, AutoscaleShape, ParentTyped, RoomInv, CapacityKept, On, Held
<1> QED BY AutoscaleSpecInv, <1>1, PTL

(* A row that says a replica is running has its container on the server it      *)
(* names, but for the one the monitor is removing, those whose end could not be *)
(* written, and those left behind by a server that was taken away when the      *)
(* environment was put to sleep or destroyed.                                   *)
THEOREM ReplicasRun == AutoscaleSpec => []RowsHaveContainers
<1>1. AutoscaleInv => RowsHaveContainers
  BY DEF AutoscaleInv, ReplicaInv
<1> QED BY AutoscaleSpecInv, <1>1, PTL

\* ceil(a * b / c) is not below a when b is not below c
LEMMA CeilingGrows ==
  ASSUME NEW a \in Nat, NEW b \in Nat, NEW c \in 1 .. 100, c <= b
  PROVE  Ceiling(a * b, c) \in Int /\ Ceiling(a * b, c) >= a
<1> DEFINE x == a * b + c - 1
           q == x \div c
<1>1. x \in Int /\ a * c <= a * b /\ a * c \in Int /\ a * b \in Int
  OBVIOUS
<1>2. q \in Int /\ x < c * (q + 1)
  BY <1>1
<1>3. c * a < c * (q + 1)
  BY <1>1, <1>2
<1>4. a < q + 1
  BY <1>2, <1>3
<1> QED BY <1>2, <1>4 DEF Ceiling

LEMMA HotWantsNoLess ==
  ASSUME NEW q \in Rules, AskedFor(q), NEW l \in [cpu : Nat, mem : Nat], q.current \in Nat,
         Hot(q, l), q.up >= q.target, q.current <= q.max
  PROVE  Desired(q, l) >= q.current
<1>1. PICK p \in Policies : /\ q.min = Normal(p).min /\ q.max = Normal(p).max
                            /\ q.target = p.target /\ q.up = p.up
  BY DEF AskedFor
<1>2. q.min \in Int /\ q.max \in Int /\ q.min <= q.max /\ q.target \in 1 .. 100 /\ q.up \in Nat
  BY <1>1, NormalLimits
<1> DEFINE peak == Larger(l.cpu, l.mem)
           n == Ceiling(q.current * peak, q.target)
<1>3. peak \in Nat /\ peak > q.up /\ peak >= q.target
  BY <1>2 DEF Hot, Larger
<1> HIDE DEF peak
<1>4. n \in Int /\ n >= q.current
  BY <1>2, <1>3, CeilingGrows
<1> HIDE DEF n
<1>5. ~(2 * peak < q.target)
  BY <1>2, <1>3
<1>6. Desired(q, l) = Clamp(q, n)
  BY <1>5 DEF Desired, peak, n
<1> QED BY <1>2, <1>4, <1>6 DEF Clamp, Smaller, Larger

(* Under a policy whose threshold for scaling up is not below its target, load   *)
(* above it never makes the monitor remove replicas, except to come down to a    *)
(* lowered maximum.                                                              *)
THEOREM LoadTakesNothing == AutoscaleSpec => HotNeverShrinks
<1>1. AutoscaleInv /\ [AutoscaleNext]_autoscaleVars =>
        [(monitor.at = "measure" /\ Hot(monitor.policy, Metrics)
          /\ monitor.policy.up >= monitor.policy.target
          /\ monitor.policy.current <= monitor.policy.max)
         => monitor'.at # "select"]_autoscaleVars
  <2> SUFFICES ASSUME AutoscaleInv, AutoscaleNext, monitor.at = "measure",
                      Hot(monitor.policy, Metrics),
                      monitor.policy.up >= monitor.policy.target,
                      monitor.policy.current <= monitor.policy.max
               PROVE  monitor'.at # "select"
    OBVIOUS
  <2> DEFINE p == monitor.policy
  <2>1. /\ p \in Rules /\ AskedFor(p) /\ Metrics \in [cpu : Nat, mem : Nat] /\ CountWithin(p.current)
        /\ monitor \in MonitorRow
    BY MetricsAreLoads DEF AutoscaleInv, AutoscaleShape, LimitsInv, MonitorRow
  <2>2. p.current \in Nat
    <3>1. p.current \in Int
      BY <2>1 DEF Rules
    <3>2. CASE p.current = 1
      BY <3>2
    <3>3. ASSUME NEW a \in Policies, p.current \in Normal(a).min .. Normal(a).max
          PROVE  p.current \in Nat
      BY <3>1, <3>3, NormalLimits
    <3> QED BY <2>1, <3>2, <3>3 DEF CountWithin
  <2>3. Desired(p, Metrics) >= p.current /\ Desired(p, Metrics) \in Int
    BY <2>1, <2>2, HotWantsNoLess, DesiredWithin
  <2>4. CASE Measure
    <3>1. CASE monitor' = Waiting
      BY <3>1, Started
    <3>2. CASE Desired(p, Metrics) # p.current
               /\ monitor' = [monitor EXCEPT !.at = IF Desired(p, Metrics) > p.current
                                                    THEN "count" ELSE "select",
                                             !.desired = Desired(p, Metrics)]
      <4>1. Desired(p, Metrics) > p.current
        BY <2>2, <2>3, <3>2
      <4> QED BY <2>1, <3>2, <4>1 DEF MonitorRow
    <3> QED BY <2>4, <3>1, <3>2 DEF Measure
  <2>5. CASE monitor' = monitor
    BY <2>5
  <2> QED BY <2>4, <2>5 DEF AutoscaleNext, MonitorStep, SetPolicy, DeletePolicy, CooldownEnds,
          HealthReport, Evaluate, CountContainers, RunContainer, InsertReplica, SelectReplicas,
          RemoveContainer, MarkDestroyed, UpdatePolicy, IdleList, IdleSleep, Wake, Destroy
<1> QED BY AutoscaleSpecInv, <1>1, PTL DEF AutoscaleSpec, HotNeverShrinks

-----------------------------------------------------------------------------
(* Billing: sums.                                                           *)

Units(f) == UNION {{x} \X (1 .. f[x]) : x \in DOMAIN f}

LEMMA UnitsAre ==
  ASSUME NEW D, NEW f \in [D -> Nat]
  PROVE  \A u : u \in Units(f) <=> \E x \in D : \E n \in 1 .. f[x] : u = <<x, n>>
  BY DEF Units

LEMMA UnitsFinite ==
  ASSUME NEW D, IsFiniteSet(D), NEW f \in [D -> Nat]
  PROVE  IsFiniteSet(Units(f)) /\ Total(f) = Cardinality(Units(f)) /\ Total(f) \in Nat
<1> DEFINE g == [x \in D |-> {x} \X (1 .. f[x])]
           T == {{x} \X (1 .. f[x]) : x \in D}
<1>1. g \in Surjection(D, T)
  BY DEF Surjection
<1>2. IsFiniteSet(T)
  BY <1>1, FS_Surjection
<1>3. ASSUME NEW x \in D PROVE IsFiniteSet({x} \X (1 .. f[x]))
  <2>1. f[x] \in Nat
    OBVIOUS
  <2> DEFINE n == f[x]
  <2>2. n \in Int /\ 1 \in Int
    BY <2>1
  <2> HIDE DEF n
  <2>3. IsFiniteSet(1 .. n)
    BY <2>2, FS_Interval
  <2>4. IsFiniteSet({x} \X (1 .. n))
    BY <2>3, FS_Singleton, FS_Product
  <2> QED BY <2>4 DEF n
<1>4. IsFiniteSet(UNION T)
  BY <1>2, <1>3, FS_UNION
<1>5. Units(f) = UNION T
  BY DEF Units
<1> QED BY <1>4, <1>5, FS_CardinalityType DEF Total, Units

\* a sum grows with its terms
LEMMA TotalGrows ==
  ASSUME NEW D, NEW E, IsFiniteSet(E), D \subseteq E, NEW f \in [D -> Nat], NEW g \in [E -> Nat],
         \A x \in D : f[x] <= g[x]
  PROVE  Total(f) <= Total(g)
<1>1. IsFiniteSet(D)
  BY FS_Subset
<1>2. Units(f) \subseteq Units(g)
  <2> SUFFICES ASSUME NEW x \in D, NEW n, n \in 1 .. f[x] PROVE <<x, n>> \in Units(g)
    BY UnitsAre
  <2>1. x \in E /\ n \in 1 .. g[x]
    <3>1. f[x] \in Nat /\ g[x] \in Nat /\ f[x] <= g[x]
      OBVIOUS
    <3> QED BY <3>1
  <2> QED BY <2>1, UnitsAre
<1> QED BY <1>1, <1>2, UnitsFinite, FS_Subset

\* the sum over two sets that share nothing
LEMMA TotalJoins ==
  ASSUME NEW D, NEW E, IsFiniteSet(D), IsFiniteSet(E), D \cap E = {},
         NEW f \in [D -> Nat], NEW g \in [E -> Nat], NEW h \in [D \cup E -> Nat],
         \A x \in D : h[x] = f[x], \A x \in E : h[x] = g[x]
  PROVE  Total(h) = Total(f) + Total(g)
<1>1. Units(h) = Units(f) \cup Units(g)
  <2>1. ASSUME NEW u PROVE u \in Units(h) <=> u \in Units(f) \/ u \in Units(g)
    <3>1. u \in Units(h) <=> \E x \in D \cup E : \E n \in 1 .. h[x] : u = <<x, n>>
      BY UnitsAre
    <3>2. u \in Units(f) <=> \E x \in D : \E n \in 1 .. f[x] : u = <<x, n>>
      BY UnitsAre
    <3>3. u \in Units(g) <=> \E x \in E : \E n \in 1 .. g[x] : u = <<x, n>>
      BY UnitsAre
    <3> QED BY <3>1, <3>2, <3>3
  <2> QED BY <2>1
<1>2. Units(f) \cap Units(g) = {}
  <2> SUFFICES ASSUME NEW u, u \in Units(f), u \in Units(g) PROVE FALSE
    OBVIOUS
  <2>1. PICK x \in D : \E n \in 1 .. f[x] : u = <<x, n>>
    BY UnitsAre
  <2>2. PICK y \in E : \E m \in 1 .. g[y] : u = <<y, m>>
    BY UnitsAre
  <2> QED BY <2>1, <2>2
<1>3. /\ IsFiniteSet(Units(f)) /\ IsFiniteSet(Units(g)) /\ Total(f) = Cardinality(Units(f))
      /\ Total(g) = Cardinality(Units(g)) /\ Total(f) \in Nat /\ Total(g) \in Nat
  BY UnitsFinite
<1>4. IsFiniteSet(D \cup E)
  BY FS_Union
<1>5. Total(h) = Cardinality(Units(h))
  BY <1>4, UnitsFinite
<1> QED BY <1>1, <1>2, <1>3, <1>5, FS_Union, FS_EmptySet

-----------------------------------------------------------------------------
(* Billing: credits.                                                        *)

UsageRows == [Sessions -> [start : 0 .. MaxTicks, stop : 0 .. MaxTicks, billed : Nat]]

\* the rows u at time t: a session's ticks, and those of the sessions in S of one size
SecondsIn(u, t, e) == IF u[e].stop # 0 THEN u[e].billed ELSE Rounded(t - u[e].start)
SumIn(u, t, S, z) == Total([e \in {e \in S : SizeOf[e] = z} |-> SecondsIn(u, t, e)])
BegunIn(u, m) == {e \in Sessions : u[e].start # 0 /\ Month(u[e].start) = m}
UsedIn(u, t, m) == Total([z \in Sizes |-> CreditsFor(z, SumIn(u, t, BegunIn(u, m), z))])

LEMMA SecondsAreNat ==
  ASSUME NEW u \in UsageRows, NEW t \in Nat, \A e \in Sessions : u[e].start <= t, NEW e \in Sessions
  PROVE  SecondsIn(u, t, e) \in Nat
<1>1. u[e] \in [start : 0 .. MaxTicks, stop : 0 .. MaxTicks, billed : Nat]
  BY DEF UsageRows
<1>2. u[e].start \in Nat /\ u[e].billed \in Nat /\ u[e].start <= t
  BY <1>1
<1> QED BY <1>2 DEF SecondsIn, Rounded

LEMMA SumIsNat ==
  ASSUME NEW u \in UsageRows, NEW t \in Nat, \A e \in Sessions : u[e].start <= t,
         NEW S \in SUBSET Sessions, NEW z
  PROVE  SumIn(u, t, S, z) \in Nat
<1> DEFINE D == {e \in S : SizeOf[e] = z}
           f == [e \in D |-> SecondsIn(u, t, e)]
<1>1. f \in [D -> Nat]
  BY SecondsAreNat
<1>2. IsFiniteSet(D)
  BY BillingAssumption, FS_Subset
<1> HIDE DEF D, f
<1>3. Total(f) \in Nat
  BY <1>1, <1>2, UnitsFinite
<1> QED BY <1>3 DEF SumIn, f, D

LEMMA SumsJoin ==
  ASSUME NEW u \in UsageRows, NEW t \in Nat, \A e \in Sessions : u[e].start <= t,
         NEW S \in SUBSET Sessions, NEW T \in SUBSET Sessions, S \cap T = {}, NEW z
  PROVE  SumIn(u, t, S \cup T, z) = SumIn(u, t, S, z) + SumIn(u, t, T, z)
<1> DEFINE D == {e \in S : SizeOf[e] = z}
           E == {e \in T : SizeOf[e] = z}
           C == {e \in S \cup T : SizeOf[e] = z}
           f == [e \in D |-> SecondsIn(u, t, e)]
           g == [e \in E |-> SecondsIn(u, t, e)]
           h == [e \in C |-> SecondsIn(u, t, e)]
<1>1. f \in [D -> Nat] /\ g \in [E -> Nat] /\ h \in [C -> Nat]
  BY SecondsAreNat
<1>2. IsFiniteSet(D) /\ IsFiniteSet(E)
  BY BillingAssumption, FS_Subset
<1>3. C = D \cup E /\ D \cap E = {}
  OBVIOUS
<1>4. (\A x \in D : h[x] = f[x]) /\ (\A x \in E : h[x] = g[x])
  OBVIOUS
<1>5. SumIn(u, t, S \cup T, z) = Total(h) /\ SumIn(u, t, S, z) = Total(f)
      /\ SumIn(u, t, T, z) = Total(g)
  BY DEF SumIn
<1> HIDE DEF D, E, C, f, g, h
<1>6. Total(h) = Total(f) + Total(g)
  BY <1>1, <1>2, <1>3, <1>4, TotalJoins
<1> QED BY <1>5, <1>6

LEMMA SumGrows ==
  ASSUME NEW u \in UsageRows, NEW t \in Nat, \A e \in Sessions : u[e].start <= t,
         NEW v \in UsageRows, NEW s \in Nat, \A e \in Sessions : v[e].start <= s,
         NEW S \in SUBSET Sessions, NEW T \in SUBSET Sessions, S \subseteq T, NEW z,
         \A e \in S : SecondsIn(u, t, e) <= SecondsIn(v, s, e)
  PROVE  SumIn(u, t, S, z) <= SumIn(v, s, T, z)
<1> DEFINE D == {e \in S : SizeOf[e] = z}
           E == {e \in T : SizeOf[e] = z}
           f == [e \in D |-> SecondsIn(u, t, e)]
           g == [e \in E |-> SecondsIn(v, s, e)]
<1>1. f \in [D -> Nat] /\ g \in [E -> Nat]
  BY SecondsAreNat
<1>2. IsFiniteSet(E) /\ D \subseteq E
  BY BillingAssumption, FS_Subset
<1>3. \A x \in D : f[x] <= g[x]
  BY <1>2
<1>4. SumIn(u, t, S, z) = Total(f) /\ SumIn(v, s, T, z) = Total(g)
  BY DEF SumIn
<1> HIDE DEF D, E, f, g
<1>5. Total(f) <= Total(g)
  BY <1>1, <1>2, <1>3, TotalGrows
<1> QED BY <1>4, <1>5

LEMMA QuotientsGrow ==
  ASSUME NEW m \in Nat, NEW n \in Nat, m <= n, NEW d \in Nat \ {0}
  PROVE  m \div d <= n \div d
<1> DEFINE p == m \div d
           q == n \div d
<1>1. p \in Nat /\ q \in Nat /\ d * p <= m /\ n < d * q + d
  OBVIOUS
<1> HIDE DEF p, q
<1>2. d * p < d * (q + 1)
  BY <1>1
<1>3. p < q + 1
  BY <1>1, <1>2
<1> QED BY <1>1, <1>3 DEF p, q

LEMMA CreditsGrow ==
  ASSUME NEW z \in Sizes, NEW a \in Nat, NEW b \in Nat, a <= b
  PROVE  CreditsFor(z, a) \in Nat /\ CreditsFor(z, b) \in Nat /\ CreditsFor(z, a) <= CreditsFor(z, b)
<1>1. PICK k \in Nat \ {0} : Multiplier[z] = k
  BY BillingAssumption DEF Sizes
<1>2. Minute \in Nat \ {0}
  BY BillingAssumption
<1>3. ASSUME NEW s \in Nat PROVE MinutesBegun(s) \in Nat
  <2>1. AtLeast(s, MinBilled) + Minute - 1 \in Nat
    BY <1>2 DEF AtLeast, MinBilled
  <2> DEFINE n == AtLeast(s, MinBilled) + Minute - 1
  <2> HIDE DEF n
  <2>2. n \div Minute \in Nat
    BY <2>1, <1>2 DEF n
  <2> QED BY <2>2 DEF MinutesBegun, n
<1>4. MinutesBegun(a) <= MinutesBegun(b)
  <2> DEFINE m == AtLeast(a, MinBilled) + Minute - 1
             n == AtLeast(b, MinBilled) + Minute - 1
  <2>1. m \in Nat /\ n \in Nat /\ m <= n
    BY <1>2 DEF AtLeast, MinBilled
  <2> HIDE DEF m, n
  <2>2. m \div Minute <= n \div Minute
    BY <2>1, <1>2, QuotientsGrow
  <2> QED BY <2>2 DEF MinutesBegun, m, n
<1>5. ASSUME NEW s \in Nat PROVE CreditsFor(z, s) = IF s = 0 THEN 0 ELSE MinutesBegun(s) * k
  BY <1>1 DEF CreditsFor
<1>6. CreditsFor(z, a) = (IF a = 0 THEN 0 ELSE MinutesBegun(a) * k)
      /\ CreditsFor(z, b) = (IF b = 0 THEN 0 ELSE MinutesBegun(b) * k)
  BY <1>5
<1>7. /\ MinutesBegun(a) * k <= MinutesBegun(b) * k
      /\ MinutesBegun(a) * k \in Nat /\ MinutesBegun(b) * k \in Nat
  <2>1. MinutesBegun(a) \in Nat /\ MinutesBegun(b) \in Nat
    BY <1>3
  <2> QED BY <2>1, <1>4
<1> QED BY <1>6, <1>7

LEMMA SizesFinite == IsFiniteSet(Sizes)
<1> DEFINE f == [e \in Sessions |-> SizeOf[e]]
<1>1. f \in Surjection(Sessions, Sizes)
  BY DEF Surjection, Sizes
<1> QED BY <1>1, BillingAssumption, FS_Surjection

\* what is used grows when sessions are not forgotten and their ticks grow
LEMMA UsedGrows ==
  ASSUME NEW u \in UsageRows, NEW t \in Nat, \A e \in Sessions : u[e].start <= t,
         NEW v \in UsageRows, NEW s \in Nat, \A e \in Sessions : v[e].start <= s,
         \A e \in Sessions : u[e].start # 0 =>
           v[e].start = u[e].start /\ SecondsIn(u, t, e) <= SecondsIn(v, s, e),
         NEW m
  PROVE  UsedIn(u, t, m) <= UsedIn(v, s, m)
<1> DEFINE S == BegunIn(u, m)
           T == BegunIn(v, m)
           f == [z \in Sizes |-> CreditsFor(z, SumIn(u, t, S, z))]
           g == [z \in Sizes |-> CreditsFor(z, SumIn(v, s, T, z))]
<1>1. S \in SUBSET Sessions /\ T \in SUBSET Sessions /\ S \subseteq T
      /\ \A e \in S : SecondsIn(u, t, e) <= SecondsIn(v, s, e)
  BY DEF BegunIn
<1>2. UsedIn(u, t, m) = Total(f) /\ UsedIn(v, s, m) = Total(g)
  BY DEF UsedIn
<1> HIDE DEF S, T
<1>3. ASSUME NEW z \in Sizes
      PROVE  /\ SumIn(u, t, S, z) \in Nat /\ SumIn(v, s, T, z) \in Nat
             /\ SumIn(u, t, S, z) <= SumIn(v, s, T, z)
  BY <1>1, SumIsNat, SumGrows
<1>4. ASSUME NEW z \in Sizes PROVE f[z] \in Nat /\ g[z] \in Nat /\ f[z] <= g[z]
  BY <1>3, CreditsGrow
<1>5. f \in [Sizes -> Nat] /\ g \in [Sizes -> Nat]
  BY <1>4
<1> HIDE DEF f, g
<1> QED BY <1>2, <1>4, <1>5, SizesFinite, TotalGrows

-----------------------------------------------------------------------------
(* Billing: the invariant.                                                  *)

CallerPlaces == {"free", "check", "create", "track", "stop", "report", "destroy", "done",
                 "newCustomer", "saveCustomer", "subscribe", "newSub", "saveSub"}
CallerRows == [at : CallerPlaces, session : Sessions \cup {Fresh.session}, past : [Sizes -> Nat],
               month : Int, start : Nat, recorded : BOOLEAN, customer : Nat,
               exhausted : BOOLEAN, misread : BOOLEAN, allowed : BOOLEAN]
Meters == [session : Sessions, credits : Nat, recorded : BOOLEAN, customer : Nat]

BillingShape ==
  /\ clock \in 1 .. MaxTicks /\ failures \in 0 .. MaxFailures
  /\ usage \in UsageRows /\ environment \in [Sessions -> {"none", "up", "down"}]
  /\ customers \in Nat /\ owners \in Seq(1 .. customers) /\ cards \subseteq 1 .. customers
  /\ settings \in [customer : 0 .. customers, sub : 0 .. Len(owners)]
  /\ caller \in [Callers -> CallerRows] /\ meter \subseteq Meters

\* a row begins once, after its environment, and ends with what is billed
SessionInv ==
  \A e \in Sessions :
    /\ usage[e].start <= clock
    /\ environment[e] = "none" => usage[e].start = 0
    /\ usage[e].stop # 0 => /\ usage[e].start # 0
                            /\ usage[e].billed <= AtLeast(Rounded(clock - usage[e].start), MinBilled)

\* what a caller j is about to do, and what it has read of the environments env, the
\* rows u, and so many customers and subscriptions
HeldIn(j, env, u, persons, subs) ==
  /\ j.at \in {"track", "stop", "report", "destroy"} =>
       j.session \in Sessions /\ env[j.session] # "none"
  /\ j.at = "track" => u[j.session].start = 0
  /\ j.at = "stop" => ~j.recorded
  /\ j.at \in {"saveCustomer", "newSub"} => j.customer \in 1 .. persons
  /\ j.at = "saveSub" => j.start \in 1 .. subs
  /\ j.at \in {"stop", "report"} /\ j.start # 0 => j.start = u[j.session].start
  /\ j.at = "report" => j.start # 0 /\ (j.recorded => u[j.session].stop # 0)

CallersInv ==
  /\ \A c \in Callers : HeldIn(caller[c], environment, usage, customers, Len(owners))
  /\ \A c, d \in Callers :
       caller[c].at = "track" /\ caller[d].at = "track" /\ caller[c].session = caller[d].session
       => c = d

\* what Stripe is told at least of a row that bills so many seconds
Told(s) == AtLeast(s - 1, MinBilled)

MetersInv ==
  \A m \in meter :
    m.recorded => /\ usage[m.session].stop # 0
                  /\ m.credits >= CreditsFor(SizeOf[m.session], Told(usage[m.session].billed))

\* what a check has read of the ended sessions is what they are, and what was
\* exhausted when it began still is
GateHeld(j) ==
  /\ j.at = "check" /\ ~j.misread => /\ j.past = PastSeconds(j.month)
                                     /\ j.exhausted => UsedCredits(j.month) >= Included
  /\ j.allowed /\ j.exhausted => j.misread /\ j.at # "check"

GateInv == \A c \in Callers : GateHeld(caller[c])

BillingInv == BillingShape /\ SessionInv /\ CallersInv /\ MetersInv /\ GateInv

LEMMA UsageOf ==
  ASSUME BillingShape, SessionInv
  PROVE  /\ usage \in UsageRows /\ clock \in Nat /\ \A e \in Sessions : usage[e].start <= clock
         /\ \A e \in Sessions : /\ usage[e].start \in Nat /\ usage[e].stop \in 0 .. MaxTicks
                                /\ usage[e].billed \in Nat
<1>1. usage \in UsageRows /\ clock \in Nat /\ \A e \in Sessions : usage[e].start <= clock
  BY BillingAssumption DEF BillingShape, SessionInv
<1>2. ASSUME NEW e \in Sessions
      PROVE  usage[e].start \in Nat /\ usage[e].stop \in 0 .. MaxTicks /\ usage[e].billed \in Nat
  <2>1. usage[e] \in [start : 0 .. MaxTicks, stop : 0 .. MaxTicks, billed : Nat]
    BY <1>1 DEF UsageRows
  <2> QED BY <2>1
<1> QED BY <1>1, <1>2

\* the two queries, read at once, count each session once
LEMMA UsedIs ==
  ASSUME BillingShape, SessionInv, NEW m
  PROVE  /\ UsedCredits(m) = UsedIn(usage, clock, m)
         /\ PastSeconds(m) \in [Sizes -> Nat]
<1> DEFINE S == BegunIn(usage, m)
           A == {e \in S : usage[e].stop # 0}
           B == {e \in S : usage[e].stop = 0}
<1>1. Ended(m) = A /\ Running(m) = B /\ A \cup B = S /\ A \cap B = {}
      /\ A \in SUBSET Sessions /\ B \in SUBSET Sessions
  BY DEF Ended, Running, StartedIn, BegunIn
<1>2. ASSUME NEW z PROVE SecondsOf(Ended(m), z) = SumIn(usage, clock, A, z)
                         /\ SecondsOf(Running(m), z) = SumIn(usage, clock, B, z)
  <2> HIDE DEF A, B
  <2> QED BY <1>1 DEF SecondsOf, SumIn, Seconds, SecondsIn
<1> HIDE DEF A, B, S
<1>3. ASSUME NEW z \in Sizes
      PROVE  /\ SumIn(usage, clock, S, z) = PastSeconds(m)[z] + SecondsOf(Running(m), z)
             /\ PastSeconds(m)[z] \in Nat
  <2>1. PastSeconds(m)[z] = SecondsOf(Ended(m), z)
    BY DEF PastSeconds
  <2>2. SumIn(usage, clock, A \cup B, z) = SumIn(usage, clock, A, z) + SumIn(usage, clock, B, z)
        /\ SumIn(usage, clock, A, z) \in Nat
    BY <1>1, UsageOf, SumsJoin, SumIsNat
  <2> QED BY <1>1, <1>2, <2>1, <2>2
<1>4. PastSeconds(m) \in [Sizes -> Nat]
  BY <1>3 DEF PastSeconds
<1>5. UsedCredits(m) = Total([z \in Sizes |-> CreditsFor(z, PastSeconds(m)[z] + SecondsOf(Running(m), z))])
  BY DEF UsedCredits, CreditsOf
<1>6. UsedIn(usage, clock, m) = Total([z \in Sizes |-> CreditsFor(z, SumIn(usage, clock, S, z))])
  BY DEF UsedIn, S
<1>7. [z \in Sizes |-> CreditsFor(z, PastSeconds(m)[z] + SecondsOf(Running(m), z))]
      = [z \in Sizes |-> CreditsFor(z, SumIn(usage, clock, S, z))]
  BY <1>3
<1> QED BY <1>4, <1>5, <1>6, <1>7

LEMMA FreshCaller ==
  /\ Fresh \in CallerRows /\ Fresh.at = "free" /\ ~Fresh.allowed /\ Fresh.start = 0 /\ ~Fresh.recorded
  /\ \A at, e : [Fresh EXCEPT !.at = at, !.session = e]
                = [Fresh EXCEPT !.at = at, !.session = e, !.start = Fresh.start]
<1> DEFINE w == CHOOSE e \in Sessions : TRUE
<1>1. Fresh = [at |-> "free", session |-> w, past |-> [z \in Sizes |-> 0],
               month |-> 0, start |-> 0, recorded |-> FALSE, customer |-> 0, exhausted |-> FALSE,
               misread |-> FALSE, allowed |-> FALSE]
  BY DEF Fresh
<1> HIDE DEF w
<1>2. Fresh \in CallerRows
  <2>1. w = Fresh.session /\ [z \in Sizes |-> 0] \in [Sizes -> Nat]
    BY <1>1
  <2> DEFINE p == [z \in Sizes |-> 0]
  <2> HIDE DEF p
  <2>2. Fresh = [at |-> "free", session |-> w, past |-> p,
               month |-> 0, start |-> 0, recorded |-> FALSE, customer |-> 0, exhausted |-> FALSE,
               misread |-> FALSE, allowed |-> FALSE]
    BY <1>1 DEF p
  <2>3. p \in [Sizes -> Nat]
    BY <2>1 DEF p
  <2> DEFINE W == Sessions \cup {Fresh.session}
  <2>4. w \in W
    BY <2>1
  <2> HIDE DEF W
  <2>5. CallerRows = [at : CallerPlaces, session : W, past : [Sizes -> Nat],
               month : Int, start : Nat, recorded : BOOLEAN, customer : Nat,
               exhausted : BOOLEAN, misread : BOOLEAN, allowed : BOOLEAN]
    BY DEF CallerRows, W
  <2> QED BY <2>2, <2>3, <2>4, <2>5 DEF CallerPlaces
<1>3. Fresh.at = "free" /\ ~Fresh.allowed /\ Fresh.start = 0 /\ ~Fresh.recorded
  BY <1>1
<1>4. \A at, e : [Fresh EXCEPT !.at = at, !.session = e]
                = [Fresh EXCEPT !.at = at, !.session = e, !.start = Fresh.start]
  BY <1>1
<1> QED BY <1>2, <1>3, <1>4

LEMMA UsedIsNat == ASSUME BillingShape, SessionInv, NEW m PROVE UsedIn(usage, clock, m) \in Nat
<1> DEFINE S == BegunIn(usage, m)
           f == [z \in Sizes |-> CreditsFor(z, SumIn(usage, clock, S, z))]
<1>1. S \in SUBSET Sessions
  BY DEF BegunIn
<1>2. UsedIn(usage, clock, m) = Total(f)
  BY DEF UsedIn
<1> HIDE DEF S
<1>3. ASSUME NEW z \in Sizes PROVE f[z] \in Nat
  <2>1. SumIn(usage, clock, S, z) \in Nat
    BY <1>1, UsageOf, SumIsNat
  <2>2. CreditsFor(z, SumIn(usage, clock, S, z)) \in Nat
    BY <2>1, CreditsGrow
  <2> QED BY <2>2
<1>4. f \in [Sizes -> Nat]
  BY <1>3
<1> HIDE DEF f
<1> QED BY <1>2, <1>4, SizesFinite, UnitsFinite

LEMMA BillingInitInv == BillingInit => BillingInv
<1> SUFFICES ASSUME BillingInit PROVE BillingInv
  OBVIOUS
<1>1. NoUse \in [start : 0 .. MaxTicks, stop : 0 .. MaxTicks, billed : Nat]
      /\ NoUse.start = 0 /\ NoUse.stop = 0 /\ MaxTicks \in Nat \ {0}
  BY BillingAssumption DEF NoUse
<1>2. Fresh \in CallerRows /\ Fresh.at = "free" /\ ~Fresh.allowed
  BY FreshCaller
<1>3. BillingShape
  <2>1. settings \in [customer : 0 .. customers, sub : 0 .. Len(owners)] /\ owners \in Seq(1 .. customers)
        /\ cards \subseteq 1 .. customers /\ customers \in Nat
    <3>1. CASE settings = [customer |-> 0, sub |-> 0] /\ owners = <<>> /\ customers = 0
      BY <3>1 DEF BillingInit
    <3>2. CASE settings = [customer |-> 1, sub |-> 1] /\ owners = <<1>> /\ customers = 1
      <4>1. owners \in Seq(1 .. 1) /\ Len(owners) = 1
        BY <3>2
      <4> QED BY <3>2, <4>1 DEF BillingInit
    <3> QED BY <3>1, <3>2 DEF BillingInit
  <2>2. clock \in 1 .. MaxTicks /\ failures \in 0 .. MaxFailures
        /\ environment \in [Sessions -> {"none", "up", "down"}] /\ meter \subseteq Meters
    BY <1>1, BillingAssumption DEF BillingInit
  <2>3. usage \in UsageRows /\ caller \in [Callers -> CallerRows]
    BY <1>1, <1>2 DEF BillingInit, UsageRows
  <2> QED BY <2>1, <2>2, <2>3 DEF BillingShape
<1>4. SessionInv /\ MetersInv
  BY <1>1 DEF BillingInit, SessionInv, MetersInv
<1>5. CallersInv /\ GateInv
  BY <1>2 DEF BillingInit, CallersInv, HeldIn, GateInv, GateHeld
<1> QED BY <1>3, <1>4, <1>5 DEF BillingInv

-----------------------------------------------------------------------------
(* Billing: the steps.                                                      *)

LEMMA FailuresCount == ASSUME BillingInv, Fails \/ Works PROVE failures' \in 0 .. MaxFailures
  BY BillingAssumption DEF BillingInv, BillingShape, Fails, Works

LEMMA SameCredits ==
  ASSUME UNCHANGED <<usage, clock>>
  PROVE  \A m : PastSeconds(m)' = PastSeconds(m) /\ UsedCredits(m)' = UsedCredits(m)
<1>1. \A m : Ended(m)' = Ended(m) /\ Running(m)' = Running(m)
  BY DEF Ended, Running, StartedIn
<1>2. \A S, z : SecondsOf(S, z)' = SecondsOf(S, z)
  BY DEF SecondsOf, Seconds
<1>3. \A m : PastSeconds(m)' = PastSeconds(m)
  BY <1>1, <1>2 DEF PastSeconds
<1>4. \A past, S : CreditsOf(past, S)' = CreditsOf(past, S)
  BY <1>2 DEF CreditsOf
<1> QED BY <1>1, <1>3, <1>4 DEF UsedCredits

\* a caller goes on as j; the rows and the clock stay
LEMMA CallerStepInv ==
  ASSUME BillingInv, NEW c \in Callers, NEW j \in CallerRows, caller' = [caller EXCEPT ![c] = j],
         UNCHANGED <<clock, usage>>, failures' \in 0 .. MaxFailures,
         customers' \in Nat, customers <= customers', owners' \in Seq(1 .. customers'),
         Len(owners) <= Len(owners'), cards' \subseteq 1 .. customers',
         settings' \in [customer : 0 .. customers', sub : 0 .. Len(owners')],
         environment' \in [Sessions -> {"none", "up", "down"}],
         \A e \in Sessions : environment[e] # "none" => environment'[e] # "none",
         meter' \subseteq Meters, MetersInv',
         HeldIn(j, environment', usage', customers', Len(owners')), GateHeld(j),
         j.at = "track" => \A d \in Callers \ {c} : caller[d].at = "track" => caller[d].session # j.session
  PROVE  BillingInv'
<1>1. caller' \in [Callers -> CallerRows] /\ caller'[c] = j
      /\ \A d \in Callers \ {c} : caller'[d] = caller[d]
  BY DEF BillingInv, BillingShape
<1>2. BillingShape' /\ SessionInv'
  BY <1>1 DEF BillingInv, BillingShape, SessionInv
<1>3. CallersInv'
  <2>1. ASSUME NEW d \in Callers
        PROVE  HeldIn(caller'[d], environment', usage', customers', Len(owners'))
    <3>1. CASE d = c
      BY <1>1, <3>1
    <3>2. CASE d # c
      <4>1. caller'[d] = caller[d] /\ HeldIn(caller[d], environment, usage, customers, Len(owners))
        BY <1>1, <3>2 DEF BillingInv, CallersInv
      <4>2. customers \in Nat /\ Len(owners) \in Nat /\ Len(owners') \in Nat
        BY DEF BillingInv, BillingShape
      <4> QED BY <4>1, <4>2 DEF HeldIn
    <3> QED BY <3>1, <3>2
  <2>2. \A d, e \in Callers :
          caller'[d].at = "track" /\ caller'[e].at = "track" /\ caller'[d].session = caller'[e].session
          => d = e
    BY <1>1 DEF BillingInv, CallersInv
  <2> QED BY <2>1, <2>2 DEF CallersInv
<1>4. GateInv'
  <2>1. \A m : PastSeconds(m)' = PastSeconds(m) /\ UsedCredits(m)' = UsedCredits(m)
    BY SameCredits
  <2>2. ASSUME NEW d \in Callers PROVE GateHeld(caller'[d])
    BY <1>1 DEF BillingInv, GateInv
  <2>3. ASSUME NEW d \in Callers PROVE GateHeld(caller[d])'
    BY <2>1, <2>2 DEF GateHeld
  <2> QED BY <2>3 DEF GateInv
<1> QED BY <1>2, <1>3, <1>4 DEF BillingInv

LEMMA CallerMoves ==
  ASSUME BillingInv, NEW c \in Callers, NEW j \in CallerRows, caller' = [caller EXCEPT ![c] = j],
         UNCHANGED <<clock, usage, environment, settings, meter, stripe>>,
         failures' \in 0 .. MaxFailures,
         HeldIn(j, environment, usage, customers, Len(owners)), GateHeld(j), j.at # "track"
  PROVE  BillingInv'
<1>1. MetersInv'
  BY DEF BillingInv, MetersInv
<1>2. /\ customers' = customers /\ owners' = owners /\ cards' = cards /\ customers \in Nat
      /\ owners \in Seq(1 .. customers) /\ cards \subseteq 1 .. customers
      /\ settings' \in [customer : 0 .. customers', sub : 0 .. Len(owners')]
      /\ environment' \in [Sessions -> {"none", "up", "down"}] /\ Len(owners) \in Nat
      /\ meter' \subseteq Meters
  BY DEF stripe, BillingInv, BillingShape
<1>3. /\ UNCHANGED <<clock, usage>> /\ customers <= customers' /\ Len(owners) <= Len(owners')
      /\ cards' \subseteq 1 .. customers' /\ owners' \in Seq(1 .. customers') /\ customers' \in Nat
      /\ \A e \in Sessions : environment[e] # "none" => environment'[e] # "none"
  BY <1>2
<1>4. HeldIn(j, environment', usage', customers', Len(owners'))
  BY <1>2
<1>5. j.at = "track" => \A d \in Callers \ {c} : caller[d].at = "track" => caller[d].session # j.session
  OBVIOUS
<1>6. /\ settings' \in [customer : 0 .. customers', sub : 0 .. Len(owners')]
      /\ environment' \in [Sessions -> {"none", "up", "down"}] /\ meter' \subseteq Meters
  BY <1>2
<1> HIDE DEF stripe
<1> QED BY ONLY <1>1, <1>3, <1>4, <1>5, <1>6, CallerStepInv, BillingInv, c \in Callers,
             j \in CallerRows, caller' = [caller EXCEPT ![c] = j],
             failures' \in 0 .. MaxFailures, GateHeld(j)

LEMMA CallerOf ==
  ASSUME BillingInv, NEW c \in Callers
  PROVE  /\ caller[c] \in CallerRows /\ GateHeld(caller[c])
         /\ HeldIn(caller[c], environment, usage, customers, Len(owners))
  BY DEF BillingInv, BillingShape, CallersInv, GateInv

\* only the place of a caller changes
LEMMA Goes ==
  ASSUME BillingInv, NEW c \in Callers, NEW place \in CallerPlaces, Go(c, place)
  PROVE  \E j \in CallerRows :
           /\ caller' = [caller EXCEPT ![c] = j] /\ j.at = place /\ j.session = caller[c].session
           /\ j.start = caller[c].start /\ j.recorded = caller[c].recorded
           /\ j.customer = caller[c].customer /\ j.exhausted = caller[c].exhausted
           /\ j.misread = caller[c].misread /\ j.allowed = caller[c].allowed
<1> DEFINE j == [caller[c] EXCEPT !.at = place]
<1>1. caller' = [caller EXCEPT ![c] = j]
  BY DEF Go
<1>2. /\ j \in CallerRows /\ j.at = place /\ j.session = caller[c].session
      /\ j.start = caller[c].start /\ j.recorded = caller[c].recorded
      /\ j.customer = caller[c].customer /\ j.exhausted = caller[c].exhausted
      /\ j.misread = caller[c].misread /\ j.allowed = caller[c].allowed
  BY CallerOf DEF CallerRows
<1> QED BY <1>1, <1>2

\* a caller that goes to a place where nothing is held of it
LEMMA GoesFree ==
  ASSUME BillingInv, NEW c \in Callers, NEW place \in {"done", "newCustomer", "subscribe"},
         Go(c, place), UNCHANGED <<clock, usage, environment, settings, meter, stripe>>,
         Fails \/ Works
  PROVE  BillingInv'
<1>1. place \in CallerPlaces
  BY DEF CallerPlaces
<1>2. PICK j \in CallerRows :
           /\ caller' = [caller EXCEPT ![c] = j] /\ j.at = place
           /\ j.exhausted = caller[c].exhausted
           /\ j.misread = caller[c].misread /\ j.allowed = caller[c].allowed
  BY <1>1, Goes
<1>3. GateHeld(j) /\ HeldIn(j, environment, usage, customers, Len(owners)) /\ j.at # "track"
  BY <1>2, CallerOf DEF GateHeld, HeldIn
<1> QED BY <1>2, <1>3, FailuresCount, CallerMoves

LEMMA CheckEndedInv == ASSUME BillingInv, NEW c \in Callers, CheckEnded(c) PROVE BillingInv'
<1> DEFINE month == Month(clock)
           past == PastSeconds(Month(clock))
           used == UsedCredits(Month(clock))
           exhausted == used >= Included
           j == [Fresh EXCEPT !.at = "check", !.month = month, !.past = past,
                              !.exhausted = exhausted]
<1>1. month \in Int /\ past \in [Sizes -> Nat]
  BY UsageOf, UsedIs, BillingAssumption DEF Month, BillingInv
<1>2. exhausted \in BOOLEAN
  OBVIOUS
<1>3. past = PastSeconds(month) /\ (exhausted => UsedCredits(month) >= Included)
  OBVIOUS
<1>4. caller' = [caller EXCEPT ![c] = j] /\ UNCHANGED <<clock, usage, environment, settings, meter, stripe>> /\ Works
  BY DEF CheckEnded
<1> HIDE DEF month, past, exhausted
<1>5. /\ Fresh \in CallerRows /\ ~Fresh.allowed
  BY FreshCaller
<1>6. /\ j \in CallerRows /\ j.at = "check" /\ j.month = month /\ j.past = past
      /\ j.exhausted = exhausted /\ ~j.allowed
  BY <1>1, <1>2, <1>5 DEF CallerRows, CallerPlaces
<1> HIDE DEF j
<1>7. GateHeld(j) /\ HeldIn(j, environment, usage, customers, Len(owners)) /\ j.at # "track"
  BY <1>3, <1>6 DEF GateHeld, HeldIn
<1> QED BY <1>4, <1>6, <1>7, FailuresCount, CallerMoves

LEMMA CheckRunningInv == ASSUME BillingInv, NEW c \in Callers, CheckRunning(c) PROVE BillingInv'
<1> DEFINE Open(S) == Allows(CreditsOf(caller[c].past, S))
           Place(S) == IF Open(S) THEN "create" ELSE "done"
           Allowed(S) == Open(S) /\ ~HasPaymentMethod
<1>1. caller[c].at = "check" /\ UNCHANGED <<clock, usage, environment, settings, meter, stripe>>
      /\ caller[c] \in CallerRows /\ GateHeld(caller[c]) /\ (Fails \/ Works)
  BY CallerOf DEF CheckRunning
<1>2. PICK S, misread :
        /\ misread \in BOOLEAN
        /\ misread \/ (S = Running(caller[c].month) /\ ~caller[c].misread)
        /\ caller' = [caller EXCEPT ![c].at = Place(S), ![c].allowed = Allowed(S),
                                    ![c].misread = misread]
  <2> DEFINE Goal(S, misread) ==
        /\ misread \in BOOLEAN /\ (misread \/ (S = Running(caller[c].month) /\ ~caller[c].misread))
        /\ caller' = [caller EXCEPT ![c].at = Place(S), ![c].allowed = Allowed(S),
                                    ![c].misread = misread]
  <2>1. CASE Answer(c, Running(caller[c].month), caller[c].misread)
    <3>1. caller[c].misread \in BOOLEAN
      BY <1>1 DEF CallerRows
    <3> DEFINE S == Running(caller[c].month)
    <3>2. caller' = [caller EXCEPT ![c].at = Place(S), ![c].allowed = Allowed(S),
                                    ![c].misread = caller[c].misread]
      BY <2>1 DEF Answer
    <3>3. Goal(S, caller[c].misread)
      BY <3>1, <3>2
    <3> HIDE DEF S, Goal
    <3>4. \E T, misread : Goal(T, misread)
      BY <3>1, <3>3
    <3> QED BY <3>4 DEF Goal
  <2>2. CASE Answer(c, {}, TRUE)
    <3>1. caller' = [caller EXCEPT ![c].at = Place({}), ![c].allowed = Allowed({}),
                                    ![c].misread = TRUE]
      BY <2>2 DEF Answer
    <3>2. Goal({}, TRUE)
      BY <3>1
    <3> HIDE DEF Goal
    <3>3. \E T, misread : Goal(T, misread)
      BY <3>2
    <3> QED BY <3>3 DEF Goal
  <2> QED BY <2>1, <2>2 DEF CheckRunning
<1> DEFINE place == Place(S)
           allowed == Allowed(S)
           j == [caller[c] EXCEPT !.at = place, !.allowed = allowed, !.misread = misread]
<1>3. place \in {"create", "done"} /\ allowed \in BOOLEAN /\ misread \in BOOLEAN
  BY <1>2
<1>4. caller' = [caller EXCEPT ![c] = j]
  BY <1>2
<1>5. ~misread /\ allowed => ~caller[c].exhausted
  <2> SUFFICES ASSUME ~misread, allowed, caller[c].exhausted PROVE FALSE
    OBVIOUS
  <2>1. S = Running(caller[c].month) /\ ~caller[c].misread
    BY <1>2
  <2>2. caller[c].past = PastSeconds(caller[c].month) /\ UsedCredits(caller[c].month) >= Included
    BY <1>1, <2>1 DEF GateHeld
  <2>3. CreditsOf(caller[c].past, S) = UsedCredits(caller[c].month)
    BY <2>1, <2>2 DEF UsedCredits
  <2>4. UsedCredits(caller[c].month) < Included
    BY <2>3 DEF Allows
  <2>5. UsedCredits(caller[c].month) \in Nat
    BY UsedIs, UsedIsNat DEF BillingInv
  <2> QED BY <2>2, <2>4, <2>5, BillingAssumption
<1> HIDE DEF place, allowed
<1>6. /\ j \in CallerRows /\ j.at = place /\ j.allowed = allowed /\ j.misread = misread
      /\ j.exhausted = caller[c].exhausted
  BY <1>1, <1>3 DEF CallerRows, CallerPlaces
<1> HIDE DEF j
<1>7. GateHeld(j) /\ HeldIn(j, environment, usage, customers, Len(owners)) /\ j.at # "track"
  BY <1>3, <1>5, <1>6 DEF GateHeld, HeldIn
<1> QED BY <1>1, <1>4, <1>6, <1>7, FailuresCount, CallerMoves

LEMMA StopReadInv ==
  ASSUME BillingInv, NEW c \in Callers, NEW e \in Sessions, StopRead(c, e) PROVE BillingInv'
<1> DEFINE start == IF usage[e].stop = 0 THEN usage[e].start ELSE 0
<1>1. start \in Nat /\ (start # 0 => start = usage[e].start)
  BY UsageOf DEF BillingInv
<1> HIDE DEF start
<1>2. PICK n \in {start, Fresh.start} :
        caller' = [caller EXCEPT ![c] = [Fresh EXCEPT !.at = "stop", !.session = e, !.start = n]]
  <2>2. [Fresh EXCEPT !.at = "stop", !.session = e]
        = [Fresh EXCEPT !.at = "stop", !.session = e, !.start = Fresh.start]
    BY FreshCaller
  <2> QED BY <2>2 DEF StopRead, start
<1> DEFINE j == [Fresh EXCEPT !.at = "stop", !.session = e, !.start = n]
<1>3. /\ Fresh \in CallerRows /\ ~Fresh.allowed /\ Fresh.start = 0 /\ ~Fresh.recorded
  BY FreshCaller
<1>4. n \in Nat /\ (n # 0 => n = usage[e].start)
  BY <1>1, <1>2, <1>3
<1>5. /\ j \in CallerRows /\ j.at = "stop" /\ j.session = e /\ j.start = n /\ ~j.allowed /\ ~j.recorded
  BY <1>3, <1>4 DEF CallerRows, CallerPlaces
<1>6. caller' = [caller EXCEPT ![c] = j]
  BY <1>2
<1> HIDE DEF j
<1>7. GateHeld(j) /\ HeldIn(j, environment, usage, customers, Len(owners)) /\ j.at # "track"
  BY <1>4, <1>5 DEF GateHeld, HeldIn, StopRead
<1> QED BY <1>5, <1>6, <1>7, FailuresCount, CallerMoves DEF StopRead

LEMMA CreateEnvironmentInv ==
  ASSUME BillingInv, NEW c \in Callers, NEW e \in Sessions, CreateEnvironment(c, e) PROVE BillingInv'
<1> DEFINE j == [caller[c] EXCEPT !.at = "track", !.session = e]
<1>1. /\ environment[e] = "none" /\ environment' = [environment EXCEPT ![e] = "up"] /\ Works
      /\ caller' = [caller EXCEPT ![c] = j]
      /\ UNCHANGED <<clock, usage, settings, meter, customers, owners, cards>>
  BY DEF CreateEnvironment, stripe
<1>2. caller[c] \in CallerRows /\ GateHeld(caller[c]) /\ caller[c].at = "create"
  BY CallerOf DEF CreateEnvironment
<1>3. /\ j \in CallerRows /\ j.at = "track" /\ j.session = e /\ j.exhausted = caller[c].exhausted
      /\ j.allowed = caller[c].allowed /\ j.misread = caller[c].misread
  BY <1>2 DEF CallerRows, CallerPlaces
<1> HIDE DEF j
<1>4. /\ environment \in [Sessions -> {"none", "up", "down"}] /\ customers \in Nat
      /\ owners \in Seq(1 .. customers) /\ cards \subseteq 1 .. customers /\ meter \subseteq Meters
      /\ settings \in [customer : 0 .. customers, sub : 0 .. Len(owners)]
  BY DEF BillingInv, BillingShape
<1>5. /\ environment' \in [Sessions -> {"none", "up", "down"}] /\ environment'[e] = "up"
      /\ \A s \in Sessions : environment[s] # "none" => environment'[s] # "none"
  BY <1>1, <1>4
<1>6. usage[e].start = 0
  BY <1>1 DEF BillingInv, SessionInv
<1>7. GateHeld(j) /\ HeldIn(j, environment', usage', customers', Len(owners'))
  BY <1>1, <1>2, <1>3, <1>5, <1>6 DEF GateHeld, HeldIn
<1>8. \A d \in Callers \ {c} : caller[d].at = "track" => caller[d].session # j.session
  BY <1>1, <1>3, CallerOf DEF HeldIn
<1>9. MetersInv'
  BY <1>1 DEF BillingInv, MetersInv
<1>10. failures' \in 0 .. MaxFailures /\ Len(owners) \in Nat /\ Len(owners) <= Len(owners')
  BY <1>1, <1>4, FailuresCount
<1>11. /\ UNCHANGED <<clock, usage>> /\ caller' = [caller EXCEPT ![c] = j]
      /\ customers' \in Nat /\ customers <= customers' /\ owners' \in Seq(1 .. customers')
      /\ cards' \subseteq 1 .. customers' /\ meter' \subseteq Meters
      /\ settings' \in [customer : 0 .. customers', sub : 0 .. Len(owners')]
  BY <1>1, <1>4
<1> QED BY ONLY <1>3, <1>5, <1>7, <1>8, <1>9, <1>10, <1>11, CallerStepInv, BillingInv, c \in Callers

LEMMA DestroyEnvironmentInv ==
  ASSUME BillingInv, NEW c \in Callers, DestroyEnvironment(c) PROVE BillingInv'
<1>1. PICK j \in CallerRows :
           /\ caller' = [caller EXCEPT ![c] = j] /\ j.at = "done"
           /\ j.exhausted = caller[c].exhausted
           /\ j.misread = caller[c].misread /\ j.allowed = caller[c].allowed
  <2>1. Go(c, "done") /\ "done" \in CallerPlaces
    BY DEF DestroyEnvironment, CallerPlaces
  <2> QED BY <2>1, Goes
<1>2. GateHeld(caller[c]) /\ caller[c].at = "destroy"
      /\ HeldIn(caller[c], environment, usage, customers, Len(owners))
  BY CallerOf DEF DestroyEnvironment
<1>3. UNCHANGED <<clock, usage, settings, meter, customers, owners, cards>> /\ (Fails \/ Works)
  BY DEF DestroyEnvironment, stripe
<1>4. /\ environment \in [Sessions -> {"none", "up", "down"}] /\ customers \in Nat
      /\ owners \in Seq(1 .. customers) /\ cards \subseteq 1 .. customers /\ meter \subseteq Meters
      /\ settings \in [customer : 0 .. customers, sub : 0 .. Len(owners)]
  BY DEF BillingInv, BillingShape
<1>5. /\ environment' \in [Sessions -> {"none", "up", "down"}]
      /\ \A s \in Sessions : environment[s] # "none" => environment'[s] # "none"
  BY <1>4 DEF DestroyEnvironment
<1>6. GateHeld(j) /\ HeldIn(j, environment', usage', customers', Len(owners')) /\ j.at # "track"
  BY <1>1, <1>2 DEF GateHeld, HeldIn
<1>7. MetersInv'
  BY <1>3 DEF BillingInv, MetersInv
<1>8. failures' \in 0 .. MaxFailures /\ Len(owners) \in Nat /\ Len(owners) <= Len(owners')
  BY <1>3, <1>4, FailuresCount
<1>9. /\ UNCHANGED <<clock, usage>>
      /\ customers' \in Nat /\ customers <= customers' /\ owners' \in Seq(1 .. customers')
      /\ cards' \subseteq 1 .. customers' /\ meter' \subseteq Meters
      /\ settings' \in [customer : 0 .. customers', sub : 0 .. Len(owners')]
  BY <1>3, <1>4
<1> QED BY ONLY <1>1, <1>5, <1>6, <1>7, <1>8, <1>9, CallerStepInv, BillingInv, c \in Callers

\* a step of a set-up or of a report: the sessions and the environments stay
LEMMA SetupStepInv ==
  ASSUME BillingInv, NEW c \in Callers, NEW j \in CallerRows, caller' = [caller EXCEPT ![c] = j],
         UNCHANGED <<clock, usage, environment>>, Fails \/ Works,
         customers' \in Nat, customers <= customers', owners' \in Seq(1 .. customers'),
         Len(owners) <= Len(owners'), cards' = cards,
         settings' \in [customer : 0 .. customers', sub : 0 .. Len(owners')],
         meter' \subseteq Meters, MetersInv',
         HeldIn(j, environment, usage, customers', Len(owners')),
         j.allowed = caller[c].allowed, j.exhausted = caller[c].exhausted,
         j.misread = caller[c].misread, j.at \notin {"check", "track"}
  PROVE  BillingInv'
<1>1. /\ environment' \in [Sessions -> {"none", "up", "down"}]
      /\ \A s \in Sessions : environment[s] # "none" => environment'[s] # "none"
  BY DEF BillingInv, BillingShape
<1>2. cards' \subseteq 1 .. customers'
  <2>1. cards \subseteq 1 .. customers /\ customers \in Nat
    BY DEF BillingInv, BillingShape
  <2> QED BY <2>1
<1>3. GateHeld(j)
  <2>1. GateHeld(caller[c])
    BY CallerOf
  <2> QED BY <2>1 DEF GateHeld
<1>4. HeldIn(j, environment', usage', customers', Len(owners')) /\ failures' \in 0 .. MaxFailures
  BY FailuresCount
<1> QED BY <1>1, <1>2, <1>3, <1>4, CallerStepInv

LEMMA ReportInv == ASSUME BillingInv, NEW c \in Callers, Report(c) PROVE BillingInv'
<1> DEFINE e == caller[c].session
           spent == Spent(c)
           told == Told(usage[e].billed)
           row == [session |-> e, credits |-> CreditsFor(SizeOf[e], spent),
                   recorded |-> caller[c].recorded, customer |-> settings.customer]
<1>1. PICK j \in CallerRows :
           /\ caller' = [caller EXCEPT ![c] = j] /\ j.at = "destroy" /\ j.session = e
           /\ j.exhausted = caller[c].exhausted
           /\ j.misread = caller[c].misread /\ j.allowed = caller[c].allowed
  <2>1. Go(c, "destroy") /\ "destroy" \in CallerPlaces
    BY DEF Report, CallerPlaces
  <2> QED BY <2>1, Goes
<1>2. /\ e \in Sessions /\ environment[e] # "none" /\ caller[c] \in CallerRows
      /\ caller[c].start # 0 /\ caller[c].start = usage[e].start
      /\ caller[c].recorded => usage[e].stop # 0
  BY CallerOf DEF Report, HeldIn
<1>3. UNCHANGED <<clock, usage, environment, settings, customers, owners, cards>> /\ (Fails \/ Works)
  BY DEF Report, stripe
<1>4. /\ customers \in Nat /\ owners \in Seq(1 .. customers) /\ meter \subseteq Meters
      /\ settings \in [customer : 0 .. customers, sub : 0 .. Len(owners)]
  BY DEF BillingInv, BillingShape
<1>5. HeldIn(j, environment, usage, customers', Len(owners')) /\ j.at \notin {"check", "track"}
  BY <1>1, <1>2 DEF HeldIn
<1>6. meter' = meter \/ meter' = meter \cup {row}
  BY DEF Report
<1>7. /\ usage[e].start \in Nat /\ usage[e].billed \in Nat /\ clock \in Nat /\ usage[e].start <= clock
      /\ usage[e].stop # 0 => usage[e].billed <= AtLeast(Rounded(clock - usage[e].start), MinBilled)
  BY <1>2, UsageOf DEF BillingInv, SessionInv
<1>8. /\ spent \in Nat /\ told \in Nat
      /\ usage[e].stop # 0 => told <= spent
  <2>1. Minute \in Nat \ {0}
    BY BillingAssumption
  <2>2. spent = AtLeast(Cut(clock - usage[e].start), MinBilled)
    BY <1>2 DEF Spent
  <2> HIDE DEF e
  <2> QED BY <1>7, <2>1, <2>2 DEF Told, AtLeast, Rounded, Cut, MinBilled
<1>9. SizeOf[e] \in Sizes
  BY <1>2 DEF Sizes
<1>10. /\ CreditsFor(SizeOf[e], spent) \in Nat
       /\ caller[c].recorded => CreditsFor(SizeOf[e], spent) >= CreditsFor(SizeOf[e], told)
  <2> HIDE DEF spent, told, e
  <2>1. CreditsFor(SizeOf[e], spent) \in Nat
    BY <1>8, <1>9, CreditsGrow
  <2>2. ASSUME caller[c].recorded
        PROVE CreditsFor(SizeOf[e], spent) >= CreditsFor(SizeOf[e], told)
    <3>1. told <= spent
      BY <1>2, <1>8, <2>2
    <3>2. /\ CreditsFor(SizeOf[e], told) \in Nat
          /\ CreditsFor(SizeOf[e], told) <= CreditsFor(SizeOf[e], spent)
      BY <3>1, <1>8, <1>9, CreditsGrow
    <3> QED BY <2>1, <3>2
  <2> QED BY <2>1, <2>2
<1>11. caller[c].recorded \in BOOLEAN /\ settings.customer \in Nat
  <2>1. settings.customer \in 0 .. customers
    BY <1>4
  <2> QED BY <2>1, <1>2, <1>4 DEF CallerRows
<1> DEFINE credits == CreditsFor(SizeOf[e], spent)
           recorded == caller[c].recorded
           customer == settings.customer
<1>12. /\ row = [session |-> e, credits |-> credits, recorded |-> recorded, customer |-> customer]
       /\ credits \in Nat /\ recorded \in BOOLEAN /\ customer \in Nat
       /\ recorded => usage[e].stop # 0 /\ credits >= CreditsFor(SizeOf[e], Told(usage[e].billed))
  BY <1>2, <1>10, <1>11
<1> HIDE DEF credits, recorded, customer, row, e, spent
<1>13. /\ row \in Meters /\ row.session = e /\ row.recorded = recorded /\ row.credits = credits
  BY <1>2, <1>12 DEF Meters
<1>14. meter' \subseteq Meters
  BY <1>4, <1>6, <1>13
<1>15. MetersInv'
  <2>1. ASSUME NEW m \in meter', m.recorded
        PROVE  usage[m.session].stop # 0
               /\ m.credits >= CreditsFor(SizeOf[m.session], Told(usage[m.session].billed))
    <3>1. CASE m \in meter
      BY <2>1, <3>1 DEF BillingInv, MetersInv
    <3>2. CASE m = row
      BY <2>1, <3>2, <1>12, <1>13
    <3> QED BY <3>1, <3>2, <1>6
  <2>2. ASSUME NEW m \in meter', m.recorded
        PROVE  usage'[m.session].stop # 0
               /\ m.credits >= CreditsFor(SizeOf[m.session], Told(usage'[m.session].billed))
    BY <2>1, <2>2, <1>3
  <2> QED BY <2>2 DEF MetersInv
<1>16. /\ UNCHANGED <<clock, usage, environment>> /\ cards' = cards
       /\ customers' \in Nat /\ customers <= customers' /\ owners' \in Seq(1 .. customers')
       /\ Len(owners) <= Len(owners')
       /\ settings' \in [customer : 0 .. customers', sub : 0 .. Len(owners')]
  BY <1>3, <1>4
<1>17. Fails \/ Works
  BY <1>3
<1> QED BY ONLY <1>1, <1>5, <1>14, <1>15, <1>16, <1>17, SetupStepInv, BillingInv, c \in Callers

LEMMA SettingsOf ==
  ASSUME BillingInv
  PROVE  /\ customers \in Nat /\ owners \in Seq(1 .. customers) /\ meter \subseteq Meters
         /\ Len(owners) \in Nat /\ settings.customer \in 0 .. customers
         /\ settings.sub \in 0 .. Len(owners)
         /\ settings \in [customer : 0 .. customers, sub : 0 .. Len(owners)]
  BY DEF BillingInv, BillingShape

LEMMA MetersStay == ASSUME BillingInv, UNCHANGED <<usage, meter>> PROVE MetersInv' /\ meter' \subseteq Meters
  BY DEF BillingInv, MetersInv, BillingShape

\* a step of a set-up that creates nothing at Stripe
LEMMA SaveStepInv ==
  ASSUME BillingInv, NEW c \in Callers, NEW j \in CallerRows, caller' = [caller EXCEPT ![c] = j],
         UNCHANGED <<clock, usage, environment, meter, stripe>>, Fails \/ Works,
         settings' \in [customer : 0 .. customers, sub : 0 .. Len(owners)],
         HeldIn(j, environment, usage, customers, Len(owners)),
         j.allowed = caller[c].allowed, j.exhausted = caller[c].exhausted,
         j.misread = caller[c].misread, j.at \notin {"check", "track"}
  PROVE  BillingInv'
<1>1. /\ UNCHANGED <<clock, usage, environment>> /\ cards' = cards /\ customers' = customers
      /\ owners' = owners
  BY DEF stripe
<1>2. /\ customers' \in Nat /\ customers <= customers' /\ owners' \in Seq(1 .. customers')
      /\ Len(owners) <= Len(owners')
      /\ settings' \in [customer : 0 .. customers', sub : 0 .. Len(owners')]
      /\ HeldIn(j, environment, usage, customers', Len(owners'))
  BY <1>1, SettingsOf
<1>3. MetersInv' /\ meter' \subseteq Meters
  BY MetersStay
<1> QED BY ONLY <1>1, <1>2, <1>3, SetupStepInv, BillingInv, c \in Callers, j \in CallerRows,
        caller' = [caller EXCEPT ![c] = j], Fails \/ Works,
        j.allowed = caller[c].allowed, j.exhausted = caller[c].exhausted,
        j.misread = caller[c].misread, j.at \notin {"check", "track"}

LEMMA NewCustomerInv == ASSUME BillingInv, NEW c \in Callers, NewCustomer(c) PROVE BillingInv'
<1>1. CASE Works /\ customers' = customers + 1
           /\ caller' = [caller EXCEPT ![c].at = "saveCustomer", ![c].customer = customers + 1]
  <2> DEFINE n == customers + 1
             j == [caller[c] EXCEPT !.at = "saveCustomer", !.customer = n]
  <2>1. caller[c] \in CallerRows /\ n \in 1 .. n /\ n \in Nat /\ customers <= n
    BY CallerOf, SettingsOf
  <2>2. caller' = [caller EXCEPT ![c] = j] /\ customers' = n /\ (Fails \/ Works)
    BY <1>1
  <2> HIDE DEF n
  <2>3. /\ j \in CallerRows /\ j.at = "saveCustomer" /\ j.customer = n
        /\ j.exhausted = caller[c].exhausted
        /\ j.misread = caller[c].misread /\ j.allowed = caller[c].allowed
    BY <2>1 DEF CallerRows, CallerPlaces
  <2> HIDE DEF j
  <2>4. UNCHANGED <<clock, usage, environment>> /\ cards' = cards /\ UNCHANGED <<settings, meter, owners>>
    BY DEF NewCustomer
  <2>5. HeldIn(j, environment, usage, customers', Len(owners')) /\ j.at \notin {"check", "track"}
    BY <2>1, <2>2, <2>3 DEF HeldIn
  <2>6. /\ customers' \in Nat /\ customers <= customers' /\ Len(owners) <= Len(owners')
        /\ settings' \in [customer : 0 .. customers', sub : 0 .. Len(owners')]
    <3>1. settings' = settings /\ owners' = owners /\ Len(owners) \in Nat /\ customers \in Nat
      BY <2>4, SettingsOf
    <3>2. 0 .. customers \subseteq 0 .. customers'
      BY <2>1, <2>2, <3>1
    <3>3. settings \in [customer : 0 .. customers, sub : 0 .. Len(owners)]
      BY SettingsOf
    <3>4. settings' \in [customer : 0 .. customers', sub : 0 .. Len(owners')]
      <4> DEFINE A == 0 .. customers
                 B == 0 .. customers'
                 S == 0 .. Len(owners)
      <4>1. settings \in [customer : A, sub : S] /\ A \subseteq B
        BY <3>2, <3>3
      <4> HIDE DEF A, B, S
      <4>2. settings \in [customer : B, sub : S]
        BY <4>1
      <4> QED BY <4>2, <3>1 DEF B, S
    <3> QED BY <3>1, <3>4, <2>1, <2>2
  <2>7. owners' \in Seq(1 .. customers')
    <3>1. owners \in Seq(1 .. customers) /\ 1 .. customers \subseteq 1 .. customers'
      BY <2>1, <2>2, SettingsOf
    <3> DEFINE A == 1 .. customers
               B == 1 .. customers'
    <3>2. owners \in Seq(A) /\ A \subseteq B
      BY <3>1
    <3> HIDE DEF A, B
    <3>3. \A i \in 1 .. Len(owners) : owners[i] \in B
      BY <3>2
    <3>4. owners \in Seq(B)
      BY <3>2, <3>3
    <3> QED BY <3>4, <2>4 DEF B
  <2>8. MetersInv' /\ meter' \subseteq Meters
    BY <2>4, MetersStay
  <2> QED BY ONLY <2>2, <2>3, <2>4, <2>5, <2>6, <2>7, <2>8, SetupStepInv, BillingInv, c \in Callers
<1>2. CASE Fails /\ Go(c, "done") /\ UNCHANGED customers
  BY <1>2, GoesFree DEF NewCustomer, stripe
<1> QED BY <1>1, <1>2 DEF NewCustomer

LEMMA SaveCustomerInv == ASSUME BillingInv, NEW c \in Callers, SaveCustomer(c) PROVE BillingInv'
<1>1. UNCHANGED <<clock, usage, environment, meter, stripe>>
  BY DEF SaveCustomer
<1>2. CASE Works /\ Upsert(caller[c].customer, 0) /\ Go(c, "subscribe")
  <2>1. PICK j \in CallerRows :
           /\ caller' = [caller EXCEPT ![c] = j] /\ j.at = "subscribe"
           /\ j.exhausted = caller[c].exhausted
           /\ j.misread = caller[c].misread /\ j.allowed = caller[c].allowed
    BY <1>2, Goes DEF CallerPlaces
  <2>2. caller[c].customer \in 1 .. customers
    BY CallerOf DEF HeldIn, SaveCustomer
  <2>3. settings' \in [customer : 0 .. customers, sub : 0 .. Len(owners)]
    BY <1>2, <2>2, SettingsOf DEF Upsert
  <2>4. HeldIn(j, environment, usage, customers, Len(owners)) /\ j.at \notin {"check", "track"}
    BY <2>1 DEF HeldIn
  <2> QED BY <1>1, <1>2, <2>1, <2>3, <2>4, SaveStepInv
<1>3. CASE Fails /\ Go(c, "done") /\ UNCHANGED settings
  BY <1>1, <1>3, GoesFree
<1> QED BY <1>2, <1>3 DEF SaveCustomer

LEMMA SubscribeInv == ASSUME BillingInv, NEW c \in Callers, Subscribe(c) PROVE BillingInv'
<1>1. UNCHANGED <<clock, usage, environment, settings, meter, stripe>>
  BY DEF Subscribe
<1>2. CASE (Works \/ Fails) /\ Go(c, "done")
  BY <1>1, <1>2, GoesFree
<1>3. CASE /\ settings.customer # 0 /\ Works
           /\ caller' = [caller EXCEPT ![c].at = "newSub", ![c].customer = settings.customer]
  <2> DEFINE n == settings.customer
             j == [caller[c] EXCEPT !.at = "newSub", !.customer = n]
  <2>1. caller[c] \in CallerRows /\ n \in 1 .. customers /\ n \in Nat
    BY <1>3, CallerOf, SettingsOf
  <2>2. caller' = [caller EXCEPT ![c] = j] /\ (Fails \/ Works)
    BY <1>3
  <2> HIDE DEF n
  <2>3. /\ j \in CallerRows /\ j.at = "newSub" /\ j.customer = n
        /\ j.exhausted = caller[c].exhausted
        /\ j.misread = caller[c].misread /\ j.allowed = caller[c].allowed
    BY <2>1 DEF CallerRows, CallerPlaces
  <2> HIDE DEF j
  <2>4. HeldIn(j, environment, usage, customers, Len(owners)) /\ j.at \notin {"check", "track"}
    BY <2>1, <2>3 DEF HeldIn
  <2>5. settings' \in [customer : 0 .. customers, sub : 0 .. Len(owners)]
    BY <1>1, SettingsOf
  <2> QED BY <1>1, <2>2, <2>3, <2>4, <2>5, SaveStepInv
<1> QED BY <1>2, <1>3 DEF Subscribe

LEMMA NewSubscriptionInv == ASSUME BillingInv, NEW c \in Callers, NewSubscription(c) PROVE BillingInv'
<1>1. CASE Works /\ owners' = Append(owners, caller[c].customer)
           /\ caller' = [caller EXCEPT ![c].at = "saveSub", ![c].start = Len(owners) + 1]
  <2> DEFINE n == Len(owners) + 1
             j == [caller[c] EXCEPT !.at = "saveSub", !.start = n]
  <2>1. caller[c] \in CallerRows /\ n \in 1 .. n /\ n \in Nat /\ Len(owners) <= n
        /\ caller[c].customer \in 1 .. customers
    BY CallerOf, SettingsOf DEF HeldIn, NewSubscription
  <2>9. Len(owners') = n /\ owners' \in Seq(1 .. customers)
    <3> DEFINE A == 1 .. customers
               p == caller[c].customer
    <3>1. owners \in Seq(A) /\ p \in A /\ owners' = Append(owners, p)
      BY <1>1, <2>1, SettingsOf
    <3> HIDE DEF A, p
    <3>2. owners' \in Seq(A) /\ Len(owners') = Len(owners) + 1
      BY <3>1
    <3> QED BY <3>2 DEF A
  <2>2. caller' = [caller EXCEPT ![c] = j] /\ (Fails \/ Works)
    BY <1>1
  <2> HIDE DEF n
  <2>3. /\ j \in CallerRows /\ j.at = "saveSub" /\ j.start = n
        /\ j.exhausted = caller[c].exhausted
        /\ j.misread = caller[c].misread /\ j.allowed = caller[c].allowed
    BY <2>1 DEF CallerRows, CallerPlaces
  <2> HIDE DEF j
  <2>4. UNCHANGED <<clock, usage, environment>> /\ cards' = cards /\ UNCHANGED <<settings, meter, customers>>
    BY DEF NewSubscription
  <2>5. HeldIn(j, environment, usage, customers', Len(owners')) /\ j.at \notin {"check", "track"}
    BY <2>1, <2>2, <2>3, <2>9 DEF HeldIn
  <2>6. /\ customers' \in Nat /\ customers <= customers' /\ Len(owners) <= Len(owners')
        /\ owners' \in Seq(1 .. customers')
    BY <2>1, <2>9, <2>4, SettingsOf
  <2>7. settings' \in [customer : 0 .. customers', sub : 0 .. Len(owners')]
    <3> DEFINE A == 0 .. customers
               B == 0 .. Len(owners)
               S == 0 .. n
    <3>1. settings \in [customer : A, sub : B] /\ B \subseteq S
      BY <2>1, SettingsOf
    <3> HIDE DEF A, B, S
    <3>2. settings \in [customer : A, sub : S]
      BY <3>1
    <3> QED BY <3>2, <2>9, <2>4 DEF A, S
  <2>8. MetersInv' /\ meter' \subseteq Meters
    BY <2>4, MetersStay
  <2> QED BY ONLY <2>2, <2>3, <2>4, <2>5, <2>6, <2>7, <2>8, SetupStepInv, BillingInv, c \in Callers
<1>2. CASE Fails /\ Go(c, "done") /\ UNCHANGED owners
  BY <1>2, GoesFree DEF NewSubscription, stripe
<1> QED BY <1>1, <1>2 DEF NewSubscription

LEMMA SaveSubscriptionInv == ASSUME BillingInv, NEW c \in Callers, SaveSubscription(c) PROVE BillingInv'
<1>1. UNCHANGED <<clock, usage, environment, meter, stripe>> /\ Go(c, "done")
  BY DEF SaveSubscription
<1>2. CASE Works /\ Upsert(0, caller[c].start)
  <2>1. PICK j \in CallerRows :
           /\ caller' = [caller EXCEPT ![c] = j] /\ j.at = "done"
           /\ j.exhausted = caller[c].exhausted
           /\ j.misread = caller[c].misread /\ j.allowed = caller[c].allowed
    BY <1>1, Goes DEF CallerPlaces
  <2>2. caller[c].start \in 1 .. Len(owners)
    BY CallerOf DEF HeldIn, SaveSubscription
  <2>3. settings' \in [customer : 0 .. customers, sub : 0 .. Len(owners)]
    BY <1>2, <2>2, SettingsOf DEF Upsert
  <2>4. HeldIn(j, environment, usage, customers, Len(owners)) /\ j.at \notin {"check", "track"}
    BY <2>1 DEF HeldIn
  <2> QED BY <1>1, <1>2, <2>1, <2>3, <2>4, SaveStepInv
<1>3. CASE Fails /\ UNCHANGED settings
  BY <1>1, <1>3, GoesFree
<1> QED BY <1>2, <1>3 DEF SaveSubscription

LEMMA AttachCardInv == ASSUME BillingInv, AttachCard PROVE BillingInv'
<1>1. /\ UNCHANGED <<clock, usage, environment, settings, owners, customers, meter, caller, failures>>
      /\ cards' = cards \cup {settings.customer} /\ settings.customer # 0
  BY DEF AttachCard
<1>2. settings.customer \in 1 .. customers
  BY <1>1, SettingsOf
<1>3. BillingShape' /\ SessionInv'
  BY <1>1, <1>2 DEF BillingInv, BillingShape, SessionInv
<1>4. CallersInv'
  <2>1. \A c \in Callers : HeldIn(caller[c], environment, usage, customers, Len(owners))
    BY DEF BillingInv, CallersInv
  <2>2. \A c \in Callers : HeldIn(caller'[c], environment', usage', customers', Len(owners'))
    BY <1>1, <2>1
  <2>3. \A c, d \in Callers :
          caller'[c].at = "track" /\ caller'[d].at = "track" /\ caller'[c].session = caller'[d].session
          => c = d
    BY <1>1 DEF BillingInv, CallersInv
  <2> QED BY <2>2, <2>3 DEF CallersInv
<1>5. GateInv'
  <2>1. \A m : PastSeconds(m)' = PastSeconds(m) /\ UsedCredits(m)' = UsedCredits(m)
    BY <1>1, SameCredits
  <2>2. ASSUME NEW d \in Callers PROVE GateHeld(caller[d])'
    BY <1>1, <2>1, CallerOf DEF GateHeld
  <2> QED BY <2>2 DEF GateInv
<1> QED BY <1>1, <1>3, <1>4, <1>5, MetersStay DEF BillingInv

-----------------------------------------------------------------------------
(* Billing: the rows and the clock.                                         *)

\* what a session has used only grows, and it is not forgotten
RowsGrow ==
  \A e \in Sessions : usage[e].start # 0 =>
    usage'[e].start = usage[e].start /\ SecondsIn(usage, clock, e) <= SecondsIn(usage', clock', e)

UsedIsUsed == \A m : /\ UsedCredits(m) = UsedIn(usage, clock, m) /\ UsedCredits(m) \in Nat
                     /\ PastSeconds(m) \in [Sizes -> Nat]

LEMMA UsedAlways == BillingShape /\ SessionInv => UsedIsUsed
  BY UsedIs, UsedIsNat DEF UsedIsUsed

UsageWell == usage \in UsageRows /\ clock \in Nat /\ \A e \in Sessions : usage[e].start <= clock

LEMMA UsageAlways == BillingShape /\ SessionInv => UsageWell
  BY UsageOf DEF UsageWell

LEMMA CreditsStepGrow ==
  ASSUME BillingShape, SessionInv, BillingShape', SessionInv', RowsGrow
  PROVE  \A m : /\ UsedCredits(m) \in Nat /\ UsedCredits(m)' \in Nat
                /\ UsedCredits(m)' >= UsedCredits(m)
<1>1. UsedIsUsed
  BY UsedAlways
<1>2. UsedIsUsed'
  BY UsedAlways, PTL
<1>3. usage \in UsageRows /\ clock \in Nat /\ \A e \in Sessions : usage[e].start <= clock
  BY UsageAlways DEF UsageWell
<1>7. UsageWell'
  BY UsageAlways, PTL
<1>4. usage' \in UsageRows /\ clock' \in Nat /\ \A e \in Sessions : usage'[e].start <= clock'
  BY <1>7 DEF UsageWell, UsageRows
<1>5. ASSUME NEW m
      PROVE  /\ UsedCredits(m) = UsedIn(usage, clock, m) /\ UsedCredits(m) \in Nat
             /\ UsedCredits(m)' = UsedIn(usage', clock', m) /\ UsedCredits(m)' \in Nat
  BY <1>1, <1>2 DEF UsedIsUsed
<1>6. ASSUME NEW m PROVE UsedIn(usage, clock, m) <= UsedIn(usage', clock', m)
  BY <1>3, <1>4, UsedGrows DEF RowsGrow
<1> QED BY <1>5, <1>6

\* the rows of ended sessions stay, and no session ends
EndedStay ==
  \A e \in Sessions : usage[e].stop # 0 \/ usage'[e].stop # 0 => usage'[e] = usage[e]

LEMMA PastStays == ASSUME EndedStay, NEW m PROVE PastSeconds(m)' = PastSeconds(m)
<1>1. Ended(m)' = Ended(m)
  BY DEF Ended, StartedIn, EndedStay
<1>2. ASSUME NEW z PROVE SecondsOf(Ended(m), z)' = SecondsOf(Ended(m), z)
  <2> DEFINE D == {e \in Ended(m) : SizeOf[e] = z}
  <2>1. D' = D
    BY <1>1
  <2>2. \A e \in D : Seconds(e)' = Seconds(e)
    BY DEF Seconds, EndedStay, Ended
  <2> HIDE DEF D
  <2>3. [e \in D |-> Seconds(e)]' = [e \in D |-> Seconds(e)]
    BY <2>1, <2>2
  <2> QED BY <2>3 DEF SecondsOf, D
<1> QED BY <1>2 DEF PastSeconds

LEMMA RowsStepInv ==
  ASSUME BillingInv, BillingShape', SessionInv', CallersInv', MetersInv', RowsGrow,
         \A d \in Callers :
           /\ caller'[d].at = "check" /\ ~caller'[d].misread =>
                EndedStay /\ caller'[d] = caller[d]
           /\ caller'[d].allowed /\ caller'[d].exhausted =>
                caller'[d].misread /\ caller'[d].at # "check"
  PROVE  BillingInv'
<1>1. \A m : /\ UsedCredits(m) \in Nat /\ UsedCredits(m)' \in Nat
             /\ UsedCredits(m)' >= UsedCredits(m)
  BY CreditsStepGrow DEF BillingInv
<1>2. ASSUME NEW d \in Callers PROVE GateHeld(caller[d])'
  <2>1. CASE caller'[d].at = "check" /\ ~caller'[d].misread
    <3>1. EndedStay /\ caller'[d] = caller[d] /\ GateHeld(caller[d])
      BY <2>1, CallerOf
    <3>2. PastSeconds(caller[d].month)' = PastSeconds(caller[d].month)'
      OBVIOUS
    <3> DEFINE m == caller[d].month
    <3>3. m' = m
      BY <3>1
    <3>4. \A n : PastSeconds(n)' = PastSeconds(n)
      BY <3>1, PastStays
    <3>5. caller[d].past = PastSeconds(m) /\ (caller[d].exhausted => UsedCredits(m) >= Included)
      BY <2>1, <3>1 DEF GateHeld
    <3>6. PastSeconds(caller[d].month)' = PastSeconds(m) /\ UsedCredits(caller[d].month)' >= UsedCredits(m)
          /\ UsedCredits(m) \in Nat /\ UsedCredits(caller[d].month)' \in Nat
      BY <3>3, <3>4, <1>1
    <3>7. caller'[d].exhausted => UsedCredits(caller[d].month)' >= Included
      BY <3>1, <3>5, <3>6, BillingAssumption
    <3> QED BY <2>1, <3>1, <3>5, <3>6, <3>7 DEF GateHeld
  <2>2. CASE ~(caller'[d].at = "check" /\ ~caller'[d].misread)
    BY <2>2 DEF GateHeld
  <2> QED BY <2>1, <2>2
<1>3. GateInv'
  BY <1>2 DEF GateInv
<1> QED BY <1>3 DEF BillingInv

LEMMA TickInv == ASSUME BillingInv, Tick PROVE BillingInv' /\ RowsGrow
<1>1. /\ clock' = clock + 1 /\ clock < MaxTicks
      /\ UNCHANGED <<usage, environment, settings, meter, caller, failures, customers, owners, cards>>
  BY DEF Tick, stripe
<1>2. clock \in Nat /\ MaxTicks \in Nat
      /\ \A e \in Sessions : /\ usage[e].start <= clock /\ usage[e].start \in Nat
                             /\ usage[e].stop \in 0 .. MaxTicks /\ usage[e].billed \in Nat
  BY UsageOf, BillingAssumption DEF BillingInv
<1>3. BillingShape'
  BY <1>1, <1>2 DEF BillingInv, BillingShape
<1>4. SessionInv'
  <2>1. ASSUME NEW e \in Sessions
        PROVE  /\ usage'[e].start <= clock'
               /\ environment'[e] = "none" => usage'[e].start = 0
               /\ usage'[e].stop # 0 =>
                    /\ usage'[e].start # 0
                    /\ usage'[e].billed <= AtLeast(Rounded(clock' - usage'[e].start), MinBilled)
    <3> DEFINE s == Rounded(clock - usage[e].start)
               t == Rounded(clock + 1 - usage[e].start)
    <3>1. s \in Nat /\ t \in Nat /\ s <= t
      <4>1. PICK n \in Nat : n = clock - usage[e].start
        BY <1>2
      <4>2. clock + 1 - usage[e].start = n + 1
        BY <1>2, <4>1
      <4>3. (n + 1) \div 2 \in Nat /\ (n + 2) \div 2 \in Nat /\ (n + 1) \div 2 <= (n + 2) \div 2
        OBVIOUS
      <4>4. n + 1 + 1 = n + 2
        OBVIOUS
      <4> QED BY <4>1, <4>2, <4>3, <4>4 DEF Rounded
    <3>2. MinBilled \in Nat
      BY BillingAssumption DEF MinBilled
    <3>3. /\ environment[e] = "none" => usage[e].start = 0
          /\ usage[e].stop # 0 => usage[e].start # 0 /\ usage[e].billed <= AtLeast(s, MinBilled)
      BY DEF BillingInv, SessionInv
    <3> HIDE DEF s, t
    <3>4. AtLeast(s, MinBilled) <= AtLeast(t, MinBilled) /\ AtLeast(s, MinBilled) \in Nat
          /\ AtLeast(t, MinBilled) \in Nat
      BY <3>1, <3>2 DEF AtLeast
    <3>5. usage[e].stop # 0 => usage[e].billed <= AtLeast(t, MinBilled)
      BY <1>2, <3>3, <3>4
    <3> QED BY <1>1, <1>2, <3>3, <3>5 DEF t
  <2> QED BY <2>1 DEF SessionInv
<1>5. CallersInv'
  <2>1. \A c \in Callers : HeldIn(caller[c], environment, usage, customers, Len(owners))
    BY DEF BillingInv, CallersInv
  <2>2. \A c \in Callers : HeldIn(caller'[c], environment', usage', customers', Len(owners'))
    BY <1>1, <2>1
  <2>3. \A c, d \in Callers :
          caller'[c].at = "track" /\ caller'[d].at = "track" /\ caller'[c].session = caller'[d].session
          => c = d
    BY <1>1 DEF BillingInv, CallersInv
  <2> QED BY <2>2, <2>3 DEF CallersInv
<1>6. RowsGrow
  BY <1>1, <1>2 DEF RowsGrow, SecondsIn, Rounded
<1>7. EndedStay
  BY <1>1 DEF EndedStay
<1>8. MetersInv'
  BY <1>1, MetersStay
<1>9. \A d \in Callers : caller'[d] = caller[d] /\ GateHeld(caller[d])
  BY <1>1, CallerOf
<1> QED BY <1>3, <1>4, <1>5, <1>6, <1>7, <1>8, <1>9, RowsStepInv DEF GateHeld

\* a step of one caller c, which goes on as j, that changes the rows
LEMMA RowCallersStay ==
  ASSUME BillingInv, NEW c \in Callers, NEW j,
         caller'[c] = j, \A d \in Callers \ {c} : caller'[d] = caller[d] \/
           (caller[d].at = "check" /\ caller'[d].at = "check"),
         UNCHANGED <<environment, customers, owners>>,
         HeldIn(j, environment, usage', customers, Len(owners)), j.at # "track",
         \A e \in Sessions :
           /\ usage[e].start # 0 => usage'[e].start = usage[e].start
           /\ usage[e].stop # 0 => usage'[e].stop # 0
           /\ \A d \in Callers \ {c} :
                caller[d].at = "track" /\ caller[d].session = e => usage'[e].start = 0
  PROVE  CallersInv'
<1>1. ASSUME NEW d \in Callers
      PROVE  HeldIn(caller'[d], environment, usage', customers, Len(owners))
  <2>1. CASE d = c
    BY <2>1
  <2>2. CASE d # c /\ caller'[d] = caller[d]
    <3>1. HeldIn(caller[d], environment, usage, customers, Len(owners))
      BY CallerOf
    <3> QED BY <2>2, <3>1 DEF HeldIn
  <2>3. CASE d # c /\ caller'[d].at = "check"
    BY <2>3 DEF HeldIn
  <2> QED BY <2>1, <2>2, <2>3
<1>2. \A d \in Callers : HeldIn(caller'[d], environment', usage', customers', Len(owners'))
  BY <1>1
<1>3. \A d, e \in Callers :
        caller'[d].at = "track" /\ caller'[e].at = "track" /\ caller'[d].session = caller'[e].session
        => d = e
  BY DEF BillingInv, CallersInv
<1> QED BY <1>2, <1>3 DEF CallersInv

LEMMA TrackInv == ASSUME BillingInv, NEW c \in Callers, TrackUsageStart(c) PROVE BillingInv' /\ RowsGrow
<1> DEFINE e == caller[c].session
<1>1. /\ UNCHANGED <<clock, environment, settings, meter, customers, owners, cards>> /\ (Fails \/ Works)
      /\ Go(c, "done")
  BY DEF TrackUsageStart, stripe
<1>2. PICK j \in CallerRows :
           /\ caller' = [caller EXCEPT ![c] = j] /\ j.at = "done"
           /\ j.exhausted = caller[c].exhausted
           /\ j.misread = caller[c].misread /\ j.allowed = caller[c].allowed
  BY <1>1, Goes DEF CallerPlaces
<1>3. /\ e \in Sessions /\ environment[e] # "none" /\ usage[e].start = 0 /\ usage[e].stop = 0
  BY CallerOf DEF HeldIn, TrackUsageStart, BillingInv, SessionInv
<1>4. \A s \in Sessions : /\ usage[s].start <= clock /\ usage[s].start \in Nat /\ clock \in Nat
                          /\ usage[s].stop \in 0 .. MaxTicks /\ usage[s].billed \in Nat
  BY UsageOf DEF BillingInv
<1>5. caller \in [Callers -> CallerRows] /\ usage \in UsageRows /\ clock \in 1 .. MaxTicks
  BY DEF BillingInv, BillingShape
<1>6. \A d \in Callers \ {c} : caller'[d] = caller[d]
  BY <1>2, <1>5
<1>7. caller'[c] = j /\ caller' \in [Callers -> CallerRows]
  BY <1>2, <1>5
<1> HIDE DEF e
<1>8. CASE Works /\ usage' = [usage EXCEPT ![e].start = clock]
  <2> DEFINE Row == [start : 0 .. MaxTicks, stop : 0 .. MaxTicks, billed : Nat]
             r == [usage[e] EXCEPT !.start = clock]
  <2>1. r \in Row /\ r.start = clock /\ r.stop = 0 /\ clock # 0
    <3>1. usage[e] \in Row /\ clock \in 0 .. MaxTicks /\ MaxTicks \in Nat
      BY <1>3, <1>5, BillingAssumption DEF UsageRows
    <3> QED BY <1>3, <1>5, <3>1
  <2>2. usage' = [usage EXCEPT ![e] = r]
    BY <1>8
  <2> HIDE DEF r
  <2>3. usage' \in UsageRows
    BY <1>5, <2>1, <2>2 DEF UsageRows
  <2> HIDE DEF Row
  <2>4. usage'[e] = r /\ \A s \in Sessions \ {e} : usage'[s] = usage[s]
    BY <1>3, <1>5, <2>2 DEF UsageRows
  <2>5. BillingShape'
    BY <1>1, <1>7, <2>3, FailuresCount DEF BillingInv, BillingShape
  <2>6. SessionInv'
    <3>1. ASSUME NEW s \in Sessions
          PROVE  /\ usage'[s].start <= clock
                 /\ environment[s] = "none" => usage'[s].start = 0
                 /\ usage'[s].stop # 0 =>
                    /\ usage'[s].start # 0
                    /\ usage'[s].billed <= AtLeast(Rounded(clock - usage'[s].start), MinBilled)
      <4>1. CASE s = e
        BY <4>1, <1>3, <1>4, <2>1, <2>4
      <4>2. CASE s # e
        BY <4>2, <2>4 DEF BillingInv, SessionInv
      <4> QED BY <4>1, <4>2
    <3> QED BY <1>1, <3>1 DEF SessionInv
  <2>7. RowsGrow
    BY <1>1, <1>3, <1>4, <2>4 DEF RowsGrow, SecondsIn, Rounded
  <2>8. EndedStay
    BY <1>3, <2>1, <2>4 DEF EndedStay
  <2>9. MetersInv'
    <3>1. \A m \in meter : m.recorded => usage[m.session].stop # 0 /\ m.session \in Sessions
      BY DEF BillingInv, MetersInv, BillingShape, Meters
    <3>2. \A m \in meter : m.recorded => usage'[m.session] = usage[m.session]
      BY <1>3, <2>4, <3>1
    <3> QED BY <1>1, <3>2 DEF BillingInv, MetersInv
  <2>10. CallersInv'
    <3>1. HeldIn(j, environment, usage', customers, Len(owners)) /\ j.at # "track"
      BY <1>2 DEF HeldIn
    <3>2. ASSUME NEW s \in Sessions
          PROVE /\ usage[s].start # 0 => usage'[s].start = usage[s].start
                /\ usage[s].stop # 0 => usage'[s].stop # 0
                /\ \A d \in Callers \ {c} :
                     caller[d].at = "track" /\ caller[d].session = s => usage'[s].start = 0
      <4>1. CASE s = e
        <5>1. \A d \in Callers \ {c} : ~(caller[d].at = "track" /\ caller[d].session = s)
          BY <4>1 DEF BillingInv, CallersInv, TrackUsageStart, e
        <5> QED BY <4>1, <5>1, <1>3
      <4>2. CASE s # e
        <5>1. \A d \in Callers : caller[d].at = "track" => usage[caller[d].session].start = 0
          BY CallerOf DEF HeldIn
        <5> QED BY <4>2, <5>1, <2>4
      <4> QED BY <4>1, <4>2
    <3>3. UNCHANGED <<environment, customers, owners>>
      BY <1>1
    <3>4. \A d \in Callers \ {c} : caller'[d] = caller[d] \/
            (caller[d].at = "check" /\ caller'[d].at = "check")
      BY <1>6
    <3>5. \A s \in Sessions :
                /\ usage[s].start # 0 => usage'[s].start = usage[s].start
                /\ usage[s].stop # 0 => usage'[s].stop # 0
                /\ \A d \in Callers \ {c} :
                     caller[d].at = "track" /\ caller[d].session = s => usage'[s].start = 0
      BY <3>2
    <3>6. caller'[c] = j
      BY <1>7
    <3> QED BY ONLY <3>1, <3>3, <3>4, <3>5, <3>6, RowCallersStay, BillingInv, c \in Callers
  <2>11. ASSUME NEW d \in Callers
         PROVE /\ caller'[d].at = "check" /\ ~caller'[d].misread =>
                    EndedStay /\ caller'[d] = caller[d]
               /\ caller'[d].allowed /\ caller'[d].exhausted =>
                    caller'[d].misread /\ caller'[d].at # "check"
    <3>1. GateHeld(caller[d]) /\ GateHeld(caller[c])
      BY CallerOf
    <3> QED BY <1>2, <1>6, <1>7, <2>8, <3>1 DEF GateHeld
  <2> QED BY <2>5, <2>6, <2>7, <2>9, <2>10, <2>11, RowsStepInv
<1>9. CASE Fails /\ UNCHANGED usage
  <2>1. RowsGrow
    BY <1>1, <1>4, <1>9 DEF RowsGrow, SecondsIn, Rounded
  <2>2. BillingInv'
    BY <1>1, <1>9, GoesFree DEF stripe
  <2> QED BY <2>1, <2>2
<1> QED BY <1>8, <1>9 DEF TrackUsageStart, e

\* a row that was open is closed by c; what any check has read of it is misread
LEMMA StopClosesInv ==
  ASSUME BillingInv, NEW c \in Callers, caller[c].at = "stop", Works,
         LET e == caller[c].session IN
           /\ usage[e].start # 0 /\ usage[e].stop = 0
           /\ usage' = [usage EXCEPT ![e].stop = clock, ![e].billed = Billed(usage[e].start)],
         caller' = [d \in Callers |->
            IF d = c THEN [caller[c] EXCEPT !.recorded = TRUE,
                             !.at = IF caller[c].start = 0 THEN "destroy" ELSE "report"]
            ELSE IF caller[d].at = "check" THEN [caller[d] EXCEPT !.misread = TRUE] ELSE caller[d]],
         UNCHANGED <<clock, environment, settings, meter, stripe>>
  PROVE  BillingInv' /\ RowsGrow
<1> DEFINE e == caller[c].session
           place == IF caller[c].start = 0 THEN "destroy" ELSE "report"
           j == [caller[c] EXCEPT !.recorded = TRUE, !.at = place]
           billed == Billed(usage[e].start)
           Row == [start : 0 .. MaxTicks, stop : 0 .. MaxTicks, billed : Nat]
           r == [usage[e] EXCEPT !.stop = clock, !.billed = billed]
           Read(d) == [caller[d] EXCEPT !.misread = TRUE]
<1>1. UNCHANGED <<clock, environment, settings, meter, customers, owners, cards>>
  BY DEF stripe
<1>2. e \in Sessions /\ environment[e] # "none" /\ caller[c] \in CallerRows /\ GateHeld(caller[c])
      /\ (caller[c].start # 0 => caller[c].start = usage[e].start)
  BY CallerOf DEF HeldIn
<1>3. caller \in [Callers -> CallerRows] /\ usage \in UsageRows /\ clock \in 1 .. MaxTicks
      /\ MaxTicks \in Nat
  BY BillingAssumption DEF BillingInv, BillingShape
<1>4. \A s \in Sessions : /\ usage[s].start <= clock /\ usage[s].start \in Nat /\ clock \in Nat
                          /\ usage[s].stop \in 0 .. MaxTicks /\ usage[s].billed \in Nat
  BY UsageOf DEF BillingInv
<1>5. usage[e].start # 0 /\ usage[e].stop = 0
  OBVIOUS
<1>51. usage' = [usage EXCEPT ![e] = r]
  OBVIOUS
<1>6. /\ billed \in Nat /\ billed = AtLeast(Rounded(clock - usage[e].start), MinBilled)
      /\ Rounded(clock - usage[e].start) <= billed
  <2>1. Rounded(clock - usage[e].start) \in Nat
    BY <1>2, <1>4 DEF Rounded
  <2>2. MinBilled \in Nat
    BY BillingAssumption DEF MinBilled
  <2> DEFINE t == Rounded(clock - usage[e].start)
  <2> HIDE DEF t
  <2> QED BY <2>1, <2>2 DEF Billed, AtLeast, t
<1>7. place \in {"destroy", "report"} /\ (place = "report" => caller[c].start # 0)
  OBVIOUS
<1>8. /\ caller'[c] = j
      /\ \A d \in Callers \ {c} : caller'[d] = IF caller[d].at = "check" THEN Read(d) ELSE caller[d]
      /\ DOMAIN caller' = Callers /\ caller' = [d \in Callers |-> caller'[d]]
  OBVIOUS
<1> HIDE DEF billed, place
<1>9. /\ r \in Row /\ r.start = usage[e].start /\ r.stop = clock /\ r.billed = billed
  <2>1. usage[e] \in Row /\ clock \in 0 .. MaxTicks
    BY <1>2, <1>3 DEF UsageRows
  <2> QED BY <2>1, <1>6
<1>10. /\ j \in CallerRows /\ j.at = place /\ j.recorded = TRUE /\ j.session = e
       /\ j.start = caller[c].start /\ j.exhausted = caller[c].exhausted
       /\ j.allowed = caller[c].allowed /\ j.misread = caller[c].misread
  BY <1>2, <1>7 DEF CallerRows, CallerPlaces
<1>11. ASSUME NEW d \in Callers
       PROVE  /\ Read(d) \in CallerRows /\ Read(d).at = caller[d].at /\ Read(d).misread
              /\ Read(d).allowed = caller[d].allowed /\ Read(d).exhausted = caller[d].exhausted
  BY CallerOf DEF CallerRows
<1> HIDE DEF r, j, Read, e
<1>12. caller' \in [Callers -> CallerRows]
  BY <1>8, <1>10, <1>11, <1>3
<1>13. usage' \in UsageRows /\ usage'[e] = r /\ \A s \in Sessions \ {e} : usage'[s] = usage[s]
  BY <1>2, <1>3, <1>51, <1>9 DEF UsageRows
<1> HIDE DEF Row
<1>20. /\ usage'[e].start = usage[e].start /\ usage'[e].stop = clock /\ usage'[e].billed = billed
       /\ clock \in Nat /\ clock # 0
  <2>1. usage'[e] = r
    BY ONLY <1>13
  <2>2. usage'[e].start = usage[e].start /\ usage'[e].stop = clock /\ usage'[e].billed = billed
    BY ONLY <2>1, <1>9
  <2>3. clock \in Nat /\ clock # 0
    BY ONLY <1>3
  <2> QED BY ONLY <2>2, <2>3
<1>14. BillingShape'
  BY <1>1, <1>12, <1>13, FailuresCount DEF BillingInv, BillingShape
<1>15. SessionInv'
  <2>1. ASSUME NEW s \in Sessions
        PROVE  /\ usage'[s].start <= clock
               /\ environment[s] = "none" => usage'[s].start = 0
               /\ usage'[s].stop # 0 =>
                  /\ usage'[s].start # 0
                  /\ usage'[s].billed <= AtLeast(Rounded(clock - usage'[s].start), MinBilled)
    <3>1. CASE s = e
      BY ONLY <3>1, <1>2, <1>4, <1>5, <1>6, <1>20
    <3>2. CASE s # e
      BY <3>2, <1>13 DEF BillingInv, SessionInv
    <3> QED BY <3>1, <3>2
  <2> QED BY <1>1, <2>1 DEF SessionInv
<1>16. RowsGrow
  <2>1. ASSUME NEW s \in Sessions, usage[s].start # 0
        PROVE  usage'[s].start = usage[s].start
               /\ SecondsIn(usage, clock, s) <= SecondsIn(usage', clock, s)
    <3>1. CASE s = e
      BY ONLY <3>1, <1>2, <1>4, <1>5, <1>6, <1>20 DEF SecondsIn
    <3>2. CASE s # e
      <4>1. usage'[s] = usage[s] /\ SecondsIn(usage, clock, s) \in Int
        BY ONLY <3>2, <1>4, <1>13 DEF SecondsIn, Rounded
      <4> QED BY ONLY <4>1 DEF SecondsIn
    <3> QED BY <3>1, <3>2
  <2> QED BY <1>1, <2>1 DEF RowsGrow
<1>17. MetersInv'
  <2>1. \A m \in meter : m.recorded => usage[m.session].stop # 0 /\ m.session \in Sessions
    BY DEF BillingInv, MetersInv, BillingShape, Meters
  <2>2. \A m \in meter : m.recorded => usage'[m.session] = usage[m.session]
    BY <1>5, <1>13, <2>1
  <2> QED BY <1>1, <2>2 DEF BillingInv, MetersInv
<1>18. CallersInv'
  <2>1. HeldIn(j, environment, usage', customers, Len(owners)) /\ j.at # "track"
    <3>1. usage'[e].start = usage[e].start /\ usage'[e].stop # 0
      BY ONLY <1>20
    <3> QED BY <1>2, <1>7, <1>10, <3>1 DEF HeldIn
  <2>2. \A s \in Sessions :
                /\ usage[s].start # 0 => usage'[s].start = usage[s].start
                /\ usage[s].stop # 0 => usage'[s].stop # 0
                /\ \A d \in Callers \ {c} :
                     caller[d].at = "track" /\ caller[d].session = s => usage'[s].start = 0
    <3>1. \A s \in Sessions : usage'[s].start = usage[s].start
      BY <1>9, <1>13
    <3>2. \A s \in Sessions : usage[s].stop # 0 => usage'[s].stop # 0
      BY <1>5, <1>13
    <3>3. \A d \in Callers : caller[d].at = "track" => usage[caller[d].session].start = 0
      BY CallerOf DEF HeldIn
    <3> QED BY <3>1, <3>2, <3>3
  <2>3. \A d \in Callers \ {c} : caller'[d] = caller[d] \/
          (caller[d].at = "check" /\ caller'[d].at = "check")
    BY <1>8, <1>11
  <2>4. UNCHANGED <<environment, customers, owners>>
    BY <1>1
  <2>5. caller'[c] = j
    BY <1>8
  <2> QED BY ONLY <2>1, <2>2, <2>3, <2>4, <2>5, RowCallersStay, BillingInv, c \in Callers
<1>19. ASSUME NEW d \in Callers
       PROVE /\ caller'[d].at = "check" /\ ~caller'[d].misread =>
                  EndedStay /\ caller'[d] = caller[d]
             /\ caller'[d].allowed /\ caller'[d].exhausted =>
                  caller'[d].misread /\ caller'[d].at # "check"
  <2>1. CASE d = c
    BY <2>1, <1>2, <1>7, <1>8, <1>10 DEF GateHeld
  <2>2. CASE d # c /\ caller[d].at = "check"
    <3>1. GateHeld(caller[d])
      BY CallerOf
    <3> QED BY <2>2, <1>8, <1>11, <3>1 DEF GateHeld
  <2>3. CASE d # c /\ caller[d].at # "check"
    <3>1. GateHeld(caller[d])
      BY CallerOf
    <3> QED BY <2>3, <1>8, <3>1 DEF GateHeld
  <2> QED BY <2>1, <2>2, <2>3
<1> QED BY <1>14, <1>15, <1>16, <1>17, <1>18, <1>19, RowsStepInv

LEMMA StayGrow == ASSUME BillingInv, UNCHANGED <<clock, usage>> PROVE RowsGrow
<1>1. \A s \in Sessions : /\ usage[s].start \in Nat /\ clock \in Nat
                          /\ usage[s].billed \in Nat
  BY UsageOf DEF BillingInv
<1> QED BY <1>1 DEF RowsGrow, SecondsIn, Rounded

LEMMA StopUpdateInv == ASSUME BillingInv, NEW c \in Callers, StopUpdate(c) PROVE BillingInv' /\ RowsGrow
<1> DEFINE e == caller[c].session
           open == usage[e].start # 0 /\ usage[e].stop = 0
           place == IF caller[c].start = 0 THEN "destroy" ELSE "report"
<1>1. caller[c].at = "stop" /\ UNCHANGED <<clock, environment, settings, meter, stripe>>
  BY DEF StopUpdate
<1>2. /\ e \in Sessions /\ environment[e] # "none" /\ caller[c] \in CallerRows /\ GateHeld(caller[c])
      /\ (caller[c].start # 0 => caller[c].start = usage[e].start)
  BY <1>1, CallerOf DEF HeldIn
<1>3. CASE open /\ Works /\ usage' = [usage EXCEPT ![e].stop = clock, ![e].billed = Billed(usage[e].start)]
           /\ caller' = [d \in Callers |->
                IF d = c THEN [caller[c] EXCEPT !.recorded = TRUE, !.at = place]
                ELSE IF caller[d].at = "check" THEN [caller[d] EXCEPT !.misread = TRUE] ELSE caller[d]]
  BY <1>1, <1>3, StopClosesInv
<1>4. CASE ~open /\ Works /\ UNCHANGED usage
           /\ caller' = [d \in Callers |->
                IF d = c THEN [caller[c] EXCEPT !.recorded = TRUE, !.at = place] ELSE caller[d]]
  <2> DEFINE j == [caller[c] EXCEPT !.recorded = TRUE, !.at = place]
  <2>1. caller' = [caller EXCEPT ![c] = j]
    <3>1. caller \in [Callers -> CallerRows]
      BY DEF BillingInv, BillingShape
    <3> HIDE DEF j
    <3>2. caller' = [d \in Callers |-> IF d = c THEN j ELSE caller[d]]
      BY <1>4 DEF j
    <3> QED BY <3>1, <3>2
  <2>2. place \in {"destroy", "report"} /\ (place = "report" => caller[c].start # 0)
    OBVIOUS
  <2>3. usage[e].start # 0 => usage[e].stop # 0
    BY <1>4
  <2> HIDE DEF place
  <2>4. /\ j \in CallerRows /\ j.at = place /\ j.recorded = TRUE /\ j.session = e
        /\ j.start = caller[c].start /\ j.exhausted = caller[c].exhausted
        /\ j.allowed = caller[c].allowed /\ j.misread = caller[c].misread
    BY <1>2, <2>2 DEF CallerRows, CallerPlaces
  <2> HIDE DEF j, e
  <2>5. HeldIn(j, environment, usage, customers, Len(owners)) /\ GateHeld(j) /\ j.at # "track"
    BY <1>2, <2>2, <2>3, <2>4 DEF HeldIn, GateHeld
  <2>6. UNCHANGED <<clock, usage, environment, settings, meter, stripe>> /\ failures' \in 0 .. MaxFailures
    BY <1>1, <1>4, FailuresCount
  <2>7. BillingInv'
    BY <2>1, <2>4, <2>5, <2>6, CallerMoves
  <2> QED BY <2>6, <2>7, StayGrow
<1>5. CASE Fails /\ UNCHANGED usage /\ Go(c, place)
  <2>1. place \in {"destroy", "report"} /\ (place = "report" => caller[c].start # 0)
    OBVIOUS
  <2> HIDE DEF place
  <2>2. PICK j \in CallerRows :
           /\ caller' = [caller EXCEPT ![c] = j] /\ j.at = place /\ j.session = caller[c].session
           /\ j.start = caller[c].start /\ j.recorded = caller[c].recorded
           /\ j.customer = caller[c].customer /\ j.exhausted = caller[c].exhausted
           /\ j.misread = caller[c].misread /\ j.allowed = caller[c].allowed
    <3>1. place \in CallerPlaces
      BY <2>1 DEF CallerPlaces
    <3> QED BY <3>1, <1>5, Goes
  <2>3. ~caller[c].recorded
    BY <1>1, CallerOf DEF HeldIn
  <2>5. HeldIn(j, environment, usage, customers, Len(owners)) /\ GateHeld(j) /\ j.at # "track"
    BY <1>2, <2>1, <2>2, <2>3 DEF HeldIn, GateHeld
  <2>6. UNCHANGED <<clock, usage, environment, settings, meter, stripe>> /\ failures' \in 0 .. MaxFailures
    BY <1>1, <1>5, FailuresCount
  <2>7. BillingInv'
    BY <2>2, <2>5, <2>6, CallerMoves
  <2> QED BY <2>6, <2>7, StayGrow
<1> QED BY <1>3, <1>4, <1>5 DEF StopUpdate

LEMMA BillingNextInv == ASSUME BillingInv, [BillingNext]_billingVars PROVE BillingInv' /\ RowsGrow
<1> USE DEF stripe
<1>1. ASSUME NEW c \in Callers, CheckEnded(c) PROVE BillingInv' /\ RowsGrow
  BY <1>1, CheckEndedInv, StayGrow DEF CheckEnded
<1>2. ASSUME NEW c \in Callers, CheckRunning(c) PROVE BillingInv' /\ RowsGrow
  BY <1>2, CheckRunningInv, StayGrow DEF CheckRunning
<1>3. ASSUME NEW c \in Callers, CheckFails(c) PROVE BillingInv' /\ RowsGrow
  BY <1>3, GoesFree, StayGrow DEF CheckFails
<1>4. ASSUME NEW c \in Callers, TrackUsageStart(c) PROVE BillingInv' /\ RowsGrow
  BY <1>4, TrackInv
<1>5. ASSUME NEW c \in Callers, NEW e \in Sessions, CreateEnvironment(c, e)
      PROVE  BillingInv' /\ RowsGrow
  BY <1>5, CreateEnvironmentInv, StayGrow DEF CreateEnvironment
<1>6. ASSUME NEW c \in Callers, NEW e \in Sessions, StopRead(c, e) PROVE BillingInv' /\ RowsGrow
  BY <1>6, StopReadInv, StayGrow DEF StopRead
<1>7. ASSUME NEW c \in Callers, StopUpdate(c) PROVE BillingInv' /\ RowsGrow
  BY <1>7, StopUpdateInv
<1>8. ASSUME NEW c \in Callers, Report(c) PROVE BillingInv' /\ RowsGrow
  BY <1>8, ReportInv, StayGrow DEF Report
<1>9. ASSUME NEW c \in Callers, DestroyEnvironment(c) PROVE BillingInv' /\ RowsGrow
  BY <1>9, DestroyEnvironmentInv, StayGrow DEF DestroyEnvironment
<1>10. ASSUME NEW c \in Callers, ReadSettings(c) PROVE BillingInv' /\ RowsGrow
  BY <1>10, GoesFree, StayGrow DEF ReadSettings
<1>11. ASSUME NEW c \in Callers, NewCustomer(c) PROVE BillingInv' /\ RowsGrow
  BY <1>11, NewCustomerInv, StayGrow DEF NewCustomer
<1>12. ASSUME NEW c \in Callers, SaveCustomer(c) PROVE BillingInv' /\ RowsGrow
  BY <1>12, SaveCustomerInv, StayGrow DEF SaveCustomer
<1>13. ASSUME NEW c \in Callers, Subscribe(c) PROVE BillingInv' /\ RowsGrow
  BY <1>13, SubscribeInv, StayGrow DEF Subscribe
<1>14. ASSUME NEW c \in Callers, NewSubscription(c) PROVE BillingInv' /\ RowsGrow
  BY <1>14, NewSubscriptionInv, StayGrow DEF NewSubscription
<1>15. ASSUME NEW c \in Callers, SaveSubscription(c) PROVE BillingInv' /\ RowsGrow
  BY <1>15, SaveSubscriptionInv, StayGrow DEF SaveSubscription
<1>16. CASE AttachCard
  BY <1>16, AttachCardInv, StayGrow DEF AttachCard
<1>17. CASE Tick
  BY <1>17, TickInv
<1>18. CASE UNCHANGED billingVars
  <2>1. UNCHANGED <<clock, usage, environment, settings, owners, customers, cards, meter, caller,
                    failures>>
    BY <1>18 DEF billingVars
  <2>2. BillingShape' /\ SessionInv' /\ MetersInv'
    BY <2>1 DEF BillingInv, BillingShape, SessionInv, MetersInv
  <2>3. RowsGrow /\ EndedStay
    BY <2>1, StayGrow DEF EndedStay
  <2>4. CallersInv'
    <3>1. \A c \in Callers : HeldIn(caller[c], environment, usage, customers, Len(owners))
      BY DEF BillingInv, CallersInv
    <3>2. \A c \in Callers : HeldIn(caller'[c], environment', usage', customers', Len(owners'))
      BY <2>1, <3>1
    <3>3. \A c, d \in Callers :
            caller'[c].at = "track" /\ caller'[d].at = "track" /\ caller'[c].session = caller'[d].session
            => c = d
      BY <2>1 DEF BillingInv, CallersInv
    <3> QED BY <3>2, <3>3 DEF CallersInv
  <2>5. ASSUME NEW d \in Callers
        PROVE /\ caller'[d].at = "check" /\ ~caller'[d].misread =>
                    EndedStay /\ caller'[d] = caller[d]
              /\ caller'[d].allowed /\ caller'[d].exhausted =>
                    caller'[d].misread /\ caller'[d].at # "check"
    BY <2>1, <2>3, CallerOf DEF GateHeld
  <2> QED BY <2>2, <2>3, <2>4, <2>5, RowsStepInv
<1> QED BY <1>1, <1>2, <1>3, <1>4, <1>5, <1>6, <1>7, <1>8, <1>9, <1>10, <1>11, <1>12, <1>13, <1>14,
           <1>15, <1>16, <1>17, <1>18 DEF BillingNext

LEMMA BillingInvOf == BillingSpec => []BillingInv
<1>1. BillingInv /\ [BillingNext]_billingVars => BillingInv'
  BY BillingNextInv
<1> QED BY <1>1, BillingInitInv, PTL DEF BillingSpec

(* The rows of usage, the settings and what Stripe holds keep their types: a *)
(* subscription is saved of those that were made, a card belongs to a        *)
(* customer that exists (billing_service.go).                                *)
THEOREM BillingTypes == BillingSpec => []BillingTypeOK
<1>1. BillingInv => BillingTypeOK
  <2> SUFFICES ASSUME BillingInv PROVE BillingTypeOK
    OBVIOUS
  <2>1. settings.customer \in 0 .. customers /\ settings.sub \in 0 .. Len(owners)
    BY SettingsOf
  <2> QED BY <2>1 DEF BillingInv, BillingShape, BillingTypeOK, UsageRows
<1> QED BY <1>1, BillingInvOf, PTL

(* The gate closes: a check that begins when the credits are exhausted lets  *)
(* no organisation without a card create an environment, whatever sessions   *)
(* begin, run or are stopped meanwhile, except a session that ends between   *)
(* its two queries or a failure of the second (CheckBillingAllowed).         *)
THEOREM GateClosesInTime == BillingSpec => []GateCloses
<1>1. BillingInv => GateCloses
  BY DEF BillingInv, GateInv, GateHeld, GateCloses
<1> QED BY <1>1, BillingInvOf, PTL

(* Stripe is told of no less than the row bills, but for the second by which *)
(* the row rounds up what the report cuts: the time of the report is read    *)
(* after the stop was recorded, for any order of two stops of one session    *)
(* and any number of seconds to the minute (TrackUsageStop,                  *)
(* ReportUsageToStripe).                                                     *)
THEOREM MeterCovers == BillingSpec => []MeterCoversRow
<1>1. BillingInv => MeterCoversRow
  BY DEF BillingInv, MetersInv, MeterCoversRow, Told
<1> QED BY <1>1, BillingInvOf, PTL

(* No step gives back credits that were used: the ticks a session has been   *)
(* billed for are never fewer than those it was counted for while it ran     *)
(* (getUsageSecondsBySize, TrackUsageStop).                                  *)
THEOREM CreditsStay == BillingSpec => CreditsNeverFall
<1>1. BillingInv /\ BillingInv' /\ [BillingNext]_billingVars
      => [\A m \in 0 .. Month(clock) : UsedCredits(m)' >= UsedCredits(m)]_billingVars
  <2> SUFFICES ASSUME BillingInv, BillingInv', [BillingNext]_billingVars
               PROVE  \A m \in 0 .. Month(clock) : UsedCredits(m)' >= UsedCredits(m)
    OBVIOUS
  <2>1. RowsGrow
    BY BillingNextInv
  <2>2. BillingShape /\ SessionInv /\ BillingShape' /\ SessionInv'
    BY DEF BillingInv
  <2> QED BY <2>1, <2>2, CreditsStepGrow
<1> QED BY <1>1, BillingInvOf, PTL DEF BillingSpec, CreditsNeverFall

(* No set-up forgets a customer or a subscription that was saved: the upsert *)
(* leaves alone what it is given no value for (upsertOrgSettings).           *)
THEOREM SetupsRemember == BillingSpec => SetupNeverForgets
<1> DEFINE Kept == /\ settings.sub # 0 => settings'.sub # 0
                   /\ settings.customer # 0 => settings'.customer # 0
<1>1. [BillingNext]_billingVars => [Kept]_billingVars
  <2> SUFFICES ASSUME BillingNext PROVE Kept
    OBVIOUS
  <2>1. CASE UNCHANGED settings
    BY <2>1
  <2>2. CASE \E customer, sub : Upsert(customer, sub)
    BY <2>2 DEF Upsert
  <2>3. UNCHANGED settings \/ \E customer, sub : Upsert(customer, sub)
    BY DEF BillingNext, CheckEnded, CheckRunning, CheckFails, TrackUsageStart, CreateEnvironment,
       StopRead, StopUpdate, Report, DestroyEnvironment, ReadSettings, NewCustomer, SaveCustomer,
       Subscribe, NewSubscription, SaveSubscription, AttachCard, Tick
  <2> QED BY <2>1, <2>2, <2>3
<1> QED BY <1>1, PTL DEF BillingSpec, SetupNeverForgets
=============================================================================
