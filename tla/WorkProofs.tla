----------------------------- MODULE WorkProofs ------------------------------
(***************************************************************************)
(* Theorems of the parts that serve and carry a task: the warm pool        *)
(* (WarmPool), the run of a task (TaskRun), what a run leaves to later     *)
(* ones (TrajectoryMemory), the snapshots it starts from (Snapshots), the  *)
(* tips it is offered (Guidance) and the links to GitHub that wake it      *)
(* (RepoLinks); and of all of them side by side (MCWork), by projection    *)
(* as in SuiteProofs.                                                      *)
(***************************************************************************)
EXTENDS MCWork, FiniteSetTheorems, TLAPS

-----------------------------------------------------------------------------
(* WarmPool.                                                               *)

KeeperRows == [pc : {"asleep", "fill", "trim", "list", "trimming", "drain", "draining"},
               total : Nat, todo : SUBSET Targets, target : Targets \cup {Nobody}, excess : Nat,
               doomed : SUBSET Provisions, deleted : Provisions \cup {Nobody}]
EnvRows == [status : {"none", "creating", "running", "failed", "sleeping", "destroying",
                      "destroyed"},
            server : PoolServers \cup {Nobody}]
BootRows == [pc : {"none", "acquire", "mark", "start", "cold", "report", "done"},
             server : Provisions \cup {Nobody}]
CallRows == [pc : {"idle", "d_mark", "d_clean", "d_return", "d_drain", "d_cloud", "d_done",
                   "s_cloud", "s_write"},
             env : PoolEnvs \cup {Nobody}, server : PoolServers \cup {Nobody}]
RowStates == {"none", "warming", "ready", "assigned", "draining", "gone"}

PoolShape ==
  /\ pool \in [Provisions -> RowStates]
  /\ job \in [Provisions -> {"none", "spawned", "creating", "booting", "done"}]
  /\ keeper \in KeeperRows /\ up \subseteq PoolServers
  /\ environ \in [PoolEnvs -> EnvRows] /\ boot \in [PoolEnvs -> BootRows]
  /\ caller \in [Callers -> CallRows]
  /\ grown \in BOOLEAN /\ spoilt \subseteq PoolServers /\ stranded \subseteq PoolServers

Spent == spoilt \cup {Nobody}

\* the replenishment loop destroys what it has listed, one server at a time
Block(k) == k.doomed \cup ({k.deleted} \ {Nobody})
Orderly(k) ==
  /\ k.pc \notin {"trimming", "draining"} => k.doomed = {} /\ k.deleted = Nobody
  /\ k.deleted \notin k.doomed
KeeperInv == Orderly(keeper) /\ keeper.deleted \notin up

\* nobody knows of a server that is being provisioned
JobInv ==
  \A w \in Provisions :
    /\ job[w] # "done" =>
         /\ \A e \in PoolEnvs : boot[e].server # w /\ environ[e].server # w
         /\ \A c \in Callers : caller[c].server # w
         /\ w \notin OnTheBlock
    /\ job[w] \in {"none", "spawned"} => pool[w] = "none"
    /\ job[w] \in {"creating", "booting"} => pool[w] \in {"warming", "gone"}
    /\ job[w] \in {"creating", "booting"} /\ pool[w] = "gone" => w \in stranded

\* an environment has no server until its boot is over; a cold boot's is its own
BootInv ==
  \A e \in PoolEnvs :
    /\ environ[e].status = "none" => boot[e] = NoBoot
    /\ boot[e].pc \in {"mark", "start"} <=> boot[e].server # Nobody
    /\ boot[e].pc # "done" => environ[e].server = Nobody
    /\ environ[e].status \in {"running", "sleeping"} => environ[e].server # Nobody
    /\ environ[e].status \in {"none", "creating", "failed"} => environ[e].server = Nobody
    /\ environ[e].server \in PoolEnvs => environ[e].server = e
    /\ boot[e].pc = "report" => e \in up

\* a call's copy of the row is the row, unless its server is spoilt
CallOK(c) ==
  LET e == caller[c].env
      s == caller[c].server IN
  /\ caller[c].pc = "idle" => e = Nobody /\ s = Nobody
  /\ caller[c].pc # "idle" => e \in PoolEnvs /\ environ[e].status # "none"
  /\ caller[c].pc \in {"d_clean", "d_return", "d_drain", "d_cloud", "s_cloud", "s_write"} => s # Nobody
  /\ e # Nobody /\ boot[e].pc # "done" => s = Nobody
  /\ s \in PoolEnvs => s = e
  /\ e # Nobody /\ environ[e].server \notin Spent => s = environ[e].server
  /\ s \notin Spent => environ[e].server = s
  /\ s \notin Spent /\ caller[c].pc \in {"d_mark", "s_cloud", "s_write"} =>
       environ[e].status \in {"running", "sleeping"}
  /\ s \notin Spent /\ caller[c].pc \in {"d_clean", "d_return", "d_drain", "d_cloud", "d_done"} =>
       environ[e].status = "destroying"
  /\ \A d \in Callers : d # c /\ e # Nobody /\ caller[d].env = e => environ[e].server \in Spent

CallInv == \A c \in Callers : CallOK(c)

Lives(e, s) == environ[e].status \in {"running", "sleeping"} /\ environ[e].server = s
Keeping == {"d_mark", "d_clean", "d_return", "d_drain", "s_cloud", "s_write"}

\* a pool server has one user at a time, and its row says assigned for as long
OneUser(s) ==
  /\ \A e \in PoolEnvs : boot[e].server = s =>
       /\ pool[s] = "assigned"
       /\ \A f \in PoolEnvs : (f # e => boot[f].server # s) /\ ~Lives(f, s)
       /\ \A c \in Callers : caller[c].server = s => caller[c].pc = "d_done"
  /\ \A e \in PoolEnvs : Lives(e, s) =>
       /\ pool[s] = "assigned"
       /\ \A f \in PoolEnvs : f # e => ~Lives(f, s)
       /\ \A c \in Callers : caller[c].server = s => caller[c].pc = "d_done" \/ caller[c].env = e
  /\ \A c \in Callers : caller[c].server = s /\ caller[c].pc \in Keeping =>
       /\ pool[s] = "assigned"
       /\ \A d \in Callers : d # c /\ caller[d].server = s => caller[d].pc = "d_done"
  /\ \A c \in Callers : caller[c].server = s /\ caller[c].pc = "d_cloud" =>
       /\ pool[s] \in {"assigned", "draining", "gone"}
       /\ pool[s] = "assigned" =>
            \A d \in Callers : d # c /\ caller[d].server = s => caller[d].pc = "d_done"
  /\ s \in OnTheBlock => pool[s] \in {"ready", "draining"}

UserInv == \A s \in Provisions \ spoilt : OneUser(s)

\* an environment that runs and that no call is at work on has its server
UpInv ==
  \A e \in PoolEnvs :
    environ[e].status = "running" /\ environ[e].server \notin spoilt
    /\ (\A c \in Callers : caller[c].env # e) => environ[e].server \in up

\* an environment that cannot be destroyed is left with its server
Leaves(e, s) ==
  /\ environ[e].status = "destroying" /\ environ[e].server = s
  /\ \A c \in Callers : caller[c].env = e => caller[c].pc # "d_done"

\* somebody knows of a pool server that is up
KnownInv ==
  \A s \in (Provisions \cap up) \ (stranded \cup spoilt) :
    \/ pool[s] \in {"ready", "draining"} \/ job[s] = "booting"
    \/ \E e \in PoolEnvs : boot[e].server = s \/ Lives(e, s) \/ Leaves(e, s)
    \/ \E c \in Callers : caller[c].server = s /\ caller[c].pc \in Keeping

\* and of one that was booted cold its environment does
ColdInv ==
  /\ \A e \in (PoolEnvs \cap up) \ (stranded \cup spoilt) :
       boot[e].pc = "report" \/ (environ[e].server = e /\ environ[e].status # "destroyed")
  /\ \A c \in Callers :
       caller[c].server \in PoolEnvs \ spoilt /\ caller[c].pc = "d_done" =>
         caller[c].server \notin up \/ caller[c].server \in stranded

ServerAlive == {w \in Provisions : pool[w] \in {"ready", "warming"} \/ job[w] = "spawned"}

\* the loop's running total is no less than what there is
BoundInv ==
  grown \/ /\ Cardinality(ServerAlive) <= MaxSize
           /\ keeper.pc = "fill" => Cardinality(ServerAlive) <= keeper.total /\ keeper.total <= MaxSize

PoolInv ==
  /\ PoolShape /\ KeeperInv /\ JobInv /\ BootInv /\ CallInv /\ UserInv /\ UpInv /\ KnownInv
  /\ ColdInv /\ BoundInv

LEMMA PoolConsts ==
  /\ Nobody \notin Provisions /\ Nobody \notin PoolEnvs /\ Provisions \cap PoolEnvs = {}
  /\ PoolServers = Provisions \cup PoolEnvs /\ IsFiniteSet(Provisions)
  BY PoolAssumption DEF PoolServers

LEMMA EnvFields ==
  ASSUME PoolShape, NEW e \in PoolEnvs
  PROVE  /\ environ[e] \in EnvRows
         /\ environ[e].status \in {"none", "creating", "running", "failed", "sleeping", "destroying",
                                   "destroyed"}
         /\ environ[e].server \in PoolServers \cup {Nobody}
  BY DEF PoolShape, EnvRows

LEMMA BootFields ==
  ASSUME PoolShape, NEW e \in PoolEnvs
  PROVE  /\ boot[e] \in BootRows
         /\ boot[e].pc \in {"none", "acquire", "mark", "start", "cold", "report", "done"}
         /\ boot[e].server \in Provisions \cup {Nobody}
  BY DEF PoolShape, BootRows

LEMMA CallFields ==
  ASSUME PoolShape, NEW c \in Callers
  PROVE  /\ caller[c] \in CallRows
         /\ caller[c].pc \in {"idle", "d_mark", "d_clean", "d_return", "d_drain", "d_cloud", "d_done",
                              "s_cloud", "s_write"}
         /\ caller[c].env \in PoolEnvs \cup {Nobody} /\ caller[c].server \in PoolServers \cup {Nobody}
  BY DEF PoolShape, CallRows

LEMMA BootMoves ==
  ASSUME PoolShape, NEW e \in PoolEnvs,
         NEW p \in {"none", "acquire", "mark", "start", "cold", "report", "done"},
         NEW s \in Provisions \cup {Nobody}, BootTo(e, p, s)
  PROVE  /\ boot' \in [PoolEnvs -> BootRows] /\ boot'[e].pc = p /\ boot'[e].server = s
         /\ \A f \in PoolEnvs \ {e} : boot'[f] = boot[f]
<1> DEFINE b == [pc |-> p, server |-> s]
<1>1. b \in BootRows /\ b.pc = p /\ b.server = s
  BY DEF BootRows
<1>2. boot' = [boot EXCEPT ![e] = b]
  BY DEF BootTo
<1> HIDE DEF b
<1> QED BY <1>1, <1>2 DEF PoolShape

LEMMA EnvMoves ==
  ASSUME PoolShape, NEW e \in PoolEnvs,
         NEW st \in {"none", "creating", "running", "failed", "sleeping", "destroying", "destroyed"},
         NEW s \in PoolServers \cup {Nobody},
         \/ environ' = [environ EXCEPT ![e] = [status |-> st, server |-> s]]
         \/ environ' = [environ EXCEPT ![e].status = st] /\ s = environ[e].server
  PROVE  /\ environ' \in [PoolEnvs -> EnvRows] /\ environ'[e].status = st /\ environ'[e].server = s
         /\ \A f \in PoolEnvs \ {e} : environ'[f] = environ[f]
<1>1. CASE environ' = [environ EXCEPT ![e] = [status |-> st, server |-> s]]
  <2> DEFINE b == [status |-> st, server |-> s]
  <2>1. b \in EnvRows /\ b.status = st /\ b.server = s
    BY DEF EnvRows
  <2>2. environ' = [environ EXCEPT ![e] = b]
    BY <1>1
  <2> HIDE DEF b
  <2> QED BY <2>1, <2>2 DEF PoolShape
<1>2. CASE environ' = [environ EXCEPT ![e].status = st] /\ s = environ[e].server
  <2> DEFINE b == [environ[e] EXCEPT !.status = st]
  <2>1. environ[e] \in EnvRows
    BY EnvFields
  <2>2. b \in EnvRows /\ b.status = st /\ b.server = environ[e].server
    BY <2>1 DEF EnvRows
  <2>3. environ' = [environ EXCEPT ![e] = b]
    BY <1>2
  <2> HIDE DEF b
  <2> QED BY <1>2, <2>2, <2>3 DEF PoolShape
<1> QED BY <1>1, <1>2

LEMMA CallMoves ==
  ASSUME PoolShape, NEW c \in Callers,
         NEW p \in {"idle", "d_mark", "d_clean", "d_return", "d_drain", "d_cloud", "d_done",
                    "s_cloud", "s_write"},
         CallTo(c, p)
  PROVE  /\ caller' \in [Callers -> CallRows] /\ caller'[c].pc = p
         /\ caller'[c].env = caller[c].env /\ caller'[c].server = caller[c].server
         /\ \A d \in Callers \ {c} : caller'[d] = caller[d]
<1> DEFINE b == [caller[c] EXCEPT !.pc = p]
<1>1. caller[c] \in CallRows
  BY CallFields
<1>2. b \in CallRows /\ b.pc = p /\ b.env = caller[c].env /\ b.server = caller[c].server
  BY <1>1 DEF CallRows
<1>3. caller' = [caller EXCEPT ![c] = b]
  BY DEF CallTo
<1> HIDE DEF b
<1> QED BY <1>2, <1>3 DEF PoolShape

LEMMA CallOver ==
  ASSUME PoolShape, NEW c \in Callers, CallEnds(c)
  PROVE  /\ caller' \in [Callers -> CallRows] /\ caller'[c].pc = "idle"
         /\ caller'[c].env = Nobody /\ caller'[c].server = Nobody
         /\ \A d \in Callers \ {c} : caller'[d] = caller[d]
<1>1. NoCall \in CallRows /\ NoCall.pc = "idle" /\ NoCall.env = Nobody /\ NoCall.server = Nobody
  BY DEF CallRows, NoCall
<1> QED BY <1>1 DEF PoolShape, CallEnds

LEMMA RowMoves ==
  ASSUME PoolShape, NEW w \in Provisions, NEW st \in RowStates, SetRow(w, st)
  PROVE  /\ pool' \in [Provisions -> RowStates] /\ pool'[w] = st
         /\ \A v \in Provisions \ {w} : pool'[v] = pool[v]
  BY DEF PoolShape, SetRow

LEMMA JobMoves ==
  ASSUME PoolShape, NEW w \in Provisions,
         NEW p \in {"none", "spawned", "creating", "booting", "done"}, JobTo(w, p)
  PROVE  /\ job' \in [Provisions -> {"none", "spawned", "creating", "booting", "done"}]
         /\ job'[w] = p /\ \A v \in Provisions \ {w} : job'[v] = job[v]
  BY DEF PoolShape, JobTo

LEMMA AliveFinite ==
  ASSUME NEW A, A \subseteq Provisions
  PROVE  IsFiniteSet(A) /\ Cardinality(A) \in Nat
  BY PoolConsts, FS_Subset, FS_CardinalityType

\* a step that adds no server to those that count keeps the bound
LEMMA NoMoreAlive ==
  ASSUME BoundInv, grown => grown', ServerAlive' \subseteq ServerAlive,
         keeper'.pc = "fill" => keeper.pc = "fill" /\ keeper'.total = keeper.total,
         keeper.total \in Nat, MaxSize \in Nat
  PROVE  BoundInv'
<1>1. ServerAlive \subseteq Provisions /\ ServerAlive' \subseteq Provisions
  BY DEF ServerAlive
<1>2. IsFiniteSet(ServerAlive) /\ Cardinality(ServerAlive) \in Nat /\ Cardinality(ServerAlive') \in Nat
  BY <1>1, AliveFinite
<1>3. Cardinality(ServerAlive') <= Cardinality(ServerAlive)
  BY <1>2, FS_Subset
<1> QED BY <1>2, <1>3 DEF BoundInv

LEMMA MaxSizeNat == MaxSize \in Nat
  BY PoolAssumption DEF MaxSize, Normalised, HardMaxWarmPoolSize

LEMMA KeeperFields ==
  ASSUME PoolShape
  PROVE  /\ keeper.total \in Nat /\ keeper.todo \subseteq Targets /\ keeper.excess \in Nat
         /\ keeper.doomed \subseteq Provisions /\ keeper.deleted \in Provisions \cup {Nobody}
         /\ keeper.target \in Targets \cup {Nobody}
         /\ OnTheBlock \subseteq Provisions /\ OnTheBlock = keeper.doomed \cup ({keeper.deleted} \ {Nobody})
  BY DEF PoolShape, KeeperRows, OnTheBlock

\* a call has the environment to itself, or what it has and what the row says is spoilt
LEMMA LoneCall ==
  ASSUME PoolShape, CallInv, NEW c \in Callers, caller[c].pc # "idle"
  PROVE  /\ caller[c].env \in PoolEnvs /\ environ[caller[c].env].status # "none"
         /\ caller[c].server \notin Spent =>
              /\ environ[caller[c].env].server = caller[c].server
              /\ \A d \in Callers : d # c => caller[d].env # caller[c].env
         /\ caller[c].server \in Spent =>
              /\ environ[caller[c].env].server \in Spent
              /\ \A d \in Callers : caller[d].env = caller[c].env => caller[d].server \in Spent
         /\ boot[caller[c].env].pc # "done" => caller[c].server = Nobody
         /\ caller[c].server \in PoolEnvs => caller[c].server = caller[c].env
<1>1. caller[c].env \in PoolEnvs /\ caller[c].env # Nobody /\ environ[caller[c].env].status # "none"
  BY PoolConsts DEF CallInv, CallOK
<1> QED BY <1>1 DEF CallInv, CallOK

LEMMA CreatePoolEnvInv ==
  ASSUME PoolInv, NEW e \in PoolEnvs, CreatePoolEnv(e)
  PROVE  PoolInv'
<1>1. PoolShape /\ KeeperInv /\ JobInv /\ BootInv /\ CallInv /\ UserInv /\ UpInv /\ KnownInv
      /\ ColdInv /\ BoundInv
  BY DEF PoolInv
<1>2. PoolShape /\ BoundInv
  BY <1>1
<1>3. environ[e].status = "none" /\ UNCHANGED <<pool, job, keeper, up, caller, history>>
  BY DEF CreatePoolEnv
<1>4. OnTheBlock' = OnTheBlock /\ grown' = grown /\ spoilt' = spoilt /\ stranded' = stranded
  BY <1>3 DEF OnTheBlock, history
<1>5. boot[e].pc = "none" /\ boot[e].server = Nobody /\ environ[e].server = Nobody
  BY <1>1, <1>3 DEF BootInv, NoBoot
<1>6. /\ boot' \in [PoolEnvs -> BootRows] /\ boot'[e].pc = "acquire" /\ boot'[e].server = Nobody
      /\ \A f \in PoolEnvs \ {e} : boot'[f] = boot[f]
  BY <1>2, BootMoves DEF CreatePoolEnv
<1>7. /\ environ' \in [PoolEnvs -> EnvRows] /\ environ'[e].status = "creating"
      /\ environ'[e].server = Nobody /\ \A f \in PoolEnvs \ {e} : environ'[f] = environ[f]
  BY <1>2, <1>5, EnvMoves DEF CreatePoolEnv
<1>8. PoolShape'
  BY <1>1, <1>3, <1>4, <1>5, <1>6, <1>7, PoolConsts DEF PoolShape
<1>9. KeeperInv'
  BY <1>1, <1>3, <1>4, <1>5, <1>6, <1>7, PoolConsts, KeeperFields DEF KeeperInv, Orderly
<1>10. JobInv'
  BY <1>1, <1>3, <1>4, <1>5, <1>6, <1>7, PoolConsts DEF JobInv
<1>11. BootInv'
  BY <1>1, <1>3, <1>4, <1>5, <1>6, <1>7, PoolConsts DEF BootInv, NoBoot
<1>12. CallInv'
  BY <1>1, <1>3, <1>4, <1>5, <1>6, <1>7, PoolConsts DEF CallInv, CallOK, Spent
<1>13. UserInv'
  BY <1>1, <1>3, <1>4, <1>5, <1>6, <1>7, PoolConsts DEF UserInv, OneUser, Lives, Keeping
<1>14. UpInv'
  BY <1>1, <1>3, <1>4, <1>5, <1>6, <1>7, PoolConsts DEF UpInv
<1>15. KnownInv'
  BY <1>1, <1>3, <1>4, <1>5, <1>6, <1>7, PoolConsts DEF KnownInv, Lives, Leaves, Keeping, Spent
<1>16. ColdInv'
  BY <1>1, <1>3, <1>4, <1>5, <1>6, <1>7, PoolConsts DEF ColdInv, Spent
<1>17. ServerAlive' \subseteq ServerAlive
  BY <1>1, <1>3, <1>4, <1>5, <1>6, <1>7 DEF ServerAlive
<1>18. BoundInv'
  BY <1>1, <1>3, <1>4, <1>5, <1>6, <1>7, <1>17, KeeperFields, MaxSizeNat, NoMoreAlive
<1> QED BY <1>8, <1>9, <1>10, <1>11, <1>12, <1>13, <1>14, <1>15, <1>16, <1>18 DEF PoolInv

LEMMA AcquireServerInv ==
  ASSUME PoolInv, NEW e \in PoolEnvs, AcquireServer(e)
  PROVE  PoolInv'
<1>1. PoolShape /\ KeeperInv /\ JobInv /\ BootInv /\ CallInv /\ UserInv /\ UpInv /\ KnownInv
      /\ ColdInv /\ BoundInv
  BY DEF PoolInv
<1>2. PoolShape /\ BoundInv
  BY <1>1
<1>3. PICK w \in Provisions :
         /\ pool[w] = "ready" /\ SetRow(w, "assigned") /\ BootTo(e, "mark", w)
         /\ spoilt' = spoilt \cup ({w} \cap OnTheBlock)
  BY DEF AcquireServer, Rows
<1>4. boot[e].pc = "acquire" /\ UNCHANGED <<job, keeper, up, environ, caller, grown, stranded>>
  BY DEF AcquireServer, Booting
<1>5. OnTheBlock' = OnTheBlock
  BY <1>4 DEF OnTheBlock
<1>6. /\ pool' \in [Provisions -> RowStates] /\ pool'[w] = "assigned"
      /\ \A v \in Provisions \ {w} : pool'[v] = pool[v]
  BY <1>2, <1>3, RowMoves DEF RowStates
<1>7. /\ boot' \in [PoolEnvs -> BootRows] /\ boot'[e].pc = "mark" /\ boot'[e].server = w
      /\ \A f \in PoolEnvs \ {e} : boot'[f] = boot[f]
  BY <1>2, <1>3, BootMoves
<1>8. boot[e].server = Nobody /\ job[w] = "done"
  BY <1>1, <1>3, <1>4, BootFields DEF BootInv, JobInv, PoolShape
<1>9. w \notin spoilt => /\ \A f \in PoolEnvs : boot[f].server # w /\ ~Lives(f, w)
                         /\ \A c \in Callers : caller[c].server = w => caller[c].pc = "d_done"
  BY <1>1, <1>3, CallFields, PoolConsts DEF UserInv, OneUser, CallInv, CallOK, Keeping
<1>10. PoolShape'
  BY <1>1, <1>3, <1>4, <1>5, <1>6, <1>7, <1>8, <1>9, PoolConsts DEF PoolShape
<1>11. KeeperInv'
  BY <1>1, <1>3, <1>4, <1>5, <1>6, <1>7, <1>8, <1>9, PoolConsts, KeeperFields DEF KeeperInv, Orderly
<1>12. JobInv'
  BY <1>1, <1>3, <1>4, <1>5, <1>6, <1>7, <1>8, <1>9, PoolConsts DEF JobInv
<1>13. BootInv'
  BY <1>1, <1>3, <1>4, <1>5, <1>6, <1>7, <1>8, <1>9, PoolConsts DEF BootInv, NoBoot
<1>14. CallInv'
  BY <1>1, <1>3, <1>4, <1>5, <1>6, <1>7, <1>8, <1>9, PoolConsts DEF CallInv, CallOK, Spent
<1>15. UserInv'
  BY <1>1, <1>3, <1>4, <1>5, <1>6, <1>7, <1>8, <1>9, PoolConsts DEF UserInv, OneUser, Lives, Keeping
<1>16. UpInv'
  BY <1>1, <1>3, <1>4, <1>5, <1>6, <1>7, <1>8, <1>9, PoolConsts DEF UpInv
<1>17. KnownInv'
  BY <1>1, <1>3, <1>4, <1>5, <1>6, <1>7, <1>8, <1>9, PoolConsts DEF KnownInv, Lives, Leaves,
     Keeping, Spent
<1>18. ColdInv'
  BY <1>1, <1>3, <1>4, <1>5, <1>6, <1>7, <1>8, <1>9, PoolConsts DEF ColdInv, Spent
<1>19. ServerAlive' \subseteq ServerAlive
  BY <1>1, <1>3, <1>4, <1>5, <1>6, <1>7, <1>8, <1>9 DEF ServerAlive
<1>20. BoundInv'
  BY <1>1, <1>3, <1>4, <1>5, <1>6, <1>7, <1>8, <1>9, <1>19, KeeperFields, MaxSizeNat, NoMoreAlive
<1> QED BY <1>10, <1>11, <1>12, <1>13, <1>14, <1>15, <1>16, <1>17, <1>18, <1>20 DEF PoolInv

LEMMA AcquiredUnheardInv ==
  ASSUME PoolInv, NEW e \in PoolEnvs, AcquiredUnheard(e)
  PROVE  PoolInv'
<1>1. PoolShape /\ KeeperInv /\ JobInv /\ BootInv /\ CallInv /\ UserInv /\ UpInv /\ KnownInv
      /\ ColdInv /\ BoundInv
  BY DEF PoolInv
<1>2. PoolShape /\ BoundInv
  BY <1>1
<1>3. PICK w \in Provisions :
         /\ pool[w] = "ready" /\ SetRow(w, "assigned") /\ BootTo(e, "cold", Nobody)
         /\ stranded' = stranded \cup (up \cap {w})
         /\ spoilt' = spoilt \cup ({w} \cap OnTheBlock)
  BY DEF AcquiredUnheard, Rows
<1>4. boot[e].pc = "acquire" /\ UNCHANGED <<job, keeper, up, environ, caller, grown>>
  BY DEF AcquiredUnheard, Booting
<1>5. OnTheBlock' = OnTheBlock
  BY <1>4 DEF OnTheBlock
<1>6. /\ pool' \in [Provisions -> RowStates] /\ pool'[w] = "assigned"
      /\ \A v \in Provisions \ {w} : pool'[v] = pool[v]
  BY <1>2, <1>3, RowMoves DEF RowStates
<1>7. /\ boot' \in [PoolEnvs -> BootRows] /\ boot'[e].pc = "cold" /\ boot'[e].server = Nobody
      /\ \A f \in PoolEnvs \ {e} : boot'[f] = boot[f]
  BY <1>2, <1>3, BootMoves
<1>8. boot[e].server = Nobody /\ job[w] = "done"
  BY <1>1, <1>3, <1>4, BootFields DEF BootInv, JobInv, PoolShape
<1>9. w \notin spoilt => /\ \A f \in PoolEnvs : boot[f].server # w /\ ~Lives(f, w)
                         /\ \A c \in Callers : caller[c].server = w => caller[c].pc = "d_done"
  BY <1>1, <1>3, CallFields, PoolConsts DEF UserInv, OneUser, CallInv, CallOK, Keeping
<1>10. PoolShape'
  BY <1>1, <1>3, <1>4, <1>5, <1>6, <1>7, <1>8, <1>9, PoolConsts DEF PoolShape
<1>11. KeeperInv'
  BY <1>1, <1>3, <1>4, <1>5, <1>6, <1>7, <1>8, <1>9, PoolConsts, KeeperFields DEF KeeperInv, Orderly
<1>12. JobInv'
  BY <1>1, <1>3, <1>4, <1>5, <1>6, <1>7, <1>8, <1>9, PoolConsts DEF JobInv
<1>13. BootInv'
  BY <1>1, <1>3, <1>4, <1>5, <1>6, <1>7, <1>8, <1>9, PoolConsts DEF BootInv, NoBoot
<1>14. CallInv'
  BY <1>1, <1>3, <1>4, <1>5, <1>6, <1>7, <1>8, <1>9, PoolConsts DEF CallInv, CallOK, Spent
<1>15. UserInv'
  BY <1>1, <1>3, <1>4, <1>5, <1>6, <1>7, <1>8, <1>9, PoolConsts DEF UserInv, OneUser, Lives, Keeping
<1>16. UpInv'
  BY <1>1, <1>3, <1>4, <1>5, <1>6, <1>7, <1>8, <1>9, PoolConsts DEF UpInv
<1>17. KnownInv'
  BY <1>1, <1>3, <1>4, <1>5, <1>6, <1>7, <1>8, <1>9, PoolConsts DEF KnownInv, Lives, Leaves,
     Keeping, Spent
<1>18. ColdInv'
  BY <1>1, <1>3, <1>4, <1>5, <1>6, <1>7, <1>8, <1>9, PoolConsts DEF ColdInv, Spent
<1>19. ServerAlive' \subseteq ServerAlive
  BY <1>1, <1>3, <1>4, <1>5, <1>6, <1>7, <1>8, <1>9 DEF ServerAlive
<1>20. BoundInv'
  BY <1>1, <1>3, <1>4, <1>5, <1>6, <1>7, <1>8, <1>9, <1>19, KeeperFields, MaxSizeNat, NoMoreAlive
<1> QED BY <1>10, <1>11, <1>12, <1>13, <1>14, <1>15, <1>16, <1>17, <1>18, <1>20 DEF PoolInv

LEMMA NoneReadyInv ==
  ASSUME PoolInv, NEW e \in PoolEnvs, NoneReady(e)
  PROVE  PoolInv'
<1>1. PoolShape /\ KeeperInv /\ JobInv /\ BootInv /\ CallInv /\ UserInv /\ UpInv /\ KnownInv
      /\ ColdInv /\ BoundInv
  BY DEF PoolInv
<1>2. PoolShape /\ BoundInv
  BY <1>1
<1>3. boot[e].pc = "acquire" /\ UNCHANGED <<pool, job, keeper, up, environ, caller, history>>
  BY DEF NoneReady, Booting
<1>4. OnTheBlock' = OnTheBlock /\ grown' = grown /\ spoilt' = spoilt /\ stranded' = stranded
  BY <1>3 DEF OnTheBlock, history
<1>5. /\ boot' \in [PoolEnvs -> BootRows] /\ boot'[e].pc = "cold" /\ boot'[e].server = Nobody
      /\ \A f \in PoolEnvs \ {e} : boot'[f] = boot[f]
  BY <1>2, BootMoves DEF NoneReady
<1>6. boot[e].server = Nobody
  BY <1>1, <1>3 DEF BootInv
<1>7. PoolShape'
  BY <1>1, <1>3, <1>4, <1>5, <1>6, PoolConsts DEF PoolShape
<1>8. KeeperInv'
  BY <1>1, <1>3, <1>4, <1>5, <1>6, PoolConsts, KeeperFields DEF KeeperInv, Orderly
<1>9. JobInv'
  BY <1>1, <1>3, <1>4, <1>5, <1>6, PoolConsts DEF JobInv
<1>10. BootInv'
  BY <1>1, <1>3, <1>4, <1>5, <1>6, PoolConsts DEF BootInv, NoBoot
<1>11. CallInv'
  BY <1>1, <1>3, <1>4, <1>5, <1>6, PoolConsts DEF CallInv, CallOK, Spent
<1>12. UserInv'
  BY <1>1, <1>3, <1>4, <1>5, <1>6, PoolConsts DEF UserInv, OneUser, Lives, Keeping
<1>13. UpInv'
  BY <1>1, <1>3, <1>4, <1>5, <1>6, PoolConsts DEF UpInv
<1>14. KnownInv'
  BY <1>1, <1>3, <1>4, <1>5, <1>6, PoolConsts DEF KnownInv, Lives, Leaves, Keeping, Spent
<1>15. ColdInv'
  BY <1>1, <1>3, <1>4, <1>5, <1>6, PoolConsts DEF ColdInv, Spent
<1>16. ServerAlive' \subseteq ServerAlive
  BY <1>1, <1>3, <1>4, <1>5, <1>6 DEF ServerAlive
<1>17. BoundInv'
  BY <1>1, <1>3, <1>4, <1>5, <1>6, <1>16, KeeperFields, MaxSizeNat, NoMoreAlive
<1> QED BY <1>7, <1>8, <1>9, <1>10, <1>11, <1>12, <1>13, <1>14, <1>15, <1>17 DEF PoolInv

LEMMA MarkAssignedInv ==
  ASSUME PoolInv, NEW e \in PoolEnvs, MarkAssigned(e)
  PROVE  PoolInv'
<1>1. PoolShape /\ KeeperInv /\ JobInv /\ BootInv /\ CallInv /\ UserInv /\ UpInv /\ KnownInv
      /\ ColdInv /\ BoundInv
  BY DEF PoolInv
<1>2. PoolShape /\ BoundInv
  BY <1>1
<1>3. /\ boot[e].pc = "mark" /\ BootTo(e, "start", boot[e].server)
      /\ IF pool[boot[e].server] = "gone" THEN UNCHANGED pool ELSE SetRow(boot[e].server, "assigned")
      /\ UNCHANGED <<job, keeper, up, environ, caller, history>>
  BY DEF MarkAssigned, Booting
<1>4. OnTheBlock' = OnTheBlock /\ grown' = grown /\ spoilt' = spoilt /\ stranded' = stranded
  BY <1>3 DEF OnTheBlock, history
<1>5. boot[e].server \in Provisions /\ job[boot[e].server] = "done"
  BY <1>1, <1>3, BootFields DEF BootInv, JobInv
<1>6. /\ boot' \in [PoolEnvs -> BootRows] /\ boot'[e].pc = "start" /\ boot'[e].server = boot[e].server
      /\ \A f \in PoolEnvs \ {e} : boot'[f] = boot[f]
  BY <1>2, <1>3, <1>5, BootMoves
<1>7. /\ pool' \in [Provisions -> RowStates] /\ pool'[boot[e].server] \in {"gone", "assigned"}
      /\ \A v \in Provisions : v # boot[e].server => pool'[v] = pool[v]
      /\ pool[boot[e].server] = "assigned" => pool'[boot[e].server] = "assigned"
  BY <1>2, <1>3, <1>5, RowMoves DEF RowStates, PoolShape
<1>8. \A v \in Provisions : pool'[v] # pool[v] => v = boot[e].server /\ pool'[v] = "assigned"
  BY <1>2, <1>3, <1>5, RowMoves DEF RowStates
<1>9. \A v \in Provisions \ spoilt : pool'[v] = pool[v]
  BY <1>1, <1>5, <1>7, <1>8 DEF UserInv, OneUser
<1>10. PoolShape'
  BY <1>1, <1>3, <1>4, <1>5, <1>6, <1>7, <1>8, <1>9, PoolConsts DEF PoolShape
<1>11. KeeperInv'
  BY <1>1, <1>3, <1>4, <1>5, <1>6, <1>7, <1>8, <1>9, PoolConsts, KeeperFields DEF KeeperInv, Orderly
<1>12. JobInv'
  BY <1>1, <1>3, <1>4, <1>5, <1>6, <1>7, <1>8, <1>9, PoolConsts DEF JobInv
<1>13. BootInv'
  BY <1>1, <1>3, <1>4, <1>5, <1>6, <1>7, <1>8, <1>9, PoolConsts DEF BootInv, NoBoot
<1>14. CallInv'
  BY <1>1, <1>3, <1>4, <1>5, <1>6, <1>7, <1>8, <1>9, PoolConsts DEF CallInv, CallOK, Spent
<1>15. UserInv'
  BY <1>1, <1>3, <1>4, <1>5, <1>6, <1>7, <1>8, <1>9, PoolConsts DEF UserInv, OneUser, Lives, Keeping
<1>16. UpInv'
  BY <1>1, <1>3, <1>4, <1>5, <1>6, <1>7, <1>8, <1>9, PoolConsts DEF UpInv
<1>17. KnownInv'
  BY <1>1, <1>3, <1>4, <1>5, <1>6, <1>7, <1>8, <1>9, PoolConsts DEF KnownInv, Lives, Leaves,
     Keeping, Spent
<1>18. ColdInv'
  BY <1>1, <1>3, <1>4, <1>5, <1>6, <1>7, <1>8, <1>9, PoolConsts DEF ColdInv, Spent
<1>19. ServerAlive' \subseteq ServerAlive
  BY <1>1, <1>3, <1>4, <1>5, <1>6, <1>7, <1>8, <1>9 DEF ServerAlive
<1>20. BoundInv'
  BY <1>1, <1>3, <1>4, <1>5, <1>6, <1>7, <1>8, <1>9, <1>19, KeeperFields, MaxSizeNat, NoMoreAlive
<1> QED BY <1>10, <1>11, <1>12, <1>13, <1>14, <1>15, <1>16, <1>17, <1>18, <1>20 DEF PoolInv

LEMMA StartWarmInv ==
  ASSUME PoolInv, NEW e \in PoolEnvs, StartWarm(e)
  PROVE  PoolInv'
<1>1. PoolShape /\ KeeperInv /\ JobInv /\ BootInv /\ CallInv /\ UserInv /\ UpInv /\ KnownInv
      /\ ColdInv /\ BoundInv
  BY DEF PoolInv
<1>2. PoolShape /\ BoundInv
  BY <1>1
<1>3. /\ boot[e].pc = "start" /\ boot[e].server \in up /\ Runs(e, boot[e].server) /\ BootTo(e, "done", Nobody)
      /\ UNCHANGED <<pool, job, keeper, up, caller, grown, stranded>>
  BY DEF StartWarm, Booting
<1>4. OnTheBlock' = OnTheBlock
  BY <1>3 DEF OnTheBlock
<1>5. boot[e].server \in Provisions /\ job[boot[e].server] = "done" /\ environ[e].server = Nobody
  BY <1>1, <1>3, BootFields DEF BootInv, JobInv
<1>6. /\ boot' \in [PoolEnvs -> BootRows] /\ boot'[e].pc = "done" /\ boot'[e].server = Nobody
      /\ \A f \in PoolEnvs \ {e} : boot'[f] = boot[f]
  BY <1>2, <1>3, BootMoves
<1>7. /\ environ' \in [PoolEnvs -> EnvRows] /\ environ'[e].status = "running"
      /\ environ'[e].server = boot[e].server /\ \A f \in PoolEnvs \ {e} : environ'[f] = environ[f]
  BY <1>2, <1>3, <1>5, PoolConsts, EnvMoves DEF Runs
<1>8. /\ spoilt \subseteq spoilt' /\ spoilt' \subseteq PoolServers
      /\ spoilt' \subseteq spoilt \cup {boot[e].server}
      /\ (\E c \in Callers : caller[c].env = e) => boot[e].server \in spoilt'
  BY <1>2, <1>3, <1>5, PoolConsts DEF Runs, PoolShape
<1>9. PoolShape'
  BY <1>1, <1>3, <1>4, <1>5, <1>6, <1>7, <1>8, PoolConsts DEF PoolShape
<1>10. KeeperInv'
  BY <1>1, <1>3, <1>4, <1>5, <1>6, <1>7, <1>8, PoolConsts, KeeperFields DEF KeeperInv, Orderly
<1>11. JobInv'
  BY <1>1, <1>3, <1>4, <1>5, <1>6, <1>7, <1>8, PoolConsts DEF JobInv
<1>12. BootInv'
  BY <1>1, <1>3, <1>4, <1>5, <1>6, <1>7, <1>8, PoolConsts DEF BootInv, NoBoot
<1>13. CallInv'
  BY <1>1, <1>3, <1>4, <1>5, <1>6, <1>7, <1>8, PoolConsts DEF CallInv, CallOK, Spent
<1>14. UserInv'
  BY <1>1, <1>3, <1>4, <1>5, <1>6, <1>7, <1>8, PoolConsts DEF UserInv, OneUser, Lives, Keeping
<1>15. UpInv'
  BY <1>1, <1>3, <1>4, <1>5, <1>6, <1>7, <1>8, PoolConsts DEF UpInv
<1>16. KnownInv'
  BY <1>1, <1>3, <1>4, <1>5, <1>6, <1>7, <1>8, PoolConsts DEF KnownInv, Lives, Leaves, Keeping,
     Spent
<1>17. ColdInv'
  BY <1>1, <1>3, <1>4, <1>5, <1>6, <1>7, <1>8, PoolConsts DEF ColdInv, Spent
<1>18. ServerAlive' \subseteq ServerAlive
  BY <1>1, <1>3, <1>4, <1>5, <1>6, <1>7, <1>8 DEF ServerAlive
<1>19. BoundInv'
  BY <1>1, <1>3, <1>4, <1>5, <1>6, <1>7, <1>8, <1>18, KeeperFields, MaxSizeNat, NoMoreAlive
<1> QED BY <1>9, <1>10, <1>11, <1>12, <1>13, <1>14, <1>15, <1>16, <1>17, <1>19 DEF PoolInv

LEMMA StartFailsInv ==
  ASSUME PoolInv, NEW e \in PoolEnvs, StartFails(e)
  PROVE  PoolInv'
<1>1. PoolShape /\ KeeperInv /\ JobInv /\ BootInv /\ CallInv /\ UserInv /\ UpInv /\ KnownInv
      /\ ColdInv /\ BoundInv
  BY DEF PoolInv
<1>2. PoolShape /\ BoundInv
  BY <1>1
<1>3. /\ boot[e].pc = "start" /\ BootTo(e, "cold", Nobody) /\ stranded' = stranded \cup (up \cap {boot[e].server})
      /\ UNCHANGED <<pool, job, keeper, up, environ, caller, grown, spoilt>>
  BY DEF StartFails, Booting
<1>4. OnTheBlock' = OnTheBlock
  BY <1>3 DEF OnTheBlock
<1>5. boot[e].server \in Provisions
  BY <1>1, <1>3, BootFields DEF BootInv
<1>6. /\ boot' \in [PoolEnvs -> BootRows] /\ boot'[e].pc = "cold" /\ boot'[e].server = Nobody
      /\ \A f \in PoolEnvs \ {e} : boot'[f] = boot[f]
  BY <1>2, <1>3, BootMoves
<1>7. PoolShape'
  BY <1>1, <1>3, <1>4, <1>5, <1>6, PoolConsts DEF PoolShape
<1>8. KeeperInv'
  BY <1>1, <1>3, <1>4, <1>5, <1>6, PoolConsts, KeeperFields DEF KeeperInv, Orderly
<1>9. JobInv'
  BY <1>1, <1>3, <1>4, <1>5, <1>6, PoolConsts DEF JobInv
<1>10. BootInv'
  BY <1>1, <1>3, <1>4, <1>5, <1>6, PoolConsts DEF BootInv, NoBoot
<1>11. CallInv'
  BY <1>1, <1>3, <1>4, <1>5, <1>6, PoolConsts DEF CallInv, CallOK, Spent
<1>12. UserInv'
  BY <1>1, <1>3, <1>4, <1>5, <1>6, PoolConsts DEF UserInv, OneUser, Lives, Keeping
<1>13. UpInv'
  BY <1>1, <1>3, <1>4, <1>5, <1>6, PoolConsts DEF UpInv
<1>14. KnownInv'
  BY <1>1, <1>3, <1>4, <1>5, <1>6, PoolConsts DEF KnownInv, Lives, Leaves, Keeping, Spent
<1>15. ColdInv'
  BY <1>1, <1>3, <1>4, <1>5, <1>6, PoolConsts DEF ColdInv, Spent
<1>16. ServerAlive' \subseteq ServerAlive
  BY <1>1, <1>3, <1>4, <1>5, <1>6 DEF ServerAlive
<1>17. BoundInv'
  BY <1>1, <1>3, <1>4, <1>5, <1>6, <1>16, KeeperFields, MaxSizeNat, NoMoreAlive
<1> QED BY <1>7, <1>8, <1>9, <1>10, <1>11, <1>12, <1>13, <1>14, <1>15, <1>17 DEF PoolInv

LEMMA ColdBootInv ==
  ASSUME PoolInv, NEW e \in PoolEnvs, ColdBoot(e)
  PROVE  PoolInv'
<1>1. PoolShape /\ KeeperInv /\ JobInv /\ BootInv /\ CallInv /\ UserInv /\ UpInv /\ KnownInv
      /\ ColdInv /\ BoundInv
  BY DEF PoolInv
<1>2. PoolShape /\ BoundInv
  BY <1>1
<1>3. /\ boot[e].pc = "cold" /\ UNCHANGED <<pool, job, keeper, caller, history>>
  BY DEF ColdBoot, Booting
<1>4. OnTheBlock' = OnTheBlock /\ grown' = grown /\ spoilt' = spoilt /\ stranded' = stranded
  BY <1>3 DEF OnTheBlock, history
<1>5. boot[e].server = Nobody /\ environ[e].server = Nobody /\ environ[e].status # "none"
  BY <1>1, <1>3 DEF BootInv, NoBoot
<1>6. /\ boot' \in [PoolEnvs -> BootRows] /\ boot'[e].pc \in {"report", "done"} /\ boot'[e].server = Nobody
      /\ \A f \in PoolEnvs \ {e} : boot'[f] = boot[f]
  BY <1>2, BootMoves DEF ColdBoot
<1>7. /\ boot'[e].pc = "report" => up' = up \cup {e}
      /\ boot'[e].pc = "done" => up' = up
  BY <1>2, BootMoves DEF ColdBoot
<1>8. /\ environ' \in [PoolEnvs -> EnvRows] /\ environ'[e].server = Nobody
      /\ environ'[e].status \in {environ[e].status, "failed"}
      /\ \A f \in PoolEnvs \ {e} : environ'[f] = environ[f]
  BY <1>2, <1>5, EnvMoves DEF ColdBoot, PoolShape
<1>9. PoolShape'
  BY <1>1, <1>3, <1>4, <1>5, <1>6, <1>7, <1>8, PoolConsts DEF PoolShape
<1>10. KeeperInv'
  BY <1>1, <1>3, <1>4, <1>5, <1>6, <1>7, <1>8, PoolConsts, KeeperFields DEF KeeperInv, Orderly
<1>11. JobInv'
  BY <1>1, <1>3, <1>4, <1>5, <1>6, <1>7, <1>8, PoolConsts DEF JobInv
<1>12. BootInv'
  BY <1>1, <1>3, <1>4, <1>5, <1>6, <1>7, <1>8, PoolConsts DEF BootInv, NoBoot
<1>13. CallInv'
  BY <1>1, <1>3, <1>4, <1>5, <1>6, <1>7, <1>8, PoolConsts DEF CallInv, CallOK, Spent
<1>14. UserInv'
  BY <1>1, <1>3, <1>4, <1>5, <1>6, <1>7, <1>8, PoolConsts DEF UserInv, OneUser, Lives, Keeping
<1>15. UpInv'
  BY <1>1, <1>3, <1>4, <1>5, <1>6, <1>7, <1>8, PoolConsts DEF UpInv
<1>16. KnownInv'
  BY <1>1, <1>3, <1>4, <1>5, <1>6, <1>7, <1>8, PoolConsts DEF KnownInv, Lives, Leaves, Keeping,
     Spent
<1>17. ColdInv'
  BY <1>1, <1>3, <1>4, <1>5, <1>6, <1>7, <1>8, PoolConsts DEF ColdInv, Spent, CallInv, CallOK
<1>18. ServerAlive' \subseteq ServerAlive
  BY <1>1, <1>3, <1>4, <1>5, <1>6, <1>7, <1>8 DEF ServerAlive
<1>19. BoundInv'
  BY <1>1, <1>3, <1>4, <1>5, <1>6, <1>7, <1>8, <1>18, KeeperFields, MaxSizeNat, NoMoreAlive
<1> QED BY <1>9, <1>10, <1>11, <1>12, <1>13, <1>14, <1>15, <1>16, <1>17, <1>19 DEF PoolInv

LEMMA ReportColdInv ==
  ASSUME PoolInv, NEW e \in PoolEnvs, ReportCold(e)
  PROVE  PoolInv'
<1>1. PoolShape /\ KeeperInv /\ JobInv /\ BootInv /\ CallInv /\ UserInv /\ UpInv /\ KnownInv
      /\ ColdInv /\ BoundInv
  BY DEF PoolInv
<1>2. PoolShape /\ BoundInv
  BY <1>1
<1>3. /\ boot[e].pc = "report" /\ Runs(e, e) /\ BootTo(e, "done", Nobody)
      /\ UNCHANGED <<pool, job, keeper, up, caller, grown, stranded>>
  BY DEF ReportCold, Booting
<1>4. OnTheBlock' = OnTheBlock
  BY <1>3 DEF OnTheBlock
<1>5. boot[e].server = Nobody /\ environ[e].server = Nobody /\ e \in up
  BY <1>1, <1>3 DEF BootInv
<1>6. /\ boot' \in [PoolEnvs -> BootRows] /\ boot'[e].pc = "done" /\ boot'[e].server = Nobody
      /\ \A f \in PoolEnvs \ {e} : boot'[f] = boot[f]
  BY <1>2, <1>3, BootMoves
<1>7. /\ environ' \in [PoolEnvs -> EnvRows] /\ environ'[e].status = "running"
      /\ environ'[e].server = e /\ \A f \in PoolEnvs \ {e} : environ'[f] = environ[f]
  BY <1>2, <1>3, PoolConsts, EnvMoves DEF Runs
<1>8. /\ spoilt \subseteq spoilt' /\ spoilt' \subseteq PoolServers /\ spoilt' \subseteq spoilt \cup {e}
      /\ (\E c \in Callers : caller[c].env = e) => e \in spoilt'
  BY <1>2, <1>3, PoolConsts DEF Runs, PoolShape
<1>9. PoolShape'
  BY <1>1, <1>3, <1>4, <1>5, <1>6, <1>7, <1>8, PoolConsts DEF PoolShape
<1>10. KeeperInv'
  BY <1>1, <1>3, <1>4, <1>5, <1>6, <1>7, <1>8, PoolConsts, KeeperFields DEF KeeperInv, Orderly
<1>11. JobInv'
  BY <1>1, <1>3, <1>4, <1>5, <1>6, <1>7, <1>8, PoolConsts DEF JobInv
<1>12. BootInv'
  BY <1>1, <1>3, <1>4, <1>5, <1>6, <1>7, <1>8, PoolConsts DEF BootInv, NoBoot
<1>13. CallInv'
  BY <1>1, <1>3, <1>4, <1>5, <1>6, <1>7, <1>8, PoolConsts DEF CallInv, CallOK, Spent
<1>14. UserInv'
  BY <1>1, <1>3, <1>4, <1>5, <1>6, <1>7, <1>8, PoolConsts DEF UserInv, OneUser, Lives, Keeping
<1>15. UpInv'
  BY <1>1, <1>3, <1>4, <1>5, <1>6, <1>7, <1>8, PoolConsts DEF UpInv
<1>16. KnownInv'
  BY <1>1, <1>3, <1>4, <1>5, <1>6, <1>7, <1>8, PoolConsts DEF KnownInv, Lives, Leaves, Keeping,
     Spent
<1>17. ColdInv'
  BY <1>1, <1>3, <1>4, <1>5, <1>6, <1>7, <1>8, PoolConsts DEF ColdInv, Spent
<1>18. ServerAlive' \subseteq ServerAlive
  BY <1>1, <1>3, <1>4, <1>5, <1>6, <1>7, <1>8 DEF ServerAlive
<1>19. BoundInv'
  BY <1>1, <1>3, <1>4, <1>5, <1>6, <1>7, <1>8, <1>18, KeeperFields, MaxSizeNat, NoMoreAlive
<1> QED BY <1>9, <1>10, <1>11, <1>12, <1>13, <1>14, <1>15, <1>16, <1>17, <1>19 DEF PoolInv

LEMMA InsertWarmingInv ==
  ASSUME PoolInv, NEW w \in Provisions, InsertWarming(w), JobTo(w, "creating")
  PROVE  PoolInv'
<1>1. PoolShape /\ KeeperInv /\ JobInv /\ BootInv /\ CallInv /\ UserInv /\ UpInv /\ KnownInv
      /\ ColdInv /\ BoundInv
  BY DEF PoolInv
<1>2. PoolShape /\ BoundInv
  BY <1>1
<1>3. /\ job[w] = "spawned" /\ JobTo(w, "creating") /\ SetRow(w, "warming")
      /\ UNCHANGED <<keeper, up, environ, boot, caller, history>>
  <2>1. ~JobTo(w, "done")
    BY <1>2 DEF JobTo, PoolShape
  <2> QED BY <2>1 DEF InsertWarming, Job
<1>4. OnTheBlock' = OnTheBlock /\ grown' = grown /\ spoilt' = spoilt /\ stranded' = stranded
  BY <1>3 DEF OnTheBlock, history
<1>5. /\ job' \in [Provisions -> {"none", "spawned", "creating", "booting", "done"}] /\ job'[w] = "creating"
      /\ \A v \in Provisions \ {w} : job'[v] = job[v]
  BY <1>2, <1>3, JobMoves
<1>6. /\ pool' \in [Provisions -> RowStates] /\ pool'[w] = "warming"
      /\ \A v \in Provisions \ {w} : pool'[v] = pool[v]
  BY <1>2, <1>3, RowMoves DEF RowStates
<1>7. pool[w] = "none"
  BY <1>1, <1>3 DEF JobInv
<1>8. PoolShape'
  BY <1>1, <1>3, <1>4, <1>5, <1>6, <1>7, PoolConsts DEF PoolShape
<1>9. KeeperInv'
  BY <1>1, <1>3, <1>4, <1>5, <1>6, <1>7, PoolConsts, KeeperFields DEF KeeperInv, Orderly
<1>10. JobInv'
  BY <1>1, <1>3, <1>4, <1>5, <1>6, <1>7, PoolConsts DEF JobInv
<1>11. BootInv'
  BY <1>1, <1>3, <1>4, <1>5, <1>6, <1>7, PoolConsts DEF BootInv, NoBoot
<1>12. CallInv'
  BY <1>1, <1>3, <1>4, <1>5, <1>6, <1>7, PoolConsts DEF CallInv, CallOK, Spent
<1>13. UserInv'
  BY <1>1, <1>3, <1>4, <1>5, <1>6, <1>7, PoolConsts DEF UserInv, OneUser, Lives, Keeping
<1>14. UpInv'
  BY <1>1, <1>3, <1>4, <1>5, <1>6, <1>7, PoolConsts DEF UpInv
<1>15. KnownInv'
  BY <1>1, <1>3, <1>4, <1>5, <1>6, <1>7, PoolConsts DEF KnownInv, Lives, Leaves, Keeping, Spent
<1>16. ColdInv'
  BY <1>1, <1>3, <1>4, <1>5, <1>6, <1>7, PoolConsts DEF ColdInv, Spent
<1>17. ServerAlive' \subseteq ServerAlive
  BY <1>1, <1>3, <1>4, <1>5, <1>6, <1>7 DEF ServerAlive
<1>18. BoundInv'
  BY <1>1, <1>3, <1>4, <1>5, <1>6, <1>7, <1>17, KeeperFields, MaxSizeNat, NoMoreAlive
<1> QED BY <1>8, <1>9, <1>10, <1>11, <1>12, <1>13, <1>14, <1>15, <1>16, <1>18 DEF PoolInv

LEMMA InsertFailsInv ==
  ASSUME PoolInv, NEW w \in Provisions, job[w] = "spawned", JobTo(w, "done"),
         UNCHANGED <<pool, keeper, up, environ, boot, caller, history>>
  PROVE  PoolInv'
<1>1. PoolShape /\ KeeperInv /\ JobInv /\ BootInv /\ CallInv /\ UserInv /\ UpInv /\ KnownInv
      /\ ColdInv /\ BoundInv
  BY DEF PoolInv
<1>2. PoolShape /\ BoundInv
  BY <1>1
<1>4. OnTheBlock' = OnTheBlock /\ grown' = grown /\ spoilt' = spoilt /\ stranded' = stranded
  BY DEF OnTheBlock, history
<1>5. /\ job' \in [Provisions -> {"none", "spawned", "creating", "booting", "done"}] /\ job'[w] = "done"
      /\ \A v \in Provisions \ {w} : job'[v] = job[v]
  BY <1>2, JobMoves
<1>8. PoolShape' /\ KeeperInv'
  BY <1>1, <1>4, <1>5 DEF PoolShape, KeeperInv, Orderly
<1>10. JobInv' /\ BootInv'
  BY <1>1, <1>4, <1>5 DEF JobInv, BootInv, NoBoot
<1>12. CallInv' /\ UserInv'
  BY <1>1, <1>4, <1>5 DEF CallInv, CallOK, Spent, UserInv, OneUser, Lives, Keeping
<1>14. UpInv' /\ ColdInv'
  BY <1>1, <1>4, <1>5 DEF UpInv, ColdInv
<1>15. KnownInv'
  BY <1>1, <1>4, <1>5 DEF KnownInv, Lives, Leaves, Keeping
<1>17. ServerAlive' \subseteq ServerAlive
  BY <1>5 DEF ServerAlive
<1>18. BoundInv'
  BY <1>1, <1>4, <1>17, KeeperFields, MaxSizeNat, NoMoreAlive
<1> QED BY <1>8, <1>10, <1>12, <1>14, <1>15, <1>18 DEF PoolInv

LEMMA CreateServerInv ==
  ASSUME PoolInv, NEW w \in Provisions, CreateServer(w)
  PROVE  PoolInv'
<1>1. PoolShape /\ KeeperInv /\ JobInv /\ BootInv /\ CallInv /\ UserInv /\ UpInv /\ KnownInv
      /\ ColdInv /\ BoundInv
  BY DEF PoolInv
<1>2. PoolShape /\ BoundInv
  BY <1>1
<1>3. /\ job[w] = "creating" /\ JobTo(w, "booting") /\ up' = up \cup {w}
      /\ UNCHANGED <<pool, keeper, environ, boot, caller, history>>
  BY DEF CreateServer, Job
<1>4. OnTheBlock' = OnTheBlock /\ grown' = grown /\ spoilt' = spoilt /\ stranded' = stranded
  BY <1>3 DEF OnTheBlock, history
<1>5. /\ job' \in [Provisions -> {"none", "spawned", "creating", "booting", "done"}] /\ job'[w] = "booting"
      /\ \A v \in Provisions \ {w} : job'[v] = job[v]
  BY <1>2, <1>3, JobMoves
<1>6. PoolShape'
  BY <1>1, <1>3, <1>4, <1>5, PoolConsts DEF PoolShape
<1>7. KeeperInv'
  BY <1>1, <1>3, <1>4, <1>5, PoolConsts, KeeperFields DEF KeeperInv, Orderly, JobInv
<1>8. JobInv'
  BY <1>1, <1>3, <1>4, <1>5, PoolConsts DEF JobInv
<1>9. BootInv'
  BY <1>1, <1>3, <1>4, <1>5, PoolConsts DEF BootInv, NoBoot
<1>10. CallInv'
  BY <1>1, <1>3, <1>4, <1>5, PoolConsts DEF CallInv, CallOK, Spent
<1>11. UserInv'
  BY <1>1, <1>3, <1>4, <1>5, PoolConsts DEF UserInv, OneUser, Lives, Keeping
<1>12. UpInv'
  BY <1>1, <1>3, <1>4, <1>5, PoolConsts DEF UpInv
<1>13. KnownInv'
  BY <1>1, <1>3, <1>4, <1>5, PoolConsts DEF KnownInv, Lives, Leaves, Keeping, Spent
<1>14. ColdInv'
  BY <1>1, <1>3, <1>4, <1>5, PoolConsts DEF ColdInv, Spent
<1>15. ServerAlive' \subseteq ServerAlive
  BY <1>1, <1>3, <1>4, <1>5 DEF ServerAlive
<1>16. BoundInv'
  BY <1>1, <1>3, <1>4, <1>5, <1>15, KeeperFields, MaxSizeNat, NoMoreAlive
<1> QED BY <1>6, <1>7, <1>8, <1>9, <1>10, <1>11, <1>12, <1>13, <1>14, <1>16 DEF PoolInv

LEMMA ProvisionFailsInv ==
  ASSUME PoolInv, NEW w \in Provisions, ProvisionFails(w)
  PROVE  PoolInv'
<1>1. PoolShape /\ KeeperInv /\ JobInv /\ BootInv /\ CallInv /\ UserInv /\ UpInv /\ KnownInv
      /\ ColdInv /\ BoundInv
  BY DEF PoolInv
<1>2. PoolShape /\ BoundInv
  BY <1>1
<1>3. /\ job[w] \in {"creating", "booting"} /\ JobTo(w, "done")
      /\ SetRow(w, "gone") \/ UNCHANGED pool
      /\ stranded' = stranded \cup (up \cap {w})
      /\ UNCHANGED <<keeper, up, environ, boot, caller, grown, spoilt>>
  BY DEF ProvisionFails, Job, ErrorDropped
<1>4. OnTheBlock' = OnTheBlock
  BY <1>3 DEF OnTheBlock
<1>5. /\ job' \in [Provisions -> {"none", "spawned", "creating", "booting", "done"}] /\ job'[w] = "done"
      /\ \A v \in Provisions \ {w} : job'[v] = job[v]
  BY <1>2, <1>3, JobMoves
<1>6. /\ pool' \in [Provisions -> RowStates] /\ pool'[w] \in {"gone", pool[w]}
      /\ \A v \in Provisions \ {w} : pool'[v] = pool[v]
  BY <1>2, <1>3, RowMoves DEF RowStates, PoolShape
<1>7. PoolShape'
  BY <1>1, <1>3, <1>4, <1>5, <1>6, PoolConsts DEF PoolShape
<1>8. KeeperInv'
  BY <1>1, <1>3, <1>4, <1>5, <1>6, PoolConsts, KeeperFields DEF KeeperInv, Orderly
<1>9. JobInv'
  BY <1>1, <1>3, <1>4, <1>5, <1>6, PoolConsts DEF JobInv
<1>10. BootInv'
  BY <1>1, <1>3, <1>4, <1>5, <1>6, PoolConsts DEF BootInv, NoBoot
<1>11. CallInv'
  BY <1>1, <1>3, <1>4, <1>5, <1>6, PoolConsts DEF CallInv, CallOK, Spent
<1>12. UserInv'
  BY <1>1, <1>3, <1>4, <1>5, <1>6, PoolConsts DEF UserInv, OneUser, Lives, Keeping, JobInv
<1>13. UpInv'
  BY <1>1, <1>3, <1>4, <1>5, <1>6, PoolConsts DEF UpInv
<1>14. KnownInv'
  BY <1>1, <1>3, <1>4, <1>5, <1>6, PoolConsts DEF KnownInv, Lives, Leaves, Keeping, Spent
<1>15. ColdInv'
  BY <1>1, <1>3, <1>4, <1>5, <1>6, PoolConsts DEF ColdInv, Spent
<1>16. ServerAlive' \subseteq ServerAlive
  BY <1>1, <1>3, <1>4, <1>5, <1>6 DEF ServerAlive
<1>17. BoundInv'
  BY <1>1, <1>3, <1>4, <1>5, <1>6, <1>16, KeeperFields, MaxSizeNat, NoMoreAlive
<1> QED BY <1>7, <1>8, <1>9, <1>10, <1>11, <1>12, <1>13, <1>14, <1>15, <1>17 DEF PoolInv

LEMMA MarkReadyInv ==
  ASSUME PoolInv, NEW w \in Provisions, MarkReady(w)
  PROVE  PoolInv'
<1>1. PoolShape /\ KeeperInv /\ JobInv /\ BootInv /\ CallInv /\ UserInv /\ UpInv /\ KnownInv
      /\ ColdInv /\ BoundInv
  BY DEF PoolInv
<1>2. PoolShape /\ BoundInv
  BY <1>1
<1>3. /\ job[w] = "booting" /\ JobTo(w, "done")
      /\ \/ pool[w] = "warming" /\ SetRow(w, "ready") /\ UNCHANGED stranded
         \/ pool[w] # "warming" /\ UNCHANGED <<pool, stranded>>
         \/ UNCHANGED pool /\ stranded' = stranded \cup (up \cap {w})
      /\ UNCHANGED <<keeper, up, environ, boot, caller, grown, spoilt>>
  BY DEF MarkReady, Job, ErrorDropped
<1>4. /\ OnTheBlock' = OnTheBlock /\ stranded \subseteq stranded'
      /\ stranded' \subseteq stranded \cup (up \cap {w})
  BY <1>3 DEF OnTheBlock
<1>5. /\ job' \in [Provisions -> {"none", "spawned", "creating", "booting", "done"}] /\ job'[w] = "done"
      /\ \A v \in Provisions \ {w} : job'[v] = job[v]
  BY <1>2, <1>3, JobMoves
<1>6. /\ pool' \in [Provisions -> RowStates] /\ \A v \in Provisions \ {w} : pool'[v] = pool[v]
      /\ pool'[w] = pool[w] \/ (pool[w] = "warming" /\ pool'[w] = "ready")
  BY <1>2, <1>3, RowMoves DEF RowStates, PoolShape
<1>7. /\ pool[w] \in {"warming", "gone"}
      /\ pool'[w] # "ready" /\ w \in up => w \in stranded'
  <2>1. pool[w] \in {"warming", "gone"} /\ (pool[w] = "gone" => w \in stranded)
    BY <1>1, <1>3 DEF JobInv
  <2> QED BY <1>2, <1>3, <2>1, RowMoves DEF RowStates
<1>8. PoolShape'
  BY <1>1, <1>3, <1>4, <1>5, <1>6, <1>7, PoolConsts DEF PoolShape
<1>9. KeeperInv'
  BY <1>1, <1>3, <1>4, <1>5, <1>6, <1>7, PoolConsts, KeeperFields DEF KeeperInv, Orderly
<1>10. JobInv'
  BY <1>1, <1>3, <1>4, <1>5, <1>6, <1>7, PoolConsts DEF JobInv
<1>11. BootInv'
  BY <1>1, <1>3, <1>4, <1>5, <1>6, <1>7, PoolConsts DEF BootInv, NoBoot
<1>12. CallInv'
  BY <1>1, <1>3, <1>4, <1>5, <1>6, <1>7, PoolConsts DEF CallInv, CallOK, Spent
<1>13. UserInv'
  BY <1>1, <1>3, <1>4, <1>5, <1>6, <1>7, PoolConsts DEF UserInv, OneUser, Lives, Keeping, JobInv
<1>14. UpInv'
  BY <1>1, <1>3, <1>4, <1>5, <1>6, <1>7, PoolConsts DEF UpInv
<1>15. KnownInv'
  BY <1>1, <1>3, <1>4, <1>5, <1>6, <1>7, PoolConsts DEF KnownInv, Lives, Leaves, Keeping, Spent
<1>16. ColdInv'
  BY <1>1, <1>3, <1>4, <1>5, <1>6, <1>7, PoolConsts DEF ColdInv, Spent
<1>17. ServerAlive' \subseteq ServerAlive
  BY <1>1, <1>3, <1>4, <1>5, <1>6, <1>7 DEF ServerAlive
<1>18. BoundInv'
  BY <1>1, <1>3, <1>4, <1>5, <1>6, <1>7, <1>17, KeeperFields, MaxSizeNat, NoMoreAlive
<1> QED BY <1>8, <1>9, <1>10, <1>11, <1>12, <1>13, <1>14, <1>15, <1>16, <1>18 DEF PoolInv

LEMMA ReadEnvInv ==
  ASSUME PoolInv, NEW c \in Callers, NEW e \in PoolEnvs, StartDestroy(c, e) \/ StartSleep(c, e)
  PROVE  PoolInv'
<1>1. PoolShape /\ KeeperInv /\ JobInv /\ BootInv /\ CallInv /\ UserInv /\ UpInv /\ KnownInv
      /\ ColdInv /\ BoundInv
  BY DEF PoolInv
<1>2. PoolShape /\ BoundInv
  BY <1>1
<1>3. PICK p \in {"d_mark", "s_cloud"} :
         /\ ReadEnv(c, e, p) /\ environ[e].status \notin {"none", "destroyed", "destroying"}
         /\ p = "s_cloud" => environ[e].status = "running"
  BY DEF StartDestroy, StartSleep
<1>4. /\ caller[c].pc = "idle" /\ spoilt' = spoilt \cup Overlap(e)
      /\ UNCHANGED <<pool, job, keeper, up, environ, boot, grown, stranded>>
  BY <1>3 DEF ReadEnv, Calling
<1>5. OnTheBlock' = OnTheBlock
  BY <1>4 DEF OnTheBlock
<1>6. environ[e].server \in PoolServers \cup {Nobody} /\ caller[c].server = Nobody /\ caller[c].env = Nobody
  BY <1>1, <1>4, EnvFields DEF CallInv, CallOK
<1>7. /\ caller' \in [Callers -> CallRows] /\ caller'[c].pc = p
      /\ caller'[c].env = e /\ caller'[c].server = environ[e].server
      /\ \A d \in Callers \ {c} : caller'[d] = caller[d]
  <2> DEFINE b == [pc |-> p, env |-> e, server |-> environ[e].server]
  <2>1. b \in CallRows /\ b.pc = p /\ b.env = e /\ b.server = environ[e].server
    BY <1>6 DEF CallRows
  <2>2. caller' = [caller EXCEPT ![c] = b]
    BY <1>3 DEF ReadEnv
  <2> HIDE DEF b
  <2> QED BY <1>2, <2>1, <2>2 DEF PoolShape
<1>8. /\ spoilt \subseteq spoilt' /\ spoilt' \subseteq PoolServers /\ spoilt' \subseteq spoilt \cup {environ[e].server}
      /\ (\E d \in Callers : caller[d].env = e) => environ[e].server \in spoilt' \cup {Nobody}
  BY <1>2, <1>4, <1>6 DEF Overlap, PoolShape
<1>9. PoolShape'
  BY <1>1, <1>3, <1>4, <1>5, <1>6, <1>7, <1>8, PoolConsts DEF PoolShape
<1>10. KeeperInv'
  BY <1>1, <1>3, <1>4, <1>5, <1>6, <1>7, <1>8, PoolConsts, KeeperFields DEF KeeperInv, Orderly
<1>11. JobInv'
  BY <1>1, <1>3, <1>4, <1>5, <1>6, <1>7, <1>8, PoolConsts DEF JobInv
<1>12. BootInv'
  BY <1>1, <1>3, <1>4, <1>5, <1>6, <1>7, <1>8, PoolConsts DEF BootInv, NoBoot
<1>13. CallInv'
  <2>1. \A d \in Callers : CallOK(d)
    BY <1>1 DEF CallInv
  <2>2. Spent \subseteq Spent' /\ environ[e].status # "none" /\ e # Nobody
    BY <1>3, <1>8, PoolConsts DEF Spent
  <2>3. environ[e].server # Nobody => environ[e].status \in {"running", "sleeping"} /\ boot[e].pc = "done"
    BY <1>1, <1>2, <1>3, EnvFields DEF BootInv
  <2>4. CallOK(c)'
    <3>1. \A d \in Callers : caller'[d].env = e /\ d # c => environ[e].server \in Spent'
      BY <1>7, <1>8 DEF Spent
    <3>2. environ[e].server \in PoolEnvs => environ[e].server = e
      BY <1>1 DEF BootInv
    <3>3. p = "s_cloud" => environ[e].server # Nobody
      BY <1>1, <1>3 DEF BootInv
    <3> QED BY <1>3, <1>4, <1>7, <2>2, <2>3, <3>1, <3>2, <3>3, PoolConsts DEF CallOK, Spent
  <2>5. ASSUME NEW d \in Callers, d # c PROVE CallOK(d)'
    <3>1. caller'[d] = caller[d] /\ CallOK(d)
      BY <1>7, <2>1, <2>5
    <3>2. caller[d].env = e => environ[e].server \in Spent'
      BY <1>8 DEF Spent
    <3>3. \A k \in Callers : k # d /\ caller[d].env # Nobody /\ caller'[k].env = caller[d].env =>
            environ[caller[d].env].server \in Spent'
      BY <1>7, <2>2, <3>1, <3>2 DEF CallOK
    <3> QED BY <1>4, <2>2, <3>1, <3>3 DEF CallOK
  <2> QED BY <2>4, <2>5 DEF CallInv
<1>14. UserInv'
  <2> SUFFICES ASSUME NEW s \in Provisions, s \notin spoilt' PROVE OneUser(s)'
    BY DEF UserInv
  <2>1. OneUser(s)
    BY <1>1, <1>8 DEF UserInv
  <2>2. CASE environ[e].server # s
    BY <1>3, <1>4, <1>5, <1>7, <2>1, <2>2, PoolConsts DEF OneUser, Lives, Keeping
  <2>3. CASE environ[e].server = s
    <3>1. Lives(e, s) /\ \A d \in Callers : caller[d].env # e
      BY <1>1, <1>2, <1>3, <1>8, <2>3, EnvFields, PoolConsts DEF BootInv, Lives
    <3> QED BY <1>3, <1>4, <1>5, <1>7, <2>1, <2>3, <3>1 DEF OneUser, Lives, Keeping
  <2> QED BY <2>2, <2>3
<1>15. UpInv'
  BY <1>1, <1>3, <1>4, <1>5, <1>6, <1>7, <1>8, PoolConsts DEF UpInv
<1>16. KnownInv'
  BY <1>1, <1>3, <1>4, <1>5, <1>6, <1>7, <1>8, PoolConsts DEF KnownInv, Lives, Leaves, Keeping,
     Spent
<1>17. ColdInv'
  BY <1>1, <1>3, <1>4, <1>5, <1>6, <1>7, <1>8, PoolConsts DEF ColdInv, Spent
<1>18. ServerAlive' \subseteq ServerAlive
  BY <1>1, <1>3, <1>4, <1>5, <1>6, <1>7, <1>8 DEF ServerAlive
<1>19. BoundInv'
  BY <1>1, <1>3, <1>4, <1>5, <1>6, <1>7, <1>8, <1>18, KeeperFields, MaxSizeNat, NoMoreAlive
<1> QED BY <1>9, <1>10, <1>11, <1>12, <1>13, <1>14, <1>15, <1>16, <1>17, <1>19 DEF PoolInv

LEMMA MarkDestroyingInv ==
  ASSUME PoolInv, NEW c \in Callers, MarkDestroying(c)
  PROVE  PoolInv'
<1>1. PoolShape /\ KeeperInv /\ JobInv /\ BootInv /\ CallInv /\ UserInv /\ UpInv /\ KnownInv
      /\ ColdInv /\ BoundInv
  BY DEF PoolInv
<1>2. PoolShape /\ BoundInv
  BY <1>1
<1>3. /\ caller[c].pc = "d_mark" /\ Write(c, "destroying")
      /\ CallTo(c, IF caller[c].server = Nobody THEN "d_done" ELSE "d_clean")
      /\ UNCHANGED <<pool, job, keeper, up, boot, history>>
  BY DEF MarkDestroying, Calling
<1>4. OnTheBlock' = OnTheBlock /\ grown' = grown /\ spoilt' = spoilt /\ stranded' = stranded /\ Spent' = Spent
  BY <1>3 DEF OnTheBlock, history, Spent
<1>5. PICK e \in PoolEnvs, s \in PoolServers \cup {Nobody} :
         /\ e = caller[c].env /\ s = caller[c].server /\ environ[e].status # "none"
         /\ s \notin Spent => environ[e].server = s /\ \A d \in Callers : d # c => caller[d].env # e
         /\ s \in Spent => environ[e].server \in Spent
                           /\ \A d \in Callers : caller[d].env = e => caller[d].server \in Spent
         /\ boot[e].pc # "done" => s = Nobody
         /\ s \in PoolEnvs => s = e
  BY <1>1, <1>3, LoneCall, CallFields
<1>6. /\ caller' \in [Callers -> CallRows]
      /\ caller'[c].pc = IF s = Nobody THEN "d_done" ELSE "d_clean"
      /\ caller'[c].env = e /\ caller'[c].server = s
      /\ \A d \in Callers \ {c} : caller'[d] = caller[d]
  BY <1>2, <1>3, <1>5, CallMoves
<1>7. /\ environ' \in [PoolEnvs -> EnvRows] /\ environ'[e].status = "destroying"
      /\ environ'[e].server = s /\ \A f \in PoolEnvs \ {e} : environ'[f] = environ[f]
  BY <1>2, <1>3, <1>5, EnvMoves DEF Write
<1>8. PoolShape'
  BY <1>1, <1>3, <1>4, <1>5, <1>6, <1>7, PoolConsts DEF PoolShape
<1>9. KeeperInv'
  BY <1>1, <1>3, <1>4, <1>5, <1>6, <1>7, PoolConsts, KeeperFields DEF KeeperInv, Orderly
<1>10. JobInv'
  BY <1>1, <1>3, <1>4, <1>5, <1>6, <1>7, PoolConsts DEF JobInv
<1>11. BootInv'
  BY <1>1, <1>3, <1>4, <1>5, <1>6, <1>7, PoolConsts DEF BootInv, NoBoot
<1>12. CallInv'
  BY <1>1, <1>3, <1>4, <1>5, <1>6, <1>7, PoolConsts DEF CallInv, CallOK, Spent
<1>13. UserInv'
  BY <1>1, <1>3, <1>4, <1>5, <1>6, <1>7, PoolConsts DEF UserInv, OneUser, Lives, Keeping
<1>14. UpInv'
  BY <1>1, <1>3, <1>4, <1>5, <1>6, <1>7, PoolConsts DEF UpInv
<1>15. KnownInv'
  BY <1>1, <1>3, <1>4, <1>5, <1>6, <1>7, PoolConsts DEF KnownInv, Lives, Leaves, Keeping, Spent
<1>16. ColdInv'
  BY <1>1, <1>3, <1>4, <1>5, <1>6, <1>7, PoolConsts DEF ColdInv, Spent
<1>17. ServerAlive' \subseteq ServerAlive
  BY <1>1, <1>3, <1>4, <1>5, <1>6, <1>7 DEF ServerAlive
<1>18. BoundInv'
  BY <1>1, <1>3, <1>4, <1>5, <1>6, <1>7, <1>17, KeeperFields, MaxSizeNat, NoMoreAlive
<1> QED BY <1>8, <1>9, <1>10, <1>11, <1>12, <1>13, <1>14, <1>15, <1>16, <1>18 DEF PoolInv

LEMMA CleanServerInv ==
  ASSUME PoolInv, NEW c \in Callers, CleanServer(c)
  PROVE  PoolInv'
<1>1. PoolShape /\ KeeperInv /\ JobInv /\ BootInv /\ CallInv /\ UserInv /\ UpInv /\ KnownInv
      /\ ColdInv /\ BoundInv
  BY DEF PoolInv
<1>2. PoolShape /\ BoundInv
  BY <1>1
<1>3. /\ caller[c].pc = "d_clean" /\ UNCHANGED <<pool, job, keeper, up, environ, boot, history>>
  BY DEF CleanServer, Calling
<1>4. OnTheBlock' = OnTheBlock /\ grown' = grown /\ spoilt' = spoilt /\ stranded' = stranded /\ Spent' = Spent
  BY <1>3 DEF OnTheBlock, history, Spent
<1>5. /\ caller' \in [Callers -> CallRows] /\ caller'[c].pc \in {"d_return", "d_drain"}
      /\ caller'[c].env = caller[c].env /\ caller'[c].server = caller[c].server
      /\ \A d \in Callers \ {c} : caller'[d] = caller[d]
  BY <1>2, CallMoves DEF CleanServer
<1>6. PoolShape'
  BY <1>1, <1>3, <1>4, <1>5, PoolConsts DEF PoolShape
<1>7. KeeperInv'
  BY <1>1, <1>3, <1>4, <1>5, PoolConsts, KeeperFields DEF KeeperInv, Orderly
<1>8. JobInv'
  BY <1>1, <1>3, <1>4, <1>5, PoolConsts DEF JobInv
<1>9. BootInv'
  BY <1>1, <1>3, <1>4, <1>5, PoolConsts DEF BootInv, NoBoot
<1>10. CallInv'
  BY <1>1, <1>3, <1>4, <1>5, PoolConsts DEF CallInv, CallOK, Spent
<1>11. UserInv'
  BY <1>1, <1>3, <1>4, <1>5, PoolConsts DEF UserInv, OneUser, Lives, Keeping
<1>12. UpInv'
  BY <1>1, <1>3, <1>4, <1>5, PoolConsts DEF UpInv
<1>13. KnownInv'
  BY <1>1, <1>3, <1>4, <1>5, PoolConsts DEF KnownInv, Lives, Leaves, Keeping, Spent
<1>14. ColdInv'
  BY <1>1, <1>3, <1>4, <1>5, PoolConsts DEF ColdInv, Spent
<1>15. ServerAlive' \subseteq ServerAlive
  BY <1>1, <1>3, <1>4, <1>5 DEF ServerAlive
<1>16. BoundInv'
  BY <1>1, <1>3, <1>4, <1>5, <1>15, KeeperFields, MaxSizeNat, NoMoreAlive
<1> QED BY <1>6, <1>7, <1>8, <1>9, <1>10, <1>11, <1>12, <1>13, <1>14, <1>16 DEF PoolInv

LEMMA ReturnServerInv ==
  ASSUME PoolInv, NEW c \in Callers, ReturnServer(c)
  PROVE  PoolInv'
<1>1. PoolShape /\ KeeperInv /\ JobInv /\ BootInv /\ CallInv /\ UserInv /\ UpInv /\ KnownInv
      /\ ColdInv /\ BoundInv
  BY DEF PoolInv
<1>2. PoolShape /\ BoundInv
  BY <1>1
<1>3. /\ caller[c].pc = "d_return" /\ CallTo(c, "d_done") /\ UpdateByServer(caller[c].server, "ready")
      /\ grown' = TRUE
      /\ stranded' = IF HasRow(caller[c].server) THEN stranded
                     ELSE stranded \cup (up \cap {caller[c].server})
      /\ spoilt' = spoilt \cup ({caller[c].server} \cap OnTheBlock)
      /\ UNCHANGED <<job, keeper, up, environ, boot>>
  BY DEF ReturnServer, Calling
<1>4. OnTheBlock' = OnTheBlock
  BY <1>3 DEF OnTheBlock
<1>5. PICK e \in PoolEnvs, s \in PoolServers \cup {Nobody} :
         /\ e = caller[c].env /\ s = caller[c].server /\ environ[e].status # "none"
         /\ s \notin Spent => environ[e].server = s /\ \A d \in Callers : d # c => caller[d].env # e
         /\ s \in Spent => environ[e].server \in Spent
                           /\ \A d \in Callers : caller[d].env = e => caller[d].server \in Spent
         /\ boot[e].pc # "done" => s = Nobody
         /\ s \in PoolEnvs => s = e
  BY <1>1, <1>3, LoneCall, CallFields
<1>6. /\ caller' \in [Callers -> CallRows] /\ caller'[c].pc = "d_done"
      /\ caller'[c].env = caller[c].env /\ caller'[c].server = caller[c].server
      /\ \A d \in Callers \ {c} : caller'[d] = caller[d]
  BY <1>2, <1>3, CallMoves
<1>7. /\ s # Nobody
      /\ HasRow(s) => s \in Provisions /\ pool'[s] = "ready"
      /\ ~HasRow(s) => pool' = pool
      /\ pool' \in [Provisions -> RowStates] /\ \A v \in Provisions : v # s => pool'[v] = pool[v]
  BY <1>1, <1>2, <1>3, <1>5, RowMoves DEF UpdateByServer, HasRow, RowStates, PoolShape, CallInv,
     CallOK
<1>8. /\ s \in Provisions => job[s] = "done"
      /\ s \in Provisions \ spoilt => HasRow(s) /\ pool[s] = "assigned"
      /\ s \in Provisions \ spoilt => /\ \A f \in PoolEnvs : boot[f].server # s /\ ~Lives(f, s)
                                     /\ \A d \in Callers : d # c /\ caller[d].server = s => caller[d].pc = "d_done"
  <2>1. s \in Provisions => job[s] = "done"
    BY <1>1, <1>5 DEF JobInv
  <2>2. ASSUME s \in Provisions \ spoilt
        PROVE  /\ HasRow(s) /\ pool[s] = "assigned"
               /\ \A f \in PoolEnvs : boot[f].server # s /\ ~Lives(f, s)
               /\ \A d \in Callers : d # c /\ caller[d].server = s => caller[d].pc = "d_done"
    <3>1. OneUser(s)
      BY <1>1, <2>2 DEF UserInv
    <3>2. environ[e].status = "destroying" /\ s \notin Spent
      BY <1>1, <1>3, <1>5, <1>7, <2>2 DEF CallInv, CallOK, Spent
    <3>3. pool[s] = "assigned" /\ \A d \in Callers : d # c /\ caller[d].server = s => caller[d].pc = "d_done"
      BY <1>3, <1>5, <3>1 DEF OneUser, Keeping
    <3>4. \A f \in PoolEnvs : boot[f].server # s
      BY <1>3, <1>5, <3>1 DEF OneUser
    <3>5. \A f \in PoolEnvs : ~Lives(f, s)
      BY <1>3, <1>5, <3>1, <3>2 DEF OneUser, Lives
    <3> QED BY <2>2, <3>3, <3>4, <3>5 DEF HasRow
  <2> QED BY <2>1, <2>2
<1>9. PoolShape'
  BY <1>1, <1>3, <1>4, <1>5, <1>6, <1>7, <1>8, PoolConsts DEF PoolShape
<1>10. KeeperInv'
  BY <1>1, <1>3, <1>4, <1>5, <1>6, <1>7, <1>8, PoolConsts, KeeperFields DEF KeeperInv, Orderly
<1>11. JobInv'
  BY <1>1, <1>3, <1>4, <1>5, <1>6, <1>7, <1>8, PoolConsts DEF JobInv
<1>12. BootInv'
  BY <1>1, <1>3, <1>4, <1>5, <1>6, <1>7, <1>8, PoolConsts DEF BootInv, NoBoot
<1>13. CallInv'
  BY <1>1, <1>3, <1>4, <1>5, <1>6, <1>7, <1>8, PoolConsts DEF CallInv, CallOK, Spent
<1>14. UserInv'
  BY <1>1, <1>3, <1>4, <1>5, <1>6, <1>7, <1>8, PoolConsts DEF UserInv, OneUser, Lives, Keeping
<1>15. UpInv'
  BY <1>1, <1>3, <1>4, <1>5, <1>6, <1>7, <1>8, PoolConsts DEF UpInv
<1>16. KnownInv'
  BY <1>1, <1>3, <1>4, <1>5, <1>6, <1>7, <1>8, PoolConsts DEF KnownInv, Lives, Leaves, Keeping,
     Spent
<1>17. ColdInv'
  BY <1>1, <1>3, <1>4, <1>5, <1>6, <1>7, <1>8, PoolConsts DEF ColdInv, Spent
<1>18. BoundInv'
  BY <1>3 DEF BoundInv
<1> QED BY <1>9, <1>10, <1>11, <1>12, <1>13, <1>14, <1>15, <1>16, <1>17, <1>18 DEF PoolInv

LEMMA DrainRowInv ==
  ASSUME PoolInv, NEW c \in Callers, caller[c].pc = "d_drain", CallTo(c, "d_cloud"),
         UpdateByServer(caller[c].server, "draining"),
         UNCHANGED <<job, keeper, up, environ, boot, history>>
  PROVE  PoolInv'
<1>1. PoolShape /\ KeeperInv /\ JobInv /\ BootInv /\ CallInv /\ UserInv /\ UpInv /\ KnownInv
      /\ ColdInv /\ BoundInv
  BY DEF PoolInv
<1>2. PoolShape /\ BoundInv
  BY <1>1
<1>3. /\ caller[c].pc = "d_drain" /\ CallTo(c, "d_cloud") /\ UpdateByServer(caller[c].server, "draining")
      /\ UNCHANGED <<job, keeper, up, environ, boot, history>>
  OBVIOUS
<1>4. OnTheBlock' = OnTheBlock /\ grown' = grown /\ spoilt' = spoilt /\ stranded' = stranded /\ Spent' = Spent
  BY <1>3 DEF OnTheBlock, history, Spent
<1>5. PICK e \in PoolEnvs, s \in PoolServers \cup {Nobody} :
         /\ e = caller[c].env /\ s = caller[c].server /\ environ[e].status # "none"
         /\ s \notin Spent => environ[e].server = s /\ \A d \in Callers : d # c => caller[d].env # e
         /\ s \in Spent => environ[e].server \in Spent
                           /\ \A d \in Callers : caller[d].env = e => caller[d].server \in Spent
         /\ boot[e].pc # "done" => s = Nobody
         /\ s \in PoolEnvs => s = e
  BY <1>1, <1>3, LoneCall, CallFields
<1>6. /\ caller' \in [Callers -> CallRows] /\ caller'[c].pc = "d_cloud"
      /\ caller'[c].env = caller[c].env /\ caller'[c].server = caller[c].server
      /\ \A d \in Callers \ {c} : caller'[d] = caller[d]
  BY <1>2, <1>3, CallMoves
<1>7. /\ s # Nobody
      /\ HasRow(s) => s \in Provisions /\ pool'[s] = "draining"
      /\ ~HasRow(s) => pool' = pool
      /\ pool' \in [Provisions -> RowStates] /\ \A v \in Provisions : v # s => pool'[v] = pool[v]
  BY <1>1, <1>2, <1>3, <1>5, RowMoves DEF UpdateByServer, HasRow, RowStates, PoolShape, CallInv,
     CallOK
<1>8. /\ s \in Provisions => job[s] = "done"
      /\ s \in Provisions \ spoilt => HasRow(s) /\ pool[s] = "assigned"
      /\ s \in Provisions \ spoilt => /\ \A f \in PoolEnvs : boot[f].server # s /\ ~Lives(f, s)
                                     /\ \A d \in Callers : d # c /\ caller[d].server = s => caller[d].pc = "d_done"
  <2>1. s \in Provisions => job[s] = "done"
    BY <1>1, <1>5 DEF JobInv
  <2>2. ASSUME s \in Provisions \ spoilt
        PROVE  /\ HasRow(s) /\ pool[s] = "assigned"
               /\ \A f \in PoolEnvs : boot[f].server # s /\ ~Lives(f, s)
               /\ \A d \in Callers : d # c /\ caller[d].server = s => caller[d].pc = "d_done"
    <3>1. OneUser(s)
      BY <1>1, <2>2 DEF UserInv
    <3>2. environ[e].status = "destroying" /\ s \notin Spent
      BY <1>1, <1>3, <1>5, <1>7, <2>2 DEF CallInv, CallOK, Spent
    <3>3. pool[s] = "assigned" /\ \A d \in Callers : d # c /\ caller[d].server = s => caller[d].pc = "d_done"
      BY <1>3, <1>5, <3>1 DEF OneUser, Keeping
    <3>4. \A f \in PoolEnvs : boot[f].server # s
      BY <1>3, <1>5, <3>1 DEF OneUser
    <3>5. \A f \in PoolEnvs : ~Lives(f, s)
      BY <1>3, <1>5, <3>1, <3>2 DEF OneUser, Lives
    <3> QED BY <2>2, <3>3, <3>4, <3>5 DEF HasRow
  <2> QED BY <2>1, <2>2
<1>9. PoolShape'
  BY <1>1, <1>3, <1>4, <1>5, <1>6, <1>7, <1>8, PoolConsts DEF PoolShape
<1>10. KeeperInv'
  BY <1>1, <1>3, <1>4, <1>5, <1>6, <1>7, <1>8, PoolConsts, KeeperFields DEF KeeperInv, Orderly
<1>11. JobInv'
  BY <1>1, <1>3, <1>4, <1>5, <1>6, <1>7, <1>8, PoolConsts DEF JobInv
<1>12. BootInv'
  BY <1>1, <1>3, <1>4, <1>5, <1>6, <1>7, <1>8, PoolConsts DEF BootInv, NoBoot
<1>13. CallInv'
  BY <1>1, <1>3, <1>4, <1>5, <1>6, <1>7, <1>8, PoolConsts DEF CallInv, CallOK, Spent
<1>14. UserInv'
  BY <1>1, <1>3, <1>4, <1>5, <1>6, <1>7, <1>8, PoolConsts DEF UserInv, OneUser, Lives, Keeping
<1>15. UpInv'
  BY <1>1, <1>3, <1>4, <1>5, <1>6, <1>7, <1>8, PoolConsts DEF UpInv
<1>16. KnownInv'
  BY <1>1, <1>3, <1>4, <1>5, <1>6, <1>7, <1>8, PoolConsts DEF KnownInv, Lives, Leaves, Keeping,
     Spent
<1>17. ColdInv'
  BY <1>1, <1>3, <1>4, <1>5, <1>6, <1>7, <1>8, PoolConsts DEF ColdInv, Spent
<1>18. ServerAlive' \subseteq ServerAlive
  BY <1>1, <1>3, <1>4, <1>5, <1>6, <1>7, <1>8 DEF ServerAlive
<1>19. BoundInv'
  BY <1>1, <1>3, <1>4, <1>5, <1>6, <1>7, <1>8, <1>18, KeeperFields, MaxSizeNat, NoMoreAlive
<1> QED BY <1>9, <1>10, <1>11, <1>12, <1>13, <1>14, <1>15, <1>16, <1>17, <1>19 DEF PoolInv

\* the row stays as it is
LEMMA CloudNextInv ==
  ASSUME PoolInv, NEW c \in Callers, caller[c].pc \in {"d_return", "d_drain"}, CallTo(c, "d_cloud"),
         UNCHANGED <<pool, job, keeper, up, environ, boot, history>>
  PROVE  PoolInv'
<1>1. PoolShape /\ KeeperInv /\ JobInv /\ BootInv /\ CallInv /\ UserInv /\ UpInv /\ KnownInv
      /\ ColdInv /\ BoundInv
  BY DEF PoolInv
<1>2. PoolShape /\ BoundInv
  BY <1>1
<1>3. /\ caller[c].pc \in {"d_return", "d_drain"} /\ CallTo(c, "d_cloud")
      /\ UNCHANGED <<pool, job, keeper, up, environ, boot, history>>
  OBVIOUS
<1>4. OnTheBlock' = OnTheBlock /\ grown' = grown /\ spoilt' = spoilt /\ stranded' = stranded /\ Spent' = Spent
  BY <1>3 DEF OnTheBlock, history, Spent
<1>5. PICK e \in PoolEnvs, s \in PoolServers \cup {Nobody} :
         /\ e = caller[c].env /\ s = caller[c].server /\ environ[e].status # "none"
         /\ s \notin Spent => environ[e].server = s /\ \A d \in Callers : d # c => caller[d].env # e
         /\ s \in Spent => environ[e].server \in Spent
                           /\ \A d \in Callers : caller[d].env = e => caller[d].server \in Spent
         /\ boot[e].pc # "done" => s = Nobody
         /\ s \in PoolEnvs => s = e
  BY <1>1, <1>3, LoneCall, CallFields
<1>6. /\ caller' \in [Callers -> CallRows] /\ caller'[c].pc = "d_cloud"
      /\ caller'[c].env = caller[c].env /\ caller'[c].server = caller[c].server
      /\ \A d \in Callers \ {c} : caller'[d] = caller[d]
  BY <1>2, <1>3, CallMoves
<1>7. s # Nobody
  BY <1>1, <1>3, <1>5 DEF CallInv, CallOK
<1>8. /\ s \in Provisions => job[s] = "done"
      /\ s \in Provisions \ spoilt => HasRow(s) /\ pool[s] = "assigned"
      /\ s \in Provisions \ spoilt => /\ \A f \in PoolEnvs : boot[f].server # s /\ ~Lives(f, s)
                                     /\ \A d \in Callers : d # c /\ caller[d].server = s => caller[d].pc = "d_done"
  <2>1. s \in Provisions => job[s] = "done"
    BY <1>1, <1>5 DEF JobInv
  <2>2. ASSUME s \in Provisions \ spoilt
        PROVE  /\ HasRow(s) /\ pool[s] = "assigned"
               /\ \A f \in PoolEnvs : boot[f].server # s /\ ~Lives(f, s)
               /\ \A d \in Callers : d # c /\ caller[d].server = s => caller[d].pc = "d_done"
    <3>1. OneUser(s)
      BY <1>1, <2>2 DEF UserInv
    <3>2. environ[e].status = "destroying" /\ s \notin Spent
      BY <1>1, <1>3, <1>5, <1>7, <2>2 DEF CallInv, CallOK, Spent
    <3>3. pool[s] = "assigned" /\ \A d \in Callers : d # c /\ caller[d].server = s => caller[d].pc = "d_done"
      BY <1>3, <1>5, <3>1 DEF OneUser, Keeping
    <3>4. \A f \in PoolEnvs : boot[f].server # s
      BY <1>3, <1>5, <3>1 DEF OneUser
    <3>5. \A f \in PoolEnvs : ~Lives(f, s)
      BY <1>3, <1>5, <3>1, <3>2 DEF OneUser, Lives
    <3> QED BY <2>2, <3>3, <3>4, <3>5 DEF HasRow
  <2> QED BY <2>1, <2>2
<1>9. PoolShape'
  BY <1>1, <1>3, <1>4, <1>5, <1>6, <1>7, <1>8, PoolConsts DEF PoolShape
<1>10. KeeperInv'
  BY <1>1, <1>3, <1>4, <1>5, <1>6, <1>7, <1>8, PoolConsts, KeeperFields DEF KeeperInv, Orderly
<1>11. JobInv'
  BY <1>1, <1>3, <1>4, <1>5, <1>6, <1>7, <1>8, PoolConsts DEF JobInv
<1>12. BootInv'
  BY <1>1, <1>3, <1>4, <1>5, <1>6, <1>7, <1>8, PoolConsts DEF BootInv, NoBoot
<1>13. CallInv'
  BY <1>1, <1>3, <1>4, <1>5, <1>6, <1>7, <1>8, PoolConsts DEF CallInv, CallOK, Spent
<1>14. UserInv'
  BY <1>1, <1>3, <1>4, <1>5, <1>6, <1>7, <1>8, PoolConsts DEF UserInv, OneUser, Lives, Keeping
<1>15. UpInv'
  BY <1>1, <1>3, <1>4, <1>5, <1>6, <1>7, <1>8, PoolConsts DEF UpInv
<1>16. KnownInv'
  <2> SUFFICES ASSUME NEW x \in (Provisions \cap up) \ (stranded \cup spoilt)
               PROVE  \/ pool[x] \in {"ready", "draining"} \/ job[x] = "booting"
                      \/ \E f \in PoolEnvs : boot[f].server = x \/ Lives(f, x) \/ Leaves(f, x)'
                      \/ \E d \in Callers : caller'[d].server = x /\ caller'[d].pc \in Keeping
    BY <1>3, <1>4 DEF KnownInv, Lives
  <2>1. CASE x = s
    <3>1. x \notin Spent /\ environ[e].status = "destroying" /\ environ[e].server = x
      BY <1>1, <1>3, <1>5, <2>1, PoolConsts DEF CallInv, CallOK, Spent
    <3>2. \A d \in Callers : d # c => caller[d].env # e
      BY <1>5, <2>1, <3>1
    <3>3. Leaves(e, x)'
      BY <1>3, <1>5, <1>6, <3>1, <3>2 DEF Leaves
    <3> QED BY <3>3
  <2>2. CASE x # s
    <3>1. \A f \in PoolEnvs : Leaves(f, x) => Leaves(f, x)'
      BY <1>3, <1>6 DEF Leaves
    <3>2. \A d \in Callers : caller[d].server = x => caller'[d] = caller[d]
      BY <1>5, <1>6, <2>2
    <3> QED BY <1>1, <3>1, <3>2 DEF KnownInv
  <2> QED BY <2>1, <2>2
<1>17. ColdInv'
  BY <1>1, <1>3, <1>4, <1>5, <1>6, <1>7, <1>8, PoolConsts DEF ColdInv, Spent
<1>18. ServerAlive' \subseteq ServerAlive
  BY <1>1, <1>3, <1>4, <1>5, <1>6, <1>7, <1>8 DEF ServerAlive
<1>19. BoundInv'
  BY <1>1, <1>3, <1>4, <1>5, <1>6, <1>7, <1>8, <1>18, KeeperFields, MaxSizeNat, NoMoreAlive
<1> QED BY <1>9, <1>10, <1>11, <1>12, <1>13, <1>14, <1>15, <1>16, <1>17, <1>19 DEF PoolInv

LEMMA DrainServerInv ==
  ASSUME PoolInv, NEW c \in Callers, DrainServer(c) \/ ReturnFails(c)
  PROVE  PoolInv'
<1>1. CASE DrainServer(c)
  <2>1. CASE UpdateByServer(caller[c].server, "draining")
    BY <1>1, <2>1, DrainRowInv DEF DrainServer, Calling
  <2>2. CASE ErrorDropped
    BY <1>1, <2>2, CloudNextInv DEF DrainServer, Calling, ErrorDropped
  <2> QED BY <1>1, <2>1, <2>2 DEF DrainServer
<1>2. CASE ReturnFails(c)
  BY <1>2, CloudNextInv DEF ReturnFails, Calling
<1> QED BY <1>1, <1>2

LEMMA FinishDestroyInv ==
  ASSUME PoolInv, NEW c \in Callers, FinishDestroy(c)
  PROVE  PoolInv'
<1>1. PoolShape /\ KeeperInv /\ JobInv /\ BootInv /\ CallInv /\ UserInv /\ UpInv /\ KnownInv
      /\ ColdInv /\ BoundInv
  BY DEF PoolInv
<1>2. PoolShape /\ BoundInv
  BY <1>1
<1>3. /\ caller[c].pc = "d_done" /\ Write(c, "destroyed") /\ CallEnds(c)
      /\ UNCHANGED <<pool, job, keeper, up, boot, history>>
  BY DEF FinishDestroy, Calling
<1>4. OnTheBlock' = OnTheBlock /\ grown' = grown /\ spoilt' = spoilt /\ stranded' = stranded /\ Spent' = Spent
  BY <1>3 DEF OnTheBlock, history, Spent
<1>5. PICK e \in PoolEnvs, s \in PoolServers \cup {Nobody} :
         /\ e = caller[c].env /\ s = caller[c].server /\ environ[e].status # "none"
         /\ s \notin Spent => environ[e].server = s /\ \A d \in Callers : d # c => caller[d].env # e
         /\ s \in Spent => environ[e].server \in Spent
                           /\ \A d \in Callers : caller[d].env = e => caller[d].server \in Spent
         /\ boot[e].pc # "done" => s = Nobody
         /\ s \in PoolEnvs => s = e
  BY <1>1, <1>3, LoneCall, CallFields
<1>6. /\ caller' \in [Callers -> CallRows] /\ caller'[c].pc = "idle"
      /\ caller'[c].env = Nobody /\ caller'[c].server = Nobody
      /\ \A d \in Callers \ {c} : caller'[d] = caller[d]
  BY <1>2, <1>3, CallOver
<1>7. /\ environ' \in [PoolEnvs -> EnvRows] /\ environ'[e].status = "destroyed"
      /\ environ'[e].server = s /\ \A f \in PoolEnvs \ {e} : environ'[f] = environ[f]
  BY <1>2, <1>3, <1>5, EnvMoves DEF Write
<1>8. PoolShape'
  BY <1>1, <1>3, <1>4, <1>5, <1>6, <1>7, PoolConsts DEF PoolShape
<1>9. KeeperInv'
  BY <1>1, <1>3, <1>4, <1>5, <1>6, <1>7, PoolConsts, KeeperFields DEF KeeperInv, Orderly
<1>10. JobInv'
  BY <1>1, <1>3, <1>4, <1>5, <1>6, <1>7, PoolConsts DEF JobInv
<1>11. BootInv'
  BY <1>1, <1>3, <1>4, <1>5, <1>6, <1>7, PoolConsts DEF BootInv, NoBoot
<1>12. CallInv'
  BY <1>1, <1>3, <1>4, <1>5, <1>6, <1>7, PoolConsts DEF CallInv, CallOK, Spent
<1>13. UserInv'
  BY <1>1, <1>3, <1>4, <1>5, <1>6, <1>7, PoolConsts DEF UserInv, OneUser, Lives, Keeping
<1>14. UpInv'
  BY <1>1, <1>3, <1>4, <1>5, <1>6, <1>7, PoolConsts DEF UpInv
<1>15. KnownInv'
  BY <1>1, <1>3, <1>4, <1>5, <1>6, <1>7, PoolConsts DEF KnownInv, Lives, Leaves, Keeping, Spent,
     CallInv, CallOK
<1>16. ColdInv'
  BY <1>1, <1>3, <1>4, <1>5, <1>6, <1>7, PoolConsts DEF ColdInv, Spent
<1>17. ServerAlive' \subseteq ServerAlive
  BY <1>1, <1>3, <1>4, <1>5, <1>6, <1>7 DEF ServerAlive
<1>18. BoundInv'
  BY <1>1, <1>3, <1>4, <1>5, <1>6, <1>7, <1>17, KeeperFields, MaxSizeNat, NoMoreAlive
<1> QED BY <1>8, <1>9, <1>10, <1>11, <1>12, <1>13, <1>14, <1>15, <1>16, <1>18 DEF PoolInv

LEMMA FinishSleepInv ==
  ASSUME PoolInv, NEW c \in Callers, FinishSleep(c)
  PROVE  PoolInv'
<1>1. PoolShape /\ KeeperInv /\ JobInv /\ BootInv /\ CallInv /\ UserInv /\ UpInv /\ KnownInv
      /\ ColdInv /\ BoundInv
  BY DEF PoolInv
<1>2. PoolShape /\ BoundInv
  BY <1>1
<1>3. /\ caller[c].pc = "s_write" /\ Write(c, "sleeping") /\ CallEnds(c)
      /\ UNCHANGED <<pool, job, keeper, up, boot, history>>
  BY DEF FinishSleep, Calling
<1>4. OnTheBlock' = OnTheBlock /\ grown' = grown /\ spoilt' = spoilt /\ stranded' = stranded /\ Spent' = Spent
  BY <1>3 DEF OnTheBlock, history, Spent
<1>5. PICK e \in PoolEnvs, s \in PoolServers \cup {Nobody} :
         /\ e = caller[c].env /\ s = caller[c].server /\ environ[e].status # "none"
         /\ s \notin Spent => environ[e].server = s /\ \A d \in Callers : d # c => caller[d].env # e
         /\ s \in Spent => environ[e].server \in Spent
                           /\ \A d \in Callers : caller[d].env = e => caller[d].server \in Spent
         /\ boot[e].pc # "done" => s = Nobody
         /\ s \in PoolEnvs => s = e
  BY <1>1, <1>3, LoneCall, CallFields
<1>6. /\ caller' \in [Callers -> CallRows] /\ caller'[c].pc = "idle"
      /\ caller'[c].env = Nobody /\ caller'[c].server = Nobody
      /\ \A d \in Callers \ {c} : caller'[d] = caller[d]
  BY <1>2, <1>3, CallOver
<1>7. /\ environ' \in [PoolEnvs -> EnvRows] /\ environ'[e].status = "sleeping"
      /\ environ'[e].server = s /\ \A f \in PoolEnvs \ {e} : environ'[f] = environ[f]
  BY <1>2, <1>3, <1>5, EnvMoves DEF Write
<1>8. s # Nobody
  BY <1>1, <1>3, <1>5 DEF CallInv, CallOK
<1>9. PoolShape'
  BY <1>1, <1>3, <1>4, <1>5, <1>6, <1>7, <1>8, PoolConsts DEF PoolShape
<1>10. KeeperInv'
  BY <1>1, <1>3, <1>4, <1>5, <1>6, <1>7, <1>8, PoolConsts, KeeperFields DEF KeeperInv, Orderly
<1>11. JobInv'
  BY <1>1, <1>3, <1>4, <1>5, <1>6, <1>7, <1>8, PoolConsts DEF JobInv
<1>12. BootInv'
  BY <1>1, <1>3, <1>4, <1>5, <1>6, <1>7, <1>8, PoolConsts DEF BootInv, NoBoot
<1>13. CallInv'
  BY <1>1, <1>3, <1>4, <1>5, <1>6, <1>7, <1>8, PoolConsts DEF CallInv, CallOK, Spent
<1>14. UserInv'
  BY <1>1, <1>3, <1>4, <1>5, <1>6, <1>7, <1>8, PoolConsts DEF UserInv, OneUser, Lives, Keeping
<1>15. UpInv'
  BY <1>1, <1>3, <1>4, <1>5, <1>6, <1>7, <1>8, PoolConsts DEF UpInv
<1>16. KnownInv'
  BY <1>1, <1>3, <1>4, <1>5, <1>6, <1>7, <1>8, PoolConsts DEF KnownInv, Lives, Leaves, Keeping,
     Spent
<1>17. ColdInv'
  BY <1>1, <1>3, <1>4, <1>5, <1>6, <1>7, <1>8, PoolConsts DEF ColdInv, Spent
<1>18. ServerAlive' \subseteq ServerAlive
  BY <1>1, <1>3, <1>4, <1>5, <1>6, <1>7, <1>8 DEF ServerAlive
<1>19. BoundInv'
  BY <1>1, <1>3, <1>4, <1>5, <1>6, <1>7, <1>8, <1>18, KeeperFields, MaxSizeNat, NoMoreAlive
<1> QED BY <1>9, <1>10, <1>11, <1>12, <1>13, <1>14, <1>15, <1>16, <1>17, <1>19 DEF PoolInv

LEMMA CloudDeletesInv ==
  ASSUME PoolInv, NEW c \in Callers, caller[c].pc = "d_cloud", Deletes(caller[c].server), CallTo(c, "d_done"),
         UNCHANGED <<pool, job, keeper, environ, boot, grown, spoilt>>
  PROVE  PoolInv'
<1>1. PoolShape /\ KeeperInv /\ JobInv /\ BootInv /\ CallInv /\ UserInv /\ UpInv /\ KnownInv
      /\ ColdInv /\ BoundInv
  BY DEF PoolInv
<1>2. PoolShape /\ BoundInv
  BY <1>1
<1>3. /\ caller[c].pc = "d_cloud" /\ caller[c].server \in up
      /\ up' = up \ {caller[c].server} /\ stranded' = stranded \ {caller[c].server}
      /\ UNCHANGED <<pool, job, keeper, environ, boot, grown, spoilt>>
  BY DEF Deletes
<1>4. OnTheBlock' = OnTheBlock /\ Spent' = Spent
  BY <1>3 DEF OnTheBlock, Spent
<1>5. PICK e \in PoolEnvs, s \in PoolServers \cup {Nobody} :
         /\ e = caller[c].env /\ s = caller[c].server /\ environ[e].status # "none"
         /\ s \notin Spent => environ[e].server = s /\ \A d \in Callers : d # c => caller[d].env # e
         /\ s \in Spent => environ[e].server \in Spent
                           /\ \A d \in Callers : caller[d].env = e => caller[d].server \in Spent
         /\ boot[e].pc # "done" => s = Nobody
         /\ s \in PoolEnvs => s = e
  BY <1>1, <1>3, LoneCall, CallFields
<1>6. /\ caller' \in [Callers -> CallRows] /\ caller'[c].pc = "d_done"
      /\ caller'[c].env = caller[c].env /\ caller'[c].server = caller[c].server
      /\ \A d \in Callers \ {c} : caller'[d] = caller[d]
  BY <1>2, CallMoves
<1>7. PoolShape'
  BY <1>1, <1>3, <1>4, <1>5, <1>6, PoolConsts DEF PoolShape
<1>8. KeeperInv'
  BY <1>1, <1>3, <1>4, <1>5, <1>6, PoolConsts, KeeperFields DEF KeeperInv, Orderly
<1>9. JobInv'
  BY <1>1, <1>3, <1>4, <1>5, <1>6, PoolConsts DEF JobInv
<1>10. BootInv'
  BY <1>1, <1>3, <1>4, <1>5, <1>6, PoolConsts DEF BootInv, NoBoot, CallInv, CallOK
<1>11. CallInv'
  BY <1>1, <1>3, <1>4, <1>5, <1>6, PoolConsts DEF CallInv, CallOK, Spent
<1>12. UserInv'
  BY <1>1, <1>3, <1>4, <1>5, <1>6, PoolConsts DEF UserInv, OneUser, Lives, Keeping
<1>13. UpInv'
  <2> SUFFICES ASSUME NEW f \in PoolEnvs, environ[f].status = "running", environ[f].server \notin spoilt,
                      \A d \in Callers : caller'[d].env # f
               PROVE  environ[f].server \in up'
    BY <1>3 DEF UpInv
  <2>1. f # e /\ \A d \in Callers : caller[d].env # f
    BY <1>5, <1>6
  <2>2. environ[f].server \in up
    BY <1>1, <2>1 DEF UpInv
  <2>3. environ[f].server # s
    <3>1. CASE s \in Provisions
      <4>1. Lives(f, environ[f].server)
        BY DEF Lives
      <4> QED BY <1>1, <1>3, <1>5, <2>1, <3>1, <4>1 DEF UserInv, OneUser
    <3>2. CASE s \in PoolEnvs
      BY <1>1, <1>5, <2>1, <3>2 DEF BootInv
    <3>3. CASE s = Nobody
      BY <1>1, <3>3 DEF BootInv
    <3> QED BY <3>1, <3>2, <3>3, PoolConsts
  <2> QED BY <1>3, <1>5, <2>2, <2>3
<1>14. KnownInv'
  BY <1>1, <1>3, <1>4, <1>5, <1>6, PoolConsts DEF KnownInv, Lives, Leaves, Keeping, Spent
<1>15. ColdInv'
  BY <1>1, <1>3, <1>4, <1>5, <1>6, PoolConsts DEF ColdInv, Spent
<1>16. ServerAlive' \subseteq ServerAlive
  BY <1>1, <1>3, <1>4, <1>5, <1>6 DEF ServerAlive
<1>17. BoundInv'
  BY <1>1, <1>3, <1>4, <1>5, <1>6, <1>16, KeeperFields, MaxSizeNat, NoMoreAlive
<1> QED BY <1>7, <1>8, <1>9, <1>10, <1>11, <1>12, <1>13, <1>14, <1>15, <1>17 DEF PoolInv

LEMMA CloudFailsInv ==
  ASSUME PoolInv, NEW c \in Callers, caller[c].pc = "d_cloud", DeleteFails, CallEnds(c),
         UNCHANGED <<pool, job, keeper, environ, boot, grown, spoilt>>
  PROVE  PoolInv'
<1>1. PoolShape /\ KeeperInv /\ JobInv /\ BootInv /\ CallInv /\ UserInv /\ UpInv /\ KnownInv
      /\ ColdInv /\ BoundInv
  BY DEF PoolInv
<1>2. PoolShape /\ BoundInv
  BY <1>1
<1>3. /\ caller[c].pc = "d_cloud" /\ UNCHANGED <<up, stranded>>
      /\ UNCHANGED <<pool, job, keeper, environ, boot, grown, spoilt>>
  BY DEF DeleteFails
<1>4. OnTheBlock' = OnTheBlock /\ Spent' = Spent
  BY <1>3 DEF OnTheBlock, Spent
<1>5. PICK e \in PoolEnvs, s \in PoolServers \cup {Nobody} :
         /\ e = caller[c].env /\ s = caller[c].server /\ environ[e].status # "none"
         /\ s \notin Spent => environ[e].server = s /\ \A d \in Callers : d # c => caller[d].env # e
         /\ s \in Spent => environ[e].server \in Spent
                           /\ \A d \in Callers : caller[d].env = e => caller[d].server \in Spent
         /\ boot[e].pc # "done" => s = Nobody
         /\ s \in PoolEnvs => s = e
  BY <1>1, <1>3, LoneCall, CallFields
<1>6. /\ caller' \in [Callers -> CallRows] /\ caller'[c].pc = "idle"
      /\ caller'[c].env = Nobody /\ caller'[c].server = Nobody
      /\ \A d \in Callers \ {c} : caller'[d] = caller[d]
  BY <1>2, <1>3, CallOver
<1>7. environ[e].server \notin Spent => environ[e].status = "destroying"
  BY <1>1, <1>3, <1>5 DEF CallInv, CallOK
<1>8. PoolShape'
  BY <1>1, <1>3, <1>4, <1>5, <1>6, <1>7, PoolConsts DEF PoolShape
<1>9. KeeperInv'
  BY <1>1, <1>3, <1>4, <1>5, <1>6, <1>7, PoolConsts, KeeperFields DEF KeeperInv, Orderly
<1>10. JobInv'
  BY <1>1, <1>3, <1>4, <1>5, <1>6, <1>7, PoolConsts DEF JobInv
<1>11. BootInv'
  BY <1>1, <1>3, <1>4, <1>5, <1>6, <1>7, PoolConsts DEF BootInv, NoBoot
<1>12. CallInv'
  BY <1>1, <1>3, <1>4, <1>5, <1>6, <1>7, PoolConsts DEF CallInv, CallOK, Spent
<1>13. UserInv'
  BY <1>1, <1>3, <1>4, <1>5, <1>6, <1>7, PoolConsts DEF UserInv, OneUser, Lives, Keeping
<1>14. UpInv'
  BY <1>1, <1>3, <1>4, <1>5, <1>6, <1>7, PoolConsts DEF UpInv, BootInv, Spent
<1>15. KnownInv'
  BY <1>1, <1>3, <1>4, <1>5, <1>6, <1>7, PoolConsts DEF KnownInv, Lives, Leaves, Keeping, Spent
<1>16. ColdInv'
  BY <1>1, <1>3, <1>4, <1>5, <1>6, <1>7, PoolConsts DEF ColdInv, Spent
<1>17. ServerAlive' \subseteq ServerAlive
  BY <1>1, <1>3, <1>4, <1>5, <1>6, <1>7 DEF ServerAlive
<1>18. BoundInv'
  BY <1>1, <1>3, <1>4, <1>5, <1>6, <1>7, <1>17, KeeperFields, MaxSizeNat, NoMoreAlive
<1> QED BY <1>8, <1>9, <1>10, <1>11, <1>12, <1>13, <1>14, <1>15, <1>16, <1>18 DEF PoolInv

LEMMA SleepServerInv ==
  ASSUME PoolInv, NEW c \in Callers, SleepServer(c)
  PROVE  PoolInv'
<1>1. PoolShape /\ KeeperInv /\ JobInv /\ BootInv /\ CallInv /\ UserInv /\ UpInv /\ KnownInv
      /\ ColdInv /\ BoundInv
  BY DEF PoolInv
<1>2. PoolShape /\ BoundInv
  BY <1>1
<1>3. /\ caller[c].pc = "s_cloud" /\ CallTo(c, "s_write")
      /\ UNCHANGED <<pool, job, keeper, environ, boot, grown, spoilt>>
  BY DEF SleepServer, Calling
<1>4. OnTheBlock' = OnTheBlock /\ Spent' = Spent
  BY <1>3 DEF OnTheBlock, Spent
<1>5. PICK e \in PoolEnvs, s \in PoolServers \cup {Nobody} :
         /\ e = caller[c].env /\ s = caller[c].server /\ environ[e].status # "none"
         /\ s \notin Spent => environ[e].server = s /\ \A d \in Callers : d # c => caller[d].env # e
         /\ s \in Spent => environ[e].server \in Spent
                           /\ \A d \in Callers : caller[d].env = e => caller[d].server \in Spent
         /\ boot[e].pc # "done" => s = Nobody
         /\ s \in PoolEnvs => s = e
  BY <1>1, <1>3, LoneCall, CallFields
<1>6. /\ caller' \in [Callers -> CallRows] /\ caller'[c].pc = "s_write"
      /\ caller'[c].env = caller[c].env /\ caller'[c].server = caller[c].server
      /\ \A d \in Callers \ {c} : caller'[d] = caller[d]
  BY <1>2, <1>3, CallMoves
<1>7. /\ up' \in {up, up \ {s}}
      /\ s \in up' => up' = up /\ stranded' = stranded \cup (up \cap {s})
      /\ up' # up => stranded' = stranded \ {s}
      /\ stranded' \subseteq stranded \cup (up \cap {s}) /\ stranded \ {s} \subseteq stranded'
  BY <1>5 DEF SleepServer, Deletes
<1>8. PoolShape'
  BY <1>1, <1>3, <1>4, <1>5, <1>6, <1>7, PoolConsts DEF PoolShape
<1>9. KeeperInv'
  BY <1>1, <1>3, <1>4, <1>5, <1>6, <1>7, PoolConsts, KeeperFields DEF KeeperInv, Orderly
<1>10. JobInv'
  BY <1>1, <1>3, <1>4, <1>5, <1>6, <1>7, PoolConsts DEF JobInv
<1>11. BootInv'
  BY <1>1, <1>3, <1>4, <1>5, <1>6, <1>7, PoolConsts DEF BootInv, NoBoot, CallInv, CallOK
<1>12. CallInv'
  BY <1>1, <1>3, <1>4, <1>5, <1>6, <1>7, PoolConsts DEF CallInv, CallOK, Spent
<1>13. UserInv'
  BY <1>1, <1>3, <1>4, <1>5, <1>6, <1>7, PoolConsts DEF UserInv, OneUser, Lives, Keeping
<1>14. UpInv'
  <2> SUFFICES ASSUME NEW f \in PoolEnvs, environ[f].status = "running", environ[f].server \notin spoilt,
                      \A d \in Callers : caller'[d].env # f
               PROVE  environ[f].server \in up'
    BY <1>3 DEF UpInv
  <2>1. f # e /\ \A d \in Callers : caller[d].env # f
    BY <1>5, <1>6
  <2>2. environ[f].server \in up
    BY <1>1, <2>1 DEF UpInv
  <2>3. environ[f].server # s
    <3>1. CASE s \in Provisions
      <4>1. Lives(f, environ[f].server)
        BY DEF Lives
      <4> QED BY <1>1, <1>3, <1>5, <2>1, <3>1, <4>1 DEF UserInv, OneUser
    <3>2. CASE s \in PoolEnvs
      BY <1>1, <1>5, <2>1, <3>2 DEF BootInv
    <3>3. CASE s = Nobody
      BY <1>1, <3>3 DEF BootInv
    <3> QED BY <3>1, <3>2, <3>3, PoolConsts
  <2> QED BY <1>3, <1>5, <1>7, <2>2, <2>3
<1>15. KnownInv'
  BY <1>1, <1>3, <1>4, <1>5, <1>6, <1>7, PoolConsts DEF KnownInv, Lives, Leaves, Keeping, Spent
<1>16. ColdInv'
  BY <1>1, <1>3, <1>4, <1>5, <1>6, <1>7, PoolConsts DEF ColdInv, Spent
<1>17. ServerAlive' \subseteq ServerAlive
  BY <1>1, <1>3, <1>4, <1>5, <1>6, <1>7 DEF ServerAlive
<1>18. BoundInv'
  BY <1>1, <1>3, <1>4, <1>5, <1>6, <1>7, <1>17, KeeperFields, MaxSizeNat, NoMoreAlive
<1> QED BY <1>8, <1>9, <1>10, <1>11, <1>12, <1>13, <1>14, <1>15, <1>16, <1>18 DEF PoolInv

LEMMA RestartInv ==
  ASSUME PoolInv, Restart
  PROVE  PoolInv'
<1>1. PoolShape /\ KeeperInv /\ JobInv /\ BootInv /\ CallInv /\ UserInv /\ UpInv /\ KnownInv
      /\ ColdInv /\ BoundInv
  BY DEF PoolInv
<1>2. PoolShape /\ BoundInv
  BY <1>1
<1>3. /\ keeper' = Asleep
      /\ job' = [w \in Provisions |-> IF job[w] = "none" THEN "none" ELSE "done"]
      /\ caller' = [c \in Callers |-> NoCall] /\ UNCHANGED <<pool, up, environ, grown>>
  BY DEF Restart
<1>4. /\ boot' \in [PoolEnvs -> BootRows]
      /\ \A e \in PoolEnvs : /\ boot'[e].server = Nobody /\ boot'[e].pc \in {"none", "done"}
                             /\ boot[e].pc = "none" => boot'[e] = NoBoot
                             /\ boot[e].pc # "none" => boot'[e].pc = "done"
  <2> DEFINE none == [NoBoot EXCEPT !.pc = "done"]
  <2>1. NoBoot \in BootRows /\ NoBoot.server = Nobody /\ NoBoot.pc = "none"
    BY DEF BootRows, NoBoot
  <2>2. none \in BootRows /\ none.server = Nobody /\ none.pc = "done"
    BY <2>1 DEF BootRows
  <2>3. boot' = [e \in PoolEnvs |-> IF Booting(e, "none") THEN NoBoot ELSE none]
    BY DEF Restart
  <2> HIDE DEF none
  <2> QED BY <2>1, <2>2, <2>3 DEF Booting
<1>5. /\ Asleep \in KeeperRows /\ Asleep.pc = "asleep" /\ Asleep.doomed = {} /\ Asleep.deleted = Nobody
  BY DEF Asleep, KeeperRows
<1>6. OnTheBlock' = {}
  BY <1>3, <1>5 DEF OnTheBlock
<1>7. /\ caller' \in [Callers -> CallRows]
      /\ \A c \in Callers : caller'[c].pc = "idle" /\ caller'[c].env = Nobody /\ caller'[c].server = Nobody
  <2>1. NoCall \in CallRows /\ NoCall.pc = "idle" /\ NoCall.env = Nobody /\ NoCall.server = Nobody
    BY DEF CallRows, NoCall
  <2> QED BY <1>3, <2>1
<1>8. /\ job' \in [Provisions -> {"none", "spawned", "creating", "booting", "done"}]
      /\ \A w \in Provisions : job'[w] = IF job[w] = "none" THEN "none" ELSE "done"
  BY <1>1, <1>3 DEF PoolShape
<1>9. /\ spoilt' = spoilt \cup ((OnTheBlock \cup InHand) \ {Nobody})
      /\ spoilt' \subseteq PoolServers
  BY <1>1, <1>2, CallFields, KeeperFields, PoolConsts DEF Restart, InHand, PoolShape
<1>10. /\ stranded \subseteq stranded' /\ stranded' \subseteq stranded \cup up
       /\ \A w \in Provisions : w \in up /\ job[w] = "booting" => w \in stranded'
       /\ \A e \in PoolEnvs : boot[e].server \in up => boot[e].server \in stranded'
       /\ \A e \in PoolEnvs : e \in up /\ boot[e].pc = "report" => e \in stranded'
  BY DEF Restart, Booting
<1>11. \A c \in Callers : caller[c].server # Nobody => caller[c].server \in spoilt'
  BY <1>9 DEF InHand
<1>12. PoolShape'
  BY <1>1, <1>3, <1>4, <1>5, <1>6, <1>7, <1>8, <1>9, <1>10, <1>11, PoolConsts DEF PoolShape
<1>13. KeeperInv'
  BY <1>1, <1>3, <1>5, PoolConsts DEF KeeperInv, Orderly, PoolShape
<1>14. JobInv'
  BY <1>1, <1>3, <1>4, <1>5, <1>6, <1>7, <1>8, <1>9, <1>10, <1>11, PoolConsts DEF JobInv
<1>15. BootInv'
  BY <1>1, <1>3, <1>4, <1>5, <1>6, <1>7, <1>8, <1>9, <1>10, <1>11, PoolConsts DEF BootInv, NoBoot,
     NoBoot
<1>16. CallInv'
  BY <1>1, <1>3, <1>4, <1>5, <1>6, <1>7, <1>8, <1>9, <1>10, <1>11, PoolConsts DEF CallInv, CallOK,
     Spent
<1>17. UserInv'
  BY <1>1, <1>3, <1>4, <1>5, <1>6, <1>7, <1>8, <1>9, <1>10, <1>11, PoolConsts DEF UserInv,
     OneUser, Lives, Keeping
<1>18. UpInv'
  BY <1>1, <1>3, <1>4, <1>5, <1>6, <1>7, <1>8, <1>9, <1>10, <1>11, PoolConsts DEF UpInv, CallInv,
     CallOK, BootInv, Spent
<1>19. KnownInv'
  <2> SUFFICES ASSUME NEW s \in Provisions, s \in up, s \notin stranded', s \notin spoilt'
               PROVE  \/ pool[s] \in {"ready", "draining"}
                      \/ \E e \in PoolEnvs : \/ Lives(e, s)
                                             \/ environ[e].status = "destroying" /\ environ[e].server = s
    BY <1>3, <1>7 DEF KnownInv, Lives, Leaves
  <2>1. s \notin stranded /\ s \notin spoilt /\ s # Nobody
    BY <1>9, <1>10, PoolConsts
  <2>2. job[s] # "booting" /\ \A e \in PoolEnvs : boot[e].server # s
    <3>1. job[s] = "booting" => s \in stranded'
      BY <1>10
    <3>2. \A e \in PoolEnvs : boot[e].server \in up => boot[e].server \in stranded'
      BY <1>10
    <3>3. job[s] # "booting"
      BY <3>1
    <3>4. ASSUME NEW e \in PoolEnvs, boot[e].server = s PROVE FALSE
      BY <3>2, <3>4
    <3> QED BY <3>3, <3>4
  <2>3. \A c \in Callers : caller[c].server # s
    BY <1>11, <2>1
  <2> QED BY <1>1, <2>1, <2>2, <2>3 DEF KnownInv, Leaves
<1>20. ColdInv'
  <2>1. \A c \in Callers : caller'[c].pc # "d_done"
    BY <1>7
  <2> SUFFICES ASSUME NEW e \in PoolEnvs, e \in up, e \notin stranded', e \notin spoilt'
               PROVE  environ[e].server = e /\ environ[e].status # "destroyed"
    BY <1>3, <2>1 DEF ColdInv
  <2>2. e \notin stranded /\ boot[e].pc # "report"
    BY <1>10
  <2>3. e \notin spoilt
    BY <1>9
  <2> QED BY <1>1, <2>2, <2>3 DEF ColdInv
<1>21. ServerAlive' \subseteq ServerAlive
  BY <1>1, <1>3, <1>4, <1>5, <1>6, <1>7, <1>8, <1>9, <1>10, <1>11 DEF ServerAlive
<1>22. BoundInv'
  BY <1>1, <1>3, <1>4, <1>5, <1>6, <1>7, <1>8, <1>9, <1>10, <1>11, <1>21, KeeperFields,
     MaxSizeNat, NoMoreAlive
<1> QED BY <1>12, <1>13, <1>14, <1>15, <1>16, <1>17, <1>18, <1>19, <1>20, <1>22 DEF PoolInv

LEMMA AsleepIs ==
  /\ Asleep \in KeeperRows /\ Asleep.pc = "asleep" /\ Asleep.doomed = {} /\ Asleep.deleted = Nobody
  /\ Asleep.total = 0 /\ Asleep.todo = {} /\ Asleep.target = Nobody /\ Asleep.excess = 0
  BY DEF Asleep, KeeperRows

\* from one part of the loop to the next, nothing is listed for destruction that was not
LEMMA OnwardsIs ==
  ASSUME NEW k, k \in KeeperRows, Orderly(k)
  PROVE  /\ Onwards(k) \in KeeperRows /\ Orderly(Onwards(k)) /\ Block(Onwards(k)) = Block(k)
         /\ Onwards(k).pc = "fill" => Onwards(k) = k
<1>1. Nobody \notin Provisions
  BY PoolConsts
<1>2. /\ k.pc \in {"asleep", "fill", "trim", "list", "trimming", "drain", "draining"}
      /\ k.todo \in SUBSET Targets
  BY DEF KeeperRows
<1> DEFINE a == [Asleep EXCEPT !.pc = "trim", !.todo = Targets]
           b == [Asleep EXCEPT !.pc = "trim", !.todo = k.todo]
<1>3. /\ a \in KeeperRows /\ a.pc = "trim" /\ a.doomed = {} /\ a.deleted = Nobody
      /\ b \in KeeperRows /\ b.pc = "trim" /\ b.doomed = {} /\ b.deleted = Nobody
  <2>1. a \in KeeperRows
    BY AsleepIs DEF KeeperRows
  <2>2. b \in KeeperRows
    BY <1>2, AsleepIs DEF KeeperRows
  <2>3. a.pc = "trim" /\ a.doomed = {} /\ a.deleted = Nobody
    BY AsleepIs DEF KeeperRows
  <2>4. b.pc = "trim" /\ b.doomed = {} /\ b.deleted = Nobody
    BY AsleepIs DEF KeeperRows
  <2> QED BY <2>1, <2>2, <2>3, <2>4
<1> HIDE DEF a, b
<1>4. /\ Orderly(a) /\ Orderly(b) /\ Orderly(Asleep)
      /\ Block(a) = {} /\ Block(b) = {} /\ Block(Asleep) = {}
  BY <1>3, AsleepIs DEF Orderly, Block
<1>5. CASE k.pc = "fill" /\ (k.todo = {} \/ k.total >= MaxSize)
  <2>1. Onwards(k) = a /\ Block(k) = {}
    BY <1>5 DEF Onwards, a, Orderly, Block
  <2> QED BY <1>3, <1>4, <2>1
<1>6. CASE k.pc = "trimming" /\ k.doomed = {} /\ k.deleted = Nobody
  <2>1. Onwards(k) = b /\ Block(k) = {}
    BY <1>6 DEF Onwards, b, Block
  <2> QED BY <1>3, <1>4, <2>1
<1>7. CASE k.pc = "draining" /\ k.doomed = {} /\ k.deleted = Nobody
  <2>1. Onwards(k) = Asleep /\ Block(k) = {}
    BY <1>7 DEF Onwards, Block
  <2> QED BY <1>4, <2>1, AsleepIs
<1>8. CASE ~(k.pc = "fill" /\ (k.todo = {} \/ k.total >= MaxSize)) /\ ~(k.pc = "trimming" /\ k.doomed = {} /\ k.deleted = Nobody)
           /\ ~(k.pc = "draining" /\ k.doomed = {} /\ k.deleted = Nobody)
  <2>1. Onwards(k) = k
    BY <1>8 DEF Onwards
  <2> QED BY <2>1
<1> QED BY <1>5, <1>6, <1>7, <1>8

LEMMA OnwardsOrder ==
  ASSUME NEW k, k \in KeeperRows, k.deleted = Nobody
  PROVE  Onwards(k).deleted = Nobody
<1> DEFINE a == [Asleep EXCEPT !.pc = "trim", !.todo = Targets]
           b == [Asleep EXCEPT !.pc = "trim", !.todo = k.todo]
<1>1. a.deleted = Nobody /\ b.deleted = Nobody
  BY AsleepIs DEF KeeperRows
<1>2. Onwards(k) \in {a, b, Asleep, k}
  BY DEF Onwards
<1> HIDE DEF a, b
<1> QED BY <1>1, <1>2, AsleepIs

LEMMA TargetNumbers ==
  ASSUME NEW x \in Targets
  PROVE  PoolTargets[x].min \in Nat /\ PoolTargets[x].max \in Nat
<1>1. PoolConfig.default \in Nat /\ PoolConfig.max \in Nat
  BY PoolAssumption
<1>2. x \in {"small", "medium", "aws_small", "aws_medium"}
  BY PoolAssumption DEF PoolTargets, DefaultPoolTargets
<1>3. CASE x = "small"
  BY <1>1, <1>3 DEF PoolTargets, DefaultPoolTargets, Least
<1>4. CASE x = "medium"
  BY <1>1, <1>4 DEF PoolTargets, DefaultPoolTargets, Least
<1>5. CASE x = "aws_small"
  BY <1>5 DEF PoolTargets, DefaultPoolTargets
<1>6. CASE x = "aws_medium"
  BY <1>6 DEF PoolTargets, DefaultPoolTargets
<1> QED BY <1>2, <1>3, <1>4, <1>5, <1>6

\* the loop changes only what it is about
LEMMA KeeperMoves ==
  ASSUME PoolInv, UNCHANGED <<pool, job, up, environ, boot, caller, spoilt, stranded>>,
         keeper' \in KeeperRows, Orderly(keeper'), keeper'.deleted = Nobody,
         \A w \in Block(keeper') : w \in Block(keeper) \/ pool[w] \in {"ready", "draining"},
         grown' \in BOOLEAN, BoundInv'
  PROVE  PoolInv'
<1>1. PoolShape /\ KeeperInv /\ JobInv /\ BootInv /\ CallInv /\ UserInv /\ UpInv /\ KnownInv
      /\ ColdInv /\ BoundInv
  BY DEF PoolInv
<1>2. /\ OnTheBlock = Block(keeper) /\ OnTheBlock' = Block(keeper')
      /\ Block(keeper') \subseteq Provisions
  BY DEF OnTheBlock, Block, KeeperRows
<1>3. \A w \in OnTheBlock' : w \in OnTheBlock \/ pool[w] \in {"ready", "draining"}
  BY <1>2
<1> HIDE DEF OnTheBlock
<1>4. PoolShape'
  BY <1>1 DEF PoolShape
<1>5. KeeperInv'
  BY <1>1, PoolConsts DEF KeeperInv, PoolShape
<1>6. JobInv'
  BY <1>1, <1>2, <1>3 DEF JobInv, PoolShape
<1>7. BootInv' /\ UpInv' /\ KnownInv' /\ ColdInv'
  BY <1>1 DEF BootInv, UpInv, KnownInv, ColdInv, Lives, Leaves, NoBoot
<1>8. CallInv'
  BY <1>1 DEF CallInv, CallOK, Spent
<1>9. UserInv'
  BY <1>1, <1>3 DEF UserInv, OneUser, Lives
<1> QED BY <1>4, <1>5, <1>6, <1>7, <1>8, <1>9 DEF PoolInv

LEMMA SameAlive ==
  ASSUME PoolInv, UNCHANGED <<pool, job, grown>>, keeper'.pc # "fill"
  PROVE  BoundInv'
<1>1. BoundInv /\ PoolShape
  BY DEF PoolInv
<1>2. ServerAlive' \subseteq ServerAlive
  BY DEF ServerAlive
<1> QED BY <1>1, <1>2, KeeperFields, MaxSizeNat, NoMoreAlive

LEMMA TickInv ==
  ASSUME PoolInv, Tick
  PROVE  PoolInv'
<1>1. PoolShape /\ BoundInv /\ JobInv
  BY DEF PoolInv
<1> DEFINE m == Cardinality(Counted)
<1>0. PICK n \in {0, m} :
        /\ keeper' = Onwards([Asleep EXCEPT !.pc = "fill", !.total = n, !.todo = Targets])
        /\ grown' = \/ grown /\ m > MaxSize
                    \/ n < m
                    \/ \E w \in Provisions : job[w] = "spawned"
  BY DEF Tick
<1> DEFINE k == [Asleep EXCEPT !.pc = "fill", !.total = n, !.todo = Targets]
<1>2. keeper' = Onwards(k) /\ UNCHANGED <<pool, job, up, environ, boot, caller, spoilt, stranded>>
  BY <1>0 DEF Tick
<1>3. m \in Nat /\ n \in Nat /\ Counted \subseteq ServerAlive /\ ServerAlive \subseteq Provisions
  <2>1. Counted \subseteq Provisions /\ Counted \subseteq ServerAlive /\ ServerAlive \subseteq Provisions
    BY DEF Counted, ServerAlive, CountedStatuses
  <2> QED BY <2>1, AliveFinite
<1> HIDE DEF m
<1>4. k \in KeeperRows
  BY <1>3, AsleepIs DEF KeeperRows
<1>5. k.pc = "fill" /\ k.total = n
  BY AsleepIs DEF KeeperRows
<1>6. k.doomed = {} /\ k.deleted = Nobody
  BY AsleepIs DEF KeeperRows
<1> HIDE DEF k
<1>9. Orderly(k) /\ Block(k) = {}
  BY <1>6 DEF Orderly, Block
<1>10. /\ keeper' \in KeeperRows /\ Orderly(keeper') /\ Block(keeper') = {}
       /\ keeper'.deleted = Nobody
       /\ keeper'.pc = "fill" => keeper'.total = n
  BY <1>2, <1>4, <1>5, <1>6, <1>9, OnwardsIs, OnwardsOrder
<1>7. grown' \in BOOLEAN
  BY <1>0
<1>8. BoundInv'
  <2>1. CASE grown'
    BY <2>1 DEF BoundInv
  <2>2. CASE ~grown'
    <3>1. /\ n = m /\ ~(grown /\ m > MaxSize)
          /\ \A w \in Provisions : job[w] # "spawned"
      BY <1>0, <1>3, <2>2
    <3>2. ServerAlive' = Counted /\ ServerAlive = Counted
      BY <1>2, <3>1 DEF ServerAlive, Counted, CountedStatuses
    <3>3. m <= MaxSize /\ Cardinality(ServerAlive') = m
      BY <1>1, <1>3, <3>1, <3>2, MaxSizeNat DEF BoundInv, m
    <3> QED BY <1>3, <1>10, <3>1, <3>3 DEF BoundInv
  <2> QED BY <2>1, <2>2
<1> QED BY <1>2, <1>7, <1>8, <1>10, KeeperMoves

LEMMA CountIdleInv ==
  ASSUME PoolInv, NEW t \in Targets, CountIdle(t)
  PROVE  PoolInv'
<1>1. PoolShape /\ KeeperInv
  BY DEF PoolInv
<1> DEFINE n == Cardinality(Rows(t, {"ready"})) - PoolTargets[t].min
           k == [keeper EXCEPT !.pc = "list", !.todo = @ \ {t}, !.target = t, !.excess = n]
<1>2. /\ keeper.pc = "trim" /\ keeper' = k
      /\ UNCHANGED <<pool, job, up, environ, boot, caller, grown, spoilt, stranded>>
      /\ Cardinality(Rows(t, {"ready"})) > PoolTargets[t].min
  BY DEF CountIdle, Keeper, history
<1>3. n \in Nat
  BY <1>2, TargetNumbers, AliveFinite DEF Rows
<1> HIDE DEF n
<1>4. keeper \in KeeperRows
  BY <1>1 DEF PoolShape
<1>5. k \in KeeperRows
  BY <1>3, <1>4 DEF KeeperRows
<1>6. k.pc = "list" /\ k.doomed = keeper.doomed /\ k.deleted = keeper.deleted
  BY <1>4 DEF KeeperRows
<1> HIDE DEF k
<1>7. keeper.doomed = {} /\ keeper.deleted = Nobody
  BY <1>1, <1>2 DEF KeeperInv, Orderly
<1>8. BoundInv'
  BY <1>2, <1>6, SameAlive
<1>9. grown' \in BOOLEAN
  BY <1>1, <1>2 DEF PoolShape
<1> QED BY <1>2, <1>5, <1>6, <1>7, <1>8, <1>9, KeeperMoves DEF Orderly, Block

LEMMA ListIdleInv ==
  ASSUME PoolInv, ListIdle
  PROVE  PoolInv'
<1>1. PoolShape /\ KeeperInv
  BY DEF PoolInv
<1>2. PICK idle \in SUBSET Rows(keeper.target, {"ready"}) :
        keeper' = Onwards([keeper EXCEPT !.pc = "trimming", !.doomed = idle])
  BY DEF ListIdle
<1> DEFINE k == [keeper EXCEPT !.pc = "trimming", !.doomed = idle]
<1>3. /\ keeper.pc = "list"
      /\ UNCHANGED <<pool, job, up, environ, boot, caller, grown, spoilt, stranded>>
  BY DEF ListIdle, Keeper, history
<1>4. idle \subseteq Provisions /\ \A w \in idle : pool[w] = "ready"
  BY DEF Rows
<1>5. keeper \in KeeperRows /\ keeper.deleted = Nobody
  BY <1>1, <1>3 DEF PoolShape, KeeperInv, Orderly
<1>6. k \in KeeperRows
  BY <1>4, <1>5 DEF KeeperRows
<1>7. k.pc = "trimming" /\ k.doomed = idle /\ k.deleted = Nobody
  BY <1>5 DEF KeeperRows
<1>8. keeper' = Onwards(k)
  BY <1>2
<1> HIDE DEF k
<1>9. Orderly(k) /\ Block(k) = idle
  BY <1>4, <1>7, PoolConsts DEF Orderly, Block
<1>10. /\ Onwards(k) \in KeeperRows /\ Orderly(Onwards(k)) /\ Block(Onwards(k)) = idle
       /\ Onwards(k).pc # "fill"
  BY <1>6, <1>7, <1>9, OnwardsIs
<1>11. Onwards(k).deleted = Nobody
  BY <1>6, <1>7, OnwardsOrder
<1>12. BoundInv'
  BY <1>3, <1>8, <1>10, SameAlive
<1>13. grown' \in BOOLEAN
  BY <1>1, <1>3 DEF PoolShape
<1> QED BY <1>3, <1>4, <1>8, <1>10, <1>11, <1>12, <1>13, KeeperMoves

LEMMA ListDrainingInv ==
  ASSUME PoolInv, ListDraining
  PROVE  PoolInv'
<1>1. PoolShape
  BY DEF PoolInv
<1>11. PICK ds \in SUBSET {w \in Provisions : pool[w] = "draining"} :
         keeper' = Onwards([Asleep EXCEPT !.pc = "draining", !.doomed = ds])
  BY DEF ListDraining
<1> DEFINE k == [Asleep EXCEPT !.pc = "draining", !.doomed = ds]
<1>2. /\ keeper' = Onwards(k)
      /\ UNCHANGED <<pool, job, up, environ, boot, caller, grown, spoilt, stranded>>
  BY <1>11 DEF ListDraining, history
<1>3. ds \subseteq Provisions /\ \A w \in ds : pool[w] = "draining"
  OBVIOUS
<1>4. k \in KeeperRows
  BY <1>3, AsleepIs DEF KeeperRows
<1>5. k.pc = "draining" /\ k.doomed = ds /\ k.deleted = Nobody
  BY AsleepIs DEF KeeperRows
<1> HIDE DEF k
<1>6. Orderly(k) /\ Block(k) = ds
  BY <1>3, <1>5, PoolConsts DEF Orderly, Block
<1>7. /\ Onwards(k) \in KeeperRows /\ Orderly(Onwards(k)) /\ Block(Onwards(k)) = ds
      /\ Onwards(k).pc # "fill"
  BY <1>4, <1>5, <1>6, OnwardsIs
<1>8. Onwards(k).deleted = Nobody
  BY <1>4, <1>5, OnwardsOrder
<1>9. BoundInv'
  BY <1>2, <1>7, SameAlive
<1>10. grown' \in BOOLEAN
  BY <1>1, <1>2 DEF PoolShape
<1> QED BY <1>2, <1>3, <1>7, <1>8, <1>9, <1>10, KeeperMoves

LEMMA DoomedGoesInv ==
  ASSUME PoolInv, NEW w \in Provisions, keeper.pc \in {"trimming", "draining"}, keeper.deleted = Nobody, w \in keeper.doomed, Deletes(w),
         keeper' = [keeper EXCEPT !.doomed = @ \ {w}, !.deleted = w],
         UNCHANGED <<pool, job, environ, boot, caller, grown, spoilt>>
  PROVE  PoolInv'
<1>1. PoolShape /\ KeeperInv /\ JobInv /\ BootInv /\ CallInv /\ UserInv /\ UpInv /\ KnownInv
      /\ ColdInv /\ BoundInv
  BY DEF PoolInv
<1>2. PoolShape /\ BoundInv
  BY <1>1
<1>3. /\ keeper.pc \in {"trimming", "draining"} /\ w \in keeper.doomed /\ up' = up \ {w}
      /\ stranded' = stranded \ {w}
      /\ UNCHANGED <<pool, job, environ, boot, caller, grown, spoilt>>
  BY DEF Deletes
<1>4. /\ keeper' \in KeeperRows /\ keeper'.pc = keeper.pc /\ keeper'.doomed = keeper.doomed \ {w}
      /\ keeper'.deleted = w /\ keeper'.total = keeper.total
  <2>1. keeper \in KeeperRows
    BY <1>2 DEF PoolShape
  <2> DEFINE k == [keeper EXCEPT !.doomed = @ \ {w}, !.deleted = w]
  <2>2. k \in KeeperRows
    BY <2>1 DEF KeeperRows
  <2>3. k.pc = keeper.pc /\ k.doomed = keeper.doomed \ {w} /\ k.deleted = w /\ k.total = keeper.total
    BY <2>1 DEF KeeperRows
  <2> HIDE DEF k
  <2>4. keeper' = k
    BY DEF k
  <2> QED BY <2>2, <2>3, <2>4
<1>5. OnTheBlock' = OnTheBlock /\ w \in OnTheBlock /\ job[w] = "done"
  <2>1. OnTheBlock = keeper.doomed /\ w \in OnTheBlock
    BY <1>3 DEF OnTheBlock
  <2>2. OnTheBlock' = OnTheBlock
    BY <1>3, <1>4, <2>1, PoolConsts DEF OnTheBlock
  <2> QED BY <1>1, <2>1, <2>2 DEF JobInv
<1>6. w \notin spoilt => \A e \in PoolEnvs : ~Lives(e, w)
  BY <1>1, <1>5 DEF UserInv, OneUser
<1>7. PoolShape'
  BY <1>1, <1>3, <1>4, <1>5, <1>6, PoolConsts DEF PoolShape
<1>8. KeeperInv'
  BY <1>1, <1>3, <1>4, <1>5, <1>6, PoolConsts, KeeperFields DEF KeeperInv, Orderly, PoolShape
<1>9. JobInv'
  BY <1>1, <1>3, <1>4, <1>5, <1>6, PoolConsts DEF JobInv
<1>10. BootInv'
  BY <1>1, <1>3, <1>4, <1>5, <1>6, PoolConsts DEF BootInv, NoBoot
<1>11. CallInv'
  BY <1>1, <1>3, <1>4, <1>5, <1>6, PoolConsts DEF CallInv, CallOK, Spent
<1>12. UserInv'
  BY <1>1, <1>3, <1>4, <1>5, <1>6, PoolConsts DEF UserInv, OneUser, Lives, Keeping
<1>13. UpInv'
  BY <1>1, <1>3, <1>4, <1>5, <1>6, PoolConsts DEF UpInv, Lives
<1>14. KnownInv'
  BY <1>1, <1>3, <1>4, <1>5, <1>6, PoolConsts DEF KnownInv, Lives, Leaves, Keeping, Spent
<1>15. ColdInv'
  BY <1>1, <1>3, <1>4, <1>5, <1>6, PoolConsts DEF ColdInv, Spent
<1>16. ServerAlive' \subseteq ServerAlive
  BY <1>1, <1>3, <1>4, <1>5, <1>6 DEF ServerAlive
<1>17. BoundInv'
  BY <1>1, <1>3, <1>4, <1>5, <1>6, <1>16, KeeperFields, MaxSizeNat, NoMoreAlive
<1> QED BY <1>7, <1>8, <1>9, <1>10, <1>11, <1>12, <1>13, <1>14, <1>15, <1>17 DEF PoolInv

LEMMA ForgetDoomedInv ==
  ASSUME PoolInv, ForgetDoomed
  PROVE  PoolInv'
<1>1. PoolShape /\ KeeperInv /\ JobInv /\ BootInv /\ CallInv /\ UserInv /\ UpInv /\ KnownInv
      /\ ColdInv /\ BoundInv
  BY DEF PoolInv
<1>2. PoolShape /\ BoundInv
  BY <1>1
<1>3. PICK w \in Provisions : w = keeper.deleted /\ (SetRow(w, "gone") \/ UNCHANGED pool) /\ w \notin up /\ w \notin keeper.doomed
  BY <1>1, <1>2, KeeperFields DEF ForgetDoomed, ErrorDropped, KeeperInv, Orderly
<1>4. /\ keeper' = Onwards([keeper EXCEPT !.deleted = Nobody])
      /\ UNCHANGED <<job, up, environ, boot, caller, history>>
  BY DEF ForgetDoomed
<1>5. grown' = grown /\ spoilt' = spoilt /\ stranded' = stranded
  BY <1>4 DEF history
<1>6. /\ keeper' \in KeeperRows /\ Orderly(keeper') /\ Block(keeper') = keeper.doomed
      /\ keeper'.pc # "fill" /\ keeper'.deleted = Nobody
  <2> DEFINE k == [keeper EXCEPT !.deleted = Nobody]
  <2>1. keeper \in KeeperRows /\ keeper.pc \in {"trimming", "draining"}
    BY <1>1, <1>3, PoolConsts DEF PoolShape, KeeperInv, Orderly
  <2>2. k \in KeeperRows
    BY <2>1 DEF KeeperRows
  <2>3. k.pc = keeper.pc /\ k.doomed = keeper.doomed /\ k.deleted = Nobody
    BY <2>1 DEF KeeperRows
  <2>4. keeper.doomed \subseteq Provisions
    BY <1>2, KeeperFields
  <2> HIDE DEF k
  <2>5. Orderly(k) /\ Block(k) = keeper.doomed
    BY <2>1, <2>3, <2>4, PoolConsts DEF Orderly, Block
  <2>6. keeper' = Onwards(k)
    BY <1>4 DEF k
  <2> QED BY <2>1, <2>2, <2>3, <2>5, <2>6, OnwardsIs, OnwardsOrder
<1>7. /\ pool' \in [Provisions -> RowStates] /\ pool'[w] \in {"gone", pool[w]}
      /\ \A v \in Provisions \ {w} : pool'[v] = pool[v]
  BY <1>2, <1>3, RowMoves DEF RowStates, PoolShape
<1>8. w \in OnTheBlock /\ OnTheBlock' = keeper.doomed /\ keeper.doomed \subseteq OnTheBlock
  BY <1>3, <1>6, PoolConsts DEF OnTheBlock, Block
<1>9. /\ job[w] = "done" /\ w \notin OnTheBlock'
      /\ w \notin spoilt => pool[w] # "assigned"
  BY <1>1, <1>3, <1>8 DEF JobInv, UserInv, OneUser
<1>10. PoolShape'
  BY <1>1, <1>3, <1>4, <1>5, <1>6, <1>7, <1>8, <1>9, PoolConsts DEF PoolShape
<1>11. KeeperInv'
  BY <1>1, <1>4, <1>6, PoolConsts DEF KeeperInv, PoolShape
<1>12. JobInv'
  BY <1>1, <1>3, <1>4, <1>5, <1>6, <1>7, <1>8, <1>9, PoolConsts DEF JobInv
<1>13. BootInv'
  BY <1>1, <1>3, <1>4, <1>5, <1>6, <1>7, <1>8, <1>9, PoolConsts DEF BootInv, NoBoot
<1>14. CallInv'
  BY <1>1, <1>3, <1>4, <1>5, <1>6, <1>7, <1>8, <1>9, PoolConsts DEF CallInv, CallOK, Spent
<1>15. UserInv'
  BY <1>1, <1>3, <1>4, <1>5, <1>6, <1>7, <1>8, <1>9, PoolConsts DEF UserInv, OneUser, Lives, Keeping
<1>16. UpInv'
  BY <1>1, <1>3, <1>4, <1>5, <1>6, <1>7, <1>8, <1>9, PoolConsts DEF UpInv
<1>17. KnownInv'
  BY <1>1, <1>3, <1>4, <1>5, <1>6, <1>7, <1>8, <1>9, PoolConsts DEF KnownInv, Lives, Leaves,
     Keeping, Spent
<1>18. ColdInv'
  BY <1>1, <1>3, <1>4, <1>5, <1>6, <1>7, <1>8, <1>9, PoolConsts DEF ColdInv, Spent
<1>19. ServerAlive' \subseteq ServerAlive
  BY <1>1, <1>3, <1>4, <1>5, <1>6, <1>7, <1>8, <1>9 DEF ServerAlive
<1>20. BoundInv'
  BY <1>1, <1>3, <1>4, <1>5, <1>6, <1>7, <1>8, <1>9, <1>19, KeeperFields, MaxSizeNat, NoMoreAlive
<1> QED BY <1>10, <1>11, <1>12, <1>13, <1>14, <1>15, <1>16, <1>17, <1>18, <1>20 DEF PoolInv

LEMMA ForgetStaleInv ==
  ASSUME PoolInv, ForgetStale
  PROVE  PoolInv'
<1>1. PoolShape /\ KeeperInv /\ JobInv /\ BootInv /\ CallInv /\ UserInv /\ UpInv /\ KnownInv
      /\ ColdInv /\ BoundInv
  BY DEF PoolInv
<1>2. PoolShape /\ BoundInv
  BY <1>1
<1>3. PICK stale \in SUBSET {w \in Provisions : pool[w] = "warming"} :
         /\ pool' = [w \in Provisions |-> IF w \in stale THEN "gone" ELSE pool[w]]
         /\ stranded' = stranded \cup stale
  BY DEF ForgetStale
<1>4. /\ keeper' = [Asleep EXCEPT !.pc = "drain"] /\ keeper.pc = "trim"
      /\ UNCHANGED <<job, up, environ, boot, caller, grown, spoilt>>
  BY DEF ForgetStale, Keeper
<1>5. keeper' \in KeeperRows /\ keeper'.pc = "drain" /\ keeper'.doomed = {} /\ keeper'.deleted = Nobody
  <2> DEFINE k == [Asleep EXCEPT !.pc = "drain"]
  <2>1. k \in KeeperRows
    BY AsleepIs DEF KeeperRows
  <2>2. k.pc = "drain" /\ k.doomed = {} /\ k.deleted = Nobody
    BY AsleepIs DEF KeeperRows
  <2>3. keeper' = k
    BY <1>4
  <2> HIDE DEF k
  <2> QED BY <2>1, <2>2, <2>3
<1>6. OnTheBlock' = {}
  BY <1>5 DEF OnTheBlock
<1>7. /\ pool' \in [Provisions -> RowStates] /\ \A w \in Provisions \ stale : pool'[w] = pool[w]
      /\ \A w \in stale : pool[w] = "warming" /\ pool'[w] = "gone" /\ w \in stranded'
      /\ stale \subseteq Provisions
  BY <1>1, <1>3 DEF PoolShape, RowStates
<1>8. PoolShape'
  BY <1>1, <1>3, <1>4, <1>5, <1>6, <1>7, PoolConsts DEF PoolShape
<1>9. KeeperInv'
  BY <1>1, <1>4, <1>5, PoolConsts DEF KeeperInv, Orderly, PoolShape
<1>10. JobInv'
  BY <1>1, <1>3, <1>4, <1>5, <1>6, <1>7, PoolConsts DEF JobInv
<1>11. BootInv'
  BY <1>1, <1>3, <1>4, <1>5, <1>6, <1>7, PoolConsts DEF BootInv, NoBoot
<1>12. CallInv'
  BY <1>1, <1>3, <1>4, <1>5, <1>6, <1>7, PoolConsts DEF CallInv, CallOK, Spent
<1>13. UserInv'
  BY <1>1, <1>3, <1>4, <1>5, <1>6, <1>7, PoolConsts DEF UserInv, OneUser, Lives, Keeping
<1>14. UpInv'
  BY <1>1, <1>3, <1>4, <1>5, <1>6, <1>7, PoolConsts DEF UpInv
<1>15. KnownInv'
  BY <1>1, <1>3, <1>4, <1>5, <1>6, <1>7, PoolConsts DEF KnownInv, Lives, Leaves, Keeping, Spent
<1>16. ColdInv'
  BY <1>1, <1>3, <1>4, <1>5, <1>6, <1>7, PoolConsts DEF ColdInv, Spent
<1>17. ServerAlive' \subseteq ServerAlive
  BY <1>1, <1>3, <1>4, <1>5, <1>6, <1>7 DEF ServerAlive
<1>18. BoundInv'
  BY <1>1, <1>3, <1>4, <1>5, <1>6, <1>7, <1>17, KeeperFields, MaxSizeNat, NoMoreAlive
<1> QED BY <1>8, <1>9, <1>10, <1>11, <1>12, <1>13, <1>14, <1>15, <1>16, <1>18 DEF PoolInv

LEMMA DoomedStaysInv ==
  ASSUME PoolInv, NEW w \in Provisions, keeper.pc \in {"trimming", "draining"}, keeper.deleted = Nobody,
         w \in keeper.doomed, DeleteFails, keeper' = Onwards([keeper EXCEPT !.doomed = @ \ {w}]),
         UNCHANGED <<pool, job, environ, boot, caller, grown, spoilt>>
  PROVE  PoolInv'
<1>1. PoolShape
  BY DEF PoolInv
<1> DEFINE k == [keeper EXCEPT !.doomed = @ \ {w}]
<1>2. keeper \in KeeperRows
  BY <1>1 DEF PoolShape
<1>3. k \in KeeperRows
  BY <1>2 DEF KeeperRows
<1>4. k.pc = keeper.pc /\ k.doomed = keeper.doomed \ {w} /\ k.deleted = Nobody
  BY <1>2 DEF KeeperRows
<1>5. keeper' = Onwards(k)
  OBVIOUS
<1> HIDE DEF k
<1>6. Orderly(k) /\ Block(k) \subseteq Block(keeper)
  <2>1. keeper.doomed \subseteq Provisions
    BY <1>1, KeeperFields
  <2> QED BY <1>4, <2>1, PoolConsts DEF Orderly, Block
<1>7. /\ Onwards(k) \in KeeperRows /\ Orderly(Onwards(k)) /\ Block(Onwards(k)) = Block(k)
      /\ Onwards(k).pc # "fill" /\ Onwards(k).deleted = Nobody
  BY <1>3, <1>4, <1>6, OnwardsIs, OnwardsOrder
<1>8. BoundInv'
  BY <1>5, <1>7, SameAlive
<1>9. grown' \in BOOLEAN /\ UNCHANGED <<up, stranded>>
  BY <1>1 DEF PoolShape, DeleteFails
<1> QED BY <1>5, <1>6, <1>7, <1>8, <1>9, KeeperMoves

LEMMA DeficitIs ==
  ASSUME PoolShape, NEW x \in Targets
  PROVE  /\ Deficit(x) \in Nat
         /\ keeper.total <= MaxSize => keeper.total + Deficit(x) <= MaxSize
<1> DEFINE have == Cardinality(Rows(x, CountedStatuses))
           mi == PoolTargets[x].min
           ma == PoolTargets[x].max
<1>1. have \in Nat
  BY AliveFinite DEF Rows
<1>2. mi \in Nat /\ ma \in Nat /\ MaxSize \in Nat /\ keeper.total \in Nat
  BY TargetNumbers, MaxSizeNat, KeeperFields
<1>3. Deficit(x) = IF keeper.total >= MaxSize \/ have >= mi \/ have >= ma
                     THEN 0 ELSE Least(Least(mi, ma) - have, MaxSize - keeper.total)
  BY DEF Deficit
<1> HIDE DEF have, mi, ma
<1> QED BY <1>1, <1>2, <1>3 DEF Least

LEMMA FillInv ==
  ASSUME PoolInv, NEW x \in Targets, Fill(x)
  PROVE  PoolInv'
<1>1. PoolShape /\ KeeperInv /\ JobInv /\ BootInv /\ CallInv /\ UserInv /\ UpInv /\ KnownInv
      /\ ColdInv /\ BoundInv
  BY DEF PoolInv
<1>0. PICK n \in {0, Deficit(x)} :
        /\ keeper' = Onwards([keeper EXCEPT !.total = @ + n, !.todo = @ \ {x}])
        /\ LET free == {w \in Provisions : TargetOf[w] = x /\ job[w] = "none"} IN
           IF PoolTargets[x].provider \in Configured
             THEN \E new \in SUBSET free :
                    /\ Cardinality(new) = Least(n, Cardinality(free))
                    /\ job' = [w \in Provisions |-> IF w \in new THEN "spawned" ELSE job[w]]
             ELSE UNCHANGED job
  BY DEF Fill
<1> DEFINE k == [keeper EXCEPT !.total = @ + n, !.todo = @ \ {x}]
           free == {w \in Provisions : TargetOf[w] = x /\ job[w] = "none"}
<1>2. /\ keeper.pc = "fill" /\ keeper' = Onwards(k)
      /\ UNCHANGED <<pool, up, environ, boot, caller, grown, spoilt, stranded>>
  BY <1>0 DEF Fill, Keeper, history
<1>3. n \in Nat /\ (keeper.total <= MaxSize => keeper.total + n <= MaxSize)
  <2>1. Deficit(x) \in Nat /\ (keeper.total <= MaxSize => keeper.total + Deficit(x) <= MaxSize)
    BY <1>1, DeficitIs
  <2> QED BY <1>1, <2>1, KeeperFields
<1>4. PICK new \in SUBSET free :
        /\ Cardinality(new) <= n
        /\ job' = [w \in Provisions |-> IF w \in new THEN "spawned" ELSE job[w]]
  <2>1. CASE PoolTargets[x].provider \in Configured
    <3>1. PICK new \in SUBSET free :
            /\ Cardinality(new) = Least(n, Cardinality(free))
            /\ job' = [w \in Provisions |-> IF w \in new THEN "spawned" ELSE job[w]]
      BY <1>0, <2>1
    <3>2. Cardinality(free) \in Nat
      BY AliveFinite
    <3>3. Cardinality(new) <= n
      <4> HIDE DEF free
      <4> QED BY <1>3, <3>1, <3>2 DEF Least
    <3> QED BY <3>1, <3>3
  <2>2. CASE PoolTargets[x].provider \notin Configured
    <3>1. job' = job
      BY <1>0, <2>2
    <3>2. job' = [w \in Provisions |-> IF w \in {} THEN "spawned" ELSE job[w]]
      BY <1>1, <3>1 DEF PoolShape
    <3>3. Cardinality({}) = 0
      BY FS_EmptySet
    <3> QED BY <1>3, <3>2, <3>3
  <2> QED BY <2>1, <2>2
<1>5. keeper \in KeeperRows /\ keeper.doomed = {} /\ keeper.deleted = Nobody
  BY <1>1, <1>2 DEF PoolShape, KeeperInv, Orderly
<1>6. k \in KeeperRows
  <2>1. keeper.total + n \in Nat /\ keeper.todo \ {x} \in SUBSET Targets
    BY <1>1, <1>3, KeeperFields
  <2>2. k = [keeper EXCEPT !.total = keeper.total + n, !.todo = keeper.todo \ {x}]
    OBVIOUS
  <2> DEFINE l == keeper.total + n
             r == keeper.todo \ {x}
  <2> HIDE DEF k
  <2>3. k = [keeper EXCEPT !.total = l, !.todo = r]
    BY <2>2
  <2> HIDE DEF l, r
  <2>4. l \in Nat /\ r \in SUBSET Targets
    BY <2>1 DEF l, r
  <2> QED BY <1>5, <2>3, <2>4 DEF KeeperRows
<1>7. k.pc = "fill" /\ k.doomed = {} /\ k.deleted = Nobody /\ k.total = keeper.total + n
  BY <1>2, <1>5 DEF KeeperRows
<1> HIDE DEF k
<1>8. Orderly(k) /\ Block(k) = {}
  BY <1>7 DEF Orderly, Block
<1>9. /\ keeper' \in KeeperRows /\ Orderly(keeper') /\ Block(keeper') = {}
      /\ keeper'.pc = "fill" => keeper' = k
      /\ keeper'.deleted = Nobody
  BY <1>2, <1>6, <1>7, <1>8, OnwardsIs, OnwardsOrder
<1>10. OnTheBlock = {} /\ OnTheBlock' = {}
  BY <1>5, <1>9 DEF OnTheBlock, Block
<1>11. /\ job' \in [Provisions -> {"none", "spawned", "creating", "booting", "done"}]
       /\ \A w \in Provisions : /\ w \in new => job[w] = "none" /\ job'[w] = "spawned"
                                /\ w \notin new => job'[w] = job[w]
  BY <1>1, <1>4 DEF PoolShape
<1>12. PoolShape'
  BY <1>1, <1>2, <1>9, <1>11 DEF PoolShape
<1>13. KeeperInv'
  BY <1>1, <1>2, <1>9, PoolConsts DEF KeeperInv, PoolShape
<1>14. JobInv'
  BY <1>1, <1>2, <1>10, <1>11 DEF JobInv
<1>15. BootInv' /\ UpInv' /\ ColdInv'
  BY <1>1, <1>2 DEF BootInv, UpInv, ColdInv, NoBoot
<1>16. CallInv'
  BY <1>1, <1>2 DEF CallInv, CallOK, Spent
<1>17. UserInv'
  BY <1>1, <1>2, <1>10 DEF UserInv, OneUser, Lives
<1>18. KnownInv'
  BY <1>1, <1>2, <1>11 DEF KnownInv, Lives, Leaves
<1>19. BoundInv'
  <2>1. CASE grown
    BY <1>2, <2>1 DEF BoundInv
  <2>2. CASE ~grown
    <3> DEFINE a == Cardinality(ServerAlive)
               m == Cardinality(new)
               a2 == Cardinality(ServerAlive')
    <3>1. a <= keeper.total /\ keeper.total <= MaxSize
      BY <1>1, <1>2, <2>2 DEF BoundInv
    <3>2. ServerAlive' \subseteq ServerAlive \cup new
      BY <1>2, <1>11 DEF ServerAlive
    <3>3. ServerAlive \subseteq Provisions /\ new \subseteq Provisions /\ ServerAlive' \subseteq Provisions
          /\ ServerAlive \cap new \subseteq Provisions
      BY DEF ServerAlive
    <3>4. IsFiniteSet(ServerAlive) /\ IsFiniteSet(new) /\ a \in Nat /\ m \in Nat /\ a2 \in Nat
          /\ Cardinality(ServerAlive \cap new) \in Nat
      BY <3>3, AliveFinite
    <3>5. IsFiniteSet(ServerAlive \cup new) /\ Cardinality(ServerAlive \cup new) \in Nat
          /\ Cardinality(ServerAlive \cup new) = a + m - Cardinality(ServerAlive \cap new)
      BY <3>4, FS_Union, FS_CardinalityType
    <3>6. a2 <= Cardinality(ServerAlive \cup new)
      BY <3>2, <3>5, FS_Subset
    <3>7. MaxSize \in Nat /\ keeper.total \in Nat
      BY <1>1, MaxSizeNat, KeeperFields
    <3> HIDE DEF a, m, a2
    <3>8. a2 <= keeper.total + n /\ keeper.total + n <= MaxSize
      <4>1. m <= n
        BY <1>4 DEF m
      <4> QED BY <1>3, <3>1, <3>4, <3>5, <3>6, <3>7, <4>1
    <3>9. a2 <= MaxSize
      BY <1>3, <3>4, <3>7, <3>8
    <3>10. keeper'.pc = "fill" => keeper'.total = keeper.total + n
      BY <1>7, <1>9
    <3> QED BY <3>8, <3>9, <3>10 DEF BoundInv, a2
  <2> QED BY <2>1, <2>2
<1> QED BY <1>12, <1>13, <1>14, <1>15, <1>16, <1>17, <1>18, <1>19 DEF PoolInv

LEMMA PoolInitInv == PoolInit => PoolInv
<1> SUFFICES ASSUME PoolInit PROVE PoolInv
  OBVIOUS
<1>1. /\ pool = [w \in Provisions |-> "none"] /\ job = [w \in Provisions |-> "none"]
      /\ keeper = Asleep /\ up = {}
      /\ environ = [e \in PoolEnvs |-> [status |-> "none", server |-> Nobody]]
      /\ boot = [e \in PoolEnvs |-> NoBoot] /\ caller = [c \in Callers |-> NoCall]
      /\ grown = FALSE /\ spoilt = {} /\ stranded = {}
  BY DEF PoolInit
<1>2. /\ NoBoot \in BootRows /\ NoBoot.pc = "none" /\ NoBoot.server = Nobody
      /\ NoCall \in CallRows /\ NoCall.pc = "idle" /\ NoCall.env = Nobody /\ NoCall.server = Nobody
  BY DEF NoBoot, NoCall, BootRows, CallRows
<1>3. /\ \A e \in PoolEnvs : /\ environ[e] \in EnvRows /\ environ[e].status = "none"
                             /\ environ[e].server = Nobody /\ boot[e] = NoBoot
      /\ \A c \in Callers : caller[c] = NoCall
      /\ \A w \in Provisions : pool[w] = "none" /\ job[w] = "none"
      /\ OnTheBlock = {}
  BY <1>1, AsleepIs DEF EnvRows, OnTheBlock
<1>4. PoolShape
  <2>1. /\ pool \in [Provisions -> RowStates]
        /\ job \in [Provisions -> {"none", "spawned", "creating", "booting", "done"}]
    BY <1>1 DEF RowStates
  <2>2. environ \in [PoolEnvs -> EnvRows]
    BY <1>1, <1>3
  <2>3. boot \in [PoolEnvs -> BootRows] /\ caller \in [Callers -> CallRows]
    BY <1>1, <1>2
  <2>4. keeper \in KeeperRows
    BY <1>1, AsleepIs, PoolConsts
  <2>5. grown \in BOOLEAN /\ up \subseteq PoolServers /\ spoilt \subseteq PoolServers
        /\ stranded \subseteq PoolServers
    BY <1>1
  <2> QED BY <2>1, <2>2, <2>3, <2>4, <2>5 DEF PoolShape
<1>5. KeeperInv /\ JobInv
  BY <1>1, <1>2, <1>3, AsleepIs, PoolConsts DEF KeeperInv, Orderly, JobInv
<1>6. BootInv /\ CallInv
  BY <1>1, <1>2, <1>3, PoolConsts DEF BootInv, CallInv, CallOK, Spent
<1>7. UserInv /\ UpInv /\ KnownInv /\ ColdInv
  BY <1>1, <1>2, <1>3, PoolConsts DEF UserInv, OneUser, UpInv, KnownInv, ColdInv, Lives, Leaves,
     Keeping
<1>8. BoundInv
  <2>1. ServerAlive = {}
    BY <1>3 DEF ServerAlive
  <2> QED BY <1>1, <2>1, FS_EmptySet, MaxSizeNat, AsleepIs DEF BoundInv
<1> QED BY <1>4, <1>5, <1>6, <1>7, <1>8 DEF PoolInv

LEMMA KeeperStepInv ==
  ASSUME PoolInv, KeeperStep
  PROVE  PoolInv'
<1>1. ASSUME NEW w \in Provisions, DestroyDoomed(w) PROVE PoolInv'
  <2>1. /\ keeper.pc \in {"trimming", "draining"} /\ keeper.deleted = Nobody /\ w \in keeper.doomed
        /\ UNCHANGED <<pool, job, environ, boot, caller, grown, spoilt>>
    BY <1>1 DEF DestroyDoomed
  <2>2. CASE Deletes(w) /\ keeper' = [keeper EXCEPT !.doomed = @ \ {w}, !.deleted = w]
    BY <2>1, <2>2, DoomedGoesInv
  <2>3. CASE DeleteFails /\ keeper' = Onwards([keeper EXCEPT !.doomed = @ \ {w}])
    BY <2>1, <2>3, DoomedStaysInv
  <2> QED BY <1>1, <2>2, <2>3 DEF DestroyDoomed
<1>2. ASSUME NEW x \in Targets, Fill(x) \/ CountIdle(x) PROVE PoolInv'
  BY <1>2, FillInv, CountIdleInv
<1> QED BY <1>1, <1>2, TickInv, ForgetDoomedInv, ForgetStaleInv, ListDrainingInv, ListIdleInv
        DEF KeeperStep

LEMMA CallStepInv ==
  ASSUME PoolInv, NEW c \in Callers, CallStep(c)
  PROVE  PoolInv'
<1>1. ASSUME NEW e \in PoolEnvs, StartDestroy(c, e) \/ StartSleep(c, e) PROVE PoolInv'
  BY <1>1, ReadEnvInv
<1>2. ASSUME DestroyServer(c) PROVE PoolInv'
  <2>1. /\ caller[c].pc = "d_cloud"
        /\ UNCHANGED <<pool, job, keeper, environ, boot, grown, spoilt>>
    BY <1>2 DEF DestroyServer, Calling
  <2>2. CASE Deletes(caller[c].server) /\ CallTo(c, "d_done")
    BY <2>1, <2>2, CloudDeletesInv
  <2>3. CASE DeleteFails /\ CallEnds(c)
    BY <2>1, <2>3, CloudFailsInv
  <2> QED BY <1>2, <2>2, <2>3 DEF DestroyServer
<1> QED BY <1>1, <1>2, MarkDestroyingInv, CleanServerInv, ReturnServerInv, DrainServerInv,
           FinishDestroyInv, SleepServerInv, FinishSleepInv DEF CallStep

LEMMA PoolNextInv == PoolInv /\ [PoolNext]_poolVars => PoolInv'
<1> SUFFICES ASSUME PoolInv, [PoolNext]_poolVars PROVE PoolInv'
  OBVIOUS
<1>1. CASE UNCHANGED poolVars
  <2>1. UNCHANGED <<pool, job, keeper, up, environ, boot, caller, grown, spoilt, stranded>>
    BY <1>1 DEF poolVars
  <2>2. PoolShape' /\ KeeperInv' /\ BoundInv'
    BY <2>1 DEF PoolInv, PoolShape, KeeperInv, Orderly, BoundInv, ServerAlive
  <2>3. JobInv' /\ BootInv' /\ CallInv'
    BY <2>1 DEF PoolInv, JobInv, OnTheBlock, BootInv, NoBoot, CallInv, CallOK, Spent
  <2>4. UserInv' /\ UpInv' /\ KnownInv' /\ ColdInv'
    BY <2>1 DEF PoolInv, UserInv, OneUser, OnTheBlock, Lives, Leaves, UpInv, KnownInv, ColdInv
  <2> QED BY <2>2, <2>3, <2>4 DEF PoolInv
<1>2. ASSUME NEW w \in Provisions, ProvisionStep(w) PROVE PoolInv'
  <2>1. ASSUME InsertWarming(w) PROVE PoolInv'
    BY <2>1, InsertWarmingInv, InsertFailsInv DEF InsertWarming, Job
  <2> QED BY <1>2, <2>1, CreateServerInv, ProvisionFailsInv, MarkReadyInv DEF ProvisionStep
<1>3. ASSUME NEW e \in PoolEnvs, BootStep(e) PROVE PoolInv'
  BY <1>3, CreatePoolEnvInv, AcquireServerInv, AcquiredUnheardInv, NoneReadyInv, MarkAssignedInv,
     StartWarmInv,
     StartFailsInv, ColdBootInv, ReportColdInv DEF BootStep
<1>4. ASSUME NEW c \in Callers, CallStep(c) PROVE PoolInv'
  BY <1>4, CallStepInv
<1> QED BY <1>1, <1>2, <1>3, <1>4, KeeperStepInv, RestartInv DEF PoolNext

LEMMA PoolInvAlways == PoolSpec => []PoolInv
  BY PoolInitInv, PoolNextInv, PTL DEF PoolSpec

LEMMA PoolInvTypes == PoolInv => PoolTypeOK /\ PoolBounded
<1> SUFFICES ASSUME PoolInv PROVE PoolTypeOK /\ PoolBounded
  OBVIOUS
<1>1. PoolTypeOK
  BY DEF PoolInv, PoolShape, PoolTypeOK, KeeperRows, EnvRows, BootRows, CallRows, RowStates
<1>2. PoolBounded
  BY DEF PoolInv, BoundInv, PoolBounded, ServerAlive
<1> QED BY <1>1, <1>2

LEMMA PoolInvServes == PoolInv => ServesOne
<1> SUFFICES ASSUME PoolInv, NEW e \in PoolEnvs, NEW s, s = environ[e].server,
                    environ[e].status = "running", s \notin spoilt, e \notin {caller[c].env : c \in Callers}
             PROVE  /\ s \in up
                    /\ \A f \in PoolEnvs \ {e} :
                         /\ boot[f].server # s
                         /\ ~(environ[f].status = "running" /\ environ[f].server = s)
                    /\ s \in Provisions => pool[s] \notin {"ready", "draining"}
  BY DEF ServesOne
<1>1. s \in up
  BY DEF PoolInv, UpInv
<1>2. Lives(e, s) /\ s \in PoolServers
  BY EnvFields, PoolConsts DEF Lives, PoolInv, BootInv
<1>3. CASE s \in Provisions
  <2>1. OneUser(s)
    BY <1>3 DEF PoolInv, UserInv
  <2> QED BY <1>1, <1>2, <2>1 DEF OneUser, Lives
<1>4. CASE s \in PoolEnvs
  <2>1. s = e /\ \A f \in PoolEnvs \ {e} : environ[f].server # s
    BY <1>4 DEF PoolInv, BootInv
  <2>2. \A f \in PoolEnvs : boot[f].server # s
    BY <1>4, BootFields, PoolConsts DEF PoolInv
  <2> QED BY <1>1, <1>4, <2>1, <2>2, PoolConsts
<1> QED BY <1>2, <1>3, <1>4, PoolConsts

LEMMA PoolInvAccounts == PoolInv => ServersAccounted
<1> SUFFICES ASSUME PoolInv, NEW s \in up, s \notin stranded, s \notin spoilt
             PROVE  \/ \E e \in PoolEnvs : \/ environ[e].server = s /\ environ[e].status # "destroyed"
                                           \/ boot[e].server = s
                                           \/ Booting(e, "report") /\ e = s
                    \/ s \in Provisions /\ (pool[s] \in {"ready", "draining"} \/ job[s] = "booting")
  BY DEF ServersAccounted
<1>1. s \in PoolServers /\ s # Nobody
  BY PoolConsts DEF PoolInv, PoolShape
<1>2. CASE s \in PoolEnvs
  BY <1>2 DEF PoolInv, ColdInv, Booting
<1>3. CASE s \in Provisions
  <2>1. CASE \E c \in Callers : caller[c].server = s /\ caller[c].pc \in Keeping
    <3>1. PICK c \in Callers : caller[c].server = s /\ caller[c].pc \in Keeping
      BY <2>1
    <3>2. CallOK(c)
      BY DEF PoolInv, CallInv
    <3> DEFINE e == caller[c].env
    <3>3. e \in PoolEnvs /\ environ[e].server = s /\ environ[e].status # "destroyed"
      BY <1>1, <3>1, <3>2 DEF CallOK, Keeping, Spent
    <3> QED BY <3>3
  <2>2. CASE \E e \in PoolEnvs : boot[e].server = s \/ Lives(e, s) \/ Leaves(e, s)
    BY <2>2 DEF Lives, Leaves
  <2>3. CASE pool[s] \in {"ready", "draining"} \/ job[s] = "booting"
    BY <1>3, <2>3
  <2> QED BY <1>3, <2>1, <2>2, <2>3 DEF PoolInv, KnownInv
<1> QED BY <1>1, <1>2, <1>3, PoolConsts

\* Every variable of WarmPool keeps its type, and the pool is no larger than its
\* maximum, unless the count of all of it failed, which the code takes for none, or came
\* before the inserts of an earlier round, or a server was returned (replenish).
THEOREM PoolTypes == PoolSpec => [](PoolTypeOK /\ PoolBounded)
BY PoolInvAlways, PoolInvTypes, PTL

\* A server that runs an environment is that one's alone, whichever callers, providers
\* and clean-ups race for it (AcquireServer, CreateEnvironment, DestroyEnvironment).
THEOREM ServersServeOne == PoolSpec => []ServesOne
BY PoolInvAlways, PoolInvServes, PTL

\* A server that is up at the provider is an environment's, is provisioned or booted, or is
\* in the pool, unless it was given up for a reason the model names (restart, failed
\* provisioning or container start, a row too old, a return without a row, a statement
\* whose error or whose answer was lost).
THEOREM ServersAreAccounted == PoolSpec => []ServersAccounted
BY PoolInvAlways, PoolInvAccounts, PTL

-----------------------------------------------------------------------------
(* TaskRun.                                                                *)

Steps == {"prompt_built", "claude_failed", "claude_done", "auto_commit_created",
          "auto_commit_failed", "push_completed", "push_failed", "pr_created", "pr_failed",
          "task_completed", "task_failed"}
RunRows == [pc : RunPcs, ctx : {"live", "dead"}, ahead : BOOLEAN, pushed : BOOLEAN,
            url : BOOLEAN]
TaskRows == [status : {"pending", "running", "complete", "failed", "cancelled"},
             sha : TaskRuns \cup {NoRun}, pr : BOOLEAN]
RunShape ==
  /\ setup \in [clones : BOOLEAN, ofDefault : BOOLEAN, opensPR : BOOLEAN]
  /\ row \in TaskRows
  /\ remote \in TaskRuns \cup {NoRun} /\ pull \in BOOLEAN
  /\ run \in [TaskRuns -> RunRows]
  /\ made \in [TaskRuns -> SUBSET Works] /\ committed \in [TaskRuns -> SUBSET Works]
  /\ published \in [TaskRuns -> SUBSET Works]
  /\ session \in [TaskRuns -> {"none", "active", "completed", "failed"}]
  /\ bundles \in [TaskRuns -> SUBSET Steps]
  /\ env \in [TaskRuns -> {"none", "up", "gone"}]

\* what "save" writes into the row of a run with a clone
Published(r) ==
  \/ published[r] = made[r]
  \/ run[r].ahead /\ ~run[r].pushed
  \/ ~setup.ofDefault /\ made[r] = {"commits"}
  \/ run[r].pushed /\ made[r] \ published[r] = {"edits"} /\ "commits" \in published[r]

\* the places up to Claude's return, those with a clone after it, and the failures
Opening == {"idle", "gate", "create", "prepare", "session", "prompt", "start_claude", "claude"}
Pushing == {"inspect", "fallback", "push", "pushing", "pr"}
Failing == {"failing", "fail_close", "fail_row"}
Closed == {"fail_row", "cleanup", "done"}

\* what Claude made, what of it is committed, and what is on GitHub, place by place
CloneInv(r) ==
  /\ run[r].pc \in Opening =>
       /\ made[r] = {} /\ committed[r] = {} /\ published[r] = {}
       /\ ~run[r].ahead /\ ~run[r].pushed /\ ~run[r].url
  /\ run[r].pc \in Pushing => setup.clones /\ committed[r] \subseteq made[r]
  /\ run[r].pc \in {"inspect", "fallback"} =>
       committed[r] = made[r] \cap {"commits"} /\ published[r] = {} /\ ~run[r].pushed
  /\ run[r].pc \in {"push", "pushing"} =>
       /\ run[r].ahead /\ ~run[r].pushed
       /\ committed[r] = made[r] \/ committed[r] = {"commits"}
  /\ run[r].pc = "pr" => run[r].pushed
  /\ run[r].pc = "pr" \/ (run[r].pc = "save" /\ setup.clones) => Published(r)
  /\ run[r].pushed => remote = r /\ setup.clones
  /\ run[r].url => pull /\ run[r].pushed /\ run[r].pc \notin Opening \cup Pushing

\* what the row says of the run whose commit it names
RowInv ==
  /\ \A r \in TaskRuns : row.status = "complete" /\ row.sha = r =>
       run[r].pc \in {"tell", "close", "cleanup", "done"} /\ Published(r)
  /\ RequestHasTheCommit /\ (row.pr => row.sha # NoRun)

\* what the bundles of a run tell, and how its session stands
BooksInv(r) ==
  /\ run[r].pc \in Opening \cup Pushing =>
       bundles[r] \cap {"task_completed", "task_failed", "claude_failed", "pr_created"} = {}
  /\ run[r].pc \in {"save", "tell"} =>
       bundles[r] \cap {"task_completed", "task_failed", "claude_failed"} = {}
  /\ run[r].pc = "close" =>
       /\ bundles[r] \cap {"task_failed", "claude_failed"} = {}
       /\ Alive(r) /\ session[r] # "none" => "task_completed" \in bundles[r]
  /\ run[r].pc \in Failing => bundles[r] \cap {"task_completed", "pr_created"} = {}
  /\ run[r].pc = "fail_close" /\ Alive(r) /\ session[r] # "none" => "task_failed" \in bundles[r]
  /\ run[r].pc \notin Closed => session[r] \in {"none", "active"}
  /\ run[r].pc \in Closed /\ session[r] = "active" => ~Alive(r)
  /\ session[r] = "completed" =>
       "task_completed" \in bundles[r] /\ bundles[r] \cap {"task_failed", "claude_failed"} = {}
  /\ session[r] = "failed" =>
       "task_failed" \in bundles[r] /\ bundles[r] \cap {"task_completed", "pr_created"} = {}

RunInv ==
  /\ RunShape /\ RowInv /\ RunsCleanUp
  /\ \A r \in TaskRuns : CloneInv(r) /\ BooksInv(r)
LEMMA RunInitInv == RunInit => RunInv
<1> SUFFICES ASSUME RunInit PROVE RunInv
  OBVIOUS
<1> USE DEF RunInit, Opening, Pushing, Failing, Closed, IdleRun, Blank
<1>1. RunShape
  BY DEF RunShape, RunPcs, RunRows, TaskRows, Works
<1>2. RowInv /\ RunsCleanUp
  BY DEF RowInv, RequestHasTheCommit, RunsCleanUp, RunAt
<1>3. ASSUME NEW r \in TaskRuns PROVE CloneInv(r) /\ BooksInv(r)
  BY DEF CloneInv, BooksInv, Alive, Published
<1> QED BY <1>1, <1>2, <1>3 DEF RunInv

\* what a run's own step does not touch of the others
LEMMA OthersKeep ==
  ASSUME RunInv, NEW q \in TaskRuns, setup' = setup, run'[q] = run[q],
         made'[q] = made[q], committed'[q] = committed[q], published'[q] = published[q],
         session'[q] = session[q], bundles'[q] = bundles[q],
         remote' = remote \/ remote = NoRun, pull => pull'
  PROVE  CloneInv(q)' /\ BooksInv(q)'
<1>1. CloneInv(q) /\ BooksInv(q)
  BY DEF RunInv
<1>2. BooksInv(q)'
  BY <1>1 DEF BooksInv, Alive
<1>3. CloneInv(q)'
  BY <1>1, RunAssumption DEF CloneInv, Published
<1> QED BY <1>2, <1>3

LEMMA Moved ==
  ASSUME RunShape, NEW r \in TaskRuns, NEW c \in RunPcs, RunTo(r, c)
  PROVE  /\ run' \in [TaskRuns -> RunRows] /\ run'[r].pc = c
         /\ \A q \in TaskRuns \ {r} : run'[q] = run[q]
         /\ run'[r].ctx = run[r].ctx /\ run'[r].ahead = run[r].ahead
         /\ run'[r].pushed = run[r].pushed /\ run'[r].url = run[r].url
<1> DEFINE j == [run[r] EXCEPT !.pc = c]
<1>1. run[r] \in RunRows
  BY DEF RunShape
<1>2. /\ j \in RunRows /\ j.pc = c /\ j.ctx = run[r].ctx /\ j.ahead = run[r].ahead
      /\ j.pushed = run[r].pushed /\ j.url = run[r].url
  BY <1>1 DEF RunRows
<1>3. run' = [run EXCEPT ![r] = j]
  BY DEF RunTo
<1> HIDE DEF j
<1> QED BY <1>2, <1>3 DEF RunShape

LEMMA RowFields ==
  ASSUME NEW k \in TaskRows
  PROVE  /\ k.sha \in TaskRuns \cup {NoRun} /\ k.pr \in BOOLEAN
         /\ k.status \in {"pending", "running", "complete", "failed", "cancelled"}
  BY DEF TaskRows

LEMMA LaunchInv ==
  ASSUME RunInv, NEW r \in TaskRuns, Launch(r)
  PROVE  RunInv'
<1> USE RunAssumption DEF Launch, RunAt, git, books, Blank
<1>1. RunShape /\ RowInv /\ RunsCleanUp /\ CloneInv(r) /\ BooksInv(r)
  BY DEF RunInv
<1>2. PICK c \in {"gate"} : RunTo(r, c)
  OBVIOUS
<1>3. {"gate"} \subseteq RunPcs
  BY DEF RunPcs
<1>4. /\ run' \in [TaskRuns -> RunRows]
      /\ \A q \in TaskRuns \ {r} : run'[q] = run[q]
      /\ run'[r].ctx = run[r].ctx /\ run'[r].ahead = run[r].ahead
      /\ run'[r].pushed = run[r].pushed /\ run'[r].url = run[r].url
      /\ run'[r].pc \in {"gate"}
      /\ RunTo(r, "gate") => run'[r].pc = "gate"
  BY <1>1, <1>2, <1>3, Moved
<1>5. row \in TaskRows /\ row' \in TaskRows
  BY <1>1, <1>4 DEF RunShape, TaskRows, RunRows
<1>6. RunShape'
  BY <1>1, <1>4, <1>5 DEF RunShape, Steps
<1>7. ASSUME NEW q \in TaskRuns \ {r} PROVE CloneInv(q)' /\ BooksInv(q)'
  BY <1>1, <1>4, OthersKeep DEF RunShape
<1>8. CloneInv(r)'
  BY <1>1, <1>4 DEF RunShape, CloneInv, Published, Opening, Pushing
<1>9. BooksInv(r)'
  BY <1>1, <1>4 DEF RunShape, BooksInv, Opening, Pushing, Failing, Closed
<1>10. RowInv'
  BY <1>1, <1>4, <1>5, RowFields DEF RunShape, RowInv, RequestHasTheCommit, CloneInv, Published,
     Opening, Pushing
<1>11. RunsCleanUp'
  BY <1>1, <1>4 DEF RunShape, RunsCleanUp
<1> QED BY <1>6, <1>7, <1>8, <1>9, <1>10, <1>11 DEF RunInv

LEMMA ContextDiesInv ==
  ASSUME RunInv, NEW r \in TaskRuns, ContextDies(r)
  PROVE  RunInv'
<1> USE RunAssumption DEF ContextDies, RunAt, git, books, Alive, RunTo
<1>1. RunShape /\ RowInv /\ RunsCleanUp /\ CloneInv(r) /\ BooksInv(r)
  BY DEF RunInv
<1> DEFINE j == [run[r] EXCEPT !.ctx = "dead"]
<1>2. /\ j \in RunRows /\ j.pc = run[r].pc /\ j.ctx = "dead" /\ j.ahead = run[r].ahead
      /\ j.pushed = run[r].pushed /\ j.url = run[r].url
  BY <1>1 DEF RunShape, RunRows
<1>3. run' = [run EXCEPT ![r] = j]
  OBVIOUS
<1> HIDE DEF j
<1>4. /\ run' \in [TaskRuns -> RunRows] /\ \A q \in TaskRuns \ {r} : run'[q] = run[q]
      /\ run'[r].pc = run[r].pc /\ run'[r].ctx = "dead" /\ run'[r].ahead = run[r].ahead
      /\ run'[r].pushed = run[r].pushed /\ run'[r].url = run[r].url
  BY <1>1, <1>2, <1>3 DEF RunShape
<1>5. row \in TaskRows /\ row' \in TaskRows
  BY <1>1, <1>4 DEF RunShape, TaskRows, RunRows
<1>6. RunShape'
  BY <1>1, <1>4, <1>5 DEF RunShape, Steps
<1>7. ASSUME NEW q \in TaskRuns \ {r} PROVE CloneInv(q)' /\ BooksInv(q)'
  BY <1>1, <1>4, OthersKeep DEF RunShape
<1>8. CloneInv(r)'
  BY <1>1, <1>4 DEF RunShape, CloneInv, Published, Opening, Pushing
<1>9. BooksInv(r)'
  BY <1>1, <1>4 DEF RunShape, BooksInv, Opening, Pushing, Failing, Closed
<1>10. RowInv'
  BY <1>1, <1>4, <1>5, RowFields DEF RunShape, RowInv, RequestHasTheCommit, CloneInv, Published,
     Opening, Pushing
<1>11. RunsCleanUp'
  BY <1>1, <1>4 DEF RunShape, RunsCleanUp
<1> QED BY <1>6, <1>7, <1>8, <1>9, <1>10, <1>11 DEF RunInv

LEMMA PassGateInv ==
  ASSUME RunInv, NEW r \in TaskRuns, PassGate(r)
  PROVE  RunInv'
<1> USE RunAssumption DEF PassGate, RunAt, git, books, Fails, Alive
<1>1. RunShape /\ RowInv /\ RunsCleanUp /\ CloneInv(r) /\ BooksInv(r)
  BY DEF RunInv
<1>2. PICK c \in {"create", "failing"} : RunTo(r, c)
  OBVIOUS
<1>3. {"create", "failing"} \subseteq RunPcs
  BY DEF RunPcs
<1>4. /\ run' \in [TaskRuns -> RunRows]
      /\ \A q \in TaskRuns \ {r} : run'[q] = run[q]
      /\ run'[r].ctx = run[r].ctx /\ run'[r].ahead = run[r].ahead
      /\ run'[r].pushed = run[r].pushed /\ run'[r].url = run[r].url
      /\ run'[r].pc \in {"create", "failing"}
      /\ RunTo(r, "create") => run'[r].pc = "create"
      /\ RunTo(r, "failing") => run'[r].pc = "failing"
  BY <1>1, <1>2, <1>3, Moved
<1>5. row \in TaskRows /\ row' \in TaskRows
  BY <1>1, <1>4 DEF RunShape, TaskRows, RunRows
<1>6. RunShape'
  BY <1>1, <1>4, <1>5 DEF RunShape, Steps
<1>7. ASSUME NEW q \in TaskRuns \ {r} PROVE CloneInv(q)' /\ BooksInv(q)'
  BY <1>1, <1>4, OthersKeep DEF RunShape
<1>8. CloneInv(r)'
  BY <1>1, <1>4 DEF RunShape, CloneInv, Published, Opening, Pushing
<1>9. BooksInv(r)'
  BY <1>1, <1>4 DEF RunShape, BooksInv, Opening, Pushing, Failing, Closed
<1>10. RowInv'
  BY <1>1, <1>4, <1>5, RowFields DEF RunShape, RowInv, RequestHasTheCommit, CloneInv, Published,
     Opening, Pushing
<1>11. RunsCleanUp'
  BY <1>1, <1>4 DEF RunShape, RunsCleanUp
<1> QED BY <1>6, <1>7, <1>8, <1>9, <1>10, <1>11 DEF RunInv

LEMMA CreateTaskEnvInv ==
  ASSUME RunInv, NEW r \in TaskRuns, CreateTaskEnv(r)
  PROVE  RunInv'
<1> USE RunAssumption DEF CreateTaskEnv, RunAt, git, books, Fails, Alive
<1>1. RunShape /\ RowInv /\ RunsCleanUp /\ CloneInv(r) /\ BooksInv(r)
  BY DEF RunInv
<1>2. PICK c \in {"prepare", "failing"} : RunTo(r, c)
  OBVIOUS
<1>3. {"prepare", "failing"} \subseteq RunPcs
  BY DEF RunPcs
<1>4. /\ run' \in [TaskRuns -> RunRows]
      /\ \A q \in TaskRuns \ {r} : run'[q] = run[q]
      /\ run'[r].ctx = run[r].ctx /\ run'[r].ahead = run[r].ahead
      /\ run'[r].pushed = run[r].pushed /\ run'[r].url = run[r].url
      /\ run'[r].pc \in {"prepare", "failing"}
      /\ RunTo(r, "prepare") => run'[r].pc = "prepare"
      /\ RunTo(r, "failing") => run'[r].pc = "failing"
  BY <1>1, <1>2, <1>3, Moved
<1>5. row \in TaskRows /\ row' \in TaskRows
  BY <1>1, <1>4 DEF RunShape, TaskRows, RunRows
<1>6. RunShape'
  BY <1>1, <1>4, <1>5 DEF RunShape, Steps
<1>7. ASSUME NEW q \in TaskRuns \ {r} PROVE CloneInv(q)' /\ BooksInv(q)'
  BY <1>1, <1>4, OthersKeep DEF RunShape
<1>8. CloneInv(r)'
  BY <1>1, <1>4 DEF RunShape, CloneInv, Published, Opening, Pushing
<1>9. BooksInv(r)'
  BY <1>1, <1>4 DEF RunShape, BooksInv, Opening, Pushing, Failing, Closed
<1>10. RowInv'
  BY <1>1, <1>4, <1>5, RowFields DEF RunShape, RowInv, RequestHasTheCommit, CloneInv, Published,
     Opening, Pushing
<1>11. RunsCleanUp'
  BY <1>1, <1>4 DEF RunShape, RunsCleanUp
<1> QED BY <1>6, <1>7, <1>8, <1>9, <1>10, <1>11 DEF RunInv

LEMMA PrepareInv ==
  ASSUME RunInv, NEW r \in TaskRuns, Prepare(r)
  PROVE  RunInv'
<1> USE RunAssumption DEF Prepare, RunAt, git, books, Fails, Alive
<1>1. RunShape /\ RowInv /\ RunsCleanUp /\ CloneInv(r) /\ BooksInv(r)
  BY DEF RunInv
<1>2. PICK c \in {"session", "failing"} : RunTo(r, c)
  OBVIOUS
<1>3. {"session", "failing"} \subseteq RunPcs
  BY DEF RunPcs
<1>4. /\ run' \in [TaskRuns -> RunRows]
      /\ \A q \in TaskRuns \ {r} : run'[q] = run[q]
      /\ run'[r].ctx = run[r].ctx /\ run'[r].ahead = run[r].ahead
      /\ run'[r].pushed = run[r].pushed /\ run'[r].url = run[r].url
      /\ run'[r].pc \in {"session", "failing"}
      /\ RunTo(r, "session") => run'[r].pc = "session"
      /\ RunTo(r, "failing") => run'[r].pc = "failing"
  BY <1>1, <1>2, <1>3, Moved
<1>5. row \in TaskRows /\ row' \in TaskRows
  BY <1>1, <1>4 DEF RunShape, TaskRows, RunRows
<1>6. RunShape'
  BY <1>1, <1>4, <1>5 DEF RunShape, Steps
<1>7. ASSUME NEW q \in TaskRuns \ {r} PROVE CloneInv(q)' /\ BooksInv(q)'
  BY <1>1, <1>4, OthersKeep DEF RunShape
<1>8. CloneInv(r)'
  BY <1>1, <1>4 DEF RunShape, CloneInv, Published, Opening, Pushing
<1>9. BooksInv(r)'
  BY <1>1, <1>4 DEF RunShape, BooksInv, Opening, Pushing, Failing, Closed
<1>10. RowInv'
  BY <1>1, <1>4, <1>5, RowFields DEF RunShape, RowInv, RequestHasTheCommit, CloneInv, Published,
     Opening, Pushing
<1>11. RunsCleanUp'
  BY <1>1, <1>4 DEF RunShape, RunsCleanUp
<1> QED BY <1>6, <1>7, <1>8, <1>9, <1>10, <1>11 DEF RunInv

LEMMA StartSessionInv ==
  ASSUME RunInv, NEW r \in TaskRuns, StartSession(r)
  PROVE  RunInv'
<1> USE RunAssumption DEF StartSession, RunAt, git, books, Alive
<1>1. RunShape /\ RowInv /\ RunsCleanUp /\ CloneInv(r) /\ BooksInv(r)
  BY DEF RunInv
<1>2. PICK c \in {"prompt"} : RunTo(r, c)
  OBVIOUS
<1>3. {"prompt"} \subseteq RunPcs
  BY DEF RunPcs
<1>4. /\ run' \in [TaskRuns -> RunRows]
      /\ \A q \in TaskRuns \ {r} : run'[q] = run[q]
      /\ run'[r].ctx = run[r].ctx /\ run'[r].ahead = run[r].ahead
      /\ run'[r].pushed = run[r].pushed /\ run'[r].url = run[r].url
      /\ run'[r].pc \in {"prompt"}
      /\ RunTo(r, "prompt") => run'[r].pc = "prompt"
  BY <1>1, <1>2, <1>3, Moved
<1>5. row \in TaskRows /\ row' \in TaskRows
  BY <1>1, <1>4 DEF RunShape, TaskRows, RunRows
<1>6. RunShape'
  BY <1>1, <1>4, <1>5 DEF RunShape, Steps
<1>7. ASSUME NEW q \in TaskRuns \ {r} PROVE CloneInv(q)' /\ BooksInv(q)'
  BY <1>1, <1>4, OthersKeep DEF RunShape
<1>8. CloneInv(r)'
  BY <1>1, <1>4 DEF RunShape, CloneInv, Published, Opening, Pushing
<1>9. BooksInv(r)'
  BY <1>1, <1>4 DEF RunShape, BooksInv, Opening, Pushing, Failing, Closed
<1>10. RowInv'
  BY <1>1, <1>4, <1>5, RowFields DEF RunShape, RowInv, RequestHasTheCommit, CloneInv, Published,
     Opening, Pushing
<1>11. RunsCleanUp'
  BY <1>1, <1>4 DEF RunShape, RunsCleanUp
<1> QED BY <1>6, <1>7, <1>8, <1>9, <1>10, <1>11 DEF RunInv

LEMMA BuildPromptInv ==
  ASSUME RunInv, NEW r \in TaskRuns, BuildPrompt(r)
  PROVE  RunInv'
<1> USE RunAssumption DEF BuildPrompt, RunAt, git, books, Records, Alive
<1>1. RunShape /\ RowInv /\ RunsCleanUp /\ CloneInv(r) /\ BooksInv(r)
  BY DEF RunInv
<1>2. PICK c \in {"start_claude"} : RunTo(r, c)
  OBVIOUS
<1>3. {"start_claude"} \subseteq RunPcs
  BY DEF RunPcs
<1>4. /\ run' \in [TaskRuns -> RunRows]
      /\ \A q \in TaskRuns \ {r} : run'[q] = run[q]
      /\ run'[r].ctx = run[r].ctx /\ run'[r].ahead = run[r].ahead
      /\ run'[r].pushed = run[r].pushed /\ run'[r].url = run[r].url
      /\ run'[r].pc \in {"start_claude"}
      /\ RunTo(r, "start_claude") => run'[r].pc = "start_claude"
  BY <1>1, <1>2, <1>3, Moved
<1>5. row \in TaskRows /\ row' \in TaskRows
  BY <1>1, <1>4 DEF RunShape, TaskRows, RunRows
<1>6. RunShape'
  BY <1>1, <1>4, <1>5 DEF RunShape, Steps
<1>7. ASSUME NEW q \in TaskRuns \ {r} PROVE CloneInv(q)' /\ BooksInv(q)'
  BY <1>1, <1>4, OthersKeep DEF RunShape
<1>8. CloneInv(r)'
  BY <1>1, <1>4 DEF RunShape, CloneInv, Published, Opening, Pushing
<1>9. BooksInv(r)'
  BY <1>1, <1>4 DEF RunShape, BooksInv, Opening, Pushing, Failing, Closed
<1>10. RowInv'
  BY <1>1, <1>4, <1>5, RowFields DEF RunShape, RowInv, RequestHasTheCommit, CloneInv, Published,
     Opening, Pushing
<1>11. RunsCleanUp'
  BY <1>1, <1>4 DEF RunShape, RunsCleanUp
<1> QED BY <1>6, <1>7, <1>8, <1>9, <1>10, <1>11 DEF RunInv

LEMMA StartClaudeInv ==
  ASSUME RunInv, NEW r \in TaskRuns, StartClaude(r)
  PROVE  RunInv'
<1> USE RunAssumption DEF StartClaude, RunAt, git, books, Fails, Alive
<1>1. RunShape /\ RowInv /\ RunsCleanUp /\ CloneInv(r) /\ BooksInv(r)
  BY DEF RunInv
<1>2. PICK c \in {"claude", "failing"} : RunTo(r, c)
  OBVIOUS
<1>3. {"claude", "failing"} \subseteq RunPcs
  BY DEF RunPcs
<1>4. /\ run' \in [TaskRuns -> RunRows]
      /\ \A q \in TaskRuns \ {r} : run'[q] = run[q]
      /\ run'[r].ctx = run[r].ctx /\ run'[r].ahead = run[r].ahead
      /\ run'[r].pushed = run[r].pushed /\ run'[r].url = run[r].url
      /\ run'[r].pc \in {"claude", "failing"}
      /\ RunTo(r, "claude") => run'[r].pc = "claude"
      /\ RunTo(r, "failing") => run'[r].pc = "failing"
  BY <1>1, <1>2, <1>3, Moved
<1>5. row \in TaskRows /\ row' \in TaskRows
  BY <1>1, <1>4 DEF RunShape, TaskRows, RunRows
<1>6. RunShape'
  BY <1>1, <1>4, <1>5 DEF RunShape, Steps
<1>7. ASSUME NEW q \in TaskRuns \ {r} PROVE CloneInv(q)' /\ BooksInv(q)'
  BY <1>1, <1>4, OthersKeep DEF RunShape
<1>8. CloneInv(r)'
  BY <1>1, <1>4 DEF RunShape, CloneInv, Published, Opening, Pushing
<1>9. BooksInv(r)'
  BY <1>1, <1>4 DEF RunShape, BooksInv, Opening, Pushing, Failing, Closed
<1>10. RowInv'
  BY <1>1, <1>4, <1>5, RowFields DEF RunShape, RowInv, RequestHasTheCommit, CloneInv, Published,
     Opening, Pushing
<1>11. RunsCleanUp'
  BY <1>1, <1>4 DEF RunShape, RunsCleanUp
<1> QED BY <1>6, <1>7, <1>8, <1>9, <1>10, <1>11 DEF RunInv

LEMMA ClaudeReturnsInv ==
  ASSUME RunInv, NEW r \in TaskRuns, ClaudeReturns(r)
  PROVE  RunInv'
<1> USE RunAssumption DEF ClaudeReturns, RunAt, git, books, Fails, Records, Alive, Works
<1>1. RunShape /\ RowInv /\ RunsCleanUp /\ CloneInv(r) /\ BooksInv(r)
  BY DEF RunInv
<1>2. PICK c \in {"failing", "inspect", "save"} : RunTo(r, c)
  OBVIOUS
<1>3. {"failing", "inspect", "save"} \subseteq RunPcs
  BY DEF RunPcs
<1>4. /\ run' \in [TaskRuns -> RunRows]
      /\ \A q \in TaskRuns \ {r} : run'[q] = run[q]
      /\ run'[r].ctx = run[r].ctx /\ run'[r].ahead = run[r].ahead
      /\ run'[r].pushed = run[r].pushed /\ run'[r].url = run[r].url
      /\ run'[r].pc \in {"failing", "inspect", "save"}
      /\ RunTo(r, "failing") => run'[r].pc = "failing"
      /\ RunTo(r, "inspect") => run'[r].pc = "inspect"
      /\ RunTo(r, "save") => run'[r].pc = "save"
  BY <1>1, <1>2, <1>3, Moved
<1>5. row \in TaskRows /\ row' \in TaskRows
  BY <1>1, <1>4 DEF RunShape, TaskRows, RunRows
<1>6. RunShape'
  BY <1>1, <1>4, <1>5 DEF RunShape, Steps
<1>7. ASSUME NEW q \in TaskRuns \ {r} PROVE CloneInv(q)' /\ BooksInv(q)'
  BY <1>1, <1>4, OthersKeep DEF RunShape
<1>8. CloneInv(r)'
  BY <1>1, <1>4 DEF RunShape, CloneInv, Published, Opening, Pushing
<1>9. BooksInv(r)'
  BY <1>1, <1>4 DEF RunShape, BooksInv, Opening, Pushing, Failing, Closed
<1>10. RowInv'
  BY <1>1, <1>4, <1>5, RowFields DEF RunShape, RowInv, RequestHasTheCommit, CloneInv, Published,
     Opening, Pushing
<1>11. RunsCleanUp'
  BY <1>1, <1>4 DEF RunShape, RunsCleanUp
<1> QED BY <1>6, <1>7, <1>8, <1>9, <1>10, <1>11 DEF RunInv

LEMMA InspectGitStateInv ==
  ASSUME RunInv, NEW r \in TaskRuns, InspectGitState(r)
  PROVE  RunInv'
<1> USE RunAssumption DEF InspectGitState, RunAt, git, books, Fails, Alive, SeesCommits, Dirty, Works
<1>1. RunShape /\ RowInv /\ RunsCleanUp /\ CloneInv(r) /\ BooksInv(r)
  BY DEF RunInv
<1> DEFINE to == IF SeesCommits(r) THEN "push" ELSE IF Dirty(r) THEN "fallback" ELSE "save"
           j == [run[r] EXCEPT !.ahead = SeesCommits(r), !.pc = to]
<1>2. SeesCommits(r) \in BOOLEAN /\ to \in RunPcs
  BY <1>1 DEF RunPcs, RunShape
<1>3. run[r] \in RunRows
  BY <1>1 DEF RunShape
<1> HIDE DEF SeesCommits, Dirty
<1>12. /\ j \in RunRows /\ j.pc = to /\ j.ahead = SeesCommits(r)
       /\ j.ctx = run[r].ctx /\ j.pushed = run[r].pushed /\ j.url = run[r].url
  BY <1>2, <1>3 DEF RunRows
<1>13. run' = [run EXCEPT ![r] = j] \/ RunTo(r, "failing")
  OBVIOUS
<1> HIDE DEF j
<1>14. "failing" \in RunPcs
  BY DEF RunPcs
<1>4. /\ run' \in [TaskRuns -> RunRows] /\ \A q \in TaskRuns \ {r} : run'[q] = run[q]
      /\ run'[r].ctx = run[r].ctx /\ run'[r].pushed = run[r].pushed /\ run'[r].url = run[r].url
      /\ \/ run'[r].pc = to /\ run'[r].ahead = SeesCommits(r)
         \/ run'[r].pc = "failing" /\ run'[r].ahead = run[r].ahead
  BY <1>1, <1>12, <1>13, <1>14, Moved DEF RunShape
<1> USE DEF SeesCommits, Dirty
<1>5. row \in TaskRows /\ row' \in TaskRows
  BY <1>1, <1>4 DEF RunShape, TaskRows, RunRows
<1>6. RunShape'
  BY <1>1, <1>4, <1>5 DEF RunShape, Steps
<1>7. ASSUME NEW q \in TaskRuns \ {r} PROVE CloneInv(q)' /\ BooksInv(q)'
  BY <1>1, <1>4, OthersKeep DEF RunShape
<1>15. committed[r] = made[r] \cap {"commits"} /\ published[r] = {} /\ ~run[r].pushed
       /\ made[r] \subseteq Works /\ setup.clones /\ ~run[r].url
  BY <1>1 DEF CloneInv, RunShape, Pushing
<1>8. CloneInv(r)'
  <2>1. CASE SeesCommits(r) /\ run'[r].pc = "push" /\ run'[r].ahead
    BY <1>1, <1>4, <1>15, <2>1 DEF CloneInv, Published, Opening, Pushing
  <2>2. CASE ~SeesCommits(r) /\ run'[r].pc = "fallback"
    BY <1>1, <1>4, <1>15, <2>2 DEF CloneInv, Published, Opening, Pushing
  <2>3. CASE ~SeesCommits(r) /\ ~Dirty(r) /\ run'[r].pc = "save"
    <3>1. published[r] = made[r] \/ (~setup.ofDefault /\ made[r] = {"commits"})
      BY <1>15, <2>3
    <3> QED BY <1>1, <1>4, <1>15, <2>3, <3>1 DEF CloneInv, Published, Opening, Pushing
  <2>4. CASE run'[r].pc = "failing"
    BY <1>1, <1>4, <1>15, <2>4 DEF CloneInv, Published, Opening, Pushing
  <2> QED BY <1>4, <2>1, <2>2, <2>3, <2>4
<1>9. BooksInv(r)'
  BY <1>1, <1>4 DEF RunShape, BooksInv, Opening, Pushing, Failing, Closed
<1>10. RowInv'
  BY <1>1, <1>4, <1>5, RowFields DEF RunShape, RowInv, RequestHasTheCommit, CloneInv, Published,
     Opening, Pushing
<1>11. RunsCleanUp'
  BY <1>1, <1>4 DEF RunShape, RunsCleanUp
<1> QED BY <1>6, <1>7, <1>8, <1>9, <1>10, <1>11 DEF RunInv

LEMMA FallbackCommitInv ==
  ASSUME RunInv, NEW r \in TaskRuns, FallbackCommit(r)
  PROVE  RunInv'
<1> USE RunAssumption DEF FallbackCommit, RunAt, git, books, Fails, Records, Alive, Works
<1>1. RunShape /\ RowInv /\ RunsCleanUp /\ CloneInv(r) /\ BooksInv(r)
  BY DEF RunInv
<1> DEFINE j == [run[r] EXCEPT !.ahead = TRUE, !.pc = "push"]
<1>2. "failing" \in RunPcs /\ "push" \in RunPcs
  BY DEF RunPcs
<1>3. run[r] \in RunRows
  BY <1>1 DEF RunShape
<1>12. /\ j \in RunRows /\ j.pc = "push" /\ j.ahead
       /\ j.ctx = run[r].ctx /\ j.pushed = run[r].pushed /\ j.url = run[r].url
  BY <1>2, <1>3 DEF RunRows
<1>13. \/ run' = [run EXCEPT ![r] = j] /\ committed' = [committed EXCEPT ![r] = made[r]]
       \/ RunTo(r, "failing") /\ committed' = committed
  <2>1. run' = [run EXCEPT ![r] = j] \/ ~(run' = [run EXCEPT ![r].ahead = TRUE, ![r].pc = "push"])
    OBVIOUS
  <2> HIDE DEF j
  <2> QED BY <2>1, Zenon
<1> HIDE DEF j
<1>4. /\ run' \in [TaskRuns -> RunRows] /\ \A q \in TaskRuns \ {r} : run'[q] = run[q]
      /\ run'[r].ctx = run[r].ctx /\ run'[r].pushed = run[r].pushed /\ run'[r].url = run[r].url
      /\ \/ run'[r].pc = "push" /\ run'[r].ahead /\ committed' = [committed EXCEPT ![r] = made[r]]
         \/ run'[r].pc = "failing" /\ run'[r].ahead = run[r].ahead /\ committed' = committed
  BY <1>1, <1>2, <1>12, <1>13, Moved DEF RunShape
<1>5. row \in TaskRows /\ row' \in TaskRows
  BY <1>1, <1>4 DEF RunShape, TaskRows, RunRows
<1>6. RunShape'
  BY <1>1, <1>4, <1>5 DEF RunShape, Steps
<1>7. ASSUME NEW q \in TaskRuns \ {r} PROVE CloneInv(q)' /\ BooksInv(q)'
  BY <1>1, <1>4, OthersKeep DEF RunShape
<1>8. CloneInv(r)'
  BY <1>1, <1>4 DEF RunShape, CloneInv, Published, Opening, Pushing
<1>9. BooksInv(r)'
  BY <1>1, <1>4 DEF RunShape, BooksInv, Opening, Pushing, Failing, Closed
<1>10. RowInv'
  BY <1>1, <1>4, <1>5, RowFields DEF RunShape, RowInv, RequestHasTheCommit, CloneInv, Published,
     Opening, Pushing
<1>11. RunsCleanUp'
  BY <1>1, <1>4 DEF RunShape, RunsCleanUp
<1> QED BY <1>6, <1>7, <1>8, <1>9, <1>10, <1>11 DEF RunInv

LEMMA StartPushInv ==
  ASSUME RunInv, NEW r \in TaskRuns, StartPush(r)
  PROVE  RunInv'
<1> USE RunAssumption DEF StartPush, RunAt, git, books, PushFails, Records, Alive
<1>1. RunShape /\ RowInv /\ RunsCleanUp /\ CloneInv(r) /\ BooksInv(r)
  BY DEF RunInv
<1>2. PICK c \in {"pushing", "save"} : RunTo(r, c)
  OBVIOUS
<1>3. {"pushing", "save"} \subseteq RunPcs
  BY DEF RunPcs
<1>4. /\ run' \in [TaskRuns -> RunRows]
      /\ \A q \in TaskRuns \ {r} : run'[q] = run[q]
      /\ run'[r].ctx = run[r].ctx /\ run'[r].ahead = run[r].ahead
      /\ run'[r].pushed = run[r].pushed /\ run'[r].url = run[r].url
      /\ run'[r].pc \in {"pushing", "save"}
      /\ RunTo(r, "pushing") => run'[r].pc = "pushing"
      /\ RunTo(r, "save") => run'[r].pc = "save"
  BY <1>1, <1>2, <1>3, Moved
<1>5. row \in TaskRows /\ row' \in TaskRows
  BY <1>1, <1>4 DEF RunShape, TaskRows, RunRows
<1>6. RunShape'
  BY <1>1, <1>4, <1>5 DEF RunShape, Steps
<1>7. ASSUME NEW q \in TaskRuns \ {r} PROVE CloneInv(q)' /\ BooksInv(q)'
  BY <1>1, <1>4, OthersKeep DEF RunShape
<1>8. CloneInv(r)'
  BY <1>1, <1>4 DEF RunShape, CloneInv, Published, Opening, Pushing
<1>9. BooksInv(r)'
  BY <1>1, <1>4 DEF RunShape, BooksInv, Opening, Pushing, Failing, Closed
<1>10. RowInv'
  BY <1>1, <1>4, <1>5, RowFields DEF RunShape, RowInv, RequestHasTheCommit, CloneInv, Published,
     Opening, Pushing
<1>11. RunsCleanUp'
  BY <1>1, <1>4 DEF RunShape, RunsCleanUp
<1> QED BY <1>6, <1>7, <1>8, <1>9, <1>10, <1>11 DEF RunInv

LEMMA PushReturnsInv ==
  ASSUME RunInv, NEW r \in TaskRuns, PushReturns(r)
  PROVE  RunInv'
<1> USE RunAssumption DEF PushReturns, RunAt, git, books, PushFails, Records, Alive, Takes, LandOnRemote, Works
<1>1. RunShape /\ RowInv /\ RunsCleanUp /\ CloneInv(r) /\ BooksInv(r)
  BY DEF RunInv
<1> DEFINE to == IF setup.opensPR THEN "pr" ELSE "save"
           j == [run[r] EXCEPT !.pushed = TRUE, !.pc = to]
<1>2. "save" \in RunPcs /\ to \in RunPcs
  BY DEF RunPcs
<1>3. run[r] \in RunRows
  BY <1>1 DEF RunShape
<1>12. /\ j \in RunRows /\ j.pc = to /\ j.pushed
       /\ j.ctx = run[r].ctx /\ j.ahead = run[r].ahead /\ j.url = run[r].url
  BY <1>2, <1>3 DEF RunRows
<1>13. \/ /\ run' = [run EXCEPT ![r] = j] /\ remote = NoRun /\ remote' = r
          /\ published' = [published EXCEPT ![r] = committed[r]]
       \/ /\ RunTo(r, "save")
          /\ \/ /\ remote = NoRun /\ remote' = r
                /\ published' = [published EXCEPT ![r] = committed[r]]
             \/ remote' = remote /\ published' = published
  OBVIOUS
<1> HIDE DEF j
<1>4. /\ run' \in [TaskRuns -> RunRows] /\ \A q \in TaskRuns \ {r} : run'[q] = run[q]
      /\ run'[r].ctx = run[r].ctx /\ run'[r].ahead = run[r].ahead /\ run'[r].url = run[r].url
      /\ run'[r].pc \in {"pr", "save"}
      /\ \/ /\ run'[r].pushed /\ remote = NoRun /\ remote' = r
            /\ published' = [published EXCEPT ![r] = committed[r]]
         \/ /\ run'[r].pc = "save" /\ run'[r].pushed = run[r].pushed
            /\ \/ /\ remote = NoRun /\ remote' = r
                  /\ published' = [published EXCEPT ![r] = committed[r]]
               \/ remote' = remote /\ published' = published
  BY <1>1, <1>2, <1>12, <1>13, Moved DEF RunShape
<1>5. row \in TaskRows /\ row' \in TaskRows
  BY <1>1, <1>4 DEF RunShape, TaskRows, RunRows
<1>6. RunShape'
  BY <1>1, <1>4, <1>5 DEF RunShape, Steps
<1>7. ASSUME NEW q \in TaskRuns \ {r} PROVE CloneInv(q)' /\ BooksInv(q)'
  BY <1>1, <1>4, OthersKeep DEF RunShape
<1>15. /\ run[r].ahead /\ ~run[r].pushed /\ ~run[r].url /\ setup.clones
       /\ committed[r] = made[r] \/ committed[r] = {"commits"}
       /\ committed[r] \subseteq made[r] /\ made[r] \subseteq Works
  BY <1>1 DEF CloneInv, RunShape, Pushing
<1>8. CloneInv(r)'
  <2>1. CASE run'[r].pushed /\ remote' = r /\ published' = [published EXCEPT ![r] = committed[r]]
    <3>1. published'[r] = committed[r]
      BY <1>1, <2>1 DEF RunShape
    <3>2. \/ published'[r] = made[r]
          \/ made[r] \ published'[r] = {"edits"} /\ "commits" \in published'[r]
      BY <1>15, <3>1
    <3>3. Published(r)'
      BY <2>1, <3>2 DEF Published
    <3> QED BY <1>4, <1>15, <2>1, <3>3 DEF CloneInv, Opening, Pushing
  <2>2. CASE run'[r].pc = "save" /\ ~run'[r].pushed
    BY <1>4, <1>15, <2>2 DEF CloneInv, Published, Opening, Pushing
  <2> QED BY <1>4, <1>15, <2>1, <2>2
<1>9. BooksInv(r)'
  BY <1>1, <1>4 DEF RunShape, BooksInv, Opening, Pushing, Failing, Closed
<1>10. RowInv'
  BY <1>1, <1>4, <1>5, RowFields DEF RunShape, RowInv, RequestHasTheCommit, CloneInv, Published,
     Opening, Pushing
<1>11. RunsCleanUp'
  BY <1>1, <1>4 DEF RunShape, RunsCleanUp
<1> QED BY <1>6, <1>7, <1>8, <1>9, <1>10, <1>11 DEF RunInv

LEMMA CreatePRInv ==
  ASSUME RunInv, NEW r \in TaskRuns, CreatePR(r)
  PROVE  RunInv'
<1> USE RunAssumption DEF CreatePR, RunAt, git, books, Records, Alive
<1>1. RunShape /\ RowInv /\ RunsCleanUp /\ CloneInv(r) /\ BooksInv(r)
  BY DEF RunInv
<1> DEFINE j == [run[r] EXCEPT !.url = TRUE, !.pc = "save"]
<1>2. "save" \in RunPcs
  BY DEF RunPcs
<1>3. run[r] \in RunRows
  BY <1>1 DEF RunShape
<1>12. /\ j \in RunRows /\ j.pc = "save" /\ j.url
       /\ j.ctx = run[r].ctx /\ j.ahead = run[r].ahead /\ j.pushed = run[r].pushed
  BY <1>2, <1>3 DEF RunRows
<1>13. (run' = [run EXCEPT ![r] = j] /\ pull' = TRUE) \/ RunTo(r, "save")
  OBVIOUS
<1> HIDE DEF j
<1>14. pull' \in BOOLEAN /\ (pull => pull')
  BY <1>1 DEF RunShape
<1>4. /\ run' \in [TaskRuns -> RunRows] /\ \A q \in TaskRuns \ {r} : run'[q] = run[q]
      /\ run'[r].ctx = run[r].ctx /\ run'[r].ahead = run[r].ahead
      /\ run'[r].pushed = run[r].pushed /\ run'[r].pc = "save"
      /\ run'[r].url = run[r].url \/ (run'[r].url /\ pull')
      /\ pull' \in BOOLEAN /\ (pull => pull')
  BY <1>1, <1>2, <1>12, <1>13, <1>14, Moved DEF RunShape
<1>5. row \in TaskRows /\ row' \in TaskRows
  BY <1>1, <1>4 DEF RunShape, TaskRows, RunRows
<1>6. RunShape'
  BY <1>1, <1>4, <1>5 DEF RunShape, Steps
<1>7. ASSUME NEW q \in TaskRuns \ {r} PROVE CloneInv(q)' /\ BooksInv(q)'
  BY <1>1, <1>4, OthersKeep DEF RunShape
<1>8. CloneInv(r)'
  BY <1>1, <1>4 DEF RunShape, CloneInv, Published, Opening, Pushing
<1>9. BooksInv(r)'
  BY <1>1, <1>4 DEF RunShape, BooksInv, Opening, Pushing, Failing, Closed
<1>10. RowInv'
  BY <1>1, <1>4, <1>5, RowFields DEF RunShape, RowInv, RequestHasTheCommit, CloneInv, Published,
     Opening, Pushing
<1>11. RunsCleanUp'
  BY <1>1, <1>4 DEF RunShape, RunsCleanUp
<1> QED BY <1>6, <1>7, <1>8, <1>9, <1>10, <1>11 DEF RunInv

LEMMA CompleteRowInv ==
  ASSUME RunInv, NEW r \in TaskRuns, CompleteRow(r)
  PROVE  RunInv'
<1> USE RunAssumption DEF CompleteRow, RunAt, git, books, Alive
<1>1. RunShape /\ RowInv /\ RunsCleanUp /\ CloneInv(r) /\ BooksInv(r)
  BY DEF RunInv
<1>2. PICK c \in {"tell"} : RunTo(r, c)
  OBVIOUS
<1>3. {"tell"} \subseteq RunPcs
  BY DEF RunPcs
<1>4. /\ run' \in [TaskRuns -> RunRows]
      /\ \A q \in TaskRuns \ {r} : run'[q] = run[q]
      /\ run'[r].ctx = run[r].ctx /\ run'[r].ahead = run[r].ahead
      /\ run'[r].pushed = run[r].pushed /\ run'[r].url = run[r].url
      /\ run'[r].pc \in {"tell"}
      /\ RunTo(r, "tell") => run'[r].pc = "tell"
  BY <1>1, <1>2, <1>3, Moved
<1>5. row \in TaskRows /\ row' \in TaskRows
  BY <1>1, <1>4 DEF RunShape, TaskRows, RunRows
<1>6. RunShape'
  BY <1>1, <1>4, <1>5 DEF RunShape, Steps
<1>7. ASSUME NEW q \in TaskRuns \ {r} PROVE CloneInv(q)' /\ BooksInv(q)'
  BY <1>1, <1>4, OthersKeep DEF RunShape
<1>8. CloneInv(r)'
  BY <1>1, <1>4 DEF RunShape, CloneInv, Published, Opening, Pushing
<1>9. BooksInv(r)'
  BY <1>1, <1>4 DEF RunShape, BooksInv, Opening, Pushing, Failing, Closed
<1>10. RowInv'
  <2>1. CASE ~Alive(r)
    BY <1>1, <1>4, <2>1 DEF RowInv, RequestHasTheCommit, Published
  <2>2. CASE Alive(r)
    <3>1. /\ row'.status = "complete" /\ row'.pr = run[r].url
          /\ row'.sha = IF setup.clones THEN r ELSE NoRun
      BY <2>2
    <3>2. /\ run[r].url => pull /\ remote = r /\ setup.clones
          /\ setup.clones => Published(r)
      BY <1>1 DEF CloneInv
    <3>3. setup.clones => Published(r)'
      BY <1>4, <3>2 DEF Published
    <3> QED BY <1>4, <3>1, <3>2, <3>3 DEF RowInv, RequestHasTheCommit
  <2> QED BY <2>1, <2>2
<1>11. RunsCleanUp'
  BY <1>1, <1>4 DEF RunShape, RunsCleanUp
<1> QED BY <1>6, <1>7, <1>8, <1>9, <1>10, <1>11 DEF RunInv

LEMMA TellCompletedInv ==
  ASSUME RunInv, NEW r \in TaskRuns, TellCompleted(r)
  PROVE  RunInv'
<1> USE RunAssumption DEF TellCompleted, RunAt, git, books, Records, Alive
<1>1. RunShape /\ RowInv /\ RunsCleanUp /\ CloneInv(r) /\ BooksInv(r)
  BY DEF RunInv
<1>2. PICK c \in {"close"} : RunTo(r, c)
  OBVIOUS
<1>3. {"close"} \subseteq RunPcs
  BY DEF RunPcs
<1>4. /\ run' \in [TaskRuns -> RunRows]
      /\ \A q \in TaskRuns \ {r} : run'[q] = run[q]
      /\ run'[r].ctx = run[r].ctx /\ run'[r].ahead = run[r].ahead
      /\ run'[r].pushed = run[r].pushed /\ run'[r].url = run[r].url
      /\ run'[r].pc \in {"close"}
      /\ RunTo(r, "close") => run'[r].pc = "close"
  BY <1>1, <1>2, <1>3, Moved
<1>5. row \in TaskRows /\ row' \in TaskRows
  BY <1>1, <1>4 DEF RunShape, TaskRows, RunRows
<1>6. RunShape'
  BY <1>1, <1>4, <1>5 DEF RunShape, Steps
<1>7. ASSUME NEW q \in TaskRuns \ {r} PROVE CloneInv(q)' /\ BooksInv(q)'
  BY <1>1, <1>4, OthersKeep DEF RunShape
<1>8. CloneInv(r)'
  BY <1>1, <1>4 DEF RunShape, CloneInv, Published, Opening, Pushing
<1>9. BooksInv(r)'
  BY <1>1, <1>4 DEF RunShape, BooksInv, Opening, Pushing, Failing, Closed
<1>10. RowInv'
  BY <1>1, <1>4, <1>5, RowFields DEF RunShape, RowInv, RequestHasTheCommit, CloneInv, Published,
     Opening, Pushing
<1>11. RunsCleanUp'
  BY <1>1, <1>4 DEF RunShape, RunsCleanUp
<1> QED BY <1>6, <1>7, <1>8, <1>9, <1>10, <1>11 DEF RunInv

LEMMA CloseCompletedInv ==
  ASSUME RunInv, NEW r \in TaskRuns, CloseCompleted(r)
  PROVE  RunInv'
<1> USE RunAssumption DEF CloseCompleted, RunAt, git, books, CloseSession, Alive
<1>1. RunShape /\ RowInv /\ RunsCleanUp /\ CloneInv(r) /\ BooksInv(r)
  BY DEF RunInv
<1>2. PICK c \in {"cleanup"} : RunTo(r, c)
  OBVIOUS
<1>3. {"cleanup"} \subseteq RunPcs
  BY DEF RunPcs
<1>4. /\ run' \in [TaskRuns -> RunRows]
      /\ \A q \in TaskRuns \ {r} : run'[q] = run[q]
      /\ run'[r].ctx = run[r].ctx /\ run'[r].ahead = run[r].ahead
      /\ run'[r].pushed = run[r].pushed /\ run'[r].url = run[r].url
      /\ run'[r].pc \in {"cleanup"}
      /\ RunTo(r, "cleanup") => run'[r].pc = "cleanup"
  BY <1>1, <1>2, <1>3, Moved
<1>5. row \in TaskRows /\ row' \in TaskRows
  BY <1>1, <1>4 DEF RunShape, TaskRows, RunRows
<1>6. RunShape'
  BY <1>1, <1>4, <1>5 DEF RunShape, Steps
<1>7. ASSUME NEW q \in TaskRuns \ {r} PROVE CloneInv(q)' /\ BooksInv(q)'
  BY <1>1, <1>4, OthersKeep DEF RunShape
<1>8. CloneInv(r)'
  BY <1>1, <1>4 DEF RunShape, CloneInv, Published, Opening, Pushing
<1>9. BooksInv(r)'
  BY <1>1, <1>4 DEF RunShape, BooksInv, Opening, Pushing, Failing, Closed
<1>10. RowInv'
  BY <1>1, <1>4, <1>5, RowFields DEF RunShape, RowInv, RequestHasTheCommit, CloneInv, Published,
     Opening, Pushing
<1>11. RunsCleanUp'
  BY <1>1, <1>4 DEF RunShape, RunsCleanUp
<1> QED BY <1>6, <1>7, <1>8, <1>9, <1>10, <1>11 DEF RunInv

LEMMA TellFailedInv ==
  ASSUME RunInv, NEW r \in TaskRuns, TellFailed(r)
  PROVE  RunInv'
<1> USE RunAssumption DEF TellFailed, RunAt, git, books, Records, Alive
<1>1. RunShape /\ RowInv /\ RunsCleanUp /\ CloneInv(r) /\ BooksInv(r)
  BY DEF RunInv
<1>2. PICK c \in {"fail_close"} : RunTo(r, c)
  OBVIOUS
<1>3. {"fail_close"} \subseteq RunPcs
  BY DEF RunPcs
<1>4. /\ run' \in [TaskRuns -> RunRows]
      /\ \A q \in TaskRuns \ {r} : run'[q] = run[q]
      /\ run'[r].ctx = run[r].ctx /\ run'[r].ahead = run[r].ahead
      /\ run'[r].pushed = run[r].pushed /\ run'[r].url = run[r].url
      /\ run'[r].pc \in {"fail_close"}
      /\ RunTo(r, "fail_close") => run'[r].pc = "fail_close"
  BY <1>1, <1>2, <1>3, Moved
<1>5. row \in TaskRows /\ row' \in TaskRows
  BY <1>1, <1>4 DEF RunShape, TaskRows, RunRows
<1>6. RunShape'
  BY <1>1, <1>4, <1>5 DEF RunShape, Steps
<1>7. ASSUME NEW q \in TaskRuns \ {r} PROVE CloneInv(q)' /\ BooksInv(q)'
  BY <1>1, <1>4, OthersKeep DEF RunShape
<1>8. CloneInv(r)'
  BY <1>1, <1>4 DEF RunShape, CloneInv, Published, Opening, Pushing
<1>9. BooksInv(r)'
  BY <1>1, <1>4 DEF RunShape, BooksInv, Opening, Pushing, Failing, Closed
<1>10. RowInv'
  BY <1>1, <1>4, <1>5, RowFields DEF RunShape, RowInv, RequestHasTheCommit, CloneInv, Published,
     Opening, Pushing
<1>11. RunsCleanUp'
  BY <1>1, <1>4 DEF RunShape, RunsCleanUp
<1> QED BY <1>6, <1>7, <1>8, <1>9, <1>10, <1>11 DEF RunInv

LEMMA CloseFailedInv ==
  ASSUME RunInv, NEW r \in TaskRuns, CloseFailed(r)
  PROVE  RunInv'
<1> USE RunAssumption DEF CloseFailed, RunAt, git, books, CloseSession, Alive
<1>1. RunShape /\ RowInv /\ RunsCleanUp /\ CloneInv(r) /\ BooksInv(r)
  BY DEF RunInv
<1>2. PICK c \in {"fail_row"} : RunTo(r, c)
  OBVIOUS
<1>3. {"fail_row"} \subseteq RunPcs
  BY DEF RunPcs
<1>4. /\ run' \in [TaskRuns -> RunRows]
      /\ \A q \in TaskRuns \ {r} : run'[q] = run[q]
      /\ run'[r].ctx = run[r].ctx /\ run'[r].ahead = run[r].ahead
      /\ run'[r].pushed = run[r].pushed /\ run'[r].url = run[r].url
      /\ run'[r].pc \in {"fail_row"}
      /\ RunTo(r, "fail_row") => run'[r].pc = "fail_row"
  BY <1>1, <1>2, <1>3, Moved
<1>5. row \in TaskRows /\ row' \in TaskRows
  BY <1>1, <1>4 DEF RunShape, TaskRows, RunRows
<1>6. RunShape'
  BY <1>1, <1>4, <1>5 DEF RunShape, Steps
<1>7. ASSUME NEW q \in TaskRuns \ {r} PROVE CloneInv(q)' /\ BooksInv(q)'
  BY <1>1, <1>4, OthersKeep DEF RunShape
<1>8. CloneInv(r)'
  BY <1>1, <1>4 DEF RunShape, CloneInv, Published, Opening, Pushing
<1>9. BooksInv(r)'
  BY <1>1, <1>4 DEF RunShape, BooksInv, Opening, Pushing, Failing, Closed
<1>10. RowInv'
  BY <1>1, <1>4, <1>5, RowFields DEF RunShape, RowInv, RequestHasTheCommit, CloneInv, Published,
     Opening, Pushing
<1>11. RunsCleanUp'
  BY <1>1, <1>4 DEF RunShape, RunsCleanUp
<1> QED BY <1>6, <1>7, <1>8, <1>9, <1>10, <1>11 DEF RunInv

LEMMA FailRowInv ==
  ASSUME RunInv, NEW r \in TaskRuns, FailRow(r)
  PROVE  RunInv'
<1> USE RunAssumption DEF FailRow, RunAt, git, books, Alive
<1>1. RunShape /\ RowInv /\ RunsCleanUp /\ CloneInv(r) /\ BooksInv(r)
  BY DEF RunInv
<1>2. PICK c \in {"cleanup", "done"} : RunTo(r, c)
  OBVIOUS
<1>3. {"cleanup", "done"} \subseteq RunPcs
  BY DEF RunPcs
<1>4. /\ run' \in [TaskRuns -> RunRows]
      /\ \A q \in TaskRuns \ {r} : run'[q] = run[q]
      /\ run'[r].ctx = run[r].ctx /\ run'[r].ahead = run[r].ahead
      /\ run'[r].pushed = run[r].pushed /\ run'[r].url = run[r].url
      /\ run'[r].pc \in {"cleanup", "done"}
      /\ RunTo(r, "cleanup") => run'[r].pc = "cleanup"
      /\ RunTo(r, "done") => run'[r].pc = "done"
  BY <1>1, <1>2, <1>3, Moved
<1>5. row \in TaskRows /\ row' \in TaskRows
  BY <1>1, <1>4 DEF RunShape, TaskRows, RunRows
<1>6. RunShape'
  BY <1>1, <1>4, <1>5 DEF RunShape, Steps
<1>7. ASSUME NEW q \in TaskRuns \ {r} PROVE CloneInv(q)' /\ BooksInv(q)'
  BY <1>1, <1>4, OthersKeep DEF RunShape
<1>8. CloneInv(r)'
  BY <1>1, <1>4 DEF RunShape, CloneInv, Published, Opening, Pushing
<1>9. BooksInv(r)'
  BY <1>1, <1>4 DEF RunShape, BooksInv, Opening, Pushing, Failing, Closed
<1>10. RowInv'
  <2>1. row' = row \/ row'.status = "failed"
    BY <1>5 DEF TaskRows
  <2>2. row'.pr = row.pr /\ row'.sha = row.sha
    BY <1>5 DEF TaskRows
  <2>3. RequestHasTheCommit' /\ (row'.pr => row'.sha # NoRun)
    BY <1>1, <2>2 DEF RowInv, RequestHasTheCommit
  <2>4. ASSUME NEW q \in TaskRuns, row'.status = "complete", row'.sha = q
        PROVE  run'[q].pc \in {"tell", "close", "cleanup", "done"} /\ Published(q)'
    BY <1>1, <1>4, <2>1, <2>4 DEF RowInv, Published
  <2> QED BY <2>3, <2>4 DEF RowInv
<1>11. RunsCleanUp'
  BY <1>1, <1>4 DEF RunShape, RunsCleanUp
<1> QED BY <1>6, <1>7, <1>8, <1>9, <1>10, <1>11 DEF RunInv

LEMMA CleanupEnvInv ==
  ASSUME RunInv, NEW r \in TaskRuns, CleanupEnv(r)
  PROVE  RunInv'
<1> USE RunAssumption DEF CleanupEnv, RunAt, git, books, Alive
<1>1. RunShape /\ RowInv /\ RunsCleanUp /\ CloneInv(r) /\ BooksInv(r)
  BY DEF RunInv
<1>2. PICK c \in {"done"} : RunTo(r, c)
  OBVIOUS
<1>3. {"done"} \subseteq RunPcs
  BY DEF RunPcs
<1>4. /\ run' \in [TaskRuns -> RunRows]
      /\ \A q \in TaskRuns \ {r} : run'[q] = run[q]
      /\ run'[r].ctx = run[r].ctx /\ run'[r].ahead = run[r].ahead
      /\ run'[r].pushed = run[r].pushed /\ run'[r].url = run[r].url
      /\ run'[r].pc \in {"done"}
      /\ RunTo(r, "done") => run'[r].pc = "done"
  BY <1>1, <1>2, <1>3, Moved
<1>5. row \in TaskRows /\ row' \in TaskRows
  BY <1>1, <1>4 DEF RunShape, TaskRows, RunRows
<1>6. RunShape'
  BY <1>1, <1>4, <1>5 DEF RunShape, Steps
<1>7. ASSUME NEW q \in TaskRuns \ {r} PROVE CloneInv(q)' /\ BooksInv(q)'
  BY <1>1, <1>4, OthersKeep DEF RunShape
<1>8. CloneInv(r)'
  BY <1>1, <1>4 DEF RunShape, CloneInv, Published, Opening, Pushing
<1>9. BooksInv(r)'
  BY <1>1, <1>4 DEF RunShape, BooksInv, Opening, Pushing, Failing, Closed
<1>10. RowInv'
  BY <1>1, <1>4, <1>5, RowFields DEF RunShape, RowInv, RequestHasTheCommit, CloneInv, Published,
     Opening, Pushing
<1>11. RunsCleanUp'
  BY <1>1, <1>4 DEF RunShape, RunsCleanUp
<1> QED BY <1>6, <1>7, <1>8, <1>9, <1>10, <1>11 DEF RunInv

LEMMA CancelRowInv ==
  ASSUME RunInv, CancelRow
  PROVE  RunInv'
<1> USE DEF CancelRow, git, books
<1>1. RunShape /\ RowInv /\ RunsCleanUp /\ row \in TaskRows
  BY DEF RunInv, RunShape
<1>2. row' \in TaskRows /\ row'.status = "cancelled" /\ row'.pr = row.pr /\ row'.sha = row.sha
  BY <1>1 DEF TaskRows
<1>3. RunShape'
  BY <1>1, <1>2 DEF RunShape
<1>4. RowInv' /\ RunsCleanUp'
  BY <1>1, <1>2 DEF RowInv, RequestHasTheCommit, RunsCleanUp, RunAt
<1>5. ASSUME NEW q \in TaskRuns PROVE CloneInv(q)' /\ BooksInv(q)'
  BY OthersKeep
<1> QED BY <1>3, <1>4, <1>5 DEF RunInv

LEMMA RunNextInv == RunInv /\ [RunNext]_runVars => RunInv'
<1> SUFFICES ASSUME RunInv, [RunNext]_runVars PROVE RunInv'
  OBVIOUS
<1>1. CASE UNCHANGED runVars
  <2> USE <1>1 DEF runVars
  <2>1. RunShape' /\ RowInv' /\ RunsCleanUp'
    BY DEF RunInv, RunShape, RowInv, RunsCleanUp, RequestHasTheCommit, Published, RunAt
  <2>2. ASSUME NEW q \in TaskRuns PROVE CloneInv(q)' /\ BooksInv(q)'
    BY OthersKeep
  <2> QED BY <2>1, <2>2 DEF RunInv
<1>2. ASSUME NEW r \in TaskRuns, RunStep(r) PROVE RunInv'
  BY <1>2, LaunchInv, ContextDiesInv, PassGateInv, CreateTaskEnvInv, PrepareInv, StartSessionInv,
     BuildPromptInv, StartClaudeInv, ClaudeReturnsInv, InspectGitStateInv, FallbackCommitInv,
     StartPushInv, PushReturnsInv, CreatePRInv, CompleteRowInv, TellCompletedInv,
     CloseCompletedInv, TellFailedInv, CloseFailedInv, FailRowInv, CleanupEnvInv
  DEF RunStep
<1> QED BY <1>1, <1>2, CancelRowInv DEF RunNext

\* Every variable of TaskRun keeps its type.
THEOREM RunTypes == RunSpec => []RunTypeOK
<1>1. RunInv => RunTypeOK
  <2> SUFFICES ASSUME RunInv PROVE RunTypeOK
    OBVIOUS
  <2>1. \A f \in {made, committed, published} : f \in [TaskRuns -> SUBSET Works]
    BY DEF RunInv, RunShape
  <2> QED BY <2>1 DEF RunInv, RunShape, RunTypeOK, RunRows, TaskRows, Steps
<1> QED BY <1>1, RunInitInv, RunNextInv, PTL DEF RunSpec

\* A run tells the truth about its end: what the row says of the commit and of the pull
\* request is so but for the named cases, the session is closed as the run ended, and no
\* return leaves the environment up, whichever runs of the task overlap
\* (ExecuteTaskWithOptions, failExecution).
THEOREM RunsTellTheTruth == RunSpec => []RunSafe
<1>1. RunInv => RunSafe
  BY DEF RunInv, RunSafe, RowInv, Published, CompleteIsPublished, SessionsTellTheEnd, BooksInv,
         RunsCleanUp, Closed, RunAt
<1> QED BY <1>1, RunInitInv, RunNextInv, PTL DEF RunSpec

-----------------------------------------------------------------------------
(* TrajectoryMemory.                                                       *)

SessRows == [by : Attempts, state : {"active", "completed", "failed"}]
Analyses == [by : Attempts \cup {NoAttempt}, text : Texts \cup {NoText},
             saw : {"none", "active", "completed", "failed"}]
TaskStates == [status : {"pending", "running", "complete", "failed", "cancelled"},
               says : {"nothing", "skip", "worth"}]
TipRows == [text : Texts \cup {NoText}, seeds : Places,
            status : {"none", "pending", "disabled", "error", "embedded"}]
Overlaps == [tip : BOOLEAN, text : BOOLEAN, doc : BOOLEAN]
AttPcs == {"idle", "begun", "brief", "brief_write", "working", "completing", "closing",
           "fail_closing", "failing", "analyze", "asking", "tips", "analyze2", "asking2",
           "upsert", "read", "over", "embed", "store", "mark", "write"}
AttRows == [own : Places, of : Places, read : Nat, text : Texts \cup {NoText},
            saw : {"none", "active", "completed", "failed"}, pc : AttPcs]

MemoryShape ==
  /\ embeds \in BOOLEAN
  /\ task \in TaskStates
  /\ document \in Nat /\ overlap \in Overlaps
  /\ sess \in Seq(SessRows)
  /\ analysis \in [Places -> Analyses]
  /\ tip \in TipRows
  /\ credits \subseteq Attempts \X Places
  /\ vector \in Texts \cup {NoText}
  /\ att \in [Attempts -> AttRows]

\* a session is its run's, and a run has one at most
SessInv ==
  /\ \A s \in 1..Len(sess) : att[sess[s].by].own = s
  /\ \A a \in Attempts :
       /\ att[a].own <= Len(sess) /\ att[a].of <= Len(sess)
       /\ att[a].own # 0 => sess[att[a].own].by = a
       /\ att[a].pc \in {"idle", "begun"} => att[a].own = 0

\* a run ends its session before it analyses, and looks at it or at a later one
Ended == {"failing", "analyze", "asking", "tips", "analyze2", "asking2", "upsert"}
Looked == {"asking", "tips", "analyze2", "asking2", "upsert"}

LookInv ==
  \A a \in Attempts :
    /\ att[a].pc \in Ended /\ att[a].own # 0 => sess[att[a].own].state # "active"
    /\ att[a].pc \in Looked => att[a].own <= att[a].of
    /\ att[a].pc \in Looked /\ att[a].own # 0 /\ att[a].of = att[a].own => att[a].saw # "active"

AnalysisInv ==
  \A s \in Places : analysis[s].saw = "active" =>
    s \in 0..Len(sess) /\ (s # 0 => analysis[s].by # sess[s].by)

CreditInv ==
  \A c \in credits : att[c[1]].pc \notin {"idle", "begun"} /\ att[c[1]].own <= c[2]

\* the last upsert was alone, or was not
TipInv ==
  /\ overlap.tip => overlap.text
  /\ ~overlap.tip =>
       /\ \A a, b \in Attempts : att[a].pc \in InTip /\ att[b].pc \in InTip => a = b
       /\ \A a \in Attempts : att[a].pc \in InTip => att[a].text = tip.text
       /\ \A a \in Attempts : att[a].pc = "mark" => vector = tip.text
       /\ tip.status = "embedded" /\ (\A a \in Attempts : att[a].pc \notin {"embed", "store"})
            => vector = tip.text
  /\ ~overlap.text /\ tip.status = "embedded" => vector = tip.text

\* so was the last reader of the lists
DocInv ==
  ~overlap.doc =>
    /\ \A a, b \in Attempts : att[a].pc \in InDoc /\ att[b].pc \in InDoc => a = b
    /\ (\A a \in Attempts : att[a].pc \notin InTip \cup {"read"}) =>
         /\ \A a \in Attempts : att[a].pc \in InDoc => att[a].read = Cardinality(credits)
         /\ (\A a \in Attempts : att[a].pc \notin InDoc) => document = Cardinality(credits)

\* who has seeded tips, if it came so far
Early == {"idle", "begun", "brief"}
Seeders(f) == {a \in Attempts : f[a].pc \notin Early}

SeedInv == tip.seeds <= Cardinality(Seeders(att))

MemoryInv ==
  MemoryShape /\ SessInv /\ LookInv /\ AnalysisInv /\ CreditInv /\ TipInv /\ DocInv /\ SeedInv

AttOwns(a, n, p) == att' = [att EXCEPT ![a].own = n, ![a].pc = p]
AttSees(a, n, x, k, p) ==
  att' = [att EXCEPT ![a].of = n, ![a].text = x, ![a].saw = k, ![a].pc = p]

LEMMA MemoryConsts ==
  /\ NoAttempt \notin Attempts /\ NoText \notin Texts /\ IsFiniteSet(Attempts)
  /\ Cardinality(Attempts) \in Nat /\ 0 \in Places /\ Places \subseteq Nat
  BY MemoryAssumption, FS_CardinalityType DEF Places

LEMMA SeedersCounted ==
  ASSUME NEW f
  PROVE  IsFiniteSet(Seeders(f)) /\ Cardinality(Seeders(f)) \in Nat
         /\ Cardinality(Seeders(f)) <= Cardinality(Attempts)
<1>1. Seeders(f) \subseteq Attempts
  BY DEF Seeders
<1> QED BY <1>1, MemoryConsts, FS_Subset, FS_CardinalityType

LEMMA AttFields ==
  ASSUME MemoryShape, NEW a \in Attempts
  PROVE  /\ att[a] \in AttRows /\ att[a].own \in Places /\ att[a].of \in Places /\ att[a].read \in Nat
         /\ att[a].text \in Texts \cup {NoText} /\ att[a].saw \in {"none", "active", "completed", "failed"}
         /\ att[a].pc \in AttPcs
<1>1. att[a] \in AttRows
  BY DEF MemoryShape
<1> QED BY <1>1 DEF AttRows

LEMMA SessFields ==
  ASSUME MemoryShape
  PROVE  /\ Len(sess) \in Nat /\ DOMAIN sess = 1..Len(sess)
         /\ \A s \in 1..Len(sess) : /\ sess[s] \in SessRows /\ sess[s].by \in Attempts
                                    /\ sess[s].state \in {"active", "completed", "failed"}
<1>1. sess \in Seq(SessRows)
  BY DEF MemoryShape
<1>2. Len(sess) \in Nat /\ DOMAIN sess = 1..Len(sess) /\ \A s \in 1..Len(sess) : sess[s] \in SessRows
  BY <1>1
<1> QED BY <1>2 DEF SessRows

LEMMA GivenFacts ==
  ASSUME MemoryShape, SessInv
  PROVE  /\ \A c \in credits : c[1] \in Attempts /\ c[2] \in Places
         /\ Len(sess) \in Nat /\ \A s \in 1..Len(sess) : sess[s].by \in Attempts
         /\ \A b \in Attempts : att[b].own \in Nat /\ att[b].of \in Nat
         /\ \A b \in Attempts : att[b].own <= Len(sess) /\ (att[b].own # 0 => att[b].own \in 1..Len(sess))
<1>1. \A c \in credits : c[1] \in Attempts /\ c[2] \in Places
  BY DEF MemoryShape
<1>2. Len(sess) \in Nat /\ \A s \in 1..Len(sess) : sess[s].by \in Attempts
  BY SessFields
<1>3. \A b \in Attempts : att[b].own \in Nat /\ att[b].of \in Nat
  BY AttFields, MemoryConsts
<1>4. \A b \in Attempts : att[b].own <= Len(sess)
  BY DEF SessInv
<1> QED BY <1>1, <1>2, <1>3, <1>4

LEMMA MemoryInitInv == MemoryInit => MemoryInv
<1> SUFFICES ASSUME MemoryInit PROVE MemoryInv
  OBVIOUS
<1> DEFINE r == [pc |-> "idle", own |-> 0, of |-> 0, saw |-> "none", text |-> NoText, read |-> 0]
<1>1. /\ embeds \in BOOLEAN /\ task = [status |-> "pending", says |-> "nothing"] /\ sess = <<>>
      /\ analysis = [s \in Places |-> Unheard]
      /\ tip = [text |-> NoText, status |-> "none", seeds |-> 0]
      /\ credits = {} /\ vector = NoText /\ document = 0 /\ att = [a \in Attempts |-> r]
      /\ overlap = [tip |-> FALSE, text |-> FALSE, doc |-> FALSE]
  BY DEF MemoryInit
<1>2. r \in AttRows /\ r.pc = "idle" /\ r.own = 0 /\ r.of = 0
  BY MemoryConsts DEF AttRows, AttPcs
<1> HIDE DEF r
<1>3. att \in [Attempts -> AttRows] /\ \A a \in Attempts : att[a].pc = "idle" /\ att[a].own = 0 /\ att[a].of = 0
  BY <1>1, <1>2
<1>4. Unheard \in Analyses /\ Unheard.saw = "none"
  BY DEF Unheard, Analyses
<1>5. analysis \in [Places -> Analyses] /\ \A s \in Places : analysis[s].saw = "none"
  BY <1>1, <1>4
<1>6. tip \in TipRows /\ tip.status = "none" /\ tip.seeds = 0
  BY <1>1, MemoryConsts DEF TipRows
<1>7. overlap \in Overlaps
  BY <1>1 DEF Overlaps
<1>8. ~overlap.tip
  BY <1>1, Zenon
<1>9. sess \in Seq(SessRows) /\ Len(sess) = 0
  BY <1>1
<1>10. task \in TaskStates
  BY <1>1 DEF TaskStates
<1>11. MemoryShape
  BY <1>1, <1>3, <1>5, <1>6, <1>7, <1>9, <1>10 DEF MemoryShape
<1>12. SessInv /\ LookInv
  BY <1>3, <1>9 DEF SessInv, LookInv, Ended, Looked
<1>13. AnalysisInv /\ CreditInv
  BY <1>1, <1>5 DEF AnalysisInv, CreditInv
<1>14. TipInv
  BY <1>3, <1>6, <1>8 DEF TipInv, InTip
<1>15. DocInv
  BY <1>1, <1>3, FS_EmptySet DEF DocInv, InTip, InDoc
<1>16. SeedInv
  BY <1>6, SeedersCounted DEF SeedInv
<1> QED BY <1>11, <1>12, <1>13, <1>14, <1>15, <1>16 DEF MemoryInv

\* an attempt moves, and the others stay where they are
LEMMA AttSet ==
  ASSUME MemoryShape, NEW a \in Attempts, NEW r \in AttRows, att' = [att EXCEPT ![a] = r]
  PROVE  /\ att' \in [Attempts -> AttRows] /\ att'[a] = r
         /\ \A b \in Attempts \ {a} : att'[b] = att[b]
  BY DEF MemoryShape

\* to another place of its run
LEMMA AttMoves ==
  ASSUME MemoryShape, NEW a \in Attempts, NEW p \in AttPcs,
         AttTo(a, p)
  PROVE  /\ att' \in [Attempts -> AttRows] /\ att'[a].pc = p /\ att'[a].own = att[a].own
         /\ att'[a].of = att[a].of /\ att'[a].read = att[a].read /\ att'[a].text = att[a].text /\ att'[a].saw = att[a].saw
         /\ \A b \in Attempts \ {a} : att'[b] = att[b]
<1> DEFINE r == [att[a] EXCEPT !.pc = p]
<1>1. att[a] \in AttRows
  BY AttFields
<1>2. r \in AttRows
  BY <1>1 DEF AttRows
<1>3. r.own = att[a].own
  BY <1>1 DEF AttRows
<1>4. r.of = att[a].of
  BY <1>1 DEF AttRows
<1>5. r.read = att[a].read
  BY <1>1 DEF AttRows
<1>6. r.text = att[a].text
  BY <1>1 DEF AttRows
<1>7. r.saw = att[a].saw
  BY <1>1 DEF AttRows
<1>8. r.pc = p
  BY <1>1 DEF AttRows
<1>9. att' = [att EXCEPT ![a] = r]
  BY DEF AttTo, AttOwns, AttSees, MemoryShape
<1> HIDE DEF r
<1> QED BY <1>2, <1>3, <1>4, <1>5, <1>6, <1>7, <1>8, <1>9, AttSet

\* with a session
LEMMA AttOpens ==
  ASSUME MemoryShape, NEW a \in Attempts, NEW p \in AttPcs, NEW n \in Places,
         AttOwns(a, n, p)
  PROVE  /\ att' \in [Attempts -> AttRows] /\ att'[a].pc = p /\ att'[a].own = n
         /\ att'[a].of = att[a].of /\ att'[a].read = att[a].read /\ att'[a].text = att[a].text /\ att'[a].saw = att[a].saw
         /\ \A b \in Attempts \ {a} : att'[b] = att[b]
<1> DEFINE r == [att[a] EXCEPT !.own = n, !.pc = p]
<1>1. att[a] \in AttRows
  BY AttFields
<1>2. r \in AttRows
  BY <1>1 DEF AttRows
<1>3. r.own = n
  BY <1>1 DEF AttRows
<1>4. r.of = att[a].of
  BY <1>1 DEF AttRows
<1>5. r.read = att[a].read
  BY <1>1 DEF AttRows
<1>6. r.text = att[a].text
  BY <1>1 DEF AttRows
<1>7. r.saw = att[a].saw
  BY <1>1 DEF AttRows
<1>8. r.pc = p
  BY <1>1 DEF AttRows
<1>9. att' = [att EXCEPT ![a] = r]
  BY DEF AttTo, AttOwns, AttSees, MemoryShape
<1> HIDE DEF r
<1> QED BY <1>2, <1>3, <1>4, <1>5, <1>6, <1>7, <1>8, <1>9, AttSet

\* with the lists in hand
LEMMA AttReads ==
  ASSUME MemoryShape, NEW a \in Attempts, NEW p \in AttPcs, NEW n \in Nat,
         att' = [att EXCEPT ![a].read = n, ![a].pc = p]
  PROVE  /\ att' \in [Attempts -> AttRows] /\ att'[a].pc = p /\ att'[a].own = att[a].own
         /\ att'[a].of = att[a].of /\ att'[a].read = n /\ att'[a].text = att[a].text /\ att'[a].saw = att[a].saw
         /\ \A b \in Attempts \ {a} : att'[b] = att[b]
<1> DEFINE r == [att[a] EXCEPT !.read = n, !.pc = p]
<1>1. att[a] \in AttRows
  BY AttFields
<1>2. r \in AttRows
  BY <1>1 DEF AttRows
<1>3. r.own = att[a].own
  BY <1>1 DEF AttRows
<1>4. r.of = att[a].of
  BY <1>1 DEF AttRows
<1>5. r.read = n
  BY <1>1 DEF AttRows
<1>6. r.text = att[a].text
  BY <1>1 DEF AttRows
<1>7. r.saw = att[a].saw
  BY <1>1 DEF AttRows
<1>8. r.pc = p
  BY <1>1 DEF AttRows
<1>9. att' = [att EXCEPT ![a] = r]
  BY DEF AttTo, AttOwns, AttSees, MemoryShape
<1> HIDE DEF r
<1> QED BY <1>2, <1>3, <1>4, <1>5, <1>6, <1>7, <1>8, <1>9, AttSet

\* with what Claude answered
LEMMA AttHears ==
  ASSUME MemoryShape, NEW a \in Attempts, NEW p \in AttPcs, NEW x \in Texts \cup {NoText},
         att' = [att EXCEPT ![a].text = x, ![a].pc = p]
  PROVE  /\ att' \in [Attempts -> AttRows] /\ att'[a].pc = p /\ att'[a].own = att[a].own
         /\ att'[a].of = att[a].of /\ att'[a].read = att[a].read /\ att'[a].text = x /\ att'[a].saw = att[a].saw
         /\ \A b \in Attempts \ {a} : att'[b] = att[b]
<1> DEFINE r == [att[a] EXCEPT !.text = x, !.pc = p]
<1>1. att[a] \in AttRows
  BY AttFields
<1>2. r \in AttRows
  BY <1>1 DEF AttRows
<1>3. r.own = att[a].own
  BY <1>1 DEF AttRows
<1>4. r.of = att[a].of
  BY <1>1 DEF AttRows
<1>5. r.read = att[a].read
  BY <1>1 DEF AttRows
<1>6. r.text = x
  BY <1>1 DEF AttRows
<1>7. r.saw = att[a].saw
  BY <1>1 DEF AttRows
<1>8. r.pc = p
  BY <1>1 DEF AttRows
<1>9. att' = [att EXCEPT ![a] = r]
  BY DEF AttTo, AttOwns, AttSees, MemoryShape
<1> HIDE DEF r
<1> QED BY <1>2, <1>3, <1>4, <1>5, <1>6, <1>7, <1>8, <1>9, AttSet

\* with what it saw of a session
LEMMA AttLooks ==
  ASSUME MemoryShape, NEW a \in Attempts, NEW p \in AttPcs, NEW n \in Places, NEW x \in Texts \cup {NoText},
         NEW k \in {"none", "active", "completed", "failed"},
         AttSees(a, n, x, k, p)
  PROVE  /\ att' \in [Attempts -> AttRows] /\ att'[a].pc = p /\ att'[a].own = att[a].own
         /\ att'[a].of = n /\ att'[a].read = att[a].read /\ att'[a].text = x /\ att'[a].saw = k
         /\ \A b \in Attempts \ {a} : att'[b] = att[b]
<1> DEFINE r == [att[a] EXCEPT !.of = n, !.text = x, !.saw = k, !.pc = p]
<1>1. att[a] \in AttRows
  BY AttFields
<1>2. r \in AttRows
  BY <1>1 DEF AttRows
<1>3. r.own = att[a].own
  BY <1>1 DEF AttRows
<1>4. r.of = n
  BY <1>1 DEF AttRows
<1>5. r.read = att[a].read
  BY <1>1 DEF AttRows
<1>6. r.text = x
  BY <1>1 DEF AttRows
<1>7. r.saw = k
  BY <1>1 DEF AttRows
<1>8. r.pc = p
  BY <1>1 DEF AttRows
<1>9. att' = [att EXCEPT ![a] = r]
  BY DEF AttTo, AttOwns, AttSees, MemoryShape
<1> HIDE DEF r
<1> QED BY <1>2, <1>3, <1>4, <1>5, <1>6, <1>7, <1>8, <1>9, AttSet

\* a run seeds tips once, as it leaves "brief"
LEMMA SeedsKept ==
  ASSUME MemoryShape, SeedInv, tip'.seeds = tip.seeds,
         \A b \in Attempts : att[b].pc \notin Early => att'[b].pc \notin Early
  PROVE  SeedInv'
<1>1. Seeders(att) \subseteq Seeders(att')
  BY DEF Seeders
<1>2. Cardinality(Seeders(att)) <= Cardinality(Seeders(att'))
  BY <1>1, SeedersCounted, FS_Subset
<1>3. tip.seeds \in Nat
  BY MemoryConsts DEF MemoryShape, TipRows
<1> QED BY <1>2, <1>3, SeedersCounted DEF SeedInv

LEMMA SeedAdded ==
  ASSUME MemoryShape, SeedInv, NEW a \in Attempts, tip'.seeds = tip.seeds + 1,
         att[a].pc \in Early, att'[a].pc \notin Early,
         \A b \in Attempts : att[b].pc \notin Early => att'[b].pc \notin Early
  PROVE  SeedInv'
<1>1. a \notin Seeders(att) /\ Seeders(att) \cup {a} \subseteq Seeders(att')
  BY DEF Seeders
<1>2. Cardinality(Seeders(att) \cup {a}) = Cardinality(Seeders(att)) + 1
  BY <1>1, SeedersCounted, FS_AddElement
<1>3. Cardinality(Seeders(att) \cup {a}) <= Cardinality(Seeders(att'))
  BY <1>1, SeedersCounted, FS_Subset
<1>4. tip.seeds \in Nat
  BY MemoryConsts DEF MemoryShape, TipRows
<1> QED BY <1>2, <1>3, <1>4, SeedersCounted DEF SeedInv

\* so that there is room for one more
LEMMA RoomForASeed ==
  ASSUME MemoryShape, SeedInv, NEW a \in Attempts, att[a].pc \in Early
  PROVE  tip.seeds + 1 <= Cardinality(Attempts)
<1>1. Seeders(att) \subseteq Attempts \ {a}
  BY DEF Seeders
<1>2. IsFiniteSet(Attempts \ {a}) /\ Cardinality(Attempts \ {a}) = Cardinality(Attempts) - 1
  BY MemoryConsts, FS_RemoveElement
<1>3. Cardinality(Seeders(att)) <= Cardinality(Attempts) - 1
  BY <1>1, <1>2, FS_Subset
<1>4. tip.seeds \in Nat
  BY MemoryConsts DEF MemoryShape, TipRows
<1> QED BY <1>3, <1>4, MemoryConsts, SeedersCounted DEF SeedInv

LEMMA OverlapDoc ==
  ASSUME overlap \in Overlaps, NEW b \in BOOLEAN, overlap' = [overlap EXCEPT !.doc = b]
  PROVE  overlap' \in Overlaps /\ overlap'.doc = b /\ overlap'.tip = overlap.tip /\ overlap'.text = overlap.text
<1>1. overlap' \in Overlaps
  BY DEF Overlaps
<1>2. overlap'.doc = b
  BY Zenon DEF Overlaps
<1>3. overlap'.tip = overlap.tip
  BY Zenon DEF Overlaps
<1>4. overlap'.text = overlap.text
  BY Zenon DEF Overlaps
<1> QED BY <1>1, <1>2, <1>3, <1>4

LEMMA OverlapTip ==
  ASSUME overlap \in Overlaps, NEW b \in BOOLEAN, NEW c \in BOOLEAN,
         overlap' = [overlap EXCEPT !.tip = b, !.text = c]
  PROVE  overlap' \in Overlaps /\ overlap'.tip = b /\ overlap'.text = c /\ overlap'.doc = overlap.doc
<1>1. overlap' \in Overlaps
  BY DEF Overlaps
<1>2. overlap'.tip = b
  BY Zenon DEF Overlaps
<1>3. overlap'.text = c
  BY Zenon DEF Overlaps
<1>4. overlap'.doc = overlap.doc
  BY Zenon DEF Overlaps
<1> QED BY <1>1, <1>2, <1>3, <1>4

LEMMA OverlapAll ==
  ASSUME overlap \in Overlaps, NEW b \in BOOLEAN, NEW c \in BOOLEAN, NEW d \in BOOLEAN,
         overlap' = [overlap EXCEPT !.doc = d, !.tip = b, !.text = c]
  PROVE  overlap' \in Overlaps /\ overlap'.tip = b /\ overlap'.text = c /\ overlap'.doc = d
<1>1. overlap' \in Overlaps
  BY DEF Overlaps
<1>2. overlap'.tip = b
  BY Zenon DEF Overlaps
<1>3. overlap'.text = c
  BY Zenon DEF Overlaps
<1>4. overlap'.doc = d
  BY Zenon DEF Overlaps
<1> QED BY <1>1, <1>2, <1>3, <1>4

\* there are no more sessions than runs
LEMMA SessionsBounded ==
  ASSUME MemoryShape, SessInv, NEW A, A \subseteq Attempts, \A s \in 1..Len(sess) : sess[s].by \in A
  PROVE  Len(sess) <= Cardinality(A)
<1> DEFINE f == [s \in 1..Len(sess) |-> sess[s].by]
<1>1. f \in [1..Len(sess) -> A] /\ \A s \in 1..Len(sess) : f[s] = sess[s].by
  OBVIOUS
<1> HIDE DEF f
<1>2. \A s, u \in 1..Len(sess) : f[s] = f[u] => s = u
  BY <1>1 DEF SessInv
<1>3. f \in Injection(1..Len(sess), A)
  BY <1>1, <1>2 DEF Injection, IsInjective
<1>4. IsFiniteSet(A)
  BY MemoryConsts, FS_Subset
<1>5. Cardinality(1..Len(sess)) <= Cardinality(A)
  BY <1>3, <1>4, FS_Injection
<1>6. Len(sess) \in Nat
  BY SessFields
<1>7. Cardinality(1..Len(sess)) = Len(sess)
  <2>1. 1 \in Int /\ Len(sess) \in Int
    BY <1>6
  <2>2. Cardinality(1..Len(sess)) = IF 1 > Len(sess) THEN 0 ELSE Len(sess) - 1 + 1
    BY <2>1, FS_Interval
  <2> QED BY <1>6, <2>2
<1> QED BY <1>5, <1>7

LEMMA LenInPlaces ==
  ASSUME MemoryShape, SessInv
  PROVE  Len(sess) \in Places
<1>1. Len(sess) <= Cardinality(Attempts) /\ Len(sess) \in Nat
  BY SessFields, SessionsBounded
<1> QED BY <1>1, MemoryConsts DEF Places

LEMMA CreditsCounted ==
  ASSUME NEW S, S \subseteq Attempts \X Places
  PROVE  IsFiniteSet(S) /\ Cardinality(S) \in Nat
<1>1. IsFiniteSet(Places)
  BY MemoryConsts, FS_Interval DEF Places
<1>2. IsFiniteSet(Attempts \X Places)
  BY <1>1, MemoryConsts, FS_Product
<1> QED BY <1>2, FS_Subset, FS_CardinalityType

LEMMA MovesOn ==
  ASSUME MemoryInv, NEW a \in Attempts, NEW p \in AttPcs, AttTo(a, p),
         att[a].pc \notin {"embed", "store", "mark", "brief_write", "write", "read"},
         p \notin {"embed", "store", "mark", "brief_write", "write", "idle"},
         p = "begun" => att[a].pc = "idle", p = "brief" => att[a].pc = "begun",
         p \in Ended => att[a].pc \in Ended, p \in Looked => att[a].pc \in Looked,
         task' \in TaskStates, UNCHANGED <<embeds, sess, learned, document, overlap>>
  PROVE  MemoryInv'
<1>1. MemoryShape /\ SessInv /\ LookInv /\ AnalysisInv /\ CreditInv /\ TipInv /\ DocInv /\ SeedInv
  BY DEF MemoryInv
<1>2. MemoryShape /\ overlap \in Overlaps
  BY <1>1 DEF MemoryShape
<1>3. /\ \A c \in credits : c[1] \in Attempts /\ c[2] \in Places
      /\ Len(sess) \in Nat /\ \A s \in 1..Len(sess) : sess[s].by \in Attempts
      /\ \A b \in Attempts : att[b].own \in Nat /\ att[b].of \in Nat
      /\ \A b \in Attempts : att[b].own <= Len(sess) /\ (att[b].own # 0 => att[b].own \in 1..Len(sess))
  BY <1>1, <1>2, SessFields, GivenFacts
<1>4. task' \in TaskStates /\ UNCHANGED <<embeds, sess, analysis, tip, credits, vector, document, overlap>>
  BY DEF learned
<1>5. /\ att' \in [Attempts -> AttRows] /\ att'[a].pc = p /\ att'[a].own = att[a].own
      /\ att'[a].of = att[a].of /\ att'[a].read = att[a].read /\ att'[a].text = att[a].text /\ att'[a].saw = att[a].saw
      /\ \A b \in Attempts \ {a} : att'[b] = att[b]
  BY <1>2, AttMoves
<1>6. /\ att[a].pc \notin {"embed", "store", "mark", "brief_write", "write", "read"}
      /\ p \notin {"embed", "store", "mark", "brief_write", "write", "idle"}
      /\ p = "begun" => att[a].pc = "idle"
      /\ p = "brief" => att[a].pc = "begun"
      /\ p \in Ended => att[a].pc \in Ended
      /\ p \in Looked => att[a].pc \in Looked
  OBVIOUS
<1>7. MemoryShape'
  BY <1>1, <1>3, <1>4, <1>5, <1>6, MemoryConsts DEF MemoryShape
<1>8. SessInv'
  <2>1. \A s \in 1..Len(sess') : att'[sess'[s].by].own = s
    BY <1>1, <1>3, <1>4, <1>5, <1>6 DEF SessInv
  <2>2. \A b \in Attempts : att'[b].own <= Len(sess') /\ att'[b].of <= Len(sess')
    BY <1>1, <1>3, <1>4, <1>5, <1>6 DEF SessInv
  <2>3. \A b \in Attempts : /\ att'[b].own # 0 => sess'[att'[b].own].by = b
                            /\ att'[b].pc \in {"idle", "begun"} => att'[b].own = 0
    BY <1>1, <1>3, <1>4, <1>5, <1>6 DEF SessInv
  <2> QED BY <2>1, <2>2, <2>3 DEF SessInv
<1>9. LookInv'
  BY <1>1, <1>3, <1>4, <1>5, <1>6, MemoryConsts DEF LookInv, Ended, Looked
<1>10. AnalysisInv'
  BY <1>1, <1>3, <1>4, <1>5, <1>6, MemoryConsts DEF AnalysisInv
<1>11. CreditInv'
  BY <1>1, <1>3, <1>4, <1>5, <1>6, MemoryConsts DEF CreditInv
<1>12. TipInv'
  BY <1>1, <1>3, <1>4, <1>5, <1>6, MemoryConsts DEF TipInv, InTip
<1>13. DocInv'
  BY <1>1, <1>3, <1>4, <1>5, <1>6, MemoryConsts DEF DocInv, InTip, InDoc
<1>14. SeedInv'
  <2>1. tip'.seeds = tip.seeds
    BY <1>1, <1>3, <1>4, <1>5, <1>6
  <2>2. \A b \in Attempts : att[b].pc \notin Early => att'[b].pc \notin Early
    BY <1>1, <1>3, <1>4, <1>5, <1>6 DEF Early
  <2> QED BY <1>1, <2>1, <2>2, SeedsKept
<1> QED BY <1>7, <1>8, <1>9, <1>10, <1>11, <1>12, <1>13, <1>14 DEF MemoryInv

LEMMA BeginInv ==
  ASSUME MemoryInv, NEW a \in Attempts, Begin(a)
  PROVE  MemoryInv'
<1>1. att[a].pc = "idle" /\ AttTo(a, "begun") /\ task' = [status |-> "running", says |-> "nothing"]
      /\ UNCHANGED <<embeds, sess, learned, document, overlap>>
  BY DEF Begin, AttAt
<1>2. task' \in TaskStates
  BY <1>1 DEF TaskStates
<1>3. "begun" \in AttPcs /\ "begun" \notin Ended /\ "begun" \notin Looked
  BY DEF AttPcs, Ended, Looked
<1> QED BY <1>1, <1>2, <1>3, MovesOn

LEMMA SessionOpened ==
  ASSUME MemoryInv, NEW a \in Attempts, att[a].pc = "begun", sess' = Append(sess, [by |-> a, state |-> "active"]),
         att' = [att EXCEPT ![a].own = Len(sess'), ![a].pc = "brief"],
         UNCHANGED <<embeds, task, learned, document, overlap>>
  PROVE  MemoryInv'
<1>1. MemoryShape /\ SessInv /\ LookInv /\ AnalysisInv /\ CreditInv /\ TipInv /\ DocInv /\ SeedInv
  BY DEF MemoryInv
<1>2. MemoryShape /\ overlap \in Overlaps
  BY <1>1 DEF MemoryShape
<1>3. /\ \A c \in credits : c[1] \in Attempts /\ c[2] \in Places
      /\ Len(sess) \in Nat /\ \A s \in 1..Len(sess) : sess[s].by \in Attempts
      /\ \A b \in Attempts : att[b].own \in Nat /\ att[b].of \in Nat
      /\ \A b \in Attempts : att[b].own <= Len(sess) /\ (att[b].own # 0 => att[b].own \in 1..Len(sess))
  BY <1>1, <1>2, SessFields, GivenFacts
<1>4. UNCHANGED <<embeds, task, analysis, tip, credits, vector, document, overlap>>
  BY DEF learned
<1>5. Len(sess) \in Nat /\ att[a].own = 0 /\ att[a].pc = "begun"
  BY <1>1, <1>2, SessFields DEF SessInv
<1>6. /\ sess' \in Seq(SessRows) /\ Len(sess') = Len(sess) + 1
      /\ \A s \in 1..Len(sess) : sess'[s] = sess[s]
      /\ sess'[Len(sess) + 1].by = a
  <2> DEFINE r == [by |-> a, state |-> "active"]
  <2>1. r \in SessRows /\ r.by = a
    BY DEF SessRows
  <2>2. sess' = Append(sess, r) /\ sess \in Seq(SessRows)
    BY <1>2 DEF MemoryShape
  <2> HIDE DEF r
  <2> QED BY <2>1, <2>2
<1>7. Len(sess') \in Places
  <2> DEFINE A == Attempts \ {a}
  <2>1. \A s \in 1..Len(sess) : sess[s].by \in A
    BY <1>1, <1>2, <1>5, SessFields DEF SessInv
  <2> HIDE DEF A
  <2>2. Len(sess) <= Cardinality(A)
    BY <1>1, <2>1, SessionsBounded DEF A
  <2>3. Cardinality(A) = Cardinality(Attempts) - 1
    BY MemoryConsts, FS_RemoveElement DEF A
  <2> QED BY <1>5, <1>6, <2>2, <2>3, MemoryConsts DEF Places
<1>8. /\ att' \in [Attempts -> AttRows] /\ att'[a].pc = "brief" /\ att'[a].own = Len(sess) + 1
      /\ att'[a].of = att[a].of /\ att'[a].read = att[a].read /\ att'[a].text = att[a].text /\ att'[a].saw = att[a].saw
      /\ \A b \in Attempts \ {a} : att'[b] = att[b]
  <2>1. "brief" \in AttPcs
    BY DEF AttPcs
  <2>2. PICK n \in Places : AttOwns(a, n, "brief") /\ n = Len(sess) + 1
    BY <1>6, <1>7 DEF AttOwns
  <2>3. att' \in [Attempts -> AttRows] /\ att'[a].pc = "brief" /\ att'[a].own = n
        /\ att'[a].of = att[a].of /\ att'[a].read = att[a].read /\ att'[a].text = att[a].text
        /\ att'[a].saw = att[a].saw /\ \A b \in Attempts \ {a} : att'[b] = att[b]
    BY <1>2, <2>1, <2>2, AttOpens
  <2> QED BY <2>2, <2>3
<1>9. \A s \in 1..Len(sess) : sess[s].by # a /\ sess[s].by \in Attempts
  BY <1>1, <1>2, <1>5, SessFields DEF SessInv
<1>10. \A b \in Attempts : att[b].own \in Nat /\ att[b].of \in Nat
  BY <1>2, AttFields, MemoryConsts
<1>11. MemoryShape'
  BY <1>1, <1>3, <1>4, <1>5, <1>6, <1>7, <1>8, <1>9, <1>10, MemoryConsts DEF MemoryShape
<1>12. SessInv'
  <2>1. \A s \in 1..Len(sess') : att'[sess'[s].by].own = s
    BY <1>1, <1>3, <1>4, <1>5, <1>6, <1>7, <1>8, <1>9, <1>10 DEF SessInv
  <2>2. \A b \in Attempts : att'[b].own <= Len(sess') /\ att'[b].of <= Len(sess')
    BY <1>1, <1>3, <1>4, <1>5, <1>6, <1>7, <1>8, <1>9, <1>10 DEF SessInv
  <2>3. \A b \in Attempts : /\ att'[b].own # 0 => sess'[att'[b].own].by = b
                            /\ att'[b].pc \in {"idle", "begun"} => att'[b].own = 0
    BY <1>1, <1>3, <1>4, <1>5, <1>6, <1>7, <1>8, <1>9, <1>10 DEF SessInv
  <2> QED BY <2>1, <2>2, <2>3 DEF SessInv
<1>13. LookInv'
  BY <1>1, <1>3, <1>4, <1>5, <1>6, <1>7, <1>8, <1>9, <1>10, MemoryConsts DEF LookInv, Ended, Looked
<1>14. AnalysisInv'
  BY <1>1, <1>3, <1>4, <1>5, <1>6, <1>7, <1>8, <1>9, <1>10, MemoryConsts DEF AnalysisInv
<1>15. CreditInv'
  BY <1>1, <1>3, <1>4, <1>5, <1>6, <1>7, <1>8, <1>9, <1>10, MemoryConsts DEF CreditInv
<1>16. TipInv'
  <2>1. \A b \in Attempts : att'[b].text = att[b].text
    BY <1>1, <1>3, <1>4, <1>5, <1>6, <1>7, <1>8, <1>9, <1>10
  <2>2. \A b \in Attempts : att'[b].pc \in InTip => att'[b].pc = att[b].pc
    BY <1>1, <1>3, <1>4, <1>5, <1>6, <1>7, <1>8, <1>9, <1>10 DEF InTip
  <2>3. \A b \in Attempts : att[b].pc \in InTip => att'[b].pc = att[b].pc
    BY <1>1, <1>3, <1>4, <1>5, <1>6, <1>7, <1>8, <1>9, <1>10 DEF InTip
  <2> QED BY <1>1, <1>4, <1>7, <2>1, <2>2, <2>3 DEF TipInv, InTip
<1>17. DocInv'
  BY <1>1, <1>3, <1>4, <1>5, <1>6, <1>7, <1>8, <1>9, <1>10, MemoryConsts DEF DocInv, InTip, InDoc
<1>18. SeedInv'
  <2>1. tip'.seeds = tip.seeds
    BY <1>1, <1>3, <1>4, <1>5, <1>6, <1>7, <1>8, <1>9, <1>10
  <2>2. \A b \in Attempts : att[b].pc \notin Early => att'[b].pc \notin Early
    BY <1>1, <1>3, <1>4, <1>5, <1>6, <1>7, <1>8, <1>9, <1>10 DEF Early
  <2> QED BY <1>1, <2>1, <2>2, SeedsKept
<1> QED BY <1>11, <1>12, <1>13, <1>14, <1>15, <1>16, <1>17, <1>18 DEF MemoryInv

LEMMA OpenSessionInv ==
  ASSUME MemoryInv, NEW a \in Attempts, OpenSession(a)
  PROVE  MemoryInv'
<1>1. att[a].pc = "begun" /\ UNCHANGED <<embeds, task, learned, document, overlap>>
  BY DEF OpenSession, AttAt
<1>2. CASE sess' = Append(sess, [by |-> a, state |-> "active"])
           /\ att' = [att EXCEPT ![a].own = Len(sess'), ![a].pc = "brief"]
  BY <1>1, <1>2, SessionOpened
<1>3. ASSUME NEW p \in {"brief", "fail_closing"}, AttTo(a, p), UNCHANGED sess
      PROVE  MemoryInv'
  <2>1. task' \in TaskStates
    BY <1>1 DEF MemoryInv, MemoryShape
  <2>2. p \in AttPcs /\ p \notin Ended /\ p \notin Looked
    BY <1>3 DEF AttPcs, Ended, Looked
  <2> QED BY <1>1, <1>3, <2>1, <2>2, MovesOn
<1> QED BY <1>2, <1>3 DEF OpenSession

LEMMA ListsRead ==
  ASSUME MemoryInv, NEW a \in Attempts, NEW from \in {"brief", "read"}, NEW p \in {"brief_write", "write"}, att[a].pc = from, ReadLists(a, p),
         tip' \in TipRows, tip'.text = tip.text, tip'.status = tip.status,
         tip'.seeds = tip.seeds \/ (from = "brief" /\ tip'.seeds = tip.seeds + 1),
         UNCHANGED <<embeds, task, sess, analysis, credits, vector, document>>
  PROVE  MemoryInv'
<1>1. MemoryShape /\ SessInv /\ LookInv /\ AnalysisInv /\ CreditInv /\ TipInv /\ DocInv /\ SeedInv
  BY DEF MemoryInv
<1>2. MemoryShape /\ overlap \in Overlaps
  BY <1>1 DEF MemoryShape
<1>3. /\ \A c \in credits : c[1] \in Attempts /\ c[2] \in Places
      /\ Len(sess) \in Nat /\ \A s \in 1..Len(sess) : sess[s].by \in Attempts
      /\ \A b \in Attempts : att[b].own \in Nat /\ att[b].of \in Nat
      /\ \A b \in Attempts : att[b].own <= Len(sess) /\ (att[b].own # 0 => att[b].own \in 1..Len(sess))
  BY <1>1, <1>2, SessFields, GivenFacts
<1>4. /\ UNCHANGED <<embeds, task, sess, analysis, credits, vector, document>>
      /\ tip' \in TipRows /\ tip'.text = tip.text /\ tip'.status = tip.status
      /\ tip'.seeds = tip.seeds \/ (att[a].pc = "brief" /\ tip'.seeds = tip.seeds + 1)
      /\ att[a].pc \in {"brief", "read"} /\ p \in {"brief_write", "write"}
  OBVIOUS
<1>5. Others(a, InDoc) \in BOOLEAN /\ Cardinality(credits) \in Nat
  BY <1>2, CreditsCounted DEF Others, MemoryShape
<1>6. /\ att' \in [Attempts -> AttRows] /\ att'[a].pc = p /\ att'[a].own = att[a].own
      /\ att'[a].of = att[a].of /\ att'[a].read = Cardinality(credits) /\ att'[a].text = att[a].text /\ att'[a].saw = att[a].saw
      /\ \A b \in Attempts \ {a} : att'[b] = att[b]
  <2>1. p \in AttPcs
    BY DEF AttPcs
  <2> QED BY <1>2, <1>5, <2>1, AttReads DEF ReadLists, Listed
<1>7. /\ overlap' \in Overlaps /\ overlap'.doc = Others(a, InDoc) /\ overlap'.tip = overlap.tip
      /\ overlap'.text = overlap.text
  BY <1>2, <1>5, OverlapDoc DEF ReadLists
<1>8. MemoryShape'
  BY <1>1, <1>3, <1>4, <1>5, <1>6, <1>7, MemoryConsts DEF MemoryShape
<1>9. SessInv'
  <2>1. \A s \in 1..Len(sess') : att'[sess'[s].by].own = s
    BY <1>1, <1>3, <1>4, <1>5, <1>6, <1>7 DEF SessInv
  <2>2. \A b \in Attempts : att'[b].own <= Len(sess') /\ att'[b].of <= Len(sess')
    BY <1>1, <1>3, <1>4, <1>5, <1>6, <1>7 DEF SessInv
  <2>3. \A b \in Attempts : /\ att'[b].own # 0 => sess'[att'[b].own].by = b
                            /\ att'[b].pc \in {"idle", "begun"} => att'[b].own = 0
    BY <1>1, <1>3, <1>4, <1>5, <1>6, <1>7 DEF SessInv
  <2> QED BY <2>1, <2>2, <2>3 DEF SessInv
<1>10. LookInv'
  BY <1>1, <1>3, <1>4, <1>5, <1>6, <1>7, MemoryConsts DEF LookInv, Ended, Looked
<1>11. AnalysisInv'
  BY <1>1, <1>3, <1>4, <1>5, <1>6, <1>7, MemoryConsts DEF AnalysisInv
<1>12. CreditInv'
  BY <1>1, <1>3, <1>4, <1>5, <1>6, <1>7, MemoryConsts DEF CreditInv
<1>13. TipInv'
  <2>1. \A b \in Attempts : att'[b].text = att[b].text
    BY <1>1, <1>3, <1>4, <1>5, <1>6, <1>7
  <2>2. \A b \in Attempts : att'[b].pc \in InTip => att'[b].pc = att[b].pc
    BY <1>1, <1>3, <1>4, <1>5, <1>6, <1>7 DEF InTip
  <2>3. \A b \in Attempts : att[b].pc \in InTip => att'[b].pc = att[b].pc
    BY <1>1, <1>3, <1>4, <1>5, <1>6, <1>7 DEF InTip
  <2> QED BY <1>1, <1>4, <1>7, <2>1, <2>2, <2>3 DEF TipInv, InTip
<1>14. DocInv'
  <2> SUFFICES ASSUME ~overlap'.doc
               PROVE  /\ \A b, c \in Attempts : att'[b].pc \in InDoc /\ att'[c].pc \in InDoc => b = c
                      /\ \A b \in Attempts : att'[b].pc \in InDoc => att'[b].read = Cardinality(credits)
                      /\ ~(\A b \in Attempts : att'[b].pc \notin InDoc)
    BY <1>4 DEF DocInv
  <2>1. \A b \in Attempts \ {a} : att'[b].pc \notin InDoc
    BY <1>6, <1>7 DEF Others
  <2>2. att'[a].pc \in InDoc /\ att'[a].read = Cardinality(credits)
    BY <1>4, <1>6 DEF InDoc
  <2> QED BY <2>1, <2>2
<1>15. SeedInv'
  <2>1. \A b \in Attempts : att[b].pc \notin Early => att'[b].pc \notin Early
    BY <1>4, <1>6 DEF Early
  <2>2. CASE tip'.seeds = tip.seeds
    BY <1>1, <2>1, <2>2, SeedsKept
  <2>3. CASE att[a].pc = "brief" /\ tip'.seeds = tip.seeds + 1
    <3>1. att'[a].pc \notin Early /\ att[a].pc \in Early
      BY <1>4, <1>6, <2>3 DEF Early
    <3> QED BY <1>1, <2>1, <2>3, <3>1, SeedAdded
  <2> QED BY <1>4, <2>2, <2>3
<1> QED BY <1>8, <1>9, <1>10, <1>11, <1>12, <1>13, <1>14, <1>15 DEF MemoryInv

LEMMA BriefInv ==
  ASSUME MemoryInv, NEW a \in Attempts, Brief(a)
  PROVE  MemoryInv'
<1>1. att[a].pc = "brief" /\ ReadLists(a, "brief_write")
      /\ UNCHANGED <<embeds, task, sess, analysis, credits, vector, document>>
  BY DEF Brief, AttAt
<1>2. PICK n \in {0, 1} : tip' = [tip EXCEPT !.seeds = @ + n]
  BY DEF Brief, Seeded
<1>3. MemoryShape /\ SeedInv /\ tip \in TipRows /\ tip.seeds \in Nat
  BY MemoryConsts DEF MemoryInv, MemoryShape, TipRows
<1> DEFINE k == tip.seeds + n
<1>4. k \in Places /\ (k = tip.seeds \/ k = tip.seeds + 1)
  <2>1. att[a].pc \in Early
    BY <1>1 DEF Early
  <2>2. tip.seeds + 1 <= Cardinality(Attempts)
    BY <1>3, <2>1, RoomForASeed
  <2> QED BY <1>3, <2>2, MemoryConsts DEF Places
<1>5. tip' = [tip EXCEPT !.seeds = k]
  BY <1>2
<1> HIDE DEF k
<1>6. tip' \in TipRows
  BY <1>3, <1>4, <1>5 DEF TipRows
<1>7. tip'.text = tip.text /\ tip'.status = tip.status /\ tip'.seeds = k
  BY <1>3, <1>5 DEF TipRows
<1> QED BY <1>1, <1>4, <1>6, <1>7, ListsRead

LEMMA DocumentWritten ==
  ASSUME MemoryInv, NEW a \in Attempts, NEW from \in {"brief_write", "write"}, NEW next \in {"working", "over"},
         WriteDocument(a, from, next)
  PROVE  MemoryInv'
<1>1. MemoryShape /\ SessInv /\ LookInv /\ AnalysisInv /\ CreditInv /\ TipInv /\ DocInv /\ SeedInv
  BY DEF MemoryInv
<1>2. MemoryShape /\ overlap \in Overlaps
  BY <1>1 DEF MemoryShape
<1>3. /\ \A c \in credits : c[1] \in Attempts /\ c[2] \in Places
      /\ Len(sess) \in Nat /\ \A s \in 1..Len(sess) : sess[s].by \in Attempts
      /\ \A b \in Attempts : att[b].own \in Nat /\ att[b].of \in Nat
      /\ \A b \in Attempts : att[b].own <= Len(sess) /\ (att[b].own # 0 => att[b].own \in 1..Len(sess))
  BY <1>1, <1>2, SessFields, GivenFacts
<1>4. /\ att[a].pc \in {"brief_write", "write"} /\ document' = att[a].read /\ next \in {"working", "over"}
      /\ UNCHANGED <<embeds, task, sess, analysis, tip, credits, vector, overlap>>
  BY DEF WriteDocument, AttAt, learned
<1>5. /\ att' \in [Attempts -> AttRows] /\ att'[a].pc = next /\ att'[a].own = att[a].own
      /\ att'[a].of = att[a].of /\ att'[a].read = att[a].read /\ att'[a].text = att[a].text /\ att'[a].saw = att[a].saw
      /\ \A b \in Attempts \ {a} : att'[b] = att[b]
  <2>1. next \in AttPcs
    BY DEF AttPcs
  <2> QED BY <1>2, <2>1, AttMoves DEF WriteDocument
<1>6. att[a].read \in Nat
  BY <1>2, AttFields
<1>7. MemoryShape'
  BY <1>1, <1>3, <1>4, <1>5, <1>6, MemoryConsts DEF MemoryShape
<1>8. SessInv'
  <2>1. \A s \in 1..Len(sess') : att'[sess'[s].by].own = s
    BY <1>1, <1>3, <1>4, <1>5, <1>6 DEF SessInv
  <2>2. \A b \in Attempts : att'[b].own <= Len(sess') /\ att'[b].of <= Len(sess')
    BY <1>1, <1>3, <1>4, <1>5, <1>6 DEF SessInv
  <2>3. \A b \in Attempts : /\ att'[b].own # 0 => sess'[att'[b].own].by = b
                            /\ att'[b].pc \in {"idle", "begun"} => att'[b].own = 0
    BY <1>1, <1>3, <1>4, <1>5, <1>6 DEF SessInv
  <2> QED BY <2>1, <2>2, <2>3 DEF SessInv
<1>9. LookInv'
  BY <1>1, <1>3, <1>4, <1>5, <1>6, MemoryConsts DEF LookInv, Ended, Looked
<1>10. AnalysisInv'
  BY <1>1, <1>3, <1>4, <1>5, <1>6, MemoryConsts DEF AnalysisInv
<1>11. CreditInv'
  BY <1>1, <1>3, <1>4, <1>5, <1>6, MemoryConsts DEF CreditInv
<1>12. TipInv'
  BY <1>1, <1>3, <1>4, <1>5, <1>6, MemoryConsts DEF TipInv, InTip
<1>13. DocInv'
  <2> SUFFICES ASSUME ~overlap'.doc
               PROVE  /\ \A b, c \in Attempts : att'[b].pc \in InDoc /\ att'[c].pc \in InDoc => b = c
                      /\ (\A b \in Attempts : att'[b].pc \notin InTip \cup {"read"}) =>
                           /\ \A b \in Attempts : att'[b].pc \in InDoc => att'[b].read = Cardinality(credits)
                           /\ (\A b \in Attempts : att'[b].pc \notin InDoc) => document' = Cardinality(credits)
    BY <1>4 DEF DocInv
  <2>1. /\ \A b \in Attempts : att[b].pc \in InDoc => b = a
        /\ (\A b \in Attempts : att[b].pc \notin InTip \cup {"read"}) => att[a].read = Cardinality(credits)
    BY <1>1, <1>4 DEF DocInv, InDoc
  <2>2. \A b \in Attempts : att'[b].pc \notin InDoc
    BY <1>4, <1>5, <2>1 DEF InDoc
  <2>3. (\A b \in Attempts : att'[b].pc \notin InTip \cup {"read"}) =>
          \A b \in Attempts : att[b].pc \notin InTip \cup {"read"}
    BY <1>4, <1>5 DEF InTip
  <2> QED BY <1>4, <2>1, <2>2, <2>3
<1>14. SeedInv'
  <2>1. tip'.seeds = tip.seeds
    BY <1>1, <1>3, <1>4, <1>5, <1>6
  <2>2. \A b \in Attempts : att[b].pc \notin Early => att'[b].pc \notin Early
    BY <1>1, <1>3, <1>4, <1>5, <1>6 DEF Early
  <2> QED BY <1>1, <2>1, <2>2, SeedsKept
<1> QED BY <1>7, <1>8, <1>9, <1>10, <1>11, <1>12, <1>13, <1>14 DEF MemoryInv

LEMMA WorkStepInv ==
  ASSUME MemoryInv, NEW a \in Attempts, Work(a)
  PROVE  MemoryInv'
<1>1. PICK p \in {"completing", "fail_closing"} :
        att[a].pc = "working" /\ AttTo(a, p) /\ UNCHANGED <<embeds, task, sess, learned, document, overlap>>
  BY DEF Work, AttAt
<1>2. task' \in TaskStates
  BY <1>1 DEF MemoryInv, MemoryShape
<1>3. p \in AttPcs /\ p \notin Ended /\ p \notin Looked
  BY DEF AttPcs, Ended, Looked
<1> QED BY <1>1, <1>2, <1>3, MovesOn

LEMMA RowWritten ==
  ASSUME MemoryInv, NEW a \in Attempts, NEW from, NEW status \in {"complete", "failed"}, NEW next \in AttPcs,
         (from = "completing" /\ next = "closing") \/ (from = "failing" /\ next = "analyze"),
         WriteRow(a, from, status, next)
  PROVE  MemoryInv'
<1>1. PICK says \in {"worth", "skip"} : task' = [status |-> status, says |-> says]
  BY DEF WriteRow
<1>2. task' \in TaskStates
  BY <1>1 DEF TaskStates
<1>3. att[a].pc = from /\ AttTo(a, next) /\ UNCHANGED <<embeds, sess, learned, document, overlap>>
  BY DEF WriteRow, AttAt
<1>4. /\ next \in Ended => from \in Ended
      /\ next \notin Looked
  BY DEF Ended, Looked
<1> QED BY <1>2, <1>3, <1>4, MovesOn

LEMMA SkipOrLearnInv ==
  ASSUME MemoryInv, NEW a \in Attempts, SkipOrLearn(a)
  PROVE  MemoryInv'
<1>1. PICK p \in {"read", "analyze2"} :
        att[a].pc = "tips" /\ AttTo(a, p) /\ UNCHANGED <<embeds, task, sess, learned, document, overlap>>
  BY DEF SkipOrLearn, AttAt
<1>2. task' \in TaskStates
  BY <1>1 DEF MemoryInv, MemoryShape
<1>3. p \in AttPcs /\ "tips" \in Ended /\ "tips" \in Looked
  BY DEF AttPcs, Ended, Looked
<1> QED BY <1>1, <1>2, <1>3, MovesOn

LEMMA CancelTaskInv ==
  ASSUME MemoryInv, CancelTask
  PROVE  MemoryInv'
<1>1. UNCHANGED <<embeds, sess, analysis, tip, credits, vector, document, att, overlap>>
  BY DEF CancelTask, learned
<1>2. task' \in TaskStates
  BY DEF CancelTask, MemoryInv, MemoryShape, TaskStates
<1>3. MemoryShape'
  BY <1>1, <1>2 DEF MemoryInv, MemoryShape
<1> QED BY <1>1, <1>3 DEF MemoryInv, SessInv, LookInv, AnalysisInv, CreditInv, TipInv, DocInv,
           SeedInv

LEMMA SessionEnded ==
  ASSUME MemoryInv, NEW a \in Attempts, NEW st \in {"completed", "failed"}, NEW next \in {"analyze", "failing"},
         NEW from \in {"closing", "fail_closing"}, EndSession(a, from, st, next)
  PROVE  MemoryInv'
<1>1. MemoryShape /\ SessInv /\ LookInv /\ AnalysisInv /\ CreditInv /\ TipInv /\ DocInv /\ SeedInv
  BY DEF MemoryInv
<1>2. MemoryShape /\ overlap \in Overlaps
  BY <1>1 DEF MemoryShape
<1>3. /\ \A c \in credits : c[1] \in Attempts /\ c[2] \in Places
      /\ Len(sess) \in Nat /\ \A s \in 1..Len(sess) : sess[s].by \in Attempts
      /\ \A b \in Attempts : att[b].own \in Nat /\ att[b].of \in Nat
      /\ \A b \in Attempts : att[b].own <= Len(sess) /\ (att[b].own # 0 => att[b].own \in 1..Len(sess))
  BY <1>1, <1>2, SessFields, GivenFacts
<1>4. /\ att[a].pc \in {"closing", "fail_closing"} /\ next \in {"analyze", "failing"}
      /\ UNCHANGED <<embeds, task, analysis, tip, credits, vector, document, overlap>>
  BY DEF EndSession, AttAt, learned
<1>5. /\ att' \in [Attempts -> AttRows] /\ att'[a].pc = next /\ att'[a].own = att[a].own
      /\ att'[a].of = att[a].of /\ att'[a].read = att[a].read /\ att'[a].text = att[a].text /\ att'[a].saw = att[a].saw
      /\ \A b \in Attempts \ {a} : att'[b] = att[b]
  <2>1. next \in AttPcs
    BY DEF AttPcs
  <2> QED BY <1>2, <2>1, AttMoves DEF EndSession
<1>6. \A b \in Attempts : att[b].own \in 0..Len(sess) /\ att[b].of \in Nat
  BY <1>3
<1>7. /\ sess' \in Seq(SessRows) /\ Len(sess') = Len(sess)
      /\ \A s \in 1..Len(sess) : /\ sess'[s].by = sess[s].by
                                 /\ sess'[s].state = "active" => sess[s].state = "active"
      /\ att[a].own # 0 => sess'[att[a].own].state # "active"
  <2>1. CASE att[a].own = 0
    BY <1>2, <2>1 DEF EndSession, MemoryShape
  <2>2. CASE att[a].own # 0
    <3> DEFINE r == [sess[att[a].own] EXCEPT !.state = st]
    <3>1. att[a].own \in 1..Len(sess)
      BY <1>6, <2>2
    <3>2. sess[att[a].own] \in SessRows /\ sess \in Seq(SessRows)
      BY <1>2, <3>1, SessFields DEF MemoryShape
    <3>3. r \in SessRows
      BY <3>2 DEF SessRows
    <3>4. r.by = sess[att[a].own].by
      BY <3>2 DEF SessRows
    <3>5. r.state = st
      BY <3>2 DEF SessRows
    <3>6. sess' = [sess EXCEPT ![att[a].own] = r]
      BY <2>2 DEF EndSession
    <3> HIDE DEF r
    <3>7. sess' \in Seq(SessRows) /\ Len(sess') = Len(sess)
      BY <3>1, <3>2, <3>3, <3>6
    <3>8. sess'[att[a].own] = r /\ \A s \in 1..Len(sess) : s # att[a].own => sess'[s] = sess[s]
      BY <3>1, <3>2, <3>6
    <3> QED BY <3>4, <3>5, <3>7, <3>8
  <2> QED BY <2>1, <2>2
<1>8. \A s \in 1..Len(sess) : sess[s].by \in Attempts
  BY <1>2, SessFields
<1>9. MemoryShape'
  BY <1>1, <1>3, <1>4, <1>5, <1>6, <1>7, <1>8, MemoryConsts DEF MemoryShape
<1>10. SessInv'
  <2>1. \A s \in 1..Len(sess') : att'[sess'[s].by].own = s
    BY <1>1, <1>3, <1>4, <1>5, <1>6, <1>7, <1>8 DEF SessInv
  <2>2. \A b \in Attempts : att'[b].own <= Len(sess') /\ att'[b].of <= Len(sess')
    BY <1>1, <1>3, <1>4, <1>5, <1>6, <1>7, <1>8 DEF SessInv
  <2>3. \A b \in Attempts : /\ att'[b].own # 0 => sess'[att'[b].own].by = b
                            /\ att'[b].pc \in {"idle", "begun"} => att'[b].own = 0
    BY <1>1, <1>3, <1>4, <1>5, <1>6, <1>7, <1>8 DEF SessInv
  <2> QED BY <2>1, <2>2, <2>3 DEF SessInv
<1>11. LookInv'
  BY <1>1, <1>3, <1>4, <1>5, <1>6, <1>7, <1>8, MemoryConsts DEF LookInv, Ended, Looked
<1>12. AnalysisInv'
  BY <1>1, <1>3, <1>4, <1>5, <1>6, <1>7, <1>8, MemoryConsts DEF AnalysisInv
<1>13. CreditInv'
  BY <1>1, <1>3, <1>4, <1>5, <1>6, <1>7, <1>8, MemoryConsts DEF CreditInv
<1>14. TipInv'
  BY <1>1, <1>4, <1>5 DEF TipInv, InTip
<1>15. DocInv'
  BY <1>1, <1>4, <1>5 DEF DocInv, InTip, InDoc
<1>16. SeedInv'
  <2>1. tip'.seeds = tip.seeds
    BY <1>1, <1>3, <1>4, <1>5, <1>6, <1>7, <1>8
  <2>2. \A b \in Attempts : att[b].pc \notin Early => att'[b].pc \notin Early
    BY <1>1, <1>3, <1>4, <1>5, <1>6, <1>7, <1>8 DEF Early
  <2> QED BY <1>1, <2>1, <2>2, SeedsKept
<1> QED BY <1>9, <1>10, <1>11, <1>12, <1>13, <1>14, <1>15, <1>16 DEF MemoryInv

LEMMA AttemptDiesInv ==
  ASSUME MemoryInv, NEW a \in Attempts, AttemptDies(a)
  PROVE  MemoryInv'
<1>1. MemoryShape /\ SessInv /\ LookInv /\ AnalysisInv /\ CreditInv /\ TipInv /\ DocInv /\ SeedInv
  BY DEF MemoryInv
<1>2. MemoryShape /\ overlap \in Overlaps
  BY <1>1 DEF MemoryShape
<1>3. /\ \A c \in credits : c[1] \in Attempts /\ c[2] \in Places
      /\ Len(sess) \in Nat /\ \A s \in 1..Len(sess) : sess[s].by \in Attempts
      /\ \A b \in Attempts : att[b].own \in Nat /\ att[b].of \in Nat
      /\ \A b \in Attempts : att[b].own <= Len(sess) /\ (att[b].own # 0 => att[b].own \in 1..Len(sess))
  BY <1>1, <1>2, SessFields, GivenFacts
<1>4. /\ att[a].pc \notin {"idle", "over"}
      /\ UNCHANGED <<embeds, task, sess, analysis, tip, credits, vector, document>>
  BY DEF AttemptDies, learned
<1>5. /\ att' \in [Attempts -> AttRows] /\ att'[a].pc = "over" /\ att'[a].own = att[a].own
      /\ att'[a].of = att[a].of /\ att'[a].read = att[a].read /\ att'[a].text = att[a].text /\ att'[a].saw = att[a].saw
      /\ \A b \in Attempts \ {a} : att'[b] = att[b]
  <2>1. "over" \in AttPcs
    BY DEF AttPcs
  <2> QED BY <1>2, <2>1, AttMoves DEF AttemptDies
<1>6. /\ overlap' \in Overlaps
      /\ overlap'.doc <=> (overlap.doc \/ att[a].pc \in Owing \cup InDoc)
      /\ overlap'.tip <=> (overlap.tip \/ att[a].pc \in InTip)
      /\ overlap'.text <=> (overlap.text \/ att[a].pc \in InTip)
  <2> DEFINE b == overlap.tip \/ att[a].pc \in InTip
             c == overlap.text \/ att[a].pc \in InTip
             d == overlap.doc \/ att[a].pc \in Owing \cup InDoc
  <2>1. b \in BOOLEAN /\ c \in BOOLEAN /\ d \in BOOLEAN
    OBVIOUS
  <2>2. overlap' = [overlap EXCEPT !.doc = d, !.tip = b, !.text = c]
    BY DEF AttemptDies
  <2> HIDE DEF b, c, d
  <2>3. overlap' \in Overlaps /\ overlap'.tip = b /\ overlap'.text = c /\ overlap'.doc = d
    BY <1>2, <2>1, <2>2, OverlapAll
  <2> QED BY <2>3 DEF b, c, d
<1>7. MemoryShape'
  BY <1>1, <1>3, <1>4, <1>5, <1>6, MemoryConsts DEF MemoryShape
<1>8. SessInv'
  <2>1. \A s \in 1..Len(sess') : att'[sess'[s].by].own = s
    BY <1>1, <1>3, <1>4, <1>5, <1>6 DEF SessInv
  <2>2. \A b \in Attempts : att'[b].own <= Len(sess') /\ att'[b].of <= Len(sess')
    BY <1>1, <1>3, <1>4, <1>5, <1>6 DEF SessInv
  <2>3. \A b \in Attempts : /\ att'[b].own # 0 => sess'[att'[b].own].by = b
                            /\ att'[b].pc \in {"idle", "begun"} => att'[b].own = 0
    BY <1>1, <1>3, <1>4, <1>5, <1>6 DEF SessInv
  <2> QED BY <2>1, <2>2, <2>3 DEF SessInv
<1>9. LookInv'
  BY <1>1, <1>3, <1>4, <1>5, <1>6, MemoryConsts DEF LookInv, Ended, Looked
<1>10. AnalysisInv'
  BY <1>1, <1>3, <1>4, <1>5, <1>6, MemoryConsts DEF AnalysisInv
<1>11. CreditInv'
  BY <1>1, <1>3, <1>4, <1>5, <1>6, MemoryConsts DEF CreditInv
<1>12. TipInv'
  BY <1>1, <1>3, <1>4, <1>5, <1>6, MemoryConsts DEF TipInv, InTip
<1>13. DocInv'
  BY <1>1, <1>3, <1>4, <1>5, <1>6 DEF DocInv, InTip, InDoc, Owing
<1>14. SeedInv'
  <2>1. tip'.seeds = tip.seeds
    BY <1>1, <1>3, <1>4, <1>5, <1>6
  <2>2. \A b \in Attempts : att[b].pc \notin Early => att'[b].pc \notin Early
    BY <1>1, <1>3, <1>4, <1>5, <1>6 DEF Early
  <2> QED BY <1>1, <2>1, <2>2, SeedsKept
<1> QED BY <1>7, <1>8, <1>9, <1>10, <1>11, <1>12, <1>13, <1>14 DEF MemoryInv

LEMMA Analyzed ==
  ASSUME MemoryInv, NEW a \in Attempts, NEW from \in {"analyze", "analyze2"}, NEW asking \in {"asking", "asking2"},
         NEW next \in {"tips", "upsert"}, Analyze(a, from, asking, next)
  PROVE  MemoryInv'
<1>1. MemoryShape /\ SessInv /\ LookInv /\ AnalysisInv /\ CreditInv /\ TipInv /\ DocInv /\ SeedInv
  BY DEF MemoryInv
<1>2. MemoryShape /\ overlap \in Overlaps
  BY <1>1 DEF MemoryShape
<1>3. /\ \A c \in credits : c[1] \in Attempts /\ c[2] \in Places
      /\ Len(sess) \in Nat /\ \A s \in 1..Len(sess) : sess[s].by \in Attempts
      /\ \A b \in Attempts : att[b].own \in Nat /\ att[b].of \in Nat
      /\ \A b \in Attempts : att[b].own <= Len(sess) /\ (att[b].own # 0 => att[b].own \in 1..Len(sess))
  BY <1>1, <1>2, SessFields, GivenFacts
<1>4. /\ att[a].pc \in {"analyze", "analyze2"}
      /\ UNCHANGED <<embeds, task, sess, analysis, tip, credits, vector, document, overlap>>
  BY DEF Analyze, AttAt, learned
<1>5. Len(sess) \in Places /\ Len(sess) \in Nat /\ Len(sess) <= Len(sess)
  BY <1>1, <1>2, LenInPlaces, SessFields
<1>6. /\ analysis[Len(sess)].text \in Texts \cup {NoText}
      /\ Seen(Len(sess)) \in {"none", "active", "completed", "failed"}
      /\ Len(sess) # 0 => Seen(Len(sess)) = sess[Len(sess)].state
  <2>1. analysis[Len(sess)] \in Analyses
    BY <1>2, <1>5 DEF MemoryShape
  <2> QED BY <1>2, <1>5, <2>1, SessFields DEF Analyses, Seen
<1>7. PICK p \in {"tips", "upsert", "asking", "asking2"} :
        att' = [att EXCEPT ![a].of = Len(sess), ![a].text = analysis[Len(sess)].text,
                           ![a].saw = Seen(Len(sess)), ![a].pc = p]
  BY DEF Analyze, LatestSession
<1>8. /\ att' \in [Attempts -> AttRows] /\ att'[a].pc = p /\ att'[a].own = att[a].own
      /\ att'[a].of = Len(sess) /\ att'[a].read = att[a].read /\ att'[a].text = analysis[Len(sess)].text /\ att'[a].saw = Seen(Len(sess))
      /\ \A b \in Attempts \ {a} : att'[b] = att[b]
  <2>1. p \in AttPcs
    BY DEF AttPcs
  <2>2. PICK n \in Places, x \in Texts \cup {NoText}, k \in {"none", "active", "completed", "failed"} :
          /\ AttSees(a, n, x, k, p)
          /\ n = Len(sess) /\ x = analysis[Len(sess)].text /\ k = Seen(Len(sess))
    BY <1>5, <1>6, <1>7 DEF AttSees
  <2>3. att' \in [Attempts -> AttRows] /\ att'[a].pc = p /\ att'[a].own = att[a].own
        /\ att'[a].of = n /\ att'[a].read = att[a].read /\ att'[a].text = x
        /\ att'[a].saw = k /\ \A b \in Attempts \ {a} : att'[b] = att[b]
    BY <1>2, <2>1, <2>2, AttLooks
  <2> QED BY <2>2, <2>3
<1>9. \A b \in Attempts : att[b].own \in Nat /\ att[b].of \in Nat
  BY <1>2, AttFields, MemoryConsts
<1>10. MemoryShape'
  BY <1>1, <1>3, <1>4, <1>5, <1>6, <1>7, <1>8, <1>9, MemoryConsts DEF MemoryShape
<1>11. SessInv'
  <2>1. \A s \in 1..Len(sess') : att'[sess'[s].by].own = s
    BY <1>1, <1>3, <1>4, <1>5, <1>6, <1>7, <1>8, <1>9 DEF SessInv
  <2>2. \A b \in Attempts : att'[b].own <= Len(sess') /\ att'[b].of <= Len(sess')
    BY <1>1, <1>3, <1>4, <1>5, <1>6, <1>7, <1>8, <1>9 DEF SessInv
  <2>3. \A b \in Attempts : /\ att'[b].own # 0 => sess'[att'[b].own].by = b
                            /\ att'[b].pc \in {"idle", "begun"} => att'[b].own = 0
    BY <1>1, <1>3, <1>4, <1>5, <1>6, <1>7, <1>8, <1>9 DEF SessInv
  <2> QED BY <2>1, <2>2, <2>3 DEF SessInv
<1>12. LookInv'
  BY <1>1, <1>3, <1>4, <1>5, <1>6, <1>7, <1>8, <1>9, MemoryConsts DEF LookInv, Ended, Looked
<1>13. AnalysisInv'
  BY <1>1, <1>3, <1>4, <1>5, <1>6, <1>7, <1>8, <1>9, MemoryConsts DEF AnalysisInv
<1>14. CreditInv'
  BY <1>1, <1>3, <1>4, <1>5, <1>6, <1>7, <1>8, <1>9, MemoryConsts DEF CreditInv
<1>15. TipInv'
  BY <1>1, <1>3, <1>4, <1>5, <1>6, <1>7, <1>8, <1>9, MemoryConsts DEF TipInv, InTip
<1>16. DocInv'
  BY <1>1, <1>3, <1>4, <1>5, <1>6, <1>7, <1>8, <1>9, MemoryConsts DEF DocInv, InTip, InDoc
<1>17. SeedInv'
  <2>1. tip'.seeds = tip.seeds
    BY <1>1, <1>3, <1>4, <1>5, <1>6, <1>7, <1>8, <1>9
  <2>2. \A b \in Attempts : att[b].pc \notin Early => att'[b].pc \notin Early
    BY <1>1, <1>3, <1>4, <1>5, <1>6, <1>7, <1>8, <1>9 DEF Early
  <2> QED BY <1>1, <2>1, <2>2, SeedsKept
<1> QED BY <1>10, <1>11, <1>12, <1>13, <1>14, <1>15, <1>16, <1>17 DEF MemoryInv

LEMMA Answered ==
  ASSUME MemoryInv, NEW a \in Attempts, NEW asking, NEW next, (asking = "asking" /\ next = "tips") \/ (asking = "asking2" /\ next = "upsert"),
         Answer(a, asking, next)
  PROVE  MemoryInv'
<1>1. MemoryShape /\ SessInv /\ LookInv /\ AnalysisInv /\ CreditInv /\ TipInv /\ DocInv /\ SeedInv
  BY DEF MemoryInv
<1>2. MemoryShape /\ overlap \in Overlaps
  BY <1>1 DEF MemoryShape
<1>3. /\ \A c \in credits : c[1] \in Attempts /\ c[2] \in Places
      /\ Len(sess) \in Nat /\ \A s \in 1..Len(sess) : sess[s].by \in Attempts
      /\ \A b \in Attempts : att[b].own \in Nat /\ att[b].of \in Nat
      /\ \A b \in Attempts : att[b].own <= Len(sess) /\ (att[b].own # 0 => att[b].own \in 1..Len(sess))
  BY <1>1, <1>2, SessFields, GivenFacts
<1>4. /\ att[a].pc \in {"asking", "asking2"} /\ next \in {"tips", "upsert"}
      /\ UNCHANGED <<embeds, task, sess, tip, credits, vector, document, overlap>>
  BY DEF Answer, AttAt
<1>5. PICK x \in Texts : UpsertAnalysis(a, x) /\ att' = [att EXCEPT ![a].text = x, ![a].pc = next]
  BY DEF Answer, Readings
<1>6. /\ att' \in [Attempts -> AttRows] /\ att'[a].pc = next /\ att'[a].own = att[a].own
      /\ att'[a].of = att[a].of /\ att'[a].read = att[a].read /\ att'[a].text = x /\ att'[a].saw = att[a].saw
      /\ \A b \in Attempts \ {a} : att'[b] = att[b]
  <2>1. next \in AttPcs /\ x \in Texts \cup {NoText}
    BY <1>4 DEF AttPcs
  <2> QED BY <1>2, <1>5, <2>1, AttHears
<1>7. /\ att[a].of \in Places /\ att[a].saw \in {"none", "active", "completed", "failed"}
      /\ Len(sess) \in Nat /\ \A b \in Attempts : att[b].own \in Nat /\ att[b].of \in Nat
  BY <1>2, AttFields, SessFields, MemoryConsts
<1>8. /\ analysis' \in [Places -> Analyses] /\ analysis'[att[a].of].saw = att[a].saw
      /\ analysis'[att[a].of].by = a /\ \A s \in Places \ {att[a].of} : analysis'[s] = analysis[s]
  <2> DEFINE r == [by |-> a, saw |-> att[a].saw, text |-> x]
  <2>1. r \in Analyses /\ r.by = a /\ r.saw = att[a].saw
    BY <1>7 DEF Analyses
  <2>2. analysis' = [analysis EXCEPT ![att[a].of] = r]
    BY <1>5 DEF UpsertAnalysis
  <2> HIDE DEF r
  <2> QED BY <1>2, <1>7, <2>1, <2>2 DEF MemoryShape
<1>9. MemoryShape'
  BY <1>1, <1>3, <1>4, <1>5, <1>6, <1>7, <1>8, MemoryConsts DEF MemoryShape
<1>10. SessInv'
  <2>1. \A s \in 1..Len(sess') : att'[sess'[s].by].own = s
    BY <1>1, <1>3, <1>4, <1>5, <1>6, <1>7, <1>8 DEF SessInv
  <2>2. \A b \in Attempts : att'[b].own <= Len(sess') /\ att'[b].of <= Len(sess')
    BY <1>1, <1>3, <1>4, <1>5, <1>6, <1>7, <1>8 DEF SessInv
  <2>3. \A b \in Attempts : /\ att'[b].own # 0 => sess'[att'[b].own].by = b
                            /\ att'[b].pc \in {"idle", "begun"} => att'[b].own = 0
    BY <1>1, <1>3, <1>4, <1>5, <1>6, <1>7, <1>8 DEF SessInv
  <2> QED BY <2>1, <2>2, <2>3 DEF SessInv
<1>11. LookInv'
  BY <1>1, <1>3, <1>4, <1>5, <1>6, <1>7, <1>8, MemoryConsts DEF LookInv, Ended, Looked
<1>12. AnalysisInv'
  <2> SUFFICES ASSUME NEW s \in Places, analysis'[s].saw = "active"
               PROVE  s \in 0..Len(sess) /\ (s # 0 => analysis'[s].by # sess[s].by)
    BY <1>4 DEF AnalysisInv
  <2>1. CASE s # att[a].of
    BY <1>1, <1>8, <2>1 DEF AnalysisInv
  <2>2. CASE s = att[a].of
    <3>1. s \in 0..Len(sess) /\ att[a].saw = "active" /\ analysis'[s].by = a
      BY <1>1, <1>7, <1>8, <2>2 DEF SessInv
    <3>2. att[a].pc \in Looked
      BY <1>4 DEF Looked
    <3>3. ASSUME s # 0, sess[s].by = a PROVE FALSE
      <4>1. att[a].own = s
        BY <1>1, <3>1, <3>3 DEF SessInv
      <4> QED BY <1>1, <2>2, <3>1, <3>2, <3>3, <4>1 DEF LookInv
    <3> QED BY <3>1, <3>3
  <2> QED BY <2>1, <2>2
<1>13. CreditInv'
  BY <1>1, <1>3, <1>4, <1>5, <1>6, <1>7, <1>8, MemoryConsts DEF CreditInv
<1>14. TipInv'
  BY <1>1, <1>3, <1>4, <1>5, <1>6, <1>7, <1>8, MemoryConsts DEF TipInv, InTip
<1>15. DocInv'
  BY <1>1, <1>3, <1>4, <1>5, <1>6, <1>7, <1>8, MemoryConsts DEF DocInv, InTip, InDoc
<1>16. SeedInv'
  <2>1. tip'.seeds = tip.seeds
    BY <1>1, <1>3, <1>4, <1>5, <1>6, <1>7, <1>8
  <2>2. \A b \in Attempts : att[b].pc \notin Early => att'[b].pc \notin Early
    BY <1>1, <1>3, <1>4, <1>5, <1>6, <1>7, <1>8 DEF Early
  <2> QED BY <1>1, <2>1, <2>2, SeedsKept
<1> QED BY <1>9, <1>10, <1>11, <1>12, <1>13, <1>14, <1>15, <1>16 DEF MemoryInv

LEMMA UpsertTipInv ==
  ASSUME MemoryInv, NEW a \in Attempts, UpsertTip(a)
  PROVE  MemoryInv'
<1>1. MemoryShape /\ SessInv /\ LookInv /\ AnalysisInv /\ CreditInv /\ TipInv /\ DocInv /\ SeedInv
  BY DEF MemoryInv
<1>2. MemoryShape /\ overlap \in Overlaps
  BY <1>1 DEF MemoryShape
<1>3. /\ \A c \in credits : c[1] \in Attempts /\ c[2] \in Places
      /\ Len(sess) \in Nat /\ \A s \in 1..Len(sess) : sess[s].by \in Attempts
      /\ \A b \in Attempts : att[b].own \in Nat /\ att[b].of \in Nat
      /\ \A b \in Attempts : att[b].own <= Len(sess) /\ (att[b].own # 0 => att[b].own \in 1..Len(sess))
  BY <1>1, <1>2, SessFields, GivenFacts
<1>4. /\ att[a].pc = "upsert" /\ credits' = credits \cup {<<a, att[a].of>>}
      /\ UNCHANGED <<embeds, task, sess, analysis, vector, document>>
  BY DEF UpsertTip, AttAt, Credited
<1>5. /\ att' \in [Attempts -> AttRows] /\ att'[a].pc = "embed" /\ att'[a].own = att[a].own
      /\ att'[a].of = att[a].of /\ att'[a].read = att[a].read /\ att'[a].text = att[a].text /\ att'[a].saw = att[a].saw
      /\ \A b \in Attempts \ {a} : att'[b] = att[b]
  <2>1. "embed" \in AttPcs
    BY DEF AttPcs
  <2> QED BY <1>2, <2>1, AttMoves DEF UpsertTip
<1>6. /\ att[a].of \in Places /\ att[a].text \in Texts \cup {NoText} /\ tip \in TipRows
      /\ Len(sess) \in Nat /\ \A b \in Attempts : att[b].own \in Nat /\ att[b].of \in Nat
  BY <1>2, AttFields, SessFields, MemoryConsts DEF MemoryShape
<1>7. /\ tip' \in TipRows /\ tip'.text = att[a].text /\ tip'.seeds = tip.seeds
      /\ tip'.status = "embedded" => tip.text = att[a].text /\ tip.status = "embedded"
  <2> DEFINE x == att[a].text
             y == IF tip.text # att[a].text THEN "pending" ELSE tip.status
  <2>1. x \in Texts \cup {NoText} /\ y \in {"none", "pending", "disabled", "error", "embedded"}
        /\ (y = "embedded" => tip.text = att[a].text /\ tip.status = "embedded")
    BY <1>6 DEF TipRows
  <2>2. tip' = [tip EXCEPT !.text = x, !.status = y]
    BY DEF UpsertTip, TipOf
  <2> HIDE DEF x, y
  <2>3. tip' \in TipRows
    BY <1>6, <2>1, <2>2 DEF TipRows
  <2>4. tip'.text = x
    BY <1>6, <2>2 DEF TipRows
  <2>5. tip'.status = y
    BY <1>6, <2>2 DEF TipRows
  <2>6. tip'.seeds = tip.seeds
    BY <1>6, <2>2 DEF TipRows
  <2> QED BY <2>1, <2>3, <2>4, <2>5, <2>6 DEF x
<1>8. /\ overlap' \in Overlaps /\ (overlap'.doc <=> overlap.doc)
      /\ overlap'.tip <=> Others(a, InTip)
      /\ overlap'.text <=> (Others(a, InTip) \/ (overlap.text /\ tip.text = att[a].text))
  <2> DEFINE b == Others(a, InTip)
             c == Others(a, InTip) \/ (overlap.text /\ tip.text = att[a].text)
  <2>1. b \in BOOLEAN /\ c \in BOOLEAN
    BY DEF Others
  <2>2. overlap' = [overlap EXCEPT !.tip = b, !.text = c]
    BY DEF UpsertTip, TipOf
  <2> HIDE DEF b, c
  <2>3. overlap' \in Overlaps /\ overlap'.tip = b /\ overlap'.text = c /\ overlap'.doc = overlap.doc
    BY <1>2, <2>1, <2>2, OverlapTip
  <2> QED BY <2>3 DEF b, c
<1>9. MemoryShape'
  BY <1>1, <1>3, <1>4, <1>5, <1>6, <1>7, <1>8, MemoryConsts DEF MemoryShape
<1>10. SessInv'
  <2>1. \A s \in 1..Len(sess') : att'[sess'[s].by].own = s
    BY <1>1, <1>3, <1>4, <1>5, <1>6, <1>7, <1>8 DEF SessInv
  <2>2. \A b \in Attempts : att'[b].own <= Len(sess') /\ att'[b].of <= Len(sess')
    BY <1>1, <1>3, <1>4, <1>5, <1>6, <1>7, <1>8 DEF SessInv
  <2>3. \A b \in Attempts : /\ att'[b].own # 0 => sess'[att'[b].own].by = b
                            /\ att'[b].pc \in {"idle", "begun"} => att'[b].own = 0
    BY <1>1, <1>3, <1>4, <1>5, <1>6, <1>7, <1>8 DEF SessInv
  <2> QED BY <2>1, <2>2, <2>3 DEF SessInv
<1>11. LookInv'
  BY <1>1, <1>3, <1>4, <1>5, <1>6, <1>7, <1>8, MemoryConsts DEF LookInv, Ended, Looked
<1>12. AnalysisInv'
  BY <1>1, <1>3, <1>4, <1>5, <1>6, <1>7, <1>8, MemoryConsts DEF AnalysisInv
<1>13. CreditInv'
  <2>1. att[a].own <= att[a].of
    BY <1>1, <1>4 DEF LookInv, Looked
  <2> QED BY <1>1, <1>3, <1>4, <1>5, <1>6, <2>1 DEF CreditInv
<1>14. TipInv'
  <2>1. \A b \in Attempts \ {a} : att'[b].pc = att[b].pc /\ att'[b].text = att[b].text
    BY <1>5
  <2>2. ~overlap'.tip => \A b \in Attempts \ {a} : att[b].pc \notin InTip
    BY <1>8 DEF Others
  <2>3. ~overlap'.text => ~overlap'.tip
    BY <1>8
  <2>4. ASSUME ~overlap'.text, tip'.status = "embedded" PROVE vector' = tip'.text
    BY <1>1, <1>4, <1>7, <1>8, <2>4 DEF TipInv
  <2> QED BY <1>4, <1>5, <1>7, <2>1, <2>2, <2>3, <2>4 DEF TipInv, InTip
<1>15. DocInv'
  <2>1. ~(\A b \in Attempts : att'[b].pc \notin InTip \cup {"read"})
    BY <1>5 DEF InTip
  <2> QED BY <1>1, <1>4, <1>5, <1>8, <2>1 DEF DocInv, InDoc
<1>16. SeedInv'
  <2>1. tip'.seeds = tip.seeds
    BY <1>1, <1>3, <1>4, <1>5, <1>6, <1>7, <1>8
  <2>2. \A b \in Attempts : att[b].pc \notin Early => att'[b].pc \notin Early
    BY <1>1, <1>3, <1>4, <1>5, <1>6, <1>7, <1>8 DEF Early
  <2> QED BY <1>1, <2>1, <2>2, SeedsKept
<1> QED BY <1>9, <1>10, <1>11, <1>12, <1>13, <1>14, <1>15, <1>16 DEF MemoryInv

LEMMA TipLeft ==
  ASSUME MemoryInv, NEW a \in Attempts, att[a].pc = "embed", NEW st \in {"disabled", "error"}, tip' = [tip EXCEPT !.status = st],
         AttTo(a, "read"), UNCHANGED <<embeds, task, sess, analysis, credits, vector, document, overlap>>
  PROVE  MemoryInv'
<1>1. MemoryShape /\ SessInv /\ LookInv /\ AnalysisInv /\ CreditInv /\ TipInv /\ DocInv /\ SeedInv
  BY DEF MemoryInv
<1>2. MemoryShape /\ overlap \in Overlaps
  BY <1>1 DEF MemoryShape
<1>3. /\ \A c \in credits : c[1] \in Attempts /\ c[2] \in Places
      /\ Len(sess) \in Nat /\ \A s \in 1..Len(sess) : sess[s].by \in Attempts
      /\ \A b \in Attempts : att[b].own \in Nat /\ att[b].of \in Nat
      /\ \A b \in Attempts : att[b].own <= Len(sess) /\ (att[b].own # 0 => att[b].own \in 1..Len(sess))
  BY <1>1, <1>2, SessFields, GivenFacts
<1>4. att[a].pc = "embed" /\ UNCHANGED <<embeds, task, sess, analysis, credits, vector, document, overlap>>
  OBVIOUS
<1>5. /\ att' \in [Attempts -> AttRows] /\ att'[a].pc = "read" /\ att'[a].own = att[a].own
      /\ att'[a].of = att[a].of /\ att'[a].read = att[a].read /\ att'[a].text = att[a].text /\ att'[a].saw = att[a].saw
      /\ \A b \in Attempts \ {a} : att'[b] = att[b]
  <2>1. "read" \in AttPcs
    BY DEF AttPcs
  <2> QED BY <1>2, <2>1, AttMoves
<1>6. /\ tip' \in TipRows /\ tip'.text = tip.text /\ tip'.seeds = tip.seeds /\ tip'.status = st /\ st # "embedded"
  <2>1. tip \in TipRows
    BY <1>2 DEF MemoryShape
  <2> QED BY <2>1 DEF TipRows
<1>7. MemoryShape'
  BY <1>1, <1>3, <1>4, <1>5, <1>6, MemoryConsts DEF MemoryShape
<1>8. SessInv'
  <2>1. \A s \in 1..Len(sess') : att'[sess'[s].by].own = s
    BY <1>1, <1>3, <1>4, <1>5, <1>6 DEF SessInv
  <2>2. \A b \in Attempts : att'[b].own <= Len(sess') /\ att'[b].of <= Len(sess')
    BY <1>1, <1>3, <1>4, <1>5, <1>6 DEF SessInv
  <2>3. \A b \in Attempts : /\ att'[b].own # 0 => sess'[att'[b].own].by = b
                            /\ att'[b].pc \in {"idle", "begun"} => att'[b].own = 0
    BY <1>1, <1>3, <1>4, <1>5, <1>6 DEF SessInv
  <2> QED BY <2>1, <2>2, <2>3 DEF SessInv
<1>9. LookInv'
  BY <1>1, <1>3, <1>4, <1>5, <1>6, MemoryConsts DEF LookInv, Ended, Looked
<1>10. AnalysisInv'
  BY <1>1, <1>3, <1>4, <1>5, <1>6, MemoryConsts DEF AnalysisInv
<1>11. CreditInv'
  BY <1>1, <1>3, <1>4, <1>5, <1>6, MemoryConsts DEF CreditInv
<1>12. TipInv'
  BY <1>1, <1>3, <1>4, <1>5, <1>6, MemoryConsts DEF TipInv, InTip
<1>13. DocInv'
  BY <1>1, <1>3, <1>4, <1>5, <1>6, MemoryConsts DEF DocInv, InTip, InDoc
<1>14. SeedInv'
  <2>1. tip'.seeds = tip.seeds
    BY <1>1, <1>3, <1>4, <1>5, <1>6
  <2>2. \A b \in Attempts : att[b].pc \notin Early => att'[b].pc \notin Early
    BY <1>1, <1>3, <1>4, <1>5, <1>6 DEF Early
  <2> QED BY <1>1, <2>1, <2>2, SeedsKept
<1> QED BY <1>7, <1>8, <1>9, <1>10, <1>11, <1>12, <1>13, <1>14 DEF MemoryInv

LEMMA TipSent ==
  ASSUME MemoryInv, NEW a \in Attempts, att[a].pc = "embed", AttTo(a, "store"),
         UNCHANGED <<embeds, task, sess, analysis, tip, credits, vector, document, overlap>>
  PROVE  MemoryInv'
<1>1. MemoryShape /\ SessInv /\ LookInv /\ AnalysisInv /\ CreditInv /\ TipInv /\ DocInv /\ SeedInv
  BY DEF MemoryInv
<1>2. MemoryShape /\ overlap \in Overlaps
  BY <1>1 DEF MemoryShape
<1>3. /\ \A c \in credits : c[1] \in Attempts /\ c[2] \in Places
      /\ Len(sess) \in Nat /\ \A s \in 1..Len(sess) : sess[s].by \in Attempts
      /\ \A b \in Attempts : att[b].own \in Nat /\ att[b].of \in Nat
      /\ \A b \in Attempts : att[b].own <= Len(sess) /\ (att[b].own # 0 => att[b].own \in 1..Len(sess))
  BY <1>1, <1>2, SessFields, GivenFacts
<1>4. att[a].pc = "embed" /\ UNCHANGED <<embeds, task, sess, analysis, tip, credits, vector, document, overlap>>
  OBVIOUS
<1>5. /\ att' \in [Attempts -> AttRows] /\ att'[a].pc = "store" /\ att'[a].own = att[a].own
      /\ att'[a].of = att[a].of /\ att'[a].read = att[a].read /\ att'[a].text = att[a].text /\ att'[a].saw = att[a].saw
      /\ \A b \in Attempts \ {a} : att'[b] = att[b]
  <2>1. "store" \in AttPcs
    BY DEF AttPcs
  <2> QED BY <1>2, <2>1, AttMoves
<1>6. MemoryShape'
  BY <1>1, <1>3, <1>4, <1>5, MemoryConsts DEF MemoryShape
<1>7. SessInv'
  <2>1. \A s \in 1..Len(sess') : att'[sess'[s].by].own = s
    BY <1>1, <1>3, <1>4, <1>5 DEF SessInv
  <2>2. \A b \in Attempts : att'[b].own <= Len(sess') /\ att'[b].of <= Len(sess')
    BY <1>1, <1>3, <1>4, <1>5 DEF SessInv
  <2>3. \A b \in Attempts : /\ att'[b].own # 0 => sess'[att'[b].own].by = b
                            /\ att'[b].pc \in {"idle", "begun"} => att'[b].own = 0
    BY <1>1, <1>3, <1>4, <1>5 DEF SessInv
  <2> QED BY <2>1, <2>2, <2>3 DEF SessInv
<1>8. LookInv'
  BY <1>1, <1>3, <1>4, <1>5, MemoryConsts DEF LookInv, Ended, Looked
<1>9. AnalysisInv'
  BY <1>1, <1>3, <1>4, <1>5, MemoryConsts DEF AnalysisInv
<1>10. CreditInv'
  BY <1>1, <1>3, <1>4, <1>5, MemoryConsts DEF CreditInv
<1>11. TipInv'
  BY <1>1, <1>3, <1>4, <1>5, MemoryConsts DEF TipInv, InTip
<1>12. DocInv'
  BY <1>1, <1>3, <1>4, <1>5, MemoryConsts DEF DocInv, InTip, InDoc
<1>13. SeedInv'
  <2>1. tip'.seeds = tip.seeds
    BY <1>1, <1>3, <1>4, <1>5
  <2>2. \A b \in Attempts : att[b].pc \notin Early => att'[b].pc \notin Early
    BY <1>1, <1>3, <1>4, <1>5 DEF Early
  <2> QED BY <1>1, <2>1, <2>2, SeedsKept
<1> QED BY <1>6, <1>7, <1>8, <1>9, <1>10, <1>11, <1>12, <1>13 DEF MemoryInv

LEMMA EmbedInv ==
  ASSUME MemoryInv, NEW a \in Attempts, Embed(a)
  PROVE  MemoryInv'
<1>1. att[a].pc = "embed" /\ UNCHANGED <<embeds, task, sess, analysis, credits, vector, document, overlap>>
  BY DEF Embed, AttAt
<1>2. \/ \E st \in {"disabled", "error"} : tip' = [tip EXCEPT !.status = st] /\ AttTo(a, "read")
      \/ AttTo(a, "store") /\ UNCHANGED tip
  BY DEF Embed
<1> QED BY <1>1, <1>2, TipLeft, TipSent

LEMMA StoreVectorInv ==
  ASSUME MemoryInv, NEW a \in Attempts, StoreVector(a)
  PROVE  MemoryInv'
<1>1. MemoryShape /\ SessInv /\ LookInv /\ AnalysisInv /\ CreditInv /\ TipInv /\ DocInv /\ SeedInv
  BY DEF MemoryInv
<1>2. MemoryShape /\ overlap \in Overlaps
  BY <1>1 DEF MemoryShape
<1>3. /\ \A c \in credits : c[1] \in Attempts /\ c[2] \in Places
      /\ Len(sess) \in Nat /\ \A s \in 1..Len(sess) : sess[s].by \in Attempts
      /\ \A b \in Attempts : att[b].own \in Nat /\ att[b].of \in Nat
      /\ \A b \in Attempts : att[b].own <= Len(sess) /\ (att[b].own # 0 => att[b].own \in 1..Len(sess))
  BY <1>1, <1>2, SessFields, GivenFacts
<1>4. /\ att[a].pc = "store" /\ vector' = att[a].text
      /\ UNCHANGED <<embeds, task, sess, analysis, tip, credits, document, overlap>>
  BY DEF StoreVector, AttAt
<1>5. /\ att' \in [Attempts -> AttRows] /\ att'[a].pc = "mark" /\ att'[a].own = att[a].own
      /\ att'[a].of = att[a].of /\ att'[a].read = att[a].read /\ att'[a].text = att[a].text /\ att'[a].saw = att[a].saw
      /\ \A b \in Attempts \ {a} : att'[b] = att[b]
  <2>1. "mark" \in AttPcs
    BY DEF AttPcs
  <2> QED BY <1>2, <2>1, AttMoves DEF StoreVector
<1>6. att[a].text \in Texts \cup {NoText}
  BY <1>2, AttFields
<1>7. MemoryShape'
  BY <1>1, <1>3, <1>4, <1>5, <1>6, MemoryConsts DEF MemoryShape
<1>8. SessInv'
  <2>1. \A s \in 1..Len(sess') : att'[sess'[s].by].own = s
    BY <1>1, <1>3, <1>4, <1>5, <1>6 DEF SessInv
  <2>2. \A b \in Attempts : att'[b].own <= Len(sess') /\ att'[b].of <= Len(sess')
    BY <1>1, <1>3, <1>4, <1>5, <1>6 DEF SessInv
  <2>3. \A b \in Attempts : /\ att'[b].own # 0 => sess'[att'[b].own].by = b
                            /\ att'[b].pc \in {"idle", "begun"} => att'[b].own = 0
    BY <1>1, <1>3, <1>4, <1>5, <1>6 DEF SessInv
  <2> QED BY <2>1, <2>2, <2>3 DEF SessInv
<1>9. LookInv'
  BY <1>1, <1>3, <1>4, <1>5, <1>6, MemoryConsts DEF LookInv, Ended, Looked
<1>10. AnalysisInv'
  BY <1>1, <1>3, <1>4, <1>5, <1>6, MemoryConsts DEF AnalysisInv
<1>11. CreditInv'
  BY <1>1, <1>3, <1>4, <1>5, <1>6, MemoryConsts DEF CreditInv
<1>12. TipInv'
  BY <1>1, <1>3, <1>4, <1>5, <1>6, MemoryConsts DEF TipInv, InTip
<1>13. DocInv'
  BY <1>1, <1>3, <1>4, <1>5, <1>6, MemoryConsts DEF DocInv, InTip, InDoc
<1>14. SeedInv'
  <2>1. tip'.seeds = tip.seeds
    BY <1>1, <1>3, <1>4, <1>5, <1>6
  <2>2. \A b \in Attempts : att[b].pc \notin Early => att'[b].pc \notin Early
    BY <1>1, <1>3, <1>4, <1>5, <1>6 DEF Early
  <2> QED BY <1>1, <2>1, <2>2, SeedsKept
<1> QED BY <1>7, <1>8, <1>9, <1>10, <1>11, <1>12, <1>13, <1>14 DEF MemoryInv

LEMMA MarkEmbeddedInv ==
  ASSUME MemoryInv, NEW a \in Attempts, MarkEmbedded(a)
  PROVE  MemoryInv'
<1>1. MemoryShape /\ SessInv /\ LookInv /\ AnalysisInv /\ CreditInv /\ TipInv /\ DocInv /\ SeedInv
  BY DEF MemoryInv
<1>2. MemoryShape /\ overlap \in Overlaps
  BY <1>1 DEF MemoryShape
<1>3. /\ \A c \in credits : c[1] \in Attempts /\ c[2] \in Places
      /\ Len(sess) \in Nat /\ \A s \in 1..Len(sess) : sess[s].by \in Attempts
      /\ \A b \in Attempts : att[b].own \in Nat /\ att[b].of \in Nat
      /\ \A b \in Attempts : att[b].own <= Len(sess) /\ (att[b].own # 0 => att[b].own \in 1..Len(sess))
  BY <1>1, <1>2, SessFields, GivenFacts
<1>4. /\ att[a].pc = "mark"
      /\ UNCHANGED <<embeds, task, sess, analysis, credits, vector, document, overlap>>
  BY DEF MarkEmbedded, AttAt
<1>5. /\ att' \in [Attempts -> AttRows] /\ att'[a].pc = "read" /\ att'[a].own = att[a].own
      /\ att'[a].of = att[a].of /\ att'[a].read = att[a].read /\ att'[a].text = att[a].text /\ att'[a].saw = att[a].saw
      /\ \A b \in Attempts \ {a} : att'[b] = att[b]
  <2>1. "read" \in AttPcs
    BY DEF AttPcs
  <2> QED BY <1>2, <2>1, AttMoves DEF MarkEmbedded
<1>6. /\ tip' \in TipRows /\ tip'.text = tip.text /\ tip'.seeds = tip.seeds /\ tip'.status = "embedded"
  <2>1. tip \in TipRows
    BY <1>2 DEF MemoryShape
  <2> QED BY <2>1 DEF TipRows, MarkEmbedded
<1>7. MemoryShape'
  BY <1>1, <1>3, <1>4, <1>5, <1>6, MemoryConsts DEF MemoryShape
<1>8. SessInv'
  <2>1. \A s \in 1..Len(sess') : att'[sess'[s].by].own = s
    BY <1>1, <1>3, <1>4, <1>5, <1>6 DEF SessInv
  <2>2. \A b \in Attempts : att'[b].own <= Len(sess') /\ att'[b].of <= Len(sess')
    BY <1>1, <1>3, <1>4, <1>5, <1>6 DEF SessInv
  <2>3. \A b \in Attempts : /\ att'[b].own # 0 => sess'[att'[b].own].by = b
                            /\ att'[b].pc \in {"idle", "begun"} => att'[b].own = 0
    BY <1>1, <1>3, <1>4, <1>5, <1>6 DEF SessInv
  <2> QED BY <2>1, <2>2, <2>3 DEF SessInv
<1>9. LookInv'
  BY <1>1, <1>3, <1>4, <1>5, <1>6, MemoryConsts DEF LookInv, Ended, Looked
<1>10. AnalysisInv'
  BY <1>1, <1>3, <1>4, <1>5, <1>6, MemoryConsts DEF AnalysisInv
<1>11. CreditInv'
  BY <1>1, <1>3, <1>4, <1>5, <1>6, MemoryConsts DEF CreditInv
<1>12. TipInv'
  BY <1>1, <1>3, <1>4, <1>5, <1>6, MemoryConsts DEF TipInv, InTip
<1>13. DocInv'
  BY <1>1, <1>3, <1>4, <1>5, <1>6, MemoryConsts DEF DocInv, InTip, InDoc
<1>14. SeedInv'
  <2>1. tip'.seeds = tip.seeds
    BY <1>1, <1>3, <1>4, <1>5, <1>6
  <2>2. \A b \in Attempts : att[b].pc \notin Early => att'[b].pc \notin Early
    BY <1>1, <1>3, <1>4, <1>5, <1>6 DEF Early
  <2> QED BY <1>1, <2>1, <2>2, SeedsKept
<1> QED BY <1>7, <1>8, <1>9, <1>10, <1>11, <1>12, <1>13, <1>14 DEF MemoryInv

LEMMA RefreshDocumentInv ==
  ASSUME MemoryInv, NEW a \in Attempts, RefreshDocument(a)
  PROVE  MemoryInv'
<1>1. att[a].pc = "read" /\ ReadLists(a, "write")
      /\ UNCHANGED <<embeds, task, sess, analysis, tip, credits, vector, document>>
  BY DEF RefreshDocument, AttAt, learned
<1>2. tip \in TipRows
  BY DEF MemoryInv, MemoryShape
<1> QED BY <1>1, <1>2, ListsRead

LEMMA AttemptStepInv ==
  ASSUME MemoryInv, NEW a \in Attempts, AttemptStep(a)
  PROVE  MemoryInv'
<1>1. CASE Begin(a) \/ OpenSession(a) \/ Brief(a) \/ Work(a) \/ SkipOrLearn(a) \/ AttemptDies(a)
  BY <1>1, BeginInv, OpenSessionInv, BriefInv, WorkStepInv, SkipOrLearnInv, AttemptDiesInv
<1>2. CASE WriteDocument(a, "brief_write", "working") \/ WriteDocument(a, "write", "over")
  BY <1>2, DocumentWritten
<1>3. CASE CompleteAttempt(a) \/ FailAttempt(a)
  <2>1. "closing" \in AttPcs /\ "analyze" \in AttPcs
    BY DEF AttPcs
  <2> QED BY <1>3, <2>1, RowWritten DEF CompleteAttempt, FailAttempt
<1>4. CASE CloseAsCompleted(a) \/ CloseAsFailed(a)
  BY <1>4, SessionEnded DEF CloseAsCompleted, CloseAsFailed
<1>5. CASE Analyze(a, "analyze", "asking", "tips") \/ Analyze(a, "analyze2", "asking2", "upsert")
  BY <1>5, Analyzed
<1>6. CASE Answer(a, "asking", "tips") \/ Answer(a, "asking2", "upsert")
  BY <1>6, Answered
<1>7. CASE UpsertTip(a) \/ Embed(a) \/ StoreVector(a) \/ MarkEmbedded(a) \/ RefreshDocument(a)
  BY <1>7, UpsertTipInv, EmbedInv, StoreVectorInv, MarkEmbeddedInv, RefreshDocumentInv
<1> QED BY <1>1, <1>2, <1>3, <1>4, <1>5, <1>6, <1>7 DEF AttemptStep

LEMMA MemoryNextInv ==
  ASSUME MemoryInv, [MemoryNext]_memoryVars
  PROVE  MemoryInv'
<1>1. CASE UNCHANGED memoryVars
  <2>1. UNCHANGED <<embeds, task, sess, analysis, tip, credits, vector, document, att, overlap>>
    BY <1>1 DEF memoryVars
  <2> QED BY <2>1 DEF MemoryInv, MemoryShape, SessInv, LookInv, AnalysisInv, CreditInv, TipInv,
             DocInv, SeedInv
<1>2. CASE MemoryNext
  BY <1>2, CancelTaskInv, AttemptStepInv DEF MemoryNext
<1> QED BY <1>1, <1>2

LEMMA MemoryInvAlways == MemorySpec => []MemoryInv
  BY MemoryInitInv, MemoryNextInv, PTL DEF MemorySpec

LEMMA MemoryInvTypes == MemoryInv => MemoryTypeOK
  BY DEF MemoryInv, MemoryShape, MemoryTypeOK, SessRows, Analyses, TaskStates, TipRows, Overlaps,
     AttRows, AttPcs, InTip, InDoc

LEMMA MemoryInvSafe == MemoryInv => MemorySafe
<1> SUFFICES ASSUME MemoryInv PROVE MemorySafe
  OBVIOUS
<1>1. MemoryShape /\ SessInv /\ LookInv /\ AnalysisInv /\ CreditInv /\ TipInv /\ DocInv
  BY DEF MemoryInv
<1>2. AnalysedWhenEnded
  <2> SUFFICES ASSUME NEW s \in 1..Len(sess), analysis[s].saw = "active"
               PROVE  analysis[s].by # sess[s].by
    BY DEF AnalysedWhenEnded
  <2>1. s \in Places /\ s # 0
    BY <1>1, LenInPlaces, SessFields, MemoryConsts DEF Places
  <2> QED BY <1>1, <2>1 DEF AnalysisInv
<1>3. CreditsGoForward
  <2> SUFFICES ASSUME NEW c \in credits PROVE c[2] >= att[c[1]].own
    BY DEF CreditsGoForward
  <2>1. c[1] \in Attempts /\ c[2] \in Places
    BY <1>1 DEF MemoryShape
  <2>2. c[2] \in Nat /\ att[c[1]].own \in Nat /\ att[c[1]].own <= c[2]
    BY <1>1, <2>1, AttFields, MemoryConsts DEF CreditInv
  <2> QED BY <2>2
<1>4. EmbeddedIsCurrent
  BY <1>1 DEF EmbeddedIsCurrent, TipInv
<1>5. DocumentIsCurrent
  BY <1>1 DEF DocumentIsCurrent, DocInv, Owing, InTip, InDoc
<1> QED BY <1>2, <1>3, <1>4, <1>5 DEF MemorySafe

\* Every variable of TrajectoryMemory keeps its type; so no more sessions, and no more
\* evidence for a tip, than there were runs.
THEOREM MemoryTypes == MemorySpec => []MemoryTypeOK
BY MemoryInvAlways, MemoryInvTypes, PTL

\* However many pipelines of a task overlap: the analyses are of ended sessions, credits
\* go to the run's own session or a younger one, and the vector and the document are
\* current but for the overlaps named (runMemoryPipeline, AnalyzeTask, upsertTip,
\* SyncEmbeddingsForTips, RefreshMaterializedContext).
THEOREM MemoryHolds == MemorySpec => []MemorySafe
BY MemoryInvAlways, MemoryInvSafe, PTL

-----------------------------------------------------------------------------
(* Snapshots.                                                              *)

VmRows == [status : {"none", "running", "down"}, branch : Branches, made : 0..MaxInstalls,
           from : Vms \cup {NoVm}]
Images == [of : Vms \cup {NoVm}, made : 0..MaxInstalls]
SnapRows == [branch : Branches, vm : Vms \cup {NoVm}, tag : Tags, clash : BOOLEAN]
Shots == [pc : InFlight \cup {"none", "over"}, vm : Vms \cup {NoVm}, tag : Tags \cup {NoTag},
          made : 0..MaxInstalls, clash : BOOLEAN]
Flying(j) == shot[j].pc \in InFlight

SnapShape ==
  /\ vm \in [Vms -> VmRows] /\ image \in [Tags -> Images] /\ snaps \in Seq(SnapRows)
  /\ shot \in [Jobs -> Shots] /\ reused \subseteq Tags

\* what is taken of an environment that was made, with no more than it has by now, and
\* so is what an environment began with
MadeInv ==
  /\ \A j \in Jobs : Flying(j) =>
       /\ shot[j].vm \in Vms /\ shot[j].tag \in Tags
       /\ vm[shot[j].vm].status # "none" /\ shot[j].made <= vm[shot[j].vm].made
  /\ \A t \in Tags :
       /\ image[t].of = NoVm => image[t] = Nothing
       /\ image[t].of # NoVm => /\ vm[image[t].of].status # "none"
                                /\ image[t].made <= vm[image[t].of].made
  /\ \A e \in Vms : vm[e].from # NoVm => vm[vm[e].from].status # "none"

\* a tag of one snapshot: nothing has it before the push, and its image is what that
\* snapshot took
TagInv ==
  \A t \in Tags \ reused :
    /\ \A j, k \in Jobs : Flying(j) /\ Flying(k) /\ shot[j].tag = t /\ shot[k].tag = t => j = k
    /\ \A j \in Jobs : shot[j].tag = t /\ shot[j].pc = "push" => image[t] = Nothing
    /\ \A j \in Jobs : shot[j].tag = t /\ shot[j].pc = "save" =>
         image[t].of = shot[j].vm /\ image[t].made = shot[j].made

\* two snapshots in flight of one environment are known to be at the same time
ClashInv ==
  \A j, k \in Jobs : j # k /\ Flying(j) /\ Flying(k) /\ shot[j].vm = shot[k].vm =>
    shot[j].clash /\ shot[k].clash

\* a row's image is of the row's environment and of its branch, or of the parent's, and
\* no later than what is in flight
ShownInv(i) ==
  LET s == snaps[i] IN
  s.tag \notin reused =>
    /\ image[s.tag].of \in Vms /\ vm[image[s.tag].of].branch \in {s.branch, Parent}
    /\ s.vm # NoVm => image[s.tag].of = s.vm
    /\ \A j \in Jobs : Flying(j) /\ shot[j].tag \notin reused /\ shot[j].vm = s.vm
                       /\ ~(shot[j].clash /\ s.clash) => image[s.tag].made <= shot[j].made

SnapInv ==
  /\ SnapShape /\ MadeInv /\ TagInv /\ ClashInv
  /\ \A i \in 1..Len(snaps) : ShownInv(i)
  /\ LaterRowsAreNewer /\ StartsFromItsBranch
LEMMA MaxExists ==
  ASSUME NEW S, IsFiniteSet(S), S \subseteq Nat, S # {}
  PROVE  \E n \in S : \A m \in S : m <= n
<1> DEFINE Above(x) == {y \in S : y > x}
           T == {Above(x) : x \in S}
           R == StrictSubsetOrdering(S)
<1>1. IsWellFoundedOn(R, FiniteSubsetsOf(S))
  BY FS_StrictSubsetOrderingWellFounded
<1>2. T \subseteq FiniteSubsetsOf(S) /\ T # {}
  <2>1. \A x \in S : Above(x) \subseteq S
    OBVIOUS
  <2>2. \A x \in S : IsFiniteSet(Above(x))
    BY <2>1, FS_Subset
  <2> HIDE DEF Above
  <2> QED BY <2>1, <2>2 DEF FiniteSubsetsOf
<1>3. \A x, y \in S : y > x =>
        Above(y) \subseteq Above(x) /\ y \in Above(x) /\ y \notin Above(y)
  <2> SUFFICES ASSUME NEW x \in S, NEW y \in S, y > x
               PROVE  Above(y) \subseteq Above(x) /\ y \in Above(x) /\ y \notin Above(y)
    OBVIOUS
  <2>1. x \in Nat /\ y \in Nat /\ ~(y > y)
    OBVIOUS
  <2>2. ASSUME NEW z \in S, z > y PROVE z > x
    <3>1. z \in Nat
      OBVIOUS
    <3> QED BY <2>1, <2>2, <3>1
  <2> QED BY <2>1, <2>2
<1>4. \A x \in S : Above(x) \in T /\ Above(x) \subseteq S
  OBVIOUS
<1>5. \A U \in T : \E x \in S : U = Above(x)
  OBVIOUS
<1>6. \A x, y \in S : y > x \/ y <= x
  OBVIOUS
<1> HIDE DEF T, Above
<1>7. \A x, y \in S : y > x => <<Above(y), Above(x)>> \in R
  BY <1>3, <1>4 DEF StrictSubsetOrdering
<1> HIDE DEF R
<1>8. PICK U \in T : \A V \in T : <<V, U>> \notin R
  BY <1>1, <1>2, WFMin
<1>9. PICK n \in S : U = Above(n)
  BY <1>5
<1> QED BY <1>4, <1>6, <1>7, <1>8, <1>9


LEMMA SnapInitInv == SnapInit => SnapInv
  BY SnapAssumption
  DEF SnapInit, SnapInv, SnapShape, VmRows, Images, SnapRows, Shots, InFlight, MadeInv, TagInv,
      ClashInv, LaterRowsAreNewer, StartsFromItsBranch, Flying, Nothing, NoShot

LEMMA SnapRowFields ==
  ASSUME SnapShape, NEW i \in 1..Len(snaps)
  PROVE  /\ snaps[i] \in SnapRows /\ snaps[i].branch \in Branches
         /\ snaps[i].vm \in Vms \cup {NoVm} /\ snaps[i].tag \in Tags /\ snaps[i].clash \in BOOLEAN
<1>1. snaps[i] \in SnapRows
  BY DEF SnapShape
<1> QED BY <1>1 DEF SnapRows

\* a change of environments only
LEMMA VmMoves ==
  ASSUME SnapInv, UNCHANGED <<image, snaps, shot, reused>>, vm' \in [Vms -> VmRows],
         \A e \in Vms : vm[e].status # "none" =>
           /\ vm'[e].status # "none" /\ vm'[e].branch = vm[e].branch /\ vm[e].made <= vm'[e].made,
         \A e \in Vms : vm'[e].from # NoVm =>
           /\ vm'[vm'[e].from].status # "none"
           /\ reused = {} => vm'[vm'[e].from].branch \in {vm'[e].branch, Parent}
  PROVE  SnapInv'
<1> USE SnapAssumption
<1>1. SnapShape /\ MadeInv /\ TagInv /\ ClashInv /\ LaterRowsAreNewer
  BY DEF SnapInv
<1>2. SnapShape' /\ TagInv' /\ ClashInv' /\ LaterRowsAreNewer' /\ StartsFromItsBranch'
  BY <1>1 DEF SnapShape, TagInv, ClashInv, LaterRowsAreNewer, StartsFromItsBranch, Flying
<1>3. /\ \A e \in Vms : vm[e].made \in Nat /\ vm'[e].made \in Nat
      /\ \A j \in Jobs : shot[j].made \in Nat /\ shot[j].tag \in Tags \cup {NoTag}
      /\ \A s \in Tags : image[s].made \in Nat /\ image[s].of \in Vms \cup {NoVm}
  BY <1>1 DEF SnapShape, VmRows, Shots, Images
<1>4. MadeInv'
  BY <1>1, <1>3 DEF MadeInv, Flying, Nothing
<1>5. ASSUME NEW i \in 1..Len(snaps) PROVE ShownInv(i)'
  <2>1. ShownInv(i) /\ snaps[i].tag \in Tags
    BY <1>1, SnapRowFields DEF SnapInv
  <2> QED BY <1>1, <2>1 DEF ShownInv, MadeInv, Flying
<1> QED BY <1>2, <1>4, <1>5 DEF SnapInv

LEMMA VmFields ==
  ASSUME SnapShape, NEW e \in Vms
  PROVE  /\ vm[e] \in VmRows /\ vm[e].status \in {"none", "running", "down"}
         /\ vm[e].branch \in Branches /\ vm[e].made \in 0..MaxInstalls
         /\ vm[e].from \in Vms \cup {NoVm}
  BY DEF SnapShape, VmRows

LEMMA LatestIs ==
  ASSUME NEW b, OfBranch(b) # {}, SnapShape
  PROVE  Latest(b) \in OfBranch(b)
<1>1. OfBranch(b) \subseteq 1..Len(snaps) /\ OfBranch(b) \subseteq Nat /\ Len(snaps) \in Nat
  BY DEF OfBranch, SnapShape
<1>2. IsFiniteSet(OfBranch(b))
  <2>1. IsFiniteSet(1..Len(snaps))
    BY <1>1, FS_Interval
  <2> QED BY <1>1, <2>1, FS_Subset
<1>3. \E i \in OfBranch(b) : \A k \in OfBranch(b) : k <= i
  BY <1>1, <1>2, MaxExists
<1> QED BY <1>3 DEF Latest

LEMMA CreateVmInv ==
  ASSUME SnapInv, NEW e \in Vms, NEW b \in Branches, CreateVm(e, b)
  PROVE  SnapInv'
<1> USE SnapAssumption
<1>1. PICK from \in {b, Parent} :
        vm' = [vm EXCEPT ![e] = [status |-> "running", branch |-> b, made |-> 0,
                                 from |-> Pulled(LatestOf(from))]]
  BY DEF CreateVm
<1>2. vm[e].status = "none" /\ UNCHANGED <<image, snaps, shot, reused>>
  BY DEF CreateVm
<1> DEFINE f == Pulled(LatestOf(from))
<1>3. SnapShape /\ MadeInv /\ StartsFromItsBranch
  BY DEF SnapInv
<1>4. f \in Vms \cup {NoVm} /\ (f # NoVm => f # e /\ vm[f].status # "none")
      /\ (f # NoVm /\ reused = {} => vm[f].branch \in {b, Parent})
  <2>1. CASE OfBranch(from) = {}
    BY <2>1 DEF LatestOf, Pulled
  <2>2. CASE OfBranch(from) # {}
    <3> DEFINE i == Latest(from)
               g == snaps[i].tag
    <3>1. i \in 1..Len(snaps) /\ snaps[i].branch = from
      BY <1>3, <2>2, LatestIs DEF OfBranch
    <3>2. LatestOf(from) = g
      BY <2>2 DEF LatestOf
    <3> HIDE DEF i
    <3>3. g \in Tags
      BY <1>3, <3>1, SnapRowFields
    <3>4. f = image[g].of
      BY <3>2, <3>3 DEF Pulled
    <3>5. ShownInv(i)
      BY <3>1 DEF SnapInv
    <3>6. f \in Vms \cup {NoVm} /\ (f # NoVm => vm[f].status # "none")
      BY <1>3, <3>3, <3>4 DEF SnapShape, Images, MadeInv
    <3>7. reused = {} => vm[f].branch \in {b, Parent}
      BY <3>1, <3>3, <3>4, <3>5 DEF ShownInv
    <3> QED BY <1>2, <3>6, <3>7
  <2> QED BY <2>1, <2>2
<1> HIDE DEF f
<1> DEFINE v == [status |-> "running", branch |-> b, made |-> 0, from |-> f]
<1>5. v \in VmRows /\ v.status = "running" /\ v.branch = b /\ v.made = 0 /\ v.from = f
  BY <1>4 DEF VmRows
<1>6. vm' = [vm EXCEPT ![e] = v]
  BY <1>1 DEF f
<1> HIDE DEF v
<1>7. vm' \in [Vms -> VmRows] /\ vm'[e] = v /\ \A d \in Vms \ {e} : vm'[d] = vm[d]
  BY <1>3, <1>5, <1>6 DEF SnapShape
<1>8. \A d \in Vms : vm[d].status # "none" =>
           /\ vm'[d].status # "none" /\ vm'[d].branch = vm[d].branch /\ vm[d].made <= vm'[d].made
  BY <1>2, <1>3, <1>7, VmFields
<1>9. ASSUME NEW d \in Vms, vm'[d].from # NoVm
      PROVE  /\ vm'[vm'[d].from].status # "none"
             /\ reused = {} => vm'[vm'[d].from].branch \in {vm'[d].branch, Parent}
  <2>1. CASE d = e
    BY <1>2, <1>4, <1>5, <1>7, <1>9, <2>1
  <2>2. CASE d # e
    <3>1. vm[d].from \in Vms /\ vm[vm[d].from].status # "none" /\ vm[d].from # e
      BY <1>2, <1>3, <1>7, <1>9, <2>2, VmFields DEF MadeInv
    <3> QED BY <1>3, <1>7, <1>9, <2>2, <3>1 DEF StartsFromItsBranch
  <2> QED BY <2>1, <2>2
<1> QED BY <1>2, <1>7, <1>8, <1>9, VmMoves

LEMMA VmStepsInv ==
  ASSUME SnapInv, NEW e \in Vms, Install(e) \/ GoDown(e) \/ Wake(e)
  PROVE  SnapInv'
<1> USE SnapAssumption
<1>1. SnapShape /\ MadeInv /\ StartsFromItsBranch
  BY DEF SnapInv
<1>2. PICK v \in VmRows :
        /\ vm' = [vm EXCEPT ![e] = v] /\ v.branch = vm[e].branch /\ vm[e].made <= v.made
        /\ v.status # "none" /\ v.from \in {vm[e].from, NoVm}
  <2>1. CASE Install(e)
    <3> DEFINE v == [vm[e] EXCEPT !.made = @ + 1]
    <3>1. v \in VmRows /\ v.branch = vm[e].branch /\ vm[e].made <= v.made
          /\ v.status # "none" /\ v.from = vm[e].from
      BY <1>1, <2>1, VmFields DEF VmRows, Install
    <3> QED BY <2>1, <3>1 DEF Install
  <2>2. CASE GoDown(e)
    <3> DEFINE v == [vm[e] EXCEPT !.status = "down"]
    <3>1. v \in VmRows /\ v.branch = vm[e].branch /\ vm[e].made <= v.made
          /\ v.status # "none" /\ v.from = vm[e].from
      BY <1>1, <2>2, VmFields DEF VmRows
    <3> QED BY <2>2, <3>1 DEF GoDown
  <2>3. CASE Wake(e)
    <3> DEFINE v == [vm[e] EXCEPT !.status = "running", !.from = NoVm]
    <3>0. vm[e] \in VmRows
      BY <1>1, VmFields
    <3>1. v \in VmRows /\ v.branch = vm[e].branch /\ vm[e].made <= v.made
          /\ v.status # "none" /\ v.from = NoVm
      <4>0. vm[e].branch \in Branches /\ vm[e].made \in 0..MaxInstalls
        BY <1>1, VmFields
      <4>1. v \in VmRows
        BY <3>0 DEF VmRows
      <4>2. v.branch = vm[e].branch
        BY <3>0 DEF VmRows
      <4>3. v.made = vm[e].made /\ vm[e].made <= vm[e].made
        BY <3>0, <4>0 DEF VmRows
      <4>4. v.status = "running" /\ v.from = NoVm
        BY <3>0 DEF VmRows
      <4> HIDE DEF v
      <4> QED BY <4>1, <4>2, <4>3, <4>4
    <3>2. vm' = [vm EXCEPT ![e] = v]
      BY <2>3 DEF Wake
    <3> QED BY <3>1, <3>2
  <2> QED BY <2>1, <2>2, <2>3
<1>3. UNCHANGED <<image, snaps, shot, reused>>
  BY DEF Install, GoDown, Wake
<1>4. vm' \in [Vms -> VmRows] /\ vm'[e] = v /\ \A d \in Vms \ {e} : vm'[d] = vm[d]
  BY <1>1, <1>2 DEF SnapShape
<1>5. \A d \in Vms : vm[d].status # "none" =>
           /\ vm'[d].status # "none" /\ vm'[d].branch = vm[d].branch /\ vm[d].made <= vm'[d].made
  BY <1>1, <1>2, <1>4, VmFields
<1>6. ASSUME NEW d \in Vms, vm'[d].from # NoVm
      PROVE  /\ vm'[vm'[d].from].status # "none"
             /\ reused = {} => vm'[vm'[d].from].branch \in {vm'[d].branch, Parent}
  <2>1. vm'[d].from = vm[d].from /\ vm'[d].branch = vm[d].branch /\ vm[d].from \in Vms
    BY <1>1, <1>2, <1>4, <1>6, VmFields
  <2>2. vm[vm[d].from].status # "none"
        /\ (reused = {} => vm[vm[d].from].branch \in {vm[d].branch, Parent})
    BY <1>1, <1>6, <2>1 DEF MadeInv, StartsFromItsBranch
  <2> QED BY <1>5, <2>1, <2>2
<1> QED BY <1>3, <1>4, <1>5, <1>6, VmMoves
\* a snapshot that ends leaves the others as they were
LEMMA ShotEnded ==
  ASSUME SnapShape, NEW j \in Jobs, EndShot(j)
  PROVE  /\ shot' \in [Jobs -> Shots] /\ shot'[j].pc = "over" /\ shot'[j].tag = NoTag
         /\ \A k \in Jobs \ {j} : shot'[k] = shot[k]
         /\ \A k \in Jobs : shot'[k].pc \in InFlight => k # j
<1> DEFINE w == [NoShot EXCEPT !.pc = "over"]
<1>1. w \in Shots /\ w.pc = "over" /\ w.tag = NoTag
  <2>1. NoShot \in Shots /\ NoShot.tag = NoTag
    BY SnapAssumption DEF NoShot, Shots
  <2>2. w \in Shots
    BY <2>1 DEF Shots
  <2>3. w.pc = "over"
    BY <2>1 DEF Shots
  <2>4. w.tag = NoShot.tag
    BY <2>1 DEF Shots
  <2> QED BY <2>1, <2>2, <2>3, <2>4
<1>2. shot' = [shot EXCEPT ![j] = w]
  BY DEF EndShot
<1> HIDE DEF w
<1> QED BY <1>1, <1>2 DEF SnapShape, InFlight

LEMMA ShotFields ==
  ASSUME SnapShape, NEW j \in Jobs
  PROVE  /\ shot[j] \in Shots /\ shot[j].pc \in InFlight \cup {"none", "over"}
         /\ shot[j].vm \in Vms \cup {NoVm} /\ shot[j].tag \in Tags \cup {NoTag}
         /\ shot[j].made \in Nat /\ shot[j].made \in 0..MaxInstalls /\ shot[j].clash \in BOOLEAN
<1>1. shot[j] \in Shots
  BY DEF SnapShape
<1>2. 0..MaxInstalls \subseteq Nat
  BY SnapAssumption
<1> QED BY <1>1, <1>2 DEF Shots

LEMMA ImageFields ==
  ASSUME SnapShape, NEW t \in Tags
  PROVE  /\ image[t] \in Images /\ image[t].of \in Vms \cup {NoVm} /\ image[t].made \in Nat
<1>1. image[t] \in Images
  BY DEF SnapShape
<1> QED BY <1>1, SnapAssumption DEF Images

LEMMA ShotFailsInv ==
  ASSUME SnapInv, NEW j \in Jobs, ShotFails(j)
  PROVE  SnapInv'
<1>1. SnapShape /\ MadeInv /\ TagInv /\ ClashInv /\ LaterRowsAreNewer /\ StartsFromItsBranch
  BY DEF SnapInv
<1>2. EndShot(j) /\ UNCHANGED <<vm, image, snaps, reused>>
  BY DEF ShotFails
<1>3. /\ shot' \in [Jobs -> Shots] /\ shot'[j].pc = "over" /\ shot'[j].tag = NoTag
      /\ \A k \in Jobs \ {j} : shot'[k] = shot[k]
      /\ \A k \in Jobs : shot'[k].pc \in InFlight => k # j
  BY <1>1, <1>2, ShotEnded
<1>4. SnapShape' /\ LaterRowsAreNewer' /\ StartsFromItsBranch'
  BY <1>1, <1>2, <1>3 DEF SnapShape, LaterRowsAreNewer, StartsFromItsBranch
<1>5. MadeInv'
  BY <1>1, <1>2, <1>3 DEF MadeInv, Flying, Nothing
<1>6. TagInv'
  BY <1>1, <1>2, <1>3, SnapAssumption DEF TagInv, Flying
<1>7. ClashInv'
  BY <1>1, <1>2, <1>3 DEF ClashInv, Flying
<1>8. ASSUME NEW i \in 1..Len(snaps) PROVE ShownInv(i)'
  <2>1. ShownInv(i)
    BY DEF SnapInv
  <2> QED BY <1>2, <1>3, <2>1 DEF ShownInv, Flying
<1>9. \A i \in 1..Len(snaps') : ShownInv(i)'
  BY <1>2, <1>8
<1> QED BY <1>4, <1>5, <1>6, <1>7, <1>9 DEF SnapInv
LEMMA StartShotInv ==
  ASSUME SnapInv, NEW j \in Jobs, NEW e \in Vms, NEW t \in Tags, StartShot(j, e, t)
  PROVE  SnapInv'
<1> USE SnapAssumption
<1>1. SnapShape /\ MadeInv /\ TagInv /\ ClashInv /\ LaterRowsAreNewer /\ StartsFromItsBranch
  BY DEF SnapInv
<1> DEFINE other == {k \in Jobs : shot[k].pc \in InFlight /\ shot[k].vm = e}
           w == [pc |-> "push", vm |-> e, tag |-> t, made |-> vm[e].made, clash |-> other # {}]
           x(k) == [shot[k] EXCEPT !.clash = TRUE]
<1>2. /\ shot[j].pc = "none" /\ vm[e].status = "running" /\ UNCHANGED <<vm, image, snaps>>
      /\ shot' = [k \in Jobs |-> IF k = j THEN w ELSE IF k \in other THEN x(k) ELSE shot[k]]
      /\ reused' = IF image[t] # Nothing \/ \E k \in Jobs : shot[k].pc \in InFlight /\ shot[k].tag = t
                   THEN reused \cup {t} ELSE reused
  BY DEF StartShot
<1>3. vm[e].made \in 0..MaxInstalls
  BY <1>1, VmFields
<1>4. w \in Shots /\ w.pc = "push" /\ w.vm = e /\ w.tag = t /\ w.made = vm[e].made
  <2>1. (other # {}) \in BOOLEAN
    OBVIOUS
  <2> DEFINE c == other # {}
  <2>2. w = [pc |-> "push", vm |-> e, tag |-> t, made |-> vm[e].made, clash |-> c]
    OBVIOUS
  <2> HIDE DEF c, other
  <2>3. w \in Shots
    BY <1>3, <2>1, <2>2 DEF Shots, InFlight
  <2> QED BY <2>3
<1>5. w.clash = (other # {})
  BY Zenon
<1>6. \A k \in Jobs : /\ x(k) \in Shots /\ x(k).pc = shot[k].pc /\ x(k).vm = shot[k].vm
                      /\ x(k).tag = shot[k].tag /\ x(k).made = shot[k].made
  <2> SUFFICES ASSUME NEW k \in Jobs
               PROVE  /\ x(k) \in Shots /\ x(k).pc = shot[k].pc /\ x(k).vm = shot[k].vm
                      /\ x(k).tag = shot[k].tag /\ x(k).made = shot[k].made
    OBVIOUS
  <2>1. shot[k] \in Shots
    BY <1>1, ShotFields
  <2> QED BY <2>1 DEF Shots
<1>7. \A k \in Jobs : x(k).clash = TRUE
  <2> SUFFICES ASSUME NEW k \in Jobs PROVE x(k).clash = TRUE
    OBVIOUS
  <2>1. shot[k] \in Shots
    BY <1>1, ShotFields
  <2> QED BY <2>1 DEF Shots
<1> HIDE DEF w, x
<1>8. /\ shot' \in [Jobs -> Shots] /\ shot'[j] = w
      /\ \A k \in Jobs \ {j} : shot'[k] = IF k \in other THEN x(k) ELSE shot[k]
  <2>1. \A k \in Jobs : shot[k] \in Shots
    BY <1>1, ShotFields
  <2> HIDE DEF other
  <2> QED BY <1>2, <1>4, <1>6, <2>1
<1>9. \A k \in Jobs \ {j} : /\ shot'[k].pc = shot[k].pc /\ shot'[k].vm = shot[k].vm
                            /\ shot'[k].tag = shot[k].tag /\ shot'[k].made = shot[k].made
  BY <1>6, <1>8
<1>10. \A k \in Jobs \ {j} : (k \in other => shot'[k].clash) /\ (shot[k].clash => shot'[k].clash)
  BY <1>7, <1>8
<1>11. reused \subseteq reused' /\ (t \notin reused' =>
         image[t] = Nothing /\ \A k \in Jobs : ~(shot[k].pc \in InFlight /\ shot[k].tag = t))
  BY <1>2
<1>12. reused' \subseteq Tags
  BY <1>1, <1>2 DEF SnapShape
<1>13. SnapShape' /\ LaterRowsAreNewer' /\ StartsFromItsBranch'
  <2>1. SnapShape'
    BY <1>1, <1>2, <1>8, <1>12 DEF SnapShape
  <2>2. LaterRowsAreNewer'
    BY <1>1, <1>2, <1>11 DEF LaterRowsAreNewer
  <2>3. StartsFromItsBranch'
    BY <1>1, <1>2, <1>11 DEF StartsFromItsBranch
  <2> QED BY <2>1, <2>2, <2>3
<1>14. MadeInv'
  <2>1. ASSUME NEW k \in Jobs, Flying(k)'
        PROVE  /\ shot'[k].vm \in Vms /\ shot'[k].tag \in Tags
               /\ vm[shot'[k].vm].status # "none" /\ shot'[k].made <= vm[shot'[k].vm].made
    <3>1. CASE k = j
      BY <1>2, <1>3, <1>4, <1>8, <3>1
    <3>2. CASE k # j
      BY <1>1, <1>9, <2>1, <3>2 DEF MadeInv, Flying
    <3> QED BY <3>1, <3>2
  <2> QED BY <1>1, <1>2, <2>1 DEF MadeInv, Nothing
<1>15. TagInv'
  <2>1. \A k \in Jobs : Flying(k)' /\ shot'[k].tag = t /\ t \notin reused' => k = j
    BY <1>9, <1>11 DEF Flying
  <2>2. \A k \in Jobs : k # j => (Flying(k)' <=> Flying(k))
    BY <1>9 DEF Flying
  <2> SUFFICES ASSUME NEW u \in Tags, u \notin reused'
               PROVE  /\ \A k, l \in Jobs : Flying(k)' /\ Flying(l)' /\ shot'[k].tag = u
                                            /\ shot'[l].tag = u => k = l
                      /\ \A k \in Jobs : shot'[k].tag = u /\ shot'[k].pc = "push" => image[u] = Nothing
                      /\ \A k \in Jobs : shot'[k].tag = u /\ shot'[k].pc = "save" =>
                           image[u].of = shot'[k].vm /\ image[u].made = shot'[k].made
    BY <1>2 DEF TagInv
  <2>3. CASE u = t
    <3>1. \A k \in Jobs : shot'[k].pc \in InFlight => Flying(k)'
      BY DEF Flying
    <3>2. "push" \in InFlight /\ "save" \in InFlight
      BY DEF InFlight
    <3>3. image[u] = Nothing
      BY <1>11, <2>3
    <3> QED BY <1>4, <1>8, <2>1, <2>3, <3>1, <3>2, <3>3
  <2>4. CASE u # t
    <3>1. u \notin reused
      BY <1>11
    <3>2. shot'[j].tag # u
      BY <1>4, <1>8, <2>4
    <3>3. \A k \in Jobs : shot'[k].tag = u => k # j
      BY <3>2
    <3> QED BY <1>1, <1>9, <2>2, <3>1, <3>3 DEF TagInv
  <2> QED BY <2>3, <2>4
<1>16. ClashInv'
  <2> SUFFICES ASSUME NEW k \in Jobs, NEW l \in Jobs, k # l, Flying(k)', Flying(l)',
                      shot'[k].vm = shot'[l].vm
               PROVE  shot'[k].clash /\ shot'[l].clash
    BY DEF ClashInv
  <2>1. \A m \in Jobs \ {j} : Flying(m)' => Flying(m)
    BY <1>9 DEF Flying
  <2>2. \A m \in Jobs \ {j} : Flying(m)' /\ shot'[m].vm = e => m \in other
    BY <1>9, <2>1 DEF Flying
  <2>3. shot'[j].vm = e /\ (other # {} => shot'[j].clash)
    BY <1>4, <1>5, <1>8
  <2>4. CASE k = j
    BY <1>10, <2>2, <2>3, <2>4
  <2>5. CASE l = j
    BY <1>10, <2>2, <2>3, <2>5
  <2>6. CASE k # j /\ l # j
    <3>1. shot[k].clash /\ shot[l].clash
      BY <1>1, <1>9, <2>1, <2>6 DEF ClashInv
    <3> QED BY <1>10, <2>6, <3>1
  <2> QED BY <2>4, <2>5, <2>6
<1>17. ASSUME NEW i \in 1..Len(snaps) PROVE ShownInv(i)'
  <2> DEFINE s == snaps[i]
  <2>1. ShownInv(i) /\ s.tag \in Tags
    BY <1>1, SnapRowFields DEF SnapInv
  <2> SUFFICES ASSUME s.tag \notin reused'
               PROVE  /\ image[s.tag].of \in Vms /\ vm[image[s.tag].of].branch \in {s.branch, Parent}
                      /\ s.vm # NoVm => image[s.tag].of = s.vm
                      /\ \A k \in Jobs : Flying(k)' /\ shot'[k].tag \notin reused' /\ shot'[k].vm = s.vm
                           /\ ~(shot'[k].clash /\ s.clash) => image[s.tag].made <= shot'[k].made
    BY <1>2 DEF ShownInv
  <2>2. s.tag \notin reused
    BY <1>11
  <2>3. /\ image[s.tag].of \in Vms /\ vm[image[s.tag].of].branch \in {s.branch, Parent}
        /\ s.vm # NoVm => image[s.tag].of = s.vm
    BY <2>1, <2>2 DEF ShownInv
  <2>4. ASSUME NEW k \in Jobs, Flying(k)', shot'[k].tag \notin reused', shot'[k].vm = s.vm,
               ~(shot'[k].clash /\ s.clash)
        PROVE  image[s.tag].made <= shot'[k].made
    <3>1. CASE k = j
      <4>1. s.vm = e /\ e # NoVm
        BY <1>4, <1>8, <2>4, <3>1
      <4>2. image[s.tag].made <= vm[e].made
        BY <1>1, <2>1, <2>3, <4>1 DEF MadeInv
      <4> QED BY <1>4, <1>8, <3>1, <4>2
    <3>2. CASE k # j
      <4>1. Flying(k) /\ shot[k].tag \notin reused /\ shot[k].vm = s.vm
        BY <1>9, <1>11, <2>4, <3>2 DEF Flying
      <4>2. ~(shot[k].clash /\ s.clash)
        BY <1>10, <2>4, <3>2
      <4> QED BY <1>9, <2>1, <2>2, <3>2, <4>1, <4>2 DEF ShownInv
    <3> QED BY <3>1, <3>2
  <2> QED BY <2>3, <2>4
<1>18. \A i \in 1..Len(snaps') : ShownInv(i)'
  BY <1>2, <1>17
<1> QED BY <1>13, <1>14, <1>15, <1>16, <1>18 DEF SnapInv

LEMMA PushImageInv ==
  ASSUME SnapInv, NEW j \in Jobs, PushImage(j)
  PROVE  SnapInv'
<1> USE SnapAssumption
<1>1. SnapShape /\ MadeInv /\ TagInv /\ ClashInv /\ LaterRowsAreNewer /\ StartsFromItsBranch
  BY DEF SnapInv
<1> DEFINE t == shot[j].tag
           m == [of |-> shot[j].vm, made |-> shot[j].made]
<1>2. /\ shot[j].pc = "push" /\ vm[shot[j].vm].status = "running"
      /\ UNCHANGED <<vm, snaps, reused>> /\ image' = [image EXCEPT ![t] = m]
  BY DEF PushImage
<1>3. Flying(j) /\ shot[j].vm \in Vms /\ t \in Tags /\ shot[j].made \in 0..MaxInstalls
  BY <1>1, <1>2, ShotFields DEF MadeInv, Flying, InFlight
<1>4. m \in Images /\ m.of = shot[j].vm /\ m.made = shot[j].made
  BY <1>3 DEF Images
<1>5. /\ shot' \in [Jobs -> Shots] /\ shot'[j].pc \in {"save", "over"}
      /\ shot'[j].pc = "save" =>
           /\ shot'[j].vm = shot[j].vm /\ shot'[j].tag = t /\ shot'[j].made = shot[j].made
      /\ \A k \in Jobs \ {j} : shot'[k] = shot[k]
  <2>1. CASE EndShot(j)
    BY <1>1, <2>1, ShotEnded
  <2>2. CASE shot' = [shot EXCEPT ![j].pc = "save"]
    <3> DEFINE w == [shot[j] EXCEPT !.pc = "save"]
    <3>0. shot[j] \in Shots
      BY <1>1, ShotFields
    <3>1. w \in Shots /\ w.pc = "save"
      BY <3>0 DEF Shots, InFlight
    <3>2. w.vm = shot[j].vm /\ w.tag = t /\ w.made = shot[j].made
      BY <3>0 DEF Shots
    <3>3. shot' = [shot EXCEPT ![j] = w]
      BY <2>2
    <3> HIDE DEF w
    <3> QED BY <1>1, <3>1, <3>2, <3>3 DEF SnapShape
  <2> QED BY <2>1, <2>2 DEF PushImage
<1>6. shot'[j].pc = "save" => shot'[j].clash = shot[j].clash
  <2>1. CASE EndShot(j)
    BY <1>1, <2>1, ShotEnded
  <2>2. CASE shot' = [shot EXCEPT ![j].pc = "save"]
    <3> DEFINE w == [shot[j] EXCEPT !.pc = "save"]
    <3>0. shot[j] \in Shots
      BY <1>1, ShotFields
    <3>1. w.clash = shot[j].clash
      BY <3>0 DEF Shots
    <3>2. shot' = [shot EXCEPT ![j] = w]
      BY <2>2
    <3>3. shot'[j] = w
      BY <1>1, <3>2 DEF SnapShape
    <3> HIDE DEF w
    <3> QED BY <3>1, <3>3
  <2> QED BY <2>1, <2>2 DEF PushImage
<1> HIDE DEF m
<1>7. image' \in [Tags -> Images] /\ image'[t] = m /\ \A u \in Tags \ {t} : image'[u] = image[u]
  BY <1>1, <1>2, <1>3, <1>4 DEF SnapShape
<1>8. t \notin reused => image[t] = Nothing
  BY <1>1, <1>2, <1>3 DEF TagInv
<1>9. NoVm \notin Vms /\ Nothing.of = NoVm
  BY DEF Nothing
<1>10. \A i \in 1..Len(snaps) : snaps[i].tag \notin reused => snaps[i].tag # t
  <2> SUFFICES ASSUME NEW i \in 1..Len(snaps), snaps[i].tag \notin reused, snaps[i].tag = t
               PROVE  FALSE
    OBVIOUS
  <2>1. image[t].of \in Vms
    BY DEF SnapInv, ShownInv
  <2> QED BY <1>8, <1>9, <2>1
<1>11. \A k \in Jobs : /\ Flying(k)' => Flying(k) /\ shot'[k].vm = shot[k].vm /\ shot'[k].tag = shot[k].tag
                                         /\ shot'[k].made = shot[k].made
                       /\ Flying(k)' => shot'[k].clash = shot[k].clash
  BY <1>3, <1>5, <1>6 DEF Flying, InFlight
<1>12. SnapShape'
  BY <1>1, <1>2, <1>5, <1>7 DEF SnapShape
<1>13. LaterRowsAreNewer'
  <2>1. \A i \in 1..Len(snaps) : snaps[i].tag \notin reused => image'[snaps[i].tag] = image[snaps[i].tag]
    BY <1>1, <1>7, <1>10, SnapRowFields
  <2> QED BY <1>1, <1>2, <2>1 DEF LaterRowsAreNewer
<1>14. StartsFromItsBranch'
  BY <1>1, <1>2 DEF StartsFromItsBranch
<1>15. MadeInv'
  <2>1. \A k \in Jobs : Flying(k)' =>
          /\ shot'[k].vm \in Vms /\ shot'[k].tag \in Tags
          /\ vm[shot'[k].vm].status # "none" /\ shot'[k].made <= vm[shot'[k].vm].made
    BY <1>1, <1>11 DEF MadeInv
  <2>2. ASSUME NEW u \in Tags
        PROVE  /\ image'[u].of = NoVm => image'[u] = Nothing
               /\ image'[u].of # NoVm => /\ vm[image'[u].of].status # "none"
                                         /\ image'[u].made <= vm[image'[u].of].made
    <3>1. CASE u = t
      BY <1>1, <1>3, <1>4, <1>7, <3>1 DEF MadeInv
    <3>2. CASE u # t
      BY <1>1, <1>7, <3>2 DEF MadeInv
    <3> QED BY <3>1, <3>2
  <2> QED BY <1>1, <1>2, <2>1, <2>2 DEF MadeInv, Nothing
<1>16. TagInv'
  <2> SUFFICES ASSUME NEW u \in Tags, u \notin reused
               PROVE  /\ \A k, l \in Jobs : Flying(k)' /\ Flying(l)' /\ shot'[k].tag = u
                                            /\ shot'[l].tag = u => k = l
                      /\ \A k \in Jobs : shot'[k].tag = u /\ shot'[k].pc = "push" => image'[u] = Nothing
                      /\ \A k \in Jobs : shot'[k].tag = u /\ shot'[k].pc = "save" =>
                           image'[u].of = shot'[k].vm /\ image'[u].made = shot'[k].made
    BY <1>2 DEF TagInv, Nothing
  <2>1. \A k, l \in Jobs : Flying(k)' /\ Flying(l)' /\ shot'[k].tag = u /\ shot'[l].tag = u => k = l
    BY <1>1, <1>11 DEF TagInv
  <2>2. \A k \in Jobs : shot'[k].pc \in {"push", "save"} => Flying(k)' /\ Flying(k)
    BY <1>11 DEF Flying, InFlight
  <2>3. ASSUME NEW k \in Jobs, shot'[k].tag = u, shot'[k].pc = "push"
        PROVE  image'[u] = Nothing
    <3>1. k # j
      BY <1>5, <2>3
    <3>2. shot[k].tag = u /\ shot[k].pc = "push"
      BY <1>5, <2>3, <3>1
    <3>3. u # t
      BY <1>1, <1>3, <2>2, <2>3, <3>1, <3>2 DEF TagInv
    <3> QED BY <1>1, <1>7, <3>2, <3>3 DEF TagInv
  <2>4. ASSUME NEW k \in Jobs, shot'[k].tag = u, shot'[k].pc = "save"
        PROVE  image'[u].of = shot'[k].vm /\ image'[u].made = shot'[k].made
    <3>1. CASE k = j
      BY <1>4, <1>5, <1>7, <2>4, <3>1
    <3>2. CASE k # j
      <4>1. shot'[k] = shot[k]
        BY <1>5, <3>2
      <4>2. u # t
        BY <1>1, <1>3, <2>2, <2>4, <3>2, <4>1 DEF TagInv
      <4> QED BY <1>1, <1>7, <2>4, <4>1, <4>2 DEF TagInv
    <3> QED BY <3>1, <3>2
  <2> QED BY <2>1, <2>3, <2>4
<1>17. ClashInv'
  BY <1>1, <1>11 DEF ClashInv
<1>18. ASSUME NEW i \in 1..Len(snaps) PROVE ShownInv(i)'
  <2> DEFINE s == snaps[i]
  <2>1. ShownInv(i) /\ s.tag \in Tags
    BY <1>1, SnapRowFields DEF SnapInv
  <2>2. s.tag \notin reused => image'[s.tag] = image[s.tag]
    BY <1>7, <1>10, <2>1
  <2> QED BY <1>2, <1>11, <2>1, <2>2 DEF ShownInv
<1>19. \A i \in 1..Len(snaps') : ShownInv(i)'
  BY <1>2, <1>18
<1> QED BY <1>12, <1>13, <1>14, <1>15, <1>16, <1>17, <1>19 DEF SnapInv
\* a row whose tag is of one snapshot is shown by what is in flight no later than it
LEMMA AppendRow ==
  ASSUME SnapInv, NEW r \in SnapRows, UNCHANGED <<vm, image, reused>>,
         snaps' = Append(snaps, r),
         shot' \in [Jobs -> Shots],
         \A k \in Jobs : shot'[k].pc \in InFlight => shot'[k] = shot[k],
         \A k \in Jobs : shot'[k].tag \in Tags /\ shot'[k].pc \in {"push", "save"} => shot'[k] = shot[k],
         r.tag \notin reused =>
           /\ image[r.tag].of \in Vms /\ vm[image[r.tag].of].branch \in {r.branch, Parent}
           /\ r.vm # NoVm => image[r.tag].of = r.vm
           /\ \A k \in Jobs : Flying(k)' /\ shot[k].vm = r.vm /\ ~(shot[k].clash /\ r.clash) =>
                image[r.tag].made <= shot[k].made
           /\ r.vm # NoVm => \E k \in Jobs : /\ Flying(k) /\ shot[k].vm = r.vm /\ shot[k].tag \notin reused
                                             /\ shot[k].clash = r.clash
                                             /\ shot[k].made = image[r.tag].made
  PROVE  SnapInv'
<1> USE SnapAssumption
<1>1. SnapShape /\ MadeInv /\ TagInv /\ ClashInv /\ LaterRowsAreNewer /\ StartsFromItsBranch
  BY DEF SnapInv
<1> DEFINE n == Len(snaps) + 1
<1>2. /\ snaps' \in Seq(SnapRows) /\ Len(snaps') = n /\ Len(snaps) \in Nat /\ snaps'[n] = r
      /\ \A i \in 1..Len(snaps) : snaps'[i] = snaps[i]
      /\ 1..n = 1..Len(snaps) \cup {n}
  BY <1>1 DEF SnapShape
<1>3. SnapShape' /\ StartsFromItsBranch'
  BY <1>1, <1>2 DEF SnapShape, StartsFromItsBranch
<1>4. MadeInv' /\ ClashInv'
  BY <1>1 DEF MadeInv, ClashInv, Flying, Nothing
<1>5. TagInv'
  BY <1>1 DEF TagInv, Flying, Nothing
<1>6. ASSUME NEW i \in 1..Len(snaps) PROVE ShownInv(i)'
  <2>1. ShownInv(i)
    BY DEF SnapInv
  <2> QED BY <1>2, <2>1 DEF ShownInv, Flying
<1>7. ASSUME NEW i, i = n PROVE ShownInv(i)'
  <2>1. snaps'[i] = r
    BY <1>2, <1>7
  <2> HIDE DEF n
  <2>2. \A k \in Jobs : Flying(k)' => shot'[k] = shot[k]
    BY DEF Flying
  <2> QED BY <2>1, <2>2 DEF ShownInv
<1>8. \A i \in 1..Len(snaps') : ShownInv(i)'
  BY <1>2, <1>6, <1>7
<1>9. r.tag \in Tags /\ r.clash \in BOOLEAN
  BY DEF SnapRows
<1>10. LaterRowsAreNewer'
  <2> SUFFICES ASSUME NEW i \in 1..n, NEW k \in 1..n, i < k, snaps'[i].vm = snaps'[k].vm,
                      snaps'[i].vm # NoVm, snaps'[i].tag \notin reused, snaps'[k].tag \notin reused,
                      ~(snaps'[i].clash /\ snaps'[k].clash)
               PROVE  image[snaps'[i].tag].made <= image[snaps'[k].tag].made
    BY <1>2 DEF LaterRowsAreNewer
  <2>1. i \in 1..Len(snaps) /\ snaps'[i] = snaps[i]
    BY <1>2
  <2>2. CASE k \in 1..Len(snaps)
    BY <1>1, <1>2, <2>1, <2>2 DEF LaterRowsAreNewer
  <2>3. CASE k = n
    <3>1. PICK j \in Jobs : /\ Flying(j) /\ shot[j].vm = r.vm /\ shot[j].tag \notin reused
                            /\ shot[j].clash = r.clash /\ shot[j].made = image[r.tag].made
      BY <1>2, <2>3
    <3>2. ShownInv(i) /\ snaps[i].vm = shot[j].vm
      BY <1>2, <2>1, <2>3, <3>1 DEF SnapInv
    <3>3. ~(shot[j].clash /\ snaps[i].clash)
      BY <1>2, <2>1, <2>3, <3>1
    <3> QED BY <1>2, <2>1, <2>3, <3>1, <3>2, <3>3 DEF ShownInv
  <2> QED BY <1>2, <2>2, <2>3
<1> QED BY <1>3, <1>4, <1>5, <1>8, <1>10 DEF SnapInv

LEMMA SaveRowInv ==
  ASSUME SnapInv, NEW j \in Jobs, SaveRow(j)
  PROVE  SnapInv'
<1> USE SnapAssumption
<1>1. SnapShape /\ MadeInv /\ TagInv /\ ClashInv
  BY DEF SnapInv
<1> DEFINE r == [branch |-> vm[shot[j].vm].branch, vm |-> shot[j].vm, tag |-> shot[j].tag,
                 clash |-> shot[j].clash]
<1>2. shot[j].pc = "save" /\ snaps' = Append(snaps, r) /\ EndShot(j) /\ UNCHANGED <<vm, image, reused>>
  BY DEF SaveRow
<1>3. Flying(j) /\ shot[j].vm \in Vms /\ shot[j].tag \in Tags /\ shot[j].clash \in BOOLEAN
  BY <1>1, <1>2, ShotFields DEF MadeInv, Flying, InFlight
<1>4. r \in SnapRows
  BY <1>1, <1>3, VmFields DEF SnapRows
<1>5. r.branch = vm[shot[j].vm].branch /\ r.vm = shot[j].vm /\ r.tag = shot[j].tag
  OBVIOUS
<1>6. r.clash = shot[j].clash
  BY Zenon
<1> HIDE DEF r
<1>7. /\ shot' \in [Jobs -> Shots] /\ shot'[j].pc = "over"
      /\ \A k \in Jobs \ {j} : shot'[k] = shot[k]
      /\ \A k \in Jobs : shot'[k].pc \in InFlight => k # j
  BY <1>1, <1>2, ShotEnded
<1>8. /\ \A k \in Jobs : shot'[k].pc \in InFlight => shot'[k] = shot[k]
      /\ \A k \in Jobs : shot'[k].tag \in Tags /\ shot'[k].pc \in {"push", "save"} => shot'[k] = shot[k]
  BY <1>7
<1>9. ASSUME r.tag \notin reused
      PROVE  /\ image[r.tag].of \in Vms /\ vm[image[r.tag].of].branch \in {r.branch, Parent}
             /\ r.vm # NoVm => image[r.tag].of = r.vm
             /\ \A k \in Jobs : Flying(k)' /\ shot[k].vm = r.vm /\ ~(shot[k].clash /\ r.clash) =>
                  image[r.tag].made <= shot[k].made
             /\ r.vm # NoVm => \E k \in Jobs : /\ Flying(k) /\ shot[k].vm = r.vm /\ shot[k].tag \notin reused
                                               /\ shot[k].clash = r.clash
                                               /\ shot[k].made = image[r.tag].made
  <2>1. image[r.tag].of = shot[j].vm /\ image[r.tag].made = shot[j].made
    BY <1>1, <1>2, <1>3, <1>5, <1>9 DEF TagInv
  <2>2. \A k \in Jobs : Flying(k)' /\ shot[k].vm = r.vm => shot[k].clash /\ r.clash
    BY <1>1, <1>3, <1>5, <1>6, <1>7 DEF ClashInv, Flying
  <2> QED BY <1>3, <1>5, <1>6, <1>9, <2>1, <2>2
<1> QED BY <1>2, <1>4, <1>7, <1>8, <1>9, AppendRow

LEMMA ForkRowInv ==
  ASSUME SnapInv, NEW b \in Branches, ForkRow(b)
  PROVE  SnapInv'
<1> USE SnapAssumption
<1>1. SnapShape
  BY DEF SnapInv
<1> DEFINE i == Latest(Parent)
           g == snaps[i]
           r == [g EXCEPT !.branch = b, !.vm = NoVm]
<1>2. snaps' = Append(snaps, r) /\ UNCHANGED <<vm, image, shot, reused>> /\ OfBranch(Parent) # {}
  BY DEF ForkRow
<1>3. i \in 1..Len(snaps) /\ snaps[i].branch = Parent
  BY <1>1, <1>2, LatestIs DEF OfBranch
<1> HIDE DEF i
<1>4. g \in SnapRows /\ ShownInv(i)
  BY <1>1, <1>3, SnapRowFields DEF SnapInv
<1>5. r \in SnapRows
  BY <1>4 DEF SnapRows
<1>6. r.vm = NoVm /\ r.tag = g.tag
  BY <1>4 DEF SnapRows
<1> HIDE DEF r
<1>7. shot' \in [Jobs -> Shots] /\ \A k \in Jobs : shot'[k] = shot[k]
  BY <1>1, <1>2 DEF SnapShape
<1>8. ASSUME NEW k \in Jobs, Flying(k)' PROVE shot[k].vm # NoVm
  BY <1>2, <1>8 DEF SnapInv, MadeInv, Flying
<1>9. r.tag \notin reused =>
        image[r.tag].of \in Vms /\ vm[image[r.tag].of].branch \in {r.branch, Parent}
  BY <1>3, <1>4, <1>6 DEF ShownInv
<1> QED BY <1>2, <1>5, <1>6, <1>7, <1>8, <1>9, AppendRow

LEMMA SnapNextInv == SnapInv /\ [SnapNext]_snapVars => SnapInv'
<1> SUFFICES ASSUME SnapInv, [SnapNext]_snapVars PROVE SnapInv'
  OBVIOUS
<1>1. CASE UNCHANGED snapVars
  BY <1>1 DEF snapVars, SnapInv, SnapShape, MadeInv, TagInv, ClashInv, ShownInv, Flying, Nothing,
              LaterRowsAreNewer, StartsFromItsBranch
<1>2. ASSUME NEW e \in Vms, Install(e) \/ GoDown(e) \/ Wake(e) PROVE SnapInv'
  BY <1>2, VmStepsInv
<1>3. ASSUME NEW e \in Vms, NEW b \in Branches, CreateVm(e, b) PROVE SnapInv'
  BY <1>3, CreateVmInv
<1>4. ASSUME NEW e \in Vms, NEW j \in Jobs, NEW t \in Tags, StartShot(j, e, t) PROVE SnapInv'
  BY <1>4, StartShotInv
<1>5. ASSUME NEW j \in Jobs, PushImage(j) \/ ShotFails(j) \/ SaveRow(j) PROVE SnapInv'
  BY <1>5, PushImageInv, ShotFailsInv, SaveRowInv
<1>6. ASSUME NEW b \in Branches, ForkRow(b) PROVE SnapInv'
  BY <1>6, ForkRowInv
<1> QED BY <1>1, <1>2, <1>3, <1>4, <1>5, <1>6 DEF SnapNext

LEMMA SnapInvAlways == SnapSpec => []SnapInv
  BY SnapInitInv, SnapNextInv, PTL DEF SnapSpec

LEMMA SnapSafe == SnapInv => SnapTypeOK /\ SnapshotsSafe
<1> SUFFICES ASSUME SnapInv PROVE SnapTypeOK /\ SnapshotsSafe
  OBVIOUS
<1>1. SnapTypeOK
  BY DEF SnapInv, SnapShape, SnapTypeOK, VmRows, Images, SnapRows, Shots
<1>2. RowsShowTheirVm
  BY DEF SnapInv, ShownInv, RowsShowTheirVm
<1> QED BY <1>1, <1>2 DEF SnapInv, SnapshotsSafe

\* Every variable of Snapshots keeps its type.
THEOREM SnapTypes == SnapSpec => []SnapTypeOK
BY SnapInvAlways, SnapSafe, PTL

\* As long as no tag was used twice, a row's image is of the row's environment, of two
\* rows the later has the later state unless both were taken at one time, and an
\* environment starts from a state of its branch or of the parent's (SnapshotStore,
\* autoForkSnapshot).
THEOREM SnapshotsHold == SnapSpec => []SnapshotsSafe
BY SnapInvAlways, SnapSafe, PTL

-----------------------------------------------------------------------------
(* Guidance.                                                               *)

\* what the words of the task alone would offer
Lexicals == {Of(t, lexical[t]) : t \in Fitting}

OnePerTip(s) == \A d, e \in s : d.tip = e.tip => d = e

\* a tip that fits is there, or only for others that fit no less
Fair(s) ==
  \A t \in Fitting : \/ \E c \in s : c.tip = t /\ lexical[t] <= c.score
                     \/ \A c \in s : lexical[t] <= c.score

\* what Rerank chooses from
Choice == IF Chosen(answer) = {} THEN candidates ELSE Chosen(answer)

UsesOf(t) == {e \in selected : e.tip = t}

GuidanceShape ==
  /\ lexical \in [Tips -> Scores] /\ newest \in Newest /\ asked \in 0..MaxLimit + 1
  /\ pc \in {"load", "vector", "rerank", "record", "over", "failed"}
  /\ candidates \subseteq Entry /\ IsFiniteSet(candidates)
  /\ selected \subseteq Entry /\ IsFiniteSet(selected)
  /\ answer \in Answers(Tips)
  /\ uses \in [Tips -> Nat]

StageInv ==
  /\ pc \in {"load", "failed"} => candidates = {}
  /\ pc = "vector" => candidates = First(KeepLexical, Lexicals) /\ candidates # {}
  /\ pc \in {"load", "failed", "vector", "rerank"} => selected = {} /\ answer = <<>>
  /\ pc \in {"rerank", "record", "over"} =>
       OnePerTip(candidates) /\ Fair(candidates) /\ (candidates = {} <=> Fitting = {})
  /\ pc \in {"record", "over"} => selected = First(Limit, Choice)

UseInv == \A t \in Tips : uses[t] = 0 \/ (pc = "over" /\ uses[t] = Cardinality(UsesOf(t)))

GuidanceInv == GuidanceShape /\ StageInv /\ UseInv


LEMMA GuidanceConsts ==
  /\ TipCount \in Nat /\ Scores \subseteq Nat /\ KeepVector \in Nat /\ MaxAnswer \in Nat
  /\ DefaultLimit \in Nat /\ MaxLimit \in Nat /\ KeepLexical \in Nat /\ KeepCandidates \in Nat
  /\ 1 <= DefaultLimit /\ DefaultLimit <= MaxLimit /\ MaxLimit <= KeepCandidates
  /\ KeepCandidates <= KeepLexical
  BY GuidanceAssumption

LEMMA TipsFinite == IsFiniteSet(Tips) /\ Tips \subseteq Nat
  BY GuidanceConsts, FS_Interval DEF Tips

LEMMA LimitFits == asked \in 0..MaxLimit + 1 => Limit \in 1..MaxLimit
  BY GuidanceConsts DEF Limit

\* a transitive relation without cycles has a least element in a finite set
LEMMA LeastExists ==
  ASSUME NEW S, IsFiniteSet(S), S # {}, NEW Q,
         \A x \in S : <<x, x>> \notin Q,
         \A x, y, z \in S : <<x, y>> \in Q /\ <<y, z>> \in Q => <<x, z>> \in Q
  PROVE  \E x \in S : \A y \in S : <<y, x>> \notin Q
<1> DEFINE Below(x) == {y \in S : <<y, x>> \in Q}
           T == {Below(x) : x \in S}
           R == StrictSubsetOrdering(S)
<1>1. IsWellFoundedOn(R, FiniteSubsetsOf(S))
  BY FS_StrictSubsetOrderingWellFounded
<1>2. T \subseteq FiniteSubsetsOf(S) /\ T # {}
  <2>1. \A x \in S : Below(x) \subseteq S
    OBVIOUS
  <2>2. \A x \in S : IsFiniteSet(Below(x))
    BY <2>1, FS_Subset
  <2> HIDE DEF Below
  <2> QED BY <2>1, <2>2 DEF FiniteSubsetsOf
<1>3. \A x, y \in S : <<y, x>> \in Q =>
        Below(y) \subseteq Below(x) /\ y \in Below(x) /\ y \notin Below(y)
  OBVIOUS
<1>4. \A x \in S : Below(x) \in T /\ Below(x) \in SUBSET S
  OBVIOUS
<1>5. PICK B \in T : \A C \in T : ~(<<C, B>> \in R)
  <2> HIDE DEF T, R
  <2> QED BY <1>1, <1>2, WFMin
<1>6. PICK x \in S : B = Below(x)
  BY <1>5
<1>7. \A y \in S : <<y, x>> \notin Q
  <2> SUFFICES ASSUME NEW y \in S, <<y, x>> \in Q
               PROVE  FALSE
    OBVIOUS
  <2>1. Below(y) \subseteq Below(x) /\ Below(x) # Below(y)
    BY <1>3
  <2>2. <<Below(y), B>> \in R
    <3>1. Below(y) \in SUBSET S /\ B \in SUBSET S
      BY <1>4, <1>6
    <3> HIDE DEF Below
    <3> QED BY <1>6, <2>1, <3>1 DEF StrictSubsetOrdering
  <2> QED BY <1>4, <1>5, <2>2
<1> QED BY <1>7

LEMMA BeforeOrder ==
  /\ \A d, e \in Entry : d = e \/ Before(d, e) \/ Before(e, d)
  /\ \A d, e, f \in Entry : Before(d, e) /\ Before(e, f) => Before(d, f)
  /\ \A e \in Entry : ~Before(e, e)
  /\ \A d, e \in Entry : Before(d, e) => d.score >= e.score
<1>1. \A e \in Entry : e.tip \in Nat /\ e.score \in Nat /\ e.at \in Nat
  <2> SUFFICES ASSUME NEW e \in Entry
               PROVE  e.tip \in Nat /\ e.score \in Nat /\ e.at \in Nat
    OBVIOUS
  <2>1. e.tip \in Tips /\ e.score \in Nat /\ e.at \in 0..MaxAnswer
    BY DEF Entry
  <2>2. e.tip \in Nat
    BY <2>1, TipsFinite, Zenon
  <2>3. e.at \in Nat
    BY <2>1, GuidanceConsts, SMT
  <2> QED BY <2>1, <2>2, <2>3
<1>2. \A d, e \in Entry : d.tip = e.tip /\ d.score = e.score /\ d.at = e.at => d = e
  BY DEF Entry
<1>3. ASSUME NEW d \in Entry, NEW e \in Entry
      PROVE  d = e \/ Before(d, e) \/ Before(e, d)
  <2>1. /\ d.tip \in Nat /\ d.score \in Nat /\ d.at \in Nat
        /\ e.tip \in Nat /\ e.score \in Nat /\ e.at \in Nat
    BY <1>1
  <2> QED BY <1>2, <2>1 DEF Before
<1>4. ASSUME NEW d \in Entry, NEW e \in Entry, NEW f \in Entry, Before(d, e), Before(e, f)
      PROVE  Before(d, f)
  <2>1. /\ d.tip \in Nat /\ d.score \in Nat /\ d.at \in Nat
        /\ e.tip \in Nat /\ e.score \in Nat /\ e.at \in Nat
        /\ f.tip \in Nat /\ f.score \in Nat /\ f.at \in Nat
    BY <1>1
  <2> QED BY <1>4, <2>1 DEF Before
<1>5. \A e \in Entry : ~Before(e, e)
  BY <1>1 DEF Before
<1>6. \A d, e \in Entry : Before(d, e) => d.score >= e.score
  BY <1>1 DEF Before
<1> QED BY <1>3, <1>4, <1>5, <1>6

\* what is kept is a beginning of the order
LEMMA FirstClosed ==
  ASSUME NEW n \in Nat, NEW s, s \subseteq Entry, IsFiniteSet(s)
  PROVE  /\ First(n, s) \subseteq s /\ IsFiniteSet(First(n, s))
         /\ \A e \in First(n, s), d \in s : Before(d, e) => d \in First(n, s)
         /\ \A e \in First(n, s), d \in s \ First(n, s) : d.score <= e.score
<1>1. First(n, s) \subseteq s
  BY DEF First
<1>2. IsFiniteSet(First(n, s))
  BY <1>1, FS_Subset
<1>3. ASSUME NEW e \in First(n, s), NEW d \in s, Before(d, e)
      PROVE  d \in First(n, s)
  <2> DEFINE D == {x \in s : Before(x, d)}
             E == {x \in s : Before(x, e)}
  <2>1. D \subseteq E /\ E \subseteq s
    BY <1>1, <1>3, BeforeOrder
  <2>2. Cardinality(E) < n
    BY DEF First
  <2> HIDE DEF D, E
  <2>3. IsFiniteSet(E) /\ IsFiniteSet(D)
    BY <2>1, FS_Subset
  <2>4. Cardinality(D) <= Cardinality(E) /\ Cardinality(D) \in Nat /\ Cardinality(E) \in Nat
    BY <2>1, <2>3, FS_Subset, FS_CardinalityType
  <2>5. Cardinality(D) < n
    BY <2>2, <2>4
  <2> QED BY <2>5 DEF First, D
<1>4. ASSUME NEW e \in First(n, s), NEW d \in s \ First(n, s)
      PROVE  d.score <= e.score
  <2>1. d \in Entry /\ e \in Entry /\ ~Before(d, e) /\ d # e
    BY <1>1, <1>3
  <2>2. Before(e, d)
    BY <2>1, BeforeOrder
  <2>3. d.score \in Nat /\ e.score \in Nat
    BY <2>1 DEF Entry
  <2> QED BY <2>1, <2>2, <2>3, BeforeOrder
<1> QED BY <1>1, <1>2, <1>3, <1>4

\* and no more than the limit: its last entry has the others before it
LEMMA FirstAtMost ==
  ASSUME NEW n \in Nat, NEW s, s \subseteq Entry, IsFiniteSet(s)
  PROVE  Cardinality(First(n, s)) \in Nat /\ Cardinality(First(n, s)) <= n
<1> DEFINE F == First(n, s)
           Q == {q \in s \X s : Before(q[2], q[1])}
<1>1. F \subseteq s /\ IsFiniteSet(F) /\ Cardinality(F) \in Nat
  BY FirstClosed, FS_CardinalityType
<1>2. CASE F = {}
  BY <1>2, FS_EmptySet
<1>3. CASE F # {}
  <2>1. \A x \in F : <<x, x>> \notin Q
    BY <1>1, BeforeOrder
  <2>2. \A x, y, z \in F : <<x, y>> \in Q /\ <<y, z>> \in Q => <<x, z>> \in Q
    <3> SUFFICES ASSUME NEW x \in F, NEW y \in F, NEW z \in F, <<x, y>> \in Q, <<y, z>> \in Q
                 PROVE  <<x, z>> \in Q
      OBVIOUS
    <3>1. x \in s /\ y \in s /\ z \in s /\ Before(y, x) /\ Before(z, y)
      BY <1>1
    <3>2. Before(z, x)
      BY <3>1, BeforeOrder
    <3> QED BY <3>1, <3>2
  <2>3. PICK m \in F : \A y \in F : <<y, m>> \notin Q
    <3> HIDE DEF F, Q
    <3> QED BY <1>1, <1>3, <2>1, <2>2, LeastExists
  <2> DEFINE B == {d \in s : Before(d, m)}
  <2>4. m \in s /\ Cardinality(B) < n
    BY <1>1 DEF First
  <2>5. F \subseteq B \cup {m}
    <3> SUFFICES ASSUME NEW y \in F, y # m
                 PROVE  Before(y, m)
      BY <1>1
    <3>1. y \in Entry /\ m \in Entry /\ ~Before(m, y)
      BY <1>1, <2>3, <2>4
    <3> QED BY <3>1, BeforeOrder
  <2>6. IsFiniteSet(B)
    BY FS_Subset
  <2> HIDE DEF B, F
  <2>7. /\ IsFiniteSet(B \cup {m}) /\ Cardinality(B) \in Nat
        /\ Cardinality(B \cup {m}) \in {Cardinality(B), Cardinality(B) + 1}
    <3>1. Cardinality(B) \in Nat
      BY <2>6, FS_CardinalityType
    <3>2. /\ IsFiniteSet(B \cup {m})
          /\ Cardinality(B \cup {m}) = IF m \in B THEN Cardinality(B) ELSE Cardinality(B) + 1
      BY <2>6, FS_AddElement
    <3> QED BY <3>1, <3>2
  <2>8. Cardinality(F) <= Cardinality(B \cup {m})
    BY <2>5, <2>7, FS_Subset
  <2> QED BY <1>1, <2>4, <2>7, <2>8 DEF F
<1> QED BY <1>1, <1>2, <1>3

\* whoever leaves something out has kept as much as the limit allows
LEMMA FirstFull ==
  ASSUME NEW n \in Nat, NEW s, s \subseteq Entry, IsFiniteSet(s), First(n, s) # s
  PROVE  Cardinality(First(n, s)) = n
<1> DEFINE F == First(n, s)
           G == s \ F
           Q == {q \in s \X s : Before(q[1], q[2])}
<1>1. F \subseteq s /\ IsFiniteSet(F) /\ Cardinality(F) \in Nat /\ Cardinality(F) <= n
  BY FirstClosed, FirstAtMost
<1>2. G \subseteq s /\ G # {} /\ IsFiniteSet(G)
  BY <1>1, FS_Subset
<1>3. \A x \in G : <<x, x>> \notin Q
  BY <1>2, BeforeOrder
<1>4. \A x, y, z \in G : <<x, y>> \in Q /\ <<y, z>> \in Q => <<x, z>> \in Q
  <2> SUFFICES ASSUME NEW x \in G, NEW y \in G, NEW z \in G, <<x, y>> \in Q, <<y, z>> \in Q
               PROVE  <<x, z>> \in Q
    OBVIOUS
  <2>1. x \in s /\ y \in s /\ z \in s /\ Before(x, y) /\ Before(y, z)
    BY <1>2
  <2>2. Before(x, z)
    BY <2>1, BeforeOrder
  <2> QED BY <2>1, <2>2
<1>5. PICK m \in G : \A y \in G : <<y, m>> \notin Q
  <2> HIDE DEF G, Q
  <2> QED BY <1>2, <1>3, <1>4, LeastExists
<1> DEFINE B == {d \in s : Before(d, m)}
<1>6. B \subseteq F
  BY <1>2, <1>5
<1>7. ~(Cardinality(B) < n)
  BY <1>5 DEF First
<1> HIDE DEF B, F
<1>8. IsFiniteSet(B) /\ Cardinality(B) <= Cardinality(F) /\ Cardinality(B) \in Nat
  BY <1>1, <1>6, FS_Subset, FS_CardinalityType
<1> QED BY <1>1, <1>7, <1>8 DEF F

LEMMA FirstSome ==
  ASSUME NEW n \in Nat, 1 <= n, NEW s, s \subseteq Entry, IsFiniteSet(s)
  PROVE  First(n, s) = {} <=> s = {}
<1>1. First(n, s) \subseteq s
  BY FirstClosed
<1>2. s # {} => First(n, s) # {}
  BY FirstFull, FS_EmptySet
<1> QED BY <1>1, <1>2

-----------------------------------------------------------------------------

LEMMA OfFields ==
  ASSUME NEW t \in Tips, NEW k \in Nat
  PROVE  Of(t, k) \in Entry /\ Of(t, k).tip = t /\ Of(t, k).score = k /\ Of(t, k).at = 0
  BY GuidanceConsts DEF Of, Entry

\* entries with one per tip are no more than the tips, and finite
LEMMA OnePerTipFinite ==
  ASSUME NEW s, s \subseteq Entry, OnePerTip(s)
  PROVE  IsFiniteSet(s)
<1> DEFINE f == [e \in s |-> e.tip]
<1>1. \A e \in s : e.tip \in Tips
  BY DEF Entry
<1>2. f \in Injection(s, Tips)
  <2>1. f \in [s -> Tips] /\ \A e \in s : f[e] = e.tip
    BY <1>1
  <2> HIDE DEF f
  <2>2. \A d, e \in s : f[d] = f[e] => d = e
    BY <2>1 DEF OnePerTip
  <2> QED BY <2>1, <2>2 DEF Injection, IsInjective
<1> QED BY <1>2, TipsFinite, FS_Injection

LEMMA LexicalsFields ==
  ASSUME lexical \in [Tips -> Scores], newest \in Newest
  PROVE  /\ Lexicals \subseteq Entry /\ OnePerTip(Lexicals) /\ IsFiniteSet(Lexicals)
         /\ \A e \in Lexicals : e.tip \in Fitting /\ e.score = lexical[e.tip] /\ e.at = 0
         /\ \A t \in Fitting : Of(t, lexical[t]) \in Lexicals
         /\ Lexicals = {} <=> Fitting = {}
<1>1. \A t \in Fitting : t \in Tips /\ lexical[t] \in Nat
  BY GuidanceConsts DEF Fitting, Newest
<1>2. \A t \in Fitting : /\ Of(t, lexical[t]) \in Entry /\ Of(t, lexical[t]).tip = t
                         /\ Of(t, lexical[t]).score = lexical[t] /\ Of(t, lexical[t]).at = 0
  BY <1>1, OfFields
<1>3. \A e \in Lexicals : \E t \in Fitting : e = Of(t, lexical[t])
  BY DEF Lexicals
<1>4. \A e \in Lexicals : e \in Entry /\ e.tip \in Fitting /\ e.score = lexical[e.tip] /\ e.at = 0
                          /\ e = Of(e.tip, lexical[e.tip])
  BY <1>2, <1>3
<1>5. OnePerTip(Lexicals)
  BY <1>4 DEF OnePerTip
<1>6. Lexicals \subseteq Entry
  BY <1>4
<1>7. IsFiniteSet(Lexicals)
  BY <1>5, <1>6, OnePerTipFinite
<1>8. \A t \in Fitting : Of(t, lexical[t]) \in Lexicals
  BY DEF Lexicals
<1> QED BY <1>3, <1>4, <1>5, <1>6, <1>7, <1>8

LEMMA FirstOfOnePerTip ==
  ASSUME NEW s, OnePerTip(s), NEW r, r \subseteq s
  PROVE  OnePerTip(r)
  BY DEF OnePerTip

\* the better score of the two, one entry a tip
LEMMA MergedFields ==
  ASSUME NEW B, NEW X, B \subseteq Entry, X \subseteq Entry, OnePerTip(B), OnePerTip(X),
         \A e \in B \cup X : e.at = 0
  PROVE  /\ Merged(B, X) \subseteq B \cup X /\ Merged(B, X) \subseteq Entry
         /\ OnePerTip(Merged(B, X)) /\ IsFiniteSet(Merged(B, X))
         /\ \A b \in B : \E m \in Merged(B, X) : m.tip = b.tip /\ b.score <= m.score
<1>1. Merged(B, X) \subseteq B \cup X /\ Merged(B, X) \subseteq Entry
  BY DEF Merged
<1>2. \A e \in B \cup X : e \in Entry /\ e.score \in Nat
  BY DEF Entry
<1>3. \A d, e \in Entry : d.tip = e.tip /\ d.score = e.score /\ d.at = e.at => d = e
  BY DEF Entry
<1>4. OnePerTip(Merged(B, X))
  <2> SUFFICES ASSUME NEW d \in Merged(B, X), NEW e \in Merged(B, X), d.tip = e.tip
               PROVE  d = e
    BY DEF OnePerTip
  <2>1. d \in B \cup X /\ e \in B \cup X /\ d.score <= e.score /\ e.score <= d.score
    BY DEF Merged
  <2>2. d.score = e.score /\ d.at = e.at
    BY <1>2, <2>1
  <2> QED BY <1>2, <1>3, <2>1, <2>2
<1>5. IsFiniteSet(Merged(B, X))
  BY <1>1, <1>4, OnePerTipFinite
<1>6. ASSUME NEW b \in B
      PROVE  \E m \in Merged(B, X) : m.tip = b.tip /\ b.score <= m.score
  <2>1. CASE b \in Merged(B, X)
    BY <1>2, <2>1
  <2>2. CASE b \notin Merged(B, X)
    <3>1. PICK m \in B \cup X : m.tip = b.tip /\ ~(m.score <= b.score)
      BY <2>2 DEF Merged
    <3>2. m \in X
      BY <1>2, <3>1 DEF OnePerTip
    <3>3. \A d \in B \cup X : d.tip = m.tip => d.score <= m.score
      <4> SUFFICES ASSUME NEW d \in B \cup X, d.tip = m.tip
                   PROVE  d.score <= m.score
        OBVIOUS
      <4>1. d \in B => d = b
        BY <3>1 DEF OnePerTip
      <4>2. d \in X => d = m
        BY <3>2 DEF OnePerTip
      <4>3. b.score \in Nat /\ m.score \in Nat
        BY <1>2, <3>1
      <4> QED BY <3>1, <4>1, <4>2, <4>3
    <3>4. m \in Merged(B, X)
      BY <3>1, <3>3 DEF Merged
    <3>5. b.score \in Nat /\ m.score \in Nat
      BY <1>2, <3>1
    <3> QED BY <3>1, <3>4, <3>5
  <2> QED BY <2>1, <2>2
<1> QED BY <1>1, <1>4, <1>5, <1>6

\* where every entry of a full set has its better in M, the first KeepCandidates
\* of M are no worse than the worst of it
LEMMA NoneWorse ==
  ASSUME NEW B, NEW M, B \subseteq Entry, M \subseteq Entry, IsFiniteSet(B), IsFiniteSet(M),
         OnePerTip(B), \A b \in B : \E m \in M : m.tip = b.tip /\ b.score <= m.score,
         Cardinality(B) = KeepLexical, NEW k \in Nat, \A b \in B : k <= b.score,
         NEW e \in First(KeepCandidates, M)
  PROVE  k <= e.score
<1> DEFINE G == {m \in M : k <= m.score}
           f == [b \in B |-> CHOOSE m \in G : m.tip = b.tip]
           E == {d \in M : Before(d, e)}
<1>1. e \in M /\ Cardinality(E) < KeepCandidates
  BY DEF First
<1>2. \A x \in B \cup M : x.score \in Nat
  BY DEF Entry
<1>3. \A b \in B : \E m \in G : m.tip = b.tip
  <2> SUFFICES ASSUME NEW b \in B
               PROVE  \E m \in G : m.tip = b.tip
    OBVIOUS
  <2>1. PICK m \in M : m.tip = b.tip /\ b.score <= m.score
    OBVIOUS
  <2>2. k <= m.score
    BY <1>2, <2>1
  <2> QED BY <2>1, <2>2
<1>4. \A b \in B : f[b] \in G /\ f[b].tip = b.tip
  <2> HIDE DEF G
  <2> QED BY <1>3
<1>5. f \in [B -> G]
  <2> HIDE DEF G
  <2> QED BY <1>4
<1> HIDE DEF f
<1>6. f \in Injection(B, G)
  <2>1. \A a, b \in B : f[a] = f[b] => a = b
    BY <1>4 DEF OnePerTip
  <2> QED BY <1>5, <2>1 DEF Injection, IsInjective
<1>7. IsFiniteSet(G) /\ IsFiniteSet(E)
  BY FS_Subset
<1>8. Cardinality(B) <= Cardinality(G) /\ Cardinality(G) \in Nat /\ Cardinality(E) \in Nat
  <2> HIDE DEF G, E
  <2> QED BY <1>6, <1>7, FS_Injection, FS_CardinalityType
<1> SUFFICES ASSUME ~(k <= e.score) PROVE FALSE
  OBVIOUS
<1>9. G \subseteq E
  <2> SUFFICES ASSUME NEW m \in M, k <= m.score
               PROVE  Before(m, e)
    OBVIOUS
  <2>1. m.score \in Nat /\ e.score \in Nat
    BY <1>1, <1>2
  <2> QED BY <2>1 DEF Before
<1> HIDE DEF G, E
<1>10. Cardinality(G) <= Cardinality(E)
  BY <1>7, <1>9, FS_Subset
<1> QED BY <1>1, <1>8, <1>10, GuidanceConsts

\* a tip that fits is a candidate, or those that are fit no less
LEMMA FairlyMerged ==
  ASSUME lexical \in [Tips -> Scores], newest \in Newest, NEW X, X \subseteq Entry, OnePerTip(X),
         \A e \in X : e.at = 0,
         NEW B, B = First(KeepLexical, Lexicals),
         NEW M, M = Merged(B, X)
  PROVE  /\ First(KeepCandidates, M) \subseteq Entry /\ IsFiniteSet(First(KeepCandidates, M))
         /\ OnePerTip(First(KeepCandidates, M)) /\ Fair(First(KeepCandidates, M))
         /\ First(KeepCandidates, M) = {} => B = {}
<1> DEFINE C == First(KeepCandidates, M)
<1>1. /\ Lexicals \subseteq Entry /\ OnePerTip(Lexicals) /\ IsFiniteSet(Lexicals)
      /\ \A e \in Lexicals : e.tip \in Fitting /\ e.score = lexical[e.tip] /\ e.at = 0
      /\ \A t \in Fitting : Of(t, lexical[t]) \in Lexicals
  BY LexicalsFields
<1>2. /\ B \subseteq Lexicals /\ IsFiniteSet(B)
      /\ \A e \in B, d \in Lexicals \ B : d.score <= e.score
  BY <1>1, GuidanceConsts, FirstClosed
<1>3. B \subseteq Entry /\ OnePerTip(B) /\ \A e \in B \cup X : e.at = 0
  BY <1>1, <1>2 DEF OnePerTip
<1>4. /\ M \subseteq Entry /\ OnePerTip(M) /\ IsFiniteSet(M)
      /\ \A b \in B : \E m \in M : m.tip = b.tip /\ b.score <= m.score
  BY <1>3, MergedFields
<1>5. /\ C \subseteq M /\ IsFiniteSet(C)
      /\ \A e \in C, d \in M \ C : d.score <= e.score
  BY <1>4, GuidanceConsts, FirstClosed
<1>6. OnePerTip(C)
  BY <1>4, <1>5, FirstOfOnePerTip
<1>7. C = {} => M = {}
  BY <1>4, GuidanceConsts, FirstSome
<1>8. M = {} => B = {}
  BY <1>4
<1>9. ASSUME NEW t \in Fitting
      PROVE  \/ \E c \in C : c.tip = t /\ lexical[t] <= c.score
             \/ \A c \in C : lexical[t] <= c.score
  <2> DEFINE b == Of(t, lexical[t])
  <2>1. t \in Tips /\ lexical[t] \in Nat
    BY GuidanceConsts DEF Fitting, Newest
  <2>2. b \in Lexicals /\ b.tip = t /\ b.score = lexical[t]
    BY <1>1, <2>1, OfFields
  <2> HIDE DEF b
  <2>3. \A c \in M : c.score \in Nat
    BY <1>4 DEF Entry
  <2>4. CASE b \in B
    <3>1. PICK m \in M : m.tip = t /\ lexical[t] <= m.score
      BY <1>4, <2>2, <2>4
    <3>2. CASE m \in C
      BY <3>1, <3>2
    <3>3. CASE m \notin C
      <4> SUFFICES ASSUME NEW c \in C PROVE lexical[t] <= c.score
        OBVIOUS
      <4>1. c \in M /\ m.score <= c.score
        BY <1>5, <3>1, <3>3
      <4> QED BY <2>1, <2>3, <3>1, <4>1
    <3> QED BY <3>2, <3>3
  <2>5. CASE b \notin B
    <3>1. Cardinality(B) = KeepLexical
      BY <1>1, <2>2, <2>5, GuidanceConsts, FirstFull
    <3>2. \A e \in B : lexical[t] <= e.score
      BY <1>2, <2>2, <2>5
    <3> SUFFICES ASSUME NEW c \in C PROVE lexical[t] <= c.score
      OBVIOUS
    <3> HIDE DEF C
    <3> QED BY ONLY <1>2, <1>3, <1>4, <2>1, <3>1, <3>2, c \in C, NoneWorse DEF C
  <2> QED BY <2>4, <2>5
<1>10. Fair(C)
  BY <1>9 DEF Fair
<1> QED BY <1>4, <1>5, <1>6, <1>7, <1>8, <1>10

-----------------------------------------------------------------------------

LEMMA AnswersOf ==
  ASSUME NEW S \in SUBSET Tips
  PROVE  Answers(S) \subseteq Answers(Tips) /\ <<>> \in Answers(Tips)
<1>1. Replies(S) \subseteq Replies(Tips)
  BY DEF Replies
<1>2. Answers(S) \subseteq Answers(Tips)
  <2> SUFFICES ASSUME NEW n \in 0..MaxAnswer, NEW a \in [1..n -> Replies(S)]
               PROVE  a \in [1..n -> Replies(Tips)]
    BY DEF Answers
  <2> QED BY <1>1
<1>3. <<>> \in [1..0 -> Replies(Tips)] /\ 0 \in 0..MaxAnswer
  BY GuidanceConsts
<1> QED BY <1>2, <1>3 DEF Answers

LEMMA AnswerFields ==
  ASSUME NEW a \in Answers(Tips)
  PROVE  /\ DOMAIN a \subseteq 1..MaxAnswer /\ IsFiniteSet(DOMAIN a)
         /\ \A i \in DOMAIN a : a[i].tip \in Tips \cup {Alien} /\ a[i].score \in {0, 3}
<1>1. PICK n \in 0..MaxAnswer : a \in [1..n -> Replies(Tips)]
  BY DEF Answers
<1>2. DOMAIN a = 1..n /\ \A i \in DOMAIN a : a[i] \in Replies(Tips)
  BY <1>1
<1>3. DOMAIN a \subseteq 1..MaxAnswer
  BY <1>2, GuidanceConsts
<1>4. IsFiniteSet(DOMAIN a)
  BY <1>2, FS_Interval
<1> QED BY <1>2, <1>3, <1>4 DEF Replies

\* what an entry of Claude's answer chooses
Pick(a, i, c) == [c EXCEPT !.score = @ + a[i].score, !.at = i]

LEMMA PickFields ==
  ASSUME NEW a \in Answers(Tips), NEW i \in DOMAIN a, NEW c \in Entry
  PROVE  /\ Pick(a, i, c) \in Entry /\ Pick(a, i, c).tip = c.tip /\ Pick(a, i, c).at = i
         /\ c.score <= Pick(a, i, c).score
<1> DEFINE k == c.score + a[i].score
           e == [c EXCEPT !.score = k, !.at = i]
<1>1. i \in 0..MaxAnswer /\ c.score \in Nat /\ k \in Nat /\ c.score <= k
  BY AnswerFields, GuidanceConsts DEF Entry
<1>2. Pick(a, i, c) = e
  BY DEF Pick
<1> HIDE DEF k
<1>3. e \in Entry
  BY <1>1 DEF Entry
<1>4. e.tip = c.tip
  BY DEF Entry
<1>5. e.at = i
  BY DEF Entry
<1>6. e.score = k
  BY DEF Entry
<1> HIDE DEF e
<1> QED BY <1>1, <1>2, <1>3, <1>4, <1>5, <1>6

LEMMA ChosenIs ==
  ASSUME NEW a, NEW e
  PROVE  e \in Chosen(a) <=>
           \E i \in DOMAIN a, c \in candidates : c.tip = a[i].tip /\ e = Pick(a, i, c)
<1> DEFINE P == {q \in (DOMAIN a) \X candidates : q[2].tip = a[q[1]].tip}
<1>1. e \in Chosen(a) <=> \E q \in P : e = Pick(a, q[1], q[2])
  BY DEF Chosen, Pick
<1>2. ASSUME NEW i \in DOMAIN a, NEW c \in candidates, c.tip = a[i].tip, e = Pick(a, i, c)
      PROVE  \E q \in P : e = Pick(a, q[1], q[2])
  <2> DEFINE q == <<i, c>>
  <2>1. q \in P /\ q[1] = i /\ q[2] = c
    BY <1>2
  <2> HIDE DEF P, q
  <2> QED BY <1>2, <2>1
<1>3. ASSUME NEW q \in P, e = Pick(a, q[1], q[2])
      PROVE  \E i \in DOMAIN a, c \in candidates : c.tip = a[i].tip /\ e = Pick(a, i, c)
  <2>1. q[1] \in DOMAIN a /\ q[2] \in candidates /\ q[2].tip = a[q[1]].tip
    OBVIOUS
  <2> QED BY <1>3, <2>1
<1> QED BY <1>1, <1>2, <1>3

LEMMA ChosenFields ==
  ASSUME candidates \subseteq Entry, IsFiniteSet(candidates), NEW a \in Answers(Tips)
  PROVE  Chosen(a) \subseteq Entry /\ IsFiniteSet(Chosen(a))
<1> DEFINE P == {q \in (DOMAIN a) \X candidates : q[2].tip = a[q[1]].tip}
           f == [q \in P |-> Pick(a, q[1], q[2])]
<1>1. Chosen(a) \subseteq Entry
  BY ChosenIs, PickFields
<1>2. IsFiniteSet(P)
  <2>1. IsFiniteSet((DOMAIN a) \X candidates)
    BY AnswerFields, FS_Product
  <2>2. P \subseteq (DOMAIN a) \X candidates
    OBVIOUS
  <2> HIDE DEF P
  <2> QED BY <2>1, <2>2, FS_Subset
<1>3. \A e : e \in Chosen(a) <=> \E q \in P : e = Pick(a, q[1], q[2])
  BY DEF Chosen, Pick
<1> HIDE DEF P
<1>4. f \in [P -> Chosen(a)] /\ \A e \in Chosen(a) : \E q \in P : f[q] = e
  BY <1>3
<1>5. f \in Surjection(P, Chosen(a))
  BY <1>4 DEF Surjection
<1> HIDE DEF f
<1>6. IsFiniteSet(Chosen(a))
  BY <1>2, <1>5, FS_Surjection
<1> QED BY <1>1, <1>6

-----------------------------------------------------------------------------

LEMMA GuidanceInitInv == GuidanceInit => GuidanceInv
<1> SUFFICES ASSUME GuidanceInit PROVE GuidanceInv
  OBVIOUS
<1>1. /\ lexical \in [Tips -> Scores] /\ newest \in Newest /\ asked \in 0..MaxLimit + 1 /\ pc = "load"
      /\ candidates = {} /\ selected = {} /\ answer = <<>> /\ uses = [t \in Tips |-> 0]
  BY DEF GuidanceInit
<1>2. answer \in Answers(Tips)
  <2>1. <<>> \in [1..0 -> Replies(Tips)] /\ 0 \in 0..MaxAnswer
    BY GuidanceConsts
  <2> QED BY <1>1, <2>1 DEF Answers
<1>3. GuidanceShape
  BY <1>1, <1>2, FS_EmptySet DEF GuidanceShape
<1>4. StageInv /\ UseInv
  BY <1>1 DEF StageInv, UseInv
<1> QED BY <1>3, <1>4 DEF GuidanceInv

LEMMA LoadCandidatesInv ==
  ASSUME GuidanceInv, LoadCandidates
  PROVE  GuidanceInv'
<1>1. /\ GuidanceShape /\ StageInv /\ UseInv /\ pc = "load"
      /\ candidates' = First(KeepLexical, Lexicals)
      /\ pc' = IF candidates' = {} THEN "over" ELSE "vector"
      /\ UNCHANGED <<lexical, newest, asked, selected, answer, uses>>
  BY DEF GuidanceInv, LoadCandidates, Lexicals
<1>2. /\ Lexicals \subseteq Entry /\ OnePerTip(Lexicals) /\ IsFiniteSet(Lexicals)
      /\ Lexicals = {} <=> Fitting = {}
  BY <1>1, LexicalsFields DEF GuidanceShape
<1>3. candidates' \subseteq Entry /\ IsFiniteSet(candidates')
  BY <1>1, <1>2, FirstClosed, GuidanceConsts
<1>4. candidates' = {} <=> Fitting = {}
  BY <1>1, <1>2, FirstSome, GuidanceConsts
<1>5. selected = {} /\ answer = <<>> /\ \A t \in Tips : uses[t] = 0
  BY <1>1 DEF StageInv, UseInv
<1>6. Lexicals' = Lexicals /\ Fitting' = Fitting
  BY <1>1 DEF Lexicals, Fitting
<1>7. GuidanceShape'
  BY <1>1, <1>3 DEF GuidanceShape
<1>8. CASE candidates' = {}
  <2>1. Fitting' = {} /\ pc' = "over" /\ selected' = {} /\ answer' = <<>>
    BY <1>1, <1>4, <1>5, <1>6, <1>8
  <2>2. OnePerTip(candidates') /\ Fair(candidates)'
    BY <1>8, <2>1 DEF OnePerTip, Fair
  <2>3. Chosen(answer)' = {}
    BY <1>8 DEF Chosen
  <2>4. Choice' = {}
    BY <1>8, <2>3 DEF Choice
  <2>5. First(Limit', {}) = {}
    BY DEF First
  <2>6. First(Limit, Choice)' = {}
    BY <2>4, <2>5 DEF First
  <2>7. StageInv'
    BY <1>4, <1>6, <2>1, <2>2, <2>6 DEF StageInv, OnePerTip
  <2>8. UseInv'
    BY <1>1, <1>5 DEF UseInv
  <2> QED BY <1>7, <2>7, <2>8 DEF GuidanceInv
<1>9. CASE candidates' # {}
  <2>1. pc' = "vector"
    BY <1>1, <1>9
  <2>2. First(KeepLexical, Lexicals)' = First(KeepLexical, Lexicals)
    BY <1>6 DEF First
  <2>3. StageInv'
    BY <1>1, <1>5, <1>9, <2>1, <2>2 DEF StageInv
  <2>4. UseInv'
    BY <1>1, <1>5 DEF UseInv
  <2> QED BY <1>7, <2>3, <2>4 DEF GuidanceInv
<1> QED BY <1>8, <1>9

LEMMA LoadFailsInv ==
  ASSUME GuidanceInv, LoadFails
  PROVE  GuidanceInv'
<1>1. /\ GuidanceShape /\ StageInv /\ UseInv /\ pc = "load" /\ pc' = "failed"
      /\ UNCHANGED <<lexical, newest, asked, candidates, selected, answer, uses>>
  BY DEF GuidanceInv, LoadFails
<1>2. GuidanceShape'
  BY <1>1 DEF GuidanceShape
<1>3. StageInv'
  BY <1>1 DEF StageInv
<1>4. UseInv'
  BY <1>1 DEF UseInv
<1> QED BY <1>2, <1>3, <1>4 DEF GuidanceInv

LEMMA VectorCandidatesInv ==
  ASSUME GuidanceInv, VectorCandidates
  PROVE  GuidanceInv'
<1>1. /\ GuidanceShape /\ StageInv /\ UseInv /\ pc = "vector" /\ pc' = "rerank"
      /\ UNCHANGED <<lexical, newest, asked, selected, answer, uses>>
  BY DEF GuidanceInv, VectorCandidates
<1>2. PICK near \in SUBSET Tips : \E sc \in [near -> VectorScores] :
        candidates' = First(KeepCandidates, Merged(candidates, {Of(t, sc[t]) : t \in near}))
  BY DEF VectorCandidates
<1>a. PICK sc \in [near -> VectorScores] :
        candidates' = First(KeepCandidates, Merged(candidates, {Of(t, sc[t]) : t \in near}))
  BY <1>2
<1> DEFINE X == {Of(t, sc[t]) : t \in near}
<1>3. \A e \in X : e \in Entry /\ e.at = 0 /\ e = Of(e.tip, sc[e.tip])
  <2>1. \A t \in near : t \in Tips /\ sc[t] \in Nat
    BY DEF VectorScores
  <2> QED BY <2>1, OfFields
<1>4. X \subseteq Entry /\ OnePerTip(X) /\ \A e \in X : e.at = 0
  BY <1>3 DEF OnePerTip
<1>5. candidates = First(KeepLexical, Lexicals) /\ candidates # {} /\ selected = {} /\ answer = <<>>
      /\ \A t \in Tips : uses[t] = 0
  BY <1>1 DEF StageInv, UseInv
<1> HIDE DEF X
<1>6. /\ candidates' \subseteq Entry /\ IsFiniteSet(candidates')
      /\ OnePerTip(candidates') /\ Fair(candidates') /\ candidates' # {}
  BY <1>1, <1>a, <1>4, <1>5, FairlyMerged DEF GuidanceShape, X
<1>7. Fitting # {}
  BY <1>1, <1>5, LexicalsFields, FirstSome, GuidanceConsts DEF GuidanceShape
<1>8. Fitting' = Fitting
  BY <1>1 DEF Fitting
<1>9. OnePerTip(candidates)' /\ Fair(candidates)'
  BY <1>1, <1>6, <1>8 DEF OnePerTip, Fair
<1>10. GuidanceShape'
  BY <1>1, <1>6 DEF GuidanceShape
<1>11. StageInv'
  BY <1>1, <1>5, <1>6, <1>7, <1>8, <1>9 DEF StageInv
<1>12. UseInv'
  BY <1>1, <1>5 DEF UseInv
<1> QED BY <1>10, <1>11, <1>12 DEF GuidanceInv

LEMMA RerankInv ==
  ASSUME GuidanceInv, Rerank
  PROVE  GuidanceInv'
<1>1. /\ GuidanceShape /\ StageInv /\ UseInv /\ pc = "rerank" /\ pc' = "record"
      /\ UNCHANGED <<lexical, newest, asked, candidates, uses>>
      /\ answer' \in IF Cardinality(candidates) > 1 THEN Answers({c.tip : c \in candidates})
                     ELSE {<<>>}
      /\ selected' = First(Limit, IF Chosen(answer') = {} THEN candidates ELSE Chosen(answer'))
  BY DEF GuidanceInv, Rerank
<1>2. answer = <<>> /\ \A t \in Tips : uses[t] = 0
  BY <1>1 DEF StageInv, UseInv
<1>3. answer' \in Answers(Tips)
  <2>1. {c.tip : c \in candidates} \in SUBSET Tips
    BY <1>1 DEF GuidanceShape, Entry
  <2> QED BY <1>1, <2>1, AnswersOf
<1>4. Chosen(answer)' = Chosen(answer') /\ Choice' = IF Chosen(answer') = {} THEN candidates ELSE Chosen(answer')
  BY <1>1 DEF Chosen, Choice
<1>5. Limit' = Limit /\ Limit \in Nat
  BY <1>1, LimitFits, GuidanceConsts DEF Limit, GuidanceShape
<1>6. Chosen(answer') \subseteq Entry /\ IsFiniteSet(Chosen(answer'))
  BY <1>1, <1>3, ChosenFields DEF GuidanceShape
<1>7. Choice' \subseteq Entry /\ IsFiniteSet(Choice')
  BY <1>1, <1>4, <1>6 DEF GuidanceShape
<1>8. selected' = First(Limit, Choice')
  BY <1>1, <1>4
<1>9. selected' = First(Limit, Choice)'
  BY <1>5, <1>8 DEF First
<1>10. selected' \subseteq Entry /\ IsFiniteSet(selected')
  BY <1>5, <1>7, <1>8, FirstClosed
<1>11. GuidanceShape'
  BY <1>1, <1>3, <1>10 DEF GuidanceShape
<1>12. StageInv'
  <2>1. Fitting' = Fitting
    BY <1>1 DEF Fitting
  <2>2. OnePerTip(candidates)' /\ Fair(candidates)'
    BY <1>1, <2>1 DEF StageInv, OnePerTip, Fair
  <2> QED BY <1>1, <1>9, <2>1, <2>2 DEF StageInv
<1>13. UseInv'
  BY <1>1, <1>2 DEF UseInv
<1> QED BY <1>11, <1>12, <1>13 DEF GuidanceInv

LEMMA RecordInv ==
  ASSUME GuidanceInv, Record
  PROVE  GuidanceInv'
<1>1. /\ GuidanceShape /\ StageInv /\ UseInv /\ pc = "record" /\ pc' = "over"
      /\ UNCHANGED <<lexical, newest, asked, candidates, selected, answer>>
  BY DEF GuidanceInv, Record
<1>2. \A t \in Tips : uses[t] = 0
  BY <1>1 DEF UseInv
<1>3. \A t \in Tips : UsesOf(t) \subseteq selected /\ UsesOf(t)' = UsesOf(t)
  BY <1>1 DEF UsesOf
<1>4. \A t \in Tips : Cardinality(UsesOf(t)) \in Nat
  BY <1>1, <1>3, FS_Subset, FS_CardinalityType DEF GuidanceShape
<1>5. uses' \in [Tips -> Nat] /\ \A t \in Tips : uses'[t] = 0 \/ uses'[t] = Cardinality(UsesOf(t))
  <2>1. CASE UNCHANGED uses
    BY <1>1, <1>2, <2>1 DEF GuidanceShape
  <2>2. CASE uses' = [t \in Tips |-> uses[t] + Cardinality({e \in selected : e.tip = t})]
    <3>1. uses' = [t \in Tips |-> uses[t] + Cardinality(UsesOf(t))]
      BY <2>2 DEF UsesOf
    <3> QED BY <1>2, <1>4, <3>1
  <2> QED BY <2>1, <2>2 DEF Record
<1>6. GuidanceShape'
  BY <1>1, <1>5 DEF GuidanceShape
<1>7. StageInv'
  <2>1. Fitting' = Fitting /\ Choice' = Choice /\ Limit' = Limit
    BY <1>1 DEF Fitting, Choice, Chosen, Limit
  <2>2. OnePerTip(candidates)' /\ Fair(candidates)' /\ First(Limit, Choice)' = First(Limit, Choice)
    BY <1>1, <2>1 DEF StageInv, OnePerTip, Fair, First
  <2> QED BY <1>1, <2>1, <2>2 DEF StageInv
<1>8. UseInv'
  BY <1>1, <1>3, <1>5 DEF UseInv
<1> QED BY <1>6, <1>7, <1>8 DEF GuidanceInv

LEMMA GuidanceNextInv ==
  ASSUME GuidanceInv, [GuidanceNext]_guidanceVars
  PROVE  GuidanceInv'
<1>1. CASE UNCHANGED guidanceVars
  <2>1. UNCHANGED <<lexical, newest, asked, pc, candidates, selected, answer, uses>>
    BY <1>1 DEF guidanceVars
  <2>2. Lexicals' = Lexicals /\ Fitting' = Fitting /\ Choice' = Choice /\ Limit' = Limit
    BY <2>1 DEF Lexicals, Fitting, Choice, Chosen, Limit
  <2>3. /\ OnePerTip(candidates)' = OnePerTip(candidates) /\ Fair(candidates)' = Fair(candidates)
        /\ First(Limit, Choice)' = First(Limit, Choice)
        /\ First(KeepLexical, Lexicals)' = First(KeepLexical, Lexicals)
        /\ \A t \in Tips : UsesOf(t)' = UsesOf(t)
    BY <2>1, <2>2 DEF OnePerTip, Fair, First, UsesOf
  <2>4. GuidanceShape'
    BY <2>1 DEF GuidanceInv, GuidanceShape
  <2>5. StageInv'
    BY <2>1, <2>2, <2>3 DEF GuidanceInv, StageInv
  <2>6. UseInv'
    BY <2>1, <2>3 DEF GuidanceInv, UseInv
  <2> QED BY <2>4, <2>5, <2>6 DEF GuidanceInv
<1>2. CASE GuidanceNext
  BY <1>2, LoadCandidatesInv, LoadFailsInv, VectorCandidatesInv, RerankInv, RecordInv DEF
     GuidanceNext
<1> QED BY <1>1, <1>2

LEMMA GuidanceInvAlways == GuidanceSpec => []GuidanceInv
  BY GuidanceInitInv, GuidanceNextInv, PTL DEF GuidanceSpec

LEMMA GuidanceInvTypes == GuidanceInv => GuidanceTypeOK
  BY DEF GuidanceInv, GuidanceShape, GuidanceTypeOK

\* a set with more than one member has two
LEMMA TwoMembers ==
  ASSUME NEW S, IsFiniteSet(S)
  PROVE  Cardinality(S) > 1 <=> \E x, y \in S : x # y
<1>1. Cardinality(S) \in Nat
  BY FS_CardinalityType
<1>2. ASSUME NEW x \in S, NEW y \in S, x # y
      PROVE  Cardinality(S) > 1
  <2>1. /\ Cardinality(S) # 0
        /\ Cardinality(S) # 1
    BY <1>2, FS_EmptySet, FS_Singleton
  <2> QED BY <1>1, <2>1
<1>3. ASSUME Cardinality(S) > 1
      PROVE  \E x, y \in S : x # y
  <2>1. S # {} /\ Cardinality(S) # 1
    BY <1>1, <1>3, FS_EmptySet
  <2>2. PICK x \in S : TRUE
    BY <2>1
  <2>3. S # {x}
    BY <2>1, FS_Singleton
  <2> QED BY <2>2, <2>3
<1> QED BY <1>2, <1>3

\* two entries of one tip are two entries of Claude's answer
LEMMA TwiceOnlyIfNamedTwice ==
  ASSUME GuidanceInv, pc \in {"record", "over"}, NEW t \in Tips, Cardinality(UsesOf(t)) > 1
  PROVE  Cardinality({i \in DOMAIN answer : answer[i].tip = t}) > 1
<1> DEFINE N == {i \in DOMAIN answer : answer[i].tip = t}
<1>1. GuidanceShape /\ OnePerTip(candidates) /\ selected = First(Limit, Choice)
  BY DEF GuidanceInv, StageInv
<1>2. selected \subseteq Choice
  BY <1>1 DEF First
<1>3. UsesOf(t) \subseteq selected /\ IsFiniteSet(UsesOf(t))
  <2>1. UsesOf(t) \subseteq selected
    BY DEF UsesOf
  <2> QED BY <1>1, <2>1, FS_Subset DEF GuidanceShape
<1>4. PICK d \in UsesOf(t), e \in UsesOf(t) : d # e
  BY <1>3, TwoMembers
<1>5. d \in Choice /\ e \in Choice /\ d.tip = t /\ e.tip = t
  BY <1>2 DEF UsesOf
<1>6. Chosen(answer) # {}
  BY <1>1, <1>4, <1>5 DEF Choice, OnePerTip
<1>7. d \in Chosen(answer) /\ e \in Chosen(answer)
  BY <1>5, <1>6 DEF Choice
<1>8. PICK i \in DOMAIN answer, c \in candidates : c.tip = answer[i].tip /\ d = Pick(answer, i, c)
  BY <1>7, ChosenIs
<1>9. PICK j \in DOMAIN answer, b \in candidates : b.tip = answer[j].tip /\ e = Pick(answer, j, b)
  BY <1>7, ChosenIs
<1>10. c.tip = t /\ b.tip = t
  BY <1>1, <1>5, <1>8, <1>9, PickFields DEF GuidanceShape
<1>11. i # j
  BY <1>1, <1>4, <1>8, <1>9, <1>10 DEF OnePerTip
<1>12. i \in N /\ j \in N
  BY <1>8, <1>9, <1>10
<1>13. IsFiniteSet(N)
  <2>1. IsFiniteSet(DOMAIN answer)
    BY <1>1, AnswerFields DEF GuidanceShape
  <2> QED BY <2>1, FS_Subset
<1> HIDE DEF N
<1>14. Cardinality(N) > 1
  BY <1>11, <1>12, <1>13, TwoMembers
<1> QED BY <1>14 DEF N

LEMMA GuidanceInvOffer == GuidanceInv => WithinTheOffer
<1> SUFFICES ASSUME GuidanceInv PROVE WithinTheOffer
  OBVIOUS
<1>1. GuidanceShape /\ StageInv /\ UseInv /\ Limit \in Nat /\ 1 <= Limit
  <2>1. GuidanceShape /\ StageInv /\ UseInv
    BY DEF GuidanceInv
  <2>2. Limit \in 1..MaxLimit
    BY <2>1, LimitFits DEF GuidanceShape
  <2> QED BY <2>1, <2>2, GuidanceConsts
<1>2. pc \notin {"record", "over"} => selected = {} /\ \A t \in Tips : uses[t] = 0
  BY <1>1 DEF StageInv, UseInv, GuidanceShape
<1>3. Choice \subseteq Entry /\ IsFiniteSet(Choice)
  BY <1>1, ChosenFields DEF Choice, GuidanceShape
<1>4. ASSUME pc \in {"record", "over"}
      PROVE  selected = First(Limit, Choice) /\ OnePerTip(candidates) /\ (candidates = {} <=> Fitting = {})
  BY <1>1, <1>4 DEF StageInv
<1>5. Cardinality(selected) <= Limit
  <2>1. CASE pc \in {"record", "over"}
    BY <1>1, <1>3, <1>4, <2>1, FirstAtMost
  <2>2. CASE pc \notin {"record", "over"}
    BY <1>1, <1>2, <2>2, FS_EmptySet
  <2> QED BY <2>1, <2>2
<1>6. ASSUME pc \in {"record", "over"}
      PROVE  (selected = {}) = (\A t \in newest : lexical[t] = 0)
  <2>1. selected = {} <=> Choice = {}
    BY <1>1, <1>3, <1>4, <1>6, FirstSome
  <2>2. Chosen(answer) # {} => candidates # {}
    BY ChosenIs
  <2>3. Choice = {} <=> candidates = {}
    BY <2>2 DEF Choice
  <2>4. Fitting = {} <=> \A t \in newest : lexical[t] = 0
    <3>1. \A t \in newest : lexical[t] \in Nat
      BY <1>1, GuidanceConsts DEF GuidanceShape, Newest
    <3> QED BY <3>1 DEF Fitting
  <2> QED BY <1>4, <1>6, <2>1, <2>3, <2>4
<1>7. ASSUME NEW e \in selected
      PROVE  \E c \in candidates : c.tip = e.tip /\ c.score <= e.score
  <2>1. pc \in {"record", "over"}
    BY <1>2, <1>7
  <2>2. e \in Choice /\ e \in Entry
    BY <1>1, <1>4, <2>1 DEF First, GuidanceShape
  <2>3. CASE Chosen(answer) = {}
    <3>1. e \in candidates /\ e.score \in Nat
      BY <2>2, <2>3 DEF Choice, Entry
    <3> QED BY <3>1
  <2>4. CASE Chosen(answer) # {}
    <3>1. e \in Chosen(answer)
      BY <2>2, <2>4 DEF Choice
    <3>2. PICK i \in DOMAIN answer, c \in candidates : c.tip = answer[i].tip /\ e = Pick(answer, i, c)
      BY <3>1, ChosenIs
    <3>3. c.tip = e.tip /\ c.score <= e.score
      BY <1>1, <3>2, PickFields DEF GuidanceShape
    <3> QED BY <3>3
  <2> QED BY <2>3, <2>4
<1>8. ASSUME NEW t \in Tips, Cardinality(UsesOf(t)) > 1 \/ uses[t] > 1
      PROVE  Cardinality({i \in DOMAIN answer : answer[i].tip = t}) > 1
  <2>1. Cardinality(UsesOf(t)) > 1
    BY <1>1, <1>8 DEF UseInv
  <2>2. pc \in {"record", "over"}
    <3> SUFFICES ASSUME selected = {} PROVE FALSE
      BY <1>2
    <3>1. UsesOf(t) = {}
      BY DEF UsesOf
    <3> QED BY <2>1, <3>1, FS_EmptySet
  <2> QED BY <2>1, <2>2, TwiceOnlyIfNamedTwice
<1> QED BY <1>5, <1>6, <1>7, <1>8 DEF WithinTheOffer, UsesOf

LEMMA GuidanceInvCaps == GuidanceInv => CapsKeepTheBest
<1> SUFFICES ASSUME GuidanceInv, pc \in {"record", "over"} PROVE CapsKeepTheBest
  BY DEF CapsKeepTheBest
<1>1. /\ GuidanceShape /\ Limit \in Nat /\ OnePerTip(candidates) /\ Fair(candidates)
      /\ selected = First(Limit, Choice)
  <2>1. GuidanceShape /\ OnePerTip(candidates) /\ Fair(candidates) /\ selected = First(Limit, Choice)
    BY DEF GuidanceInv, StageInv
  <2>2. Limit \in 1..MaxLimit
    BY <2>1, LimitFits DEF GuidanceShape
  <2> QED BY <2>1, <2>2, GuidanceConsts
<1>2. Choice \subseteq Entry /\ IsFiniteSet(Choice)
  BY <1>1, ChosenFields DEF Choice, GuidanceShape
<1>3. /\ selected \subseteq Choice
      /\ \A e \in selected, d \in Choice \ selected : d.score <= e.score
  BY <1>1, <1>2, FirstClosed
<1>4. ASSUME ~Ranked, NEW t \in newest, NEW e \in selected, ~Selected(t)
      PROVE  lexical[t] <= e.score
  <2>1. Choice = candidates
    BY <1>4 DEF Choice, Ranked
  <2>2. e \in candidates /\ e.score \in Nat /\ lexical[t] \in Nat
    BY <1>1, <1>3, <2>1, GuidanceConsts DEF GuidanceShape, Entry, Newest
  <2>3. CASE t \notin Fitting
    BY <2>2, <2>3 DEF Fitting
  <2>4. CASE \A c \in candidates : lexical[t] <= c.score
    BY <2>2, <2>4
  <2>5. CASE \E c \in candidates : c.tip = t /\ lexical[t] <= c.score
    <3>1. PICK c \in candidates : c.tip = t /\ lexical[t] <= c.score
      BY <2>5
    <3>2. c \notin selected
      BY <1>4, <3>1 DEF Selected
    <3>3. c.score <= e.score /\ c.score \in Nat
      BY <1>1, <1>3, <2>1, <3>2 DEF GuidanceShape, Entry
    <3> QED BY <2>2, <3>1, <3>3
  <2> QED BY <1>1, <2>3, <2>4, <2>5 DEF Fair
<1>5. ASSUME Ranked, NEW i \in DOMAIN answer, NEW c \in candidates, c.tip = answer[i].tip,
             ~Selected(answer[i].tip)
      PROVE  Cardinality(selected) = Limit
  <2>1. Choice = Chosen(answer)
    BY <1>5 DEF Choice, Ranked
  <2>2. Pick(answer, i, c) \in Chosen(answer)
    BY <1>5, ChosenIs
  <2>3. Pick(answer, i, c).tip = answer[i].tip
    BY <1>1, <1>5, PickFields DEF GuidanceShape
  <2>4. Pick(answer, i, c) \notin selected
    BY <1>5, <2>3 DEF Selected
  <2>5. selected # Choice
    BY <2>1, <2>2, <2>4
  <2> QED BY <1>1, <1>2, <2>5, FirstFull
<1> QED BY <1>4, <1>5 DEF CapsKeepTheBest

LEMMA GuidanceInvSound == GuidanceInv => GuidanceSound
  BY GuidanceInvOffer, GuidanceInvCaps DEF GuidanceSound

\* Every variable of Guidance keeps its type.
THEOREM GuidanceTypes == GuidanceSpec => []GuidanceTypeOK
BY GuidanceInvAlways, GuidanceInvTypes, PTL

\* For every scoring of the tips and every answer of Claude: the prompt gets no more than
\* it asked for, and something whenever one of the newest tips, which alone are read,
\* fits; a tip comes and is counted twice only if Claude named it twice; and of the caps
\* after the query's, that sees no score, none costs a better tip of those its place
\* (RetrieveGuidance, mergeRetrievedTips, rerankWithClaude, recordTipRetrieval).
THEOREM GuidanceHolds == GuidanceSpec => []GuidanceSound
BY GuidanceInvAlways, GuidanceInvSound, PTL

-----------------------------------------------------------------------------
(* RepoLinks.                                                              *)

LinkRows == [id : 0..MaxRowIds, hook : 0..MaxHooks, installation : {0}]
LinkerRows == [at : {"idle", "hook", "insert", "unhook", "delete"},
               org : Owners \cup {NoOwner}, id : 0..MaxRowIds, hook : 0..MaxHooks]
Notices == [kind : Kinds \cup {"none", "created", "deleted"}, due : SUBSET {"hook", "app"},
            served : [Owners -> Nat], held : SUBSET Owners, lost : BOOLEAN]
GivenRows == [hooks : 0..MaxHooks, rows : 0..MaxRowIds, turns : 0..MaxTurns]

LinkShape ==
  /\ signed \subseteq Owners
  /\ links \in [Owners -> LinkRows]
  /\ hook \in 0..MaxHooks
  /\ app \in BOOLEAN /\ upset \in BOOLEAN
  /\ linker \in [Linkers -> LinkerRows]
  /\ notice \in Notices
  /\ given \in GivenRows

\* an event is handled once per route that is no longer due; only the
\* repository's own webhook tells of a push; and a row that was held all along is
\* served by that webhook
NoticeOK(n, rows) ==
  /\ n.kind \in {"created", "deleted"} => "hook" \notin n.due
  /\ n.held \subseteq rows
  /\ \A o \in Owners :
       /\ "hook" \in n.due /\ "app" \in n.due => n.served[o] = 0
       /\ "hook" \in n.due \/ "app" \in n.due => n.served[o] <= 1
       /\ n.served[o] <= 2
       /\ n.kind \in {"push", "delete"} =>
            n.served[o] <= 1 /\ ("hook" \in n.due => n.served[o] = 0)
       /\ n.kind \in Kinds /\ ~n.lost /\ o \in n.held => "hook" \in n.due \/ n.served[o] >= 1

NoticeInv == NoticeOK(notice, Linked)

\* numbers are given once, and who is busy has a row of the table to be busy with
NumberInv ==
  /\ hook <= given.hooks
  /\ \A o \in Owners : links[o].hook <= given.hooks /\ links[o].id <= given.rows
  /\ \A o \in Owners : links[o].id = 0 => links[o].hook = 0
  /\ \A c \in Linkers : /\ linker[c].hook <= given.hooks
                        /\ linker[c].at # "idle" => linker[c].org \in Owners

\* a request that none of its organisation crosses: it is signed in, and the row
\* is as the request read it
LinkerOK(l) ==
  /\ l.at # "idle" => l.org \in signed
  /\ l.at = "hook" => links[l.org].id = 0
  /\ l.at = "insert" => links[l.org].id = 0 /\ (l.hook # 0 => l.hook = hook)
  /\ l.at \in {"unhook", "delete"} =>
       links[l.org].id # 0 /\ links[l.org].id = l.id /\ links[l.org].hook = l.hook
  /\ l.at = "delete" /\ l.hook # 0 => l.hook # hook

CalmInv ==
  ~upset =>
    /\ Linked \subseteq signed
    /\ \A c \in Linkers : LinkerOK(linker[c])
    /\ \A c, d \in Linkers : linker[c].at # "idle" /\ linker[d].at # "idle"
                             /\ linker[c].org = linker[d].org => c = d

\* who remembers the webhook
Remembered ==
  hook # 0 => \/ \E o \in Owners : links[o].hook = hook
              \/ \E c \in Linkers : linker[c].at = "insert" /\ linker[c].hook = hook

Settled ==
  \A o \in Owners : links[o].hook # 0 =>
    \/ links[o].hook = hook
    \/ \E c \in Linkers : linker[c].at = "delete" /\ linker[c].org = o

OneMemory ==
  /\ \A o, p \in Owners : links[o].hook # 0 /\ links[o].hook = links[p].hook => o = p
  /\ \A o \in Owners, c \in Linkers :
       linker[c].at = "insert" /\ linker[c].hook # 0 => links[o].hook # linker[c].hook
  /\ \A c, d \in Linkers :
       linker[c].at = "insert" /\ linker[d].at = "insert" /\ linker[c].hook # 0
       /\ linker[c].hook = linker[d].hook => c = d

HolderInv == ~upset => Remembered /\ Settled /\ OneMemory

LinkInv == LinkShape /\ NoticeInv /\ NumberInv /\ CalmInv /\ HolderInv

LEMMA LinkConsts ==
  /\ NoOwner \notin Owners /\ Installation \in Nat /\ Installation # 0
  /\ MaxHooks \in Nat /\ MaxRowIds \in Nat /\ MaxTurns \in Nat
  /\ "created" \notin Kinds /\ "deleted" \notin Kinds
  BY LinkAssumption

LEMMA LinkInitInv == LinkInit => LinkInv
<1> SUFFICES ASSUME LinkInit PROVE LinkInv
  OBVIOUS
<1>1. /\ signed \subseteq Owners /\ app \in BOOLEAN /\ hook = 0 /\ upset = FALSE
      /\ links = [o \in Owners |-> NoLink] /\ linker = [c \in Linkers |-> AtRestLinker]
      /\ notice = NoNotice /\ given = [hooks |-> 0, rows |-> 0, turns |-> 0]
  BY DEF LinkInit
<1>2. NoLink \in LinkRows /\ NoLink.id = 0 /\ NoLink.hook = 0
  BY LinkConsts DEF NoLink, LinkRows
<1>3. links \in [Owners -> LinkRows] /\ \A o \in Owners : links[o].id = 0 /\ links[o].hook = 0
  BY <1>1, <1>2
<1>4. AtRestLinker \in LinkerRows /\ AtRestLinker.at = "idle" /\ AtRestLinker.hook = 0
  BY LinkConsts DEF AtRestLinker, LinkerRows
<1>5. linker \in [Linkers -> LinkerRows] /\ \A c \in Linkers : linker[c].at = "idle" /\ linker[c].hook = 0
  BY <1>1, <1>4
<1>6. Unserved \in [Owners -> Nat] /\ \A o \in Owners : Unserved[o] = 0
  BY DEF Unserved
<1>7. notice \in Notices
  BY <1>1, <1>6 DEF NoNotice, Notices
<1>8. /\ notice.kind = "none" /\ notice.due = {} /\ notice.served = Unserved /\ notice.held = {}
  BY <1>1 DEF NoNotice
<1>9. given \in GivenRows /\ given.hooks = 0 /\ given.rows = 0
  BY <1>1, LinkConsts DEF GivenRows
<1>10. LinkShape
  <2>1. hook \in 0..MaxHooks
    BY <1>1, LinkConsts
  <2>2. upset \in BOOLEAN
    BY <1>1, Zenon
  <2> QED BY <1>1, <1>3, <1>5, <1>7, <1>9, <2>1, <2>2 DEF LinkShape
<1>11. NoticeInv
  BY <1>6, <1>8, LinkConsts DEF NoticeInv, NoticeOK
<1>12. NumberInv
  BY <1>1, <1>3, <1>5, <1>9 DEF NumberInv
<1>13. CalmInv
  BY <1>3, <1>5 DEF CalmInv, LinkerOK, Linked
<1>14. HolderInv
  BY <1>1, <1>3, <1>5 DEF HolderInv, Remembered, Settled, OneMemory
<1> QED BY <1>10, <1>11, <1>12, <1>13, <1>14 DEF LinkInv

LEMMA LinkFields ==
  ASSUME LinkShape, NEW o \in Owners
  PROVE  links[o] \in LinkRows /\ links[o].id \in 0..MaxRowIds /\ links[o].hook \in 0..MaxHooks
         /\ links[o].installation = 0
<1>1. links[o] \in LinkRows
  BY DEF LinkShape
<1> QED BY <1>1 DEF LinkRows

LEMMA LinkerFields ==
  ASSUME LinkShape, NEW c \in Linkers
  PROVE  /\ linker[c] \in LinkerRows /\ linker[c].at \in {"idle", "hook", "insert", "unhook", "delete"}
         /\ linker[c].org \in Owners \cup {NoOwner} /\ linker[c].id \in 0..MaxRowIds
         /\ linker[c].hook \in 0..MaxHooks
<1>1. linker[c] \in LinkerRows
  BY DEF LinkShape
<1> QED BY <1>1 DEF LinkerRows

LEMMA GivenFields ==
  ASSUME LinkShape
  PROVE  /\ given.hooks \in 0..MaxHooks /\ given.rows \in 0..MaxRowIds /\ given.turns \in 0..MaxTurns
<1>1. given \in GivenRows
  BY DEF LinkShape
<1> QED BY <1>1 DEF GivenRows

LEMMA NoticeFields ==
  ASSUME LinkShape
  PROVE  /\ notice \in Notices /\ notice.kind \in Kinds \cup {"none", "created", "deleted"}
         /\ notice.due \in SUBSET {"hook", "app"} /\ notice.served \in [Owners -> Nat]
         /\ notice.held \in SUBSET Owners
<1>1. notice \in Notices
  BY DEF LinkShape
<1> QED BY <1>1 DEF Notices

\* a request moves, and the others stay where they are
LEMMA LinkerMoves ==
  ASSUME LinkShape, NEW c \in Linkers, NEW r \in LinkerRows, linker' = [linker EXCEPT ![c] = r]
  PROVE  /\ linker' \in [Linkers -> LinkerRows] /\ linker'[c] = r
         /\ \A d \in Linkers \ {c} : linker'[d] = linker[d]
  BY DEF LinkShape

LEMMA TurnTaken ==
  ASSUME LinkShape, Turn
  PROVE  given' \in GivenRows /\ given'.hooks = given.hooks /\ given'.rows = given.rows
<1> DEFINE g == [given EXCEPT !.turns = @ + 1]
<1>1. given \in GivenRows /\ given.turns \in 0..MaxTurns /\ given.turns < MaxTurns /\ given' = g
  BY GivenFields DEF LinkShape, Turn
<1>2. g \in GivenRows
  BY <1>1, LinkConsts DEF GivenRows
<1>3. g.hooks = given.hooks
  BY <1>1 DEF GivenRows
<1>4. g.rows = given.rows
  BY <1>1 DEF GivenRows
<1> HIDE DEF g
<1> QED BY <1>1, <1>2, <1>3, <1>4

\* what a step of two requests of an organisation leaves in the history
LEMMA Crossed ==
  ASSUME LinkShape, NEW yes \in BOOLEAN, Crossing(yes)
  PROVE  /\ given' \in GivenRows /\ given'.hooks = given.hooks /\ given'.rows = given.rows
         /\ upset' \in BOOLEAN /\ (~upset' => ~upset /\ ~yes)
<1>1. CASE Break
  BY <1>1, TurnTaken DEF Break
<1>2. CASE ~yes /\ UNCHANGED <<given, upset>>
  BY <1>2 DEF LinkShape
<1> QED BY <1>1, <1>2 DEF Crossing

\* the event on its way is the same for a table with no fewer rows
LEMMA SameNotice ==
  ASSUME NoticeInv, notice' = notice, Linked \subseteq Linked'
  PROVE  NoticeInv'
  BY DEF NoticeInv, NoticeOK

LEMMA FollowedNotice ==
  ASSUME LinkShape, NoticeInv, NEW there, notice' = Followed(links', there),
         \A o \in Owners : o \in Linked' <=> links'[o].id # 0
  PROVE  notice' \in Notices /\ NoticeInv'
<1> DEFINE h == {o \in notice.held : links'[o].id # 0 /\ there}
           n == [notice EXCEPT !.held = h]
<1>1. notice \in Notices /\ notice' = n
  BY NoticeFields DEF Followed
<1>2. h \subseteq notice.held
  OBVIOUS
<1>3. h \subseteq Linked'
  BY NoticeFields DEF NoticeInv, NoticeOK
<1> HIDE DEF h
<1>4. n \in Notices
  BY <1>1, <1>2, NoticeFields DEF Notices
<1>5. n.kind = notice.kind
  BY <1>1 DEF Notices
<1>6. n.due = notice.due
  BY <1>1 DEF Notices
<1>7. n.served = notice.served
  BY <1>1 DEF Notices
<1>8. n.held = h
  BY <1>1 DEF Notices
<1>9. n.lost = notice.lost
  BY <1>1, Zenon DEF Notices
<1> HIDE DEF n
<1>10. NoticeOK(n, Linked')
  BY <1>2, <1>3, <1>5, <1>6, <1>7, <1>8, <1>9 DEF NoticeInv, NoticeOK
<1> QED BY <1>1, <1>4, <1>10 DEF NoticeInv

LEMMA ExchangeCodeInv ==
  ASSUME LinkInv, NEW o \in Owners, ExchangeCode(o)
  PROVE  LinkInv'
<1>1. LinkShape /\ NoticeInv /\ NumberInv /\ CalmInv /\ HolderInv
  BY DEF LinkInv
<1>2. LinkShape
  BY <1>1
<1>3. signed' = signed \cup {o} /\ UNCHANGED <<links, hook, app, linker, notice, given, upset>>
  BY DEF ExchangeCode
<1>4. given.hooks \in Nat /\ given.rows \in Nat /\ hook \in Nat
      /\ \A d \in Linkers : linker[d].hook \in Nat
  BY <1>2, GivenFields, LinkerFields, LinkConsts DEF LinkShape
<1>5. LinkShape'
  BY <1>1, <1>3, <1>4, LinkConsts DEF LinkShape
<1>6. NoticeInv'
  BY <1>1, <1>3, <1>4, SameNotice DEF Linked
<1>7. NumberInv'
  BY <1>1, <1>3, <1>4, LinkConsts DEF NumberInv
<1>8. CalmInv'
  BY <1>1, <1>3, <1>4, LinkConsts DEF CalmInv, LinkerOK, Linked
<1>9. ~upset' => Remembered'
  BY <1>1, <1>3, <1>4, LinkConsts DEF HolderInv, Remembered
<1>10. ~upset' => Settled'
  BY <1>1, <1>3, <1>4, LinkConsts DEF HolderInv, Settled
<1>11. ~upset' => OneMemory'
  BY <1>1, <1>3, <1>4, LinkConsts DEF HolderInv, OneMemory
<1> QED BY <1>5, <1>6, <1>7, <1>8, <1>9, <1>10, <1>11 DEF LinkInv, HolderInv

LEMMA DeleteConnectionInv ==
  ASSUME LinkInv, NEW o \in Owners, DeleteConnection(o)
  PROVE  LinkInv'
<1>1. LinkShape /\ NoticeInv /\ NumberInv /\ CalmInv /\ HolderInv
  BY DEF LinkInv
<1>2. LinkShape
  BY <1>1
<1>3. signed' \subseteq signed /\ upset' = TRUE /\ UNCHANGED <<links, hook, app, linker, notice>>
  BY DEF DeleteConnection, Break
<1>4. given' \in GivenRows /\ given'.hooks = given.hooks /\ given'.rows = given.rows
  BY <1>2, TurnTaken DEF DeleteConnection, Break
<1>5. given.hooks \in Nat /\ given.rows \in Nat /\ hook \in Nat
      /\ \A d \in Linkers : linker[d].hook \in Nat
  BY <1>2, GivenFields, LinkerFields, LinkConsts DEF LinkShape
<1>6. LinkShape'
  BY <1>1, <1>3, <1>4, <1>5, LinkConsts DEF LinkShape
<1>7. NoticeInv'
  BY <1>1, <1>3, <1>4, <1>5, SameNotice DEF Linked
<1>8. NumberInv'
  BY <1>1, <1>3, <1>4, <1>5, LinkConsts DEF NumberInv
<1>9. CalmInv'
  BY <1>1, <1>3, <1>4, <1>5, LinkConsts DEF CalmInv, LinkerOK, Linked
<1>10. ~upset' => Remembered'
  BY <1>1, <1>3, <1>4, <1>5, LinkConsts DEF HolderInv, Remembered
<1>11. ~upset' => Settled'
  BY <1>1, <1>3, <1>4, <1>5, LinkConsts DEF HolderInv, Settled
<1>12. ~upset' => OneMemory'
  BY <1>1, <1>3, <1>4, <1>5, LinkConsts DEF HolderInv, OneMemory
<1> QED BY <1>6, <1>7, <1>8, <1>9, <1>10, <1>11, <1>12 DEF LinkInv, HolderInv

LEMMA AskToConnectInv ==
  ASSUME LinkInv, NEW c \in Linkers, NEW o \in Owners, AskToConnect(c, o)
  PROVE  LinkInv'
<1>1. LinkShape /\ NoticeInv /\ NumberInv /\ CalmInv /\ HolderInv
  BY DEF LinkInv
<1>2. LinkShape
  BY <1>1
<1>3. /\ linker[c].at = "idle" /\ o \in signed /\ UNCHANGED <<signed, links, hook, app, notice>>
      /\ linker' = [linker EXCEPT ![c] = [AtRestLinker EXCEPT !.at = "hook", !.org = o]]
  BY DEF AskToConnect
<1>4. /\ linker' \in [Linkers -> LinkerRows] /\ linker'[c].at = "hook" /\ linker'[c].org = o
      /\ linker'[c].id = 0 /\ linker'[c].hook = 0
      /\ \A d \in Linkers \ {c} : linker'[d] = linker[d]
  <2> DEFINE r == [AtRestLinker EXCEPT !.at = "hook", !.org = o]
  <2>1. AtRestLinker \in LinkerRows /\ AtRestLinker.id = 0 /\ AtRestLinker.hook = 0
    BY LinkConsts DEF AtRestLinker, LinkerRows
  <2>2. r \in LinkerRows
    BY <2>1 DEF LinkerRows
  <2>3. r.at = "hook" /\ r.org = o
    BY <2>1 DEF LinkerRows
  <2>4. r.id = 0 /\ r.hook = 0
    BY <2>1 DEF LinkerRows
  <2>5. linker' = [linker EXCEPT ![c] = r]
    BY <1>3
  <2> HIDE DEF r
  <2> QED BY <1>2, <2>2, <2>3, <2>4, <2>5, LinkerMoves
<1>5. /\ given' \in GivenRows /\ given'.hooks = given.hooks /\ given'.rows = given.rows
      /\ upset' \in BOOLEAN /\ (~upset' => ~upset /\ links[o].id = 0 /\ BusyWith(o) = {})
  BY <1>2, Crossed DEF AskToConnect, Linked
<1>6. ~upset' => \A d \in Linkers : linker[d].at = "idle" \/ linker[d].org # o
  BY <1>5 DEF BusyWith
<1>7. given.hooks \in Nat /\ given.rows \in Nat /\ hook \in Nat
      /\ \A d \in Linkers : linker[d].hook \in Nat
  BY <1>2, GivenFields, LinkerFields, LinkConsts DEF LinkShape
<1>8. LinkShape'
  BY <1>1, <1>3, <1>4, <1>5, <1>6, <1>7, LinkConsts DEF LinkShape
<1>9. NoticeInv'
  BY <1>1, <1>3, <1>4, <1>5, <1>6, <1>7, SameNotice DEF Linked
<1>10. NumberInv'
  BY <1>1, <1>3, <1>4, <1>5, <1>6, <1>7, LinkConsts DEF NumberInv
<1>11. CalmInv'
  BY <1>1, <1>3, <1>4, <1>5, <1>6, <1>7, LinkConsts DEF CalmInv, LinkerOK, Linked
<1>12. ~upset' => Remembered'
  BY <1>1, <1>3, <1>4, <1>5, <1>6, <1>7, LinkConsts DEF HolderInv, Remembered
<1>13. ~upset' => Settled'
  BY <1>1, <1>3, <1>4, <1>5, <1>6, <1>7, LinkConsts DEF HolderInv, Settled
<1>14. ~upset' => OneMemory'
  BY <1>1, <1>3, <1>4, <1>5, <1>6, <1>7, LinkConsts DEF HolderInv, OneMemory
<1> QED BY <1>8, <1>9, <1>10, <1>11, <1>12, <1>13, <1>14 DEF LinkInv, HolderInv

LEMMA HookedMoves ==
  ASSUME LinkShape, NEW c \in Linkers, NEW n \in 0..MaxHooks, Hooked(c, n)
  PROVE  /\ linker' \in [Linkers -> LinkerRows] /\ linker'[c].at = "insert"
         /\ linker'[c].org = linker[c].org /\ linker'[c].id = linker[c].id /\ linker'[c].hook = n
         /\ \A d \in Linkers \ {c} : linker'[d] = linker[d]
<1> DEFINE r == [linker[c] EXCEPT !.at = "insert", !.hook = n]
<1>1. linker[c] \in LinkerRows
  BY LinkerFields
<1>2. r \in LinkerRows
  BY <1>1 DEF LinkerRows
<1>3. r.at = "insert"
  BY <1>1 DEF LinkerRows
<1>4. r.hook = n
  BY <1>1 DEF LinkerRows
<1>5. r.org = linker[c].org
  BY <1>1 DEF LinkerRows
<1>6. r.id = linker[c].id
  BY <1>1 DEF LinkerRows
<1>7. linker' = [linker EXCEPT ![c] = r]
  BY DEF Hooked, LinkShape
<1> HIDE DEF r
<1> QED BY <1>2, <1>3, <1>4, <1>5, <1>6, <1>7, LinkerMoves

LEMMA HookGiven ==
  ASSUME LinkShape, given.hooks < MaxHooks,
         \/ given' = [given EXCEPT !.hooks = @ + 1]
         \/ given.turns < MaxTurns /\ given' = [given EXCEPT !.hooks = @ + 1, !.turns = @ + 1]
  PROVE  given' \in GivenRows /\ given'.hooks = given.hooks + 1 /\ given'.rows = given.rows
<1>1. given \in GivenRows /\ given.hooks \in 0..MaxHooks /\ given.turns \in 0..MaxTurns
  BY GivenFields DEF LinkShape
<1>2. CASE given' = [given EXCEPT !.hooks = @ + 1]
  <2> DEFINE k == given.hooks + 1
  <2>1. k \in 0..MaxHooks /\ given' = [given EXCEPT !.hooks = k]
    BY <1>1, <1>2, LinkConsts
  <2> HIDE DEF k
  <2>2. given' \in GivenRows
    BY <1>1, <2>1 DEF GivenRows
  <2>3. given'.hooks = k
    BY <1>1, <2>1 DEF GivenRows
  <2>4. given'.rows = given.rows
    BY <1>1, <2>1 DEF GivenRows
  <2> QED BY <2>2, <2>3, <2>4 DEF k
<1>3. CASE given.turns < MaxTurns /\ given' = [given EXCEPT !.hooks = @ + 1, !.turns = @ + 1]
  <2> DEFINE k == given.hooks + 1
             u == given.turns + 1
  <2>1. k \in 0..MaxHooks /\ u \in 0..MaxTurns /\ given' = [given EXCEPT !.hooks = k, !.turns = u]
    BY <1>1, <1>3, LinkConsts
  <2> HIDE DEF k, u
  <2>2. given' \in GivenRows
    BY <1>1, <2>1 DEF GivenRows
  <2>3. given'.hooks = k
    BY <1>1, <2>1 DEF GivenRows
  <2>4. given'.rows = given.rows
    BY <1>1, <2>1 DEF GivenRows
  <2> QED BY <2>2, <2>3, <2>4 DEF k
<1> QED BY <1>2, <1>3


LEMMA WebhookMade ==
  ASSUME LinkInv, NEW c \in Linkers, linker[c].at = "hook", NEW n \in 0..MaxHooks, Hooked(c, n),
         hook = 0, given.hooks < MaxHooks, hook' = given.hooks + 1,
         \/ given' = [given EXCEPT !.hooks = @ + 1]
         \/ given.turns < MaxTurns /\ given' = [given EXCEPT !.hooks = @ + 1, !.turns = @ + 1],
         \/ n = hook' /\ UNCHANGED upset
         \/ n = 0 /\ upset' = TRUE,
         UNCHANGED <<signed, links, app, notice>>
  PROVE  LinkInv'
<1>1. LinkShape /\ NoticeInv /\ NumberInv /\ CalmInv /\ HolderInv
  BY DEF LinkInv
<1>2. LinkShape
  BY <1>1
<1>3. UNCHANGED <<signed, links, app, notice>> /\ upset' \in BOOLEAN /\ given.hooks \in 0..MaxHooks
  BY <1>2, GivenFields DEF LinkShape
<1>4. /\ linker' \in [Linkers -> LinkerRows] /\ linker'[c].at = "insert" /\ linker'[c].org = linker[c].org
      /\ linker'[c].id = linker[c].id /\ linker'[c].hook = n
      /\ \A d \in Linkers \ {c} : linker'[d] = linker[d]
  BY <1>2, HookedMoves
<1>5. /\ given' \in GivenRows /\ given'.hooks = given.hooks + 1 /\ given'.rows = given.rows
      /\ hook' \in 0..MaxHooks
  BY <1>2, <1>3, HookGiven, LinkConsts
<1>6. /\ \A o \in Owners : links[o].hook <= given.hooks /\ links[o].hook \in Nat
      /\ \A d \in Linkers : linker[d].hook <= given.hooks /\ linker[d].hook \in Nat
  BY <1>1, LinkFields, LinkerFields DEF NumberInv
<1>7. given.hooks \in Nat /\ given.rows \in Nat /\ hook \in Nat
      /\ \A d \in Linkers : linker[d].hook \in Nat
  BY <1>2, GivenFields, LinkerFields, LinkConsts DEF LinkShape
<1>8. LinkShape'
  BY <1>1, <1>3, <1>4, <1>5, <1>6, <1>7, LinkConsts DEF LinkShape
<1>9. NoticeInv'
  BY <1>1, <1>3, <1>4, <1>5, <1>6, <1>7, SameNotice DEF Linked
<1>10. NumberInv'
  BY <1>1, <1>3, <1>4, <1>5, <1>6, <1>7, LinkConsts DEF NumberInv
<1>11. CalmInv'
  BY <1>1, <1>3, <1>4, <1>5, <1>6, <1>7, LinkConsts DEF CalmInv, LinkerOK, Linked
<1>12. ~upset' => Remembered'
  BY <1>1, <1>3, <1>4, <1>5, <1>6, <1>7, LinkConsts DEF HolderInv, Remembered
<1>13. ~upset' => Settled'
  BY <1>1, <1>3, <1>4, <1>5, <1>6, <1>7, LinkConsts DEF HolderInv, Settled
<1>14. ~upset' => OneMemory'
  BY <1>1, <1>3, <1>4, <1>5, <1>6, <1>7, LinkConsts DEF HolderInv, OneMemory
<1> QED BY <1>8, <1>9, <1>10, <1>11, <1>12, <1>13, <1>14 DEF LinkInv, HolderInv

LEMMA NoWebhookMade ==
  ASSUME LinkInv, NEW c \in Linkers, linker[c].at = "hook", Hooked(c, 0),
         \/ UNCHANGED <<given, upset>>
         \/ Break,
         UNCHANGED <<signed, links, hook, app, notice>>
  PROVE  LinkInv'
<1>1. LinkShape /\ NoticeInv /\ NumberInv /\ CalmInv /\ HolderInv
  BY DEF LinkInv
<1>2. LinkShape
  BY <1>1
<1>3. UNCHANGED <<signed, links, hook, app, notice>> /\ upset' \in BOOLEAN /\ (~upset' => ~upset)
  BY <1>2 DEF LinkShape, Break
<1>4. /\ linker' \in [Linkers -> LinkerRows] /\ linker'[c].at = "insert" /\ linker'[c].org = linker[c].org
      /\ linker'[c].id = linker[c].id /\ linker'[c].hook = 0
      /\ \A d \in Linkers \ {c} : linker'[d] = linker[d]
  BY <1>2, HookedMoves, LinkConsts
<1>5. given' \in GivenRows /\ given'.hooks = given.hooks /\ given'.rows = given.rows
  BY <1>2, TurnTaken DEF LinkShape, Break
<1>6. given.hooks \in Nat /\ given.rows \in Nat /\ hook \in Nat
      /\ \A d \in Linkers : linker[d].hook \in Nat
  BY <1>2, GivenFields, LinkerFields, LinkConsts DEF LinkShape
<1>7. LinkShape'
  BY <1>1, <1>3, <1>4, <1>5, <1>6, LinkConsts DEF LinkShape
<1>8. NoticeInv'
  BY <1>1, <1>3, <1>4, <1>5, <1>6, SameNotice DEF Linked
<1>9. NumberInv'
  BY <1>1, <1>3, <1>4, <1>5, <1>6, LinkConsts DEF NumberInv
<1>10. CalmInv'
  BY <1>1, <1>3, <1>4, <1>5, <1>6, LinkConsts DEF CalmInv, LinkerOK, Linked
<1>11. ~upset' => Remembered'
  BY <1>1, <1>3, <1>4, <1>5, <1>6, LinkConsts DEF HolderInv, Remembered
<1>12. ~upset' => Settled'
  BY <1>1, <1>3, <1>4, <1>5, <1>6, LinkConsts DEF HolderInv, Settled
<1>13. ~upset' => OneMemory'
  BY <1>1, <1>3, <1>4, <1>5, <1>6, LinkConsts DEF HolderInv, OneMemory
<1> QED BY <1>7, <1>8, <1>9, <1>10, <1>11, <1>12, <1>13 DEF LinkInv, HolderInv

LEMMA CreateWebhookInv ==
  ASSUME LinkInv, NEW c \in Linkers, CreateWebhook(c)
  PROVE  LinkInv'
<1>1. LinkShape /\ linker[c].at = "hook" /\ UNCHANGED <<signed, links, app, notice>>
  BY DEF LinkInv, CreateWebhook
<1>2. given.hooks \in 0..MaxHooks
  BY <1>1, GivenFields
<1>3. CASE linker[c].org \in signed /\ hook = 0 /\ given.hooks < MaxHooks
           /\ hook' = given.hooks + 1 /\ Hooked(c, hook')
           /\ given' = [given EXCEPT !.hooks = @ + 1] /\ UNCHANGED upset
  <2>1. hook' \in 0..MaxHooks
    BY <1>2, <1>3, LinkConsts
  <2> QED BY <1>1, <1>3, <2>1, WebhookMade
<1>4. CASE Hooked(c, 0) /\ UNCHANGED <<hook, given, upset>>
  BY <1>1, <1>4, NoWebhookMade
<1>5. CASE Break /\ Hooked(c, 0) /\ UNCHANGED hook
  BY <1>1, <1>5, NoWebhookMade
<1>6. CASE /\ linker[c].org \in signed /\ hook = 0 /\ given.hooks < MaxHooks /\ given.turns < MaxTurns
           /\ hook' = given.hooks + 1 /\ Hooked(c, 0)
           /\ given' = [given EXCEPT !.hooks = @ + 1, !.turns = @ + 1]
           /\ upset' = TRUE
  <2>1. 0 \in 0..MaxHooks
    BY LinkConsts
  <2> QED BY <1>1, <1>6, <2>1, WebhookMade
<1> QED BY <1>3, <1>4, <1>5, <1>6 DEF CreateWebhook

LEMMA RowSaved ==
  ASSUME LinkInv, NEW c \in Linkers, linker[c].at = "insert", linker' = [linker EXCEPT ![c] = AtRestLinker],
         NEW r \in LinkRows, r.hook = linker[c].hook, links' = [links EXCEPT ![linker[c].org] = r],
         \/ links[linker[c].org].id # 0 /\ r.id = links[linker[c].org].id /\ UNCHANGED given
         \/ links[linker[c].org].id = 0 /\ given.rows < MaxRowIds /\ r.id = given.rows + 1
            /\ given' = [given EXCEPT !.rows = @ + 1],
         UNCHANGED <<signed, hook, app, notice, upset>>
  PROVE  LinkInv'
<1>1. LinkShape /\ NoticeInv /\ NumberInv /\ CalmInv /\ HolderInv
  BY DEF LinkInv
<1>2. LinkShape
  BY <1>1
<1>3. UNCHANGED <<signed, hook, app, notice, upset>> /\ given.rows \in 0..MaxRowIds /\ linker[c].org \in Owners
  BY <1>1, GivenFields DEF NumberInv
<1>4. /\ linker' \in [Linkers -> LinkerRows] /\ linker'[c].at = "idle" /\ linker'[c].hook = 0
      /\ \A d \in Linkers \ {c} : linker'[d] = linker[d]
  <2>1. AtRestLinker \in LinkerRows /\ AtRestLinker.at = "idle" /\ AtRestLinker.hook = 0
    BY LinkConsts DEF AtRestLinker, LinkerRows
  <2> QED BY <1>2, <2>1, LinkerMoves
<1>5. /\ links' \in [Owners -> LinkRows] /\ links'[linker[c].org] = r
      /\ \A o \in Owners \ {linker[c].org} : links'[o] = links[o]
  BY <1>2, <1>3 DEF LinkShape
<1>6. given' \in GivenRows /\ given'.hooks = given.hooks /\ given'.rows \in {given.rows, given.rows + 1}
      /\ (links[linker[c].org].id = 0 => given'.rows = given.rows + 1)
  <2>1. CASE UNCHANGED given /\ links[linker[c].org].id # 0
    BY <1>2, <2>1 DEF LinkShape
  <2>2. CASE given' = [given EXCEPT !.rows = @ + 1] /\ given.rows < MaxRowIds
    <3> DEFINE k == given.rows + 1
    <3>1. given \in GivenRows /\ k \in 0..MaxRowIds /\ given' = [given EXCEPT !.rows = k]
      BY <1>2, <1>3, <2>2, LinkConsts DEF LinkShape
    <3> HIDE DEF k
    <3>2. given' \in GivenRows
      BY <3>1 DEF GivenRows
    <3>3. given'.rows = k
      BY <3>1 DEF GivenRows
    <3>4. given'.hooks = given.hooks
      BY <3>1 DEF GivenRows
    <3> QED BY <3>2, <3>3, <3>4 DEF k
  <2> QED BY <2>1, <2>2
<1>7. ~upset => links[linker[c].org].hook = 0 /\ (r.hook # 0 => r.hook = hook)
  BY <1>1, <1>3 DEF CalmInv, LinkerOK, NumberInv
<1>8. /\ r.id # 0 /\ r.id \in 0..MaxRowIds /\ r.hook \in 0..MaxHooks
      /\ \A o \in Owners : links[o].id \in 0..MaxRowIds /\ links[o].hook \in 0..MaxHooks
  BY <1>2, <1>3, LinkFields DEF LinkRows
<1>9. given.hooks \in Nat /\ given.rows \in Nat /\ hook \in Nat
      /\ \A d \in Linkers : linker[d].hook \in Nat
  BY <1>2, GivenFields, LinkerFields, LinkConsts DEF LinkShape
<1>10. LinkShape'
  BY <1>1, <1>3, <1>4, <1>5, <1>6, <1>7, <1>8, <1>9, LinkConsts DEF LinkShape
<1>11. NoticeInv'
  BY <1>1, <1>3, <1>4, <1>5, <1>6, <1>7, <1>8, <1>9, SameNotice DEF Linked
<1>12. NumberInv'
  BY <1>1, <1>3, <1>4, <1>5, <1>6, <1>7, <1>8, <1>9, LinkConsts DEF NumberInv
<1>13. CalmInv'
  BY <1>1, <1>3, <1>4, <1>5, <1>6, <1>7, <1>8, <1>9, LinkConsts DEF CalmInv, LinkerOK, Linked
<1>14. ~upset' => Remembered'
  BY <1>1, <1>3, <1>4, <1>5, <1>6, <1>7, <1>8, <1>9, LinkConsts DEF HolderInv, Remembered
<1>15. ~upset' => Settled'
  BY <1>1, <1>3, <1>4, <1>5, <1>6, <1>7, <1>8, <1>9, LinkConsts DEF HolderInv, Settled
<1>16. ~upset' => OneMemory'
  BY <1>1, <1>3, <1>4, <1>5, <1>6, <1>7, <1>8, <1>9, LinkConsts DEF HolderInv, OneMemory
<1> QED BY <1>10, <1>11, <1>12, <1>13, <1>14, <1>15, <1>16 DEF LinkInv, HolderInv

LEMMA RowNotSaved ==
  ASSUME LinkInv, NEW c \in Linkers, linker' = [linker EXCEPT ![c] = AtRestLinker], Break, UNCHANGED <<signed, links, hook, app, notice>>
  PROVE  LinkInv'
<1>1. LinkShape /\ NoticeInv /\ NumberInv /\ CalmInv /\ HolderInv
  BY DEF LinkInv
<1>2. LinkShape
  BY <1>1
<1>3. UNCHANGED <<signed, links, hook, app, notice>> /\ upset' = TRUE
  BY DEF Break
<1>4. /\ linker' \in [Linkers -> LinkerRows] /\ linker'[c].at = "idle" /\ linker'[c].hook = 0
      /\ \A d \in Linkers \ {c} : linker'[d] = linker[d]
  <2>1. AtRestLinker \in LinkerRows /\ AtRestLinker.at = "idle" /\ AtRestLinker.hook = 0
    BY LinkConsts DEF AtRestLinker, LinkerRows
  <2> QED BY <1>2, <2>1, LinkerMoves
<1>5. given' \in GivenRows /\ given'.hooks = given.hooks /\ given'.rows = given.rows
  BY <1>2, TurnTaken DEF Break
<1>6. given.hooks \in Nat /\ given.rows \in Nat /\ hook \in Nat
      /\ \A d \in Linkers : linker[d].hook \in Nat
  BY <1>2, GivenFields, LinkerFields, LinkConsts DEF LinkShape
<1>7. LinkShape'
  BY <1>1, <1>3, <1>4, <1>5, <1>6, LinkConsts DEF LinkShape
<1>8. NoticeInv'
  BY <1>1, <1>3, <1>4, <1>5, <1>6, SameNotice DEF Linked
<1>9. NumberInv'
  BY <1>1, <1>3, <1>4, <1>5, <1>6, LinkConsts DEF NumberInv
<1>10. CalmInv'
  BY <1>1, <1>3, <1>4, <1>5, <1>6, LinkConsts DEF CalmInv, LinkerOK, Linked
<1>11. ~upset' => Remembered'
  BY <1>1, <1>3, <1>4, <1>5, <1>6, LinkConsts DEF HolderInv, Remembered
<1>12. ~upset' => Settled'
  BY <1>1, <1>3, <1>4, <1>5, <1>6, LinkConsts DEF HolderInv, Settled
<1>13. ~upset' => OneMemory'
  BY <1>1, <1>3, <1>4, <1>5, <1>6, LinkConsts DEF HolderInv, OneMemory
<1> QED BY <1>7, <1>8, <1>9, <1>10, <1>11, <1>12, <1>13 DEF LinkInv, HolderInv

LEMMA SaveLinkInv ==
  ASSUME LinkInv, NEW c \in Linkers, SaveLink(c)
  PROVE  LinkInv'
<1> DEFINE o == linker[c].org
<1>1. /\ LinkShape /\ linker[c].at = "insert" /\ linker' = [linker EXCEPT ![c] = AtRestLinker]
      /\ UNCHANGED <<signed, hook, app, notice>>
  BY DEF LinkInv, SaveLink
<1>2. /\ o \in Owners /\ links[o] \in LinkRows /\ links \in [Owners -> LinkRows]
      /\ linker[c].hook \in 0..MaxHooks /\ given.rows \in 0..MaxRowIds
  BY <1>1, LinkerFields, LinkFields, GivenFields DEF LinkInv, NumberInv, LinkShape
<1>3. CASE links[o].id # 0 /\ links' = [links EXCEPT ![o].hook = linker[c].hook] /\ UNCHANGED <<given, upset>>
  <2> DEFINE r == [links[o] EXCEPT !.hook = linker[c].hook]
  <2>1. r \in LinkRows
    BY <1>2 DEF LinkRows
  <2>2. r.hook = linker[c].hook
    BY <1>2 DEF LinkRows
  <2>3. r.id = links[o].id
    BY <1>2 DEF LinkRows
  <2>4. links' = [links EXCEPT ![o] = r]
    BY <1>2, <1>3
  <2> HIDE DEF r
  <2> QED BY <1>1, <1>3, <2>1, <2>2, <2>3, <2>4, RowSaved
<1>4. CASE /\ links[o].id = 0 /\ given.rows < MaxRowIds
           /\ links' = [links EXCEPT ![o] = [id |-> given.rows + 1, hook |-> linker[c].hook, installation |-> 0]]
           /\ given' = [given EXCEPT !.rows = @ + 1] /\ UNCHANGED upset
  <2> DEFINE r == [id |-> given.rows + 1, hook |-> linker[c].hook, installation |-> 0]
  <2>1. r \in LinkRows /\ r.hook = linker[c].hook /\ r.id = given.rows + 1
    BY <1>2, <1>4, LinkConsts DEF LinkRows
  <2>2. links' = [links EXCEPT ![o] = r]
    BY <1>4
  <2> HIDE DEF r
  <2> QED BY <1>1, <1>4, <2>1, <2>2, RowSaved
<1>5. CASE Break /\ UNCHANGED links
  BY <1>1, <1>5, RowNotSaved
<1> QED BY <1>3, <1>4, <1>5 DEF SaveLink

LEMMA AskToDisconnectInv ==
  ASSUME LinkInv, NEW c \in Linkers, NEW o \in Owners, AskToDisconnect(c, o)
  PROVE  LinkInv'
<1>1. LinkShape /\ NoticeInv /\ NumberInv /\ CalmInv /\ HolderInv
  BY DEF LinkInv
<1>2. LinkShape
  BY <1>1
<1>3. /\ linker[c].at = "idle" /\ links[o].id # 0 /\ UNCHANGED <<signed, links, hook, app, notice>>
      /\ linker' = [linker EXCEPT ![c] =
                     [at |-> "unhook", org |-> o, id |-> links[o].id, hook |-> links[o].hook]]
  BY DEF AskToDisconnect, Linked
<1>4. /\ linker' \in [Linkers -> LinkerRows] /\ linker'[c].at = "unhook" /\ linker'[c].org = o
      /\ linker'[c].id = links[o].id /\ linker'[c].hook = links[o].hook
      /\ \A d \in Linkers \ {c} : linker'[d] = linker[d]
  <2> DEFINE r == [at |-> "unhook", org |-> o, id |-> links[o].id, hook |-> links[o].hook]
  <2>1. links[o].id \in 0..MaxRowIds /\ links[o].hook \in 0..MaxHooks
    BY <1>2, LinkFields
  <2>2. r \in LinkerRows /\ r.at = "unhook" /\ r.org = o /\ r.id = links[o].id /\ r.hook = links[o].hook
    BY <2>1 DEF LinkerRows
  <2>3. linker' = [linker EXCEPT ![c] = r]
    BY <1>3
  <2> HIDE DEF r
  <2> QED BY <1>2, <2>2, <2>3, LinkerMoves
<1>5. /\ given' \in GivenRows /\ given'.hooks = given.hooks /\ given'.rows = given.rows
      /\ upset' \in BOOLEAN /\ (~upset' => ~upset /\ BusyWith(o) = {})
  BY <1>2, Crossed DEF AskToDisconnect
<1>6. ~upset' => \A d \in Linkers : linker[d].at = "idle" \/ linker[d].org # o
  BY <1>5 DEF BusyWith
<1>7. given.hooks \in Nat /\ given.rows \in Nat /\ hook \in Nat
      /\ \A d \in Linkers : linker[d].hook \in Nat
  BY <1>2, GivenFields, LinkerFields, LinkConsts DEF LinkShape
<1>8. LinkShape'
  BY <1>1, <1>3, <1>4, <1>5, <1>6, <1>7, LinkConsts DEF LinkShape
<1>9. NoticeInv'
  BY <1>1, <1>3, <1>4, <1>5, <1>6, <1>7, SameNotice DEF Linked
<1>10. NumberInv'
  BY <1>1, <1>3, <1>4, <1>5, <1>6, <1>7, LinkConsts DEF NumberInv
<1>11. CalmInv'
  BY <1>1, <1>3, <1>4, <1>5, <1>6, <1>7, LinkConsts DEF CalmInv, LinkerOK, Linked
<1>12. ~upset' => Remembered'
  BY <1>1, <1>3, <1>4, <1>5, <1>6, <1>7, LinkConsts DEF HolderInv, Remembered
<1>13. ~upset' => Settled'
  BY <1>1, <1>3, <1>4, <1>5, <1>6, <1>7, LinkConsts DEF HolderInv, Settled
<1>14. ~upset' => OneMemory'
  BY <1>1, <1>3, <1>4, <1>5, <1>6, <1>7, LinkConsts DEF HolderInv, OneMemory
<1> QED BY <1>8, <1>9, <1>10, <1>11, <1>12, <1>13, <1>14 DEF LinkInv, HolderInv

LEMMA WebhookDeleted ==
  ASSUME LinkInv, NEW c \in Linkers, linker[c].at = "unhook", linker' = [linker EXCEPT ![c].at = "delete"],
         hook' = IF linker[c].hook = hook /\ linker[c].org \in signed THEN 0 ELSE hook,
         notice' = Followed(links, hook' # 0), UNCHANGED <<signed, links, app, given, upset>>
  PROVE  LinkInv'
<1>1. LinkShape /\ NoticeInv /\ NumberInv /\ CalmInv /\ HolderInv
  BY DEF LinkInv
<1>2. LinkShape
  BY <1>1
<1>3. UNCHANGED <<signed, links, app, given, upset>> /\ linker[c].org \in Owners
  BY <1>1 DEF NumberInv
<1>4. /\ linker' \in [Linkers -> LinkerRows] /\ linker'[c].at = "delete" /\ linker'[c].org = linker[c].org
      /\ linker'[c].id = linker[c].id /\ linker'[c].hook = linker[c].hook
      /\ \A d \in Linkers \ {c} : linker'[d] = linker[d]
  <2> DEFINE r == [linker[c] EXCEPT !.at = "delete"]
  <2>1. linker[c] \in LinkerRows
    BY <1>2, LinkerFields
  <2>2. r \in LinkerRows /\ r.at = "delete" /\ r.org = linker[c].org /\ r.id = linker[c].id /\ r.hook = linker[c].hook
    BY <2>1 DEF LinkerRows
  <2>3. linker' = [linker EXCEPT ![c] = r]
    BY DEF LinkShape
  <2> HIDE DEF r
  <2> QED BY <1>2, <2>2, <2>3, LinkerMoves
<1>5. /\ hook' \in 0..MaxHooks /\ hook' \in {0, hook}
      /\ ~upset => links[linker[c].org].hook = linker[c].hook /\ linker[c].org \in signed
  BY <1>1, LinkConsts DEF LinkShape, CalmInv, LinkerOK
<1>6. ~upset /\ linker[c].hook # 0 =>
         linker[c].hook = hook /\ hook' = 0
  BY <1>1, <1>3, <1>5 DEF CalmInv, HolderInv, Settled
<1>7. notice' \in Notices /\ NoticeInv'
  BY <1>1, <1>3, FollowedNotice DEF Linked
<1>8. /\ ~upset /\ hook' # hook => \A d \in Linkers : linker[d].at = "insert" => linker[d].hook = 0
      /\ ~upset /\ hook' # hook => \A p \in Owners : p # linker[c].org => links[p].hook # hook
  BY <1>1, <1>3, <1>5, <1>6 DEF CalmInv, LinkerOK, HolderInv, OneMemory
<1>9. given.hooks \in Nat /\ given.rows \in Nat /\ hook \in Nat
      /\ \A d \in Linkers : linker[d].hook \in Nat
  BY <1>2, GivenFields, LinkerFields, LinkConsts DEF LinkShape
<1>10. LinkShape'
  BY <1>1, <1>3, <1>4, <1>5, <1>6, <1>7, <1>8, <1>9, LinkConsts DEF LinkShape
<1>11. NoticeInv'
  BY <1>1, <1>3, <1>4, <1>5, <1>6, <1>7, <1>8, <1>9
<1>12. NumberInv'
  BY <1>1, <1>3, <1>4, <1>5, <1>6, <1>7, <1>8, <1>9, LinkConsts DEF NumberInv
<1>13. CalmInv'
  BY <1>1, <1>3, <1>4, <1>5, <1>6, <1>7, <1>8, <1>9, LinkConsts DEF CalmInv, LinkerOK, Linked
<1>14. ~upset' => Remembered'
  BY <1>1, <1>3, <1>4, <1>5, <1>6, <1>7, <1>8, <1>9, LinkConsts DEF HolderInv, Remembered
<1>15. ~upset' => Settled'
  <2> SUFFICES ASSUME ~upset', NEW o \in Owners, links'[o].hook # 0
               PROVE  \/ links'[o].hook = hook'
                      \/ \E d \in Linkers : linker'[d].at = "delete" /\ linker'[d].org = o
    BY DEF Settled
  <2>1. ~upset /\ links[o].hook # 0 /\ Settled
    BY <1>1, <1>3 DEF HolderInv
  <2>2. CASE o = linker[c].org
    BY <1>4, <2>2
  <2>3. CASE o # linker[c].org /\ links[o].hook = hook
    BY <1>3, <1>5, <1>8, <2>1, <2>3
  <2>4. CASE \E d \in Linkers : linker[d].at = "delete" /\ linker[d].org = o
    BY <1>4, <2>4
  <2> QED BY <2>1, <2>2, <2>3, <2>4 DEF Settled
<1>16. ~upset' => OneMemory'
  BY <1>1, <1>3, <1>4, <1>5, <1>6, <1>7, <1>8, <1>9, LinkConsts DEF HolderInv, OneMemory
<1> QED BY <1>10, <1>11, <1>12, <1>13, <1>14, <1>15, <1>16 DEF LinkInv, HolderInv

LEMMA WebhookStays ==
  ASSUME LinkInv, NEW c \in Linkers, linker[c].at = "unhook", linker' = [linker EXCEPT ![c].at = "delete"],
         Break, UNCHANGED <<signed, links, hook, app, notice>>
  PROVE  LinkInv'
<1>1. LinkShape /\ NoticeInv /\ NumberInv /\ CalmInv /\ HolderInv
  BY DEF LinkInv
<1>2. LinkShape
  BY <1>1
<1>3. UNCHANGED <<signed, links, hook, app, notice>> /\ upset' = TRUE
  BY DEF Break
<1>4. /\ linker' \in [Linkers -> LinkerRows] /\ linker'[c].at = "delete" /\ linker'[c].org = linker[c].org
      /\ linker'[c].id = linker[c].id /\ linker'[c].hook = linker[c].hook
      /\ \A d \in Linkers \ {c} : linker'[d] = linker[d]
  <2> DEFINE r == [linker[c] EXCEPT !.at = "delete"]
  <2>1. linker[c] \in LinkerRows
    BY <1>2, LinkerFields
  <2>2. r \in LinkerRows /\ r.at = "delete" /\ r.org = linker[c].org /\ r.id = linker[c].id /\ r.hook = linker[c].hook
    BY <2>1 DEF LinkerRows
  <2>3. linker' = [linker EXCEPT ![c] = r]
    BY DEF LinkShape
  <2> HIDE DEF r
  <2> QED BY <1>2, <2>2, <2>3, LinkerMoves
<1>5. given' \in GivenRows /\ given'.hooks = given.hooks /\ given'.rows = given.rows
  BY <1>2, TurnTaken DEF Break
<1>6. given.hooks \in Nat /\ given.rows \in Nat /\ hook \in Nat
      /\ \A d \in Linkers : linker[d].hook \in Nat
  BY <1>2, GivenFields, LinkerFields, LinkConsts DEF LinkShape
<1>7. LinkShape'
  BY <1>1, <1>3, <1>4, <1>5, <1>6, LinkConsts DEF LinkShape
<1>8. NoticeInv'
  BY <1>1, <1>3, <1>4, <1>5, <1>6, SameNotice DEF Linked
<1>9. NumberInv'
  BY <1>1, <1>3, <1>4, <1>5, <1>6, LinkConsts DEF NumberInv
<1>10. CalmInv'
  BY <1>1, <1>3, <1>4, <1>5, <1>6, LinkConsts DEF CalmInv, LinkerOK, Linked
<1>11. ~upset' => Remembered'
  BY <1>1, <1>3, <1>4, <1>5, <1>6, LinkConsts DEF HolderInv, Remembered
<1>12. ~upset' => Settled'
  BY <1>1, <1>3, <1>4, <1>5, <1>6, LinkConsts DEF HolderInv, Settled
<1>13. ~upset' => OneMemory'
  BY <1>1, <1>3, <1>4, <1>5, <1>6, LinkConsts DEF HolderInv, OneMemory
<1> QED BY <1>7, <1>8, <1>9, <1>10, <1>11, <1>12, <1>13 DEF LinkInv, HolderInv

LEMMA DeleteWebhookInv ==
  ASSUME LinkInv, NEW c \in Linkers, DeleteWebhook(c)
  PROVE  LinkInv'
  BY WebhookDeleted, WebhookStays DEF DeleteWebhook

LEMMA RowDeleted ==
  ASSUME LinkInv, NEW c \in Linkers, linker[c].at = "delete", linker' = [linker EXCEPT ![c] = AtRestLinker],
         links' = IF links[linker[c].org].id = linker[c].id THEN [links EXCEPT ![linker[c].org] = NoLink] ELSE links,
         notice' = Followed(links', hook # 0), UNCHANGED <<signed, hook, app, given, upset>>
  PROVE  LinkInv'
<1>1. LinkShape /\ NoticeInv /\ NumberInv /\ CalmInv /\ HolderInv
  BY DEF LinkInv
<1>2. LinkShape
  BY <1>1
<1>3. UNCHANGED <<signed, hook, app, given, upset>> /\ linker[c].org \in Owners
  BY <1>1 DEF NumberInv
<1>4. /\ linker' \in [Linkers -> LinkerRows] /\ linker'[c].at = "idle" /\ linker'[c].hook = 0
      /\ \A d \in Linkers \ {c} : linker'[d] = linker[d]
  <2>1. AtRestLinker \in LinkerRows /\ AtRestLinker.at = "idle" /\ AtRestLinker.hook = 0
    BY LinkConsts DEF AtRestLinker, LinkerRows
  <2> QED BY <1>2, <2>1, LinkerMoves
<1>5. NoLink \in LinkRows /\ NoLink.id = 0 /\ NoLink.hook = 0
  BY LinkConsts DEF NoLink, LinkRows
<1>6. /\ links' \in [Owners -> LinkRows] /\ links'[linker[c].org] \in {NoLink, links[linker[c].org]}
      /\ \A o \in Owners \ {linker[c].org} : links'[o] = links[o]
      /\ ~upset => links'[linker[c].org] = NoLink
  BY <1>1, <1>3, <1>5 DEF LinkShape, CalmInv, LinkerOK
<1>7. notice' \in Notices /\ NoticeInv'
  BY <1>1, <1>3, FollowedNotice DEF Linked
<1>8. /\ \A o \in Owners : links[o].hook \in Nat /\ links[o].id \in Nat
      /\ given.hooks \in Nat /\ given.rows \in Nat
  BY <1>2, LinkFields, GivenFields
<1>9. given.hooks \in Nat /\ given.rows \in Nat /\ hook \in Nat
      /\ \A d \in Linkers : linker[d].hook \in Nat
  BY <1>2, GivenFields, LinkerFields, LinkConsts DEF LinkShape
<1>10. LinkShape'
  BY <1>1, <1>3, <1>4, <1>5, <1>6, <1>7, <1>8, <1>9, LinkConsts DEF LinkShape
<1>11. NoticeInv'
  BY <1>1, <1>3, <1>4, <1>5, <1>6, <1>7, <1>8, <1>9
<1>12. NumberInv'
  BY <1>1, <1>3, <1>4, <1>5, <1>6, <1>7, <1>8, <1>9, LinkConsts DEF NumberInv
<1>13. CalmInv'
  BY <1>1, <1>3, <1>4, <1>5, <1>6, <1>7, <1>8, <1>9, LinkConsts DEF CalmInv, LinkerOK, Linked
<1>14. ~upset' => Remembered'
  <2> SUFFICES ASSUME ~upset', hook' # 0
               PROVE  \/ \E o \in Owners : links'[o].hook = hook'
                      \/ \E d \in Linkers : linker'[d].at = "insert" /\ linker'[d].hook = hook'
    BY DEF Remembered
  <2>1. ~upset /\ hook # 0 /\ hook' = hook /\ Remembered
    BY <1>1, <1>3 DEF HolderInv
  <2>2. ASSUME NEW o \in Owners, links[o].hook = hook PROVE links'[o].hook = hook'
    BY <1>1, <1>3, <1>6, <2>1, <2>2 DEF CalmInv, LinkerOK
  <2>3. ASSUME NEW d \in Linkers, linker[d].at = "insert", linker[d].hook = hook
        PROVE  linker'[d].at = "insert" /\ linker'[d].hook = hook'
    BY <1>4, <2>1, <2>3
  <2> QED BY <2>1, <2>2, <2>3 DEF Remembered
<1>15. ~upset' => Settled'
  BY <1>1, <1>3, <1>4, <1>5, <1>6, <1>7, <1>8, <1>9, LinkConsts DEF HolderInv, Settled
<1>16. ~upset' => OneMemory'
  BY <1>1, <1>3, <1>4, <1>5, <1>6, <1>7, <1>8, <1>9, LinkConsts DEF HolderInv, OneMemory
<1> QED BY <1>10, <1>11, <1>12, <1>13, <1>14, <1>15, <1>16 DEF LinkInv, HolderInv

LEMMA DeleteLinkInv ==
  ASSUME LinkInv, NEW c \in Linkers, DeleteLink(c)
  PROVE  LinkInv'
  BY RowDeleted, RowNotSaved DEF DeleteLink

LEMMA EmitFields ==
  ASSUME LinkShape, NEW kind \in Kinds \cup {"created", "deleted"}, NEW routes \in SUBSET {"hook", "app"},
         kind \in {"created", "deleted"} => routes = {"app"}, Emit(kind, routes),
         UNCHANGED <<signed, links, hook, linker, upset>>
  PROVE  notice' \in Notices /\ NoticeInv'
<1> DEFINE h == {o \in Linked : "hook" \in routes}
           n == [kind |-> kind, due |-> routes, served |-> Unserved, lost |-> FALSE, held |-> h]
<1>1. notice' = n
  BY DEF Emit
<1>2. h \subseteq Linked /\ h \subseteq Owners /\ (h # {} => "hook" \in routes)
  BY DEF Linked
<1> HIDE DEF h
<1>3. Unserved \in [Owners -> Nat] /\ \A o \in Owners : Unserved[o] = 0
  BY DEF Unserved
<1>4. n \in Notices
  BY <1>2, <1>3 DEF Notices
<1>5. n.kind = kind /\ n.due = routes /\ n.served = Unserved /\ n.held = h
  OBVIOUS
<1> HIDE DEF n
<1>6. Linked' = Linked
  BY DEF Linked
<1>7. NoticeOK(n, Linked)
  BY <1>2, <1>3, <1>5, LinkConsts DEF NoticeOK
<1> QED BY <1>1, <1>4, <1>6, <1>7 DEF NoticeInv

LEMMA EmittedInv ==
  ASSUME LinkInv, NEW kind \in Kinds \cup {"created", "deleted"}, NEW routes \in SUBSET {"hook", "app"}, kind \in {"created", "deleted"} => routes = {"app"}, Emit(kind, routes), app' \in BOOLEAN,
         UNCHANGED <<signed, links, hook, linker, upset>>
  PROVE  LinkInv'
<1>1. LinkShape /\ NoticeInv /\ NumberInv /\ CalmInv /\ HolderInv
  BY DEF LinkInv
<1>2. LinkShape
  BY <1>1
<1>3. UNCHANGED <<signed, links, hook, linker, upset>> /\ app' \in BOOLEAN
  OBVIOUS
<1>4. notice' \in Notices /\ NoticeInv'
  BY <1>2, EmitFields
<1>5. given' \in GivenRows /\ given'.hooks = given.hooks /\ given'.rows = given.rows
  BY <1>2, TurnTaken DEF Emit
<1>6. given.hooks \in Nat /\ given.rows \in Nat /\ hook \in Nat
      /\ \A d \in Linkers : linker[d].hook \in Nat
  BY <1>2, GivenFields, LinkerFields, LinkConsts DEF LinkShape
<1>7. LinkShape'
  BY <1>1, <1>3, <1>4, <1>5, <1>6, LinkConsts DEF LinkShape
<1>8. NoticeInv'
  BY <1>1, <1>3, <1>4, <1>5, <1>6
<1>9. NumberInv'
  BY <1>1, <1>3, <1>4, <1>5, <1>6, LinkConsts DEF NumberInv
<1>10. CalmInv'
  BY <1>1, <1>3, <1>4, <1>5, <1>6, LinkConsts DEF CalmInv, LinkerOK, Linked
<1>11. ~upset' => Remembered'
  BY <1>1, <1>3, <1>4, <1>5, <1>6, LinkConsts DEF HolderInv, Remembered
<1>12. ~upset' => Settled'
  BY <1>1, <1>3, <1>4, <1>5, <1>6, LinkConsts DEF HolderInv, Settled
<1>13. ~upset' => OneMemory'
  BY <1>1, <1>3, <1>4, <1>5, <1>6, LinkConsts DEF HolderInv, OneMemory
<1> QED BY <1>7, <1>8, <1>9, <1>10, <1>11, <1>12, <1>13 DEF LinkInv, HolderInv

LEMMA ToggleAppInv ==
  ASSUME LinkInv, ToggleApp
  PROVE  LinkInv'
<1> DEFINE k == IF app THEN "deleted" ELSE "created"
<1>1. k \in Kinds \cup {"created", "deleted"} /\ app' \in BOOLEAN
      /\ Emit(k, {"app"}) /\ UNCHANGED <<signed, links, hook, linker, upset>>
  BY DEF ToggleApp
<1> HIDE DEF k
<1> QED BY <1>1, EmittedInv

LEMMA HappensInv ==
  ASSUME LinkInv, NEW kind \in Kinds, Happens(kind)
  PROVE  LinkInv'
<1> DEFINE r == IF hook = 0 THEN {"app"} ELSE IF app THEN {"hook", "app"} ELSE {"hook"}
<1>1. r \in SUBSET {"hook", "app"} /\ Emit(kind, r) /\ UNCHANGED <<signed, links, hook, app, linker, upset>>
  BY DEF Happens
<1>2. kind \notin {"created", "deleted"} /\ app' \in BOOLEAN
  BY <1>1, LinkConsts DEF LinkInv, LinkShape
<1> HIDE DEF r
<1> QED BY <1>1, <1>2, EmittedInv

\* a handled or lost event keeps to one delivery a route
LEMMA DeliveredInv ==
  ASSUME LinkInv, NEW route \in notice.due, NEW sv \in [Owners -> Nat], NEW n,
         n \in Notices, n.kind = notice.kind, n.due = notice.due \ {route}, n.served = sv, n.held = notice.held,
         \/ /\ n.lost = TRUE /\ sv = notice.served
         \/ /\ n.lost = notice.lost /\ notice.kind \in {"created", "deleted"} /\ sv = notice.served
         \/ /\ n.lost = notice.lost /\ notice.kind \notin {"created", "deleted"}
            /\ \A o \in Owners : sv[o] = notice.served[o] + (IF o \in Addressed(notice.kind, route) THEN 1 ELSE 0)
  PROVE  NoticeOK(n, Linked)
<1>1. LinkShape /\ NoticeOK(notice, Linked)
  BY DEF LinkInv, NoticeInv
<1>2. notice.due \subseteq {"hook", "app"} /\ route \in {"hook", "app"} /\ notice.served \in [Owners -> Nat]
      /\ notice.held \subseteq Owners
  BY <1>1, NoticeFields
<1>3. \A o \in Linked : o \in Owners /\ links[o].installation = 0
  BY <1>1, LinkFields DEF Linked
<1>4. \A o \in Addressed(notice.kind, route) :
        route = "app" => notice.kind \in {"create", "pull_request"}
  BY <1>3, LinkConsts DEF Addressed, NumberOf
<1>5. route = "hook" => Linked \subseteq Addressed(notice.kind, route)
  BY <1>3 DEF Addressed, NumberOf
<1>6. n.lost => TRUE
  OBVIOUS
<1>7. CASE n.lost = TRUE /\ sv = notice.served
  BY <1>1, <1>2, <1>7 DEF NoticeOK
<1>8. CASE n.lost = notice.lost /\ notice.kind \in {"created", "deleted"} /\ sv = notice.served
  BY <1>1, <1>2, <1>8, LinkConsts DEF NoticeOK
<1>9. CASE /\ n.lost = notice.lost /\ notice.kind \notin {"created", "deleted"}
           /\ \A o \in Owners : sv[o] = notice.served[o] + (IF o \in Addressed(notice.kind, route) THEN 1 ELSE 0)
  <2>1. \A o \in Owners : /\ notice.served[o] \in Nat /\ sv[o] \in {notice.served[o], notice.served[o] + 1}
                          /\ sv[o] # notice.served[o] => o \in Addressed(notice.kind, route)
                          /\ o \in Addressed(notice.kind, route) => sv[o] = notice.served[o] + 1
    BY <1>2, <1>9
  <2>2. n.held \subseteq Linked
    BY <1>1 DEF NoticeOK
  <2> SUFFICES ASSUME NEW o \in Owners
               PROVE  /\ "hook" \in n.due /\ "app" \in n.due => n.served[o] = 0
                      /\ "hook" \in n.due \/ "app" \in n.due => n.served[o] <= 1
                      /\ n.served[o] <= 2
                      /\ n.kind \in {"push", "delete"} =>
                           n.served[o] <= 1 /\ ("hook" \in n.due => n.served[o] = 0)
                      /\ n.kind \in Kinds /\ ~n.lost /\ o \in n.held => "hook" \in n.due \/ n.served[o] >= 1
    BY <1>9, <2>2 DEF NoticeOK
  <2>3. CASE route = "hook"
    BY <1>1, <1>2, <1>5, <1>9, <2>1, <2>2, <2>3 DEF NoticeOK
  <2>4. CASE route = "app"
    BY <1>1, <1>2, <1>4, <1>9, <2>1, <2>2, <2>4 DEF NoticeOK
  <2> QED BY <1>2, <2>3, <2>4
<1> QED BY <1>7, <1>8, <1>9

LEMMA NoticedInv ==
  ASSUME LinkInv, NEW n, n \in Notices, NoticeOK(n, Linked), notice' = n,
         UNCHANGED <<signed, links, hook, app, linker, given, upset>>
  PROVE  LinkInv'
<1>1. LinkShape /\ NoticeInv /\ NumberInv /\ CalmInv /\ HolderInv
  BY DEF LinkInv
<1>2. LinkShape
  BY <1>1
<1>3. UNCHANGED <<signed, links, hook, app, linker, given, upset>> /\ Linked' = Linked
  BY DEF Linked
<1>4. given.hooks \in Nat /\ given.rows \in Nat /\ hook \in Nat
      /\ \A d \in Linkers : linker[d].hook \in Nat
  BY <1>2, GivenFields, LinkerFields, LinkConsts DEF LinkShape
<1>5. LinkShape'
  BY <1>1, <1>3, <1>4, LinkConsts DEF LinkShape
<1>6. NoticeInv'
  BY <1>1, <1>3, <1>4, LinkConsts DEF NoticeInv, NoticeOK
<1>7. NumberInv'
  BY <1>1, <1>3, <1>4, LinkConsts DEF NumberInv
<1>8. CalmInv'
  BY <1>1, <1>3, <1>4, LinkConsts DEF CalmInv, LinkerOK, Linked
<1>9. ~upset' => Remembered'
  BY <1>1, <1>3, <1>4, LinkConsts DEF HolderInv, Remembered
<1>10. ~upset' => Settled'
  BY <1>1, <1>3, <1>4, LinkConsts DEF HolderInv, Settled
<1>11. ~upset' => OneMemory'
  BY <1>1, <1>3, <1>4, LinkConsts DEF HolderInv, OneMemory
<1> QED BY <1>5, <1>6, <1>7, <1>8, <1>9, <1>10, <1>11 DEF LinkInv, HolderInv

LEMMA HandleWebhookEventInv ==
  ASSUME LinkInv, NEW route, HandleWebhookEvent(route)
  PROVE  LinkInv'
<1>1. LinkShape /\ route \in notice.due /\ UNCHANGED <<signed, hook, app, linker, given, upset>>
  BY DEF LinkInv, HandleWebhookEvent
<1>2. /\ notice \in Notices /\ notice.due \in SUBSET {"hook", "app"} /\ notice.served \in [Owners -> Nat]
  BY <1>1, NoticeFields
<1>3. CASE notice.kind \in {"created", "deleted"}
  <2> DEFINE d == notice.due \ {route}
             n == [notice EXCEPT !.due = d]
  <2>1. route = "app"
    BY <1>1, <1>2, <1>3 DEF LinkInv, NoticeInv, NoticeOK
  <2>2. \A o \in Owners : links[o].installation # NumberOf(route)
    BY <1>1, <2>1, LinkFields, LinkConsts DEF NumberOf
  <2>3. links' = [o \in Owners |-> IF notice.kind = "deleted" /\ links[o].installation = NumberOf(route)
                                     THEN NoLink ELSE links[o]]
    BY <1>3 DEF HandleWebhookEvent
  <2>4. links' = links
    BY <1>1, <2>2, <2>3 DEF LinkShape
  <2>5. notice' = n
    BY <1>3 DEF HandleWebhookEvent
  <2>6. d \in SUBSET {"hook", "app"} /\ d = notice.due \ {route}
    BY <1>2
  <2> HIDE DEF d
  <2>7. n \in Notices
    BY <1>2, <2>6 DEF Notices
  <2>8. n.kind = notice.kind
    BY <1>2 DEF Notices
  <2>9. n.due = d
    BY <1>2 DEF Notices
  <2>10. n.served = notice.served
    BY <1>2 DEF Notices
  <2>11. n.held = notice.held
    BY <1>2 DEF Notices
  <2>12. n.lost = notice.lost
    BY <1>2, Zenon DEF Notices
  <2> HIDE DEF n
  <2>13. NoticeOK(n, Linked)
    BY <1>1, <1>2, <1>3, <2>6, <2>7, <2>8, <2>9, <2>10, <2>11, <2>12, DeliveredInv
  <2> QED BY <1>1, <2>4, <2>5, <2>7, <2>13, NoticedInv
<1>4. CASE notice.kind \notin {"created", "deleted"}
  <2> DEFINE d == notice.due \ {route}
             sv == [o \in Owners |-> notice.served[o] + IF o \in Addressed(notice.kind, route) THEN 1 ELSE 0]
             n == [notice EXCEPT !.due = d, !.served = sv]
  <2>1. notice' = n /\ links' = links
    BY <1>4 DEF HandleWebhookEvent
  <2>2. d \in SUBSET {"hook", "app"} /\ d = notice.due \ {route}
    BY <1>2
  <2>3. \A o \in Owners : sv[o] = notice.served[o] + (IF o \in Addressed(notice.kind, route) THEN 1 ELSE 0)
    OBVIOUS
  <2>4. sv \in [Owners -> Nat]
    BY <1>2
  <2> HIDE DEF d, sv
  <2>5. n \in Notices
    BY <1>2, <2>2, <2>4 DEF Notices
  <2>6. n.kind = notice.kind
    BY <1>2 DEF Notices
  <2>7. n.due = d
    BY <1>2 DEF Notices
  <2>8. n.served = sv
    BY <1>2 DEF Notices
  <2>9. n.held = notice.held
    BY <1>2 DEF Notices
  <2>10. n.lost = notice.lost
    BY <1>2, Zenon DEF Notices
  <2> HIDE DEF n
  <2>11. NoticeOK(n, Linked)
    BY <1>1, <1>4, <2>2, <2>3, <2>4, <2>5, <2>6, <2>7, <2>8, <2>9, <2>10, DeliveredInv
  <2> QED BY <1>1, <2>1, <2>5, <2>11, NoticedInv
<1> QED BY <1>3, <1>4

LEMMA LoseNoticeInv ==
  ASSUME LinkInv, NEW route, LoseNotice(route)
  PROVE  LinkInv'
<1> DEFINE d == notice.due \ {route}
           n == [notice EXCEPT !.due = d, !.lost = TRUE]
<1>1. LinkShape /\ route \in notice.due /\ UNCHANGED <<signed, links, hook, app, linker, given, upset>> /\ notice' = n
  BY DEF LinkInv, LoseNotice
<1>2. /\ notice \in Notices /\ notice.due \in SUBSET {"hook", "app"} /\ notice.served \in [Owners -> Nat]
  BY <1>1, NoticeFields
<1>3. d \in SUBSET {"hook", "app"} /\ d = notice.due \ {route}
  BY <1>2
<1> HIDE DEF d
<1>4. n \in Notices
  BY <1>2, <1>3 DEF Notices
<1>5. n.kind = notice.kind
  BY <1>2 DEF Notices
<1>6. n.due = d
  BY <1>2 DEF Notices
<1>7. n.served = notice.served
  BY <1>2 DEF Notices
<1>8. n.held = notice.held
  BY <1>2 DEF Notices
<1>9. n.lost = TRUE
  BY <1>2, Zenon DEF Notices
<1> HIDE DEF n
<1>10. NoticeOK(n, Linked)
  BY <1>1, <1>2, <1>3, <1>4, <1>5, <1>6, <1>7, <1>8, <1>9, DeliveredInv
<1> QED BY <1>1, <1>4, <1>10, NoticedInv

LEMMA LinkNextInv ==
  ASSUME LinkInv, [LinkNext]_linkVars
  PROVE  LinkInv'
<1>1. CASE UNCHANGED linkVars
  <2>1. UNCHANGED <<signed, links, hook, app, linker, given, upset>> /\ notice' = notice
    BY <1>1 DEF linkVars
  <2>2. notice \in Notices /\ NoticeOK(notice, Linked)
    BY DEF LinkInv, LinkShape, NoticeInv
  <2> QED BY <2>1, <2>2, NoticedInv
<1>2. CASE LinkNext
  BY <1>2, ExchangeCodeInv, DeleteConnectionInv, AskToConnectInv, AskToDisconnectInv,
     CreateWebhookInv,
     SaveLinkInv, DeleteWebhookInv, DeleteLinkInv, ToggleAppInv, HappensInv, HandleWebhookEventInv,
     LoseNoticeInv DEF LinkNext
<1> QED BY <1>1, <1>2

LEMMA LinkInvAlways == LinkSpec => []LinkInv
  BY LinkInitInv, LinkNextInv, PTL DEF LinkSpec

LEMMA LinkInvTypes == LinkInv => LinkTypeOK
<1> SUFFICES ASSUME LinkInv PROVE LinkTypeOK
  OBVIOUS
<1>1. LinkShape
  BY DEF LinkInv
<1> QED BY <1>1, NoticeFields DEF LinkShape, LinkTypeOK, LinkRows, LinkerRows, GivenRows

LEMMA LinkInvSafe == LinkInv => LinksSafe
<1> SUFFICES ASSUME LinkInv PROVE LinksSafe
  OBVIOUS
<1>1. LinkShape /\ NoticeOK(notice, Linked) /\ CalmInv /\ HolderInv
  BY DEF LinkInv, NoticeInv
<1>2. EventsServed
  BY <1>1 DEF EventsServed, NoticeOK
<1>3. WebhookRemembered
  <2> SUFFICES ASSUME ~upset PROVE WebhookRemembered
    BY DEF WebhookRemembered
  <2>1. Remembered /\ Settled /\ OneMemory
    BY <1>1 DEF HolderInv
  <2>2. ASSUME NEW o \in Owners, links[o].hook # 0, BusyWith(o) = {}
        PROVE  links[o].hook = hook
    BY <2>1, <2>2 DEF Settled, BusyWith
  <2> QED BY <2>1, <2>2 DEF WebhookRemembered, Remembered, OneMemory, Linked
<1> QED BY <1>2, <1>3 DEF LinksSafe

\* Every variable of RepoLinks keeps its type.
THEOREM LinkTypes == LinkSpec => []LinkTypeOK
BY LinkInvAlways, LinkInvTypes, PTL

\* A push is handled at most once for an organisation, by the webhook or by the App, and
\* at least once for one that was linked all along; and between requests that do not
\* cross, the webhook at GitHub is the one that exactly one row remembers (RepoService and
\* the webhook handlers of the API server).
THEOREM LinksHold == LinkSpec => []LinksSafe
BY LinkInvAlways, LinkInvSafe, PTL

-----------------------------------------------------------------------------
(* Each part runs as its own specification says, or stands still.          *)

LEMMA WorkRunsPool == WorkSpec => PoolSpec
<1>1. WorkInit => PoolInit
  BY DEF WorkInit
<1>2. [WorkNext]_workVars => [PoolNext]_poolVars
  BY DEF WorkNext, workVars
<1> QED BY <1>1, <1>2, PTL DEF WorkSpec, PoolSpec

LEMMA WorkRunsRun == WorkSpec => RunSpec
<1>1. WorkInit => RunInit
  BY DEF WorkInit
<1>2. [WorkNext]_workVars => [RunNext]_runVars
  BY DEF WorkNext, workVars
<1> QED BY <1>1, <1>2, PTL DEF WorkSpec, RunSpec

LEMMA WorkRunsMemory == WorkSpec => MemorySpec
<1>1. WorkInit => MemoryInit
  BY DEF WorkInit
<1>2. [WorkNext]_workVars => [MemoryNext]_memoryVars
  BY DEF WorkNext, workVars
<1> QED BY <1>1, <1>2, PTL DEF WorkSpec, MemorySpec

LEMMA WorkRunsSnap == WorkSpec => SnapSpec
<1>1. WorkInit => SnapInit
  BY DEF WorkInit
<1>2. [WorkNext]_workVars => [SnapNext]_snapVars
  BY DEF WorkNext, workVars
<1> QED BY <1>1, <1>2, PTL DEF WorkSpec, SnapSpec

LEMMA WorkRunsGuidance == WorkSpec => GuidanceSpec
<1>1. WorkInit => GuidanceInit
  BY DEF WorkInit
<1>2. [WorkNext]_workVars => [GuidanceNext]_guidanceVars
  BY DEF WorkNext, workVars
<1> QED BY <1>1, <1>2, PTL DEF WorkSpec, GuidanceSpec

LEMMA WorkRunsLink == WorkSpec => LinkSpec
<1>1. WorkInit => LinkInit
  BY DEF WorkInit
<1>2. [WorkNext]_workVars => [LinkNext]_linkVars
  BY DEF WorkNext, workVars
<1> QED BY <1>1, <1>2, PTL DEF WorkSpec, LinkSpec

-----------------------------------------------------------------------------
(* What all of them keep.                                                  *)

\* Every part keeps to its types, and the pool to its bound, but for the named ways over
\* it, a failed count among them (WarmPoolConfig, replenish).
THEOREM WorkTypes == WorkSpec => []WorkWellFormed
<1>1. /\ PoolTypeOK /\ PoolBounded /\ RunTypeOK /\ MemoryTypeOK /\ SnapTypeOK
      /\ GuidanceTypeOK /\ LinkTypeOK
      => WorkWellFormed
  BY DEF WorkWellFormed
<1> QED BY <1>1, WorkRunsPool, WorkRunsRun, WorkRunsMemory, WorkRunsSnap, WorkRunsGuidance,
           WorkRunsLink, PoolTypes, RunTypes, MemoryTypes, SnapTypes, GuidanceTypes, LinkTypes, PTL

\* A server that runs an environment is that one's alone, and every server that is up is
\* accounted for (WarmPoolService, EnvService).
THEOREM PoolIsSafe == WorkSpec => []PoolSafe
<1>1. ServesOne /\ ServersAccounted => PoolSafe
  BY DEF PoolSafe
<1> QED BY <1>1, WorkRunsPool, ServersServeOne, ServersAreAccounted, PTL

\* What the row of a task says of its commit and pull request is so, its session tells how
\* the run ended, and nothing is left up (ExecuteTaskWithOptions, failExecution).
THEOREM TaskRunsAreSafe == WorkSpec => []TaskRunSafe
<1>1. RunSafe => TaskRunSafe
  BY DEF TaskRunSafe
<1> QED BY <1>1, WorkRunsRun, RunsTellTheTruth, PTL

\* What a run gets from earlier ones is from where it is said to be, is current, and is the
\* best of the newest there is; and what happens on GitHub reaches each organisation, once
\* (TrajectoryMemoryService, SnapshotStore, RepoService).
THEOREM InheritanceIsSafe == WorkSpec => []InheritanceSafe
<1>1. MemorySafe /\ SnapshotsSafe /\ GuidanceSound /\ LinksSafe => InheritanceSafe
  BY DEF InheritanceSafe
<1> QED BY <1>1, WorkRunsMemory, WorkRunsSnap, WorkRunsGuidance, WorkRunsLink,
           MemoryHolds, SnapshotsHold, GuidanceHolds, LinksHold, PTL
=============================================================================
