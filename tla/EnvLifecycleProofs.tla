------------------------- MODULE EnvLifecycleProofs -------------------------
(***************************************************************************)
(* Theorems about EnvLifecycle, for every set of environments, servers and *)
(* goroutines and every number of restarts: type correctness, and that no  *)
(* interleaving of Create, Destroy, Sleep and Wake loses a server, leaves  *)
(* one behind a destroyed row, or leaves a dead one behind a running row.  *)
(***************************************************************************)
EXTENDS EnvLifecycle, TLAPS

-----------------------------------------------------------------------------
(* The inductive invariant. *)

Down(s) == s \in Servers => cloud[s] = "gone"

\* Idle goroutines hold nothing; the others work on an environment that has
\* a row, and boot goroutines do so with the background context.
ProcsInv ==
  \A p \in Procs :
    /\ proc[p].pc = "idle" => proc[p] = IdleProc
    /\ proc[p].pc # "idle" => proc[p].env \in Envs /\ status[proc[p].env] # "none"
    /\ proc[p].pc \in Boots => proc[p].ctx = "background"

\* Tasks at work have an environment.
TasksInv == \A e \in TaskEnvs : task[e] # "no" => status[e] # "none"

\* Rows and copies name servers of their own environment.
OwnServers ==
  /\ \A e \in Envs : status[e] = "none" => cluster[e] = NoServer
  /\ \A e \in Envs : cluster[e] \in Servers =>
       cloud[cluster[e]] # "free" /\ madeFor[cluster[e]] = e
  /\ \A p \in Procs : proc[p].pc \in HoldsRow /\ proc[p].row \in Servers =>
       cloud[proc[p].row] # "free" /\ madeFor[proc[p].row] = proc[p].env

\* A server not yet reported is up, and known to its boot goroutine alone.
Unreported ==
  \A p \in Procs : proc[p].pc = "report" =>
    /\ proc[p].row \in Servers
    /\ cloud[proc[p].row] = "up" /\ madeFor[proc[p].row] = proc[p].env
    /\ \A e \in Envs : cluster[e] # proc[p].row
    /\ \A q \in Procs : q # p /\ proc[q].pc \in HoldsRow \cup {"report"} =>
         proc[q].row # proc[p].row

\* A boot beside another boot or beside a copy of the row is noted as a race.
RacesNoted ==
  \A p, q \in Procs :
    /\ p # q /\ proc[p].env = proc[q].env
    /\ proc[p].pc \in Boots /\ proc[q].pc \in Boots \cup HoldsRow
    => "raced" \in mishap[proc[p].env]

\* Without a race, a copy still agrees with the row on the server's name.
CopiesAgree ==
  \A p \in Procs :
    proc[p].pc \in HoldsRow /\ "raced" \notin mishap[proc[p].env] =>
      proc[p].row = cluster[proc[p].env]

\* Without a race, the row says 'creating' as long as the boot runs.
BootIsCreating ==
  \A p \in Procs :
    proc[p].pc \in Boots /\ "raced" \notin mishap[proc[p].env] =>
      status[proc[p].env] = "creating"

\* Where the named server is known to be deleted.
KnownDown ==
  /\ \A e \in Envs : Clean(e) /\ status[e] \in {"sleeping", "destroyed"} =>
       Down(cluster[e])
  /\ \A p \in Procs : proc[p].pc \in Boots /\ Clean(proc[p].env) =>
       Down(cluster[proc[p].env])
  /\ \A p \in Procs : proc[p].pc \in {"w_mark", "s_write", "d_done"} /\ Clean(proc[p].env) =>
       Down(proc[p].row)

\* A running row names a server, which no destroyer past its mark copied, and
\* which is up unless a sleep has just deleted it.
RunningInv ==
  \A e \in Envs : status[e] = "running" =>
    /\ cluster[e] \in Servers
    /\ \A p \in On(e, {"d_cloud", "d_done"}) : proc[p].row # cluster[e]
    /\ \/ "cut" \in mishap[e]
       \/ cloud[cluster[e]] = "up"
       \/ \E p \in On(e, {"s_write"}) : proc[p].row = cluster[e]

IInv ==
  /\ TypeOK
  /\ ProcsInv /\ TasksInv /\ OwnServers /\ Unreported
  /\ RacesNoted /\ CopiesAgree /\ BootIsCreating
  /\ KnownDown /\ NoOrphanServer /\ RunningInv

-----------------------------------------------------------------------------
(* One lemma per action: it keeps the inductive invariant. *)

USE EnvAssumption
USE DEF Envs, RepoEnvs, DestroyPcs, SleepPcs, HoldsRow, Boots, Pcs, Goroutine, Accidents, Leaky,
        Call, IdleProc, Start, At, Goto, Holding, Return, On, Befalls, When, WriteRow, SetStatus,
        DeleteOk, DeleteErr, Clean, UpFor, Down, db, provider

\* A new row has no server, no copy and no boot but its own.
LEMMA CreateEnvironmentInv ==
  ASSUME IInv, NEW p \in Procs, NEW q \in Procs, NEW e \in Envs, CreateEnvironment(p, q, e)
  PROVE  IInv'
<1> USE DEF IInv, TypeOK, ProcsInv, CreateEnvironment
<1>1. TypeOK' OBVIOUS
<1>2. ProcsInv' OBVIOUS
<1>3. OwnServers' BY DEF OwnServers, Unreported
<1>4. Unreported' BY DEF Unreported, OwnServers
<1>5. RacesNoted' BY DEF RacesNoted
<1>6. CopiesAgree' BY DEF CopiesAgree, RacesNoted
<1>7. BootIsCreating' BY DEF BootIsCreating, RacesNoted
<1>8. KnownDown' BY DEF KnownDown, RacesNoted, CopiesAgree, OwnServers
<1>9. NoOrphanServer'
  <2>1. \A x \in Envs : Clean(x)' = Clean(x) /\ UpFor(x)' = UpFor(x) /\ cluster'[x] = cluster[x]
    OBVIOUS
  <2>2. \A r \in Procs : proc[r].pc = "report" => proc'[r] = proc[r] OBVIOUS
  <2> HIDE DEF CreateEnvironment, TypeOK, ProcsInv, Clean, UpFor
  <2> QED BY <2>1, <2>2 DEF NoOrphanServer
<1>10. RunningInv'
  <2>1. \A x \in Envs : status'[x] = "running" => status[x] = "running" OBVIOUS
  <2>2. \A r \in Procs : \/ proc'[r] = proc[r]
                         \/ proc[r].pc = "idle" /\ proc'[r].pc \notin {"d_cloud", "d_done", "s_write"}
    OBVIOUS
  <2> QED BY <2>1, <2>2 DEF RunningInv
<1>11. TasksInv' BY DEF TasksInv
<1> QED BY <1>1, <1>2, <1>3, <1>4, <1>5, <1>6, <1>7, <1>8, <1>9, <1>10, <1>11

\* Only the usage row and the caller change.
LEMMA TrackUsageStartInv ==
  ASSUME IInv, NEW p \in Procs, TrackUsageStart(p)
  PROVE  IInv'
<1> USE DEF IInv, TypeOK, ProcsInv, TrackUsageStart
<1>1. TypeOK' OBVIOUS
<1>2. ProcsInv' OBVIOUS
<1>3. OwnServers' BY DEF OwnServers, Unreported
<1>4. Unreported' BY DEF Unreported, OwnServers
<1>5. RacesNoted' BY DEF RacesNoted
<1>6. CopiesAgree' BY DEF CopiesAgree, RacesNoted
<1>7. BootIsCreating' BY DEF BootIsCreating, RacesNoted
<1>8. KnownDown' BY DEF KnownDown, RacesNoted, CopiesAgree, OwnServers
<1>9. NoOrphanServer' BY DEF NoOrphanServer, KnownDown, RacesNoted, CopiesAgree, OwnServers, Unreported
<1>10. RunningInv' BY DEF RunningInv, Unreported, OwnServers
<1>11. TasksInv' BY DEF TasksInv
<1> QED BY <1>1, <1>2, <1>3, <1>4, <1>5, <1>6, <1>7, <1>8, <1>9, <1>10, <1>11

\* The new server was free, so that nothing names it but its boot goroutine.
LEMMA BootCloudInv ==
  ASSUME IInv, NEW p \in Procs, NEW s \in Servers, BootCloud(p, s)
  PROVE  IInv'
<1> USE DEF IInv, TypeOK, ProcsInv, BootCloud
<1>1. TypeOK'
  <2>1. proc' \in [Procs -> Goroutine]
    <3>1. "report" \in Pcs /\ s \in Servers \cup {NoServer} OBVIOUS
    <3>2. proc[p] \in Goroutine OBVIOUS
    <3>3. [proc[p] EXCEPT !.pc = "report", !.row = s] \in Goroutine BY <3>1, <3>2
    <3> QED BY <3>3
  <2>2. cloud' \in [Servers -> {"free", "up", "gone"}]
    OBVIOUS
  <2>3. cluster' \in [Envs -> Servers \cup {NoServer}] /\ madeFor' \in [Servers -> Envs \cup {NoEnv}]
    OBVIOUS
  <2>4. mishap' \in [Envs -> SUBSET Accidents]
    OBVIOUS
  <2> QED BY <2>1, <2>2, <2>3, <2>4
<1>2. ProcsInv' OBVIOUS
<1>3. OwnServers' BY DEF OwnServers, Unreported
<1>4. Unreported' BY DEF Unreported, OwnServers
<1>5. RacesNoted' BY DEF RacesNoted
<1>6. CopiesAgree' BY DEF CopiesAgree, RacesNoted
<1>7. BootIsCreating' BY DEF BootIsCreating, RacesNoted
<1>8. KnownDown' BY DEF KnownDown, RacesNoted, CopiesAgree, OwnServers
<1>9. NoOrphanServer' BY DEF NoOrphanServer, KnownDown, RacesNoted, CopiesAgree, OwnServers, Unreported
<1>10. RunningInv' BY DEF RunningInv, Unreported, OwnServers
<1>11. TasksInv' BY DEF TasksInv
<1> QED BY <1>1, <1>2, <1>3, <1>4, <1>5, <1>6, <1>7, <1>8, <1>9, <1>10, <1>11

\* The status it writes claims no server: after a failed wake the old one is deleted.
LEMMA BootFailInv ==
  ASSUME IInv, NEW p \in Procs, BootFail(p)
  PROVE  IInv'
<1> USE DEF IInv, TypeOK, ProcsInv, BootFail
<1>1. TypeOK' OBVIOUS
<1>2. ProcsInv' OBVIOUS
<1>3. OwnServers' BY DEF OwnServers, Unreported
<1>4. Unreported' BY DEF Unreported, OwnServers
<1>5. RacesNoted' BY DEF RacesNoted
<1>6. CopiesAgree' BY DEF CopiesAgree, RacesNoted
<1>7. BootIsCreating' BY DEF BootIsCreating, RacesNoted
<1>8. KnownDown' BY DEF KnownDown, RacesNoted, CopiesAgree, OwnServers
<1>9. NoOrphanServer' BY DEF NoOrphanServer, KnownDown, RacesNoted, CopiesAgree, OwnServers, Unreported
<1>10. RunningInv' BY DEF RunningInv, Unreported, OwnServers
<1>11. TasksInv' BY DEF TasksInv
<1> QED BY <1>1, <1>2, <1>3, <1>4, <1>5, <1>6, <1>7, <1>8, <1>9, <1>10, <1>11

\* The name it overwrites is that of a deleted server (KnownDown).
LEMMA BootReportInv ==
  ASSUME IInv, NEW p \in Procs, BootReport(p)
  PROVE  IInv'
<1> USE DEF IInv, TypeOK, ProcsInv, BootReport
<1>1. TypeOK' OBVIOUS
<1>2. ProcsInv' OBVIOUS
<1>3. OwnServers' BY DEF OwnServers, Unreported
<1>4. Unreported' BY DEF Unreported, OwnServers
<1>5. RacesNoted' BY DEF RacesNoted
<1>6. CopiesAgree' BY DEF CopiesAgree, RacesNoted
<1>7. BootIsCreating' BY DEF BootIsCreating, RacesNoted
<1>8. KnownDown' BY DEF KnownDown, RacesNoted, CopiesAgree, OwnServers
<1>9. NoOrphanServer' BY DEF NoOrphanServer, KnownDown, RacesNoted, CopiesAgree, OwnServers, Unreported
<1>10. RunningInv' BY DEF RunningInv, Unreported, OwnServers
<1>11. TasksInv' BY DEF TasksInv
<1> QED BY <1>1, <1>2, <1>3, <1>4, <1>5, <1>6, <1>7, <1>8, <1>9, <1>10, <1>11

\* A call begins that holds no copy yet.
LEMMA ApiDestroyInv ==
  ASSUME IInv, NEW p \in Procs, NEW e \in Envs, ApiDestroy(p, e)
  PROVE  IInv'
<1> USE DEF IInv, TypeOK, ProcsInv, ApiDestroy
<1>1. TypeOK' OBVIOUS
<1>2. ProcsInv' OBVIOUS
<1>3. OwnServers' BY DEF OwnServers, Unreported
<1>4. Unreported' BY DEF Unreported, OwnServers
<1>5. RacesNoted' BY DEF RacesNoted
<1>6. CopiesAgree' BY DEF CopiesAgree, RacesNoted
<1>7. BootIsCreating' BY DEF BootIsCreating, RacesNoted
<1>8. KnownDown' BY DEF KnownDown, RacesNoted, CopiesAgree, OwnServers
<1>9. NoOrphanServer' BY DEF NoOrphanServer, KnownDown, RacesNoted, CopiesAgree, OwnServers, Unreported
<1>10. RunningInv' BY DEF RunningInv, Unreported, OwnServers
<1>11. TasksInv' BY DEF TasksInv
<1> QED BY <1>1, <1>2, <1>3, <1>4, <1>5, <1>6, <1>7, <1>8, <1>9, <1>10, <1>11

\* A call begins that holds no copy yet, for a task that had an environment.
LEMMA TaskCleanupInv ==
  ASSUME IInv, NEW p \in Procs, NEW e \in TaskEnvs, TaskCleanup(p, e)
  PROVE  IInv'
<1> USE DEF IInv, TypeOK, ProcsInv, TaskCleanup
<1>1. TypeOK' OBVIOUS
<1>2. ProcsInv'
  <2>1. e \in Envs /\ status'[e] # "none" BY DEF TasksInv
  <2> QED BY <2>1
<1>3. OwnServers' BY DEF OwnServers, Unreported
<1>4. Unreported' BY DEF Unreported, OwnServers
<1>5. RacesNoted' BY DEF RacesNoted
<1>6. CopiesAgree' BY DEF CopiesAgree, RacesNoted
<1>7. BootIsCreating' BY DEF BootIsCreating, RacesNoted
<1>8. KnownDown' BY DEF KnownDown, RacesNoted, CopiesAgree, OwnServers
<1>9. NoOrphanServer' BY DEF NoOrphanServer, KnownDown, RacesNoted, CopiesAgree, OwnServers, Unreported
<1>10. RunningInv'
  <2>1. \A x \in Envs : status'[x] = "running" => status[x] = "running" OBVIOUS
  <2>2. \A r \in Procs : \/ proc'[r] = proc[r]
                         \/ proc[r].pc = "idle" /\ proc'[r].pc \notin {"d_cloud", "d_done", "s_write"}
    OBVIOUS
  <2> QED BY <2>1, <2>2 DEF RunningInv
<1>11. TasksInv' BY DEF TasksInv
<1> QED BY <1>1, <1>2, <1>3, <1>4, <1>5, <1>6, <1>7, <1>8, <1>9, <1>10, <1>11

\* Only the task's row changes.
LEMMA TaskRowEndsInv ==
  ASSUME IInv, NEW e \in TaskEnvs, TaskRowEnds(e)
  PROVE  IInv'
<1> USE DEF IInv, TypeOK, ProcsInv, TaskRowEnds
<1>1. TypeOK' OBVIOUS
<1>2. ProcsInv' OBVIOUS
<1>3. OwnServers' BY DEF OwnServers, Unreported
<1>4. Unreported' BY DEF Unreported, OwnServers
<1>5. RacesNoted' BY DEF RacesNoted
<1>6. CopiesAgree' BY DEF CopiesAgree, RacesNoted
<1>7. BootIsCreating' BY DEF BootIsCreating, RacesNoted
<1>8. KnownDown' BY DEF KnownDown, RacesNoted, CopiesAgree, OwnServers
<1>9. NoOrphanServer' BY DEF NoOrphanServer, KnownDown, RacesNoted, CopiesAgree, OwnServers, Unreported
<1>10. RunningInv' BY DEF RunningInv, Unreported, OwnServers
<1>11. TasksInv' BY DEF TasksInv
<1> QED BY <1>1, <1>2, <1>3, <1>4, <1>5, <1>6, <1>7, <1>8, <1>9, <1>10, <1>11

\* A call begins that holds no copy yet.
LEMMA BranchCleanupInv ==
  ASSUME IInv, NEW p \in Procs, NEW e \in Envs, BranchCleanup(p, e)
  PROVE  IInv'
<1> USE DEF IInv, TypeOK, ProcsInv, BranchCleanup
<1>1. TypeOK' OBVIOUS
<1>2. ProcsInv' OBVIOUS
<1>3. OwnServers' BY DEF OwnServers, Unreported
<1>4. Unreported' BY DEF Unreported, OwnServers
<1>5. RacesNoted' BY DEF RacesNoted
<1>6. CopiesAgree' BY DEF CopiesAgree, RacesNoted
<1>7. BootIsCreating' BY DEF BootIsCreating, RacesNoted
<1>8. KnownDown' BY DEF KnownDown, RacesNoted, CopiesAgree, OwnServers
<1>9. NoOrphanServer' BY DEF NoOrphanServer, KnownDown, RacesNoted, CopiesAgree, OwnServers, Unreported
<1>10. RunningInv' BY DEF RunningInv, Unreported, OwnServers
<1>11. TasksInv' BY DEF TasksInv
<1> QED BY <1>1, <1>2, <1>3, <1>4, <1>5, <1>6, <1>7, <1>8, <1>9, <1>10, <1>11

\* Only the usage row and the caller change.
LEMMA TrackUsageStopInv ==
  ASSUME IInv, NEW p \in Procs, TrackUsageStop(p)
  PROVE  IInv'
<1> USE DEF IInv, TypeOK, ProcsInv, TrackUsageStop
<1>1. TypeOK' OBVIOUS
<1>2. ProcsInv' OBVIOUS
<1>3. OwnServers' BY DEF OwnServers, Unreported
<1>4. Unreported' BY DEF Unreported, OwnServers
<1>5. RacesNoted' BY DEF RacesNoted
<1>6. CopiesAgree' BY DEF CopiesAgree, RacesNoted
<1>7. BootIsCreating' BY DEF BootIsCreating, RacesNoted
<1>8. KnownDown' BY DEF KnownDown, RacesNoted, CopiesAgree, OwnServers
<1>9. NoOrphanServer' BY DEF NoOrphanServer, KnownDown, RacesNoted, CopiesAgree, OwnServers, Unreported
<1>10. RunningInv' BY DEF RunningInv, Unreported, OwnServers
<1>11. TasksInv' BY DEF TasksInv
<1> QED BY <1>1, <1>2, <1>3, <1>4, <1>5, <1>6, <1>7, <1>8, <1>9, <1>10, <1>11

\* The call ends without having read a copy.
LEMMA DestroyRefusedInv ==
  ASSUME IInv, NEW p \in Procs, DestroyRefused(p)
  PROVE  IInv'
<1> USE DEF IInv, TypeOK, ProcsInv, DestroyRefused
<1>1. TypeOK' OBVIOUS
<1>2. ProcsInv' OBVIOUS
<1>3. OwnServers' BY DEF OwnServers, Unreported
<1>4. Unreported' BY DEF Unreported, OwnServers
<1>5. RacesNoted' BY DEF RacesNoted
<1>6. CopiesAgree' BY DEF CopiesAgree, RacesNoted
<1>7. BootIsCreating' BY DEF BootIsCreating, RacesNoted
<1>8. KnownDown' BY DEF KnownDown, RacesNoted, CopiesAgree, OwnServers
<1>9. NoOrphanServer' BY DEF NoOrphanServer, KnownDown, RacesNoted, CopiesAgree, OwnServers, Unreported
<1>10. RunningInv' BY DEF RunningInv, Unreported, OwnServers
<1>11. TasksInv' BY DEF TasksInv
<1> QED BY <1>1, <1>2, <1>3, <1>4, <1>5, <1>6, <1>7, <1>8, <1>9, <1>10, <1>11

\* The copy agrees with the row; beside a boot it is a race.
LEMMA DestroyReadInv ==
  ASSUME IInv, NEW p \in Procs, DestroyRead(p)
  PROVE  IInv'
<1> USE DEF IInv, TypeOK, ProcsInv, DestroyRead
<1>1. TypeOK'
  <2>1. proc' \in [Procs -> Goroutine]
    <3>1. "d_mark" \in Pcs /\ cluster[proc[p].env] \in Servers \cup {NoServer} OBVIOUS
    <3>2. proc[p] \in Goroutine OBVIOUS
    <3>3. [proc[p] EXCEPT !.pc = "d_mark", !.row = cluster[proc[p].env]] \in Goroutine BY <3>1, <3>2
    <3> QED BY <3>3
  <2>2. cloud' \in [Servers -> {"free", "up", "gone"}]
    OBVIOUS
  <2>3. cluster' \in [Envs -> Servers \cup {NoServer}] /\ madeFor' \in [Servers -> Envs \cup {NoEnv}]
    OBVIOUS
  <2>4. mishap' \in [Envs -> SUBSET Accidents]
    OBVIOUS
  <2> QED BY <2>1, <2>2, <2>3, <2>4
<1>2. ProcsInv' OBVIOUS
<1>3. OwnServers' BY DEF OwnServers, Unreported
<1>4. Unreported' BY DEF Unreported, OwnServers
<1>5. RacesNoted' BY DEF RacesNoted
<1>6. CopiesAgree' BY DEF CopiesAgree, RacesNoted
<1>7. BootIsCreating' BY DEF BootIsCreating, RacesNoted
<1>8. KnownDown' BY DEF KnownDown, RacesNoted, CopiesAgree, OwnServers
<1>9. NoOrphanServer' BY DEF NoOrphanServer, KnownDown, RacesNoted, CopiesAgree, OwnServers, Unreported
<1>10. RunningInv' BY DEF RunningInv, Unreported, OwnServers
<1>11. TasksInv' BY DEF TasksInv
<1> QED BY <1>1, <1>2, <1>3, <1>4, <1>5, <1>6, <1>7, <1>8, <1>9, <1>10, <1>11

\* The whole row is written, with the name it already had unless raced.
LEMMA DestroyMarkInv ==
  ASSUME IInv, NEW p \in Procs, DestroyMark(p)
  PROVE  IInv'
<1> USE DEF IInv, TypeOK, ProcsInv, DestroyMark
<1>1. TypeOK'
  <2>1. proc' \in [Procs -> Goroutine]
    OBVIOUS
  <2>2. cloud' \in [Servers -> {"free", "up", "gone"}]
    OBVIOUS
  <2>3. cluster' \in [Envs -> Servers \cup {NoServer}] /\ madeFor' \in [Servers -> Envs \cup {NoEnv}]
    OBVIOUS
  <2>4. mishap' \in [Envs -> SUBSET Accidents]
    OBVIOUS
  <2> QED BY <2>1, <2>2, <2>3, <2>4
<1>2. ProcsInv' OBVIOUS
<1>3. OwnServers' BY DEF OwnServers, Unreported
<1>4. Unreported' BY DEF Unreported, OwnServers
<1>5. RacesNoted' BY DEF RacesNoted
<1>6. CopiesAgree' BY DEF CopiesAgree, RacesNoted
<1>7. BootIsCreating' BY DEF BootIsCreating, RacesNoted
<1>8. KnownDown' BY DEF KnownDown, RacesNoted, CopiesAgree, OwnServers
<1>9. NoOrphanServer' BY DEF NoOrphanServer, KnownDown, RacesNoted, CopiesAgree, OwnServers, Unreported
<1>10. RunningInv' BY DEF RunningInv, Unreported, OwnServers
<1>11. TasksInv' BY DEF TasksInv
<1> QED BY <1>1, <1>2, <1>3, <1>4, <1>5, <1>6, <1>7, <1>8, <1>9, <1>10, <1>11

\* The server deleted belongs to this environment, whose row says 'running' only
\* after a race, and then names another server.
LEMMA DestroyCloudOkInv ==
  ASSUME IInv, NEW p \in Procs, DestroyCloudOk(p)
  PROVE  IInv'
<1> USE DEF IInv, TypeOK, ProcsInv, DestroyCloudOk
<1>1. TypeOK'
  <2>1. proc' \in [Procs -> Goroutine]
    OBVIOUS
  <2>2. cloud' \in [Servers -> {"free", "up", "gone"}]
    OBVIOUS
  <2>3. cluster' \in [Envs -> Servers \cup {NoServer}] /\ madeFor' \in [Servers -> Envs \cup {NoEnv}]
    OBVIOUS
  <2>4. mishap' \in [Envs -> SUBSET Accidents]
    OBVIOUS
  <2> QED BY <2>1, <2>2, <2>3, <2>4
<1>2. ProcsInv' OBVIOUS
<1>3. OwnServers' BY DEF OwnServers, Unreported
<1>4. Unreported' BY DEF Unreported, OwnServers
<1>5. RacesNoted' BY DEF RacesNoted
<1>6. CopiesAgree' BY DEF CopiesAgree, RacesNoted
<1>7. BootIsCreating' BY DEF BootIsCreating, RacesNoted
<1>8. KnownDown' BY DEF KnownDown, RacesNoted, CopiesAgree, OwnServers
<1>9. NoOrphanServer' BY DEF NoOrphanServer, KnownDown, RacesNoted, CopiesAgree, OwnServers, Unreported
<1>10. RunningInv' BY DEF RunningInv, Unreported, OwnServers
<1>11. TasksInv' BY DEF TasksInv
<1> QED BY <1>1, <1>2, <1>3, <1>4, <1>5, <1>6, <1>7, <1>8, <1>9, <1>10, <1>11

\* Nothing changes but the caller.
LEMMA DestroyCloudErrInv ==
  ASSUME IInv, NEW p \in Procs, DestroyCloudErr(p)
  PROVE  IInv'
<1> USE DEF IInv, TypeOK, ProcsInv, DestroyCloudErr
<1>1. TypeOK' OBVIOUS
<1>2. ProcsInv' OBVIOUS
<1>3. OwnServers' BY DEF OwnServers, Unreported
<1>4. Unreported' BY DEF Unreported, OwnServers
<1>5. RacesNoted' BY DEF RacesNoted
<1>6. CopiesAgree' BY DEF CopiesAgree, RacesNoted
<1>7. BootIsCreating' BY DEF BootIsCreating, RacesNoted
<1>8. KnownDown' BY DEF KnownDown, RacesNoted, CopiesAgree, OwnServers
<1>9. NoOrphanServer' BY DEF NoOrphanServer, KnownDown, RacesNoted, CopiesAgree, OwnServers, Unreported
<1>10. RunningInv' BY DEF RunningInv, Unreported, OwnServers
<1>11. TasksInv' BY DEF TasksInv
<1> QED BY <1>1, <1>2, <1>3, <1>4, <1>5, <1>6, <1>7, <1>8, <1>9, <1>10, <1>11

\* The server is deleted by now, or there was none.
LEMMA DestroyDoneInv ==
  ASSUME IInv, NEW p \in Procs, DestroyDone(p)
  PROVE  IInv'
<1> USE DEF IInv, TypeOK, ProcsInv, DestroyDone
<1>1. TypeOK' OBVIOUS
<1>2. ProcsInv' OBVIOUS
<1>3. OwnServers' BY DEF OwnServers, Unreported
<1>4. Unreported' BY DEF Unreported, OwnServers
<1>5. RacesNoted' BY DEF RacesNoted
<1>6. CopiesAgree' BY DEF CopiesAgree, RacesNoted
<1>7. BootIsCreating' BY DEF BootIsCreating, RacesNoted
<1>8. KnownDown' BY DEF KnownDown, RacesNoted, CopiesAgree, OwnServers
<1>9. NoOrphanServer' BY DEF NoOrphanServer, KnownDown, RacesNoted, CopiesAgree, OwnServers, Unreported
<1>10. RunningInv' BY DEF RunningInv, Unreported, OwnServers
<1>11. TasksInv' BY DEF TasksInv
<1> QED BY <1>1, <1>2, <1>3, <1>4, <1>5, <1>6, <1>7, <1>8, <1>9, <1>10, <1>11

\* A call begins that holds no copy yet.
LEMMA IdleSleepInv ==
  ASSUME IInv, NEW p \in Procs, NEW e \in Envs, IdleSleep(p, e)
  PROVE  IInv'
<1> USE DEF IInv, TypeOK, ProcsInv, IdleSleep
<1>1. TypeOK' OBVIOUS
<1>2. ProcsInv' OBVIOUS
<1>3. OwnServers' BY DEF OwnServers, Unreported
<1>4. Unreported' BY DEF Unreported, OwnServers
<1>5. RacesNoted' BY DEF RacesNoted
<1>6. CopiesAgree' BY DEF CopiesAgree, RacesNoted
<1>7. BootIsCreating' BY DEF BootIsCreating, RacesNoted
<1>8. KnownDown' BY DEF KnownDown, RacesNoted, CopiesAgree, OwnServers
<1>9. NoOrphanServer' BY DEF NoOrphanServer, KnownDown, RacesNoted, CopiesAgree, OwnServers, Unreported
<1>10. RunningInv' BY DEF RunningInv, Unreported, OwnServers
<1>11. TasksInv' BY DEF TasksInv
<1> QED BY <1>1, <1>2, <1>3, <1>4, <1>5, <1>6, <1>7, <1>8, <1>9, <1>10, <1>11

\* The copy agrees with the row; beside a boot it is a race.
LEMMA SleepReadInv ==
  ASSUME IInv, NEW p \in Procs, SleepRead(p)
  PROVE  IInv'
<1> USE DEF IInv, TypeOK, ProcsInv, SleepRead
<1>1. TypeOK'
  <2> DEFINE next == IF cluster[proc[p].env] = NoServer THEN "s_write" ELSE "s_cloud"
  <2>1. proc' \in [Procs -> Goroutine]
    <3>1. next \in Pcs /\ cluster[proc[p].env] \in Servers \cup {NoServer} OBVIOUS
    <3>2. proc[p] \in Goroutine OBVIOUS
    <3>3. [proc[p] EXCEPT !.pc = next, !.row = cluster[proc[p].env]] \in Goroutine BY <3>1, <3>2
    <3> QED BY <3>3
  <2> QED BY <2>1
<1>2. ProcsInv' OBVIOUS
<1>3. OwnServers' BY DEF OwnServers, Unreported
<1>4. Unreported' BY DEF Unreported, OwnServers
<1>5. RacesNoted' BY DEF RacesNoted
<1>6. CopiesAgree' BY DEF CopiesAgree, RacesNoted
<1>7. BootIsCreating' BY DEF BootIsCreating, RacesNoted
<1>8. KnownDown' BY DEF KnownDown, RacesNoted, CopiesAgree, OwnServers
<1>9. NoOrphanServer' BY DEF NoOrphanServer, KnownDown, RacesNoted, CopiesAgree, OwnServers, Unreported
<1>10. RunningInv' BY DEF RunningInv, Unreported, OwnServers
<1>11. TasksInv' BY DEF TasksInv
<1> QED BY <1>1, <1>2, <1>3, <1>4, <1>5, <1>6, <1>7, <1>8, <1>9, <1>10, <1>11

\* The call ends without having read a copy.
LEMMA SleepRefusedInv ==
  ASSUME IInv, NEW p \in Procs, SleepRefused(p)
  PROVE  IInv'
<1> USE DEF IInv, TypeOK, ProcsInv, SleepRefused
<1>1. TypeOK' OBVIOUS
<1>2. ProcsInv' OBVIOUS
<1>3. OwnServers' BY DEF OwnServers, Unreported
<1>4. Unreported' BY DEF Unreported, OwnServers
<1>5. RacesNoted' BY DEF RacesNoted
<1>6. CopiesAgree' BY DEF CopiesAgree, RacesNoted
<1>7. BootIsCreating' BY DEF BootIsCreating, RacesNoted
<1>8. KnownDown' BY DEF KnownDown, RacesNoted, CopiesAgree, OwnServers
<1>9. NoOrphanServer' BY DEF NoOrphanServer, KnownDown, RacesNoted, CopiesAgree, OwnServers, Unreported
<1>10. RunningInv' BY DEF RunningInv, Unreported, OwnServers
<1>11. TasksInv' BY DEF TasksInv
<1> QED BY <1>1, <1>2, <1>3, <1>4, <1>5, <1>6, <1>7, <1>8, <1>9, <1>10, <1>11

\* A running row may name the deleted server until SleepWrite.
LEMMA SleepCloudOkInv ==
  ASSUME IInv, NEW p \in Procs, SleepCloudOk(p)
  PROVE  IInv'
<1> USE DEF IInv, TypeOK, ProcsInv, SleepCloudOk
<1>1. TypeOK'
  <2>1. proc' \in [Procs -> Goroutine]
    OBVIOUS
  <2>2. cloud' \in [Servers -> {"free", "up", "gone"}]
    OBVIOUS
  <2>3. cluster' \in [Envs -> Servers \cup {NoServer}] /\ madeFor' \in [Servers -> Envs \cup {NoEnv}]
    OBVIOUS
  <2>4. mishap' \in [Envs -> SUBSET Accidents]
    OBVIOUS
  <2> QED BY <2>1, <2>2, <2>3, <2>4
<1>2. ProcsInv' OBVIOUS
<1>3. OwnServers' BY DEF OwnServers, Unreported
<1>4. Unreported' BY DEF Unreported, OwnServers
<1>5. RacesNoted' BY DEF RacesNoted
<1>6. CopiesAgree' BY DEF CopiesAgree, RacesNoted
<1>7. BootIsCreating' BY DEF BootIsCreating, RacesNoted
<1>8. KnownDown' BY DEF KnownDown, RacesNoted, CopiesAgree, OwnServers
<1>9. NoOrphanServer' BY DEF NoOrphanServer, KnownDown, RacesNoted, CopiesAgree, OwnServers, Unreported
<1>10. RunningInv' BY DEF RunningInv, Unreported, OwnServers
<1>11. TasksInv' BY DEF TasksInv
<1> QED BY <1>1, <1>2, <1>3, <1>4, <1>5, <1>6, <1>7, <1>8, <1>9, <1>10, <1>11

\* The server is gone already, or its loss is noted.
LEMMA SleepCloudErrInv ==
  ASSUME IInv, NEW p \in Procs, SleepCloudErr(p)
  PROVE  IInv'
<1> USE DEF IInv, TypeOK, ProcsInv, SleepCloudErr
<1>1. TypeOK' OBVIOUS
<1>2. ProcsInv' OBVIOUS
<1>3. OwnServers' BY DEF OwnServers, Unreported
<1>4. Unreported' BY DEF Unreported, OwnServers
<1>5. RacesNoted' BY DEF RacesNoted
<1>6. CopiesAgree' BY DEF CopiesAgree, RacesNoted
<1>7. BootIsCreating' BY DEF BootIsCreating, RacesNoted
<1>8. KnownDown'
  <2>1. \A x \in Envs : Clean(x)' => Clean(x) OBVIOUS
  <2>2. cloud[proc[p].row] = "up" => "lost" \in mishap'[proc[p].env] OBVIOUS
  <2>3. Clean(proc[p].env)' => Down(proc[p].row) BY <2>2
  <2>4. cloud' = cloud /\ status' = status /\ cluster' = cluster OBVIOUS
  <2>5. \A r \in Procs : /\ proc'[r].env = proc[r].env /\ proc'[r].row = proc[r].row
                         /\ r # p => proc'[r].pc = proc[r].pc
    OBVIOUS
  <2>6. proc'[p].pc = "s_write" /\ \A r \in Procs : proc[r].pc # "idle" => proc[r].env \in Envs
    OBVIOUS
  <2> HIDE DEF SleepCloudErr, TypeOK, ProcsInv, Clean
  <2>7. ASSUME NEW r \in Procs, proc'[r].pc \in Boots, Clean(proc[r].env)'
        PROVE  Down(cluster[proc[r].env])
    BY <2>1, <2>5, <2>6, <2>7 DEF KnownDown
  <2>8. ASSUME NEW r \in Procs, proc'[r].pc \in {"w_mark", "s_write", "d_done"},
               Clean(proc[r].env)'
        PROVE  Down(proc[r].row)
    BY <2>1, <2>3, <2>5, <2>6, <2>8 DEF KnownDown
  <2> QED BY <2>1, <2>4, <2>5, <2>7, <2>8 DEF KnownDown
<1>9. NoOrphanServer' BY DEF NoOrphanServer, KnownDown, RacesNoted, CopiesAgree, OwnServers, Unreported
<1>10. RunningInv' BY DEF RunningInv, Unreported, OwnServers
<1>11. TasksInv' BY DEF TasksInv
<1> QED BY <1>1, <1>2, <1>3, <1>4, <1>5, <1>6, <1>7, <1>8, <1>9, <1>10, <1>11

\* The whole row is written, naming a server that is deleted.
LEMMA SleepWriteInv ==
  ASSUME IInv, NEW p \in Procs, SleepWrite(p)
  PROVE  IInv'
<1> USE DEF IInv, TypeOK, ProcsInv, SleepWrite
<1>1. TypeOK' OBVIOUS
<1>2. ProcsInv' OBVIOUS
<1>3. OwnServers' BY DEF OwnServers, Unreported
<1>4. Unreported' BY DEF Unreported, OwnServers
<1>5. RacesNoted' BY DEF RacesNoted
<1>6. CopiesAgree' BY DEF CopiesAgree, RacesNoted
<1>7. BootIsCreating' BY DEF BootIsCreating, RacesNoted
<1>8. KnownDown' BY DEF KnownDown, RacesNoted, CopiesAgree, OwnServers
<1>9. NoOrphanServer' BY DEF NoOrphanServer, KnownDown, RacesNoted, CopiesAgree, OwnServers, Unreported
<1>10. RunningInv' BY DEF RunningInv, Unreported, OwnServers
<1>11. TasksInv' BY DEF TasksInv
<1> QED BY <1>1, <1>2, <1>3, <1>4, <1>5, <1>6, <1>7, <1>8, <1>9, <1>10, <1>11

\* The copy of a sleeping row names a deleted server.
LEMMA WakeEnvironmentInv ==
  ASSUME IInv, NEW p \in Procs, NEW e \in Envs, WakeEnvironment(p, e)
  PROVE  IInv'
<1> USE DEF IInv, TypeOK, ProcsInv, WakeEnvironment
<1>1. TypeOK' OBVIOUS
<1>2. ProcsInv' OBVIOUS
<1>3. OwnServers' BY DEF OwnServers, Unreported
<1>4. Unreported' BY DEF Unreported, OwnServers
<1>5. RacesNoted' BY DEF RacesNoted
<1>6. CopiesAgree' BY DEF CopiesAgree, RacesNoted
<1>7. BootIsCreating' BY DEF BootIsCreating, RacesNoted
<1>8. KnownDown' BY DEF KnownDown, RacesNoted, CopiesAgree, OwnServers
<1>9. NoOrphanServer' BY DEF NoOrphanServer, KnownDown, RacesNoted, CopiesAgree, OwnServers, Unreported
<1>10. RunningInv' BY DEF RunningInv, Unreported, OwnServers
<1>11. TasksInv' BY DEF TasksInv
<1> QED BY <1>1, <1>2, <1>3, <1>4, <1>5, <1>6, <1>7, <1>8, <1>9, <1>10, <1>11

\* From here on the call is a boot; beside another copy it is a race.
LEMMA WakeMarkInv ==
  ASSUME IInv, NEW p \in Procs, WakeMark(p)
  PROVE  IInv'
<1> USE DEF IInv, TypeOK, ProcsInv, WakeMark
<1>1. TypeOK' OBVIOUS
<1>2. ProcsInv' OBVIOUS
<1>3. OwnServers' BY DEF OwnServers, Unreported
<1>4. Unreported' BY DEF Unreported, OwnServers
<1>5. RacesNoted' BY DEF RacesNoted
<1>6. CopiesAgree' BY DEF CopiesAgree, RacesNoted
<1>7. BootIsCreating' BY DEF BootIsCreating, RacesNoted
<1>8. KnownDown' BY DEF KnownDown, RacesNoted, CopiesAgree, OwnServers
<1>9. NoOrphanServer'
  <2>1. \A x \in Envs : Clean(x)' => Clean(x) OBVIOUS
  <2>2. Clean(proc[p].env) => cluster' = cluster BY DEF CopiesAgree
  <2>3. \A x \in Envs : x # proc[p].env => cluster'[x] = cluster[x] OBVIOUS
  <2>4. \A q \in Procs : proc[q].pc = "report" => proc'[q] = proc[q] OBVIOUS
  <2> QED BY <2>1, <2>2, <2>3, <2>4 DEF NoOrphanServer
<1>10. RunningInv' BY DEF RunningInv, Unreported, OwnServers
<1>11. TasksInv' BY DEF TasksInv
<1> QED BY <1>1, <1>2, <1>3, <1>4, <1>5, <1>6, <1>7, <1>8, <1>9, <1>10, <1>11

\* A call ends; boots cannot be cancelled.
LEMMA CtxDiesInv ==
  ASSUME IInv, NEW p \in Procs, CtxDies(p)
  PROVE  IInv'
<1> USE DEF IInv, TypeOK, ProcsInv, CtxDies
<1>1. TypeOK' OBVIOUS
<1>2. ProcsInv' OBVIOUS
<1>3. OwnServers' BY DEF OwnServers, Unreported
<1>4. Unreported' BY DEF Unreported, OwnServers
<1>5. RacesNoted' BY DEF RacesNoted
<1>6. CopiesAgree' BY DEF CopiesAgree, RacesNoted
<1>7. BootIsCreating' BY DEF BootIsCreating, RacesNoted
<1>8. KnownDown' BY DEF KnownDown, RacesNoted, CopiesAgree, OwnServers
<1>9. NoOrphanServer' BY DEF NoOrphanServer, KnownDown, RacesNoted, CopiesAgree, OwnServers, Unreported
<1>10. RunningInv' BY DEF RunningInv, Unreported, OwnServers
<1>11. TasksInv' BY DEF TasksInv
<1> QED BY <1>1, <1>2, <1>3, <1>4, <1>5, <1>6, <1>7, <1>8, <1>9, <1>10, <1>11

\* All goroutines end; a boot that ends is noted.
LEMMA CrashInv ==
  ASSUME IInv, Crash
  PROVE  IInv'
<1> USE DEF IInv, TypeOK, ProcsInv, Crash
<1>1. TypeOK' OBVIOUS
<1>2. ProcsInv' OBVIOUS
<1>3. OwnServers' BY DEF OwnServers, Unreported
<1>4. Unreported' BY DEF Unreported, OwnServers
<1>5. RacesNoted' BY DEF RacesNoted
<1>6. CopiesAgree' BY DEF CopiesAgree, RacesNoted
<1>7. BootIsCreating' BY DEF BootIsCreating, RacesNoted
<1>8. KnownDown'
  <2>1. \A x \in Envs : Clean(x)' => Clean(x) OBVIOUS
  <2> QED BY <2>1 DEF KnownDown
<1>9. NoOrphanServer'
  <2>1. \A x \in Envs : Clean(x)' => Clean(x) OBVIOUS
  <2>2. \A x \in Envs : On(x, Boots) # {} => "bootlost" \in mishap'[x] OBVIOUS
  <2>3. \A x \in Envs : Clean(x)' => On(x, {"report"}) = {} BY <2>2
  <2>4. cluster' = cluster /\ \A x \in Envs : UpFor(x)' = UpFor(x) OBVIOUS
  <2> HIDE DEF Crash, TypeOK, ProcsInv, Clean, UpFor
  <2> QED BY <2>1, <2>3, <2>4 DEF NoOrphanServer
<1>10. RunningInv' BY DEF RunningInv, Unreported, OwnServers
<1>11. TasksInv' BY DEF TasksInv
<1> QED BY <1>1, <1>2, <1>3, <1>4, <1>5, <1>6, <1>7, <1>8, <1>9, <1>10, <1>11

-----------------------------------------------------------------------------
\* The inductive invariant holds initially.
LEMMA InitInv == Init => IInv
BY DEF Init, IInv, TypeOK, ProcsInv, TasksInv, OwnServers, Unreported, RacesNoted,
       CopiesAgree, BootIsCreating, KnownDown, NoOrphanServer, RunningInv

\* Every step keeps it.
LEMMA NextInv == IInv /\ [Next]_vars => IInv'
<1> SUFFICES ASSUME IInv, [Next]_vars PROVE IInv' OBVIOUS
<1>1. CASE UNCHANGED vars
  BY <1>1 DEF vars, IInv, TypeOK, ProcsInv, TasksInv, OwnServers, Unreported, RacesNoted,
              CopiesAgree, BootIsCreating, KnownDown, NoOrphanServer, RunningInv
<1>2. ASSUME NEW p \in Procs, Step(p) PROVE IInv'
  BY <1>2, TrackUsageStartInv, BootFailInv, BootReportInv, BootCloudInv, TrackUsageStopInv,
     DestroyRefusedInv, DestroyReadInv, DestroyMarkInv, DestroyCloudOkInv, DestroyCloudErrInv,
     DestroyDoneInv, SleepReadInv, SleepRefusedInv, SleepCloudOkInv, SleepCloudErrInv,
     SleepWriteInv, WakeMarkInv
     DEF Step, Boot, Destroy, Sleep
<1>3. ASSUME NEW p \in Procs, Begin(p) PROVE IInv'
  BY <1>3, CreateEnvironmentInv, ApiDestroyInv, WakeEnvironmentInv, BranchCleanupInv,
     IdleSleepInv, TaskCleanupInv
     DEF Begin
<1> QED BY <1>1, <1>2, <1>3, CtxDiesInv, TaskRowEndsInv, CrashInv DEF Next

\* The inductive invariant holds in every reachable state.
THEOREM Invariance == Spec => []IInv
BY InitInv, NextInv, PTL DEF Spec

\* Every variable keeps its type.
THEOREM TypeCorrect == Spec => []TypeOK
BY Invariance, PTL DEF IInv

\* No full-row write of Destroy, Sleep or Wake ever loses the name of a server
\* that is up, whichever calls interleave, as long as no boot ran beside them
\* (or was cut by a crash) and no deletion failed.
THEOREM NothingOrphaned == Spec => []NoOrphanServer
BY Invariance, PTL DEF IInv

\* An unraced boot keeps the row at 'creating', so that a destroyed row names the
\* only server that could be up, and KnownDown says it is deleted.
LEMMA GoneLemma == IInv => DestroyedMeansGone
BY DEF IInv, TypeOK, DestroyedMeansGone, NoOrphanServer, KnownDown, BootIsCreating

\* DestroyEnvironment leaves no server behind a row it marks destroyed.
THEOREM NothingLeftBehind == Spec => []DestroyedMeansGone
BY Invariance, GoneLemma, PTL

\* A second server would need a second unraced boot, or a boot while the named
\* server is up.
LEMMA OneServerLemma == IInv => OneServerPerEnv
<1> SUFFICES ASSUME IInv, NEW e \in Envs, Clean(e), NEW s \in UpFor(e), NEW t \in UpFor(e)
             PROVE  s = t
  BY DEF OneServerPerEnv
<1>1. "raced" \notin mishap[e] OBVIOUS
<1>2. ASSUME NEW p \in Procs, proc[p].env = e, proc[p].pc = "report"
      PROVE  cluster[e] \notin UpFor(e)
  BY <1>2 DEF IInv, KnownDown
<1>3. ASSUME NEW p \in Procs, proc[p].env = e, proc[p].pc = "report",
             NEW q \in Procs, proc[q].env = e, proc[q].pc = "report"
      PROVE  p = q
  BY <1>1, <1>3 DEF IInv, RacesNoted
<1> QED BY <1>2, <1>3 DEF IInv, NoOrphanServer

\* No environment has two servers up.
THEOREM AtMostOneServer == Spec => []OneServerPerEnv
BY Invariance, OneServerLemma, PTL

\* RunningInv, when no sleep is between its deletion and its write.
LEMMA RunningLemma == IInv => RunningIsUp
BY DEF IInv, TypeOK, RunningIsUp, RunningInv, OwnServers

\* A row left at 'running' names a server of its own that is up.
THEOREM RunningMeansUp == Spec => []RunningIsUp
BY Invariance, RunningLemma, PTL

-----------------------------------------------------------------------------
(* Usage. *)

\* Usage is started for billed environments only.
StartsAreBilled ==
  \A p \in Procs : proc[p].pc = "usage_start" => proc[p].env \in Billed

ForkUsage == \A e \in ForkEnvs : usage[e] # "open"

\* An open usage of a task, or one about to be opened, has its executor; or the
\* stop is under way, under a context that nothing cancels.
TaskUsage ==
  \A e \in TaskEnvs :
    /\ On(e, {"usage_start"}) # {} => task[e] \in {"exec", "ending"}
    /\ usage[e] = "open" /\ "unstopped" \notin mishap[e] =>
         \/ task[e] \in {"exec", "ending"}
         \/ \E p \in On(e, {"usage_stop"}) : proc[p].ctx = "background"

\* A destroy of an API environment stops the usage first: while it is open, or
\* about to be opened, no destroy has got past the stop.
ApiUsage ==
  \A e \in ApiEnvs :
    /\ usage[e] = "open" \/ On(e, {"usage_start"}) # {}
    /\ "unstopped" \notin mishap[e]
    => /\ status[e] \notin {"destroying", "destroyed"}
       /\ On(e, {"d_read"} \cup DestroyPcs) = {}

UsageInv == StartsAreBilled /\ ForkUsage /\ TaskUsage /\ ApiUsage

\* Environments are of one kind.
LEMMA Kinds ==
  ApiEnvs \cap ForkEnvs = {} /\ ApiEnvs \cap TaskEnvs = {} /\ ForkEnvs \cap TaskEnvs = {}
OBVIOUS

\* One step per action of a goroutine.
LEMMA UsageProcs ==
  ASSUME TypeOK, ProcsInv, UsageInv, NEW p \in Procs, Step(p) \/ Begin(p) \/ CtxDies(p)
  PROVE  UsageInv'
<1> USE Kinds DEF TypeOK, ProcsInv, UsageInv, StartsAreBilled, ForkUsage, TaskUsage, ApiUsage, Billed
\* a new environment has no other goroutine; an executor comes with its start
<1>1. ASSUME NEW q \in Procs, NEW e \in Envs, CreateEnvironment(p, q, e) PROVE UsageInv'
  <2> USE <1>1 DEF CreateEnvironment
  <2>1. StartsAreBilled' OBVIOUS
  <2>2. ForkUsage' OBVIOUS
  <2>3. TaskUsage' OBVIOUS
  <2>4. ApiUsage' OBVIOUS
  <2> QED BY <2>1, <2>2, <2>3, <2>4
<1>2. ASSUME NEW e \in Envs, ApiDestroy(p, e) PROVE UsageInv'
  BY <1>2 DEF ApiDestroy
<1>3. ASSUME NEW e \in Envs, WakeEnvironment(p, e) PROVE UsageInv'
  BY <1>3 DEF WakeEnvironment
\* a branch clean-up destroys without a stop, but API environments have no branch
<1>4. ASSUME NEW e \in RepoEnvs, BranchCleanup(p, e) PROVE UsageInv'
  BY <1>4 DEF BranchCleanup
<1>5. ASSUME NEW e \in RepoEnvs, IdleSleep(p, e) PROVE UsageInv'
  BY <1>5 DEF IdleSleep
\* the executor hands over to the background stop, its start being over
<1>6. ASSUME NEW e \in TaskEnvs, TaskCleanup(p, e) PROVE UsageInv'
  BY <1>6 DEF TaskCleanup
\* opens what was about to be opened
<1>7. ASSUME TrackUsageStart(p) PROVE UsageInv'
  BY <1>7 DEF TrackUsageStart
\* closes what is open; a start still to come is the accident
<1>8. ASSUME TrackUsageStop(p) PROVE UsageInv'
  BY <1>8 DEF TrackUsageStop
<1>9. ASSUME NEW s \in Servers, BootCloud(p, s) PROVE UsageInv'
  BY <1>9 DEF BootCloud
<1>10. ASSUME BootFail(p) PROVE UsageInv'
  BY <1>10 DEF BootFail
<1>11. ASSUME BootReport(p) PROVE UsageInv'
  BY <1>11 DEF BootReport
<1>12. ASSUME DestroyRefused(p) PROVE UsageInv'
  BY <1>12 DEF DestroyRefused
\* by ApiUsage, a destroy that got here is past the stop
<1>13. ASSUME DestroyRead(p) PROVE UsageInv'
  BY <1>13 DEF DestroyRead
\* and so is one that writes the row
<1>14. ASSUME DestroyMark(p) PROVE UsageInv'
  BY <1>14 DEF DestroyMark
<1>15. ASSUME DestroyCloudOk(p) PROVE UsageInv'
  BY <1>15 DEF DestroyCloudOk
<1>16. ASSUME DestroyCloudErr(p) PROVE UsageInv'
  BY <1>16 DEF DestroyCloudErr
<1>17. ASSUME DestroyDone(p) PROVE UsageInv'
  BY <1>17 DEF DestroyDone
<1>18. ASSUME SleepRead(p) PROVE UsageInv'
  BY <1>18 DEF SleepRead
<1>19. ASSUME SleepRefused(p) PROVE UsageInv'
  BY <1>19 DEF SleepRefused
<1>20. ASSUME SleepCloudOk(p) PROVE UsageInv'
  BY <1>20 DEF SleepCloudOk
<1>21. ASSUME SleepCloudErr(p) PROVE UsageInv'
  BY <1>21 DEF SleepCloudErr
<1>22. ASSUME SleepWrite(p) PROVE UsageInv'
  BY <1>22 DEF SleepWrite
<1>23. ASSUME WakeMark(p) PROVE UsageInv'
  BY <1>23 DEF WakeMark
\* cuts no background stop
<1>24. ASSUME CtxDies(p) PROVE UsageInv'
  BY <1>24 DEF CtxDies
<1> QED BY <1>1, <1>2, <1>3, <1>4, <1>5, <1>6, <1>7, <1>8, <1>9, <1>10, <1>11, <1>12,
     <1>13, <1>14, <1>15, <1>16, <1>17, <1>18, <1>19, <1>20, <1>21, <1>22, <1>23, <1>24
     DEF Step, Boot, Destroy, Sleep, Begin

\* Usage stays accounted for: a restart that forgets an executor is an accident.
LEMMA UsageNext == IInv /\ UsageInv /\ [Next]_vars => UsageInv'
<1> SUFFICES ASSUME TypeOK, ProcsInv, UsageInv, [Next]_vars PROVE UsageInv' BY DEF IInv
<1> USE DEF TypeOK, ProcsInv, UsageInv, StartsAreBilled, ForkUsage, TaskUsage, ApiUsage
<1>1. CASE UNCHANGED vars BY <1>1 DEF vars
<1>2. ASSUME NEW e \in TaskEnvs, TaskRowEnds(e) PROVE UsageInv' BY <1>2 DEF TaskRowEnds
<1>3. CASE Crash BY <1>3, Kinds DEF Crash, ExecutorOf
<1> HIDE DEF TypeOK, ProcsInv, UsageInv
<1> QED BY <1>1, <1>2, <1>3, UsageProcs DEF Next

LEMMA UsageInit == Init => UsageInv
BY DEF Init, UsageInv, StartsAreBilled, ForkUsage, TaskUsage, ApiUsage

\* The executor of an open usage is one of a task; API and forked environments
\* have none that is open.
LEMMA UnbilledLemma == IInv /\ UsageInv => DestroyedNotBilled
BY DEF IInv, TypeOK, UsageInv, DestroyedNotBilled, ForkUsage, TaskUsage, ApiUsage, ExecutorOf

\* No destroyed environment is billed without an executor that will stop it,
\* although some callers of DestroyEnvironment stop the usage and others do not.
THEOREM DestroyedUnbilled == Spec => []DestroyedNotBilled
<1>1. Spec => []UsageInv BY Invariance, UsageInit, UsageNext, PTL DEF Spec
<1> QED BY <1>1, Invariance, UnbilledLemma, PTL
=============================================================================
