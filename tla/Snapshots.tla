----------------------------- MODULE Snapshots ------------------------------
(***************************************************************************)
(* Images of environments, the rows that name them, and what new           *)
(* environments start from: EnvService.SnapshotEnvironment and its callers *)
(* (env_service.go, api/server.go, repo_service.go, task_executor.go), the *)
(* SnapshotStore and the fork of a branch (repo_service.go), and docker    *)
(* commit/push and pull on the machine (pkg/env/*_provider.go).            *)
(* One organisation.  No query here looks at the repository, so branches   *)
(* of two repositories that share a name are one branch.  An image has the *)
(* container's filesystem, not the volume at /workspace.  The registry is  *)
(* one for all environments, and a tag names the second it was made in, or *)
(* is the caller's.                                                        *)
(***************************************************************************)
EXTENDS Naturals, Sequences

CONSTANTS Vms, Branches, Parent, Tags, Jobs, NoVm, NoTag, MaxInstalls, MaxRows

ASSUME SnapAssumption ==
  /\ Parent \in Branches /\ NoVm \notin Vms /\ NoTag \notin Tags
  /\ MaxInstalls \in Nat /\ MaxRows \in Nat

VARIABLES
  vm,     \* environments and their containers: [status, branch, made, from];
          \* made counts the changes to the container, from is the
          \* environment whose image it began with
  image,  \* the registry: [of, made] by tag
  snaps,  \* the table snapshots by created_at: [branch, vm, tag, clash]
  shot,   \* the snapshots that are taken, one for each of Jobs: [pc, vm, tag, made, clash]
  reused  \* history: tags two snapshots have had

snapVars == <<vm, image, snaps, shot, reused>>

Nothing == [of |-> NoVm, made |-> 0]
NoShot == [pc |-> "none", vm |-> NoVm, tag |-> NoTag, made |-> 0, clash |-> FALSE]
InFlight == {"push", "save"}

SnapTypeOK ==
  /\ vm \in [Vms -> [status : {"none", "running", "down"},
                     branch : Branches, made : 0..MaxInstalls,
                     from : Vms \cup {NoVm}]]
  /\ image \in [Tags -> [of : Vms \cup {NoVm}, made : 0..MaxInstalls]]
  /\ snaps \in Seq([branch : Branches, vm : Vms \cup {NoVm}, tag : Tags, clash : BOOLEAN])
  /\ shot \in [Jobs -> [pc : InFlight \cup {"none", "over"}, vm : Vms \cup {NoVm}, tag : Tags \cup {NoTag},
                        made : 0..MaxInstalls, clash : BOOLEAN]]
  /\ reused \subseteq Tags

SnapInit ==
  /\ vm = [e \in Vms |-> [status |-> "none", branch |-> Parent, made |-> 0, from |-> NoVm]]
  /\ image = [t \in Tags |-> Nothing]
  /\ snaps = <<>>
  /\ shot = [j \in Jobs |-> NoShot]
  /\ reused = {}

-----------------------------------------------------------------------------
(* Environments.                                                              *)

OfBranch(b) == {i \in 1..Len(snaps) : snaps[i].branch = b}
Latest(b) == CHOOSE i \in OfBranch(b) : \A k \in OfBranch(b) : k <= i
\* GetLatestByBranch
LatestOf(b) == IF OfBranch(b) = {} THEN NoTag ELSE snaps[Latest(b)].tag
\* the image the machine pulls and runs: what its tag names by then
Pulled(t) == IF t = NoTag THEN NoVm ELSE image[t].of

\* POST /environments and a task start from their branch's image, the environment
\* of a new branch from its parent's; EnvLifecycle has the machine coming up
CreateVm(e, b) ==
  /\ vm[e].status = "none"
  /\ \E from \in {b, Parent} :
       vm' = [vm EXCEPT ![e] = [status |-> "running", branch |-> b, made |-> 0,
                                from |-> Pulled(LatestOf(from))]]
  /\ UNCHANGED <<image, snaps, shot, reused>>

Install(e) ==
  /\ vm[e].status = "running" /\ vm[e].made < MaxInstalls
  /\ vm' = [vm EXCEPT ![e].made = @ + 1]
  /\ UNCHANGED <<image, snaps, shot, reused>>

\* SleepEnvironment or a destruction, after a snapshot that gets no row: the
\* machine is gone
GoDown(e) ==
  /\ vm[e].status = "running"
  /\ vm' = [vm EXCEPT ![e].status = "down"]
  /\ UNCHANGED <<image, snaps, shot, reused>>

\* WakeEnvironment names no image: the base image
Wake(e) ==
  /\ vm[e].status = "down"
  /\ vm' = [vm EXCEPT ![e].status = "running", ![e].from = NoVm]
  /\ UNCHANGED <<image, snaps, shot, reused>>

-----------------------------------------------------------------------------
(* Snapshots.                                                                 *)

\* SnapshotEnvironment of a running environment, and docker commit there
StartShot(j, e, t) ==
  /\ shot[j].pc = "none" /\ vm[e].status = "running"
  /\ LET other == {k \in Jobs : shot[k].pc \in InFlight /\ shot[k].vm = e} IN
     shot' = [k \in Jobs |->
                IF k = j THEN [pc |-> "push", vm |-> e, tag |-> t, made |-> vm[e].made,
                               clash |-> other # {}]
                ELSE IF k \in other THEN [shot[k] EXCEPT !.clash = TRUE] ELSE shot[k]]
  /\ reused' = IF image[t] # Nothing \/ \E k \in Jobs : shot[k].pc \in InFlight /\ shot[k].tag = t
               THEN reused \cup {t} ELSE reused
  /\ UNCHANGED <<vm, image, snaps>>

EndShot(j) == shot' = [shot EXCEPT ![j] = [NoShot EXCEPT !.pc = "over"]]

\* docker push replaces what the tag named.  Manual, on_stop and on_push
\* snapshots go on to a row; those of SleepEnvironment, preDestroySnapshot and
\* the executor do not
PushImage(j) ==
  /\ shot[j].pc = "push" /\ vm[shot[j].vm].status = "running"
  /\ image' = [image EXCEPT ![shot[j].tag] = [of |-> shot[j].vm, made |-> shot[j].made]]
  /\ shot' = [shot EXCEPT ![j].pc = "save"] \/ EndShot(j)
  /\ UNCHANGED <<vm, snaps, reused>>

\* the machine is gone, a command or the database fails, the server stops
ShotFails(j) ==
  /\ shot[j].pc \in InFlight
  /\ EndShot(j)
  /\ UNCHANGED <<vm, image, snaps, reused>>

\* mutant of SaveRow: the row is the default branch's
SaveParentsRow(j) ==
  /\ shot[j].pc = "save" /\ Len(snaps) < MaxRows
  /\ snaps' = Append(snaps, [branch |-> Parent, vm |-> shot[j].vm,
                             tag |-> shot[j].tag, clash |-> shot[j].clash])
  /\ EndShot(j)
  /\ UNCHANGED <<vm, image, reused>>

\* SnapshotStore.Save, for the branch of the environment
SaveRow(j) ==
  /\ shot[j].pc = "save" /\ Len(snaps) < MaxRows
  /\ snaps' = Append(snaps, [branch |-> vm[shot[j].vm].branch, vm |-> shot[j].vm,
                             tag |-> shot[j].tag, clash |-> shot[j].clash])
  /\ EndShot(j)
  /\ UNCHANGED <<vm, image, reused>>

\* autoForkSnapshot: a row for the new branch with the parent's image, and no
\* environment
ForkRow(b) ==
  /\ b # Parent /\ OfBranch(Parent) # {} /\ Len(snaps) < MaxRows
  /\ snaps' = Append(snaps, [snaps[Latest(Parent)] EXCEPT !.branch = b, !.vm = NoVm])
  /\ UNCHANGED <<vm, image, shot, reused>>

SnapNext ==
  \/ \E e \in Vms : \/ Install(e) \/ GoDown(e) \/ Wake(e)
                    \/ \E b \in Branches : CreateVm(e, b)
                    \/ \E j \in Jobs, t \in Tags : StartShot(j, e, t)
  \/ \E j \in Jobs : PushImage(j) \/ ShotFails(j) \/ SaveRow(j)
  \/ \E b \in Branches : ForkRow(b)

SnapSpec == SnapInit /\ [][SnapNext]_snapVars

-----------------------------------------------------------------------------
(* A row's image is of the row's environment, as long as no second snapshot   *)
(* had its tag: two in one second, or a caller's tag used again.              *)
RowsShowTheirVm ==
  \A i \in 1..Len(snaps) :
    snaps[i].vm # NoVm /\ snaps[i].tag \notin reused => image[snaps[i].tag].of = snaps[i].vm

(* Of two rows of one environment the later has the later state, unless the   *)
(* two snapshots were taken at the same time: the order of the rows, which    *)
(* decides what a branch starts from, is that of the inserts.                 *)
LaterRowsAreNewer ==
  \A i, k \in 1..Len(snaps) :
    /\ i < k /\ snaps[i].vm = snaps[k].vm /\ snaps[i].vm # NoVm
    /\ {snaps[i].tag, snaps[k].tag} \cap reused = {}
    /\ ~(snaps[i].clash /\ snaps[k].clash)
    => image[snaps[i].tag].made <= image[snaps[k].tag].made

(* What an environment starts from is a state of an environment of its        *)
(* branch, or of the parent's: through a fork only, which never goes back.    *)
StartsFromItsBranch ==
  \A e \in Vms :
    vm[e].from # NoVm /\ reused = {} =>
      vm[vm[e].from].branch \in {vm[e].branch, Parent}

SnapshotsSafe == RowsShowTheirVm /\ LaterRowsAreNewer /\ StartsFromItsBranch
=============================================================================
