------------------------------- MODULE MCWork -------------------------------
(***************************************************************************)
(* The warm pool, the run of a task, what a run leaves to later ones and   *)
(* what it gets from earlier ones, in one instance for TLC: as in MCSuite, *)
(* "part" says which of them a behaviour is about, and the others stay at  *)
(* an initial state.                                                       *)
(***************************************************************************)
EXTENDS WarmPool, TaskRun, TrajectoryMemory, Snapshots, Guidance, RepoLinks, TLC

CONSTANTS Parts, x1, x2, y1, y2

VARIABLE part

\* the default size is above the maximum, as in a configuration that
\* WarmPoolConfig's normalisation has to cut
MCPoolConfig == [default |-> 2, max |-> 1]
MCTargetOf == x1 :> "small" @@ x2 :> "small"
MCWants == y1 :> "small" @@ y2 :> "small"

\* the parts share the values of their symmetric constants, so that the group is
\* no larger than that of one part
Symmetry == Permutations({x1, x2}) \cup Permutations({y1, y2})

\* the initial states of a part that is left alone
AtRest ==
  /\ part # "run" => setup = [clones |-> TRUE, ofDefault |-> TRUE, opensPR |-> TRUE]
  /\ part # "memory" => embeds
  /\ part # "guidance" => asked = 0 /\ lexical = [t \in Tips |-> 0] /\ newest = 1..KeepNewest
  /\ part # "links" => signed = {} /\ ~app

WorkInit ==
  /\ part \in Parts
  /\ PoolInit /\ RunInit /\ MemoryInit /\ SnapInit /\ GuidanceInit /\ LinkInit
  /\ AtRest

WorkNext ==
  /\ UNCHANGED part
  /\ \/ part = "pool" /\ PoolNext
     \/ part # "pool" /\ UNCHANGED poolVars
  /\ \/ part = "run" /\ RunNext
     \/ part # "run" /\ UNCHANGED runVars
  /\ \/ part = "memory" /\ MemoryNext
     \/ part # "memory" /\ UNCHANGED memoryVars
  /\ \/ part = "snapshots" /\ SnapNext
     \/ part # "snapshots" /\ UNCHANGED snapVars
  /\ \/ part = "guidance" /\ GuidanceNext
     \/ part # "guidance" /\ UNCHANGED guidanceVars
  /\ \/ part = "links" /\ LinkNext
     \/ part # "links" /\ UNCHANGED linkVars

workVars == <<part, poolVars, runVars, memoryVars, snapVars, guidanceVars,
              linkVars>>
WorkSpec == WorkInit /\ [][WorkNext]_workVars

-----------------------------------------------------------------------------
(* The parts' properties, each asked of the behaviours of its part.          *)

\* the types of all parts, and the bound of the pool but for the named ways
\* over it
WorkWellFormed ==
  /\ part = "pool" => PoolTypeOK /\ PoolBounded
  /\ part = "run" => RunTypeOK
  /\ part = "memory" => MemoryTypeOK
  /\ part = "snapshots" => SnapTypeOK
  /\ part = "guidance" => GuidanceTypeOK
  /\ part = "links" => LinkTypeOK

\* WarmPool: a server that runs an environment is that one's alone, and every
\* server that is up is accounted for
PoolSafe == part = "pool" => ServesOne /\ ServersAccounted

\* TaskRun: what the row says of a run's commit and pull request is so, the
\* session tells how the run ended, and nothing is left up
TaskRunSafe == part = "run" => RunSafe

\* TrajectoryMemory, Snapshots and Guidance: what a run gets from earlier ones is
\* from where it is said to be, is current, and is the best of the newest there is; and
\* RepoLinks: what happens on GitHub reaches each organisation, once
InheritanceSafe ==
  /\ part = "memory" => MemorySafe
  /\ part = "snapshots" => SnapshotsSafe
  /\ part = "guidance" => GuidanceSound
  /\ part = "links" => LinksSafe
=============================================================================
