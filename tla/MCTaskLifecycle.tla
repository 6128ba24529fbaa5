-------------------------- MODULE MCTaskLifecycle ---------------------------
(* Instances of TaskLifecycle for TLC: a task with one or two sub-tasks. *)
EXTENDS TaskLifecycle, TLC

CONSTANTS t1, t2, t3, p1, p2, p3

Pair == {t1, t2}
PairParent == t1 :> NoTask @@ t2 :> t1
Family == {t1, t2, t3}
FamilyParent == t1 :> NoTask @@ t2 :> t1 @@ t3 :> t1
Unrelated == [t \in Pair |-> NoTask]
Symmetry == Permutations(Procs)
FamilySymmetry == Symmetry \cup Permutations({t2, t3})
=============================================================================
