--------------------------- MODULE MCEnvLifecycle ---------------------------
(* Instances of EnvLifecycle for TLC. *)
EXTENDS EnvLifecycle, TLC

CONSTANTS a, f, t, s1, s2, s3, p1, p2, p3

Symmetry == Permutations(Servers) \cup Permutations(Procs)
=============================================================================
