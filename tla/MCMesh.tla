------------------------------- MODULE MCMesh -------------------------------
(* Instances of Mesh for TLC. *)
EXTENDS Mesh

CONSTANTS o1, o2, main, dev, other, f, h1, h2, c

\* a repository with two branches; another organisation has a branch of its own
MCOrg == [b \in Branches |-> IF b = other THEN o2 ELSE o1]
MCWatched == [x \in Clients |-> main]
=============================================================================
