------------------------------- MODULE MCRename -------------------------------
(* Instances of Rename for TLC. *)
EXTENDS Rename, TLC

CONSTANTS t1, t2, n1, n2, d1, d2

Symmetry == Permutations(Threads) \cup Permutations(Docs)
=============================================================================
