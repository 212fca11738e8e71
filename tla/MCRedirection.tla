--------------------------- MODULE MCRedirection ---------------------------
(* Instances of Redirection for TLC. *)
EXTENDS Redirection, TLC

CONSTANTS t1, t2

Symmetry == Permutations({t1, t2})
============================================================================
