--------------------------- MODULE MCRedirectedIO ---------------------------
(* Instances of RedirectedIO for TLC. *)
EXTENDS RedirectedIO, TLC

CONSTANTS t1, t2

Symmetry == Permutations({t1, t2})
=============================================================================
