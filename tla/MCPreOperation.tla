--------------------------- MODULE MCPreOperation ---------------------------
(* Instances of ClientSession, which extends PreOperation, for TLC. *)
EXTENDS ClientSession

CONSTANTS t1, t2, t3, k1, k2
============================================================================
