----------------------------- MODULE MCHashTable -----------------------------
(* Instances of HashTable for TLC. *)
EXTENDS HashTable

CONSTANTS k1, k2, k3, k4, d1, d2

\* One bucket of four, then two of two; k1 and k4 collide to the end.
MCHash == (k1 :> 0) @@ (k2 :> 1) @@ (k3 :> 3) @@ (k4 :> 4)
MCDataOf == [k \in {k1, k2, k3, k4} |-> IF k = k1 THEN {d1, d2} ELSE {d2}]

Table(heuristics, rehash, limit) ==
  [i_heuristics |-> heuristics, i_automatic_rehash |-> rehash, bucket_limit |-> limit]

\* The table of the hooks, and each pair of options.
MCOptions ==
  { Table("NONE", FALSE, 0), Table("NONE", TRUE, 2),
    Table("TRANSPOSE", TRUE, 0), Table("TRANSPOSE", FALSE, 2),
    Table("MOVE_TO_FRONT", TRUE, 0), Table("MOVE_TO_FRONT", FALSE, 2) }
=============================================================================
