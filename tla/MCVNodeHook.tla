---------------------------- MODULE MCVNodeHook ----------------------------
(* Instances of VNodeHook for TLC. *)
EXTENDS VNodeHook, TLC

CONSTANTS t1, t2, v1, v2, v3, w1, w2, e1, e2, e3

TwoThreads == {t1, t2}
\* One file system with two files; nothing has a VREG parent.
TwoFiles == {v1, v2}
OneVop == [v \in {v1, v2} |-> w1]
NoParent == [v \in {v1, v2} |-> NoVnode]
\* A file, its directory, and a named stream whose parent is the file.
StreamVnodes == {v1, v2, v3}
StreamRegular == {v1, v2}
StreamParent == (v1 :> v2) @@ (v2 :> v3) @@ (v3 :> NoVnode)
StreamVop == [v \in {v1, v2, v3} |-> w1]

ThreadSymmetry == Permutations({t1, t2}) \cup Permutations({e1, e2, e3})
============================================================================
