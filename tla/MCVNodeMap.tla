----------------------------- MODULE MCVNodeMap -----------------------------
(* Instances of VNodeMap for TLC. *)
EXTENDS VNodeMap, TLC

CONSTANTS t1, t2, t3, v1, v2, v3, b1, b2

\* The shadow copy v1 is redirected; v2 and v3 are original files.  The file
\* behind v1 stays the same, or is replaced by a rename.
OneBacking == (v1 :> {b1}) @@ (v2 :> {}) @@ (v3 :> {})
AnyBacking == (v1 :> {b1, b2}) @@ (v2 :> {}) @@ (v3 :> {})
\* A rename may change the file that v1 is the shadow copy of.
OneShadow == { << v1, v2 >> }
AnyShadow == { << v1, v2 >>, << v1, v3 >> }

Symmetry == Permutations({t1, t2, t3})
============================================================================
