------------------------------ MODULE HashTable ------------------------------
(***************************************************************************)
(* The hash table under the table of hooked vnode operations               *)
(* (CommonHashTable.cpp): a chain of entries per bucket, linked both ways  *)
(* and reordered by lookups, a second list that links all entries from the *)
(* oldest to the newest, a count per bucket and one of the table, buckets  *)
(* of bounded length, and a rehash that moves all entries to a new array.  *)
(* Its caller holds a lock around each call, so that a call is one step.   *)
(* An entry is named by its key; its links are NULL once it is freed.      *)
(***************************************************************************)
EXTENDS Naturals, FiniteSets, SequencesExt

CONSTANTS
  Keys, Data,
  DataOf,        \* bound: the data that are stored under each key
  fn_hash,       \* the hash of each key
  Size,          \* number of buckets the table is created with: a power of 2
  Options,       \* the options a table is used with
  NULL, NoData

Heuristics == {"NONE", "TRANSPOSE", "MOVE_TO_FRONT"}

ASSUME HashAssumption ==
  /\ DataOf \in [Keys -> SUBSET Data] /\ fn_hash \in [Keys -> Nat]
  /\ IsFiniteSet(Keys) /\ Size \in Nat \ {0}
  /\ Options \subseteq [i_heuristics : Heuristics, i_automatic_rehash : BOOLEAN,
                        bucket_limit : Nat]
  /\ NULL \notin Keys /\ NoData \notin Data

VARIABLES
  ht,        \* the table
  iterator,  \* ght_iterator_t of the one iteration under way
  options,   \* i_heuristics, i_automatic_rehash, bucket_limit
  result     \* what the last call returned: p_data, or NoData

vars == << ht, iterator, options, result >>

\* ght_create.
Create(size) ==
  [ i_size     |-> size,
    pp_entries |-> [b \in 0..size-1 |-> NULL],
    p_nr       |-> [b \in 0..size-1 |-> 0],
    i_items    |-> 0,
    p_oldest   |-> NULL, p_newest |-> NULL,
    p_next     |-> [k \in Keys |-> NULL], p_prev  |-> [k \in Keys |-> NULL],
    p_older    |-> [k \in Keys |-> NULL], p_newer |-> [k \in Keys |-> NULL],
    p_data     |-> [k \in Keys |-> NoData] ]

\* The options are set before anything is inserted.
Init ==
  /\ ht = Create(Size)
  /\ iterator = [p_entry |-> NULL, p_next |-> NULL]
  /\ options \in Options
  /\ result = NoData

----------------------------------------------------------------------------
(* Chains.                                                                 *)

\* The entries from p on, in the order of link; a list that has more than
\* all the keys is cut.
Chain(p, link) ==
  LET from[n \in 0..Cardinality(Keys) + 1] ==
        [q \in Keys \cup {NULL} |->
           IF q = NULL \/ n = 0 THEN << >> ELSE << q >> \o from[n-1][link[q]]]
  IN  from[Cardinality(Keys) + 1][p]

Bucket(T, b) == Chain(T.pp_entries[b], T.p_next)
Ages(T)      == Chain(T.p_oldest, T.p_newer)

\* get_hash_value & i_size_mask
BucketOf(T, k) == fn_hash[k] % T.i_size

\* search_in_bucket
Found(T, k) == k \in Range(Bucket(T, BucketOf(T, k)))

\* p->link = q, unless p is NULL
Set(link, p, q) == IF p = NULL THEN link ELSE [link EXCEPT ![p] = q]

\* Variant: X keeps p_entry as its p_next.
TransposeOneWay(T, b, e) ==
  LET x == T.p_prev[e]
      a == T.p_prev[x]
      next == T.p_next[e]
  IN  [T EXCEPT
        !.pp_entries = IF a = NULL THEN [@ EXCEPT ![b] = e] ELSE @,
        !.p_next = [Set(@, a, e) EXCEPT ![x] = next, ![e] = x],
        !.p_prev = [@ EXCEPT ![x] = e, ![e] = a]]

\* Move e one up in its bucket; it is not the first.
Transpose(T, b, e) ==
  LET x == T.p_prev[e]
      a == T.p_prev[x]
      next == T.p_next[e]
  IN  [T EXCEPT
        !.pp_entries = IF a = NULL THEN [@ EXCEPT ![b] = e] ELSE @,
        !.p_next = [Set(@, a, e) EXCEPT ![x] = next, ![e] = x],
        !.p_prev = [Set(@, next, x) EXCEPT ![x] = e, ![e] = a]]

MoveToFront(T, b, e) ==
  LET first == T.pp_entries[b]
  IN  [T EXCEPT
        !.pp_entries[b] = e,
        !.p_next = [Set(@, T.p_prev[e], T.p_next[e]) EXCEPT ![e] = first],
        !.p_prev = [Set(@, T.p_next[e], T.p_prev[e]) EXCEPT ![e] = NULL,
                                                            ![first] = e]]

\* The heuristics of search_in_bucket.
Promote(T, e) ==
  LET b == BucketOf(T, e)
  IN  IF T.p_prev[e] = NULL \/ options.i_heuristics = "NONE" THEN T
      ELSE IF options.i_heuristics = "TRANSPOSE" THEN Transpose(T, b, e)
      ELSE MoveToFront(T, b, e)

RemoveFromChain(T, b, p) ==
  [T EXCEPT
     !.pp_entries = IF T.p_prev[p] = NULL THEN [@ EXCEPT ![b] = T.p_next[p]] ELSE @,
     !.p_next   = Set(@, T.p_prev[p],  T.p_next[p]),
     !.p_prev   = Set(@, T.p_next[p],  T.p_prev[p]),
     !.p_newer  = Set(@, T.p_older[p], T.p_newer[p]),
     !.p_older  = Set(@, T.p_newer[p], T.p_older[p]),
     !.p_oldest = IF T.p_older[p] = NULL THEN T.p_newer[p] ELSE @,
     !.p_newest = IF T.p_newer[p] = NULL THEN T.p_older[p] ELSE @]

\* he_finalize
Finalize(T, p) ==
  [T EXCEPT !.p_next[p] = NULL, !.p_prev[p] = NULL,
            !.p_older[p] = NULL, !.p_newer[p] = NULL, !.p_data[p] = NoData]

----------------------------------------------------------------------------
(* Operations.                                                             *)

\* The new entry is the first of its bucket.
LinkFirst(T, b, k) ==
  [T EXCEPT !.pp_entries[b] = k,
            !.p_next[k] = T.pp_entries[b],
            !.p_prev = Set(@, T.pp_entries[b], k)]

\* A bucket at its limit gives its last entry for the new one; both counts
\* stay, and fn_bucket_free is told.
MakeRoom(T, b, limit) ==
  IF limit # 0 /\ T.p_nr[b] >= limit
  THEN LET p == Last(Bucket(T, b)) IN Finalize(RemoveFromChain(T, b, p), p)
  ELSE [T EXCEPT !.p_nr[b] = @ + 1, !.i_items = @ + 1]

LinkNewest(T, k) ==
  [T EXCEPT !.p_oldest = IF @ = NULL THEN k ELSE @,
            !.p_older[k] = T.p_newest,
            !.p_newer = Set(@, T.p_newest, k),
            !.p_newest = k]

\* ght_insert of an absent key, after he_create and the rehash.
Place(T, k, d, limit) ==
  LET b == BucketOf(T, k)
  IN  LinkNewest(MakeRoom(LinkFirst([T EXCEPT !.p_data[k] = d], b, k), b, limit), k)

\* The entries of T in this order, but those that are lost, in a new table
\* without a limit.
Reinsert(T, order, size, lost) ==
  LET new[i \in 0..Len(order)] ==
        IF i = 0 THEN Create(size)
        ELSE LET n == new[i-1]
             IN  IF order[i] \in lost THEN n
                 ELSE Place(n, order[i], T.p_data[order[i]], 0)
  IN  new[Len(order)]

\* Variant: the newest entries are reinserted first.
RehashReversed(T, size, lost) == Reinsert(T, Reverse(Ages(T)), size, lost)

\* ght_rehash: reinsert the entries from the oldest on; an entry for which
\* there is no memory is lost, and nobody is told.
Rehash(T, size, lost) == Reinsert(T, Ages(T), size, lost)

IsFull(T) == options.i_automatic_rehash /\ T.i_items > 2 * T.i_size

\* The entries an iteration has still to return are safe: the table they are
\* in is not rehashed and has no limit.  (An insertion that fails or finds its
\* key changes nothing.)
SafeInsert ==
  iterator.p_entry = NULL \/ (options.bucket_limit = 0 /\ ~ IsFull(ht))

ght_insert(k, d) ==
  /\ ~ Found(ht, k) /\ SafeInsert
  /\ \E lost \in IF IsFull(ht) THEN SUBSET Range(Ages(ht)) ELSE {{}} :
       ht' = Place(IF IsFull(ht) THEN Rehash(ht, 2 * ht.i_size, lost) ELSE ht,
                   k, d, options.bucket_limit)
  /\ UNCHANGED << iterator, options, result >>

ght_get(k) ==
  /\ ht' = IF Found(ht, k) THEN Promote(ht, k) ELSE ht
  /\ result' = IF Found(ht, k) THEN ht.p_data[k] ELSE NoData
  /\ UNCHANGED << iterator, options >>

ght_replace(k, d) ==
  /\ Found(ht, k)
  /\ ht' = [Promote(ht, k) EXCEPT !.p_data[k] = d]
  /\ result' = ht.p_data[k]
  /\ UNCHANGED << iterator, options >>

\* A caller that iterates removes what it has been given only.
ght_remove(k) ==
  LET b == BucketOf(ht, k)
  IN  /\ Found(ht, k) /\ k \notin Range(Chain(iterator.p_next, ht.p_newer))
      /\ ht' = [Finalize(RemoveFromChain(ht, b, k), k)
                  EXCEPT !.i_items = @ - 1, !.p_nr[b] = @ - 1]
      /\ result' = ht.p_data[k]
      /\ UNCHANGED << iterator, options >>

\* first_keysize and next_keysize: the entry after p is read when p is reached.
MoveTo(p) ==
  /\ iterator' = [p_entry |-> p,
                  p_next |-> IF p = NULL THEN NULL ELSE ht.p_newer[p]]
  /\ result' = IF p = NULL THEN NoData ELSE ht.p_data[p]
  /\ UNCHANGED << ht, options >>

ght_first == MoveTo(ht.p_oldest)
ght_next  == iterator.p_entry # NULL /\ MoveTo(iterator.p_next)

\* ght_finalize; the next table is a new one.
ght_finalize ==
  /\ iterator.p_entry = NULL
  /\ ht' = Create(Size) /\ result' = NoData
  /\ UNCHANGED << iterator, options >>

Next ==
  \/ \E k \in Keys :
       \/ ght_get(k) \/ ght_remove(k)
       \/ \E d \in DataOf[k] : ght_insert(k, d) \/ ght_replace(k, d)
  \/ ght_first \/ ght_next \/ ght_finalize

Spec == Init /\ [][Next]_vars

----------------------------------------------------------------------------
(* Properties.                                                             *)

\* The entries of a list are linked back the way they are linked forth.
TwoWays(chain, back) ==
  \A i \in DOMAIN chain : back[chain[i]] = IF i = 1 THEN NULL ELSE chain[i-1]

\* The two lists and the counts tell one story, after whatever lookups,
\* evictions, removals and rehashes: every entry that is allocated is once in
\* the list of ages and once in its bucket, both lists are linked both ways,
\* and the counts are those of the lists.
ListsAgree ==
  LET live == {k \in Keys : ht.p_data[k] # NoData}
      ages == Ages(ht)
  IN  /\ Range(ages) = live /\ Len(ages) = ht.i_items /\ IsInjective(ages)
      /\ TwoWays(ages, ht.p_older)
      /\ ht.p_newest = IF ages = << >> THEN NULL ELSE Last(ages)
      /\ \A b \in 0..ht.i_size - 1 :
           /\ Range(Bucket(ht, b)) = {k \in live : BucketOf(ht, k) = b}
           /\ Len(Bucket(ht, b)) = ht.p_nr[b] /\ IsInjective(Bucket(ht, b))
           /\ TwoWays(Bucket(ht, b), ht.p_prev)

\* The entries from the oldest to the newest, and the keys that an iteration
\* has still to return.
Content ==
  LET ages == Ages(ht)
  IN  [i \in DOMAIN ages |-> [key |-> ages[i], data |-> ht.p_data[ages[i]]]]
Ahead == Chain(iterator.p_next, ht.p_newer)

\* The table is the map of CommonHashTable.h: it returns what was stored last
\* under a key, and an iteration returns every entry once, from the oldest to
\* the newest, while entries come and those already returned go.
Map == INSTANCE AgeOrderedMap WITH
  NoKey <- NULL, content <- Content, cursor <- iterator.p_entry, ahead <- Ahead

IsAgeOrderedMap == Map!MapSpec
=============================================================================
