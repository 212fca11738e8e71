---------------------------- MODULE AgeOrderedMap ----------------------------
(***************************************************************************)
(* What CommonHashTable.h promises the code that uses a ght_hash_table_t:  *)
(* a map from keys to data that keeps the entries in the order they were   *)
(* inserted in, and an iteration in that order that goes on while entries  *)
(* are inserted, and while entries it has already returned are removed.    *)
(***************************************************************************)
EXTENDS Naturals, Sequences, Functions

CONSTANTS Keys, Data, NoKey, NoData

VARIABLES
  content,  \* the entries, the oldest first
  cursor,   \* the key the iteration has reached, or NoKey
  ahead,    \* the keys the iteration has still to return, in order
  result    \* what the last call returned

mapVars == << content, cursor, ahead, result >>

Entries == Range(content)
Has(k)  == k \in {e.key : e \in Entries}

\* The data of k.
Value(k) == (CHOOSE e \in Entries : e.key = k).data

\* These are some of those entries, in the order of those.
AreSomeOf(these, those) ==
  /\ these \in Seq(Range(those))
  /\ \A i, j \in DOMAIN these : i < j =>
       \E m, n \in DOMAIN those : m < n /\ those[m] = these[i] /\ those[n] = these[j]

MapInit == content = << >> /\ cursor = NoKey /\ ahead = << >> /\ result = NoData

\* A new entry is the newest.  Others may be given up for it, by a bounded
\* bucket or by a rehash that finds no memory; never during an iteration.
\* An iteration under way may return the new entry or not.
Insert(k, d) ==
  LET entry == [key |-> k, data |-> d]
  IN  /\ UNCHANGED << cursor, result >>
      /\ ahead' \in IF cursor = NoKey THEN {ahead} ELSE {ahead, Append(ahead, k)}
      /\ ~ Has(k) /\ entry \in Range(content')
      /\ AreSomeOf(content', Append(content, entry))
      /\ cursor # NoKey => content' = Append(content, entry)

Get(k) ==
  /\ result' = IF Has(k) THEN Value(k) ELSE NoData
  /\ UNCHANGED << content, cursor, ahead >>

\* The new data takes the place of the old in the order.
Replace(k, d) ==
  /\ UNCHANGED << cursor, ahead >>
  /\ Has(k) /\ result' = Value(k)
  /\ content' = [i \in DOMAIN content |->
                   IF content[i].key = k THEN [content[i] EXCEPT !.data = d]
                                         ELSE content[i]]

Remove(k) ==
  /\ UNCHANGED << cursor, ahead >>
  /\ k \notin Range(ahead)
  /\ Has(k) /\ result' = Value(k)
  /\ AreSomeOf(content', content)
  /\ Range(content') = {e \in Entries : e.key # k}

Reach(keys) ==
  IF keys = << >>
  THEN cursor' = NoKey /\ ahead' = << >> /\ result' = NoData
  ELSE cursor' = Head(keys) /\ ahead' = Tail(keys) /\ result' = Value(Head(keys))

First == Reach([i \in DOMAIN content |-> content[i].key]) /\ UNCHANGED content

Next == cursor # NoKey /\ Reach(ahead) /\ UNCHANGED content

Clear ==
  /\ content' = << >> /\ result' = NoData
  /\ cursor = NoKey /\ UNCHANGED << cursor, ahead >>

MapNext ==
  \/ \E k \in Keys, d \in Data : Insert(k, d) \/ Replace(k, d)
  \/ \E k \in Keys : Get(k) \/ Remove(k)
  \/ First \/ Next \/ Clear

MapSpec == MapInit /\ [][MapNext]_mapVars
=============================================================================
