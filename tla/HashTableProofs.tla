--------------------------- MODULE HashTableProofs ---------------------------
(***************************************************************************)
(* Proofs about HashTable.  The links of a table are described by a set of *)
(* keys, an age of each and a position of each in its bucket: two entries  *)
(* are linked when no other is ranked between them.  An operation changes  *)
(* the set at one key and a rank at one key, and its lemma looks at the    *)
(* links around that key only.  The chains that recursion over the links   *)
(* yields are the enumerations of the set by its ranks, of which there is  *)
(* one (ChainEnumerates, EnumerationIsUnique); so nothing else is said of  *)
(* them by induction.                                                      *)
(***************************************************************************)
EXTENDS HashTable, Integers, FiniteSetTheorems, SequenceTheorems,
        WellFoundedInduction, TLAPS

\* What a link may be.
Links == Keys \cup {NULL}

----------------------------------------------------------------------------
(* Induction over the numbers, for a set.                                  *)

\* A set of numbers that is not empty has a least element.
LEMMA LeastNumber ==
  ASSUME NEW S \in SUBSET Nat, S # {}
  PROVE  \E n \in S : \A m \in S : n <= m
<1> DEFINE R == OpToRel(<, Nat)
<1> HIDE DEF R
<1>1. PICK n \in S : \A m \in S : ~ (<< m, n >> \in R)
  <2>1. IsWellFoundedOn(R, Nat)
    BY NatLessThanWellFounded DEF R
  <2>2. QED
    BY <2>1, WFMin
<1>2. \A m \in S : m < n => << m, n >> \in R
  <2> SUFFICES ASSUME NEW m \in S, m < n PROVE << m, n >> \in R
    OBVIOUS
  <2>1. << m, n >> \in Nat \X Nat /\ << m, n >>[1] < << m, n >>[2]
    OBVIOUS
  <2>2. QED
    BY <2>1, Zenon DEF R, OpToRel
<1>3. \A m \in S : ~ (m < n)
  BY <1>1, <1>2, Zenon
<1>4. \A m \in S : n <= m
  BY <1>3
<1>5. QED
  BY <1>4, Zenon

\* A set that has 0 and, with a number, the next, has all the numbers.
LEMMA SetInduction ==
  ASSUME NEW S, 0 \in S, \A n \in Nat : n \in S => n + 1 \in S
  PROVE  \A n \in Nat : n \in S
<1> DEFINE Bad == {n \in Nat : n \notin S}
<1> SUFFICES ASSUME Bad # {} PROVE FALSE
  OBVIOUS
<1>1. PICK n \in Bad : \A m \in Bad : n <= m
  BY LeastNumber
<1>2. n \in Nat /\ n # 0
  OBVIOUS
<1>3. n - 1 \in Nat /\ n - 1 \notin Bad
  BY <1>1, <1>2
<1>4. (n - 1) + 1 \in S
  BY <1>3
<1>5. QED
  BY <1>2, <1>4

----------------------------------------------------------------------------
(* Chains.                                                                 *)

\* The chains of at most n entries, from those of at most n - 1.
Longer(link, n, shorter) ==
  [q \in Links |->
     IF q = NULL \/ n = 0 THEN << >> ELSE << q >> \o shorter[link[q]]]

\* The recursive function of Chain exists.
LEMMA ChainRecursion ==
  ASSUME NEW link, NEW N \in Nat
  PROVE  \E f : f = [n \in 0..N |-> Longer(link, n, f[n-1])]
<1> DEFINE Good == {m \in Nat : \E f : f = [n \in 0..m |-> Longer(link, n, f[n-1])]}
<1>1. 0 \in Good
  <2> DEFINE f == [n \in 0..0 |-> [q \in Links |-> << >>]]
  <2>1. f = [n \in 0..0 |-> Longer(link, n, f[n-1])]
    BY DEF Longer
  <2>2. QED
    BY <2>1
<1>2. ASSUME NEW m \in Nat, m \in Good PROVE m + 1 \in Good
  <2>1. PICK f : f = [n \in 0..m |-> Longer(link, n, f[n-1])]
    BY <1>2
  <2> DEFINE g == [n \in 0..m+1 |-> IF n <= m THEN f[n] ELSE Longer(link, n, f[m])]
  <2>2. \A n \in 0..m : g[n] = f[n]
    OBVIOUS
  <2>3. g = [n \in 0..m+1 |-> Longer(link, n, g[n-1])]
    <3> SUFFICES ASSUME NEW n \in 0..m+1
                 PROVE  g[n] = Longer(link, n, g[n-1])
      OBVIOUS
    <3>1. CASE n <= m /\ n # 0
      <4>1. n - 1 \in 0..m /\ n \in 0..m
        BY <3>1
      <4>2. g[n-1] = f[n-1] /\ g[n] = f[n]
        BY <2>2, <4>1
      <4>3. f[n] = Longer(link, n, f[n-1])
        BY <2>1, <4>1
      <4>4. QED
        BY <4>2, <4>3
    <3>2. CASE n = m + 1
      <4>1. m \in 0..m /\ (m + 1) - 1 = m
        OBVIOUS
      <4>2. g[m] = f[m]
        BY <2>2, <4>1
      <4>3. g[m+1] = Longer(link, m + 1, f[m])
        OBVIOUS
      <4>4. QED
        BY <3>2, <4>1, <4>2, <4>3
    <3>3. CASE n = 0
      <4>1. g[0] = f[0] /\ f[0] = Longer(link, 0, f[0-1])
        BY <2>1, <2>2
      <4>2. \A r, s : Longer(link, 0, r) = Longer(link, 0, s)
        BY DEF Longer
      <4> HIDE DEF g
      <4>3. QED
        BY <3>3, <4>1, <4>2
    <3>4. QED
      BY <3>1, <3>2, <3>3
  <2> HIDE DEF g
  <2>4. m + 1 \in Nat
    OBVIOUS
  <2>5. QED
    BY <2>3, <2>4, Zenon
<1> HIDE DEF Good
<1>3. N \in Good
  BY <1>1, <1>2, SetInduction
<1>4. QED
  BY <1>3 DEF Good

\* What the recursive function of Chain does.
LEMMA ChainIsRecursive ==
  ASSUME IsFiniteSet(Keys), NEW link
  PROVE  \E f : /\ \A p : Chain(p, link) = f[Cardinality(Keys) + 1][p]
                /\ \A n \in 0..Cardinality(Keys) + 1 : \A q \in Links :
                     f[n][q] = IF q = NULL \/ n = 0 THEN << >>
                               ELSE << q >> \o f[n-1][link[q]]
<1> DEFINE N == Cardinality(Keys) + 1
           f == CHOOSE f : f = [n \in 0..N |-> Longer(link, n, f[n-1])]
<1>1. N \in Nat
  BY FS_CardinalityType
<1> HIDE DEF N
<1>2. f = [n \in 0..N |-> Longer(link, n, f[n-1])]
  BY <1>1, ChainRecursion
<1>3. \A p : Chain(p, link) = f[N][p]
  BY DEF N, Chain, Longer, Links
<1> HIDE DEF f
<1>4. ASSUME NEW n \in 0..N, NEW q \in Links
      PROVE  f[n][q] = IF q = NULL \/ n = 0 THEN << >> ELSE << q >> \o f[n-1][link[q]]
  <2>1. f[n] = Longer(link, n, f[n-1])
    BY <1>2
  <2>2. QED
    BY <2>1 DEF Longer
<1>5. QED
  BY <1>3, <1>4 DEF N

----------------------------------------------------------------------------
(* Lists.  A list is described by the set of its entries and by a rank     *)
(* that orders them.                                                       *)

\* There is no entry between j and k; NULL stands for both ends.
Adjacent(S, rank, j, k) ==
  /\ j \in S \cup {NULL} /\ k \in S \cup {NULL}
  /\ j # NULL /\ k # NULL => rank[j] < rank[k]
  /\ \A i \in S : \/ j # NULL /\ rank[i] <= rank[j]
                  \/ k # NULL /\ rank[k] <= rank[i]

\* The entries of S are linked both ways by their rank.
Linked(S, first, next, prev, rank) ==
  /\ \A j, k \in S : rank[j] = rank[k] => j = k
  /\ Adjacent(S, rank, NULL, first)
  /\ \A k \in S : Adjacent(S, rank, k, next[k]) /\ Adjacent(S, rank, prev[k], k)

\* The sequence has the elements of S by their rank.
Enumerates(s, S, rank) ==
  /\ s \in Seq(S)
  /\ \A i, j \in 1..Len(s) : i < j => rank[s[i]] < rank[s[j]]
  /\ \A k \in S : \E i \in 1..Len(s) : s[i] = k

\* The entries of S from p on.
From(S, rank, p) == {k \in S : p # NULL /\ rank[p] <= rank[k]}

\* The entries from p on are p and those from its successor on.
LEMMA FromNext ==
  ASSUME NULL \notin Keys, NEW S \in SUBSET Keys, NEW rank \in [Keys -> Int],
         NEW first, NEW next, NEW prev, Linked(S, first, next, prev, rank),
         NEW p \in S
  PROVE  /\ next[p] \in S \cup {NULL}
         /\ From(S, rank, p) = {p} \cup From(S, rank, next[p])
         /\ \A k \in From(S, rank, next[p]) : rank[p] < rank[k]
<1>1. Adjacent(S, rank, p, next[p]) /\ p # NULL
  BY DEF Linked
<1>2. \A k \in S : rank[k] = rank[p] => k = p
  BY DEF Linked
<1>3. \A k \in S : rank[k] \in Int
  OBVIOUS
<1>4. next[p] \in S \cup {NULL}
  BY <1>1 DEF Adjacent
<1>5. CASE next[p] = NULL
  <2>1. \A k \in S : rank[k] <= rank[p]
    BY <1>1, <1>5 DEF Adjacent
  <2>2. From(S, rank, p) = {p}
    BY <1>1, <1>2, <1>3, <2>1 DEF From
  <2>3. From(S, rank, next[p]) = {}
    BY <1>5 DEF From
  <2>4. QED
    BY <1>4, <2>2, <2>3
<1>6. CASE next[p] # NULL
  <2>1. rank[p] < rank[next[p]]
    BY <1>1, <1>6 DEF Adjacent
  <2>2. \A k \in S : rank[k] <= rank[p] \/ rank[next[p]] <= rank[k]
    BY <1>1, <1>6 DEF Adjacent
  <2>3. \A k \in From(S, rank, next[p]) : rank[p] < rank[k] /\ k \in S
    BY <1>3, <1>4, <1>6, <2>1 DEF From
  <2>4. \A k \in S : k \in From(S, rank, p) <=> k = p \/ k \in From(S, rank, next[p])
    BY <1>1, <1>2, <1>3, <1>4, <1>6, <2>1, <2>2 DEF From
  <2>5. From(S, rank, p) \subseteq S /\ From(S, rank, next[p]) \subseteq S
    BY DEF From
  <2>6. QED
    BY <1>4, <2>3, <2>4, <2>5
<1>7. QED
  BY <1>5, <1>6

\* An enumeration is extended in front.
LEMMA EnumeratesCons ==
  ASSUME NEW S, NEW rank, NEW s, NEW p,
         Enumerates(s, S, rank), \A k \in S : rank[p] < rank[k]
  PROVE  Enumerates(<< p >> \o s, {p} \cup S, rank)
<1> DEFINE U == {p} \cup S
           t == << p >> \o s
<1>1. s \in Seq(S) /\ Len(s) \in Nat
  BY DEF Enumerates
<1>2. << p >> \in Seq(U) /\ s \in Seq(U) /\ Len(<< p >>) = 1 /\ << p >>[1] = p
  BY <1>1, SeqMonotonic
<1>3. /\ t \in Seq(U) /\ Len(t) = 1 + Len(s)
      /\ \A i \in 1..1 + Len(s) : t[i] = IF i <= 1 THEN << p >>[i] ELSE s[i - 1]
  BY <1>2, ConcatProperties
<1> HIDE DEF t, U
<1>4. t[1] = p
  BY <1>1, <1>2, <1>3
<1>5. \A i \in 2..Len(t) : t[i] = s[i-1] /\ i - 1 \in 1..Len(s) /\ s[i-1] \in S
  BY <1>1, <1>3, ElementOfSeq
<1>6. ASSUME NEW i \in 1..Len(t), NEW j \in 1..Len(t), i < j
      PROVE  rank[t[i]] < rank[t[j]]
  <2>1. CASE i = 1
    <3>1. j \in 2..Len(t)
      BY <1>6, <2>1, <1>3
    <3>2. t[j] \in S
      BY <1>5, <3>1
    <3>3. QED
      BY <1>4, <2>1, <3>2
  <2>2. CASE i # 1
    <3>1. i \in 2..Len(t) /\ j \in 2..Len(t) /\ i - 1 < j - 1
      BY <1>6, <2>2, <1>3, <1>1
    <3>2. i - 1 \in 1..Len(s) /\ j - 1 \in 1..Len(s) /\ t[i] = s[i-1] /\ t[j] = s[j-1]
      BY <1>5, <3>1
    <3>3. QED
      BY <3>1, <3>2 DEF Enumerates
  <2>3. QED
    BY <2>1, <2>2
<1>7. ASSUME NEW k \in U PROVE \E i \in 1..Len(t) : t[i] = k
  <2>1. CASE k = p
    BY <1>1, <1>3, <1>4, <2>1
  <2>2. CASE k \in S
    <3>1. PICK i \in 1..Len(s) : s[i] = k
      BY <2>2 DEF Enumerates
    <3>2. i + 1 \in 2..Len(t) /\ (i + 1) - 1 = i /\ i + 1 \in 1..Len(t)
      BY <1>1, <1>3
    <3>3. QED
      BY <1>5, <3>1, <3>2
  <2>3. QED
    BY <2>1, <2>2 DEF U
<1>8. QED
  BY <1>3, <1>6, <1>7 DEF Enumerates, t, U

\* A chain has the entries from its start on, by their rank.
LEMMA ChainEnumerates ==
  ASSUME NULL \notin Keys, IsFiniteSet(Keys),
         NEW S \in SUBSET Keys, NEW rank \in [Keys -> Int],
         NEW first, NEW next, NEW prev, Linked(S, first, next, prev, rank),
         NEW p \in S \cup {NULL}
  PROVE  Enumerates(Chain(p, next), From(S, rank, p), rank)
<1> DEFINE N == Cardinality(Keys) + 1
<1>1. PICK f : /\ \A q : Chain(q, next) = f[N][q]
               /\ \A n \in 0..N : \A q \in Links :
                     f[n][q] = IF q = NULL \/ n = 0 THEN << >>
                               ELSE << q >> \o f[n-1][next[q]]
  BY ChainIsRecursive
<1> DEFINE Card(q) == Cardinality(From(S, rank, q))
           Good == {n \in Nat : n <= N => \A q \in S \cup {NULL} :
                      Card(q) <= n => Enumerates(f[n][q], From(S, rank, q), rank)}
<1>2. N \in Nat /\ \A q : IsFiniteSet(From(S, rank, q)) /\ Card(q) \in Nat /\ Card(q) < N
  <2>1. \A q : From(S, rank, q) \in SUBSET Keys
    BY DEF From
  <2>2. \A q : IsFiniteSet(From(S, rank, q)) /\ Card(q) <= Cardinality(Keys)
    BY <2>1, FS_Subset
  <2>3. Cardinality(Keys) \in Nat /\ \A q : Card(q) \in Nat
    BY <2>2, FS_CardinalityType
  <2>4. QED
    BY <2>2, <2>3
<1> HIDE DEF N, Card
<1>3. ASSUME NEW n \in 0..N PROVE Enumerates(f[n][NULL], From(S, rank, NULL), rank)
  <2>1. f[n][NULL] = << >>
    BY <1>1 DEF Links
  <2>2. From(S, rank, NULL) = {}
    BY DEF From
  <2>3. << >> \in Seq({}) /\ Len(<< >>) = 0
    BY EmptySeq
  <2>4. QED
    BY <2>1, <2>2, <2>3 DEF Enumerates
<1>4. 0 \in Good
  <2> SUFFICES ASSUME NEW q \in S, Card(q) <= 0 PROVE FALSE
    BY <1>2, <1>3
  <2>1. From(S, rank, q) = {}
    BY <1>2, FS_EmptySet DEF Card
  <2>2. q \in From(S, rank, q)
    BY FromNext
  <2>3. QED
    BY <2>1, <2>2
<1>5. ASSUME NEW n \in Nat, n \in Good PROVE n + 1 \in Good
  <2> SUFFICES ASSUME n + 1 <= N, NEW q \in S, Card(q) <= n + 1
               PROVE  Enumerates(f[n+1][q], From(S, rank, q), rank)
    BY <1>2, <1>3
  <2> DEFINE r == next[q]
  <2>1. /\ r \in S \cup {NULL}
        /\ From(S, rank, q) = {q} \cup From(S, rank, r)
        /\ \A k \in From(S, rank, r) : rank[q] < rank[k]
    BY FromNext
  <2>2. q \notin From(S, rank, r)
    BY <2>1, rank[q] \in Int
  <2>3. Card(q) = Card(r) + 1
    <3> DEFINE U == From(S, rank, r)
    <3>1. IsFiniteSet(U) /\ q \notin U /\ From(S, rank, q) = U \cup {q}
      BY <1>2, <2>1, <2>2
    <3> HIDE DEF U
    <3>2. Cardinality(U \cup {q}) = Cardinality(U) + 1
      BY <3>1, FS_AddElement
    <3>3. QED
      BY <3>1, <3>2 DEF Card, U
  <2>4. Card(r) <= n /\ n <= N
    BY <1>2, <2>3
  <2>5. Enumerates(f[n][r], From(S, rank, r), rank)
    BY <1>5, <2>1, <2>4
  <2>6. f[n+1][q] = << q >> \o f[n][r]
    <3>1. n + 1 \in 0..N /\ n + 1 # 0 /\ (n + 1) - 1 = n /\ q \in Links /\ q # NULL
      BY <1>2 DEF Links
    <3>2. QED
      BY <1>1, <3>1
  <2> HIDE DEF r
  <2>7. QED
    BY <2>1, <2>5, <2>6, EnumeratesCons
<1> HIDE DEF Good
<1>6. N \in Good
  BY <1>2, <1>4, <1>5, SetInduction
<1>7. Enumerates(f[N][p], From(S, rank, p), rank)
  BY <1>2, <1>6 DEF Good
<1>8. QED
  BY <1>1, <1>7

\* A set has one enumeration only.
LEMMA EnumerationIsUnique ==
  ASSUME NEW S, NEW rank, \A k \in S : rank[k] \in Int,
         NEW s, NEW t, Enumerates(s, S, rank), Enumerates(t, S, rank)
  PROVE  s = t
<1>1. s \in Seq(S) /\ t \in Seq(S) /\ Len(s) \in Nat /\ Len(t) \in Nat
  BY DEF Enumerates
<1>2. \A i \in 1..Len(s) : s[i] \in S
  BY <1>1, ElementOfSeq
<1>3. \A i \in 1..Len(t) : t[i] \in S
  BY <1>1, ElementOfSeq
<1> DEFINE Good == {n \in Nat : \A i \in 1..n :
                      /\ i \in 1..Len(s) <=> i \in 1..Len(t)
                      /\ i \in 1..Len(s) => s[i] = t[i]}
<1>4. 0 \in Good
  OBVIOUS
<1>5. ASSUME NEW n \in Nat, n \in Good PROVE n + 1 \in Good
  <2>1. \A i \in 1..n : /\ i \in 1..Len(s) <=> i \in 1..Len(t)
                        /\ i \in 1..Len(s) => s[i] = t[i]
    BY <1>5
  <2>2. ASSUME n + 1 \in 1..Len(s)
        PROVE  n + 1 \in 1..Len(t) /\ rank[t[n+1]] <= rank[s[n+1]]
    <3>1. PICK j \in 1..Len(t) : t[j] = s[n+1]
      BY <1>2, <2>2 DEF Enumerates
    <3>2. ~ (j <= n)
      <4> SUFFICES ASSUME j <= n PROVE FALSE
        OBVIOUS
      <4>1. j \in 1..n /\ j \in 1..Len(s) /\ s[j] = t[j] /\ j < n + 1
        BY <2>1
      <4>2. rank[s[j]] < rank[s[n+1]]
        BY <2>2, <4>1 DEF Enumerates
      <4>3. QED
        BY <1>2, <2>2, <3>1, <4>1, <4>2
    <3>3. n + 1 \in 1..Len(t) /\ (j = n + 1 \/ n + 1 < j)
      BY <1>1, <3>2
    <3>4. n + 1 < j => rank[t[n+1]] < rank[t[j]]
      BY <3>3 DEF Enumerates
    <3>5. rank[t[n+1]] \in Int /\ rank[t[j]] \in Int
      BY <1>3, <3>3
    <3>6. QED
      BY <3>1, <3>3, <3>4, <3>5
  <2>3. ASSUME n + 1 \in 1..Len(t)
        PROVE  n + 1 \in 1..Len(s) /\ rank[s[n+1]] <= rank[t[n+1]]
    <3>1. PICK j \in 1..Len(s) : s[j] = t[n+1]
      BY <1>3, <2>3 DEF Enumerates
    <3>2. ~ (j <= n)
      <4> SUFFICES ASSUME j <= n PROVE FALSE
        OBVIOUS
      <4>1. j \in 1..n /\ j \in 1..Len(t) /\ s[j] = t[j] /\ j < n + 1
        BY <2>1
      <4>2. rank[t[j]] < rank[t[n+1]]
        BY <2>3, <4>1 DEF Enumerates
      <4>3. QED
        BY <1>3, <2>3, <3>1, <4>1, <4>2
    <3>3. n + 1 \in 1..Len(s) /\ (j = n + 1 \/ n + 1 < j)
      BY <1>1, <3>2
    <3>4. n + 1 < j => rank[s[n+1]] < rank[s[j]]
      BY <3>3 DEF Enumerates
    <3>5. rank[s[n+1]] \in Int /\ rank[s[j]] \in Int
      BY <1>2, <3>3
    <3>6. QED
      BY <3>1, <3>3, <3>4, <3>5
  <2>4. n + 1 \in 1..Len(s) => s[n+1] = t[n+1]
    <3> SUFFICES ASSUME n + 1 \in 1..Len(s) PROVE s[n+1] = t[n+1]
      OBVIOUS
    <3>1. n + 1 \in 1..Len(t) /\ rank[t[n+1]] <= rank[s[n+1]]
      BY <2>2
    <3>2. rank[s[n+1]] <= rank[t[n+1]]
      BY <2>3, <3>1
    <3>3. s[n+1] \in S /\ t[n+1] \in S
      BY <1>2, <1>3, <3>1
    <3>4. rank[s[n+1]] = rank[t[n+1]]
      BY <3>1, <3>2, <3>3
    <3>5. PICK j \in 1..Len(t) : t[j] = s[n+1]
      BY <3>3 DEF Enumerates
    <3>6. ~ (j < n + 1) /\ ~ (n + 1 < j)
      <4>1. j < n + 1 => rank[t[j]] < rank[t[n+1]]
        BY <3>1 DEF Enumerates
      <4>2. n + 1 < j => rank[t[n+1]] < rank[t[j]]
        BY <3>1 DEF Enumerates
      <4>3. QED
        BY <3>3, <3>4, <3>5, <4>1, <4>2
    <3>7. j = n + 1
      BY <3>6
    <3>8. QED
      BY <3>5, <3>7
  <2>5. ASSUME NEW i \in 1..n+1
        PROVE  /\ i \in 1..Len(s) <=> i \in 1..Len(t)
               /\ i \in 1..Len(s) => s[i] = t[i]
    BY <2>1, <2>2, <2>3, <2>4
  <2>6. n + 1 \in Nat
    OBVIOUS
  <2>7. QED
    BY <2>5, <2>6
<1> HIDE DEF Good
<1>6. \A n \in Nat : n \in Good
  BY <1>4, <1>5, SetInduction
<1>7. \A i \in Nat \ {0} : /\ i \in 1..Len(s) <=> i \in 1..Len(t)
                           /\ i \in 1..Len(s) => s[i] = t[i]
  BY <1>6 DEF Good
<1>8. Len(s) = Len(t)
  BY <1>1, <1>7
<1>9. QED
  BY <1>1, <1>7, <1>8, SeqEqual

\* What an enumeration of a set by an injective rank tells of the set.
LEMMA EnumerationProperties ==
  ASSUME NEW S, NEW rank, \A k \in S : rank[k] \in Int,
         NEW s, Enumerates(s, S, rank)
  PROVE  /\ s \in Seq(S) /\ Len(s) \in Nat /\ DOMAIN s = 1..Len(s)
         /\ \A i \in 1..Len(s) : s[i] \in S
         /\ Range(s) = S /\ IsInjective(s)
         /\ Cardinality(S) = Len(s)
         /\ (s = << >> <=> S = {})
<1>1. s \in Seq(S) /\ Len(s) \in Nat /\ DOMAIN s = 1..Len(s) /\ s \in [1..Len(s) -> S]
  BY LenProperties DEF Enumerates
<1>2. \A i \in 1..Len(s) : s[i] \in S
  BY <1>1
<1>3. \A k \in S : \E i \in 1..Len(s) : s[i] = k
  BY DEF Enumerates
<1>4. Range(s) = S
  BY <1>1, <1>2, <1>3 DEF Range
<1>5. \A i, j \in 1..Len(s) : s[i] = s[j] => i = j
  <2> SUFFICES ASSUME NEW i \in 1..Len(s), NEW j \in 1..Len(s), s[i] = s[j], i # j
               PROVE  FALSE
    OBVIOUS
  <2>1. i < j => rank[s[i]] < rank[s[j]]
    BY DEF Enumerates
  <2>2. j < i => rank[s[j]] < rank[s[i]]
    BY DEF Enumerates
  <2>3. rank[s[i]] \in Int /\ rank[s[j]] \in Int
    BY <1>2
  <2>4. QED
    BY <2>1, <2>2, <2>3
<1>6. IsInjective(s)
  BY <1>1, <1>5 DEF IsInjective
<1>7. Cardinality(S) = Len(s)
  <2>1. s \in Injection(1..Len(s), S)
    BY <1>1, <1>6 DEF Injection
  <2>2. s \in Surjection(1..Len(s), S)
    BY <1>1, <1>3 DEF Surjection
  <2>3. ExistsBijection(1..Len(s), S)
    BY <2>1, <2>2 DEF Bijection, ExistsBijection
  <2>4. QED
    BY <1>1, <2>3, FS_CountingElements
<1>8. s = << >> <=> S = {}
  <2>1. ASSUME S = {} PROVE s = << >>
    <3>1. Len(s) = 0
      BY <1>1, <1>2, <2>1
    <3>2. QED
      BY <1>1, <3>1, EmptySeq, SeqEqual
  <2>2. ASSUME s = << >> PROVE S = {}
    BY <1>3, <2>2
  <2>3. QED
    BY <2>1, <2>2
<1>9. QED
  BY <1>1, <1>2, <1>4, <1>6, <1>7, <1>8

\* The last of an enumeration has the greatest rank.
LEMMA LastOfEnumeration ==
  ASSUME NEW S, S # {}, NEW rank, \A k \in S : rank[k] \in Int,
         NEW s, Enumerates(s, S, rank)
  PROVE  /\ Last(s) \in S /\ Last(s) = s[Len(s)] /\ Len(s) \in Nat \ {0}
         /\ \A k \in S : rank[k] <= rank[Last(s)]
<1>1. /\ s \in Seq(S) /\ Len(s) \in Nat /\ s # << >>
      /\ \A i \in 1..Len(s) : s[i] \in S
  BY EnumerationProperties
<1>2. Len(s) \in Nat \ {0} /\ Last(s) = s[Len(s)]
  BY <1>1, EmptySeq DEF Last
<1>3. Last(s) \in S
  BY <1>1, <1>2
<1>4. ASSUME NEW k \in S PROVE rank[k] <= rank[Last(s)]
  <2>1. PICK i \in 1..Len(s) : s[i] = k
    BY DEF Enumerates
  <2>2. i = Len(s) \/ i < Len(s)
    BY <1>2
  <2>3. i < Len(s) => rank[s[i]] < rank[s[Len(s)]]
    BY <1>2 DEF Enumerates
  <2>4. QED
    BY <1>2, <1>3, <2>1, <2>2, <2>3
<1>5. QED
  BY <1>2, <1>3, <1>4

\* A list starts with its first entry.
LEMMA FromFirst ==
  ASSUME NULL \notin Keys, NEW S \in SUBSET Keys, NEW rank \in [Keys -> Int],
         NEW first, NEW next, NEW prev, Linked(S, first, next, prev, rank)
  PROVE  first \in S \cup {NULL} /\ From(S, rank, first) = S
<1>1. Adjacent(S, rank, NULL, first)
  BY DEF Linked
<1>2. QED
  BY <1>1 DEF Adjacent, From

\* What the chain of a list is.
LEMMA ChainOfList ==
  ASSUME NULL \notin Keys, IsFiniteSet(Keys),
         NEW S \in SUBSET Keys, NEW rank \in [Keys -> Int],
         NEW first, NEW next, NEW prev, Linked(S, first, next, prev, rank)
  PROVE  /\ Enumerates(Chain(first, next), S, rank)
         /\ Range(Chain(first, next)) = S /\ IsInjective(Chain(first, next))
         /\ Len(Chain(first, next)) = Cardinality(S)
         /\ TwoWays(Chain(first, next), prev)
         /\ (Chain(first, next) = << >> <=> S = {})
<1> DEFINE s == Chain(first, next)
<1>1. Enumerates(s, S, rank)
  BY FromFirst, ChainEnumerates
<1> HIDE DEF s
<1>2. \A k \in S : rank[k] \in Int /\ k # NULL
  OBVIOUS
<1>3. /\ s \in Seq(S) /\ Len(s) \in Nat /\ DOMAIN s = 1..Len(s)
      /\ \A i \in 1..Len(s) : s[i] \in S
      /\ Range(s) = S /\ IsInjective(s) /\ (s = << >> <=> S = {})
      /\ Cardinality(S) = Len(s)
  BY <1>1, <1>2, EnumerationProperties
<1>4. ASSUME NEW i \in 1..Len(s) PROVE prev[s[i]] = IF i = 1 THEN NULL ELSE s[i-1]
  <2> DEFINE e == s[i]
             p == prev[e]
  <2>1. e \in S /\ Adjacent(S, rank, p, e)
    BY <1>3 DEF Linked
  <2>2. /\ p \in S \cup {NULL} /\ (p # NULL => rank[p] < rank[e])
        /\ \A j \in S : (p # NULL /\ rank[j] <= rank[p]) \/ rank[e] <= rank[j]
    BY <1>2, <2>1 DEF Adjacent
  <2>3. \A j \in 1..Len(s) : j < i => rank[s[j]] < rank[e]
    BY <1>1 DEF Enumerates
  <2>4. \A j \in 1..Len(s) : i < j => rank[e] < rank[s[j]]
    BY <1>1 DEF Enumerates
  <2>5. CASE p = NULL
    <3>1. i = 1
      <4> SUFFICES ASSUME i # 1 PROVE FALSE
        OBVIOUS
      <4>1. i - 1 \in 1..Len(s) /\ i - 1 < i
        BY <1>3
      <4>2. s[i-1] \in S /\ rank[s[i-1]] < rank[e]
        BY <1>3, <2>3, <4>1
      <4>3. rank[e] <= rank[s[i-1]]
        BY <2>2, <2>5, <4>2
      <4> HIDE DEF e
      <4>4. QED
        BY <1>2, <2>1, <4>2, <4>3
    <3>2. QED
      BY <2>5, <3>1
  <2>6. CASE p # NULL
    <3>1. p \in S /\ rank[p] < rank[e]
      BY <2>2, <2>6
    <3>2. PICK j \in 1..Len(s) : s[j] = p
      BY <1>1, <3>1 DEF Enumerates
    <3> HIDE DEF e, p
    <3>3. j < i
      <4>1. i < j => rank[e] < rank[p]
        BY <2>4, <3>2
      <4>2. j # i
        BY <1>2, <2>1, <3>1, <3>2 DEF e
      <4>3. ~ (i < j)
        BY <1>2, <2>1, <3>1, <4>1
      <4>4. QED
        BY <1>3, <4>2, <4>3
    <3>4. j = i - 1
      <4> SUFFICES ASSUME j # i - 1 PROVE FALSE
        OBVIOUS
      <4>1. i - 1 \in 1..Len(s) /\ j < i - 1 /\ i - 1 < i
        BY <1>3, <3>3
      <4>2. s[i-1] \in S /\ rank[s[i-1]] < rank[e]
        BY <1>3, <2>3, <4>1
      <4>3. rank[p] < rank[s[i-1]]
        BY <1>1, <3>2, <4>1 DEF Enumerates
      <4>4. rank[s[i-1]] <= rank[p] \/ rank[e] <= rank[s[i-1]]
        BY <2>2, <4>2
      <4>5. QED
        BY <1>2, <2>1, <3>1, <4>2, <4>3, <4>4
    <3>5. i # 1 /\ s[i-1] = p
      BY <1>3, <3>2, <3>3, <3>4
    <3>6. QED
      BY <3>5 DEF e, p
  <2>7. QED
    BY <2>5, <2>6
<1>5. TwoWays(s, prev)
  BY <1>3, <1>4 DEF TwoWays
<1>6. QED
  BY <1>1, <1>3, <1>5 DEF s

----------------------------------------------------------------------------
(* The operations on one list.                                             *)

\* Adjacent entries determine each other.
LEMMA AdjacentIsUnique ==
  ASSUME NULL \notin Keys, NEW S \in SUBSET Keys, NEW rank \in [Keys -> Int],
         \A j, k \in S : rank[j] = rank[k] => j = k,
         NEW i, NEW j, NEW k
  PROVE  /\ Adjacent(S, rank, i, k) /\ Adjacent(S, rank, j, k) => i = j
         /\ Adjacent(S, rank, k, i) /\ Adjacent(S, rank, k, j) => i = j
<1>1. \A x \in S : rank[x] \in Int /\ x # NULL
  OBVIOUS
<1>2. ASSUME Adjacent(S, rank, i, k), Adjacent(S, rank, j, k) PROVE i = j
  BY <1>1, <1>2 DEF Adjacent
<1>3. ASSUME Adjacent(S, rank, k, i), Adjacent(S, rank, k, j) PROVE i = j
  BY <1>1, <1>3 DEF Adjacent
<1>4. QED
  BY <1>2, <1>3

\* A list is not changed by what happens to the links or the ranks of others.
LEMMA ListFrame ==
  ASSUME NULL \notin Keys, NEW S \in SUBSET Keys, NEW rank,
         NEW first, NEW next, NEW prev, NEW next2, NEW prev2,
         Linked(S, first, next, prev, rank),
         \A k \in S : next2[k] = next[k] /\ prev2[k] = prev[k]
  PROVE  Linked(S, first, next2, prev2, rank)
BY DEF Linked

\* A list is the same by ranks that agree on its entries.
LEMMA RankFrame ==
  ASSUME NULL \notin Keys, NEW S \in SUBSET Keys, NEW rank, NEW rank2,
         \A k \in S : rank2[k] = rank[k]
  PROVE  /\ \A j, k : Adjacent(S, rank, j, k) => Adjacent(S, rank2, j, k)
         /\ \A first, next, prev :
              Linked(S, first, next, prev, rank) => Linked(S, first, next, prev, rank2)
<1>1. \A j, k : Adjacent(S, rank, j, k) => Adjacent(S, rank2, j, k)
  BY DEF Adjacent
<1>2. QED
  BY <1>1 DEF Linked

\* The entries before and after one that goes become adjacent.
LEMMA AdjacentWithout ==
  ASSUME NULL \notin Keys, NEW S \in SUBSET Keys, NEW rank \in [Keys -> Int],
         \A j, k \in S : rank[j] = rank[k] => j = k,
         NEW e \in S, NEW i, NEW j
  PROVE  /\ Adjacent(S, rank, i, e) /\ Adjacent(S, rank, e, j)
              => Adjacent(S \ {e}, rank, i, j)
         /\ Adjacent(S, rank, i, j) /\ i # e /\ j # e
              => Adjacent(S \ {e}, rank, i, j)
<1>1. \A x \in S : rank[x] \in Int /\ x # NULL
  OBVIOUS
<1>2. ASSUME Adjacent(S, rank, i, e), Adjacent(S, rank, e, j)
      PROVE  Adjacent(S \ {e}, rank, i, j)
  BY <1>1, <1>2 DEF Adjacent
<1>3. ASSUME Adjacent(S, rank, i, j), i # e, j # e
      PROVE  Adjacent(S \ {e}, rank, i, j)
  BY <1>3 DEF Adjacent
<1>4. QED
  BY <1>2, <1>3

\* The second list is the first one without e.
IsRemoval(S, e, first, next, prev, first2, next2, prev2) ==
  /\ prev[e] = NULL => first2 = next[e]
  /\ prev[e] # NULL => first2 = first
  /\ \A k \in S \ {e} : /\ k = prev[e] => next2[k] = next[e]
                        /\ k # prev[e] => next2[k] = next[k]
                        /\ k = next[e] => prev2[k] = prev[e]
                        /\ k # next[e] => prev2[k] = prev[k]

\* e is taken out of a list.
LEMMA ListRemove ==
  ASSUME NULL \notin Keys, NEW S \in SUBSET Keys, NEW rank \in [Keys -> Int],
         NEW first, NEW next, NEW prev, NEW first2, NEW next2, NEW prev2,
         Linked(S, first, next, prev, rank), NEW e \in S,
         IsRemoval(S, e, first, next, prev, first2, next2, prev2)
  PROVE  Linked(S \ {e}, first2, next2, prev2, rank)
<1> DEFINE U == S \ {e}
<1>0. (prev[e] = NULL => first2 = next[e]) /\ (prev[e] # NULL => first2 = first)
  BY DEF IsRemoval
<1>1. \A j, k \in S : rank[j] = rank[k] => j = k
  BY DEF Linked
<1>2. Adjacent(S, rank, prev[e], e) /\ Adjacent(S, rank, e, next[e])
  BY DEF Linked
<1>3. Adjacent(U, rank, prev[e], next[e])
  BY <1>1, <1>2, AdjacentWithout
<1>4. Adjacent(U, rank, NULL, first2)
  <2>1. CASE prev[e] = NULL
    BY <1>0, <1>3, <2>1
  <2>2. CASE prev[e] # NULL
    <3>1. Adjacent(S, rank, NULL, first)
      BY DEF Linked
    <3>2. first # e /\ NULL # e
      BY <1>1, <1>2, <2>2, <3>1, AdjacentIsUnique
    <3>3. QED
      BY <1>0, <1>1, <2>2, <3>1, <3>2, AdjacentWithout
  <2>3. QED
    BY <2>1, <2>2
<1>5. ASSUME NEW k \in S, k # e PROVE Adjacent(U, rank, k, next2[k])
  <2>0. (k = prev[e] => next2[k] = next[e]) /\ (k # prev[e] => next2[k] = next[k])
    BY <1>5 DEF IsRemoval
  <2>1. Adjacent(S, rank, k, next[k])
    BY DEF Linked
  <2>2. CASE k = prev[e]
    BY <1>3, <2>0, <2>2
  <2>3. CASE k # prev[e]
    <3>1. next[k] # e
      BY <1>5, <1>1, <1>2, <2>1, <2>3, AdjacentIsUnique
    <3>2. QED
      BY <1>5, <1>1, <2>0, <2>1, <2>3, <3>1, AdjacentWithout
  <2>4. QED
    BY <2>2, <2>3
<1>6. ASSUME NEW k \in S, k # e PROVE Adjacent(U, rank, prev2[k], k)
  <2>0. (k = next[e] => prev2[k] = prev[e]) /\ (k # next[e] => prev2[k] = prev[k])
    BY <1>6 DEF IsRemoval
  <2>1. Adjacent(S, rank, prev[k], k)
    BY DEF Linked
  <2>2. CASE k = next[e]
    BY <1>3, <2>0, <2>2
  <2>3. CASE k # next[e]
    <3>1. prev[k] # e
      BY <1>6, <1>1, <1>2, <2>1, <2>3, AdjacentIsUnique
    <3>2. QED
      BY <1>6, <1>1, <2>0, <2>1, <2>3, <3>1, AdjacentWithout
  <2>4. QED
    BY <2>2, <2>3
<1>7. QED
  BY <1>1, <1>4, <1>5, <1>6 DEF Linked

\* The end of a list from which e is taken.
LEMMA ListRemoveLast ==
  ASSUME NULL \notin Keys, NEW S \in SUBSET Keys, NEW rank \in [Keys -> Int],
         NEW first, NEW next, NEW prev, NEW last, NEW last2,
         Linked(S, first, next, prev, rank), NEW e \in S,
         Adjacent(S, rank, last, NULL),
         next[e] = NULL => last2 = prev[e], next[e] # NULL => last2 = last
  PROVE  Adjacent(S \ {e}, rank, last2, NULL)
<1>1. \A j, k \in S : rank[j] = rank[k] => j = k
  BY DEF Linked
<1>2. Adjacent(S, rank, prev[e], e) /\ Adjacent(S, rank, e, next[e])
  BY DEF Linked
<1>3. CASE next[e] = NULL
  BY <1>1, <1>2, <1>3, AdjacentWithout
<1>4. CASE next[e] # NULL
  <2>1. last # e /\ NULL # e
    BY <1>1, <1>2, <1>4, AdjacentIsUnique
  <2>2. QED
    BY <1>1, <1>4, <2>1, AdjacentWithout
<1>5. QED
  BY <1>3, <1>4

\* The second list is the first one with k before it.
IsPushFront(S, k, first, next, prev, next2, prev2) ==
  /\ next2[k] = first /\ prev2[k] = NULL
  /\ first # NULL => prev2[first] = k
  /\ \A j \in S : next2[j] = next[j] /\ (j # first => prev2[j] = prev[j])

\* k is put before a list.
LEMMA ListPushFront ==
  ASSUME NULL \notin Keys, NEW S \in SUBSET Keys, NEW rank \in [Keys -> Int],
         NEW first, NEW next, NEW prev, NEW next2, NEW prev2,
         Linked(S, first, next, prev, rank),
         NEW k \in Keys \ S, \A j \in S : rank[k] < rank[j],
         IsPushFront(S, k, first, next, prev, next2, prev2)
  PROVE  Linked(S \cup {k}, k, next2, prev2, rank)
<1> DEFINE U == S \cup {k}
<1>0. /\ next2[k] = first /\ prev2[k] = NULL /\ (first # NULL => prev2[first] = k)
      /\ \A j \in S : next2[j] = next[j] /\ (j # first => prev2[j] = prev[j])
  BY DEF IsPushFront
<1>1. \A x \in U : rank[x] \in Int /\ x # NULL
  OBVIOUS
<1>2. \A i, j \in U : rank[i] = rank[j] => i = j
  BY <1>1 DEF Linked
<1>3. Adjacent(S, rank, NULL, first)
  BY DEF Linked
<1>4. Adjacent(U, rank, NULL, k)
  BY <1>1 DEF Adjacent
<1>5. Adjacent(U, rank, k, first)
  BY <1>1, <1>3 DEF Adjacent
<1>6. \A i \in S : \A j \in S \cup {NULL} :
        Adjacent(S, rank, i, j) => Adjacent(U, rank, i, j)
  BY <1>1 DEF Adjacent
<1>7. \A j \in S : /\ Adjacent(S, rank, j, next[j]) /\ next[j] \in S \cup {NULL}
                   /\ Adjacent(S, rank, prev[j], j) /\ prev[j] \in S \cup {NULL}
  BY DEF Linked, Adjacent
<1>8. \A j \in S : Adjacent(U, rank, j, next2[j])
  <2> SUFFICES ASSUME NEW j \in S PROVE Adjacent(U, rank, j, next2[j])
    OBVIOUS
  <2>1. next2[j] = next[j]
    BY <1>0
  <2>2. QED
    BY <1>6, <1>7, <2>1
<1>9. \A j \in S : j # first => prev[j] # NULL
  <2> SUFFICES ASSUME NEW j \in S, prev[j] = NULL PROVE j = first
    OBVIOUS
  <2>1. Adjacent(S, rank, NULL, j)
    BY <1>7
  <2>2. \A i, k2 \in S : rank[i] = rank[k2] => i = k2
    BY <1>2
  <2>3. QED
    BY <1>3, <2>1, <2>2, AdjacentIsUnique
<1>10. \A j \in S : Adjacent(U, rank, prev2[j], j)
  <2> SUFFICES ASSUME NEW j \in S PROVE Adjacent(U, rank, prev2[j], j)
    OBVIOUS
  <2>1. CASE j = first
    BY <1>0, <1>1, <1>5, <2>1
  <2>2. CASE j # first
    BY <1>0, <1>6, <1>7, <1>9, <2>2
  <2>3. QED
    BY <2>1, <2>2
<1>11. QED
  BY <1>0, <1>2, <1>4, <1>5, <1>8, <1>10 DEF Linked

\* The second list is the first one with k at its end.
IsPushBack(S, k, first, last, next, prev, first2, next2, prev2) ==
  /\ first = NULL => first2 = k
  /\ first # NULL => first2 = first
  /\ next2[k] = NULL /\ prev2[k] = last
  /\ last # NULL => next2[last] = k
  /\ \A j \in S : prev2[j] = prev[j] /\ (j # last => next2[j] = next[j])

\* k is put at the end of a list.
LEMMA ListPushBack ==
  ASSUME NULL \notin Keys, NEW S \in SUBSET Keys, NEW rank \in [Keys -> Int],
         NEW first, NEW last, NEW next, NEW prev, NEW first2, NEW next2, NEW prev2,
         Linked(S, first, next, prev, rank), Adjacent(S, rank, last, NULL),
         NEW k \in Keys \ S, \A j \in S : rank[j] < rank[k],
         IsPushBack(S, k, first, last, next, prev, first2, next2, prev2)
  PROVE  /\ Linked(S \cup {k}, first2, next2, prev2, rank)
         /\ Adjacent(S \cup {k}, rank, k, NULL)
<1> DEFINE U == S \cup {k}
<1>0. /\ (first = NULL => first2 = k) /\ (first # NULL => first2 = first)
      /\ next2[k] = NULL /\ prev2[k] = last /\ (last # NULL => next2[last] = k)
      /\ \A j \in S : prev2[j] = prev[j] /\ (j # last => next2[j] = next[j])
  BY DEF IsPushBack
<1>1. \A x \in U : rank[x] \in Int /\ x # NULL
  OBVIOUS
<1>2. \A i, j \in U : rank[i] = rank[j] => i = j
  BY <1>1 DEF Linked
<1>3. Adjacent(S, rank, NULL, first)
  BY DEF Linked
<1>4. Adjacent(U, rank, k, NULL)
  BY <1>1 DEF Adjacent
<1>5. Adjacent(U, rank, last, k)
  BY <1>1 DEF Adjacent
<1>6. \A i \in S \cup {NULL} : \A j \in S :
        Adjacent(S, rank, i, j) => Adjacent(U, rank, i, j)
  BY <1>1 DEF Adjacent
<1>7. \A j \in S : /\ Adjacent(S, rank, j, next[j]) /\ next[j] \in S \cup {NULL}
                   /\ Adjacent(S, rank, prev[j], j) /\ prev[j] \in S \cup {NULL}
  BY DEF Linked, Adjacent
<1>8. \A j \in S : Adjacent(U, rank, prev2[j], j)
  <2> SUFFICES ASSUME NEW j \in S PROVE Adjacent(U, rank, prev2[j], j)
    OBVIOUS
  <2>1. prev2[j] = prev[j]
    BY <1>0
  <2>2. QED
    BY <1>6, <1>7, <2>1
<1>9. \A j \in S : j # last => next[j] # NULL
  <2> SUFFICES ASSUME NEW j \in S, next[j] = NULL PROVE j = last
    OBVIOUS
  <2>1. Adjacent(S, rank, j, NULL)
    BY <1>7
  <2>2. \A i, j2 \in S : rank[i] = rank[j2] => i = j2
    BY <1>2
  <2>3. QED
    BY <2>1, <2>2, AdjacentIsUnique
<1>10. \A j \in S : Adjacent(U, rank, j, next2[j])
  <2> SUFFICES ASSUME NEW j \in S PROVE Adjacent(U, rank, j, next2[j])
    OBVIOUS
  <2>1. CASE j = last
    BY <1>0, <1>1, <1>5, <2>1
  <2>2. CASE j # last
    BY <1>0, <1>6, <1>7, <1>9, <2>2
  <2>3. QED
    BY <2>1, <2>2
<1>11. Adjacent(U, rank, NULL, first2)
  <2>1. CASE first = NULL
    <3>1. S = {}
      BY <1>3, <2>1 DEF Adjacent
    <3>2. QED
      BY <1>0, <1>1, <2>1, <3>1 DEF Adjacent
  <2>2. CASE first # NULL
    BY <1>0, <1>3, <1>6, <2>2 DEF Adjacent
  <2>3. QED
    BY <2>1, <2>2
<1>12. QED
  BY <1>0, <1>2, <1>4, <1>5, <1>8, <1>10, <1>11 DEF Linked

\* The second list is the first one with e before x.
IsSwap(S, x, e, first, next, prev, first2, next2, prev2) ==
  /\ prev[x] = NULL => first2 = e
  /\ prev[x] # NULL => first2 = first
  /\ next2[e] = x /\ next2[x] = next[e] /\ prev2[x] = e /\ prev2[e] = prev[x]
  /\ \A k \in S \ {e, x} :
       /\ (k = prev[x] => next2[k] = e) /\ (k # prev[x] => next2[k] = next[k])
       /\ (k = next[e] => prev2[k] = x) /\ (k # next[e] => prev2[k] = prev[k])

\* e and the entry before it change places: so do their ranks.
LEMMA ListSwap ==
  ASSUME NULL \notin Keys, NEW S \in SUBSET Keys, NEW rank \in [Keys -> Int],
         NEW first, NEW next, NEW prev, NEW first2, NEW next2, NEW prev2,
         Linked(S, first, next, prev, rank),
         NEW e \in S, NEW x \in S, prev[e] = x,
         NEW rank2 \in [Keys -> Int], rank2[e] = rank[x], rank2[x] = rank[e],
         \A k \in S \ {e, x} : rank2[k] = rank[k],
         IsSwap(S, x, e, first, next, prev, first2, next2, prev2)
  PROVE  Linked(S, first2, next2, prev2, rank2)
<1> DEFINE a == prev[x]
           c == next[e]
<1>1. \A j \in S : rank[j] \in Int /\ j # NULL /\ j \in Keys
  OBVIOUS
<1>2. \A i, j \in S : rank[i] = rank[j] => i = j
  BY DEF Linked
<1>3. Adjacent(S, rank, x, e) /\ Adjacent(S, rank, a, x) /\ Adjacent(S, rank, e, c)
  BY DEF Linked
<1>4. rank[x] < rank[e] /\ e # x /\ a # e /\ c # x /\ a # x /\ c # e
  BY <1>1, <1>3 DEF Adjacent
<1>5. /\ a \in S \cup {NULL} /\ c \in S \cup {NULL}
      /\ (a # NULL => rank[a] < rank[x]) /\ (c # NULL => rank[e] < rank[c])
  BY <1>3 DEF Adjacent
<1>6. /\ rank2 \in [Keys -> Int] /\ rank2[e] = rank[x] /\ rank2[x] = rank[e]
      /\ \A j \in S : j # e /\ j # x => rank2[j] = rank[j]
  BY <1>4
<1>0. /\ (a = NULL => first2 = e) /\ (a # NULL => first2 = first)
      /\ next2[e] = x /\ next2[x] = c /\ prev2[x] = e /\ prev2[e] = a
      /\ \A k \in S : k # e /\ k # x =>
           /\ (k = a => next2[k] = e) /\ (k # a => next2[k] = next[k])
           /\ (k = c => prev2[k] = x) /\ (k # c => prev2[k] = prev[k])
  BY DEF IsSwap
<1> HIDE DEF a, c
\* Where two adjacent entries are now.
<1>7. /\ Adjacent(S, rank2, e, x) /\ Adjacent(S, rank2, a, e) /\ Adjacent(S, rank2, x, c)
  <2>1. Adjacent(S, rank2, e, x)
    BY <1>1, <1>3, <1>4, <1>6 DEF Adjacent
  <2>2. Adjacent(S, rank2, a, e)
    BY <1>1, <1>3, <1>4, <1>5, <1>6 DEF Adjacent
  <2>3. Adjacent(S, rank2, x, c)
    BY <1>1, <1>3, <1>4, <1>5, <1>6 DEF Adjacent
  <2>4. QED
    BY <2>1, <2>2, <2>3
<1>8. ASSUME NEW i, NEW j, Adjacent(S, rank, i, j), i \notin {e, x}, j \notin {e, x}
      PROVE  Adjacent(S, rank2, i, j)
  <2>1. i \in S \cup {NULL} /\ j \in S \cup {NULL}
    BY <1>8 DEF Adjacent
  <2>2. i # NULL => rank2[i] = rank[i]
    BY <1>6, <1>8, <2>1
  <2>3. j # NULL => rank2[j] = rank[j]
    BY <1>6, <1>8, <2>1
  <2>4. ASSUME NEW k \in S
        PROVE  \/ i # NULL /\ rank2[k] <= rank2[i]
               \/ j # NULL /\ rank2[j] <= rank2[k]
    <3>1. \A z \in S : \/ i # NULL /\ rank[z] <= rank[i]
                       \/ j # NULL /\ rank[j] <= rank[z]
      BY <1>8 DEF Adjacent
    <3>2. CASE k \notin {e, x}
      BY <1>6, <2>2, <2>3, <3>1, <3>2
    <3>3. CASE k = e
      BY <1>6, <2>2, <2>3, <3>1, <3>3
    <3>4. CASE k = x
      BY <1>6, <2>2, <2>3, <3>1, <3>4
    <3>5. QED
      BY <3>2, <3>3, <3>4
  <2>5. i # NULL /\ j # NULL => rank2[i] < rank2[j]
    BY <1>8, <2>2, <2>3 DEF Adjacent
  <2>6. QED
    BY <2>1, <2>4, <2>5 DEF Adjacent
<1>9. \A i, j \in S : rank2[i] = rank2[j] => i = j
  BY <1>1, <1>2, <1>4, <1>6
<1>10. Adjacent(S, rank2, NULL, first2)
  <2>1. CASE a = NULL
    BY <1>0, <1>7, <2>1
  <2>2. CASE a # NULL
    <3>1. Adjacent(S, rank, NULL, first)
      BY DEF Linked
    <3>2. Adjacent(S, rank, x, e) /\ Adjacent(S, rank, a, x) /\ x # NULL
      BY <1>1, <1>3
    <3>3. first # e
      <4>1. ~ Adjacent(S, rank, NULL, e)
        BY <1>2, <3>2, AdjacentIsUnique
      <4>2. QED
        BY <3>1, <4>1
    <3>4. first # x
      BY <1>2, <2>2, <3>1, <3>2, AdjacentIsUnique
    <3>5. QED
      BY <1>0, <1>1, <1>8, <2>2, <3>1, <3>3, <3>4
  <2>3. QED
    BY <2>1, <2>2
<1>11. ASSUME NEW k \in S PROVE Adjacent(S, rank2, k, next2[k])
  <2>1. CASE k = e
    BY <1>0, <1>7, <2>1
  <2>2. CASE k = x
    BY <1>0, <1>7, <2>2
  <2>3. CASE k \notin {e, x}
    <3>1. (k = a => next2[k] = e) /\ (k # a => next2[k] = next[k])
      BY <1>0, <2>3
    <3>2. CASE k = a
      BY <1>7, <3>1, <3>2
    <3>3. CASE k # a
      <4>1. Adjacent(S, rank, k, next[k])
        BY DEF Linked
      <4>2. next[k] # e
        BY <1>2, <1>3, <2>3, <4>1, AdjacentIsUnique
      <4>3. next[k] # x
        BY <1>2, <1>3, <3>3, <4>1, AdjacentIsUnique
      <4>4. QED
        BY <1>8, <2>3, <3>1, <3>3, <4>1, <4>2, <4>3
    <3>4. QED
      BY <3>2, <3>3
  <2>4. QED
    BY <2>1, <2>2, <2>3
<1>12. ASSUME NEW k \in S PROVE Adjacent(S, rank2, prev2[k], k)
  <2>1. CASE k = e
    BY <1>0, <1>7, <2>1
  <2>2. CASE k = x
    BY <1>0, <1>7, <2>2
  <2>3. CASE k \notin {e, x}
    <3>1. (k = c => prev2[k] = x) /\ (k # c => prev2[k] = prev[k])
      BY <1>0, <2>3
    <3>2. CASE k = c
      BY <1>7, <3>1, <3>2
    <3>3. CASE k # c
      <4>1. Adjacent(S, rank, prev[k], k)
        BY DEF Linked
      <4>2. prev[k] # x
        BY <1>2, <1>3, <2>3, <4>1, AdjacentIsUnique
      <4>3. prev[k] # e
        BY <1>2, <1>3, <3>3, <4>1, AdjacentIsUnique
      <4>4. QED
        BY <1>8, <2>3, <3>1, <3>3, <4>1, <4>2, <4>3
    <3>4. QED
      BY <3>2, <3>3
  <2>4. QED
    BY <2>1, <2>2, <2>3
<1>13. QED
  BY <1>9, <1>10, <1>11, <1>12 DEF Linked

----------------------------------------------------------------------------
(* Tables.                                                                 *)

\* The keys of S whose bucket is b.
InBucket(S, size, b) == {k \in S : fn_hash[k] % size = b}

\* The records that are tables of that many buckets.
TableOf(size) ==
  [ i_size     : {size},
    pp_entries : [0..size-1 -> Links],
    p_nr       : [0..size-1 -> Int],
    i_items    : Int,
    p_oldest   : Links, p_newest : Links,
    p_next     : [Keys -> Links], p_prev  : [Keys -> Links],
    p_older    : [Keys -> Links], p_newer : [Keys -> Links],
    p_data     : [Keys -> Data \cup {NoData}] ]

\* The fields of a table, named so that a proof need not look into the record.
SizeOf(T)   == T.i_size
FirstOf(T)  == T.pp_entries
CountOf(T)  == T.p_nr
ItemsOf(T)  == T.i_items
OldestOf(T) == T.p_oldest
NewestOf(T) == T.p_newest
NextOf(T)   == T.p_next
PrevOf(T)   == T.p_prev
OlderOf(T)  == T.p_older
NewerOf(T)  == T.p_newer
StoredIn(T) == T.p_data

\* The entries of S are in the list of their buckets, by pos.
BucketsOK(T, S, pos) ==
  \A b \in 0..SizeOf(T)-1 :
    Linked(InBucket(S, SizeOf(T), b), FirstOf(T)[b], NextOf(T), PrevOf(T), pos)

\* The entries of S are in the list of ages, by age.
AgesOK(T, S, age) ==
  /\ Linked(S, OldestOf(T), NewerOf(T), OlderOf(T), age)
  /\ Adjacent(S, age, NewestOf(T), NULL)

\* The counts are those of the entries in S.
CountsOK(T, S) ==
  /\ ItemsOf(T) = Cardinality(S)
  /\ \A b \in 0..SizeOf(T)-1 : CountOf(T)[b] = Cardinality(InBucket(S, SizeOf(T), b))

\* The entries of S are allocated, and the others are free and clear.
FreeOK(T, S) ==
  /\ \A k \in S : StoredIn(T)[k] \in Data
  /\ \A k \in Keys \ S :
       StoredIn(T)[k] = NoData /\ PrevOf(T)[k] = NULL /\ NewerOf(T)[k] = NULL

\* T is the table of the entries in S.
TableInv(T, S, age, pos) ==
  /\ S \in SUBSET Keys /\ age \in [Keys -> Int] /\ pos \in [Keys -> Int]
  /\ SizeOf(T) \in Nat \ {0} /\ T \in TableOf(SizeOf(T))
  /\ BucketsOK(T, S, pos) /\ AgesOK(T, S, age) /\ CountsOK(T, S) /\ FreeOK(T, S)

\* What an operation on one list of a table leaves alone.
SameBuckets(T, U) ==
  /\ SizeOf(U) = SizeOf(T) /\ FirstOf(U) = FirstOf(T)
  /\ NextOf(U) = NextOf(T) /\ PrevOf(U) = PrevOf(T)
SameAges(T, U) ==
  /\ OldestOf(U) = OldestOf(T) /\ NewestOf(U) = NewestOf(T)
  /\ OlderOf(U) = OlderOf(T) /\ NewerOf(U) = NewerOf(T)
SameCounts(T, U) == CountOf(U) = CountOf(T) /\ ItemsOf(U) = ItemsOf(T)

\* The types of the fields.
LEMMA TableType ==
  ASSUME NEW size, NEW T \in TableOf(size)
  PROVE  /\ SizeOf(T) = size
         /\ FirstOf(T) \in [0..size-1 -> Links] /\ CountOf(T) \in [0..size-1 -> Int]
         /\ ItemsOf(T) \in Int /\ OldestOf(T) \in Links /\ NewestOf(T) \in Links
         /\ NextOf(T) \in [Keys -> Links] /\ PrevOf(T) \in [Keys -> Links]
         /\ OlderOf(T) \in [Keys -> Links] /\ NewerOf(T) \in [Keys -> Links]
         /\ StoredIn(T) \in [Keys -> Data \cup {NoData}]
BY DEF TableOf, SizeOf, FirstOf, CountOf, ItemsOf, OldestOf, NewestOf, NextOf,
       PrevOf, OlderOf, NewerOf, StoredIn

\* Every key has a bucket, the one InBucket counts it to.
LEMMA BucketOfType ==
  ASSUME NEW T, SizeOf(T) \in Nat \ {0}, NEW k \in Keys
  PROVE  /\ BucketOf(T, k) \in 0..SizeOf(T)-1
         /\ \A S, b : k \in InBucket(S, SizeOf(T), b) <=> k \in S /\ BucketOf(T, k) = b
<1>1. fn_hash[k] \in Nat
  BY HashAssumption
<1>2. \A a \in Nat : \A b \in Nat \ {0} : a % b \in 0..b-1
  OBVIOUS
<1>3. BucketOf(T, k) \in 0..SizeOf(T)-1
  BY <1>1, <1>2 DEF BucketOf, SizeOf
<1>4. QED
  BY <1>3 DEF BucketOf, InBucket, SizeOf

\* k is in bucket b, whatever the table holds.
Hashed(k, size, b) == fn_hash[k] % size = b

\* An entry is counted to one bucket.
LEMMA HashedWorks ==
  ASSUME NEW k, NEW size, NEW b, Hashed(k, size, b)
  PROVE  /\ \A A : k \in InBucket(A, size, b) <=> k \in A
         /\ \A A, c : c # b => k \notin InBucket(A, size, c)
BY DEF Hashed, InBucket

\* The fields of a table in which k is the first of its bucket.
LEMMA LinkFirstFields ==
  ASSUME NEW size \in Nat \ {0}, NEW T \in TableOf(size),
         NEW k \in Keys, NEW b \in 0..size-1
  PROVE  /\ LinkFirst(T, b, k) \in TableOf(size)
         /\ FirstOf(LinkFirst(T, b, k)) = [FirstOf(T) EXCEPT ![b] = k]
         /\ \A j \in Keys :
              /\ NextOf(LinkFirst(T, b, k))[j] = IF j = k THEN FirstOf(T)[b] ELSE NextOf(T)[j]
              /\ PrevOf(LinkFirst(T, b, k))[j] = IF j = FirstOf(T)[b] THEN k ELSE PrevOf(T)[j]
         /\ SameAges(T, LinkFirst(T, b, k)) /\ SameCounts(T, LinkFirst(T, b, k))
         /\ StoredIn(LinkFirst(T, b, k)) = StoredIn(T)
<1> DEFINE U == LinkFirst(T, b, k)
           first2 == [T.pp_entries EXCEPT ![b] = k]
           next2 == [T.p_next EXCEPT ![k] = T.pp_entries[b]]
           prev2 == Set(T.p_prev, T.pp_entries[b], k)
<1>1. U = [T EXCEPT !.pp_entries = first2, !.p_next = next2, !.p_prev = prev2]
  BY Zenon DEF LinkFirst
<1>2. /\ T.pp_entries \in [0..size-1 -> Links] /\ T.pp_entries[b] \in Links
      /\ T.p_next \in [Keys -> Links] /\ T.p_prev \in [Keys -> Links]
      /\ NULL \notin Keys /\ k \in Links
  BY HashAssumption DEF TableOf, Links
<1>3. first2 \in [0..size-1 -> Links]
  <2> DEFINE D == 0..size-1
  <2>1. T.pp_entries \in [D -> Links] /\ k \in Links
    BY <1>2
  <2> HIDE DEF D
  <2>2. first2 \in [D -> Links]
    BY <2>1
  <2>3. QED
    BY <2>2 DEF D
<1>4. next2 \in [Keys -> Links] /\ prev2 \in [Keys -> Links]
  BY <1>2 DEF Set, Links
<1>5. \A j \in Keys :
        /\ next2[j] = IF j = k THEN T.pp_entries[b] ELSE T.p_next[j]
        /\ prev2[j] = IF j = T.pp_entries[b] THEN k ELSE T.p_prev[j]
  BY <1>2 DEF Set, Links
<1> HIDE DEF first2, next2, prev2, U
<1>6. U \in TableOf(size)
  BY <1>1, <1>3, <1>4 DEF TableOf
<1>7. /\ U.pp_entries = first2 /\ U.p_next = next2 /\ U.p_prev = prev2
      /\ U.p_oldest = T.p_oldest /\ U.p_newest = T.p_newest /\ U.p_older = T.p_older
      /\ U.p_newer = T.p_newer /\ U.p_nr = T.p_nr /\ U.i_items = T.i_items
      /\ U.p_data = T.p_data
  BY <1>1 DEF TableOf
<1>8. FirstOf(U) = [FirstOf(T) EXCEPT ![b] = k]
  BY <1>7 DEF FirstOf, first2
<1>9. \A j \in Keys : /\ NextOf(U)[j] = IF j = k THEN FirstOf(T)[b] ELSE NextOf(T)[j]
                      /\ PrevOf(U)[j] = IF j = FirstOf(T)[b] THEN k ELSE PrevOf(T)[j]
  BY <1>5, <1>7 DEF FirstOf, NextOf, PrevOf
<1>10. SameAges(T, U) /\ SameCounts(T, U) /\ StoredIn(U) = StoredIn(T)
  BY <1>7 DEF SameAges, SameCounts, StoredIn, OldestOf, NewestOf, OlderOf, NewerOf,
              CountOf, ItemsOf
<1>11. QED
  BY <1>6, <1>8, <1>9, <1>10, Zenon DEF U

\* A new entry is the first of its bucket.
LEMMA LinkFirstWorks ==
  ASSUME NEW size \in Nat \ {0}, NEW T \in TableOf(size),
         NEW S \in SUBSET Keys, NEW pos \in [Keys -> Int], BucketsOK(T, S, pos),
         NEW k \in Keys \ S, PrevOf(T)[k] = NULL,
         NEW b \in 0..size-1, Hashed(k, size, b),
         \A j \in InBucket(S, size, b) : pos[k] < pos[j]
  PROVE  /\ BucketsOK(LinkFirst(T, b, k), S \cup {k}, pos)
         /\ \A j \in Keys \ (S \cup {k}) : PrevOf(LinkFirst(T, b, k))[j] = PrevOf(T)[j]
<1> DEFINE U == LinkFirst(T, b, k)
           first == FirstOf(T)[b]
<1>2. k \in Keys
  OBVIOUS
<1>0. /\ \A A : k \in InBucket(A, size, b) <=> k \in A
      /\ \A A, c : c # b => k \notin InBucket(A, size, c)
  BY HashedWorks
<1>1. /\ NULL \notin Keys /\ SizeOf(T) = size
      /\ FirstOf(T) \in [0..size-1 -> Links]
      /\ NextOf(T) \in [Keys -> Links] /\ PrevOf(T) \in [Keys -> Links]
  BY TableType, HashAssumption
<1>3. U \in TableOf(size)
  BY <1>2, LinkFirstFields
<1>4. /\ SizeOf(U) = size /\ NextOf(U) \in [Keys -> Links] /\ PrevOf(U) \in [Keys -> Links]
  BY <1>3, TableType
<1>5. FirstOf(U) = [FirstOf(T) EXCEPT ![b] = k]
  BY <1>2, LinkFirstFields
<1>6. \A j \in Keys : /\ NextOf(U)[j] = IF j = k THEN first ELSE NextOf(T)[j]
                      /\ PrevOf(U)[j] = IF j = first THEN k ELSE PrevOf(T)[j]
  BY <1>2, LinkFirstFields
<1> HIDE DEF U
<1>7. ASSUME NEW c \in 0..size-1
      PROVE  /\ Linked(InBucket(S, size, c), FirstOf(T)[c], NextOf(T), PrevOf(T), pos)
             /\ FirstOf(T)[c] \in InBucket(S, size, c) \cup {NULL}
  BY <1>1 DEF BucketsOK, Linked, Adjacent
<1>8. ASSUME NEW c \in 0..size-1
      PROVE  Linked(InBucket(S \cup {k}, size, c), FirstOf(U)[c], NextOf(U), PrevOf(U), pos)
  <2> DEFINE B == InBucket(S, size, c)
  <2>1. B \in SUBSET Keys /\ k \notin B
    BY DEF InBucket
  <2>2. Linked(B, FirstOf(T)[c], NextOf(T), PrevOf(T), pos)
    BY <1>7
  <2>3. CASE c = b
    <3>1. InBucket(S \cup {k}, size, c) = B \cup {k}
      BY <1>0, <1>1, <2>3 DEF InBucket
    <3>2. first \in B \cup {NULL}
      BY <1>7, <2>3
    <3>3. FirstOf(U)[c] = k
      BY <1>1, <1>5, <2>3
    <3>4. NextOf(U)[k] = first /\ PrevOf(U)[k] = NULL
      BY <1>1, <1>6, <2>1, <3>2
    <3>5. \A j \in B : NextOf(U)[j] = NextOf(T)[j] /\ (j # first => PrevOf(U)[j] = PrevOf(T)[j])
      BY <1>1, <1>6, <2>1
    <3>6. first # NULL => PrevOf(U)[first] = k
      BY <1>6, <2>1, <3>2
    <3>7. \A j \in B : pos[k] < pos[j]
      BY <2>3
    <3>8. Linked(B, first, NextOf(T), PrevOf(T), pos)
      BY <2>2, <2>3
    <3> HIDE DEF B, first
    <3>9. Linked(B \cup {k}, k, NextOf(U), PrevOf(U), pos)
      <4>1. IsPushFront(B, k, first, NextOf(T), PrevOf(T), NextOf(U), PrevOf(U))
        BY <3>4, <3>5, <3>6 DEF IsPushFront
      <4>2. k \in Keys \ B
        BY <2>1
      <4>3. QED
        BY <1>1, <2>1, <3>7, <3>8, <4>1, <4>2, ListPushFront
    <3>10. QED
      BY <3>1, <3>3, <3>9
  <2>4. CASE c # b
    <3>1. InBucket(S \cup {k}, size, c) = B
      BY <1>0, <1>1, <2>4 DEF InBucket
    <3>2. first \notin B
      BY <1>1, <1>2, <1>7, <2>4 DEF InBucket
    <3>3. FirstOf(U)[c] = FirstOf(T)[c]
      BY <1>1, <1>5, <2>4
    <3>4. \A j \in B : NextOf(U)[j] = NextOf(T)[j] /\ PrevOf(U)[j] = PrevOf(T)[j]
      BY <1>1, <1>6, <2>1, <3>2
    <3> HIDE DEF B
    <3>5. Linked(B, FirstOf(T)[c], NextOf(U), PrevOf(U), pos)
      BY <2>2, <3>4 DEF Linked
    <3>6. QED
      BY <3>1, <3>3, <3>5
  <2>5. QED
    BY <2>3, <2>4
<1>9. BucketsOK(U, S \cup {k}, pos)
  BY <1>4, <1>8 DEF BucketsOK
<1>10. \A j \in Keys \ (S \cup {k}) : PrevOf(U)[j] = PrevOf(T)[j]
  <2>1. first \in S \cup {NULL}
    BY <1>2, <1>7 DEF InBucket
  <2>2. QED
    BY <1>1, <1>6, <2>1
<1>11. QED
  BY <1>9, <1>10 DEF U

\* p out of both lists.
Unlinked(T, b, p) == Finalize(RemoveFromChain(T, b, p), p)

\* The fields of a table without p.
LEMMA UnlinkedFields ==
  ASSUME NEW size \in Nat \ {0}, NEW T \in TableOf(size),
         NEW p \in Keys, NEW b \in 0..size-1
  PROVE  /\ Unlinked(T, b, p) \in TableOf(size)
         /\ FirstOf(Unlinked(T, b, p)) = IF PrevOf(T)[p] = NULL
                                         THEN [FirstOf(T) EXCEPT ![b] = NextOf(T)[p]]
                                         ELSE FirstOf(T)
         /\ \A j \in Keys :
              /\ NextOf(Unlinked(T, b, p))[j] =
                   IF j = p THEN NULL
                   ELSE IF j = PrevOf(T)[p] THEN NextOf(T)[p] ELSE NextOf(T)[j]
              /\ PrevOf(Unlinked(T, b, p))[j] =
                   IF j = p THEN NULL
                   ELSE IF j = NextOf(T)[p] THEN PrevOf(T)[p] ELSE PrevOf(T)[j]
              /\ NewerOf(Unlinked(T, b, p))[j] =
                   IF j = p THEN NULL
                   ELSE IF j = OlderOf(T)[p] THEN NewerOf(T)[p] ELSE NewerOf(T)[j]
              /\ OlderOf(Unlinked(T, b, p))[j] =
                   IF j = p THEN NULL
                   ELSE IF j = NewerOf(T)[p] THEN OlderOf(T)[p] ELSE OlderOf(T)[j]
              /\ StoredIn(Unlinked(T, b, p))[j] = IF j = p THEN NoData ELSE StoredIn(T)[j]
         /\ OldestOf(Unlinked(T, b, p)) =
              IF OlderOf(T)[p] = NULL THEN NewerOf(T)[p] ELSE OldestOf(T)
         /\ NewestOf(Unlinked(T, b, p)) =
              IF NewerOf(T)[p] = NULL THEN OlderOf(T)[p] ELSE NewestOf(T)
         /\ SameCounts(T, Unlinked(T, b, p))
<1> DEFINE R == RemoveFromChain(T, b, p)
           U == Unlinked(T, b, p)
           first1 == IF T.p_prev[p] = NULL THEN [T.pp_entries EXCEPT ![b] = T.p_next[p]]
                     ELSE T.pp_entries
           next1  == Set(T.p_next,  T.p_prev[p],  T.p_next[p])
           prev1  == Set(T.p_prev,  T.p_next[p],  T.p_prev[p])
           newer1 == Set(T.p_newer, T.p_older[p], T.p_newer[p])
           older1 == Set(T.p_older, T.p_newer[p], T.p_older[p])
           oldest1 == IF T.p_older[p] = NULL THEN T.p_newer[p] ELSE T.p_oldest
           newest1 == IF T.p_newer[p] = NULL THEN T.p_older[p] ELSE T.p_newest
           next2  == [next1  EXCEPT ![p] = NULL]
           prev2  == [prev1  EXCEPT ![p] = NULL]
           newer2 == [newer1 EXCEPT ![p] = NULL]
           older2 == [older1 EXCEPT ![p] = NULL]
           data2  == [T.p_data EXCEPT ![p] = NoData]
<1>1. R = [T EXCEPT !.pp_entries = first1, !.p_next = next1, !.p_prev = prev1,
                    !.p_newer = newer1, !.p_older = older1,
                    !.p_oldest = oldest1, !.p_newest = newest1]
  BY Zenon DEF RemoveFromChain
<1>2. U = [R EXCEPT !.p_next = [R.p_next EXCEPT ![p] = NULL],
                    !.p_prev = [R.p_prev EXCEPT ![p] = NULL],
                    !.p_older = [R.p_older EXCEPT ![p] = NULL],
                    !.p_newer = [R.p_newer EXCEPT ![p] = NULL],
                    !.p_data = [R.p_data EXCEPT ![p] = NoData]]
  BY Zenon DEF Finalize, Unlinked
<1>3. /\ T.pp_entries \in [0..size-1 -> Links]
      /\ T.p_next \in [Keys -> Links] /\ T.p_prev \in [Keys -> Links]
      /\ T.p_older \in [Keys -> Links] /\ T.p_newer \in [Keys -> Links]
      /\ T.p_data \in [Keys -> Data \cup {NoData}]
      /\ T.p_oldest \in Links /\ T.p_newest \in Links
      /\ NULL \notin Keys /\ NULL \in Links
  BY HashAssumption DEF TableOf, Links
<1>4. first1 \in [0..size-1 -> Links]
  <2> DEFINE D == 0..size-1
  <2>1. T.pp_entries \in [D -> Links] /\ T.p_next[p] \in Links
    BY <1>3
  <2> HIDE DEF D
  <2>2. first1 \in [D -> Links]
    BY <2>1
  <2>3. QED
    BY <2>2 DEF D
<1>5. ASSUME NEW link \in [Keys -> Links], NEW q \in Links, NEW r \in Links
      PROVE  /\ Set(link, q, r) \in [Keys -> Links]
             /\ [Set(link, q, r) EXCEPT ![p] = NULL] \in [Keys -> Links]
             /\ \A j \in Keys : [Set(link, q, r) EXCEPT ![p] = NULL][j] =
                                  IF j = p THEN NULL ELSE IF j = q THEN r ELSE link[j]
  BY <1>3 DEF Set, Links
<1>6. /\ T.p_next[p] \in Links /\ T.p_prev[p] \in Links
      /\ T.p_older[p] \in Links /\ T.p_newer[p] \in Links
  BY <1>3
<1>7. /\ next1 \in [Keys -> Links] /\ prev1 \in [Keys -> Links]
      /\ newer1 \in [Keys -> Links] /\ older1 \in [Keys -> Links]
      /\ next2 \in [Keys -> Links] /\ prev2 \in [Keys -> Links]
      /\ newer2 \in [Keys -> Links] /\ older2 \in [Keys -> Links]
  BY <1>3, <1>5, <1>6, Zenon
<1>8. \A j \in Keys :
        /\ next2[j] = IF j = p THEN NULL
                      ELSE IF j = T.p_prev[p] THEN T.p_next[p] ELSE T.p_next[j]
        /\ prev2[j] = IF j = p THEN NULL
                      ELSE IF j = T.p_next[p] THEN T.p_prev[p] ELSE T.p_prev[j]
        /\ newer2[j] = IF j = p THEN NULL
                       ELSE IF j = T.p_older[p] THEN T.p_newer[p] ELSE T.p_newer[j]
        /\ older2[j] = IF j = p THEN NULL
                       ELSE IF j = T.p_newer[p] THEN T.p_older[p] ELSE T.p_older[j]
  <2> TAKE j \in Keys
  <2>1. next2[j] = IF j = p THEN NULL
                   ELSE IF j = T.p_prev[p] THEN T.p_next[p] ELSE T.p_next[j]
    BY <1>3, <1>6 DEF Set, Links
  <2>2. prev2[j] = IF j = p THEN NULL
                   ELSE IF j = T.p_next[p] THEN T.p_prev[p] ELSE T.p_prev[j]
    BY <1>3, <1>6 DEF Set, Links
  <2>3. newer2[j] = IF j = p THEN NULL
                    ELSE IF j = T.p_older[p] THEN T.p_newer[p] ELSE T.p_newer[j]
    BY <1>3, <1>6 DEF Set, Links
  <2>4. older2[j] = IF j = p THEN NULL
                    ELSE IF j = T.p_newer[p] THEN T.p_older[p] ELSE T.p_older[j]
    BY <1>3, <1>6 DEF Set, Links
  <2>5. QED
    BY <2>1, <2>2, <2>3, <2>4, Zenon
<1>9. /\ data2 \in [Keys -> Data \cup {NoData}]
      /\ \A j \in Keys : data2[j] = IF j = p THEN NoData ELSE T.p_data[j]
  BY <1>3
<1>10. oldest1 \in Links /\ newest1 \in Links
  BY <1>3, <1>6
<1> HIDE DEF first1, next1, prev1, newer1, older1, oldest1, newest1, R, U
<1>11. R \in TableOf(size)
  BY <1>1, <1>4, <1>7, <1>10 DEF TableOf
<1>12. /\ R.p_next = next1 /\ R.p_prev = prev1 /\ R.p_newer = newer1 /\ R.p_older = older1
       /\ R.pp_entries = first1 /\ R.p_oldest = oldest1 /\ R.p_newest = newest1
       /\ R.p_nr = T.p_nr /\ R.i_items = T.i_items /\ R.p_data = T.p_data
  BY <1>1 DEF TableOf
<1>13. U = [R EXCEPT !.p_next = next2, !.p_prev = prev2, !.p_older = older2,
                     !.p_newer = newer2, !.p_data = data2]
  BY <1>2, <1>12, Zenon
<1> HIDE DEF next2, prev2, newer2, older2, data2
<1>14. U \in TableOf(size)
  BY <1>7, <1>9, <1>11, <1>13 DEF TableOf
<1>15. /\ U.p_next = next2 /\ U.p_prev = prev2 /\ U.p_newer = newer2 /\ U.p_older = older2
       /\ U.p_data = data2 /\ U.pp_entries = R.pp_entries /\ U.p_oldest = R.p_oldest
       /\ U.p_newest = R.p_newest /\ U.p_nr = R.p_nr /\ U.i_items = R.i_items
  BY <1>11, <1>13 DEF TableOf
<1>16. FirstOf(U) = IF PrevOf(T)[p] = NULL THEN [FirstOf(T) EXCEPT ![b] = NextOf(T)[p]]
                    ELSE FirstOf(T)
  BY <1>12, <1>15, Zenon DEF FirstOf, PrevOf, NextOf, first1
<1>17. /\ OldestOf(U) = IF OlderOf(T)[p] = NULL THEN NewerOf(T)[p] ELSE OldestOf(T)
       /\ NewestOf(U) = IF NewerOf(T)[p] = NULL THEN OlderOf(T)[p] ELSE NewestOf(T)
  BY <1>12, <1>15, Zenon DEF OldestOf, NewestOf, OlderOf, NewerOf, oldest1, newest1
<1>18. SameCounts(T, U)
  BY <1>12, <1>15, Zenon DEF SameCounts, CountOf, ItemsOf
<1>19. \A j \in Keys :
         /\ NextOf(U)[j] = IF j = p THEN NULL
                           ELSE IF j = PrevOf(T)[p] THEN NextOf(T)[p] ELSE NextOf(T)[j]
         /\ PrevOf(U)[j] = IF j = p THEN NULL
                           ELSE IF j = NextOf(T)[p] THEN PrevOf(T)[p] ELSE PrevOf(T)[j]
         /\ NewerOf(U)[j] = IF j = p THEN NULL
                            ELSE IF j = OlderOf(T)[p] THEN NewerOf(T)[p] ELSE NewerOf(T)[j]
         /\ OlderOf(U)[j] = IF j = p THEN NULL
                            ELSE IF j = NewerOf(T)[p] THEN OlderOf(T)[p] ELSE OlderOf(T)[j]
         /\ StoredIn(U)[j] = IF j = p THEN NoData ELSE StoredIn(T)[j]
  BY <1>8, <1>9, <1>15, Zenon DEF NextOf, PrevOf, NewerOf, OlderOf, StoredIn
<1>20. QED
  BY <1>14, <1>16, <1>17, <1>18, <1>19, Zenon DEF U

\* U is T without p, whose buckets hold S1 and whose list of ages S2.
IsWithout(T, U, p, S1, S2, age, pos) ==
  /\ BucketsOK(U, S1 \ {p}, pos) /\ AgesOK(U, S2 \ {p}, age)
  /\ PrevOf(U)[p] = NULL /\ NewerOf(U)[p] = NULL
  /\ \A k \in Keys \ S1 : PrevOf(U)[k] = PrevOf(T)[k]
  /\ \A k \in Keys \ S2 : NewerOf(U)[k] = NewerOf(T)[k]

\* p is taken out of both lists.
LEMMA UnlinkWorks ==
  ASSUME NEW size \in Nat \ {0}, NEW T \in TableOf(size),
         NEW S1 \in SUBSET Keys, NEW S2 \in SUBSET Keys,
         NEW pos \in [Keys -> Int], NEW age \in [Keys -> Int],
         BucketsOK(T, S1, pos), AgesOK(T, S2, age),
         NEW p \in S1, p \in S2, NEW b \in 0..size-1, Hashed(p, size, b)
  PROVE  IsWithout(T, Unlinked(T, b, p), p, S1, S2, age, pos)
<1> DEFINE V == Unlinked(T, b, p)
<1>1. /\ SizeOf(T) = size /\ NULL \notin Keys
      /\ FirstOf(T) \in [0..size-1 -> Links]
      /\ NextOf(T) \in [Keys -> Links] /\ PrevOf(T) \in [Keys -> Links]
      /\ NewerOf(T) \in [Keys -> Links] /\ OlderOf(T) \in [Keys -> Links]
  BY TableType, HashAssumption
<1>2. p \in Keys
  OBVIOUS
<1>0. /\ \A A : p \in InBucket(A, size, b) <=> p \in A
      /\ \A A, c : c # b => p \notin InBucket(A, size, c)
  BY HashedWorks
<1>3. /\ V \in TableOf(size)
      /\ FirstOf(V) = IF PrevOf(T)[p] = NULL THEN [FirstOf(T) EXCEPT ![b] = NextOf(T)[p]]
                      ELSE FirstOf(T)
      /\ \A k \in Keys :
           /\ NextOf(V)[k] = IF k = p THEN NULL
                             ELSE IF k = PrevOf(T)[p] THEN NextOf(T)[p] ELSE NextOf(T)[k]
           /\ PrevOf(V)[k] = IF k = p THEN NULL
                             ELSE IF k = NextOf(T)[p] THEN PrevOf(T)[p] ELSE PrevOf(T)[k]
           /\ NewerOf(V)[k] = IF k = p THEN NULL
                              ELSE IF k = OlderOf(T)[p] THEN NewerOf(T)[p] ELSE NewerOf(T)[k]
           /\ OlderOf(V)[k] = IF k = p THEN NULL
                              ELSE IF k = NewerOf(T)[p] THEN OlderOf(T)[p] ELSE OlderOf(T)[k]
      /\ OldestOf(V) = IF OlderOf(T)[p] = NULL THEN NewerOf(T)[p] ELSE OldestOf(T)
      /\ NewestOf(V) = IF NewerOf(T)[p] = NULL THEN OlderOf(T)[p] ELSE NewestOf(T)
  BY <1>2, UnlinkedFields
<1> HIDE DEF V
<1>4. SizeOf(V) = size
  BY <1>3, TableType
<1>5. /\ Linked(S2, OldestOf(T), NewerOf(T), OlderOf(T), age)
      /\ Adjacent(S2, age, NewestOf(T), NULL)
  BY DEF AgesOK
<1>6. AgesOK(V, S2 \ {p}, age)
  <2>1. \A k \in S2 \ {p} :
          /\ k = OlderOf(T)[p] => NewerOf(V)[k] = NewerOf(T)[p]
          /\ k # OlderOf(T)[p] => NewerOf(V)[k] = NewerOf(T)[k]
          /\ k = NewerOf(T)[p] => OlderOf(V)[k] = OlderOf(T)[p]
          /\ k # NewerOf(T)[p] => OlderOf(V)[k] = OlderOf(T)[k]
    BY <1>3
  <2>2. /\ OlderOf(T)[p] = NULL => OldestOf(V) = NewerOf(T)[p]
        /\ OlderOf(T)[p] # NULL => OldestOf(V) = OldestOf(T)
        /\ NewerOf(T)[p] = NULL => NewestOf(V) = OlderOf(T)[p]
        /\ NewerOf(T)[p] # NULL => NewestOf(V) = NewestOf(T)
    BY <1>3
  <2>3. Linked(S2 \ {p}, OldestOf(V), NewerOf(V), OlderOf(V), age)
    <3>1. IsRemoval(S2, p, OldestOf(T), NewerOf(T), OlderOf(T),
                    OldestOf(V), NewerOf(V), OlderOf(V))
      BY <2>1, <2>2 DEF IsRemoval
    <3>2. QED
      BY <1>1, <1>5, <3>1, ListRemove
  <2>4. Adjacent(S2 \ {p}, age, NewestOf(V), NULL)
    BY <1>1, <1>5, <2>2, ListRemoveLast
  <2>5. QED
    BY <2>3, <2>4 DEF AgesOK
<1>7. ASSUME NEW c \in 0..size-1
      PROVE  Linked(InBucket(S1, size, c), FirstOf(T)[c], NextOf(T), PrevOf(T), pos)
  BY <1>1 DEF BucketsOK
<1>8. p \in InBucket(S1, size, b) /\ InBucket(S1, size, b) \in SUBSET Keys
  BY <1>0 DEF InBucket
<1>9. /\ PrevOf(T)[p] \in InBucket(S1, size, b) \cup {NULL}
      /\ NextOf(T)[p] \in InBucket(S1, size, b) \cup {NULL}
  BY <1>7, <1>8 DEF Linked, Adjacent
<1>10. OlderOf(T)[p] \in S2 \cup {NULL} /\ NewerOf(T)[p] \in S2 \cup {NULL}
  BY <1>5 DEF Linked, Adjacent
<1>11. ASSUME NEW c \in 0..size-1
       PROVE  Linked(InBucket(S1 \ {p}, size, c), FirstOf(V)[c], NextOf(V), PrevOf(V), pos)
  <2> DEFINE B == InBucket(S1, size, c)
  <2>1. Linked(B, FirstOf(T)[c], NextOf(T), PrevOf(T), pos) /\ B \in SUBSET Keys
    BY <1>7 DEF InBucket
  <2>2. \A k \in B \ {p} :
          /\ k = PrevOf(T)[p] => NextOf(V)[k] = NextOf(T)[p]
          /\ k # PrevOf(T)[p] => NextOf(V)[k] = NextOf(T)[k]
          /\ k = NextOf(T)[p] => PrevOf(V)[k] = PrevOf(T)[p]
          /\ k # NextOf(T)[p] => PrevOf(V)[k] = PrevOf(T)[k]
    BY <1>3, <2>1
  <2>3. CASE c = b
    <3>1. InBucket(S1 \ {p}, size, c) = B \ {p} /\ p \in B
      BY <1>0, <1>8, <2>3 DEF InBucket
    <3>2. /\ PrevOf(T)[p] = NULL => FirstOf(V)[c] = NextOf(T)[p]
          /\ PrevOf(T)[p] # NULL => FirstOf(V)[c] = FirstOf(T)[c]
      BY <1>1, <1>3, <2>3
    <3> HIDE DEF B
    <3>3. IsRemoval(B, p, FirstOf(T)[c], NextOf(T), PrevOf(T),
                    FirstOf(V)[c], NextOf(V), PrevOf(V))
      BY <2>2, <3>2 DEF IsRemoval
    <3>4. Linked(B \ {p}, FirstOf(V)[c], NextOf(V), PrevOf(V), pos)
      BY <1>1, <2>1, <3>1, <3>3, ListRemove
    <3>5. QED
      BY <3>1, <3>4
  <2>4. CASE c # b
    <3>1. InBucket(S1 \ {p}, size, c) = B /\ p \notin B
      BY <1>0, <2>4 DEF InBucket
    <3>2. \A k \in B : k # PrevOf(T)[p] /\ k # NextOf(T)[p]
      BY <1>1, <1>9, <2>1, <2>4 DEF InBucket
    <3>3. FirstOf(V)[c] = FirstOf(T)[c]
      BY <1>1, <1>3, <2>4
    <3> HIDE DEF B
    <3>4. Linked(B, FirstOf(T)[c], NextOf(V), PrevOf(V), pos)
      BY <2>1, <2>2, <3>1, <3>2 DEF Linked
    <3>5. QED
      BY <3>1, <3>3, <3>4
  <2>5. QED
    BY <2>3, <2>4
<1>12. BucketsOK(V, S1 \ {p}, pos)
  BY <1>4, <1>11 DEF BucketsOK
<1>13. ASSUME NEW k \in Keys \ S1 PROVE PrevOf(V)[k] = PrevOf(T)[k]
  <2>1. k # p /\ k # NextOf(T)[p]
    BY <1>1, <1>9 DEF InBucket
  <2>2. QED
    BY <1>3, <2>1
<1>14. ASSUME NEW k \in Keys \ S2 PROVE NewerOf(V)[k] = NewerOf(T)[k]
  <2>1. k # p /\ k # OlderOf(T)[p]
    BY <1>1, <1>10
  <2>2. QED
    BY <1>3, <2>1
<1>15. PrevOf(V)[p] = NULL /\ NewerOf(V)[p] = NULL
  BY <1>2, <1>3
<1>16. QED
  BY <1>6, <1>12, <1>13, <1>14, <1>15 DEF V, IsWithout

\* The fields of a table in which k is the newest entry.
LEMMA LinkNewestFields ==
  ASSUME NEW size \in Nat \ {0}, NEW T \in TableOf(size), NEW k \in Keys
  PROVE  /\ LinkNewest(T, k) \in TableOf(size)
         /\ OldestOf(LinkNewest(T, k)) = IF OldestOf(T) = NULL THEN k ELSE OldestOf(T)
         /\ NewestOf(LinkNewest(T, k)) = k
         /\ \A j \in Keys :
              /\ OlderOf(LinkNewest(T, k))[j] = IF j = k THEN NewestOf(T) ELSE OlderOf(T)[j]
              /\ NewerOf(LinkNewest(T, k))[j] = IF j = NewestOf(T) THEN k ELSE NewerOf(T)[j]
         /\ SameBuckets(T, LinkNewest(T, k)) /\ SameCounts(T, LinkNewest(T, k))
         /\ StoredIn(LinkNewest(T, k)) = StoredIn(T)
<1> DEFINE U == LinkNewest(T, k)
           oldest2 == IF T.p_oldest = NULL THEN k ELSE T.p_oldest
           older2 == [T.p_older EXCEPT ![k] = T.p_newest]
           newer2 == Set(T.p_newer, T.p_newest, k)
<1>1. U = [T EXCEPT !.p_oldest = oldest2, !.p_older = older2, !.p_newer = newer2,
                    !.p_newest = k]
  BY Zenon DEF LinkNewest
<1>2. /\ T.p_oldest \in Links /\ T.p_newest \in Links
      /\ T.p_older \in [Keys -> Links] /\ T.p_newer \in [Keys -> Links]
      /\ NULL \notin Keys /\ k \in Links
  BY HashAssumption DEF TableOf, Links
<1>3. oldest2 \in Links /\ older2 \in [Keys -> Links] /\ newer2 \in [Keys -> Links]
  BY <1>2 DEF Set, Links
<1>4. \A j \in Keys :
        /\ older2[j] = IF j = k THEN T.p_newest ELSE T.p_older[j]
        /\ newer2[j] = IF j = T.p_newest THEN k ELSE T.p_newer[j]
  BY <1>2 DEF Set, Links
<1> HIDE DEF oldest2, older2, newer2, U
<1>5. U \in TableOf(size)
  BY <1>1, <1>2, <1>3 DEF TableOf
<1>6. /\ U.p_oldest = oldest2 /\ U.p_older = older2 /\ U.p_newer = newer2 /\ U.p_newest = k
      /\ U.i_size = T.i_size /\ U.pp_entries = T.pp_entries /\ U.p_next = T.p_next
      /\ U.p_prev = T.p_prev /\ U.p_nr = T.p_nr /\ U.i_items = T.i_items
      /\ U.p_data = T.p_data
  BY <1>1 DEF TableOf
<1>7. OldestOf(U) = (IF OldestOf(T) = NULL THEN k ELSE OldestOf(T)) /\ NewestOf(U) = k
  BY <1>6 DEF OldestOf, NewestOf, oldest2
<1>8. \A j \in Keys :
        /\ OlderOf(U)[j] = IF j = k THEN NewestOf(T) ELSE OlderOf(T)[j]
        /\ NewerOf(U)[j] = IF j = NewestOf(T) THEN k ELSE NewerOf(T)[j]
  BY <1>4, <1>6, Zenon DEF OlderOf, NewerOf, NewestOf
<1>9. SameBuckets(T, U) /\ SameCounts(T, U) /\ StoredIn(U) = StoredIn(T)
  BY <1>6 DEF SameBuckets, SameCounts, SizeOf, FirstOf, NextOf, PrevOf, CountOf, ItemsOf,
              StoredIn
<1>10. QED
  BY <1>5, <1>7, <1>8, <1>9, Zenon DEF U

\* A new entry is the newest one.
LEMMA LinkNewestWorks ==
  ASSUME NEW size \in Nat \ {0}, NEW T \in TableOf(size),
         NEW S \in SUBSET Keys, NEW age \in [Keys -> Int], AgesOK(T, S, age),
         NEW k \in Keys \ S, NewerOf(T)[k] = NULL, \A j \in S : age[j] < age[k]
  PROVE  /\ AgesOK(LinkNewest(T, k), S \cup {k}, age)
         /\ \A j \in Keys \ (S \cup {k}) : NewerOf(LinkNewest(T, k))[j] = NewerOf(T)[j]
<1> DEFINE U == LinkNewest(T, k)
<1>1. NULL \notin Keys /\ k \in Keys
  BY HashAssumption
<1>2. /\ OldestOf(U) = IF OldestOf(T) = NULL THEN k ELSE OldestOf(T)
      /\ NewestOf(U) = k
      /\ \A j \in Keys : /\ OlderOf(U)[j] = IF j = k THEN NewestOf(T) ELSE OlderOf(T)[j]
                         /\ NewerOf(U)[j] = IF j = NewestOf(T) THEN k ELSE NewerOf(T)[j]
  BY <1>1, LinkNewestFields
<1> HIDE DEF U
<1>3. /\ Linked(S, OldestOf(T), NewerOf(T), OlderOf(T), age)
      /\ Adjacent(S, age, NewestOf(T), NULL)
  BY DEF AgesOK
<1>4. NewestOf(T) \in S \cup {NULL}
  BY <1>3 DEF Adjacent
<1>5. IsPushBack(S, k, OldestOf(T), NewestOf(T), NewerOf(T), OlderOf(T),
                 OldestOf(U), NewerOf(U), OlderOf(U))
  BY <1>1, <1>2, <1>4 DEF IsPushBack
<1>6. Linked(S \cup {k}, OldestOf(U), NewerOf(U), OlderOf(U), age)
      /\ Adjacent(S \cup {k}, age, k, NULL)
  BY <1>1, <1>3, <1>5, ListPushBack
<1>7. AgesOK(U, S \cup {k}, age)
  BY <1>2, <1>6 DEF AgesOK
<1>8. \A j \in Keys \ (S \cup {k}) : NewerOf(U)[j] = NewerOf(T)[j]
  BY <1>1, <1>2, <1>4
<1>9. QED
  BY <1>7, <1>8 DEF U

\* A set is replaced by one with the same members that has other links.
LEMMA BucketsFrame ==
  ASSUME NEW T, NEW U, SameBuckets(T, U), NEW S, NEW pos, BucketsOK(T, S, pos)
  PROVE  BucketsOK(U, S, pos)
BY DEF BucketsOK, SameBuckets

\* The list of ages is that of a table with the same links.
LEMMA AgesFrame ==
  ASSUME NEW T, NEW U, SameAges(T, U), NEW S, NEW age, AgesOK(T, S, age)
  PROVE  AgesOK(U, S, age)
BY DEF AgesOK, SameAges

\* The fields of a table that counts one entry more.
OneMore(T, b) == [T EXCEPT !.p_nr[b] = @ + 1, !.i_items = @ + 1]

\* OneMore changes the two counts.
LEMMA CountFields ==
  ASSUME NEW size \in Nat \ {0}, NEW T \in TableOf(size), NEW b \in 0..size-1
  PROVE  /\ OneMore(T, b) \in TableOf(size)
         /\ SameBuckets(T, OneMore(T, b)) /\ SameAges(T, OneMore(T, b))
         /\ StoredIn(OneMore(T, b)) = StoredIn(T) /\ ItemsOf(OneMore(T, b)) = ItemsOf(T) + 1
         /\ \A c \in 0..size-1 :
              CountOf(OneMore(T, b))[c] = IF c = b THEN CountOf(T)[c] + 1 ELSE CountOf(T)[c]
<1> DEFINE U == OneMore(T, b)
           nr == [T.p_nr EXCEPT ![b] = T.p_nr[b] + 1]
           items == T.i_items + 1
<1>1. U = [T EXCEPT !.p_nr = nr, !.i_items = items]
  BY Zenon DEF OneMore
<1>2. T.p_nr \in [0..size-1 -> Int] /\ T.i_items \in Int
  BY DEF TableOf
<1>3. nr \in [0..size-1 -> Int] /\ items \in Int
  <2> DEFINE D == 0..size-1
  <2>1. T.p_nr \in [D -> Int] /\ T.i_items \in Int /\ b \in D
    BY <1>2
  <2> HIDE DEF D
  <2>2. nr \in [D -> Int] /\ items \in Int
    BY <2>1
  <2>3. QED
    BY <2>2 DEF D
<1>4. \A c \in 0..size-1 : nr[c] = IF c = b THEN T.p_nr[c] + 1 ELSE T.p_nr[c]
  BY <1>2
<1> HIDE DEF nr, U
<1>5. U \in TableOf(size)
  BY <1>1, <1>3 DEF TableOf
<1>6. /\ U.p_nr = nr /\ U.i_items = T.i_items + 1 /\ U.i_size = T.i_size
      /\ U.pp_entries = T.pp_entries /\ U.p_next = T.p_next /\ U.p_prev = T.p_prev
      /\ U.p_older = T.p_older /\ U.p_newer = T.p_newer /\ U.p_oldest = T.p_oldest
      /\ U.p_newest = T.p_newest /\ U.p_data = T.p_data
  BY <1>1 DEF TableOf
<1>7. /\ SameBuckets(T, U) /\ SameAges(T, U) /\ StoredIn(U) = StoredIn(T)
      /\ ItemsOf(U) = ItemsOf(T) + 1
  BY <1>6, Zenon DEF SameBuckets, SameAges, SizeOf, FirstOf, NextOf, PrevOf, OldestOf,
                     NewestOf, OlderOf, NewerOf, StoredIn, ItemsOf
<1>8. \A c \in 0..size-1 : CountOf(U)[c] = IF c = b THEN CountOf(T)[c] + 1
                                           ELSE CountOf(T)[c]
  BY <1>4, <1>6, Zenon DEF CountOf
<1>9. QED
  BY <1>5, <1>7, <1>8, Zenon DEF U

\* The fields of a table in which d is stored under k.
Storing(T, k, d) == [T EXCEPT !.p_data[k] = d]

\* Storing changes the data of k.
LEMMA StoringFields ==
  ASSUME NEW size \in Nat \ {0}, NEW T \in TableOf(size), NEW k \in Keys, NEW d \in Data
  PROVE  /\ Storing(T, k, d) \in TableOf(size)
         /\ SameBuckets(T, Storing(T, k, d)) /\ SameAges(T, Storing(T, k, d))
         /\ SameCounts(T, Storing(T, k, d))
         /\ \A j \in Keys :
              StoredIn(Storing(T, k, d))[j] = IF j = k THEN d ELSE StoredIn(T)[j]
<1> DEFINE U == Storing(T, k, d)
           data == [T.p_data EXCEPT ![k] = d]
<1>1. U = [T EXCEPT !.p_data = data]
  BY Zenon DEF Storing
<1>2. T.p_data \in [Keys -> Data \cup {NoData}]
  BY DEF TableOf
<1>3. /\ data \in [Keys -> Data \cup {NoData}]
      /\ \A j \in Keys : data[j] = IF j = k THEN d ELSE T.p_data[j]
  BY <1>2
<1> HIDE DEF data, U
<1>4. U \in TableOf(size)
  BY <1>1, <1>3 DEF TableOf
<1>5. /\ U.p_nr = T.p_nr /\ U.i_items = T.i_items /\ U.i_size = T.i_size
      /\ U.pp_entries = T.pp_entries /\ U.p_next = T.p_next /\ U.p_prev = T.p_prev
      /\ U.p_older = T.p_older /\ U.p_newer = T.p_newer /\ U.p_oldest = T.p_oldest
      /\ U.p_newest = T.p_newest /\ U.p_data = data
  BY <1>1 DEF TableOf
<1>6. /\ SameBuckets(T, U) /\ SameAges(T, U) /\ SameCounts(T, U)
  BY <1>5, Zenon DEF SameBuckets, SameAges, SameCounts, SizeOf, FirstOf, NextOf, PrevOf,
                     OldestOf, NewestOf, OlderOf, NewerOf, CountOf, ItemsOf
<1>7. \A j \in Keys : StoredIn(U)[j] = IF j = k THEN d ELSE StoredIn(T)[j]
  BY <1>3, <1>5, Zenon DEF StoredIn
<1>8. QED
  BY <1>4, <1>6, <1>7, Zenon DEF U

\* The entry that goes is not the new one, which is the first.
LEMMA VictimIsOld ==
  ASSUME IsFiniteSet(Keys), NEW size \in Nat \ {0}, NEW T \in TableOf(size),
         NEW S \in SUBSET Keys, NEW k \in Keys \ S, NEW pos \in [Keys -> Int],
         NEW b \in 0..size-1, Hashed(k, size, b), BucketsOK(T, S \cup {k}, pos),
         InBucket(S, size, b) # {}, \A j \in InBucket(S, size, b) : pos[k] < pos[j]
  PROVE  Last(Bucket(T, b)) \in InBucket(S, size, b)
<1> DEFINE B == InBucket(S \cup {k}, size, b)
           s == Bucket(T, b)
<1>1. SizeOf(T) = size /\ NULL \notin Keys
  BY TableType, HashAssumption
<1>2. B = InBucket(S, size, b) \cup {k} /\ B \in SUBSET Keys /\ B # {}
  BY HashedWorks DEF InBucket
<1>3. Linked(B, FirstOf(T)[b], NextOf(T), PrevOf(T), pos)
  BY <1>1 DEF BucketsOK
<1>4. s = Chain(FirstOf(T)[b], NextOf(T))
  BY Zenon DEF Bucket, FirstOf, NextOf
<1> HIDE DEF B, s
<1>5. Enumerates(s, B, pos)
  BY <1>1, <1>2, <1>3, <1>4, ChainOfList
<1>6. \A j \in B : pos[j] \in Int
  BY <1>2
<1>7. Last(s) \in B /\ \A j \in B : pos[j] <= pos[Last(s)]
  BY <1>2, <1>5, <1>6, LastOfEnumeration
<1>8. Last(s) # k
  <2>1. PICK j \in InBucket(S, size, b) : TRUE
    OBVIOUS
  <2>2. pos[k] < pos[j] /\ pos[j] <= pos[Last(s)] /\ j \in Keys
    BY <1>2, <1>7, <2>1
  <2>3. QED
    BY <2>2
<1>9. QED
  BY <1>2, <1>7, <1>8 DEF s

\* The counts when k comes.
LEMMA CardinalityPlus ==
  ASSUME IsFiniteSet(Keys), NEW S \in SUBSET Keys, NEW k \in Keys \ S
  PROVE  /\ IsFiniteSet(S) /\ Cardinality(S) \in Nat
         /\ Cardinality(S \cup {k}) = Cardinality(S) + 1
BY FS_Subset, FS_AddElement, FS_CardinalityType

\* The counts of the buckets when k comes: one is greater by one.
LEMMA CountsPlus ==
  ASSUME IsFiniteSet(Keys), NEW size \in Nat \ {0}, NEW S \in SUBSET Keys,
         NEW k \in Keys \ S, NEW b, Hashed(k, size, b)
  PROVE  /\ Cardinality(S \cup {k}) = Cardinality(S) + 1
         /\ \A c : Cardinality(InBucket(S \cup {k}, size, c)) =
                     IF c = b THEN Cardinality(InBucket(S, size, c)) + 1
                     ELSE Cardinality(InBucket(S, size, c))
         /\ \A c : Cardinality(InBucket(S, size, c)) \in Nat
<1>1. Cardinality(S \cup {k}) = Cardinality(S) + 1
  BY CardinalityPlus
<1>2. ASSUME NEW c
      PROVE  /\ Cardinality(InBucket(S, size, c)) \in Nat
             /\ Cardinality(InBucket(S \cup {k}, size, c)) =
                     IF c = b THEN Cardinality(InBucket(S, size, c)) + 1
                     ELSE Cardinality(InBucket(S, size, c))
  <2>1. InBucket(S, size, c) \in SUBSET Keys /\ k \notin InBucket(S, size, c)
    BY DEF InBucket
  <2>2. CASE c = b
    <3>1. InBucket(S \cup {k}, size, c) = InBucket(S, size, c) \cup {k}
      BY <2>2, HashedWorks DEF InBucket
    <3>2. QED
      BY <2>1, <2>2, <3>1, CardinalityPlus
  <2>3. CASE c # b
    <3>1. InBucket(S \cup {k}, size, c) = InBucket(S, size, c)
      BY <2>3, HashedWorks DEF InBucket
    <3>2. Cardinality(InBucket(S, size, c)) \in Nat
      BY <2>1, CardinalityPlus
    <3>3. QED
      BY <2>3, <3>1, <3>2
  <2>4. QED
    BY <2>2, <2>3
<1>3. QED
  BY <1>1, <1>2

\* What a table is after MakeRoom for the new entry k, when S2 of the entries
\* in S are left.
RoomMade(T, U, S, S2, k, age, pos) ==
  /\ S2 \in SUBSET S
  /\ BucketsOK(U, S2 \cup {k}, pos) /\ AgesOK(U, S2, age) /\ CountsOK(U, S2 \cup {k})
  /\ \A j \in Keys \ (S \ S2) : StoredIn(U)[j] = StoredIn(T)[j]
  /\ \A j \in S \ S2 :
       StoredIn(U)[j] = NoData /\ PrevOf(U)[j] = NULL /\ NewerOf(U)[j] = NULL
  /\ \A j \in Keys \ S : NewerOf(U)[j] = NewerOf(T)[j]
  /\ \A j \in Keys \ (S \cup {k}) : PrevOf(U)[j] = PrevOf(T)[j]

\* MakeRoom evicts the last entry of a full bucket, or counts one more.
LEMMA MakeRoomWorks ==
  ASSUME IsFiniteSet(Keys), NEW size \in Nat \ {0}, NEW T \in TableOf(size),
         NEW S \in SUBSET Keys, NEW k \in Keys \ S, NEW pos \in [Keys -> Int],
         NEW age \in [Keys -> Int], NEW b \in 0..size-1, Hashed(k, size, b),
         BucketsOK(T, S \cup {k}, pos), AgesOK(T, S, age), CountsOK(T, S),
         \A j \in InBucket(S, size, b) : pos[k] < pos[j], NEW limit \in Nat
  PROVE  /\ MakeRoom(T, b, limit) \in TableOf(size)
         /\ \E S2 : /\ RoomMade(T, MakeRoom(T, b, limit), S, S2, k, age, pos)
                    /\ limit = 0 => S2 = S
<1> DEFINE U == MakeRoom(T, b, limit)
<1>1. SizeOf(T) = size /\ NULL \notin Keys /\ k \in Keys
  BY TableType, HashAssumption
<1>2. /\ ItemsOf(T) = Cardinality(S)
      /\ \A c \in 0..size-1 : CountOf(T)[c] = Cardinality(InBucket(S, size, c))
  BY <1>1 DEF CountsOK
<1>3. CASE limit # 0 /\ T.p_nr[b] >= limit
  <2> DEFINE p == Last(Bucket(T, b))
             V == Unlinked(T, b, p)
  <2>1. U = V
    BY <1>3, Zenon DEF MakeRoom, Unlinked
  <2>2. InBucket(S, size, b) # {}
    <3>1. CountOf(T)[b] = T.p_nr[b]
      BY DEF CountOf
    <3>2. Cardinality(InBucket(S, size, b)) >= limit
      BY <1>2, <1>3, <3>1
    <3>3. Cardinality({}) = 0
      BY FS_EmptySet
    <3>4. QED
      BY <1>3, <3>2, <3>3
  <2>3. p \in InBucket(S, size, b)
    BY <2>2, VictimIsOld
  <2> HIDE DEF p
  <2>4. p \in S /\ Hashed(p, size, b) /\ p # k /\ p \in Keys
    BY <2>3 DEF InBucket, Hashed
  <2> DEFINE S1 == S \cup {k}
  <2>6. S1 \in SUBSET Keys /\ p \in S1 \cap S
    BY <2>4
  <2>7. BucketsOK(T, S1, pos)
    OBVIOUS
  <2> HIDE DEF S1
  <2> HIDE DEF V
  <2>8. /\ BucketsOK(V, S1 \ {p}, pos) /\ AgesOK(V, S \ {p}, age)
        /\ PrevOf(V)[p] = NULL /\ NewerOf(V)[p] = NULL
        /\ \A j \in Keys \ S1 : PrevOf(V)[j] = PrevOf(T)[j]
        /\ \A j \in Keys \ S : NewerOf(V)[j] = NewerOf(T)[j]
    <3>1. V = Unlinked(T, b, p)
      BY DEF V
    <3>2. p \in S1 /\ p \in S /\ Hashed(p, size, b) /\ S1 \in SUBSET Keys
      BY <2>4, <2>6
    <3>3. IsWithout(T, Unlinked(T, b, p), p, S1, S, age, pos)
      BY <2>7, <3>2, UnlinkWorks
    <3>4. QED
      BY <3>1, <3>3 DEF IsWithout
  <2>9. /\ V \in TableOf(size) /\ SameCounts(T, V)
        /\ \A j \in Keys : StoredIn(V)[j] = IF j = p THEN NoData ELSE StoredIn(T)[j]
    BY <2>4, UnlinkedFields DEF V
  <2> DEFINE S2 == S \ {p}
  <2>10. SizeOf(V) = size
    BY <2>9, TableType
  <2>11. S1 \ {p} = S2 \cup {k} /\ S2 \in SUBSET S /\ S \ S2 = {p} /\ S = S2 \cup {p}
    BY <2>4 DEF S1
  <2>12. k \in Keys \ S2 /\ p \in Keys \ S2 /\ S2 \in SUBSET Keys
    BY <2>4
  <2> HIDE DEF S2
  <2>13. /\ Cardinality(S2 \cup {k}) = Cardinality(S)
         /\ \A c \in 0..size-1 : Cardinality(InBucket(S2 \cup {k}, size, c)) =
                                   Cardinality(InBucket(S, size, c))
    <3>1. /\ Cardinality(S2 \cup {k}) = Cardinality(S2) + 1
          /\ \A c : Cardinality(InBucket(S2 \cup {k}, size, c)) =
                      IF c = b THEN Cardinality(InBucket(S2, size, c)) + 1
                      ELSE Cardinality(InBucket(S2, size, c))
      BY <2>12, CountsPlus
    <3>2. /\ Cardinality(S2 \cup {p}) = Cardinality(S2) + 1
          /\ \A c : Cardinality(InBucket(S2 \cup {p}, size, c)) =
                      IF c = b THEN Cardinality(InBucket(S2, size, c)) + 1
                      ELSE Cardinality(InBucket(S2, size, c))
      BY <2>4, <2>12, CountsPlus
    <3>3. QED
      BY <2>11, <3>1, <3>2, Zenon
  <2>14. CountsOK(V, S2 \cup {k})
    BY <1>2, <2>9, <2>10, <2>13 DEF CountsOK, SameCounts
  <2>15. /\ \A j \in Keys \ (S \ S2) : StoredIn(V)[j] = StoredIn(T)[j]
         /\ \A j \in S \ S2 :
              StoredIn(V)[j] = NoData /\ PrevOf(V)[j] = NULL /\ NewerOf(V)[j] = NULL
    BY <2>4, <2>8, <2>9, <2>11
  <2>16. RoomMade(T, V, S, S2, k, age, pos)
    BY <2>8, <2>11, <2>14, <2>15 DEF RoomMade, S1, S2
  <2>17. QED
    BY <1>3, <2>1, <2>9, <2>16
<1>4. CASE ~ (limit # 0 /\ T.p_nr[b] >= limit)
  <2>1. U = OneMore(T, b)
    BY <1>4, Zenon DEF MakeRoom, OneMore
  <2> HIDE DEF U
  <2>2. /\ U \in TableOf(size) /\ SameBuckets(T, U) /\ SameAges(T, U)
        /\ StoredIn(U) = StoredIn(T) /\ ItemsOf(U) = ItemsOf(T) + 1
        /\ \A c \in 0..size-1 : CountOf(U)[c] = IF c = b THEN CountOf(T)[c] + 1
                                                ELSE CountOf(T)[c]
    BY <2>1, CountFields
  <2>3. BucketsOK(U, S \cup {k}, pos) /\ AgesOK(U, S, age)
    BY <2>2, BucketsFrame, AgesFrame
  <2>4. SizeOf(U) = size /\ PrevOf(U) = PrevOf(T) /\ NewerOf(U) = NewerOf(T)
    BY <1>1, <2>2 DEF SameBuckets, SameAges
  <2>5. /\ Cardinality(S \cup {k}) = Cardinality(S) + 1
        /\ \A c : Cardinality(InBucket(S \cup {k}, size, c)) =
                    IF c = b THEN Cardinality(InBucket(S, size, c)) + 1
                    ELSE Cardinality(InBucket(S, size, c))
    BY CountsPlus
  <2>6. \A c \in 0..size-1 : CountOf(U)[c] = Cardinality(InBucket(S \cup {k}, size, c))
    BY <1>2, <2>2, <2>5
  <2>7. CountsOK(U, S \cup {k})
    BY <1>2, <2>2, <2>4, <2>5, <2>6 DEF CountsOK
  <2>8. RoomMade(T, U, S, S, k, age, pos)
    BY <2>2, <2>3, <2>4, <2>7 DEF RoomMade
  <2>9. QED
    BY <2>2, <2>8 DEF U
<1>5. QED
  BY <1>3, <1>4

\* What a table is after k has been inserted, when the entries of S2 are left.
IsPlaced(T, U, S, S2, k, d, age, pos) ==
  /\ TableInv(U, S2, age, pos) /\ SizeOf(U) = SizeOf(T)
  /\ k \in S2 /\ S2 \subseteq S \cup {k}
  /\ StoredIn(U)[k] = d
  /\ \A j \in S2 \ {k} : StoredIn(U)[j] = StoredIn(T)[j]

\* An absent key is placed, and at most one entry of its bucket goes for it.
LEMMA PlaceWorks ==
  ASSUME IsFiniteSet(Keys), NEW T, NEW S, NEW age, NEW pos, TableInv(T, S, age, pos),
         NEW k \in Keys \ S, \A j \in S : age[j] < age[k],
         NEW d \in Data, NEW limit \in Nat
  PROVE  \E S2, pos2 : /\ IsPlaced(T, Place(T, k, d, limit), S, S2, k, d, age, pos2)
                       /\ limit = 0 => S2 = S \cup {k}
<1> DEFINE size == SizeOf(T)
           b == BucketOf(T, k)
           T1 == Storing(T, k, d)
           T2 == LinkFirst(T1, b, k)
           T3 == MakeRoom(T2, b, limit)
           U == LinkNewest(T3, k)
<1>1. /\ S \in SUBSET Keys /\ age \in [Keys -> Int] /\ pos \in [Keys -> Int]
      /\ size \in Nat \ {0} /\ T \in TableOf(size) /\ k \in Keys
      /\ BucketsOK(T, S, pos) /\ AgesOK(T, S, age) /\ CountsOK(T, S) /\ FreeOK(T, S)
  BY DEF TableInv
<1>2. b \in 0..size-1 /\ Hashed(k, size, b)
  BY <1>1, BucketOfType DEF Hashed, BucketOf, SizeOf
<1>3. Place(T, k, d, limit) = U
  BY Zenon DEF Place, Storing
<1> HIDE DEF size, b
\* The data are stored.
<1>4. /\ T1 \in TableOf(size) /\ SameBuckets(T, T1) /\ SameAges(T, T1) /\ SameCounts(T, T1)
      /\ \A j \in Keys : StoredIn(T1)[j] = IF j = k THEN d ELSE StoredIn(T)[j]
  BY <1>1, StoringFields
\* k is linked before its bucket.
<1>5. /\ T2 \in TableOf(size) /\ SameAges(T1, T2) /\ SameCounts(T1, T2)
      /\ StoredIn(T2) = StoredIn(T1)
  <2> HIDE DEF T1
  <2>1. QED
    BY <1>1, <1>2, <1>4, LinkFirstFields
<1> DEFINE first == FirstOf(T)[b]
           pos2 == [pos EXCEPT ![k] = IF first = NULL THEN 0 ELSE pos[first] - 1]
<1>6. /\ pos2 \in [Keys -> Int] /\ \A j \in S : pos2[j] = pos[j]
      /\ \A j \in InBucket(S, size, b) : pos2[k] < pos2[j]
  <2> DEFINE B == InBucket(S, size, b)
  <2>1. B \in SUBSET S
    BY DEF InBucket
  <2>2. Adjacent(B, pos, NULL, first)
    BY <1>1, <1>2 DEF BucketsOK, Linked, size
  <2>3. first \in B \cup {NULL} /\ \A j \in B : first # NULL /\ pos[first] <= pos[j]
    BY <2>2 DEF Adjacent
  <2> HIDE DEF B, first
  <2>4. first # NULL => pos[first] \in Int
    BY <1>1, <2>1, <2>3
  <2>5. pos2 \in [Keys -> Int] /\ \A j \in S : pos2[j] = pos[j]
    BY <1>1, <2>4
  <2>6. \A j \in B : pos2[k] < pos2[j]
    BY <1>1, <2>1, <2>3, <2>4, <2>5
  <2>7. QED
    BY <2>5, <2>6 DEF B
<1> HIDE DEF pos2, first
<1>7. BucketsOK(T1, S, pos2)
  <2>1. BucketsOK(T, S, pos2)
    <3>1. \A c : InBucket(S, size, c) \in SUBSET S
      BY DEF InBucket
    <3>2. SUFFICES ASSUME NEW c \in 0..size-1
                   PROVE  Linked(InBucket(S, size, c), FirstOf(T)[c], NextOf(T), PrevOf(T), pos2)
      BY DEF BucketsOK, size
    <3>3. Linked(InBucket(S, size, c), FirstOf(T)[c], NextOf(T), PrevOf(T), pos)
      BY <1>1 DEF BucketsOK, size
    <3>4. \A j \in InBucket(S, size, c) : pos2[j] = pos[j]
      BY <1>6, <3>1
    <3>5. NULL \notin Keys /\ InBucket(S, size, c) \in SUBSET Keys
      BY <1>1, <3>1, HashAssumption
    <3>6. QED
      BY <3>3, <3>4, <3>5, RankFrame
  <2>2. QED
    BY <1>4, <2>1, BucketsFrame
<1>8. /\ \A j \in Keys \ S : PrevOf(T)[j] = NULL /\ NewerOf(T)[j] = NULL
      /\ PrevOf(T1) = PrevOf(T) /\ NewerOf(T1) = NewerOf(T)
  BY <1>1, <1>4 DEF FreeOK, SameBuckets, SameAges
<1>9. /\ BucketsOK(T2, S \cup {k}, pos2)
      /\ \A j \in Keys \ (S \cup {k}) : PrevOf(T2)[j] = PrevOf(T1)[j]
  <2>1. PrevOf(T1)[k] = NULL
    BY <1>8
  <2> HIDE DEF T1
  <2>2. QED
    BY <1>1, <1>2, <1>4, <1>6, <1>7, <2>1, LinkFirstWorks
\* There is room for k.
<1>10. AgesOK(T2, S, age) /\ CountsOK(T2, S)
  <2>1. AgesOK(T2, S, age)
    <3> HIDE DEF T1, T2
    <3>1. AgesOK(T1, S, age)
      BY <1>1, <1>4, AgesFrame
    <3>2. QED
      BY <1>5, <3>1, AgesFrame
  <2>2. SizeOf(T2) = size
    BY <1>5, TableType
  <2>3. CountsOK(T2, S)
    BY <1>1, <1>4, <1>5, <2>2 DEF CountsOK, SameCounts, size
  <2>4. QED
    BY <2>1, <2>3
<1> HIDE DEF T2
<1>11. T3 \in TableOf(size)
  BY <1>1, <1>2, <1>5, <1>6, <1>9, <1>10, MakeRoomWorks
<1>12. PICK S2 : RoomMade(T2, T3, S, S2, k, age, pos2) /\ (limit = 0 => S2 = S)
  BY <1>1, <1>2, <1>5, <1>6, <1>9, <1>10, MakeRoomWorks
<1> HIDE DEF T3, T1
<1>13. /\ S2 \in SUBSET S /\ S2 \in SUBSET Keys /\ k \in Keys \ S2
       /\ BucketsOK(T3, S2 \cup {k}, pos2) /\ AgesOK(T3, S2, age) /\ CountsOK(T3, S2 \cup {k})
       /\ \A j \in Keys \ (S \ S2) : StoredIn(T3)[j] = StoredIn(T2)[j]
       /\ \A j \in S \ S2 :
            StoredIn(T3)[j] = NoData /\ PrevOf(T3)[j] = NULL /\ NewerOf(T3)[j] = NULL
       /\ \A j \in Keys \ S : NewerOf(T3)[j] = NewerOf(T2)[j]
       /\ \A j \in Keys \ (S \cup {k}) : PrevOf(T3)[j] = PrevOf(T2)[j]
  BY <1>1, <1>12 DEF RoomMade
\* k is the newest entry.
<1>14. /\ U \in TableOf(size) /\ SameBuckets(T3, U) /\ SameCounts(T3, U)
       /\ StoredIn(U) = StoredIn(T3)
  BY <1>1, <1>11, LinkNewestFields
<1>15. /\ AgesOK(U, S2 \cup {k}, age)
       /\ \A j \in Keys \ (S2 \cup {k}) : NewerOf(U)[j] = NewerOf(T3)[j]
  <2>1. NewerOf(T2) = NewerOf(T1)
    BY <1>5 DEF SameAges
  <2>2. NewerOf(T3)[k] = NULL
    BY <1>1, <1>8, <1>13, <2>1
  <2>3. \A j \in S2 : age[j] < age[k]
    BY <1>13
  <2>4. QED
    BY <1>1, <1>11, <1>13, <2>2, <2>3, LinkNewestWorks
<1> HIDE DEF U
<1>16. BucketsOK(U, S2 \cup {k}, pos2)
  BY <1>13, <1>14, BucketsFrame
<1>17. SizeOf(U) = size /\ SizeOf(T3) = size /\ PrevOf(U) = PrevOf(T3)
  BY <1>11, <1>14, TableType DEF SameBuckets
<1>18. CountsOK(U, S2 \cup {k})
  BY <1>13, <1>14, <1>17 DEF CountsOK, SameCounts
<1>19. StoredIn(U)[k] = d /\ \A j \in S2 : StoredIn(U)[j] = StoredIn(T)[j]
  BY <1>1, <1>4, <1>5, <1>13, <1>14
<1>20. FreeOK(U, S2 \cup {k})
  <2>1. \A j \in S2 \cup {k} : StoredIn(U)[j] \in Data
    BY <1>1, <1>13, <1>19 DEF FreeOK
  <2>2. ASSUME NEW j \in Keys \ (S2 \cup {k})
        PROVE  StoredIn(U)[j] = NoData /\ PrevOf(U)[j] = NULL /\ NewerOf(U)[j] = NULL
    <3>1. CASE j \in S
      BY <1>13, <1>14, <1>15, <1>17, <3>1
    <3>2. CASE j \notin S
      <4>1. StoredIn(T)[j] = NoData /\ PrevOf(T)[j] = NULL /\ NewerOf(T)[j] = NULL
        BY <1>1, <3>2 DEF FreeOK
      <4>2. StoredIn(U)[j] = StoredIn(T)[j]
        BY <1>1, <1>4, <1>5, <1>13, <1>14, <3>2
      <4>3. PrevOf(U)[j] = PrevOf(T)[j]
        BY <1>8, <1>9, <1>13, <1>17, <3>2
      <4>4. NewerOf(U)[j] = NewerOf(T)[j]
        BY <1>5, <1>8, <1>13, <1>15, <3>2 DEF SameAges
      <4>5. QED
        BY <4>1, <4>2, <4>3, <4>4
    <3>3. QED
      BY <3>1, <3>2
  <2>3. QED
    BY <2>1, <2>2 DEF FreeOK
<1>21. TableInv(U, S2 \cup {k}, age, pos2)
  BY <1>1, <1>6, <1>13, <1>14, <1>15, <1>16, <1>17, <1>18, <1>20 DEF TableInv
<1>22. IsPlaced(T, U, S, S2 \cup {k}, k, d, age, pos2)
  BY <1>13, <1>17, <1>19, <1>21 DEF IsPlaced, size
<1>23. QED
  BY <1>3, <1>12, <1>22

----------------------------------------------------------------------------
(* Lookups reorder a bucket.                                               *)

\* The second list is the first one with e, which was not its first entry, in
\* front.
IsMoveToFront(S, e, first, next, prev, next2, prev2) ==
  /\ next2[e] = first /\ prev2[e] = NULL /\ prev2[first] = e
  /\ \A j \in S \ {e} :
       /\ (j = prev[e] => next2[j] = next[e]) /\ (j # prev[e] => next2[j] = next[j])
       /\ j # first /\ j = next[e] => prev2[j] = prev[e]
       /\ j # first /\ j # next[e] => prev2[j] = prev[j]

\* A list stays a list when an entry moves to its front.
LEMMA ListMoveToFront ==
  ASSUME NULL \notin Keys, NEW S \in SUBSET Keys, NEW rank \in [Keys -> Int],
         NEW first, NEW next, NEW prev, NEW next2, NEW prev2,
         Linked(S, first, next, prev, rank),
         NEW e \in S, prev[e] # NULL,
         NEW rank2 \in [Keys -> Int], \A j \in S \ {e} : rank2[j] = rank[j],
         \A j \in S \ {e} : rank2[e] < rank2[j],
         IsMoveToFront(S, e, first, next, prev, next2, prev2)
  PROVE  Linked(S, e, next2, prev2, rank2)
<1> DEFINE R == S \ {e}
           next1 == [j \in S |-> IF j = prev[e] THEN next[e] ELSE next[j]]
           prev1 == [j \in S |-> IF j = next[e] THEN prev[e] ELSE prev[j]]
<1>1. R \in SUBSET Keys /\ S = R \cup {e} /\ e \in Keys \ R /\ e \in S
  OBVIOUS
<1>2. \A j \in S : /\ j = prev[e] => next1[j] = next[e]
                   /\ j # prev[e] => next1[j] = next[j]
                   /\ j = next[e] => prev1[j] = prev[e]
                   /\ j # next[e] => prev1[j] = prev[j]
  OBVIOUS
<1> HIDE DEF next1, prev1
<1>3. IsRemoval(S, e, first, next, prev, first, next1, prev1)
  BY <1>2 DEF IsRemoval
<1>4. Linked(R, first, next1, prev1, rank)
  BY <1>1, <1>3, ListRemove
<1>5. Linked(R, first, next1, prev1, rank2)
  BY <1>1, <1>4, RankFrame
<1>6. IsPushFront(R, e, first, next1, prev1, next2, prev2)
  <2>1. next2[e] = first /\ prev2[e] = NULL /\ (first # NULL => prev2[first] = e)
    BY DEF IsMoveToFront
  <2>2. ASSUME NEW j \in S, j # e PROVE next2[j] = next1[j]
    <3>1. (j = prev[e] => next2[j] = next[e]) /\ (j # prev[e] => next2[j] = next[j])
      BY <2>2 DEF IsMoveToFront
    <3>2. (j = prev[e] => next1[j] = next[e]) /\ (j # prev[e] => next1[j] = next[j])
      BY <1>2
    <3>3. QED
      BY <3>1, <3>2
  <2>3. ASSUME NEW j \in S, j # e, j # first PROVE prev2[j] = prev1[j]
    <3>1. (j = next[e] => prev2[j] = prev[e]) /\ (j # next[e] => prev2[j] = prev[j])
      BY <2>3 DEF IsMoveToFront
    <3>2. (j = next[e] => prev1[j] = prev[e]) /\ (j # next[e] => prev1[j] = prev[j])
      BY <1>2
    <3>3. QED
      BY <3>1, <3>2
  <2>4. QED
    BY <2>1, <2>2, <2>3 DEF IsPushFront
<1> HIDE DEF R
<1>7. \A j \in R : rank2[e] < rank2[j]
  BY DEF R
<1>8. Linked(R \cup {e}, e, next2, prev2, rank2)
  BY <1>1, <1>5, <1>6, <1>7, ListPushFront
<1>9. QED
  BY <1>1, <1>8

\* What a table with other links in its buckets leaves alone.
Relinked(T, U) ==
  SameAges(T, U) /\ SameCounts(T, U) /\ StoredIn(U) = StoredIn(T)

\* T with these links in its buckets.
Relink(T, first2, next2, prev2) ==
  [T EXCEPT !.pp_entries = first2, !.p_next = next2, !.p_prev = prev2]

\* U is T with these links in its buckets.
IsRelinked(T, U, size, first2, next2, prev2) ==
  /\ U \in TableOf(size) /\ Relinked(T, U)
  /\ FirstOf(U) = first2 /\ NextOf(U) = next2 /\ PrevOf(U) = prev2

\* Relink changes the three fields of the buckets.
LEMMA RelinkFields ==
  ASSUME NEW size \in Nat \ {0}, NEW T \in TableOf(size),
         NEW first2 \in [0..size-1 -> Links],
         NEW next2 \in [Keys -> Links], NEW prev2 \in [Keys -> Links]
  PROVE  IsRelinked(T, Relink(T, first2, next2, prev2), size, first2, next2, prev2)
<1> DEFINE U == Relink(T, first2, next2, prev2)
<1>1. U \in TableOf(size)
  BY DEF TableOf, Relink
<1>2. /\ U.pp_entries = first2 /\ U.p_next = next2 /\ U.p_prev = prev2
      /\ U.p_oldest = T.p_oldest /\ U.p_newest = T.p_newest /\ U.p_older = T.p_older
      /\ U.p_newer = T.p_newer /\ U.p_nr = T.p_nr /\ U.i_items = T.i_items
      /\ U.p_data = T.p_data
  BY DEF TableOf, Relink
<1> HIDE DEF U
<1>3. FirstOf(U) = first2 /\ NextOf(U) = next2 /\ PrevOf(U) = prev2
  BY <1>2, Zenon DEF FirstOf, NextOf, PrevOf
<1>4. Relinked(T, U)
  BY <1>2, Zenon DEF Relinked, SameAges, SameCounts, StoredIn, OldestOf, NewestOf, OlderOf,
                     NewerOf, CountOf, ItemsOf
<1>5. QED
  BY <1>1, <1>3, <1>4 DEF IsRelinked, U

\* The fields of a table in which e and the entry before it change places.
LEMMA TransposeFields ==
  ASSUME NEW size \in Nat \ {0}, NEW T \in TableOf(size), NEW b \in 0..size-1,
         NEW e \in Keys, NEW x \in Keys, x = PrevOf(T)[e]
  PROVE  /\ Transpose(T, b, e) \in TableOf(size) /\ Relinked(T, Transpose(T, b, e))
         /\ FirstOf(Transpose(T, b, e)) = IF PrevOf(T)[x] = NULL
                                          THEN [FirstOf(T) EXCEPT ![b] = e] ELSE FirstOf(T)
         /\ \A j \in Keys :
              /\ NextOf(Transpose(T, b, e))[j] =
                   IF j = e THEN x ELSE IF j = x THEN NextOf(T)[e]
                   ELSE IF j = PrevOf(T)[x] THEN e ELSE NextOf(T)[j]
              /\ PrevOf(Transpose(T, b, e))[j] =
                   IF j = e THEN PrevOf(T)[x] ELSE IF j = x THEN e
                   ELSE IF j = NextOf(T)[e] THEN x ELSE PrevOf(T)[j]
<1> DEFINE U == Transpose(T, b, e)
           a == T.p_prev[x]
           c == T.p_next[e]
           first2 == IF a = NULL THEN [T.pp_entries EXCEPT ![b] = e] ELSE T.pp_entries
           next2 == [Set(T.p_next, a, e) EXCEPT ![x] = c, ![e] = x]
           prev2 == [Set(T.p_prev, c, x) EXCEPT ![x] = e, ![e] = a]
<1>1. x = T.p_prev[e]
  BY DEF PrevOf
<1>2. U = Relink(T, first2, next2, prev2)
  BY <1>1, Zenon DEF Transpose, Relink
<1>3. /\ T.pp_entries \in [0..size-1 -> Links]
      /\ T.p_next \in [Keys -> Links] /\ T.p_prev \in [Keys -> Links]
      /\ a \in Links /\ c \in Links /\ e \in Links /\ x \in Links /\ NULL \notin Keys
  BY HashAssumption DEF TableOf, Links
<1> HIDE DEF a, c, U
<1>4. first2 \in [0..size-1 -> Links]
  <2> DEFINE D == 0..size-1
  <2>1. T.pp_entries \in [D -> Links] /\ e \in Links
    BY <1>3
  <2> HIDE DEF D
  <2>2. first2 \in [D -> Links]
    BY <2>1
  <2>3. QED
    BY <2>2 DEF D
<1>5. next2 \in [Keys -> Links] /\ prev2 \in [Keys -> Links]
  BY <1>3 DEF Set, Links
<1>6. \A j \in Keys :
        next2[j] = IF j = e THEN x ELSE IF j = x THEN c ELSE IF j = a THEN e ELSE T.p_next[j]
  BY <1>3 DEF Set, Links
<1>7. \A j \in Keys :
        prev2[j] = IF j = e THEN a ELSE IF j = x THEN e ELSE IF j = c THEN x ELSE T.p_prev[j]
  BY <1>3 DEF Set, Links
<1>8. FirstOf(T) = T.pp_entries /\ a = PrevOf(T)[x] /\ c = NextOf(T)[e]
      /\ T.p_next = NextOf(T) /\ T.p_prev = PrevOf(T)
  BY Zenon DEF FirstOf, PrevOf, NextOf, a, c
<1>9. first2 = IF PrevOf(T)[x] = NULL THEN [FirstOf(T) EXCEPT ![b] = e] ELSE FirstOf(T)
  BY <1>8, Zenon
<1> HIDE DEF first2, next2, prev2
<1>10. /\ U \in TableOf(size) /\ Relinked(T, U)
       /\ FirstOf(U) = first2 /\ NextOf(U) = next2 /\ PrevOf(U) = prev2
  BY <1>2, <1>4, <1>5, RelinkFields DEF IsRelinked
<1>11. \A j \in Keys :
         /\ NextOf(U)[j] = IF j = e THEN x ELSE IF j = x THEN NextOf(T)[e]
                           ELSE IF j = PrevOf(T)[x] THEN e ELSE NextOf(T)[j]
         /\ PrevOf(U)[j] = IF j = e THEN PrevOf(T)[x] ELSE IF j = x THEN e
                           ELSE IF j = NextOf(T)[e] THEN x ELSE PrevOf(T)[j]
  BY <1>6, <1>7, <1>8, <1>10, Zenon
<1>12. QED
  BY <1>9, <1>10, <1>11, Zenon DEF U

\* The fields of a table in which e is moved to the front of its bucket.
LEMMA MoveToFrontFields ==
  ASSUME NEW size \in Nat \ {0}, NEW T \in TableOf(size), NEW b \in 0..size-1,
         NEW e \in Keys, FirstOf(T)[b] \in Keys
  PROVE  /\ MoveToFront(T, b, e) \in TableOf(size) /\ Relinked(T, MoveToFront(T, b, e))
         /\ FirstOf(MoveToFront(T, b, e)) = [FirstOf(T) EXCEPT ![b] = e]
         /\ \A j \in Keys :
              /\ NextOf(MoveToFront(T, b, e))[j] =
                   IF j = e THEN FirstOf(T)[b]
                   ELSE IF j = PrevOf(T)[e] THEN NextOf(T)[e] ELSE NextOf(T)[j]
              /\ PrevOf(MoveToFront(T, b, e))[j] =
                   IF j = FirstOf(T)[b] THEN e ELSE IF j = e THEN NULL
                   ELSE IF j = NextOf(T)[e] THEN PrevOf(T)[e] ELSE PrevOf(T)[j]
<1> DEFINE U == MoveToFront(T, b, e)
           first == T.pp_entries[b]
           a == T.p_prev[e]
           c == T.p_next[e]
           first2 == [T.pp_entries EXCEPT ![b] = e]
           next2 == [Set(T.p_next, a, c) EXCEPT ![e] = first]
           prev2 == [Set(T.p_prev, c, a) EXCEPT ![e] = NULL, ![first] = e]
<1>1. U = Relink(T, first2, next2, prev2)
  BY Zenon DEF MoveToFront, Relink
<1>2. /\ T.pp_entries \in [0..size-1 -> Links]
      /\ T.p_next \in [Keys -> Links] /\ T.p_prev \in [Keys -> Links]
      /\ a \in Links /\ c \in Links /\ e \in Links /\ first \in Keys /\ first \in Links
      /\ NULL \notin Keys /\ NULL \in Links
  BY HashAssumption DEF TableOf, Links, FirstOf
<1> HIDE DEF first, a, c, U
<1>3. first2 \in [0..size-1 -> Links]
  <2> DEFINE D == 0..size-1
  <2>1. T.pp_entries \in [D -> Links] /\ e \in Links
    BY <1>2
  <2> HIDE DEF D
  <2>2. first2 \in [D -> Links]
    BY <2>1
  <2>3. QED
    BY <2>2 DEF D
<1>4. next2 \in [Keys -> Links] /\ prev2 \in [Keys -> Links]
  BY <1>2 DEF Set, Links
<1>5. \A j \in Keys :
        next2[j] = IF j = e THEN first ELSE IF j = a THEN c ELSE T.p_next[j]
  BY <1>2 DEF Set, Links
<1>6. \A j \in Keys :
        prev2[j] = IF j = first THEN e ELSE IF j = e THEN NULL
                   ELSE IF j = c THEN a ELSE T.p_prev[j]
  BY <1>2 DEF Set, Links
<1>7. FirstOf(T) = T.pp_entries /\ first = FirstOf(T)[b] /\ a = PrevOf(T)[e]
      /\ c = NextOf(T)[e] /\ T.p_next = NextOf(T) /\ T.p_prev = PrevOf(T)
  BY Zenon DEF FirstOf, PrevOf, NextOf, first, a, c
<1>8. first2 = [FirstOf(T) EXCEPT ![b] = e]
  BY <1>7, Zenon
<1> HIDE DEF first2, next2, prev2
<1>9. /\ U \in TableOf(size) /\ Relinked(T, U)
      /\ FirstOf(U) = first2 /\ NextOf(U) = next2 /\ PrevOf(U) = prev2
  BY <1>1, <1>3, <1>4, RelinkFields DEF IsRelinked
<1>10. \A j \in Keys :
         /\ NextOf(U)[j] = IF j = e THEN FirstOf(T)[b]
                           ELSE IF j = PrevOf(T)[e] THEN NextOf(T)[e] ELSE NextOf(T)[j]
         /\ PrevOf(U)[j] = IF j = FirstOf(T)[b] THEN e ELSE IF j = e THEN NULL
                           ELSE IF j = NextOf(T)[e] THEN PrevOf(T)[e] ELSE PrevOf(T)[j]
  BY <1>5, <1>6, <1>7, <1>9, Zenon
<1>11. QED
  BY <1>8, <1>9, <1>10, Zenon DEF U

\* U has the entries of T in other places of one bucket.
IsReordered(T, U, S, pos) ==
  /\ BucketsOK(U, S, pos) /\ Relinked(T, U)
  /\ \A j \in Keys \ S : PrevOf(U)[j] = PrevOf(T)[j]

\* When one bucket is a list in another order, all buckets are lists still.
LEMMA BucketReordered ==
  ASSUME NEW size \in Nat \ {0}, NEW T \in TableOf(size), NEW U \in TableOf(size),
         NEW S \in SUBSET Keys, NEW pos \in [Keys -> Int], BucketsOK(T, S, pos),
         NEW pos2 \in [Keys -> Int], NEW b \in 0..size-1, Relinked(T, U),
         Linked(InBucket(S, size, b), FirstOf(U)[b], NextOf(U), PrevOf(U), pos2),
         \A c \in 0..size-1 : c # b => FirstOf(U)[c] = FirstOf(T)[c],
         \A j \in Keys \ InBucket(S, size, b) :
           /\ pos2[j] = pos[j]
           /\ NextOf(U)[j] = NextOf(T)[j] /\ PrevOf(U)[j] = PrevOf(T)[j]
  PROVE  IsReordered(T, U, S, pos2)
<1>1. SizeOf(T) = size /\ SizeOf(U) = size /\ NULL \notin Keys
  BY TableType, HashAssumption
<1>2. ASSUME NEW c \in 0..size-1
      PROVE  Linked(InBucket(S, size, c), FirstOf(U)[c], NextOf(U), PrevOf(U), pos2)
  <2>1. CASE c = b
    BY <2>1
  <2>2. CASE c # b
    <3> DEFINE C == InBucket(S, size, c)
    <3>1. C \in SUBSET Keys /\ \A j \in C : j \in Keys \ InBucket(S, size, b)
      BY <2>2 DEF InBucket
    <3>2. Linked(C, FirstOf(T)[c], NextOf(T), PrevOf(T), pos)
      BY <1>1 DEF BucketsOK
    <3> HIDE DEF C
    <3>3. \A j \in C : NextOf(U)[j] = NextOf(T)[j] /\ PrevOf(U)[j] = PrevOf(T)[j]
      BY <3>1
    <3>4. \A j \in C : pos2[j] = pos[j]
      BY <3>1
    <3>5. Linked(C, FirstOf(T)[c], NextOf(U), PrevOf(U), pos)
      BY <3>2, <3>3 DEF Linked
    <3>6. Linked(C, FirstOf(T)[c], NextOf(U), PrevOf(U), pos2)
      BY <1>1, <3>1, <3>4, <3>5, RankFrame
    <3>7. QED
      BY <2>2, <3>6 DEF C
  <2>3. QED
    BY <2>1, <2>2
<1>3. BucketsOK(U, S, pos2)
  BY <1>1, <1>2 DEF BucketsOK
<1>4. \A j \in Keys \ S : PrevOf(U)[j] = PrevOf(T)[j]
  BY DEF InBucket
<1>5. QED
  BY <1>3, <1>4 DEF IsReordered

\* Transpose leaves lists of the same entries.
LEMMA TransposeWorks ==
  ASSUME NEW size \in Nat \ {0}, NEW T \in TableOf(size),
         NEW S \in SUBSET Keys, NEW pos \in [Keys -> Int], BucketsOK(T, S, pos),
         NEW e \in S, PrevOf(T)[e] # NULL, NEW b \in 0..size-1, Hashed(e, size, b)
  PROVE  /\ Transpose(T, b, e) \in TableOf(size)
         /\ \E pos2 \in [Keys -> Int] : IsReordered(T, Transpose(T, b, e), S, pos2)
<1> DEFINE U == Transpose(T, b, e)
           x == PrevOf(T)[e]
           B == InBucket(S, size, b)
           pos2 == [pos EXCEPT ![e] = pos[x], ![x] = pos[e]]
<1>1. /\ SizeOf(T) = size /\ NULL \notin Keys /\ e \in Keys
      /\ FirstOf(T) \in [0..size-1 -> Links]
  BY TableType, HashAssumption
<1>2. Linked(B, FirstOf(T)[b], NextOf(T), PrevOf(T), pos)
  BY <1>1 DEF BucketsOK
<1>3. e \in B /\ B \in SUBSET Keys /\ B \subseteq S
  BY HashedWorks DEF InBucket
<1> HIDE DEF B
<1>4. Adjacent(B, pos, PrevOf(T)[e], e)
  BY <1>2, <1>3 DEF Linked
<1>5. x \in B /\ x \in Keys /\ pos[x] < pos[e] /\ x # e
  BY <1>1, <1>3, <1>4 DEF Adjacent
<1>6. /\ pos2 \in [Keys -> Int] /\ pos2[e] = pos[x] /\ pos2[x] = pos[e]
      /\ \A j \in Keys \ {e, x} : pos2[j] = pos[j]
  BY <1>1, <1>5
<1>7. x = PrevOf(T)[e]
  OBVIOUS
<1> HIDE DEF pos2, x
<1>8. /\ U \in TableOf(size) /\ Relinked(T, U)
      /\ FirstOf(U) = IF PrevOf(T)[x] = NULL THEN [FirstOf(T) EXCEPT ![b] = e] ELSE FirstOf(T)
      /\ \A j \in Keys :
           /\ NextOf(U)[j] = IF j = e THEN x ELSE IF j = x THEN NextOf(T)[e]
                             ELSE IF j = PrevOf(T)[x] THEN e ELSE NextOf(T)[j]
           /\ PrevOf(U)[j] = IF j = e THEN PrevOf(T)[x] ELSE IF j = x THEN e
                             ELSE IF j = NextOf(T)[e] THEN x ELSE PrevOf(T)[j]
  BY <1>1, <1>5, <1>7, TransposeFields
<1> HIDE DEF U
<1>9. PrevOf(T)[x] \in B \cup {NULL} /\ NextOf(T)[e] \in B \cup {NULL}
  BY <1>2, <1>3, <1>5 DEF Linked, Adjacent
<1>10. /\ PrevOf(T)[x] = NULL => FirstOf(U)[b] = e
       /\ PrevOf(T)[x] # NULL => FirstOf(U)[b] = FirstOf(T)[b]
       /\ \A c \in 0..size-1 : c # b => FirstOf(U)[c] = FirstOf(T)[c]
  BY <1>1, <1>8
<1>11. /\ NextOf(U)[e] = x /\ NextOf(U)[x] = NextOf(T)[e]
       /\ PrevOf(U)[x] = e /\ PrevOf(U)[e] = PrevOf(T)[x]
  BY <1>1, <1>5, <1>8
<1>12. \A j \in B \ {e, x} :
         /\ (j = PrevOf(T)[x] => NextOf(U)[j] = e)
         /\ (j # PrevOf(T)[x] => NextOf(U)[j] = NextOf(T)[j])
         /\ (j = NextOf(T)[e] => PrevOf(U)[j] = x)
         /\ (j # NextOf(T)[e] => PrevOf(U)[j] = PrevOf(T)[j])
  BY <1>3, <1>8
<1>13. IsSwap(B, x, e, FirstOf(T)[b], NextOf(T), PrevOf(T),
              FirstOf(U)[b], NextOf(U), PrevOf(U))
  BY <1>10, <1>11, <1>12 DEF IsSwap
<1>14. Linked(B, FirstOf(U)[b], NextOf(U), PrevOf(U), pos2)
  <2>1. \A j \in B \ {e, x} : pos2[j] = pos[j]
    BY <1>3, <1>6
  <2>2. QED
    BY <1>1, <1>2, <1>3, <1>5, <1>6, <1>7, <1>13, <2>1, ListSwap
<1>15. \A j \in Keys \ B :
         /\ pos2[j] = pos[j]
         /\ NextOf(U)[j] = NextOf(T)[j] /\ PrevOf(U)[j] = PrevOf(T)[j]
  BY <1>1, <1>3, <1>5, <1>6, <1>8, <1>9
<1>16. IsReordered(T, U, S, pos2)
  BY <1>6, <1>8, <1>10, <1>14, <1>15, BucketReordered DEF B
<1>17. QED
  BY <1>6, <1>8, <1>16 DEF U

\* MoveToFront leaves lists of the same entries.
LEMMA MoveToFrontWorks ==
  ASSUME NEW size \in Nat \ {0}, NEW T \in TableOf(size),
         NEW S \in SUBSET Keys, NEW pos \in [Keys -> Int], BucketsOK(T, S, pos),
         NEW e \in S, PrevOf(T)[e] # NULL, NEW b \in 0..size-1, Hashed(e, size, b)
  PROVE  /\ MoveToFront(T, b, e) \in TableOf(size)
         /\ \E pos2 \in [Keys -> Int] : IsReordered(T, MoveToFront(T, b, e), S, pos2)
<1> DEFINE U == MoveToFront(T, b, e)
           first == FirstOf(T)[b]
           B == InBucket(S, size, b)
           pos2 == [pos EXCEPT ![e] = pos[first] - 1]
<1>1. /\ SizeOf(T) = size /\ NULL \notin Keys /\ e \in Keys
      /\ FirstOf(T) \in [0..size-1 -> Links]
  BY TableType, HashAssumption
<1>2. Linked(B, first, NextOf(T), PrevOf(T), pos)
  BY <1>1 DEF BucketsOK
<1>3. e \in B /\ B \in SUBSET Keys /\ B \subseteq S
  BY HashedWorks DEF InBucket
<1> HIDE DEF B
<1>4. Adjacent(B, pos, PrevOf(T)[e], e) /\ Adjacent(B, pos, NULL, first)
      /\ Adjacent(B, pos, e, NextOf(T)[e])
  BY <1>2, <1>3 DEF Linked
<1>5. first \in B /\ first \in Keys /\ \A j \in B : pos[first] <= pos[j]
  BY <1>3, <1>4 DEF Adjacent
<1>6. first # e
  <2>1. PrevOf(T)[e] \in B /\ pos[PrevOf(T)[e]] < pos[e]
    BY <1>1, <1>3, <1>4 DEF Adjacent
  <2>2. pos[first] \in Int /\ pos[PrevOf(T)[e]] \in Int /\ pos[e] \in Int
    BY <1>3, <1>5, <2>1
  <2>3. QED
    BY <1>5, <2>1, <2>2
<1>7. /\ pos2 \in [Keys -> Int] /\ pos2[e] = pos[first] - 1
      /\ \A j \in Keys \ {e} : pos2[j] = pos[j]
  BY <1>1, <1>5
<1> HIDE DEF pos2
<1>8. \A j \in B \ {e} : pos2[j] = pos[j] /\ pos2[e] < pos2[j]
  <2> SUFFICES ASSUME NEW j \in B \ {e} PROVE pos2[j] = pos[j] /\ pos2[e] < pos2[j]
    OBVIOUS
  <2>1. pos2[j] = pos[j] /\ pos[first] <= pos[j] /\ pos[j] \in Int /\ pos[first] \in Int
    BY <1>3, <1>5, <1>7
  <2>2. QED
    BY <1>7, <2>1
<1>9. /\ U \in TableOf(size) /\ Relinked(T, U)
      /\ FirstOf(U) = [FirstOf(T) EXCEPT ![b] = e]
      /\ \A j \in Keys :
           /\ NextOf(U)[j] = IF j = e THEN first
                             ELSE IF j = PrevOf(T)[e] THEN NextOf(T)[e] ELSE NextOf(T)[j]
           /\ PrevOf(U)[j] = IF j = first THEN e ELSE IF j = e THEN NULL
                             ELSE IF j = NextOf(T)[e] THEN PrevOf(T)[e] ELSE PrevOf(T)[j]
  BY <1>1, <1>5, MoveToFrontFields
<1> HIDE DEF U, first
<1>10. PrevOf(T)[e] \in B \cup {NULL} /\ NextOf(T)[e] \in B \cup {NULL}
  BY <1>4 DEF Adjacent
<1>11. /\ FirstOf(U)[b] = e
       /\ \A c \in 0..size-1 : c # b => FirstOf(U)[c] = FirstOf(T)[c]
  BY <1>1, <1>9
<1>12. NextOf(U)[e] = first /\ PrevOf(U)[e] = NULL /\ PrevOf(U)[first] = e
  BY <1>1, <1>5, <1>6, <1>9
<1>13. \A j \in B \ {e} :
         /\ (j = PrevOf(T)[e] => NextOf(U)[j] = NextOf(T)[e])
         /\ (j # PrevOf(T)[e] => NextOf(U)[j] = NextOf(T)[j])
         /\ j # first /\ j = NextOf(T)[e] => PrevOf(U)[j] = PrevOf(T)[e]
         /\ j # first /\ j # NextOf(T)[e] => PrevOf(U)[j] = PrevOf(T)[j]
  BY <1>3, <1>9
<1>14. IsMoveToFront(B, e, first, NextOf(T), PrevOf(T), NextOf(U), PrevOf(U))
  BY <1>12, <1>13 DEF IsMoveToFront
<1>15. Linked(B, e, NextOf(U), PrevOf(U), pos2)
  BY <1>1, <1>2, <1>3, <1>7, <1>8, <1>14, ListMoveToFront
<1>16. \A j \in Keys \ B :
         /\ pos2[j] = pos[j]
         /\ NextOf(U)[j] = NextOf(T)[j] /\ PrevOf(U)[j] = PrevOf(T)[j]
  BY <1>1, <1>3, <1>5, <1>7, <1>9, <1>10
<1>17. Linked(B, FirstOf(U)[b], NextOf(U), PrevOf(U), pos2)
  BY <1>11, <1>15
<1>18. IsReordered(T, U, S, pos2)
  <2>1. U \in TableOf(size) /\ Relinked(T, U) /\ pos2 \in [Keys -> Int]
    BY <1>7, <1>9
  <2>2. \A c \in 0..size-1 : c # b => FirstOf(U)[c] = FirstOf(T)[c]
    BY <1>11
  <2>3. QED
    BY <1>16, <1>17, <2>1, <2>2, BucketReordered DEF B
<1>19. QED
  BY <1>7, <1>9, <1>18 DEF U

----------------------------------------------------------------------------
(* The operations on a table.                                              *)

\* A lookup leaves the entries, their ages, their data and the counts alone.
IsPromoted(T, U, S, age, pos) ==
  TableInv(U, S, age, pos) /\ Relinked(T, U) /\ SizeOf(U) = SizeOf(T)

\* A table with a reordered bucket holds what it held.
LEMMA ReorderedWorks ==
  ASSUME NEW T, NEW S, NEW age, NEW pos, TableInv(T, S, age, pos),
         NEW U \in TableOf(SizeOf(T)), NEW pos2 \in [Keys -> Int], IsReordered(T, U, S, pos2)
  PROVE  IsPromoted(T, U, S, age, pos2)
<1> DEFINE size == SizeOf(T)
<1>1. /\ S \in SUBSET Keys /\ age \in [Keys -> Int] /\ size \in Nat \ {0}
      /\ AgesOK(T, S, age) /\ CountsOK(T, S) /\ FreeOK(T, S)
  BY DEF TableInv
<1>2. /\ BucketsOK(U, S, pos2) /\ SameAges(T, U) /\ SameCounts(T, U)
      /\ StoredIn(U) = StoredIn(T) /\ \A j \in Keys \ S : PrevOf(U)[j] = PrevOf(T)[j]
  BY DEF IsReordered, Relinked
<1>3. SizeOf(U) = size
  BY TableType
<1>4. AgesOK(U, S, age)
  BY <1>1, <1>2, AgesFrame
<1>5. CountsOK(U, S)
  BY <1>1, <1>2, <1>3 DEF CountsOK, SameCounts
<1>6. FreeOK(U, S)
  BY <1>1, <1>2 DEF FreeOK, SameAges
<1>7. TableInv(U, S, age, pos2)
  BY <1>1, <1>2, <1>3, <1>4, <1>5, <1>6 DEF TableInv
<1>8. QED
  BY <1>3, <1>7 DEF IsPromoted, IsReordered

\* The heuristics of a lookup leave the table as it was, but for the order
\* of a bucket.
LEMMA PromoteWorks ==
  ASSUME NEW T, NEW S, NEW age, NEW pos, TableInv(T, S, age, pos), NEW e \in S
  PROVE  \E pos2 : IsPromoted(T, Promote(T, e), S, age, pos2)
<1> DEFINE size == SizeOf(T)
           b == BucketOf(T, e)
           U == Promote(T, e)
<1>1. /\ S \in SUBSET Keys /\ pos \in [Keys -> Int] /\ size \in Nat \ {0}
      /\ T \in TableOf(size) /\ BucketsOK(T, S, pos) /\ e \in Keys
  BY DEF TableInv
<1>2. b \in 0..size-1 /\ Hashed(e, size, b)
  BY <1>1, BucketOfType DEF Hashed, BucketOf, SizeOf
<1>3. \/ U = T
      \/ PrevOf(T)[e] # NULL /\ U = Transpose(T, b, e)
      \/ PrevOf(T)[e] # NULL /\ U = MoveToFront(T, b, e)
  BY DEF Promote, PrevOf
<1> HIDE DEF size, b, U
<1>4. CASE U = T
  <2>1. IsPromoted(T, T, S, age, pos)
    BY DEF IsPromoted, Relinked, SameAges, SameCounts
  <2>2. QED
    BY <1>4, <2>1 DEF U
<1>5. CASE PrevOf(T)[e] # NULL /\ U = Transpose(T, b, e)
  <2>1. U \in TableOf(size) /\ \E pos2 \in [Keys -> Int] : IsReordered(T, U, S, pos2)
    BY <1>1, <1>2, <1>5, TransposeWorks
  <2>2. QED
    BY <2>1, ReorderedWorks DEF U, size
<1>6. CASE PrevOf(T)[e] # NULL /\ U = MoveToFront(T, b, e)
  <2>1. U \in TableOf(size) /\ \E pos2 \in [Keys -> Int] : IsReordered(T, U, S, pos2)
    BY <1>1, <1>2, <1>6, MoveToFrontWorks
  <2>2. QED
    BY <2>1, ReorderedWorks DEF U, size
<1>7. QED
  BY <1>3, <1>4, <1>5, <1>6

\* Other data are stored for an entry.
IsStored(T, U, S, k, d, age, pos) ==
  /\ TableInv(U, S, age, pos) /\ SizeOf(U) = SizeOf(T) /\ SameAges(T, U)
  /\ \A j \in Keys : StoredIn(U)[j] = IF j = k THEN d ELSE StoredIn(T)[j]

\* Storing other data leaves the lists alone.
LEMMA StoringWorks ==
  ASSUME NEW T, NEW S, NEW age, NEW pos, TableInv(T, S, age, pos), NEW k \in S, NEW d \in Data
  PROVE  IsStored(T, Storing(T, k, d), S, k, d, age, pos)
<1> DEFINE size == SizeOf(T)
           U == Storing(T, k, d)
<1>1. /\ S \in SUBSET Keys /\ age \in [Keys -> Int] /\ pos \in [Keys -> Int]
      /\ size \in Nat \ {0} /\ T \in TableOf(size) /\ k \in Keys
      /\ BucketsOK(T, S, pos) /\ AgesOK(T, S, age) /\ CountsOK(T, S) /\ FreeOK(T, S)
  BY DEF TableInv
<1>2. /\ U \in TableOf(size) /\ SameBuckets(T, U) /\ SameAges(T, U) /\ SameCounts(T, U)
      /\ \A j \in Keys : StoredIn(U)[j] = IF j = k THEN d ELSE StoredIn(T)[j]
  BY <1>1, StoringFields
<1> HIDE DEF U
<1>3. BucketsOK(U, S, pos) /\ AgesOK(U, S, age)
  BY <1>1, <1>2, BucketsFrame, AgesFrame
<1>4. SizeOf(U) = size
  BY <1>2 DEF SameBuckets
<1>5. CountsOK(U, S)
  BY <1>1, <1>2, <1>4 DEF CountsOK, SameCounts
<1>6. FreeOK(U, S)
  <2>1. PrevOf(U) = PrevOf(T) /\ NewerOf(U) = NewerOf(T)
    BY <1>2 DEF SameBuckets, SameAges
  <2>2. QED
    BY <1>1, <1>2, <2>1 DEF FreeOK
<1>7. TableInv(U, S, age, pos)
  BY <1>1, <1>2, <1>3, <1>4, <1>5, <1>6 DEF TableInv
<1>8. QED
  BY <1>2, <1>4, <1>7 DEF IsStored, U

\* The fields of a table that counts one entry less.
OneLess(T, b) == [T EXCEPT !.i_items = @ - 1, !.p_nr[b] = @ - 1]

\* OneLess changes the two counts.
LEMMA OneLessFields ==
  ASSUME NEW size \in Nat \ {0}, NEW T \in TableOf(size), NEW b \in 0..size-1
  PROVE  /\ OneLess(T, b) \in TableOf(size)
         /\ SameBuckets(T, OneLess(T, b)) /\ SameAges(T, OneLess(T, b))
         /\ StoredIn(OneLess(T, b)) = StoredIn(T) /\ ItemsOf(OneLess(T, b)) = ItemsOf(T) - 1
         /\ \A c \in 0..size-1 :
              CountOf(OneLess(T, b))[c] = IF c = b THEN CountOf(T)[c] - 1 ELSE CountOf(T)[c]
<1> DEFINE U == OneLess(T, b)
           nr == [T.p_nr EXCEPT ![b] = T.p_nr[b] - 1]
           items == T.i_items - 1
<1>1. U = [T EXCEPT !.i_items = items, !.p_nr = nr]
  BY Zenon DEF OneLess
<1>2. T.p_nr \in [0..size-1 -> Int] /\ T.i_items \in Int
  BY DEF TableOf
<1>3. nr \in [0..size-1 -> Int] /\ items \in Int
  <2> DEFINE D == 0..size-1
  <2>1. T.p_nr \in [D -> Int] /\ T.i_items \in Int /\ b \in D
    BY <1>2
  <2> HIDE DEF D
  <2>2. nr \in [D -> Int] /\ items \in Int
    BY <2>1
  <2>3. QED
    BY <2>2 DEF D
<1>4. \A c \in 0..size-1 : nr[c] = IF c = b THEN T.p_nr[c] - 1 ELSE T.p_nr[c]
  BY <1>2
<1> HIDE DEF nr, U
<1>5. U \in TableOf(size)
  BY <1>1, <1>3 DEF TableOf
<1>6. /\ U.p_nr = nr /\ U.i_items = T.i_items - 1 /\ U.i_size = T.i_size
      /\ U.pp_entries = T.pp_entries /\ U.p_next = T.p_next /\ U.p_prev = T.p_prev
      /\ U.p_older = T.p_older /\ U.p_newer = T.p_newer /\ U.p_oldest = T.p_oldest
      /\ U.p_newest = T.p_newest /\ U.p_data = T.p_data
  BY <1>1 DEF TableOf
<1>7. /\ SameBuckets(T, U) /\ SameAges(T, U) /\ StoredIn(U) = StoredIn(T)
      /\ ItemsOf(U) = ItemsOf(T) - 1
  BY <1>6, Zenon DEF SameBuckets, SameAges, SizeOf, FirstOf, NextOf, PrevOf, OldestOf,
                     NewestOf, OlderOf, NewerOf, StoredIn, ItemsOf
<1>8. \A c \in 0..size-1 : CountOf(U)[c] = IF c = b THEN CountOf(T)[c] - 1
                                           ELSE CountOf(T)[c]
  BY <1>4, <1>6, Zenon DEF CountOf
<1>9. QED
  BY <1>5, <1>7, <1>8, Zenon DEF U

\* k is removed.
IsRemoved(T, U, S, k, age, pos) ==
  /\ TableInv(U, S \ {k}, age, pos) /\ SizeOf(U) = SizeOf(T)
  /\ \A j \in S \ {k} : StoredIn(U)[j] = StoredIn(T)[j]

\* A removal leaves a table of the other entries.
LEMMA RemoveWorks ==
  ASSUME IsFiniteSet(Keys), NEW T, NEW S, NEW age, NEW pos, TableInv(T, S, age, pos),
         NEW k \in S
  PROVE  IsRemoved(T, OneLess(Unlinked(T, BucketOf(T, k), k), BucketOf(T, k)), S, k, age, pos)
<1> DEFINE size == SizeOf(T)
           b == BucketOf(T, k)
           V == Unlinked(T, b, k)
           U == OneLess(V, b)
           R == S \ {k}
<1>1. /\ S \in SUBSET Keys /\ age \in [Keys -> Int] /\ pos \in [Keys -> Int]
      /\ size \in Nat \ {0} /\ T \in TableOf(size) /\ k \in Keys
      /\ BucketsOK(T, S, pos) /\ AgesOK(T, S, age) /\ CountsOK(T, S) /\ FreeOK(T, S)
  BY DEF TableInv
<1>2. b \in 0..size-1 /\ Hashed(k, size, b)
  BY <1>1, BucketOfType DEF Hashed, BucketOf, SizeOf
<1>3. SameCounts(T, V) /\ V \in TableOf(size)
      /\ \A j \in Keys : StoredIn(V)[j] = IF j = k THEN NoData ELSE StoredIn(T)[j]
  <2> HIDE DEF size, b
  <2>1. QED
    BY <1>1, <1>2, UnlinkedFields
<1>4. IsWithout(T, V, k, S, S, age, pos)
  <2> HIDE DEF size, b
  <2>1. QED
    BY <1>1, <1>2, UnlinkWorks
<1> HIDE DEF V, b
<1>5. /\ U \in TableOf(size) /\ SameBuckets(V, U) /\ SameAges(V, U)
      /\ StoredIn(U) = StoredIn(V) /\ ItemsOf(U) = ItemsOf(V) - 1
      /\ \A c \in 0..size-1 : CountOf(U)[c] = IF c = b THEN CountOf(V)[c] - 1
                                              ELSE CountOf(V)[c]
  <2> HIDE DEF size
  <2>1. QED
    BY <1>1, <1>2, <1>3, OneLessFields
<1> HIDE DEF U
<1>6. BucketsOK(V, R, pos) /\ AgesOK(V, R, age)
  BY <1>4 DEF IsWithout
<1> HIDE DEF R
<1>7. BucketsOK(U, R, pos) /\ AgesOK(U, R, age)
  BY <1>5, <1>6, BucketsFrame, AgesFrame
<1>8. SizeOf(U) = size /\ PrevOf(U) = PrevOf(V) /\ NewerOf(U) = NewerOf(V)
  BY <1>5, TableType DEF SameBuckets, SameAges
<1>9. R \in SUBSET Keys /\ k \in Keys \ R /\ R \cup {k} = S
  BY <1>1 DEF R
<1>10. CountsOK(U, R)
  <2>1. /\ Cardinality(R \cup {k}) = Cardinality(R) + 1
        /\ \A c : Cardinality(InBucket(R \cup {k}, size, c)) =
                    IF c = b THEN Cardinality(InBucket(R, size, c)) + 1
                    ELSE Cardinality(InBucket(R, size, c))
        /\ \A c : Cardinality(InBucket(R, size, c)) \in Nat
    <3> HIDE DEF size
    <3>1. QED
      BY <1>1, <1>2, <1>9, CountsPlus
  <2>2. /\ ItemsOf(V) = Cardinality(S)
        /\ \A c \in 0..size-1 : CountOf(V)[c] = Cardinality(InBucket(S, size, c))
    BY <1>1, <1>3 DEF CountsOK, SameCounts
  <2>3. Cardinality(R) \in Nat
    BY <1>9, CardinalityPlus
  <2>4. ItemsOf(U) = Cardinality(R)
    <3>1. ItemsOf(V) = Cardinality(R) + 1
      BY <1>9, <2>1, <2>2, Zenon
    <3>2. ItemsOf(U) = ItemsOf(V) - 1
      BY <1>5
    <3>3. QED
      BY <2>3, <3>1, <3>2
  <2>5. \A c \in 0..size-1 : CountOf(U)[c] = Cardinality(InBucket(R, size, c))
    <3> HIDE DEF size
    <3> TAKE c \in 0..size-1
    <3>1. CountOf(U)[c] = IF c = b THEN CountOf(V)[c] - 1 ELSE CountOf(V)[c]
      BY <1>5
    <3>2. CountOf(V)[c] = IF c = b THEN Cardinality(InBucket(R, size, c)) + 1
                          ELSE Cardinality(InBucket(R, size, c))
      BY <1>9, <2>1, <2>2
    <3>3. Cardinality(InBucket(R, size, c)) \in Nat
      BY <2>1
    <3>4. QED
      BY <3>1, <3>2, <3>3
  <2>6. QED
    BY <1>8, <2>4, <2>5 DEF CountsOK
<1>11. \A j \in R : StoredIn(U)[j] = StoredIn(T)[j]
  BY <1>3, <1>5, <1>9
<1>12. FreeOK(U, R)
  <2>1. /\ PrevOf(V)[k] = NULL /\ NewerOf(V)[k] = NULL
        /\ \A j \in Keys \ S : PrevOf(V)[j] = PrevOf(T)[j] /\ NewerOf(V)[j] = NewerOf(T)[j]
    BY <1>4 DEF IsWithout
  <2>2. QED
    BY <1>1, <1>3, <1>5, <1>8, <1>9, <1>11, <2>1 DEF FreeOK
<1>13. TableInv(U, R, age, pos)
  BY <1>1, <1>5, <1>7, <1>8, <1>9, <1>10, <1>12 DEF TableInv
<1>14. QED
  BY <1>8, <1>11, <1>13 DEF IsRemoved, U, V, b, R

\* A new table is empty.
LEMMA CreateWorks ==
  ASSUME NEW size \in Nat \ {0}, NEW age \in [Keys -> Int], NEW pos \in [Keys -> Int]
  PROVE  TableInv(Create(size), {}, age, pos) /\ SizeOf(Create(size)) = size
<1> DEFINE T == Create(size)
<1>1. /\ T \in TableOf(size) /\ SizeOf(T) = size
      /\ FirstOf(T) = [b \in 0..size-1 |-> NULL] /\ CountOf(T) = [b \in 0..size-1 |-> 0]
      /\ ItemsOf(T) = 0 /\ OldestOf(T) = NULL /\ NewestOf(T) = NULL
      /\ PrevOf(T) = [k \in Keys |-> NULL] /\ NewerOf(T) = [k \in Keys |-> NULL]
      /\ StoredIn(T) = [k \in Keys |-> NoData]
  BY DEF Create, TableOf, Links, SizeOf, FirstOf, CountOf, ItemsOf, OldestOf, NewestOf,
         PrevOf, NewerOf, StoredIn
<1> HIDE DEF T
<1>2. /\ \A first, next, prev, rank : first = NULL => Linked({}, first, next, prev, rank)
      /\ \A rank : Adjacent({}, rank, NULL, NULL)
  BY DEF Linked, Adjacent
<1>3. \A b : InBucket({}, size, b) = {}
  BY DEF InBucket
<1>4. BucketsOK(T, {}, pos)
  <2>1. \A b \in 0..size-1 : FirstOf(T)[b] = NULL
    BY <1>1
  <2>2. SizeOf(T) = size
    BY <1>1
  <2>3. QED
    BY <1>2, <1>3, <2>1, <2>2 DEF BucketsOK
<1>5. AgesOK(T, {}, age)
  BY <1>1, <1>2 DEF AgesOK
<1>6. CountsOK(T, {})
  BY <1>1, <1>3, FS_EmptySet DEF CountsOK
<1>7. FreeOK(T, {})
  BY <1>1 DEF FreeOK
<1>8. QED
  BY <1>1, <1>4, <1>5, <1>6, <1>7 DEF TableInv, T

----------------------------------------------------------------------------
(* A rehash.                                                               *)

\* The new table after the i-th entry.
Reinserted(T, order, lost, i, n) ==
  IF order[i] \in lost THEN n ELSE Place(n, order[i], T.p_data[order[i]], 0)

\* The recursive function of Reinsert exists.
LEMMA ReinsertRecursion ==
  ASSUME NEW T, NEW order, NEW size, NEW lost, NEW N \in Nat
  PROVE  \E f : f = [i \in 0..N |-> IF i = 0 THEN Create(size)
                                    ELSE Reinserted(T, order, lost, i, f[i-1])]
<1> DEFINE Good == {m \in Nat : \E f : f = [i \in 0..m |->
                      IF i = 0 THEN Create(size)
                      ELSE Reinserted(T, order, lost, i, f[i-1])]}
<1>1. 0 \in Good
  <2> DEFINE f == [i \in 0..0 |-> Create(size)]
  <2>1. f = [i \in 0..0 |-> IF i = 0 THEN Create(size)
                            ELSE Reinserted(T, order, lost, i, f[i-1])]
    OBVIOUS
  <2>2. QED
    BY <2>1
<1>2. ASSUME NEW m \in Nat, m \in Good PROVE m + 1 \in Good
  <2>1. PICK f : f = [i \in 0..m |-> IF i = 0 THEN Create(size)
                                     ELSE Reinserted(T, order, lost, i, f[i-1])]
    BY <1>2
  <2> DEFINE g == [i \in 0..m+1 |-> IF i <= m THEN f[i]
                                    ELSE Reinserted(T, order, lost, i, f[m])]
  <2>2. \A i \in 0..m : g[i] = f[i]
    OBVIOUS
  <2>3. g = [i \in 0..m+1 |-> IF i = 0 THEN Create(size)
                              ELSE Reinserted(T, order, lost, i, g[i-1])]
    <3> SUFFICES ASSUME NEW i \in 0..m+1
                 PROVE  g[i] = IF i = 0 THEN Create(size)
                               ELSE Reinserted(T, order, lost, i, g[i-1])
      OBVIOUS
    <3>1. CASE i <= m /\ i # 0
      <4>1. i - 1 \in 0..m /\ i \in 0..m
        BY <3>1
      <4>2. g[i-1] = f[i-1] /\ g[i] = f[i]
        BY <2>2, <4>1
      <4>3. f[i] = Reinserted(T, order, lost, i, f[i-1])
        BY <2>1, <3>1, <4>1
      <4>4. QED
        BY <3>1, <4>2, <4>3
    <3>2. CASE i = m + 1
      <4>1. m \in 0..m /\ (m + 1) - 1 = m /\ m + 1 # 0
        OBVIOUS
      <4>2. g[m] = f[m]
        BY <2>2, <4>1
      <4>3. g[m+1] = Reinserted(T, order, lost, m + 1, f[m])
        OBVIOUS
      <4>4. QED
        BY <3>2, <4>1, <4>2, <4>3
    <3>3. CASE i = 0
      <4>1. g[0] = f[0] /\ f[0] = Create(size)
        BY <2>1, <2>2
      <4> HIDE DEF g
      <4>2. QED
        BY <3>3, <4>1
    <3>4. QED
      BY <3>1, <3>2, <3>3
  <2> HIDE DEF g
  <2>4. m + 1 \in Nat
    OBVIOUS
  <2>5. QED
    BY <2>3, <2>4, Zenon
<1> HIDE DEF Good
<1>3. N \in Good
  BY <1>1, <1>2, SetInduction
<1>4. QED
  BY <1>3 DEF Good

\* What the recursive function of Reinsert does.
LEMMA ReinsertIsRecursive ==
  ASSUME NEW T, NEW order, NEW size, NEW lost, Len(order) \in Nat
  PROVE  \E f : /\ Reinsert(T, order, size, lost) = f[Len(order)]
                /\ f[0] = Create(size)
                /\ \A i \in 1..Len(order) : f[i] = Reinserted(T, order, lost, i, f[i-1])
<1> DEFINE N == Len(order)
           f == CHOOSE f : f = [i \in 0..N |-> IF i = 0 THEN Create(size)
                                               ELSE Reinserted(T, order, lost, i, f[i-1])]
<1>1. N \in Nat
  OBVIOUS
<1>2. Reinsert(T, order, size, lost) = f[N]
  BY DEF Reinsert, Reinserted
<1> HIDE DEF N
<1>3. f = [i \in 0..N |-> IF i = 0 THEN Create(size)
                          ELSE Reinserted(T, order, lost, i, f[i-1])]
  BY <1>1, ReinsertRecursion
<1> HIDE DEF f
<1>4. f[0] = Create(size)
  BY <1>1, <1>3
<1>5. ASSUME NEW i \in 1..N PROVE f[i] = Reinserted(T, order, lost, i, f[i-1])
  <2>1. i \in 0..N /\ i # 0
    BY <1>1
  <2>2. QED
    BY <1>3, <2>1
<1>6. QED
  BY <1>2, <1>4, <1>5 DEF N

\* U holds the entries of T in S.
IsRehashed(T, U, size, S, age, pos) ==
  /\ TableInv(U, S, age, pos) /\ SizeOf(U) = size
  /\ \A j \in S : StoredIn(U)[j] = StoredIn(T)[j]

\* The list of ages has the entries by their age.
LEMMA AgesEnumerated ==
  ASSUME IsFiniteSet(Keys), NEW T, NEW S, NEW age, NEW pos, TableInv(T, S, age, pos)
  PROVE  Enumerates(Ages(T), S, age)
<1>1. /\ S \in SUBSET Keys /\ age \in [Keys -> Int] /\ NULL \notin Keys
      /\ Linked(S, OldestOf(T), NewerOf(T), OlderOf(T), age)
  BY HashAssumption DEF TableInv, AgesOK
<1>2. Ages(T) = Chain(OldestOf(T), NewerOf(T))
  BY Zenon DEF Ages, OldestOf, NewerOf
<1>3. Enumerates(Chain(OldestOf(T), NewerOf(T)), S, age)
  BY <1>1, ChainOfList
<1>4. QED
  BY <1>2, <1>3, Zenon

\* A rehash keeps the entries that are not lost, with their ages.
LEMMA RehashWorks ==
  ASSUME IsFiniteSet(Keys), NEW T, NEW S, NEW age, NEW pos, TableInv(T, S, age, pos),
         NEW size \in Nat \ {0}, NEW lost
  PROVE  \E pos2 : IsRehashed(T, Rehash(T, size, lost), size, S \ lost, age, pos2)
<1> DEFINE order == Ages(T)
           Done(i) == {k \in S : k \notin lost /\ \E m \in 1..i : order[m] = k}
<1>1. Enumerates(order, S, age)
  BY AgesEnumerated
<1>2. /\ S \in SUBSET Keys /\ age \in [Keys -> Int] /\ pos \in [Keys -> Int]
      /\ \A k \in S : StoredIn(T)[k] \in Data
  BY DEF TableInv, FreeOK
<1> HIDE DEF order
<1>3. Len(order) \in Nat /\ (\A i \in 1..Len(order) : order[i] \in S)
      /\ \A k \in S : \E i \in 1..Len(order) : order[i] = k
  BY <1>1, <1>2, EnumerationProperties DEF Enumerates
<1>4. PICK f : /\ Reinsert(T, order, size, lost) = f[Len(order)]
               /\ f[0] = Create(size)
               /\ \A i \in 1..Len(order) : f[i] = Reinserted(T, order, lost, i, f[i-1])
  BY <1>3, ReinsertIsRecursive
<1> DEFINE Has(i) == \E p : IsRehashed(T, f[i], size, Done(i), age, p)
           Good == {i \in Nat : i <= Len(order) => Has(i)}
<1>5. Has(0)
  <2>1. Done(0) = {}
    OBVIOUS
  <2>2. IsRehashed(T, Create(size), size, {}, age, pos)
    BY <1>2, CreateWorks DEF IsRehashed
  <2>3. IsRehashed(T, f[0], size, Done(0), age, pos)
    BY <1>4, <2>1, <2>2
  <2>4. QED
    BY <2>3
<1>6. ASSUME NEW i \in Nat, i + 1 <= Len(order), Has(i) PROVE Has(i + 1)
  <2>1. i + 1 \in 1..Len(order) /\ i <= Len(order) /\ (i + 1) - 1 = i
    BY <1>3, <1>6
  <2>2. PICK p : IsRehashed(T, f[i], size, Done(i), age, p)
    BY <1>6
  <2> DEFINE k == order[i+1]
             D == Done(i)
  <2>3. f[i+1] = IF k \in lost THEN f[i] ELSE Place(f[i], k, StoredIn(T)[k], 0)
    BY <1>4, <2>1, Zenon DEF Reinserted, StoredIn
  <2>4. k \in S
    BY <1>3, <2>1
  <2>5. Done(i+1) = IF k \in lost THEN D ELSE D \cup {k}
    <3>1. \A m \in 1..i+1 : m \in 1..i \/ m = i + 1
      OBVIOUS
    <3>2. \A m \in 1..i : m \in 1..i+1
      OBVIOUS
    <3>3. i + 1 \in 1..i+1
      OBVIOUS
    <3>4. QED
      BY <2>4, <3>1, <3>2, <3>3
  <2>6. D \in SUBSET S /\ \A j \in D : age[j] < age[k]
    <3>1. D \in SUBSET S
      OBVIOUS
    <3>2. ASSUME NEW j \in D PROVE age[j] < age[k]
      <4>1. PICK m \in 1..i : order[m] = j
        OBVIOUS
      <4>2. m \in 1..Len(order) /\ m < i + 1
        BY <2>1, <1>3
      <4>3. QED
        BY <1>1, <2>1, <4>1, <4>2 DEF Enumerates
    <3>3. QED
      BY <3>1, <3>2
  <2> HIDE DEF k, D, Done
  <2>7. TableInv(f[i], D, age, p) /\ SizeOf(f[i]) = size
        /\ \A j \in D : StoredIn(f[i])[j] = StoredIn(T)[j]
    BY <2>2 DEF IsRehashed, D
  <2>8. CASE k \in lost
    <3>1. f[i+1] = f[i] /\ Done(i+1) = D
      BY <2>3, <2>5, <2>8
    <3>2. QED
      BY <2>2, <3>1 DEF D
  <2>9. CASE k \notin lost
    <3>1. f[i+1] = Place(f[i], k, StoredIn(T)[k], 0) /\ Done(i+1) = D \cup {k}
      BY <2>3, <2>5, <2>9
    <3>2. k \in Keys \ D
      <4>1. age[k] \in Int
        BY <1>2, <2>4
      <4>2. k \notin D
        BY <2>6, <4>1
      <4>3. QED
        BY <1>2, <2>4, <4>2
    <3>3. StoredIn(T)[k] \in Data /\ 0 \in Nat
      BY <1>2, <2>4
    <3>4. PICK p2 : IsPlaced(f[i], f[i+1], D, D \cup {k}, k, StoredIn(T)[k], age, p2)
      <4> DEFINE d == StoredIn(T)[k]
                 n == f[i]
      <4>1. d \in Data /\ 0 \in Nat /\ TableInv(n, D, age, p)
            /\ \A j \in D : age[j] < age[k]
        BY <2>6, <2>7, <3>3
      <4> HIDE DEF d, n
      <4>2. \E S2, p2 : /\ IsPlaced(n, Place(n, k, d, 0), D, S2, k, d, age, p2)
                        /\ 0 = 0 => S2 = D \cup {k}
        BY <3>2, <4>1, PlaceWorks
      <4>3. \E p2 : IsPlaced(n, Place(n, k, d, 0), D, D \cup {k}, k, d, age, p2)
        BY <4>2
      <4>4. QED
        BY <3>1, <4>3 DEF d, n
    <3>5. IsRehashed(T, f[i+1], size, D \cup {k}, age, p2)
      BY <2>7, <3>4 DEF IsRehashed, IsPlaced
    <3>6. QED
      BY <3>1, <3>5
  <2>10. QED
    BY <2>8, <2>9
<1>7. Has(Len(order))
  <2> HIDE DEF Has
  <2>1. 0 \in Good
    BY <1>5
  <2>2. \A i \in Nat : i \in Good => i + 1 \in Good
    BY <1>3, <1>6
  <2> HIDE DEF Good
  <2>3. \A i \in Nat : i \in Good
    BY <2>1, <2>2, SetInduction
  <2>4. QED
    BY <1>3, <2>3 DEF Good
<1>8. \E p : IsRehashed(T, f[Len(order)], size, Done(Len(order)), age, p)
  BY <1>7
<1>9. Done(Len(order)) = S \ lost
  BY <1>3
<1>10. Rehash(T, size, lost) = f[Len(order)]
  BY <1>4 DEF Rehash, order
<1>11. QED
  BY <1>8, <1>9, <1>10

----------------------------------------------------------------------------
(* What ListsAgree says of a table that has lists.                         *)

\* The chain has the entries of S once, by their rank, and prev links them back.
IsListOf(chain, S, rank, prev) ==
  /\ Enumerates(chain, S, rank)
  /\ Range(chain) = S /\ IsInjective(chain) /\ Len(chain) = Cardinality(S)
  /\ TwoWays(chain, prev) /\ (chain = << >> <=> S = {})

\* ChainOfList, for the predicate.
LEMMA ChainIsListOf ==
  ASSUME NULL \notin Keys, IsFiniteSet(Keys),
         NEW S \in SUBSET Keys, NEW rank \in [Keys -> Int],
         NEW first, NEW next, NEW prev, Linked(S, first, next, prev, rank)
  PROVE  IsListOf(Chain(first, next), S, rank, prev)
<1> DEFINE chain == Chain(first, next)
<1>1. /\ Enumerates(chain, S, rank)
      /\ Range(chain) = S /\ IsInjective(chain) /\ Len(chain) = Cardinality(S)
      /\ TwoWays(chain, prev) /\ (chain = << >> <=> S = {})
  BY ChainOfList
<1> HIDE DEF chain
<1>2. IsListOf(chain, S, rank, prev)
  BY <1>1, Zenon DEF IsListOf
<1>3. QED
  BY <1>2 DEF chain

\* The chains of a table have its entries, in the numbers that are counted.
LEMMA ListsOfTable ==
  ASSUME IsFiniteSet(Keys), NEW T, NEW S, NEW age, NEW pos, TableInv(T, S, age, pos)
  PROVE  /\ Range(Ages(T)) = S /\ Len(Ages(T)) = ItemsOf(T) /\ IsInjective(Ages(T))
         /\ TwoWays(Ages(T), OlderOf(T))
         /\ NewestOf(T) = IF Ages(T) = << >> THEN NULL ELSE Last(Ages(T))
         /\ \A b \in 0..SizeOf(T)-1 :
              /\ Range(Bucket(T, b)) = {k \in S : BucketOf(T, k) = b}
              /\ Len(Bucket(T, b)) = CountOf(T)[b] /\ IsInjective(Bucket(T, b))
              /\ TwoWays(Bucket(T, b), PrevOf(T))
<1> DEFINE ages == Ages(T)
           newest == NewestOf(T)
<1>1. /\ S \in SUBSET Keys /\ age \in [Keys -> Int] /\ pos \in [Keys -> Int]
      /\ NULL \notin Keys
      /\ Linked(S, OldestOf(T), NewerOf(T), OlderOf(T), age) /\ Adjacent(S, age, newest, NULL)
      /\ BucketsOK(T, S, pos) /\ CountsOK(T, S)
  BY HashAssumption DEF TableInv, AgesOK
<1>2. /\ Enumerates(ages, S, age)
      /\ Range(ages) = S /\ IsInjective(ages) /\ Len(ages) = Cardinality(S)
      /\ TwoWays(ages, OlderOf(T)) /\ (ages = << >> <=> S = {})
  <2>1. ages = Chain(OldestOf(T), NewerOf(T))
    BY Zenon DEF Ages, OldestOf, NewerOf
  <2>2. IsListOf(Chain(OldestOf(T), NewerOf(T)), S, age, OlderOf(T))
    BY <1>1, ChainIsListOf
  <2>3. IsListOf(ages, S, age, OlderOf(T))
    BY <2>1, <2>2, Zenon
  <2> HIDE DEF ages
  <2>4. QED
    BY <2>3, Zenon DEF IsListOf
<1> HIDE DEF ages
<1>3. newest = IF ages = << >> THEN NULL ELSE Last(ages)
  <2>1. CASE S = {}
    BY <1>1, <1>2, <2>1 DEF Adjacent
  <2>2. CASE S # {}
    <3> HIDE DEF newest
    <3>1. \A k \in S : age[k] \in Int
      BY <1>1
    <3>2. Last(ages) \in S /\ \A k \in S : age[k] <= age[Last(ages)]
      BY <1>2, <2>2, <3>1, LastOfEnumeration
    <3>3. newest \in S /\ \A k \in S : age[k] <= age[newest]
      BY <1>1, <2>2 DEF Adjacent
    <3>4. age[newest] = age[Last(ages)]
      BY <3>1, <3>2, <3>3
    <3>5. newest = Last(ages)
      BY <1>1, <3>2, <3>3, <3>4 DEF Linked
    <3>6. QED
      BY <1>2, <2>2, <3>5
  <2>3. QED
    BY <2>1, <2>2
<1>4. ASSUME NEW b \in 0..SizeOf(T)-1
      PROVE  /\ Range(Bucket(T, b)) = {k \in S : BucketOf(T, k) = b}
             /\ Len(Bucket(T, b)) = CountOf(T)[b] /\ IsInjective(Bucket(T, b))
             /\ TwoWays(Bucket(T, b), PrevOf(T))
  <2> DEFINE B == InBucket(S, SizeOf(T), b)
  <2>1. Linked(B, FirstOf(T)[b], NextOf(T), PrevOf(T), pos)
    BY <1>1 DEF BucketsOK
  <2>2. B \in SUBSET Keys /\ B = {k \in S : BucketOf(T, k) = b}
    BY <1>1 DEF InBucket, BucketOf, SizeOf
  <2>3. CountOf(T)[b] = Cardinality(B)
    BY <1>1 DEF CountsOK
  <2>4. Bucket(T, b) = Chain(FirstOf(T)[b], NextOf(T))
    BY Zenon DEF Bucket, FirstOf, NextOf
  <2> HIDE DEF B
  <2>5. IsListOf(Chain(FirstOf(T)[b], NextOf(T)), B, pos, PrevOf(T))
    BY <1>1, <2>1, <2>2, ChainIsListOf
  <2>6. IsListOf(Bucket(T, b), B, pos, PrevOf(T))
    BY <2>4, <2>5, Zenon
  <2>7. QED
    BY <2>2, <2>3, <2>6, Zenon DEF IsListOf
<1>5. Len(ages) = ItemsOf(T)
  BY <1>1, <1>2 DEF CountsOK
<1>6. QED
  BY <1>2, <1>3, <1>4, <1>5 DEF ages

\* A table of lists is one of which ListsAgree is true.
LEMMA ListsAgreeInTable ==
  ASSUME IsFiniteSet(Keys), NEW S, NEW age, NEW pos, TableInv(ht, S, age, pos)
  PROVE  ListsAgree
<1> DEFINE live == {k \in Keys : ht.p_data[k] # NoData}
<1>1. S = live
  BY HashAssumption DEF TableInv, FreeOK, StoredIn
<1>2. /\ Range(Ages(ht)) = S /\ Len(Ages(ht)) = ht.i_items /\ IsInjective(Ages(ht))
      /\ TwoWays(Ages(ht), ht.p_older)
      /\ ht.p_newest = IF Ages(ht) = << >> THEN NULL ELSE Last(Ages(ht))
      /\ \A b \in 0..ht.i_size-1 :
           /\ Range(Bucket(ht, b)) = {k \in S : BucketOf(ht, k) = b}
           /\ Len(Bucket(ht, b)) = ht.p_nr[b] /\ IsInjective(Bucket(ht, b))
           /\ TwoWays(Bucket(ht, b), ht.p_prev)
  BY ListsOfTable, Zenon DEF ItemsOf, OlderOf, NewestOf, SizeOf, CountOf, PrevOf
<1> HIDE DEF live
<1>3. QED
  BY <1>1, <1>2, Zenon DEF ListsAgree, live

----------------------------------------------------------------------------
(* The invariant.                                                          *)

\* The entries of S are in the table, and the iteration goes on at one of them.
Held(S, age, pos) ==
  TableInv(ht, S, age, pos) /\ iterator.p_next \in S \cup {NULL}

\* The inductive invariant: the table is one of lists, of some keys in some order.
IInv ==
  /\ options \in Options
  /\ iterator \in [p_entry : Links, p_next : Links]
  /\ iterator.p_entry = NULL => iterator.p_next = NULL
  /\ \E S, age, pos : Held(S, age, pos)

\* An entry is found when it is there.
LEMMA FoundInTable ==
  ASSUME IsFiniteSet(Keys), NEW T, NEW S, NEW age, NEW pos, TableInv(T, S, age, pos),
         NEW k \in Keys
  PROVE  Found(T, k) <=> k \in S
<1>1. SizeOf(T) \in Nat \ {0}
  BY DEF TableInv
<1>2. BucketOf(T, k) \in 0..SizeOf(T)-1
  BY <1>1, BucketOfType
<1>3. Range(Bucket(T, BucketOf(T, k))) = {j \in S : BucketOf(T, j) = BucketOf(T, k)}
  BY <1>2, ListsOfTable
<1>4. QED
  BY <1>3 DEF Found

\* The options of the table.
LEMMA OptionsType ==
  ASSUME options \in Options
  PROVE  options.bucket_limit \in Nat /\ options.i_automatic_rehash \in BOOLEAN
BY HashAssumption

\* The invariant is true of the table that ght_create returns.
LEMMA InitHeld ==
  ASSUME Init
  PROVE  IInv
<1> DEFINE zero == [k \in Keys |-> 0]
<1>1. zero \in [Keys -> Int] /\ Size \in Nat \ {0}
  BY HashAssumption
<1> HIDE DEF zero
<1>2. TableInv(ht, {}, zero, zero)
  BY <1>1, CreateWorks DEF Init
<1>3. /\ options \in Options /\ iterator \in [p_entry : Links, p_next : Links]
      /\ iterator.p_entry = NULL /\ iterator.p_next = NULL
  BY DEF Init, Links
<1>4. QED
  BY <1>2, <1>3 DEF IInv, Held

\* The table an insertion puts its entry into.
Grown(lost) == IF IsFull(ht) THEN Rehash(ht, 2 * ht.i_size, lost) ELSE ht

\* T has the entries in R of the table, with their data.
IsGrown(T, R, S, age, pos2) ==
  /\ TableInv(T, R, age, pos2) /\ R \subseteq S
  /\ \A j \in R : StoredIn(T)[j] = StoredIn(ht)[j]

\* The grown table has the entries for which there was memory.
LEMMA GrownTable ==
  ASSUME IsFiniteSet(Keys), NEW S, NEW age, NEW pos, TableInv(ht, S, age, pos), NEW lost
  PROVE  \E R, pos2 : IsGrown(Grown(lost), R, S, age, pos2) /\ (~ IsFull(ht) => R = S)
<1>1. CASE IsFull(ht)
  <2>1. ht.i_size \in Nat \ {0}
    BY DEF TableInv, SizeOf
  <2> DEFINE size == 2 * ht.i_size
  <2>2. size \in Nat \ {0}
    BY <2>1
  <2>3. Grown(lost) = Rehash(ht, size, lost)
    BY <1>1 DEF Grown
  <2> HIDE DEF size
  <2>4. PICK pos2 : IsRehashed(ht, Rehash(ht, size, lost), size, S \ lost, age, pos2)
    BY <2>2, RehashWorks
  <2>5. IsGrown(Grown(lost), S \ lost, S, age, pos2)
    BY <2>3, <2>4 DEF IsRehashed, IsGrown
  <2>6. QED
    BY <1>1, <2>5
<1>2. CASE ~ IsFull(ht)
  <2>1. Grown(lost) = ht
    BY <1>2 DEF Grown
  <2>2. IsGrown(Grown(lost), S, S, age, pos)
    BY <2>1 DEF IsGrown
  <2>3. QED
    BY <2>2
<1>3. QED
  BY <1>1, <1>2

----------------------------------------------------------------------------
(* The steps.                                                              *)

\* The ages of other keys say nothing.
LEMMA Reaged ==
  ASSUME NEW T, NEW S, NEW age, NEW pos, TableInv(T, S, age, pos),
         NEW age2 \in [Keys -> Int], \A j \in S : age2[j] = age[j]
  PROVE  TableInv(T, S, age2, pos)
<1>1. NULL \notin Keys /\ S \in SUBSET Keys /\ AgesOK(T, S, age)
  BY HashAssumption DEF TableInv
<1>2. AgesOK(T, S, age2)
  <2>1. /\ \A j, k : Adjacent(S, age, j, k) => Adjacent(S, age2, j, k)
        /\ \A first, next, prev :
             Linked(S, first, next, prev, age) => Linked(S, first, next, prev, age2)
    BY <1>1, RankFrame
  <2>2. QED
    BY <1>1, <2>1 DEF AgesOK
<1>3. QED
  BY <1>2 DEF TableInv

\* A new entry can be newer than those of the table.
LEMMA NewerAge ==
  ASSUME NEW T, NEW S, NEW age, NEW pos, TableInv(T, S, age, pos), NEW k \in Keys \ S
  PROVE  \E age2 \in [Keys -> Int] : \A j \in S : age2[j] = age[j] /\ age2[j] < age2[k]
<1>1. /\ S \in SUBSET Keys /\ age \in [Keys -> Int] /\ NULL \notin Keys
      /\ Adjacent(S, age, NewestOf(T), NULL)
  BY HashAssumption DEF TableInv, AgesOK
<1>2. PICK n \in Int : \A j \in S : age[j] < n
  <2>1. CASE S = {}
    BY <2>1, 0 \in Int
  <2>2. CASE S # {}
    <3>1. /\ NewestOf(T) \in S \cup {NULL}
          /\ \A j \in S : NewestOf(T) # NULL /\ age[j] <= age[NewestOf(T)]
      BY <1>1 DEF Adjacent
    <3>2. age[NewestOf(T)] + 1 \in Int /\ \A j \in S : age[j] < age[NewestOf(T)] + 1
      BY <1>1, <2>2, <3>1
    <3>3. QED
      BY <3>2
  <2>3. QED
    BY <2>1, <2>2
<1> DEFINE age2 == [age EXCEPT ![k] = n]
<1>3. age2 \in [Keys -> Int] /\ age2[k] = n /\ \A j \in S : age2[j] = age[j]
  BY <1>1
<1> HIDE DEF age2
<1>4. QED
  BY <1>2, <1>3

\* U is T after the insertion of k, when the entries of S2 are left.
IsInserted(T, U, S, age, S2, age2, pos2, k, d) ==
  /\ TableInv(U, S2, age2, pos2)
  /\ k \in Keys \ S /\ k \in S2 /\ S2 \subseteq S \cup {k}
  /\ StoredIn(U)[k] = d /\ \A j \in S2 \ {k} : StoredIn(U)[j] = StoredIn(T)[j]
  /\ \A j \in S : age2[j] = age[j] /\ age2[j] < age2[k]

\* What an insertion leaves.
LEMMA InsertStep ==
  ASSUME IsFiniteSet(Keys), options \in Options,
         NEW S, NEW age, NEW pos, TableInv(ht, S, age, pos),
         NEW k \in Keys, NEW d \in DataOf[k], ght_insert(k, d)
  PROVE  \E S2, age2, pos2 :
           /\ IsInserted(ht, ht', S, age, S2, age2, pos2, k, d)
           /\ iterator.p_entry # NULL => S2 = S \cup {k}
<1>1. k \notin S
  BY FoundInTable DEF ght_insert
<1>2. PICK age2 \in [Keys -> Int] : \A j \in S : age2[j] = age[j] /\ age2[j] < age2[k]
  <2>1. k \in Keys \ S
    BY <1>1
  <2>2. QED
    BY <2>1, NewerAge
<1>3. TableInv(ht, S, age2, pos)
  BY <1>2, Reaged
<1>4. PICK lost : ht' = Place(Grown(lost), k, d, options.bucket_limit)
  BY Zenon DEF ght_insert, Grown
<1>5. PICK R, posR : IsGrown(Grown(lost), R, S, age2, posR) /\ (~ IsFull(ht) => R = S)
  BY <1>3, GrownTable
<1>6. d \in Data /\ options.bucket_limit \in Nat
  BY OptionsType, HashAssumption
<1> DEFINE T == Grown(lost)
<1> HIDE DEF T
<1>7. TableInv(T, R, age2, posR) /\ R \subseteq S /\ \A j \in R : StoredIn(T)[j] = StoredIn(ht)[j]
  BY <1>5 DEF IsGrown, T
<1>8. PICK S2, pos2 : /\ IsPlaced(T, Place(T, k, d, options.bucket_limit), R, S2, k, d, age2, pos2)
                      /\ options.bucket_limit = 0 => S2 = R \cup {k}
  <2>1. k \in Keys \ R /\ \A j \in R : age2[j] < age2[k]
    BY <1>1, <1>2, <1>7
  <2>2. QED
    BY <1>6, <1>7, <2>1, PlaceWorks
<1>9. IsPlaced(T, ht', R, S2, k, d, age2, pos2)
  BY <1>4, <1>8, Zenon DEF T
<1>10. IsInserted(ht, ht', S, age, S2, age2, pos2, k, d)
  BY <1>1, <1>2, <1>7, <1>9 DEF IsPlaced, IsInserted
<1>11. iterator.p_entry # NULL => S2 = S \cup {k}
  BY <1>5, <1>8 DEF ght_insert, SafeInsert
<1>12. QED
  BY <1>10, <1>11

\* What a lookup leaves.
LEMMA GetStep ==
  ASSUME IsFiniteSet(Keys), NEW S, NEW age, NEW pos, TableInv(ht, S, age, pos),
         NEW k \in Keys, ght_get(k)
  PROVE  /\ \E pos2 : TableInv(ht', S, age, pos2)
         /\ SameAges(ht, ht') /\ StoredIn(ht') = StoredIn(ht)
         /\ k \in S => result' = StoredIn(ht)[k]
         /\ k \notin S => result' = NoData
<1>1. Found(ht, k) <=> k \in S
  BY FoundInTable
<1>2. CASE k \in S
  <2>1. ht' = Promote(ht, k) /\ result' = StoredIn(ht)[k]
    BY <1>1, <1>2 DEF ght_get, StoredIn
  <2>2. PICK pos2 : IsPromoted(ht, Promote(ht, k), S, age, pos2)
    BY <1>2, PromoteWorks
  <2>3. IsPromoted(ht, ht', S, age, pos2)
    BY <2>1, <2>2, Zenon
  <2>4. QED
    BY <1>2, <2>1, <2>3 DEF IsPromoted, Relinked
<1>3. CASE k \notin S
  <2>1. ht' = ht /\ result' = NoData
    BY <1>1, <1>3 DEF ght_get
  <2>2. QED
    BY <1>3, <2>1 DEF SameAges
<1>4. QED
  BY <1>2, <1>3

\* What a replacement leaves.
LEMMA ReplaceStep ==
  ASSUME IsFiniteSet(Keys), NEW S, NEW age, NEW pos, TableInv(ht, S, age, pos),
         NEW k \in Keys, NEW d \in DataOf[k], ght_replace(k, d)
  PROVE  /\ \E pos2 : TableInv(ht', S, age, pos2)
         /\ SameAges(ht, ht') /\ k \in S /\ result' = StoredIn(ht)[k]
         /\ \A j \in Keys : StoredIn(ht')[j] = IF j = k THEN d ELSE StoredIn(ht)[j]
<1>1. k \in S /\ d \in Data /\ result' = StoredIn(ht)[k]
  BY FoundInTable, HashAssumption DEF ght_replace, StoredIn
<1> DEFINE T == Promote(ht, k)
<1>2. ht' = Storing(T, k, d)
  BY Zenon DEF ght_replace, Storing
<1>3. PICK pos2 : IsPromoted(ht, T, S, age, pos2)
  BY <1>1, PromoteWorks
<1> HIDE DEF T
<1>4. TableInv(T, S, age, pos2) /\ SameAges(ht, T) /\ StoredIn(T) = StoredIn(ht)
  BY <1>3 DEF IsPromoted, Relinked
<1>5. IsStored(T, Storing(T, k, d), S, k, d, age, pos2)
  BY <1>1, <1>4, StoringWorks
<1>6. IsStored(T, ht', S, k, d, age, pos2)
  BY <1>2, <1>5, Zenon
<1>7. QED
  BY <1>1, <1>4, <1>6 DEF IsStored, SameAges

\* What a removal leaves.
LEMMA RemoveStep ==
  ASSUME IsFiniteSet(Keys), NEW S, NEW age, NEW pos, TableInv(ht, S, age, pos),
         NEW k \in Keys, ght_remove(k)
  PROVE  /\ k \in S /\ result' = StoredIn(ht)[k]
         /\ IsRemoved(ht, ht', S, k, age, pos)
<1>1. k \in S /\ result' = StoredIn(ht)[k]
  BY FoundInTable DEF ght_remove, StoredIn
<1>2. ht' = OneLess(Unlinked(ht, BucketOf(ht, k), k), BucketOf(ht, k))
  BY Zenon DEF ght_remove, Unlinked, OneLess
<1>3. IsRemoved(ht, OneLess(Unlinked(ht, BucketOf(ht, k), k), BucketOf(ht, k)), S, k, age, pos)
  BY <1>1, RemoveWorks
<1>4. QED
  BY <1>1, <1>2, <1>3, Zenon

\* The entries an iteration has still to return.
LEMMA AheadEnumerates ==
  ASSUME IsFiniteSet(Keys), NEW T, NEW S, NEW age, NEW pos, TableInv(T, S, age, pos),
         NEW p \in S \cup {NULL}
  PROVE  /\ Enumerates(Chain(p, NewerOf(T)), From(S, age, p), age)
         /\ p # NULL => p \in Range(Chain(p, NewerOf(T)))
<1>1. /\ NULL \notin Keys /\ S \in SUBSET Keys /\ age \in [Keys -> Int]
      /\ Linked(S, OldestOf(T), NewerOf(T), OlderOf(T), age)
  BY HashAssumption DEF TableInv, AgesOK
<1> DEFINE c == Chain(p, NewerOf(T))
<1>2. Enumerates(c, From(S, age, p), age)
  BY <1>1, ChainEnumerates
<1> HIDE DEF c
<1>3. From(S, age, p) \subseteq S
  BY DEF From
<1>4. \A j \in From(S, age, p) : age[j] \in Int
  BY <1>1, <1>3
<1>5. Range(c) = From(S, age, p)
  BY <1>2, <1>4, EnumerationProperties
<1>6. p # NULL => p \in Range(c)
  BY <1>1, <1>5 DEF From
<1>7. QED
  BY <1>2, <1>6 DEF c

\* An iteration goes from an entry to the next.
LEMMA MoveStep ==
  ASSUME NEW S, NEW age, NEW pos, TableInv(ht, S, age, pos),
         NEW p \in S \cup {NULL}, MoveTo(p)
  PROVE  /\ ht' = ht /\ options' = options
         /\ iterator' \in [p_entry : Links, p_next : Links]
         /\ iterator'.p_entry = p /\ iterator'.p_next \in S \cup {NULL}
         /\ p = NULL => iterator'.p_next = NULL /\ result' = NoData
         /\ p # NULL => iterator'.p_next = NewerOf(ht)[p] /\ result' = StoredIn(ht)[p]
<1>1. /\ NULL \notin Keys /\ S \in SUBSET Keys /\ age \in [Keys -> Int]
      /\ Linked(S, OldestOf(ht), NewerOf(ht), OlderOf(ht), age)
  BY HashAssumption DEF TableInv, AgesOK
<1>2. \A j \in S : NewerOf(ht)[j] \in S \cup {NULL}
  BY <1>1, FromNext
<1>3. CASE p = NULL
  <2>1. ht' = ht /\ options' = options /\ iterator' = [p_entry |-> NULL, p_next |-> NULL]
        /\ result' = NoData
    BY <1>3 DEF MoveTo
  <2>2. QED
    BY <1>3, <2>1 DEF Links
<1>4. CASE p # NULL
  <2> DEFINE n == NewerOf(ht)[p]
  <2>1. /\ ht' = ht /\ options' = options /\ iterator' = [p_entry |-> p, p_next |-> n]
        /\ result' = StoredIn(ht)[p]
    BY <1>4 DEF MoveTo, NewerOf, StoredIn
  <2>2. n \in S \cup {NULL}
    BY <1>2, <1>4
  <2> HIDE DEF n
  <2>3. iterator'.p_entry = p /\ iterator'.p_next = n
        /\ iterator' \in [p_entry : Links, p_next : Links]
    BY <1>1, <2>1, <2>2 DEF Links
  <2>4. QED
    BY <1>4, <2>1, <2>2, <2>3 DEF n
<1>5. QED
  BY <1>3, <1>4

----------------------------------------------------------------------------
(* Every step keeps the invariant.                                         *)

\* The step leaves a table, and an iteration that goes on in it.
LEMMA HeldNext ==
  ASSUME NEW S2, NEW age2, NEW pos2, TableInv(ht', S2, age2, pos2),
         options' \in Options,
         iterator' \in [p_entry : Links, p_next : Links],
         iterator'.p_entry = NULL => iterator'.p_next = NULL,
         iterator'.p_next \in S2 \cup {NULL}
  PROVE  IInv'
<1>1. Held(S2, age2, pos2)'
  BY DEF Held
<1>2. QED
  BY <1>1 DEF IInv

\* No step of Next falsifies the invariant.
LEMMA InductiveStep ==
  ASSUME IInv, [Next]_vars
  PROVE  IInv'
<1>1. /\ IsFiniteSet(Keys) /\ NULL \notin Keys
      /\ options \in Options /\ iterator \in [p_entry : Links, p_next : Links]
      /\ iterator.p_entry = NULL => iterator.p_next = NULL
  BY HashAssumption DEF IInv
<1>2. PICK S, age, pos : TableInv(ht, S, age, pos) /\ iterator.p_next \in S \cup {NULL}
  BY DEF IInv, Held
<1>3. ASSUME NEW k \in Keys, ght_get(k) PROVE IInv'
  <2>1. PICK pos2 : TableInv(ht', S, age, pos2)
    BY <1>1, <1>2, <1>3, GetStep
  <2>2. options' = options /\ iterator' = iterator
    BY <1>3 DEF ght_get
  <2>3. QED
    BY <1>1, <1>2, <2>1, <2>2, HeldNext
<1>4. ASSUME NEW k \in Keys, ght_remove(k) PROVE IInv'
  <2>1. IsRemoved(ht, ht', S, k, age, pos)
    BY <1>1, <1>2, <1>4, RemoveStep
  <2>2. TableInv(ht', S \ {k}, age, pos)
    BY <2>1 DEF IsRemoved
  <2>3. options' = options /\ iterator' = iterator
    BY <1>4 DEF ght_remove
  <2>4. k \notin Range(Chain(iterator.p_next, NewerOf(ht)))
    BY <1>4 DEF ght_remove, NewerOf
  <2>5. iterator.p_next # NULL =>
          iterator.p_next \in Range(Chain(iterator.p_next, NewerOf(ht)))
    BY <1>1, <1>2, AheadEnumerates
  <2>6. iterator.p_next \in (S \ {k}) \cup {NULL}
    BY <1>2, <2>4, <2>5
  <2>7. QED
    BY <1>1, <2>2, <2>3, <2>6, HeldNext
<1>5. ASSUME NEW k \in Keys, NEW d \in DataOf[k], ght_insert(k, d) PROVE IInv'
  <2>1. PICK S2, age2, pos2 :
          /\ IsInserted(ht, ht', S, age, S2, age2, pos2, k, d)
          /\ iterator.p_entry # NULL => S2 = S \cup {k}
    BY <1>1, <1>2, <1>5, InsertStep
  <2>2. TableInv(ht', S2, age2, pos2)
    BY <2>1 DEF IsInserted
  <2>3. options' = options /\ iterator' = iterator
    BY <1>5 DEF ght_insert
  <2>4. iterator.p_next \in S2 \cup {NULL}
    BY <1>1, <1>2, <2>1
  <2>5. QED
    BY <1>1, <2>2, <2>3, <2>4, HeldNext
<1>6. ASSUME NEW k \in Keys, NEW d \in DataOf[k], ght_replace(k, d) PROVE IInv'
  <2>1. PICK pos2 : TableInv(ht', S, age, pos2)
    BY <1>1, <1>2, <1>6, ReplaceStep
  <2>2. options' = options /\ iterator' = iterator
    BY <1>6 DEF ght_replace
  <2>3. QED
    BY <1>1, <1>2, <2>1, <2>2, HeldNext
<1>7. ASSUME NEW p \in S \cup {NULL}, MoveTo(p) PROVE IInv'
  <2>1. /\ ht' = ht /\ options' = options
        /\ iterator' \in [p_entry : Links, p_next : Links]
        /\ iterator'.p_entry = p /\ iterator'.p_next \in S \cup {NULL}
        /\ p = NULL => iterator'.p_next = NULL
    BY <1>2, <1>7, MoveStep
  <2>2. QED
    BY <1>1, <1>2, <2>1, HeldNext
<1>8. CASE ght_first
  <2>1. OldestOf(ht) \in S \cup {NULL} /\ MoveTo(OldestOf(ht))
    BY <1>2, <1>8 DEF ght_first, OldestOf, TableInv, AgesOK, Linked, Adjacent
  <2>2. QED
    BY <1>7, <2>1
<1>9. CASE ght_next
  BY <1>2, <1>7, <1>9 DEF ght_next
<1>10. CASE ght_finalize
  <2>1. ht' = Create(Size) /\ options' = options /\ iterator' = iterator
        /\ iterator.p_entry = NULL
    BY <1>10 DEF ght_finalize
  <2>2. TableInv(Create(Size), {}, age, pos)
    BY <1>2, CreateWorks, HashAssumption DEF TableInv
  <2>3. TableInv(ht', {}, age, pos)
    BY <2>1, <2>2, Zenon
  <2>4. QED
    BY <1>1, <2>1, <2>3, HeldNext
<1>11. CASE UNCHANGED vars
  <2>1. ht' = ht /\ options' = options /\ iterator' = iterator
    BY <1>11 DEF vars
  <2>2. QED
    BY <1>1, <1>2, <2>1, HeldNext
<1>12. QED
  BY <1>3, <1>4, <1>5, <1>6, <1>8, <1>9, <1>10, <1>11 DEF Next

\* In every reachable state the table is one of lists: some keys are in it, ranked
\* by age and within their buckets, all links are those of the ranks, the other
\* keys are clear, and the iteration goes on at an entry that is in the table.
THEOREM Inductive == Spec => []IInv
<1>1. Init => IInv
  BY InitHeld
<1>2. IInv /\ [Next]_vars => IInv'
  BY InductiveStep
<1>3. QED
  BY <1>1, <1>2, PTL DEF Spec

\* Every entry that is allocated is once in the list of ages and once in its
\* bucket, both lists are linked both ways, and the counts are those of the
\* lists, after any calls of ght_insert, ght_get, ght_replace, ght_remove.
THEOREM ListsAlwaysAgree == Spec => []ListsAgree
<1>1. IInv => ListsAgree
  <2> SUFFICES ASSUME IInv PROVE ListsAgree
    OBVIOUS
  <2>1. PICK S, age, pos : TableInv(ht, S, age, pos)
    BY DEF IInv, Held
  <2>2. IsFiniteSet(Keys)
    BY HashAssumption
  <2>3. QED
    BY <2>1, <2>2, ListsAgreeInTable
<1>2. QED
  BY <1>1, Inductive, PTL

----------------------------------------------------------------------------
(* The table as a map in the order of the ages.                            *)

\* The entry of the map for k.
Entry(k, data) == [key |-> k, data |-> data[k]]

\* The content of the map, when the list of ages is s.
ContentOf(s, data) == [i \in DOMAIN s |-> Entry(s[i], data)]

\* c is the map of the entries of S, ordered by age.
IsContent(c, s, S, age, data) ==
  Enumerates(s, S, age) /\ c = ContentOf(s, data)

\* The content of a table is that of its entries by their age.
LEMMA ContentOfTable ==
  ASSUME IsFiniteSet(Keys), NEW T, NEW S, NEW age, NEW pos, TableInv(T, S, age, pos)
  PROVE  IsContent(ContentOf(Ages(T), StoredIn(T)), Ages(T), S, age, StoredIn(T))
BY AgesEnumerated DEF IsContent

\* What the content holds.
ContentHolds(c, s, S, data) ==
  /\ Len(s) \in Nat /\ DOMAIN c = 1..Len(s) /\ DOMAIN s = 1..Len(s)
  /\ \A i \in 1..Len(s) : c[i] = Entry(s[i], data) /\ s[i] \in S
  /\ \A k \in S : Entry(k, data) \in Range(c)
  /\ \A e \in Range(c) : e.key \in S /\ e = Entry(e.key, data)
  /\ {e.key : e \in Range(c)} = S
  /\ c \in Seq(Range(c))

\* The content has an entry for each key of the table, and no other.
LEMMA ContentProperties ==
  ASSUME NEW S \in SUBSET Keys, NEW age \in [Keys -> Int], NEW s, NEW data, NEW c,
         IsContent(c, s, S, age, data)
  PROVE  ContentHolds(c, s, S, data)
<1>1. \A k \in S : age[k] \in Int
  OBVIOUS
<1>2. Enumerates(s, S, age) /\ c = ContentOf(s, data)
  BY DEF IsContent
<1>3. /\ Len(s) \in Nat /\ DOMAIN s = 1..Len(s) /\ \A i \in 1..Len(s) : s[i] \in S
  BY <1>1, <1>2, EnumerationProperties
<1>4. DOMAIN c = 1..Len(s) /\ \A i \in 1..Len(s) : c[i] = Entry(s[i], data)
  BY <1>2, <1>3 DEF ContentOf
<1>5. \A k \in S : \E i \in 1..Len(s) : s[i] = k
  BY <1>2 DEF Enumerates
<1>6. \A k \in S : Entry(k, data) \in Range(c)
  BY <1>4, <1>5 DEF Range
<1>7. \A k : Entry(k, data).key = k
  BY DEF Entry
<1>8. \A e \in Range(c) : e.key \in S /\ e = Entry(e.key, data)
  <2> SUFFICES ASSUME NEW e \in Range(c) PROVE e.key \in S /\ e = Entry(e.key, data)
    OBVIOUS
  <2>1. PICK i \in 1..Len(s) : e = c[i]
    BY <1>4 DEF Range
  <2>2. QED
    BY <1>3, <1>4, <1>7, <2>1
<1>9. {e.key : e \in Range(c)} = S
  <2>1. \A k \in S : Entry(k, data) \in Range(c) /\ Entry(k, data).key = k
    BY <1>6, <1>7
  <2>2. QED
    BY <1>8, <2>1
<1>10. c \in Seq(Range(c))
  <2>1. c = [i \in 1..Len(s) |-> c[i]]
    BY <1>2, <1>3 DEF ContentOf
  <2>2. \A i \in 1..Len(s) : c[i] \in Range(c)
    BY <1>4 DEF Range
  <2>3. c \in [1..Len(s) -> Range(c)]
    BY <2>1, <2>2
  <2>4. QED
    BY <1>3, <2>3, SeqDef
<1>11. QED
  BY <1>3, <1>4, <1>6, <1>8, <1>9, <1>10, Zenon DEF ContentHolds

\* A new entry with the greatest age is appended to an enumeration.
LEMMA EnumeratesAppend ==
  ASSUME NEW S \in SUBSET Keys, NEW k \in Keys \ S, NEW age \in [Keys -> Int],
         \A j \in S : age[j] < age[k], NEW s, Enumerates(s, S, age)
  PROVE  Enumerates(Append(s, k), S \cup {k}, age)
<1> DEFINE U == S \cup {k}
           t == Append(s, k)
<1>1. s \in Seq(S) /\ Len(s) \in Nat /\ s \in Seq(U) /\ k \in U
  BY SeqMonotonic DEF Enumerates
<1>2. /\ t \in Seq(U) /\ Len(t) = Len(s) + 1 /\ t[Len(s) + 1] = k
      /\ \A i \in 1..Len(s) : t[i] = s[i] /\ s[i] \in S
  BY <1>1, AppendProperties, ElementOfSeq
<1> HIDE DEF t, U
<1>3. ASSUME NEW i \in 1..Len(t), NEW j \in 1..Len(t), i < j
      PROVE  age[t[i]] < age[t[j]]
  <2>1. i \in 1..Len(s)
    BY <1>1, <1>2, <1>3
  <2>2. CASE j = Len(s) + 1
    BY <1>2, <2>1, <2>2
  <2>3. CASE j # Len(s) + 1
    <3>1. j \in 1..Len(s)
      BY <1>1, <1>2, <2>3
    <3>2. age[s[i]] < age[s[j]]
      BY <1>3, <2>1, <3>1 DEF Enumerates
    <3>3. QED
      BY <1>2, <2>1, <3>1, <3>2
  <2>4. QED
    BY <2>2, <2>3
<1>4. ASSUME NEW j \in U PROVE \E i \in 1..Len(t) : t[i] = j
  <2>1. CASE j = k
    BY <1>1, <1>2, <2>1
  <2>2. CASE j \in S
    <3>1. PICK i \in 1..Len(s) : s[i] = j
      BY <2>2 DEF Enumerates
    <3>2. QED
      BY <1>1, <1>2, <3>1
  <2>3. QED
    BY <2>1, <2>2 DEF U
<1>5. QED
  BY <1>2, <1>3, <1>4 DEF Enumerates, t, U

\* Ages on which the entries of S agree enumerate S alike.
LEMMA EnumeratesFrame ==
  ASSUME NEW S, NEW age, NEW age2, \A j \in S : age2[j] = age[j],
         NEW s, Enumerates(s, S, age)
  PROVE  Enumerates(s, S, age2)
<1>1. s \in Seq(S) /\ \A i \in 1..Len(s) : s[i] \in S
  BY ElementOfSeq DEF Enumerates
<1>2. QED
  BY <1>1 DEF Enumerates

\* The entries of S2, which are in S, come in the order they have in S.
IsSubOrder(s2, s) ==
  \A i, j \in 1..Len(s2) : i < j =>
    \E m, n \in 1..Len(s) : m < n /\ s[m] = s2[i] /\ s[n] = s2[j]

\* The enumeration of a subset is in the order of the whole.
LEMMA SubEnumeration ==
  ASSUME NEW S \in SUBSET Keys, NEW S2 \in SUBSET S, NEW age \in [Keys -> Int],
         NEW s, Enumerates(s, S, age), NEW s2, Enumerates(s2, S2, age)
  PROVE  IsSubOrder(s2, s)
<1>1. \A k \in S : age[k] \in Int
  OBVIOUS
<1>2. Len(s) \in Nat /\ Len(s2) \in Nat /\ \A i \in 1..Len(s2) : s2[i] \in S2
  <2>1. \A k \in S2 : age[k] \in Int
    OBVIOUS
  <2>2. QED
    BY <1>1, <2>1, EnumerationProperties
<1> SUFFICES ASSUME NEW i \in 1..Len(s2), NEW j \in 1..Len(s2), i < j
             PROVE  \E m, n \in 1..Len(s) : m < n /\ s[m] = s2[i] /\ s[n] = s2[j]
  BY DEF IsSubOrder
<1>3. age[s2[i]] < age[s2[j]] /\ s2[i] \in S /\ s2[j] \in S
  BY <1>2 DEF Enumerates
<1>4. PICK m \in 1..Len(s) : s[m] = s2[i]
  BY <1>3 DEF Enumerates
<1>5. PICK n \in 1..Len(s) : s[n] = s2[j]
  BY <1>3 DEF Enumerates
<1>6. n < m => age[s[n]] < age[s[m]]
  BY DEF Enumerates
<1>7. m < n
  <2>1. age[s2[i]] \in Int /\ age[s2[j]] \in Int
    BY <1>1, <1>3
  <2>2. m # n
    BY <1>3, <1>4, <1>5, <2>1
  <2>3. ~ (n < m)
    BY <1>3, <1>4, <1>5, <1>6, <2>1
  <2>4. QED
    BY <1>2, <2>2, <2>3
<1>8. QED
  BY <1>4, <1>5, <1>7

----------------------------------------------------------------------------
(* What the operations do to the map.                                      *)

\* These are some of those, in the same order.
AreSome(these, those) ==
  /\ these \in Seq(Range(those))
  /\ \A i, j \in DOMAIN these : i < j =>
       \E m, n \in DOMAIN those : m < n /\ those[m] = these[i] /\ those[n] = these[j]

\* The content is determined by the entries, their order and their data.
LEMMA ContentIsUnique ==
  ASSUME NEW S \in SUBSET Keys, NEW age \in [Keys -> Int], NEW s, NEW s2, NEW c, NEW c2,
         NEW data, NEW data2, IsContent(c, s, S, age, data), IsContent(c2, s2, S, age, data2),
         \A j \in S : data2[j] = data[j]
  PROVE  c2 = c
<1>1. \A k \in S : age[k] \in Int
  OBVIOUS
<1>2. Enumerates(s, S, age) /\ Enumerates(s2, S, age)
  BY DEF IsContent
<1>3. s2 = s
  BY <1>1, <1>2, EnumerationIsUnique
<1>4. DOMAIN s = 1..Len(s) /\ \A i \in 1..Len(s) : s[i] \in S
  BY <1>1, <1>2, EnumerationProperties
<1>5. \A i \in DOMAIN s : Entry(s[i], data2) = Entry(s[i], data)
  BY <1>4 DEF Entry
<1>6. ContentOf(s, data2) = ContentOf(s, data)
  BY <1>5 DEF ContentOf
<1>7. QED
  BY <1>3, <1>6 DEF IsContent

\* Entries that are left come in the order they had.
LEMMA SubContent ==
  ASSUME NEW S \in SUBSET Keys, NEW S2 \in SUBSET S, NEW age \in [Keys -> Int],
         NEW s, NEW s2, NEW c, NEW c2, NEW data, NEW data2,
         IsContent(c, s, S, age, data), IsContent(c2, s2, S2, age, data2),
         \A j \in S2 : data2[j] = data[j]
  PROVE  AreSome(c2, c)
<1>1. Enumerates(s, S, age) /\ Enumerates(s2, S2, age) /\ S2 \in SUBSET Keys
  BY DEF IsContent
<1>2. /\ DOMAIN c = 1..Len(s)
      /\ \A i \in 1..Len(s) : c[i] = Entry(s[i], data) /\ s[i] \in S
      /\ \A k \in S : Entry(k, data) \in Range(c)
  <2>1. ContentHolds(c, s, S, data)
    BY ContentProperties
  <2>2. QED
    BY <2>1, Zenon DEF ContentHolds
<1>3. /\ Len(s2) \in Nat /\ DOMAIN c2 = 1..Len(s2) /\ DOMAIN s2 = 1..Len(s2)
      /\ \A i \in 1..Len(s2) : c2[i] = Entry(s2[i], data2) /\ s2[i] \in S2
  <2>1. ContentHolds(c2, s2, S2, data2)
    BY <1>1, ContentProperties
  <2>2. QED
    BY <2>1, Zenon DEF ContentHolds
<1>4. \A i \in 1..Len(s2) : c2[i] = Entry(s2[i], data)
  BY <1>3 DEF Entry
<1>5. c2 \in Seq(Range(c))
  <2>1. \A i \in 1..Len(s2) : c2[i] \in Range(c)
    BY <1>2, <1>3, <1>4
  <2>2. c2 = [i \in 1..Len(s2) |-> c2[i]]
    BY <1>3 DEF IsContent, ContentOf
  <2>3. c2 \in [1..Len(s2) -> Range(c)]
    BY <2>1, <2>2
  <2>4. QED
    BY <1>3, <2>3, SeqDef
<1>6. \A i, j \in 1..Len(s2) : i < j =>
        \E m, n \in 1..Len(s) : m < n /\ s[m] = s2[i] /\ s[n] = s2[j]
  <2>1. IsSubOrder(s2, s)
    BY <1>1, SubEnumeration
  <2>2. QED
    BY <2>1, Zenon DEF IsSubOrder
<1>7. DOMAIN c = 1..Len(s) /\ DOMAIN c2 = 1..Len(s2)
  BY <1>2, <1>3
<1>8. ASSUME NEW i \in DOMAIN c2, NEW j \in DOMAIN c2, i < j
      PROVE  \E m, n \in DOMAIN c : m < n /\ c[m] = c2[i] /\ c[n] = c2[j]
  <2>1. i \in 1..Len(s2) /\ j \in 1..Len(s2)
    BY <1>7
  <2>2. PICK m \in 1..Len(s), n \in 1..Len(s) : m < n /\ s[m] = s2[i] /\ s[n] = s2[j]
    BY <1>6, <1>8, <2>1
  <2>3. c[m] = c2[i] /\ c[n] = c2[j]
    BY <1>2, <1>4, <2>1, <2>2
  <2>4. m \in DOMAIN c /\ n \in DOMAIN c
    BY <1>7, <2>2
  <2>5. QED
    BY <2>2, <2>3, <2>4, Zenon
<1>9. QED
  BY <1>5, <1>8, Zenon DEF AreSome

\* The content with a new entry.
LEMMA ContentAppend ==
  ASSUME NEW S \in SUBSET Keys, NEW k \in Keys \ S,
         NEW age \in [Keys -> Int], NEW age2 \in [Keys -> Int],
         \A j \in S : age2[j] = age[j] /\ age2[j] < age2[k],
         NEW s, NEW c, NEW data, IsContent(c, s, S, age, data),
         NEW data2, \A j \in S : data2[j] = data[j]
  PROVE  IsContent(Append(c, Entry(k, data2)), Append(s, k), S \cup {k}, age2, data2)
<1>1. Enumerates(s, S, age)
  BY DEF IsContent
<1>2. Enumerates(s, S, age2)
  BY <1>1, EnumeratesFrame
<1>3. Enumerates(Append(s, k), S \cup {k}, age2)
  BY <1>2, EnumeratesAppend
<1>4. /\ Len(s) \in Nat /\ DOMAIN c = 1..Len(s) /\ c \in Seq(Range(c))
      /\ \A i \in 1..Len(s) : c[i] = Entry(s[i], data) /\ s[i] \in S
  <2>1. ContentHolds(c, s, S, data)
    BY ContentProperties
  <2>2. QED
    BY <2>1, Zenon DEF ContentHolds
<1> DEFINE e == Entry(k, data2)
           U == Range(c) \cup {e}
           c2 == Append(c, e)
           t == Append(s, k)
<1>5. Len(c) = Len(s)
  BY <1>4, LenProperties
<1>6. \A i \in 1..Len(s) : c[i] = Entry(s[i], data2)
  BY <1>4 DEF Entry
<1>7. c \in Seq(U) /\ e \in U
  BY <1>4, SeqMonotonic
<1>8. s \in Seq(Keys) /\ k \in Keys
  BY <1>1, SeqMonotonic DEF Enumerates
<1>9. /\ Len(t) = Len(s) + 1 /\ DOMAIN t = 1..Len(s)+1 /\ t[Len(s)+1] = k
      /\ \A i \in 1..Len(s) : t[i] = s[i]
  BY <1>8, AppendProperties, LenProperties
<1> HIDE DEF e, U, t
<1>10. /\ c2 \in Seq(U) /\ Len(c2) = Len(s) + 1 /\ c2[Len(s)+1] = e
       /\ \A i \in 1..Len(s) : c2[i] = c[i]
  BY <1>5, <1>7, AppendProperties
<1> HIDE DEF c2
<1>11. c2 = [i \in 1..Len(s)+1 |-> c2[i]]
  <2>1. c2 \in [1..Len(s)+1 -> U]
    BY <1>10, LenProperties
  <2>2. QED
    BY <2>1
<1>12. \A i \in 1..Len(s)+1 : c2[i] = Entry(t[i], data2)
  <2> SUFFICES ASSUME NEW i \in 1..Len(s)+1 PROVE c2[i] = Entry(t[i], data2)
    OBVIOUS
  <2>1. CASE i = Len(s)+1
    BY <1>9, <1>10, <2>1 DEF e
  <2>2. CASE i # Len(s)+1
    <3>1. i \in 1..Len(s)
      BY <1>4, <2>2
    <3>2. QED
      BY <1>6, <1>9, <1>10, <3>1
  <2>3. QED
    BY <2>1, <2>2
<1>13. c2 = ContentOf(t, data2)
  <2>1. ContentOf(t, data2) = [i \in 1..Len(s)+1 |-> Entry(t[i], data2)]
    BY <1>9 DEF ContentOf
  <2>2. QED
    BY <1>11, <1>12, <2>1
<1>14. QED
  BY <1>3, <1>13, Zenon DEF IsContent, c2, t, e

\* The map of a table.
TableContent(T) == ContentOf(Ages(T), StoredIn(T))

\* The map of a table has what the table holds.
LEMMA TableContentIsContent ==
  ASSUME IsFiniteSet(Keys), NEW T, NEW S, NEW age, NEW pos, TableInv(T, S, age, pos)
  PROVE  /\ S \in SUBSET Keys /\ age \in [Keys -> Int]
         /\ IsContent(TableContent(T), Ages(T), S, age, StoredIn(T))
         /\ ContentHolds(TableContent(T), Ages(T), S, StoredIn(T))
<1>1. S \in SUBSET Keys /\ age \in [Keys -> Int]
  BY DEF TableInv
<1>2. IsContent(TableContent(T), Ages(T), S, age, StoredIn(T))
  BY ContentOfTable DEF TableContent
<1>3. QED
  BY <1>1, <1>2, ContentProperties

\* The map has the keys of the entries, and returns what is stored for them.
LEMMA MapHas ==
  ASSUME IsFiniteSet(Keys), NEW T, NEW S, NEW age, NEW pos, TableInv(T, S, age, pos), NEW k
  PROVE  k \in {e.key : e \in Range(TableContent(T))} <=> k \in S
<1>1. ContentHolds(TableContent(T), Ages(T), S, StoredIn(T))
  BY TableContentIsContent
<1>2. {e.key : e \in Range(TableContent(T))} = S
  BY <1>1, Zenon DEF ContentHolds
<1>3. QED
  BY <1>2

\* The data that the map has for a key are those of the table.
LEMMA MapReturns ==
  ASSUME IsFiniteSet(Keys), NEW T, NEW S, NEW age, NEW pos, TableInv(T, S, age, pos),
         NEW k \in S
  PROVE  (CHOOSE e \in Range(TableContent(T)) : e.key = k).data = StoredIn(T)[k]
<1> DEFINE C == Range(TableContent(T))
           data == StoredIn(T)
<1>1. ContentHolds(TableContent(T), Ages(T), S, data)
  BY TableContentIsContent
<1>2. Entry(k, data) \in C /\ \A e \in C : e = Entry(e.key, data)
  BY <1>1, Zenon DEF ContentHolds
<1> HIDE DEF C, data
<1>3. Entry(k, data).key = k /\ Entry(k, data).data = data[k]
  BY DEF Entry
<1>4. \A e \in C : e.key = k => e = Entry(k, data)
  BY <1>2, Zenon
<1>5. (CHOOSE e \in C : e.key = k) = Entry(k, data)
  BY <1>2, <1>3, <1>4
<1>6. QED
  BY <1>3, <1>5 DEF C, data

\* A map after an insertion; whole, when nothing was given up.
MapInserted(c, c2, e, whole) ==
  /\ e \in Range(c2) /\ AreSome(c2, Append(c, e))
  /\ whole => c2 = Append(c, e)

\* An insertion appends to the map, of which entries may be given up.
LEMMA InsertContent ==
  ASSUME IsFiniteSet(Keys), NEW T, NEW U, NEW S, NEW age, NEW pos, TableInv(T, S, age, pos),
         NEW S2, NEW age2, NEW pos2, NEW k, NEW d,
         IsInserted(T, U, S, age, S2, age2, pos2, k, d)
  PROVE  MapInserted(TableContent(T), TableContent(U), [key |-> k, data |-> d],
                     S2 = S \cup {k})
<1> DEFINE c == TableContent(T)
           c2 == TableContent(U)
           data == StoredIn(T)
           data2 == [j \in Keys |-> IF j = k THEN d ELSE data[j]]
           e == Entry(k, data2)
           R == S \cup {k}
<1>1. S \in SUBSET Keys /\ age \in [Keys -> Int] /\ IsContent(c, Ages(T), S, age, data)
  BY TableContentIsContent
<1>2. /\ TableInv(U, S2, age2, pos2)
      /\ k \in Keys \ S /\ k \in S2 /\ S2 \subseteq R
      /\ StoredIn(U)[k] = d /\ \A j \in S2 \ {k} : StoredIn(U)[j] = data[j]
      /\ \A j \in S : age2[j] = age[j] /\ age2[j] < age2[k]
  BY DEF IsInserted
<1>3. /\ S2 \in SUBSET Keys /\ age2 \in [Keys -> Int]
      /\ IsContent(c2, Ages(U), S2, age2, StoredIn(U))
      /\ ContentHolds(c2, Ages(U), S2, StoredIn(U))
  BY <1>2, TableContentIsContent
<1>4. e = [key |-> k, data |-> d]
  BY <1>2 DEF Entry
<1>5. \A j \in S : data2[j] = data[j]
  BY <1>1, <1>2
<1>6. \A j \in S2 : StoredIn(U)[j] = data2[j]
  BY <1>2, <1>3
<1> HIDE DEF c, c2, data, data2
<1>7. IsContent(Append(c, e), Append(Ages(T), k), R, age2, data2)
  BY <1>1, <1>2, <1>3, <1>5, ContentAppend
<1>8. e \in Range(c2)
  <2>1. Entry(k, StoredIn(U)) \in Range(c2)
    BY <1>2, <1>3, Zenon DEF ContentHolds
  <2>2. Entry(k, StoredIn(U)) = Entry(k, data2)
    BY <1>2, <1>6 DEF Entry
  <2>3. QED
    BY <2>1, <2>2
<1> HIDE DEF e
<1>9. R \in SUBSET Keys
  BY <1>1, <1>2
<1> HIDE DEF R
<1>10. AreSome(c2, Append(c, e))
  <2>1. S2 \in SUBSET R
    BY <1>2
  <2>2. QED
    BY <1>3, <1>6, <1>7, <1>9, <2>1, SubContent
<1>11. ASSUME S2 = R PROVE c2 = Append(c, e)
  <2>1. IsContent(c2, Ages(U), R, age2, StoredIn(U)) /\ \A j \in R : StoredIn(U)[j] = data2[j]
    BY <1>3, <1>6, <1>11
  <2> DEFINE c3 == Append(c, e)
             s3 == Append(Ages(T), k)
             s2 == Ages(U)
             data3 == StoredIn(U)
  <2>2. IsContent(c3, s3, R, age2, data2)
    BY <1>7
  <2>3. IsContent(c2, s2, R, age2, data3) /\ \A j \in R : data3[j] = data2[j]
    BY <2>1
  <2> HIDE DEF c3, s3, s2, data3
  <2>4. age2 \in [Keys -> Int]
    BY <1>3
  <2>5. c2 = c3
    BY <1>9, <2>2, <2>3, <2>4, ContentIsUnique
  <2>6. QED
    BY <2>5 DEF c3
<1>12. MapInserted(c, c2, e, S2 = R)
  BY <1>8, <1>10, <1>11, Zenon DEF MapInserted
<1>13. QED
  BY <1>4, <1>12, Zenon DEF c, c2, R

\* A map after a removal.
MapRemoved(c, c2, k) ==
  AreSome(c2, c) /\ Range(c2) = {e \in Range(c) : e.key # k}

\* A removal takes one key from the map.
LEMMA RemoveContent ==
  ASSUME IsFiniteSet(Keys), NEW T, NEW U, NEW S, NEW age, NEW pos, TableInv(T, S, age, pos),
         NEW k, IsRemoved(T, U, S, k, age, pos)
  PROVE  MapRemoved(TableContent(T), TableContent(U), k)
<1> DEFINE c == TableContent(T)
           c2 == TableContent(U)
           data == StoredIn(T)
           data2 == StoredIn(U)
           S2 == S \ {k}
<1>1. /\ S \in SUBSET Keys /\ age \in [Keys -> Int] /\ IsContent(c, Ages(T), S, age, data)
      /\ ContentHolds(c, Ages(T), S, data)
  BY TableContentIsContent
<1>2. TableInv(U, S2, age, pos) /\ \A j \in S2 : data2[j] = data[j]
  BY DEF IsRemoved
<1> HIDE DEF S2
<1>3. IsContent(c2, Ages(U), S2, age, data2) /\ ContentHolds(c2, Ages(U), S2, data2)
  BY <1>2, TableContentIsContent
<1> HIDE DEF c, c2, data, data2
<1>4. AreSome(c2, c)
  <2>1. S2 \in SUBSET S
    BY DEF S2
  <2>2. QED
    BY <1>1, <1>2, <1>3, <2>1, SubContent
<1>5. /\ \A j \in S : Entry(j, data) \in Range(c)
      /\ \A e \in Range(c) : e.key \in S /\ e = Entry(e.key, data)
  BY <1>1, Zenon DEF ContentHolds
<1>6. /\ \A j \in S2 : Entry(j, data2) \in Range(c2)
      /\ \A e \in Range(c2) : e.key \in S2 /\ e = Entry(e.key, data2)
  BY <1>3, Zenon DEF ContentHolds
<1>7. \A j \in S2 : Entry(j, data2) = Entry(j, data)
  BY <1>2 DEF Entry
<1>8. \A e \in Range(c2) : e \in Range(c) /\ e.key # k
  BY <1>5, <1>6, <1>7 DEF S2
<1>9. \A e \in Range(c) : e.key # k => e \in Range(c2)
  BY <1>5, <1>6, <1>7 DEF S2
<1>10. Range(c2) = {e \in Range(c) : e.key # k}
  BY <1>8, <1>9
<1>11. QED
  BY <1>4, <1>10, Zenon DEF MapRemoved, c, c2

\* A map after a replacement.
MapReplaced(c, c2, k, d) ==
  c2 = [i \in DOMAIN c |-> IF c[i].key = k THEN [c[i] EXCEPT !.data = d] ELSE c[i]]

\* A replacement leaves the order of the map alone.
LEMMA ReplaceContent ==
  ASSUME IsFiniteSet(Keys), NEW T, NEW U, NEW S, NEW age, NEW pos, TableInv(T, S, age, pos),
         SameAges(T, U), NEW k, NEW d,
         \A j \in Keys : StoredIn(U)[j] = IF j = k THEN d ELSE StoredIn(T)[j]
  PROVE  MapReplaced(TableContent(T), TableContent(U), k, d)
<1> DEFINE s == Ages(T)
           c == TableContent(T)
           data == StoredIn(T)
           data2 == StoredIn(U)
<1>1. S \in SUBSET Keys /\ ContentHolds(c, s, S, data)
  BY TableContentIsContent
<1>2. Ages(U) = s
  BY DEF Ages, SameAges, OldestOf, NewerOf
<1>3. TableContent(U) = [i \in DOMAIN s |-> Entry(s[i], data2)]
  BY <1>2 DEF TableContent, ContentOf
<1> HIDE DEF s, c
<1>4. DOMAIN c = DOMAIN s /\ \A i \in DOMAIN s : c[i] = Entry(s[i], data) /\ s[i] \in Keys
  BY <1>1 DEF ContentHolds
<1>5. ASSUME NEW i \in DOMAIN s
      PROVE  Entry(s[i], data2) = IF c[i].key = k THEN [c[i] EXCEPT !.data = d] ELSE c[i]
  <2>1. s[i] \in Keys /\ c[i] = Entry(s[i], data)
    BY <1>4
  <2>2. data2[s[i]] = IF s[i] = k THEN d ELSE data[s[i]]
    BY <2>1
  <2> HIDE DEF data, data2
  <2>3. QED
    BY <2>1, <2>2 DEF Entry
<1>6. QED
  BY <1>3, <1>4, <1>5 DEF MapReplaced, c

\* A lookup leaves the map alone.
LEMMA GetContent ==
  ASSUME NEW T, NEW U, SameAges(T, U), StoredIn(U) = StoredIn(T)
  PROVE  Ages(U) = Ages(T) /\ TableContent(U) = TableContent(T)
BY DEF TableContent, Ages, SameAges, OldestOf, NewerOf

\* A table without entries is the empty map.
LEMMA EmptyContent ==
  ASSUME IsFiniteSet(Keys), NEW T, NEW age, NEW pos, TableInv(T, {}, age, pos)
  PROVE  TableContent(T) = << >>
<1> DEFINE s == Ages(T)
<1>1. Enumerates(s, {}, age)
  BY AgesEnumerated
<1> HIDE DEF s
<1>2. \A k \in {} : age[k] \in Int
  OBVIOUS
<1>3. s = << >>
  BY <1>1, <1>2, EnumerationProperties
<1>4. ContentOf(s, StoredIn(T)) = << >>
  BY <1>3 DEF ContentOf
<1>5. QED
  BY <1>4 DEF TableContent, s

----------------------------------------------------------------------------
(* What the operations do to the entries still to return.                  *)

\* The entries from p on, the oldest first.
AheadOf(T, p) == Chain(p, NewerOf(T))

\* c has the entries from p on.
IsAhead(c, S, age, p) == Enumerates(c, From(S, age, p), age)

\* The chain from p on has the entries from p on, by their age.
LEMMA AheadIsAhead ==
  ASSUME IsFiniteSet(Keys), NEW T, NEW S, NEW age, NEW pos, TableInv(T, S, age, pos),
         NEW p \in S \cup {NULL}
  PROVE  IsAhead(AheadOf(T, p), S, age, p)
BY AheadEnumerates, Zenon DEF IsAhead, AheadOf

\* Which entries are ahead determines their sequence.
LEMMA AheadIsUnique ==
  ASSUME NEW S \in SUBSET Keys, NEW age \in [Keys -> Int], NEW p, NEW c, NEW c2,
         IsAhead(c, S, age, p), IsAhead(c2, S, age, p)
  PROVE  c2 = c
<1> DEFINE F == From(S, age, p)
<1>1. \A j \in F : age[j] \in Int
  BY DEF From
<1> HIDE DEF F
<1>2. Enumerates(c, F, age) /\ Enumerates(c2, F, age)
  BY DEF IsAhead, F
<1>3. QED
  BY <1>1, <1>2, EnumerationIsUnique

\* There is nothing ahead of the end.
LEMMA AheadOfEnd ==
  ASSUME IsFiniteSet(Keys), NEW T
  PROVE  AheadOf(T, NULL) = << >>
<1>1. PICK f : /\ \A p : Chain(p, NewerOf(T)) = f[Cardinality(Keys) + 1][p]
               /\ \A n \in 0..Cardinality(Keys) + 1 : \A q \in Links :
                    f[n][q] = IF q = NULL \/ n = 0 THEN << >>
                              ELSE << q >> \o f[n-1][NewerOf(T)[q]]
  BY ChainIsRecursive
<1>2. Cardinality(Keys) + 1 \in 0..Cardinality(Keys) + 1 /\ NULL \in Links
  BY FS_CardinalityType DEF Links
<1>3. QED
  BY <1>1, <1>2 DEF AheadOf

\* An insertion for which nothing was given up.
IsWhole(T, U, S, age, age2, pos2, k, d) ==
  IsInserted(T, U, S, age, S \cup {k}, age2, pos2, k, d)

\* c2 is c with k at its end.
IsAppended(c, c2, k) == c2 = Append(c, k)

\* A new entry is the last of those ahead.
LEMMA InsertAhead ==
  ASSUME IsFiniteSet(Keys), NEW T, NEW U, NEW S, NEW age, NEW pos, TableInv(T, S, age, pos),
         NEW age2, NEW pos2, NEW k, NEW d,
         IsWhole(T, U, S, age, age2, pos2, k, d), NEW p \in S
  PROVE  IsAppended(AheadOf(T, p), AheadOf(U, p), k)
<1> DEFINE R == S \cup {k}
           F == From(S, age, p)
           c == AheadOf(T, p)
           c2 == AheadOf(U, p)
           c3 == Append(c, k)
<1>1. /\ NULL \notin Keys /\ S \in SUBSET Keys /\ age \in [Keys -> Int]
      /\ R \in SUBSET Keys /\ age2 \in [Keys -> Int] /\ p \in R
      /\ TableInv(U, R, age2, pos2) /\ k \in Keys \ S
      /\ \A j \in S : age2[j] = age[j] /\ age2[j] < age2[k]
  BY HashAssumption DEF IsWhole, IsInserted, TableInv
<1>2. Enumerates(c, F, age)
  BY AheadIsAhead DEF IsAhead
<1>3. IsAhead(c2, R, age2, p)
  BY <1>1, AheadIsAhead
<1>4. F \in SUBSET Keys /\ F \subseteq S
  BY <1>1 DEF From
<1>5. From(R, age2, p) = F \cup {k}
  <2>1. \A j \in S : age2[p] <= age2[j] <=> age[p] <= age[j]
    BY <1>1
  <2>2. age2[p] <= age2[k] /\ p # NULL
    BY <1>1
  <2>3. \A j : j \in From(R, age2, p) <=> j \in F \cup {k}
    BY <1>1, <2>1, <2>2 DEF From
  <2>4. QED
    BY <2>3
<1> HIDE DEF F, R, c, c2, c3
<1>6. Enumerates(c, F, age2)
  BY <1>1, <1>2, <1>4, EnumeratesFrame
<1>7. Enumerates(c3, F \cup {k}, age2)
  <2>1. k \in Keys \ F /\ \A j \in F : age2[j] < age2[k]
    BY <1>1, <1>4
  <2>2. Enumerates(Append(c, k), F \cup {k}, age2)
    BY <1>1, <1>4, <1>6, <2>1, EnumeratesAppend
  <2>3. QED
    BY <2>2 DEF c3
<1>8. IsAhead(c3, R, age2, p)
  BY <1>5, <1>7, Zenon DEF IsAhead
<1>9. c2 = c3
  BY <1>1, <1>3, <1>8, AheadIsUnique
<1>10. QED
  BY <1>9, Zenon DEF IsAppended, c, c2, c3

\* What is removed is not ahead.
LEMMA RemoveAhead ==
  ASSUME IsFiniteSet(Keys), NEW T, NEW U, NEW S, NEW age, NEW pos, TableInv(T, S, age, pos),
         NEW k, IsRemoved(T, U, S, k, age, pos),
         NEW p \in S, k \notin Range(AheadOf(T, p))
  PROVE  AheadOf(U, p) = AheadOf(T, p)
<1> DEFINE R == S \ {k}
           F == From(S, age, p)
           c == AheadOf(T, p)
           c2 == AheadOf(U, p)
<1>1. /\ NULL \notin Keys /\ S \in SUBSET Keys /\ age \in [Keys -> Int] /\ R \in SUBSET Keys
      /\ TableInv(U, R, age, pos)
  BY HashAssumption DEF IsRemoved, TableInv
<1>2. IsAhead(c, S, age, p)
  BY AheadIsAhead
<1>3. k \notin F
  <2>1. \A j \in F : age[j] \in Int
    BY <1>1 DEF From
  <2>2. Enumerates(c, F, age)
    BY <1>2 DEF IsAhead
  <2> HIDE DEF F, c
  <2>3. Range(c) = F
    BY <2>1, <2>2, EnumerationProperties
  <2>4. QED
    BY <2>3 DEF c
<1>4. p \in F
  BY <1>1 DEF From
<1>5. p \in R
  BY <1>3, <1>4
<1>6. From(R, age, p) = F
  BY <1>3 DEF From
<1>7. IsAhead(c2, R, age, p)
  BY <1>1, <1>5, AheadIsAhead
<1> HIDE DEF c, c2, F, R
<1>8. IsAhead(c, R, age, p)
  BY <1>2, <1>6 DEF IsAhead, F
<1>9. c2 = c
  BY <1>1, <1>7, <1>8, AheadIsUnique
<1>10. QED
  BY <1>9 DEF c, c2

\* The entries ahead of p are p and those ahead of the next one.
LEMMA MoveAhead ==
  ASSUME IsFiniteSet(Keys), NEW T, NEW S, NEW age, NEW pos, TableInv(T, S, age, pos),
         NEW p \in S
  PROVE  /\ NewerOf(T)[p] \in S \cup {NULL}
         /\ AheadOf(T, p) # << >>
         /\ Head(AheadOf(T, p)) = p
         /\ Tail(AheadOf(T, p)) = AheadOf(T, NewerOf(T)[p])
<1> DEFINE n == NewerOf(T)[p]
           F == From(S, age, n)
           c == AheadOf(T, p)
           c2 == AheadOf(T, n)
           c3 == << p >> \o c2
<1>1. /\ NULL \notin Keys /\ S \in SUBSET Keys /\ age \in [Keys -> Int]
      /\ Linked(S, OldestOf(T), NewerOf(T), OlderOf(T), age)
  BY HashAssumption DEF TableInv, AgesOK
<1>2. /\ n \in S \cup {NULL} /\ From(S, age, p) = {p} \cup F
      /\ \A k \in F : age[p] < age[k]
  BY <1>1, FromNext
<1>3. IsAhead(c, S, age, p)
  BY AheadIsAhead
<1> HIDE DEF n
<1>4. Enumerates(c2, F, age)
  BY <1>2, AheadIsAhead DEF IsAhead
<1> HIDE DEF c, c2, F
<1>5. Enumerates(c3, {p} \cup F, age)
  BY <1>2, <1>4, EnumeratesCons
<1> HIDE DEF c3
<1>6. IsAhead(c3, S, age, p)
  BY <1>2, <1>5, Zenon DEF IsAhead
<1>7. c = c3
  BY <1>1, <1>3, <1>6, AheadIsUnique
<1>8. c2 \in Seq(Keys) /\ p \in Keys
  <2>1. F \in SUBSET Keys
    BY <1>1 DEF F, From
  <2>2. QED
    BY <1>1, <1>4, <2>1, SeqMonotonic DEF Enumerates
<1>9. c3 # << >> /\ Head(c3) = p /\ Tail(c3) = c2
  BY <1>8 DEF c3
<1>10. QED
  BY <1>2, <1>7, <1>9 DEF c, c2, n

----------------------------------------------------------------------------
(* The table is the map of AgeOrderedMap.                                  *)

\* The map of a state, and of the next.
LEMMA MapOfTable ==
  /\ Content = TableContent(ht) /\ Content' = TableContent(ht')
  /\ Ahead = AheadOf(ht, iterator.p_next) /\ Ahead' = AheadOf(ht', iterator'.p_next)
BY DEF Content, TableContent, ContentOf, Entry, StoredIn, Ahead, AheadOf, NewerOf

\* Has and Value of the map speak of the entries of the table.
LEMMA MapHasValue ==
  ASSUME IsFiniteSet(Keys), NEW S, NEW age, NEW pos, TableInv(ht, S, age, pos)
  PROVE  /\ \A k : Map!Has(k) <=> k \in S
         /\ \A k \in S : Map!Value(k) = StoredIn(ht)[k]
<1>1. Content = TableContent(ht)
  BY MapOfTable
<1>2. Map!Entries = Range(TableContent(ht))
  BY <1>1 DEF Map!Entries, Range, Map!Range
<1>3. ASSUME NEW k PROVE Map!Has(k) <=> k \in S
  <2>1. k \in {e.key : e \in Range(TableContent(ht))} <=> k \in S
    BY MapHas
  <2>2. QED
    BY <1>2, <2>1 DEF Map!Has
<1>4. ASSUME NEW k \in S PROVE Map!Value(k) = StoredIn(ht)[k]
  <2>1. (CHOOSE e \in Range(TableContent(ht)) : e.key = k).data = StoredIn(ht)[k]
    BY MapReturns
  <2>2. QED
    BY <1>2, <2>1 DEF Map!Value
<1>5. QED
  BY <1>3, <1>4

\* The entries of one map are some of those of another.
LEMMA SomeOfMap ==
  ASSUME NEW c, NEW c2, AreSome(c2, c)
  PROVE  Map!AreSomeOf(c2, c)
BY DEF AreSome, Map!AreSomeOf, Range, Map!Range

\* ght_insert is the Insert of the map.
LEMMA MapInsertStep ==
  ASSUME IsFiniteSet(Keys), options \in Options,
         iterator.p_entry = NULL => iterator.p_next = NULL,
         NEW S, NEW age, NEW pos, TableInv(ht, S, age, pos),
         iterator.p_next \in S \cup {NULL},
         NEW k \in Keys, NEW d \in DataOf[k], ght_insert(k, d)
  PROVE  Map!Insert(k, d)
<1> DEFINE e == [key |-> k, data |-> d]
           R == S \cup {k}
<1>1. PICK S2, age2, pos2 :
        /\ IsInserted(ht, ht', S, age, S2, age2, pos2, k, d)
        /\ iterator.p_entry # NULL => S2 = R
  BY InsertStep
<1>2. iterator' = iterator /\ result' = result
  BY DEF ght_insert
<1>3. k \notin S
  BY <1>1 DEF IsInserted
<1>4. ~ Map!Has(k)
  BY <1>3, MapHasValue
<1>5. MapInserted(Content, Content', e, S2 = R)
  <2>1. MapInserted(TableContent(ht), TableContent(ht'), e, S2 = R)
    BY <1>1, InsertContent
  <2>2. QED
    BY <2>1, MapOfTable
<1>6. e \in Map!Range(Content')
  <2>1. e \in Range(Content')
    BY <1>5, Zenon DEF MapInserted
  <2>2. QED
    BY <2>1 DEF Range, Map!Range
<1>7. Map!AreSomeOf(Content', Append(Content, e))
  <2>1. AreSome(Content', Append(Content, e))
    BY <1>5, Zenon DEF MapInserted
  <2>2. QED
    BY <2>1, SomeOfMap
<1>8. iterator.p_entry # NULL => Content' = Append(Content, e)
  BY <1>1, <1>5, Zenon DEF MapInserted
<1>9. Ahead' \in IF iterator.p_entry = NULL THEN {Ahead} ELSE {Ahead, Append(Ahead, k)}
  <2>1. Ahead = AheadOf(ht, iterator.p_next) /\ Ahead' = AheadOf(ht', iterator.p_next)
    BY <1>2, MapOfTable
  <2>2. CASE iterator.p_next = NULL
    BY <2>1, <2>2, AheadOfEnd
  <2>3. CASE iterator.p_next # NULL
    <3>1. iterator.p_entry # NULL /\ iterator.p_next \in S
      BY <2>3
    <3>2. IsWhole(ht, ht', S, age, age2, pos2, k, d)
      BY <1>1, <3>1, Zenon DEF IsWhole
    <3> DEFINE p == iterator.p_next
    <3>3. p \in S
      BY <3>1
    <3> HIDE DEF p
    <3>4. IsAppended(AheadOf(ht, p), AheadOf(ht', p), k)
      BY <3>2, <3>3, InsertAhead
    <3>5. Ahead' = Append(Ahead, k)
      BY <2>1, <3>4, Zenon DEF IsAppended, p
    <3>6. QED
      BY <3>1, <3>5
  <2>4. QED
    BY <2>2, <2>3
<1>10. QED
  BY <1>2, <1>4, <1>6, <1>7, <1>8, <1>9 DEF Map!Insert

\* ght_get is the Get of the map.
LEMMA MapGetStep ==
  ASSUME IsFiniteSet(Keys), NEW S, NEW age, NEW pos, TableInv(ht, S, age, pos),
         NEW k \in Keys, ght_get(k)
  PROVE  Map!Get(k)
<1>1. /\ SameAges(ht, ht') /\ StoredIn(ht') = StoredIn(ht)
      /\ k \in S => result' = StoredIn(ht)[k]
      /\ k \notin S => result' = NoData
  BY GetStep
<1>2. iterator' = iterator
  BY DEF ght_get
<1>3. Content' = Content
  <2>1. TableContent(ht') = TableContent(ht)
    BY <1>1, GetContent
  <2>2. QED
    BY <2>1, MapOfTable
<1>4. Ahead' = Ahead
  BY <1>1, <1>2, MapOfTable DEF AheadOf, SameAges
<1>5. result' = IF Map!Has(k) THEN Map!Value(k) ELSE NoData
  BY <1>1, MapHasValue
<1>6. QED
  BY <1>2, <1>3, <1>4, <1>5 DEF Map!Get

\* ght_replace is the Replace of the map.
LEMMA MapReplaceStep ==
  ASSUME IsFiniteSet(Keys), NEW S, NEW age, NEW pos, TableInv(ht, S, age, pos),
         NEW k \in Keys, NEW d \in DataOf[k], ght_replace(k, d)
  PROVE  Map!Replace(k, d)
<1>1. /\ SameAges(ht, ht') /\ k \in S /\ result' = StoredIn(ht)[k]
      /\ \A j \in Keys : StoredIn(ht')[j] = IF j = k THEN d ELSE StoredIn(ht)[j]
  BY ReplaceStep
<1>2. iterator' = iterator
  BY DEF ght_replace
<1>3. MapReplaced(Content, Content', k, d)
  <2>1. MapReplaced(TableContent(ht), TableContent(ht'), k, d)
    BY <1>1, ReplaceContent
  <2>2. QED
    BY <2>1, MapOfTable
<1>4. Ahead' = Ahead
  BY <1>1, <1>2, MapOfTable DEF AheadOf, SameAges
<1>5. Map!Has(k) /\ result' = Map!Value(k)
  BY <1>1, MapHasValue
<1>6. QED
  BY <1>2, <1>3, <1>4, <1>5 DEF Map!Replace, MapReplaced

\* ght_remove is the Remove of the map.
LEMMA MapRemoveStep ==
  ASSUME IsFiniteSet(Keys), NEW S, NEW age, NEW pos, TableInv(ht, S, age, pos),
         iterator.p_next \in S \cup {NULL}, NEW k \in Keys, ght_remove(k)
  PROVE  Map!Remove(k)
<1>1. k \in S /\ result' = StoredIn(ht)[k] /\ IsRemoved(ht, ht', S, k, age, pos)
  BY RemoveStep
<1>2. iterator' = iterator /\ k \notin Range(AheadOf(ht, iterator.p_next))
  BY DEF ght_remove, AheadOf, NewerOf
<1>3. MapRemoved(Content, Content', k)
  <2>1. MapRemoved(TableContent(ht), TableContent(ht'), k)
    BY <1>1, RemoveContent
  <2>2. QED
    BY <2>1, MapOfTable
<1>4. Map!AreSomeOf(Content', Content)
  <2>1. AreSome(Content', Content)
    BY <1>3, Zenon DEF MapRemoved
  <2>2. QED
    BY <2>1, SomeOfMap
<1>5. Map!Range(Content') = {e \in Map!Entries : e.key # k}
  <2>1. Range(Content') = {e \in Range(Content) : e.key # k}
    BY <1>3, Zenon DEF MapRemoved
  <2>2. QED
    BY <2>1 DEF Range, Map!Range, Map!Entries
<1>6. Ahead = AheadOf(ht, iterator.p_next) /\ Ahead' = AheadOf(ht', iterator.p_next)
  BY <1>2, MapOfTable
<1>7. Ahead' = Ahead
  <2>1. CASE iterator.p_next = NULL
    BY <1>6, <2>1, AheadOfEnd
  <2>2. CASE iterator.p_next # NULL
    <3> DEFINE p == iterator.p_next
    <3>1. p \in S /\ k \notin Range(AheadOf(ht, p))
      BY <1>2, <2>2
    <3> HIDE DEF p
    <3>2. AheadOf(ht', p) = AheadOf(ht, p)
      BY <1>1, <3>1, RemoveAhead
    <3>3. QED
      BY <1>6, <3>2 DEF p
  <2>3. QED
    BY <2>1, <2>2
<1>8. k \notin Map!Range(Ahead)
  BY <1>2, <1>6 DEF Range, Map!Range
<1>9. Map!Has(k) /\ result' = Map!Value(k)
  BY <1>1, MapHasValue
<1>10. QED
  BY <1>2, <1>4, <1>5, <1>7, <1>8, <1>9 DEF Map!Remove

\* An iteration that moves to p reaches the entries from p on.
LEMMA MapMoveStep ==
  ASSUME IsFiniteSet(Keys), NEW S, NEW age, NEW pos, TableInv(ht, S, age, pos),
         NEW p \in S \cup {NULL}, MoveTo(p)
  PROVE  Map!Reach(AheadOf(ht, p)) /\ Content' = Content
<1>1. /\ ht' = ht
      /\ iterator'.p_entry = p /\ iterator'.p_next \in S \cup {NULL}
      /\ p = NULL => iterator'.p_next = NULL /\ result' = NoData
      /\ p # NULL => iterator'.p_next = NewerOf(ht)[p] /\ result' = StoredIn(ht)[p]
  BY MoveStep
<1>2. Content' = Content /\ Ahead' = AheadOf(ht, iterator'.p_next)
  BY <1>1, MapOfTable
<1>3. CASE p = NULL
  <2>1. AheadOf(ht, p) = << >>
    BY <1>3, AheadOfEnd
  <2>2. Ahead' = << >>
    BY <1>1, <1>2, <1>3, AheadOfEnd
  <2>3. QED
    BY <1>1, <1>2, <1>3, <2>1, <2>2 DEF Map!Reach
<1>4. CASE p # NULL
  <2>1. /\ AheadOf(ht, p) # << >> /\ Head(AheadOf(ht, p)) = p
        /\ Tail(AheadOf(ht, p)) = AheadOf(ht, NewerOf(ht)[p])
    BY <1>4, MoveAhead
  <2>2. Ahead' = Tail(AheadOf(ht, p))
    BY <1>1, <1>2, <1>4, <2>1
  <2>3. result' = Map!Value(p)
    BY <1>1, <1>4, MapHasValue
  <2>4. QED
    BY <1>1, <1>2, <2>1, <2>2, <2>3 DEF Map!Reach
<1>5. QED
  BY <1>3, <1>4

\* The keys of the map are the entries in the order of their ages.
LEMMA KeysOfMap ==
  ASSUME IsFiniteSet(Keys), NEW S, NEW age, NEW pos, TableInv(ht, S, age, pos)
  PROVE  [i \in DOMAIN Content |-> Content[i].key] = AheadOf(ht, OldestOf(ht))
<1> DEFINE c == TableContent(ht)
           s == Ages(ht)
<1>1. s = AheadOf(ht, OldestOf(ht))
  BY DEF Ages, AheadOf, OldestOf, NewerOf
<1>2. Content = c
  BY MapOfTable
<1>3. ContentHolds(c, s, S, StoredIn(ht))
  BY TableContentIsContent
<1>4. s = [i \in 1..Len(s) |-> s[i]]
  <2>1. Enumerates(s, S, age)
    BY AgesEnumerated
  <2> HIDE DEF s
  <2>2. s \in Seq(S)
    BY <2>1 DEF Enumerates
  <2>3. QED
    BY <2>2
<1> HIDE DEF c, s
<1>5. DOMAIN c = 1..Len(s) /\ \A i \in 1..Len(s) : c[i].key = s[i]
  BY <1>3 DEF ContentHolds, Entry
<1>6. [i \in DOMAIN c |-> c[i].key] = s
  BY <1>4, <1>5
<1>7. QED
  BY <1>1, <1>2, <1>6

\* The new table is the empty map.
LEMMA MapInitStep ==
  ASSUME Init
  PROVE  Map!MapInit
<1>1. IsFiniteSet(Keys) /\ Size \in Nat \ {0}
  BY HashAssumption
<1> DEFINE zero == [k \in Keys |-> 0]
<1>2. zero \in [Keys -> Int]
  OBVIOUS
<1> HIDE DEF zero
<1>3. ht = Create(Size) /\ iterator.p_entry = NULL /\ iterator.p_next = NULL /\ result = NoData
  BY DEF Init
<1>4. TableInv(Create(Size), {}, zero, zero)
  BY <1>1, <1>2, CreateWorks
<1>5. TableInv(ht, {}, zero, zero)
  BY <1>3, <1>4, Zenon
<1>6. Content = << >>
  BY <1>1, <1>5, EmptyContent, MapOfTable
<1>7. Ahead = << >>
  BY <1>1, <1>3, AheadOfEnd, MapOfTable
<1>8. QED
  BY <1>3, <1>6, <1>7 DEF Map!MapInit

\* Every step is one of the map, or none.
LEMMA MapStep ==
  ASSUME IInv, [Next]_vars
  PROVE  [Map!MapNext]_(Map!mapVars)
<1>1. /\ IsFiniteSet(Keys) /\ NULL \notin Keys /\ Size \in Nat \ {0}
      /\ options \in Options
      /\ iterator.p_entry = NULL => iterator.p_next = NULL
      /\ \A k \in Keys : DataOf[k] \subseteq Data
  BY HashAssumption DEF IInv
<1>2. PICK S, age, pos : TableInv(ht, S, age, pos) /\ iterator.p_next \in S \cup {NULL}
  BY DEF IInv, Held
<1>3. ASSUME NEW k \in Keys, ght_get(k) PROVE Map!MapNext
  <2>1. Map!Get(k)
    BY <1>1, <1>2, <1>3, MapGetStep
  <2>2. QED
    BY <2>1 DEF Map!MapNext
<1>4. ASSUME NEW k \in Keys, ght_remove(k) PROVE Map!MapNext
  <2>1. Map!Remove(k)
    BY <1>1, <1>2, <1>4, MapRemoveStep
  <2>2. QED
    BY <2>1 DEF Map!MapNext
<1>5. ASSUME NEW k \in Keys, NEW d \in DataOf[k], ght_insert(k, d) PROVE Map!MapNext
  <2>1. Map!Insert(k, d) /\ d \in Data
    BY <1>1, <1>2, <1>5, MapInsertStep
  <2>2. QED
    BY <2>1 DEF Map!MapNext
<1>6. ASSUME NEW k \in Keys, NEW d \in DataOf[k], ght_replace(k, d) PROVE Map!MapNext
  <2>1. Map!Replace(k, d) /\ d \in Data
    BY <1>1, <1>2, <1>6, MapReplaceStep
  <2>2. QED
    BY <2>1 DEF Map!MapNext
<1>7. CASE ght_first
  <2>1. OldestOf(ht) \in S \cup {NULL} /\ MoveTo(OldestOf(ht))
    BY <1>2, <1>7 DEF ght_first, OldestOf, TableInv, AgesOK, Linked, Adjacent
  <2>2. Map!Reach(AheadOf(ht, OldestOf(ht))) /\ Content' = Content
    BY <1>1, <1>2, <2>1, MapMoveStep
  <2>3. [i \in DOMAIN Content |-> Content[i].key] = AheadOf(ht, OldestOf(ht))
    BY <1>1, <1>2, KeysOfMap
  <2>4. Map!First
    BY <2>2, <2>3, Zenon DEF Map!First
  <2>5. QED
    BY <2>4 DEF Map!MapNext
<1>8. CASE ght_next
  <2>1. iterator.p_entry # NULL /\ MoveTo(iterator.p_next)
    BY <1>8 DEF ght_next
  <2>2. Map!Reach(AheadOf(ht, iterator.p_next)) /\ Content' = Content
    BY <1>1, <1>2, <2>1, MapMoveStep
  <2>3. Ahead = AheadOf(ht, iterator.p_next)
    BY MapOfTable
  <2>4. Map!Next
    BY <2>1, <2>2, <2>3, Zenon DEF Map!Next
  <2>5. QED
    BY <2>4 DEF Map!MapNext
<1>9. CASE ght_finalize
  <2>1. /\ ht' = Create(Size) /\ iterator' = iterator /\ iterator.p_entry = NULL
        /\ result' = NoData
    BY <1>9 DEF ght_finalize
  <2>2. TableInv(Create(Size), {}, age, pos)
    BY <1>1, <1>2, CreateWorks DEF TableInv
  <2>3. TableInv(ht', {}, age, pos)
    BY <2>1, <2>2, Zenon
  <2>4. Content' = << >>
    BY <1>1, <2>3, EmptyContent, MapOfTable
  <2>5. Ahead' = Ahead
    BY <1>1, <2>1, AheadOfEnd, MapOfTable
  <2>6. Map!Clear
    BY <2>1, <2>4, <2>5 DEF Map!Clear
  <2>7. QED
    BY <2>6 DEF Map!MapNext
<1>10. CASE UNCHANGED vars
  <2>1. ht' = ht /\ iterator' = iterator /\ result' = result
    BY <1>10 DEF vars
  <2>2. Content' = Content /\ Ahead' = Ahead
    BY <2>1, MapOfTable
  <2>3. QED
    BY <2>1, <2>2 DEF Map!mapVars
<1>11. QED
  BY <1>3, <1>4, <1>5, <1>6, <1>7, <1>8, <1>9, <1>10 DEF Next

\* The table is the map that CommonHashTable.h promises: it returns what was
\* stored last under a key, and an iteration returns every entry once, from the
\* oldest to the newest, while entries come and those already returned go.
THEOREM TableIsAgeOrderedMap == Spec => IsAgeOrderedMap
<1>1. Init => Map!MapInit
  BY MapInitStep
<1>2. IInv /\ [Next]_vars => [Map!MapNext]_(Map!mapVars)
  BY MapStep
<1>3. QED
  BY <1>1, <1>2, Inductive, PTL DEF Spec, IsAgeOrderedMap, Map!MapSpec
=============================================================================
