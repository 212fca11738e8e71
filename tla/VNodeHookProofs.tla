--------------------------- MODULE VNodeHookProofs ---------------------------
(***************************************************************************)
(* Proofs about VNodeHook.                                                 *)
(***************************************************************************)
EXTENDS VNodeHook, Integers, FiniteSets, FiniteSetTheorems, TLAPS

\* Where a thread has a referenced entry in existingEntry or in newEntry, and
\* where it walks the slots of a vector.
ExistingPc == { "origEntry", "hookFound", "unhookDec", "unhookLock",
                "unhookSlots", "unhookFinish" }
NewPc      == { "hookLock", "hookSlots", "hookFinish", "hookFailed" }
WalkPc     == { "hookSlots", "unhookSlots" }

\* TypeOK, without that the reference counts are never negative.
TypeInv ==
  /\ vstate \in [Vnodes -> {"live", "dying", "dead"}]
  /\ slots \in [Vops -> [Ops -> VOPFUNC]]
  /\ hash \in [Vops -> Entries \cup {NoEntry}]
  /\ writer \in Threads \cup {NoThread}
  /\ done \in SUBSET Ops
  /\ refs \in [Entries -> Int]
  /\ counter \in [Entries -> Int]
  /\ origVop \in [Entries -> [Ops -> VOPFUNC]]
  /\ marked \in SUBSET Vnodes
  /\ vn \in [Threads -> Vnodes \cup {NoVnode}]
  /\ target \in [Threads -> Vnodes \cup {NoVnode}]
  /\ existing \in [Threads -> Entries \cup {NoEntry}]
  /\ newEntry \in [Threads -> Entries \cup {NoEntry}]
  /\ op \in [Threads -> Ops]
  /\ original \in [Threads -> VOPFUNC]

\* A running function has a vnode to work on, and its local entries exactly
\* where it has taken and not yet released them.
CallInv ==
  /\ pc \in [Threads -> {"idle"} \cup HookPc \cup OrigPc \cup UnhookPc]
  /\ \A t \in Threads :
       /\ pc[t] # "idle" => vn[t] \in Vnodes /\ target[t] \in Vnodes
       /\ existing[t] # NoEntry <=> pc[t] \in ExistingPc
       /\ newEntry[t] # NoEntry <=> pc[t] \in NewPc

Walked(w) == \E t \in Threads : pc[t] \in WalkPc /\ Vop(t) = w

\* A vector nobody walks is hooked as a whole, with an entry that has all of its
\* originals, or not at all.
VectorInv ==
  \A w \in Vops :
    \/ Walked(w)
    \/ /\ hash[w] # NoEntry
       /\ \A o \in Ops : slots[w][o] = "hook" /\ origVop[hash[w]][o] = "fsd"
    \/ hash[w] = NoEntry /\ \A o \in Ops : slots[w][o] = "fsd"

\* How far a walk has come.
WalkInv ==
  \A t \in Threads :
    /\ pc[t] = "hookSlots" =>
         /\ hash[Vop(t)] = newEntry[t]
         /\ \A o \in Ops :
              IF o \in done
              THEN slots[Vop(t)][o] = "hook" /\ origVop[newEntry[t]][o] = "fsd"
              ELSE slots[Vop(t)][o] = "fsd"
    /\ pc[t] = "unhookSlots" =>
         /\ hash[Vop(t)] = NoEntry
         /\ \A o \in Ops : slots[Vop(t)][o] = IF o \in done THEN "fsd" ELSE "hook"

\* An entry that was found in the hash has all of its originals.
FoundInv ==
  \A t \in Threads : existing[t] # NoEntry =>
    \A o \in Ops : origVop[existing[t]][o] = "fsd"

IInv == /\ TypeInv /\ CallInv /\ LockHeldWhileWalking /\ VectorInv /\ WalkInv
        /\ FoundInv /\ OriginalIsFsdFunction /\ RefsCountHolders

----------------------------------------------------------------------------
(* Counting.                                                               *)

\* One where two values agree, so that a change of a pointer is a difference.
Is(a, x) == IF a = x THEN 1 ELSE 0

\* How many elements of S point at x.
Refs(f, S, x) == Cardinality({z \in S : f[z] = x})

\* A function that changes at z only is counted anew at z only.
LEMMA Recount ==
  ASSUME NEW S, IsFiniteSet(S), NEW f, NEW g, NEW z \in S, NEW x,
         \A y \in S \ {z} : g[y] = f[y]
  PROVE  /\ Refs(f, S, x) \in Nat
         /\ Refs(g, S, x) = Refs(f, S, x) + Is(g[z], x) - Is(f[z], x)
<1> DEFINE F == {y \in S : f[y] = x}
           G == {y \in S : g[y] = x}
<1>1. IsFiniteSet(F) /\ IsFiniteSet(G)
  BY FS_Subset, F \in SUBSET S, G \in SUBSET S
<1>2. Cardinality(F) \in Nat /\ Cardinality(G) \in Nat
  BY <1>1, FS_CardinalityType
<1>3. CASE g[z] = x /\ f[z] # x
  <2>1. G = F \cup {z} /\ z \notin F
    BY <1>3
  <2>2. Cardinality(G) = Cardinality(F) + 1
    BY <1>1, <2>1, FS_AddElement
  <2>3. QED
    BY <1>2, <1>3, <2>2 DEF Refs, Is
<1>4. CASE g[z] # x /\ f[z] = x
  <2>1. G = F \ {z} /\ z \in F
    BY <1>4
  <2>2. Cardinality(G) = Cardinality(F) - 1
    BY <1>1, <2>1, FS_RemoveElement
  <2>3. QED
    BY <1>2, <1>4, <2>2 DEF Refs, Is
<1>5. CASE g[z] = x <=> f[z] = x
  <2>1. G = F
    BY <1>5
  <2>2. Is(g[z], x) = Is(f[z], x) /\ Is(f[z], x) \in {0, 1}
    BY <1>5 DEF Is
  <2>3. Refs(g, S, x) = Refs(f, S, x) /\ Refs(f, S, x) \in Nat
    BY <1>2, <2>1 DEF Refs
  <2>4. QED
    BY <2>2, <2>3
<1>6. QED
  BY <1>3, <1>4, <1>5

\* A count is a natural number.
LEMMA CountType ==
  ASSUME NEW S, IsFiniteSet(S), NEW f, NEW x
  PROVE  Refs(f, S, x) \in Nat
<1>1. IsFiniteSet({z \in S : f[z] = x})
  BY FS_Subset, {z \in S : f[z] = x} \in SUBSET S
<1>2. QED
  BY <1>1, FS_CardinalityType DEF Refs

\* The invariant in terms of Refs.
LEMMA HoldersAreRefs ==
  RefsCountHolders <=>
    \A e \in Entries : refs[e] = Refs(hash, Vops, e) + Refs(existing, Threads, e)
                                 + Refs(newEntry, Threads, e)
BY DEF RefsCountHolders, Refs

\* A step of t that changes at most the hash at w and t's own locals keeps the
\* reference counts right if it counts what it changes.
LEMMA Balance ==
  ASSUME TypeInv, TypeInv', RefsCountHolders, NEW t \in Threads, NEW w \in Vops,
         \A u \in Threads \ {t} :
           existing'[u] = existing[u] /\ newEntry'[u] = newEntry[u],
         \A x \in Vops \ {w} : hash'[x] = hash[x],
         \A e \in Entries :
           refs'[e] = refs[e] + Is(hash'[w], e) - Is(hash[w], e)
                      + Is(existing'[t], e) - Is(existing[t], e)
                      + Is(newEntry'[t], e) - Is(newEntry[t], e)
  PROVE  RefsCountHolders'
<1> SUFFICES ASSUME NEW e \in Entries
             PROVE  refs'[e] = Refs(hash', Vops, e) + Refs(existing', Threads, e)
                               + Refs(newEntry', Threads, e)
  BY DEF RefsCountHolders, Refs
<1>1. refs[e] = Refs(hash, Vops, e) + Refs(existing, Threads, e)
                + Refs(newEntry, Threads, e)
  BY HoldersAreRefs
<1>2. /\ Refs(hash, Vops, e) \in Nat
      /\ Refs(hash', Vops, e) = Refs(hash, Vops, e) + Is(hash'[w], e) - Is(hash[w], e)
  <2>1. PICK f, g : f = hash /\ g = hash'
    OBVIOUS
  <2>2. \A y \in Vops \ {w} : g[y] = f[y]
    BY <2>1
  <2>3. IsFiniteSet(Vops)
    BY FiniteAssumption
  <2>4. Refs(f, Vops, e) \in Nat
    BY <2>3, CountType
  <2>5. Refs(g, Vops, e) = Refs(f, Vops, e) + Is(g[w], e) - Is(f[w], e)
    BY <2>2, <2>3, Recount
  <2>6. QED
    BY <2>1, <2>4, <2>5
<1>3. /\ Refs(existing, Threads, e) \in Nat
      /\ Refs(existing', Threads, e) = Refs(existing, Threads, e)
                                       + Is(existing'[t], e) - Is(existing[t], e)
  <2>1. \A y \in Threads \ {t} : existing'[y] = existing[y]
    OBVIOUS
  <2>2. IsFiniteSet(Threads)
    BY FiniteAssumption
  <2>3. QED
    BY <2>1, <2>2, Recount, Z3
<1>4. /\ Refs(newEntry, Threads, e) \in Nat
      /\ Refs(newEntry', Threads, e) = Refs(newEntry, Threads, e)
                                       + Is(newEntry'[t], e) - Is(newEntry[t], e)
  <2>1. \A y \in Threads \ {t} : newEntry'[y] = newEntry[y]
    OBVIOUS
  <2>2. IsFiniteSet(Threads)
    BY FiniteAssumption
  <2>3. QED
    BY <2>1, <2>2, Recount, Z3
<1>5. QED
  BY <1>1, <1>2, <1>3, <1>4 DEF Is

\* Nothing points at a free entry.
LEMMA FreeEntry ==
  ASSUME RefsCountHolders, NEW e \in Entries, refs[e] = 0
  PROVE  /\ \A w \in Vops : hash[w] # e
         /\ \A t \in Threads : existing[t] # e /\ newEntry[t] # e
<1> DEFINE H == {w \in Vops : hash[w] = e}
           X == {t \in Threads : existing[t] = e}
           N == {t \in Threads : newEntry[t] = e}
<1>1. IsFiniteSet(H) /\ IsFiniteSet(X) /\ IsFiniteSet(N)
  BY FiniteAssumption, FS_Subset, H \in SUBSET Vops, X \in SUBSET Threads,
     N \in SUBSET Threads
<1>2. Cardinality(H) \in Nat /\ Cardinality(X) \in Nat /\ Cardinality(N) \in Nat
  BY <1>1, FS_CardinalityType
<1>3. refs[e] = Cardinality(H) + Cardinality(X) + Cardinality(N)
  BY DEF RefsCountHolders
<1>4. Cardinality(H) = 0 /\ Cardinality(X) = 0 /\ Cardinality(N) = 0
  BY <1>2, <1>3
<1>5. H = {} /\ X = {} /\ N = {}
  BY <1>1, <1>4, FS_EmptySet
<1>6. QED
  BY <1>5

----------------------------------------------------------------------------
(* The steps.                                                              *)

USE DEF Goto, Vop, Retain, Release, kernel, table, entry, call, local, vars, HookPc,
        OrigPc, UnhookPc, ExistingPc, NewPc, WalkPc, VOPFUNC

\* What the two functions do when they return, or go on to the parent.
Others(t) == \A u \in Threads \ {t} :
               pc'[u] = pc[u] /\ vn'[u] = vn[u] /\ target'[u] = target[u]

\* At the end of QvrHookVnodeVop.
LEMMA HookReturns ==
  ASSUME TypeInv, CallInv, NEW t \in Threads, pc[t] # "idle", HookReturn(t)
  PROVE  /\ vn' \in [Threads -> Vnodes \cup {NoVnode}]
         /\ target' \in [Threads -> Vnodes \cup {NoVnode}]
         /\ pc' \in [Threads -> {"idle"} \cup HookPc \cup OrigPc \cup UnhookPc]
         /\ pc'[t] \in {"idle", "hookCheck"}
         /\ pc'[t] # "idle" => vn'[t] \in Vnodes /\ target'[t] \in Vnodes
         /\ Others(t)
<1>1. vn[t] \in Vnodes /\ Parent[vn[t]] \in Vnodes \cup {NoVnode}
  BY SetAssumption DEF CallInv
<1>2. CASE ParentIsNext(t)
  <2>1. /\ target' = [target EXCEPT ![t] = Parent[vn[t]]]
        /\ pc' = [pc EXCEPT ![t] = "hookCheck"] /\ vn' = vn
    BY <1>2 DEF HookReturn
  <2>2. Parent[vn[t]] \in Vnodes
    BY <1>1, <1>2 DEF ParentIsNext
  <2>3. QED
    BY <1>1, <2>1, <2>2 DEF TypeInv, CallInv, Others
<1>3. CASE ~ParentIsNext(t)
  <2>1. /\ target' = [target EXCEPT ![t] = NoVnode]
        /\ pc' = [pc EXCEPT ![t] = "idle"] /\ vn' = [vn EXCEPT ![t] = NoVnode]
    BY <1>3 DEF HookReturn, Idle
  <2>2. QED
    BY <2>1 DEF TypeInv, CallInv, Others
<1>4. QED
  BY <1>2, <1>3

\* At the end of QvrUnHookVnodeVop.
LEMMA UnhookReturns ==
  ASSUME TypeInv, CallInv, NEW t \in Threads, pc[t] # "idle", UnhookReturn(t),
         UNCHANGED vn
  PROVE  /\ target' \in [Threads -> Vnodes \cup {NoVnode}]
         /\ pc' \in [Threads -> {"idle"} \cup HookPc \cup OrigPc \cup UnhookPc]
         /\ pc'[t] \in {"callOrig", "unhookCheck"}
         /\ target'[t] \in Vnodes
         /\ Others(t)
<1>1. vn[t] \in Vnodes /\ Parent[vn[t]] \in Vnodes \cup {NoVnode}
  BY SetAssumption DEF CallInv
<1>2. CASE ParentIsNext(t)
  <2>1. /\ target' = [target EXCEPT ![t] = Parent[vn[t]]]
        /\ pc' = [pc EXCEPT ![t] = "unhookCheck"]
    BY <1>2 DEF UnhookReturn
  <2>2. Parent[vn[t]] \in Vnodes
    BY <1>1, <1>2 DEF ParentIsNext
  <2>3. QED
    BY <2>1, <2>2 DEF TypeInv, CallInv, Others
<1>3. CASE ~ParentIsNext(t)
  <2>1. /\ target' = [target EXCEPT ![t] = vn[t]]
        /\ pc' = [pc EXCEPT ![t] = "callOrig"]
    BY <1>3 DEF UnhookReturn
  <2>2. QED
    BY <1>1, <2>1 DEF TypeInv, CallInv, Others
<1>4. QED
  BY <1>2, <1>3

\* A running function works on a vector of the model.
LEMMA WorksOn ==
  ASSUME TypeInv, CallInv, NEW t \in Threads, pc[t] # "idle"
  PROVE  Vop(t) \in Vops
BY SetAssumption DEF TypeInv, CallInv

\* What a step does not touch stays as hooked as it was.
LEMMA VectorKept ==
  ASSUME VectorInv, UNCHANGED << hash, slots, origVop >>,
         \A u \in Threads : pc[u] \in WalkPc => pc'[u] \in WalkPc /\ target'[u] = target[u]
  PROVE  VectorInv'
BY DEF VectorInv, Walked

\* Nor does a walk in progress see what the step does.
LEMMA WalkKept ==
  ASSUME WalkInv, UNCHANGED << hash, slots, origVop >>,
         \A u \in Threads : pc'[u] \in WalkPc =>
           /\ pc'[u] = pc[u] /\ target'[u] = target[u] /\ newEntry'[u] = newEntry[u]
           /\ done' = done
  PROVE  WalkInv'
BY DEF WalkInv

\* CallInv after a step of t, from where the step leaves t.
LEMMA CallChange ==
  ASSUME CallInv, NEW t \in Threads,
         pc' \in [Threads -> {"idle"} \cup HookPc \cup OrigPc \cup UnhookPc],
         \A u \in Threads \ {t} : /\ pc'[u] = pc[u] /\ vn'[u] = vn[u]
                                  /\ target'[u] = target[u]
                                  /\ existing'[u] = existing[u]
                                  /\ newEntry'[u] = newEntry[u],
         pc'[t] # "idle" => vn'[t] \in Vnodes /\ target'[t] \in Vnodes,
         existing'[t] # NoEntry <=> pc'[t] \in ExistingPc,
         newEntry'[t] # NoEntry <=> pc'[t] \in NewPc
  PROVE  CallInv'
BY DEF CallInv

\* No pointer and no count has changed.
LEMMA CountKept ==
  ASSUME RefsCountHolders, UNCHANGED << hash, refs, existing, newEntry >>
  PROVE  RefsCountHolders'
BY DEF RefsCountHolders

\* The initial states satisfy the invariant.
LEMMA InitIInv ==
  ASSUME Init
  PROVE  IInv
<1> USE SetAssumption, NoneAssumption DEF Init
<1>1. TypeInv /\ CallInv /\ LockHeldWhileWalking
  BY DEF TypeInv, CallInv, LockHeldWhileWalking
<1>2. VectorInv /\ WalkInv /\ FoundInv /\ OriginalIsFsdFunction
  BY DEF VectorInv, WalkInv, FoundInv, OriginalIsFsdFunction
<1>3. ASSUME NEW e \in Entries
      PROVE  /\ {w \in Vops : hash[w] = e} = {}
             /\ {t \in Threads : existing[t] = e} = {}
             /\ {t \in Threads : newEntry[t] = e} = {}
  BY <1>3
<1>4. ASSUME NEW e \in Entries
      PROVE  refs[e] = 0
  BY <1>4
<1> HIDE DEF Init
<1>5. RefsCountHolders
  <2>1. Cardinality({}) = 0
    BY FS_EmptySet
  <2>2. ASSUME NEW e \in Entries
        PROVE  /\ Cardinality({w \in Vops : hash[w] = e}) = 0
               /\ Cardinality({t \in Threads : existing[t] = e}) = 0
               /\ Cardinality({t \in Threads : newEntry[t] = e}) = 0
    BY <1>3, <2>1, <2>2
  <2>3. QED
    BY <1>4, <2>2 DEF RefsCountHolders
<1>6. QED
  BY <1>1, <1>2, <1>5 DEF IInv

\* Every step keeps the types.
LEMMA TypeStep ==
  ASSUME IInv, [Next]_vars
  PROVE  TypeInv'
<1> USE NoneAssumption DEF IInv, TypeInv
<1>1. ASSUME NEW t \in Threads, GetOriginalLookup(t)
      PROVE  TypeInv'
  <2>1. Vop(t) \in Vops
    BY <1>1, WorksOn DEF GetOriginalLookup
  <2>2. CASE hash[Vop(t)] = NoEntry
    BY <1>1, <2>2 DEF GetOriginalLookup
  <2>3. CASE hash[Vop(t)] # NoEntry
    <3>1. hash[Vop(t)] \in Entries
      BY <2>1, <2>3
    <3>2. refs' \in [Entries -> Int]
      BY <1>1, <2>3, <3>1 DEF GetOriginalLookup
    <3>3. existing' \in [Threads -> Entries \cup {NoEntry}]
      BY <1>1, <2>3, <3>1 DEF GetOriginalLookup
    <3>4. QED
      BY <1>1, <3>2, <3>3 DEF GetOriginalLookup
  <2>4. QED
    BY <2>2, <2>3
<1>2. ASSUME NEW t \in Threads, GetOriginalRecheck(t)
      PROVE  TypeInv'
  <2>1. Vop(t) \in Vops
    BY <1>2, WorksOn DEF GetOriginalRecheck
  <2>2. /\ refs' \in [Entries -> Int]
        /\ existing' \in [Threads -> Entries \cup {NoEntry}]
        /\ newEntry' \in [Threads -> Entries \cup {NoEntry}]
    BY <1>2, <2>1 DEF GetOriginalRecheck
  <2>3. QED
    BY <1>2, <2>1, <2>2 DEF GetOriginalRecheck
<1>3. ASSUME NEW t \in Threads, GetOriginalFromEntry(t)
      PROVE  TypeInv'
  <2>1. Vop(t) \in Vops
    BY <1>3, WorksOn DEF GetOriginalFromEntry
  <2>2. QED
    BY <1>3, <2>1 DEF GetOriginalFromEntry, CallInv
<1>4. ASSUME NEW t \in Threads, HookSkip(t)
      PROVE  TypeInv'
  <2>1. HookReturn(t) /\ pc[t] # "idle"
    BY <1>4 DEF HookSkip
  <2>2. /\ vn' \in [Threads -> Vnodes \cup {NoVnode}]
        /\ target' \in [Threads -> Vnodes \cup {NoVnode}]
    BY <2>1, HookReturns
  <2>3. QED
    BY <1>4, <2>2 DEF HookSkip
<1>5. ASSUME NEW t \in Threads, HookLookup(t)
      PROVE  TypeInv'
  <2>1. Vop(t) \in Vops
    BY <1>5, WorksOn DEF HookLookup
  <2>2. QED
    BY <1>5, <2>1, SMTT(40) DEF HookLookup
<1>6. ASSUME NEW t \in Threads, HookFound(t)
      PROVE  TypeInv'
  <2>1. HookReturn(t) /\ pc[t] # "idle"
    BY <1>6 DEF HookFound
  <2>2. /\ vn' \in [Threads -> Vnodes \cup {NoVnode}]
        /\ target' \in [Threads -> Vnodes \cup {NoVnode}]
    BY <2>1, HookReturns
  <2>3. existing[t] \in Entries
    BY <1>6 DEF HookFound, CallInv
  <2>4. /\ refs' \in [Entries -> Int]
        /\ existing' \in [Threads -> Entries \cup {NoEntry}]
        /\ newEntry' \in [Threads -> Entries \cup {NoEntry}]
    BY <1>6, <2>3 DEF HookFound
  <2>5. QED
    BY <1>6, <2>3, <2>1, <2>2, <2>4 DEF HookFound
<1>7. ASSUME NEW t \in Threads, HookAllocate(t)
      PROVE  TypeInv'
  <2>1. Vop(t) \in Vops
    BY <1>7, WorksOn DEF HookAllocate
  <2>2. QED
    BY <1>7, <2>1 DEF HookAllocate
<1>8. ASSUME NEW t \in Threads, HookNoMemory(t)
      PROVE  TypeInv'
  <2>1. HookReturn(t) /\ pc[t] # "idle"
    BY <1>8 DEF HookNoMemory
  <2>2. /\ vn' \in [Threads -> Vnodes \cup {NoVnode}]
        /\ target' \in [Threads -> Vnodes \cup {NoVnode}]
    BY <2>1, HookReturns
  <2>3. QED
    BY <1>8, <2>2 DEF HookNoMemory
<1>9. ASSUME NEW t \in Threads, HookLockExisting(t)
      PROVE  TypeInv'
  <2>1. Vop(t) \in Vops
    BY <1>9, WorksOn DEF HookLockExisting
  <2>2. QED
    BY <1>9, <2>1 DEF HookLockExisting
<1>10. ASSUME NEW t \in Threads, HookLockAddEntry(t)
      PROVE  TypeInv'
  <2>1. Vop(t) \in Vops
    BY <1>10, WorksOn DEF HookLockAddEntry
  <2>2. QED
    BY <1>10, <2>1 DEF HookLockAddEntry, CallInv
<1>11. ASSUME NEW t \in Threads, HookLockAddFails(t)
      PROVE  TypeInv'
  <2>1. Vop(t) \in Vops
    BY <1>11, WorksOn DEF HookLockAddFails
  <2>2. QED
    BY <1>11, <2>1 DEF HookLockAddFails
<1>12. ASSUME NEW t \in Threads, HookSlot(t)
      PROVE  TypeInv'
  <2>1. Vop(t) \in Vops
    BY <1>12, WorksOn DEF HookSlot
  <2>2. QED
    BY <1>12, <2>1 DEF HookSlot, CallInv
<1>13. ASSUME NEW t \in Threads, HookUnlock(t)
      PROVE  TypeInv'
  <2>1. Vop(t) \in Vops
    BY <1>13, WorksOn DEF HookUnlock
  <2>2. QED
    BY <1>13, <2>1 DEF HookUnlock
<1>14. ASSUME NEW t \in Threads, HookFinish(t)
      PROVE  TypeInv'
  <2>1. HookReturn(t) /\ pc[t] # "idle"
    BY <1>14 DEF HookFinish
  <2>2. /\ vn' \in [Threads -> Vnodes \cup {NoVnode}]
        /\ target' \in [Threads -> Vnodes \cup {NoVnode}]
    BY <2>1, HookReturns
  <2>3. newEntry[t] \in Entries /\ target[t] \in Vnodes
    BY <1>14 DEF HookFinish, CallInv
  <2>4. /\ refs' \in [Entries -> Int]
        /\ existing' \in [Threads -> Entries \cup {NoEntry}]
        /\ newEntry' \in [Threads -> Entries \cup {NoEntry}]
    BY <1>14, <2>3 DEF HookFinish
  <2>5. QED
    BY <1>14, <2>3, <2>1, <2>2, <2>4 DEF HookFinish
<1>15. ASSUME NEW t \in Threads, HookFailed(t)
      PROVE  TypeInv'
  <2>1. HookReturn(t) /\ pc[t] # "idle"
    BY <1>15 DEF HookFailed
  <2>2. /\ vn' \in [Threads -> Vnodes \cup {NoVnode}]
        /\ target' \in [Threads -> Vnodes \cup {NoVnode}]
    BY <2>1, HookReturns
  <2>3. newEntry[t] \in Entries
    BY <1>15 DEF HookFailed, CallInv
  <2>4. /\ refs' \in [Entries -> Int]
        /\ existing' \in [Threads -> Entries \cup {NoEntry}]
        /\ newEntry' \in [Threads -> Entries \cup {NoEntry}]
    BY <1>15, <2>3 DEF HookFailed
  <2>5. QED
    BY <1>15, <2>3, <2>1, <2>2, <2>4 DEF HookFailed
<1>16. ASSUME NEW t \in Threads, UnhookCheck(t)
      PROVE  TypeInv'
  <2>1. Vop(t) \in Vops
    BY <1>16, WorksOn DEF UnhookCheck
  <2>2. target' \in [Threads -> Vnodes \cup {NoVnode}]
    BY <1>16, UnhookReturns DEF UnhookCheck
  <2>3. QED
    BY <1>16, <2>1, <2>2 DEF UnhookCheck
<1>17. ASSUME NEW t \in Threads, UnhookLookup(t)
      PROVE  TypeInv'
  <2>1. Vop(t) \in Vops
    BY <1>17, WorksOn DEF UnhookLookup
  <2>2. target' \in [Threads -> Vnodes \cup {NoVnode}]
    BY <1>17, UnhookReturns DEF UnhookLookup
  <2>3. QED
    BY <1>17, <2>1, <2>2 DEF UnhookLookup
<1>18. ASSUME NEW t \in Threads, UnhookDecrement(t)
      PROVE  TypeInv'
  <2>1. existing[t] \in Entries /\ target[t] \in Vnodes
    BY <1>18 DEF UnhookDecrement, CallInv
  <2>2. target' \in [Threads -> Vnodes \cup {NoVnode}]
    BY <1>18, UnhookReturns DEF UnhookDecrement
  <2>3. /\ counter' \in [Entries -> Int] /\ marked' \in SUBSET Vnodes
        /\ UNCHANGED << kernel, table, origVop, call, newEntry >>
    BY <1>18, <2>1 DEF UnhookDecrement
  <2>4. refs' \in [Entries -> Int]
    <3>1. CASE counter[existing[t]] = 1
      BY <1>18, <3>1 DEF UnhookDecrement
    <3>2. CASE counter[existing[t]] # 1
      BY <1>18, <2>1, <3>2 DEF UnhookDecrement
    <3>3. QED
      BY <3>1, <3>2
  <2>5. existing' \in [Threads -> Entries \cup {NoEntry}]
    BY <1>18 DEF UnhookDecrement
  <2>6. QED
    BY <2>2, <2>3, <2>4, <2>5
<1>19. ASSUME NEW t \in Threads, UnhookLockBusy(t)
      PROVE  TypeInv'
  <2>1. Vop(t) \in Vops
    BY <1>19, WorksOn DEF UnhookLockBusy
  <2>2. QED
    BY <1>19, <2>1 DEF UnhookLockBusy
<1>20. ASSUME NEW t \in Threads, UnhookLockGone(t)
      PROVE  TypeInv'
  <2>1. target' \in [Threads -> Vnodes \cup {NoVnode}]
    BY <1>20, UnhookReturns DEF UnhookLockGone
  <2>2. existing[t] \in Entries
    BY <1>20 DEF UnhookLockGone, CallInv
  <2>3. /\ refs' \in [Entries -> Int]
        /\ existing' \in [Threads -> Entries \cup {NoEntry}]
        /\ newEntry' \in [Threads -> Entries \cup {NoEntry}]
    BY <1>20, <2>2 DEF UnhookLockGone
  <2>4. QED
    BY <1>20, <2>2, <2>1, <2>3 DEF UnhookLockGone
<1>21. ASSUME NEW t \in Threads, UnhookLockRemove(t)
      PROVE  TypeInv'
  <2>1. Vop(t) \in Vops
    BY <1>21, WorksOn DEF UnhookLockRemove
  <2>2. existing[t] \in Entries
    BY <1>21 DEF UnhookLockRemove, CallInv
  <2>3. /\ refs' \in [Entries -> Int]
        /\ existing' \in [Threads -> Entries \cup {NoEntry}]
        /\ newEntry' \in [Threads -> Entries \cup {NoEntry}]
    BY <1>21, <2>2, <2>1 DEF UnhookLockRemove
  <2>4. QED
    BY <1>21, <2>2, <2>1, <2>3 DEF UnhookLockRemove
<1>22. ASSUME NEW t \in Threads, UnhookSlot(t)
      PROVE  TypeInv'
  <2>1. Vop(t) \in Vops
    BY <1>22, WorksOn DEF UnhookSlot
  <2>2. QED
    BY <1>22, <2>1 DEF UnhookSlot, CallInv
<1>23. ASSUME NEW t \in Threads, UnhookUnlock(t)
      PROVE  TypeInv'
  <2>1. Vop(t) \in Vops
    BY <1>23, WorksOn DEF UnhookUnlock
  <2>2. QED
    BY <1>23, <2>1 DEF UnhookUnlock
<1>24. ASSUME NEW t \in Threads, UnhookFinish(t)
      PROVE  TypeInv'
  <2>1. target' \in [Threads -> Vnodes \cup {NoVnode}]
    BY <1>24, UnhookReturns DEF UnhookFinish
  <2>2. existing[t] \in Entries
    BY <1>24 DEF UnhookFinish, CallInv
  <2>3. /\ refs' \in [Entries -> Int]
        /\ existing' \in [Threads -> Entries \cup {NoEntry}]
        /\ newEntry' \in [Threads -> Entries \cup {NoEntry}]
    BY <1>24, <2>2 DEF UnhookFinish
  <2>4. QED
    BY <1>24, <2>2, <2>1, <2>3 DEF UnhookFinish
<1>25. ASSUME NEW t \in Threads, CallOriginal(t)
      PROVE  TypeInv'
  <2>1. /\ vn' \in [Threads -> Vnodes \cup {NoVnode}]
        /\ target' \in [Threads -> Vnodes \cup {NoVnode}]
        /\ original' \in [Threads -> VOPFUNC]
    BY <1>25 DEF CallOriginal, Idle
  <2>2. vstate' \in [Vnodes -> {"live", "dying", "dead"}]
    BY <1>25 DEF CallOriginal
  <2>3. op' \in [Threads -> Ops]
    BY <1>25, SetAssumption DEF CallOriginal
  <2>4. QED
    BY <1>25, <2>1, <2>2, <2>3 DEF CallOriginal
<1>26. ASSUME NEW v \in Vnodes, VnodeCreate(v) \/ VnodeTerminate(v) \/ ReclaimMissed(v)
      PROVE  TypeInv'
  BY <1>26 DEF VnodeCreate, VnodeTerminate, ReclaimMissed
<1>27. ASSUME NEW t \in Threads, NEW v \in Vnodes, VnodeAuthorizeCallback(t, v)
      PROVE  TypeInv'
  BY <1>27 DEF VnodeAuthorizeCallback
<1>28. ASSUME NEW t \in Threads, NEW v \in Vnodes, NEW o \in Ops, VnopCall(t, v, o)
      PROVE  TypeInv'
  BY <1>28 DEF VnopCall
<1>29. CASE UNCHANGED vars
  BY <1>29
<1>30. QED
  BY <1>1, <1>2, <1>3, <1>4, <1>5, <1>6, <1>7, <1>8, <1>9, <1>10, <1>11, <1>12,
     <1>13, <1>14, <1>15, <1>16, <1>17, <1>18, <1>19, <1>20, <1>21, <1>22, <1>23,
     <1>24, <1>25, <1>26, <1>27, <1>28, <1>29
     DEF Next, Step, GetOriginal, HookVnodeVop, UnhookVnodeVop, Kernel, NewCall

\* Every step keeps what the functions have in hand (CallInv).
LEMMA CallStep ==
  ASSUME IInv, [Next]_vars
  PROVE  CallInv'
<1> USE NoneAssumption DEF IInv, TypeInv, CallInv
<1>1. ASSUME NEW t \in Threads, GetOriginalLookup(t)
      PROVE  CallInv'
  <2>1. Vop(t) \in Vops
    BY <1>1, WorksOn DEF GetOriginalLookup
  <2>2. /\ pc' \in [Threads -> {"idle"} \cup HookPc \cup OrigPc \cup UnhookPc]
        /\ \A u \in Threads \ {t} : /\ pc'[u] = pc[u] /\ vn'[u] = vn[u]
                                     /\ target'[u] = target[u]
                                     /\ existing'[u] = existing[u]
                                     /\ newEntry'[u] = newEntry[u]
    BY <1>1, <2>1, ZenonT(60) DEF GetOriginalLookup
  <2>3. /\ pc'[t] # "idle" => vn'[t] \in Vnodes /\ target'[t] \in Vnodes
        /\ newEntry'[t] # NoEntry <=> pc'[t] \in NewPc
    BY <1>1, <2>1, ZenonT(60) DEF GetOriginalLookup
  <2>4. existing'[t] # NoEntry <=> pc'[t] \in ExistingPc
    BY <1>1, <2>1 DEF GetOriginalLookup
  <2>5. QED
    BY <2>2, <2>3, <2>4, CallChange
<1>2. ASSUME NEW t \in Threads, GetOriginalRecheck(t)
      PROVE  CallInv'
  <2>1. Vop(t) \in Vops
    BY <1>2, WorksOn DEF GetOriginalRecheck
  <2>2. /\ pc' \in [Threads -> {"idle"} \cup HookPc \cup OrigPc \cup UnhookPc]
        /\ \A u \in Threads \ {t} : /\ pc'[u] = pc[u] /\ vn'[u] = vn[u]
                                     /\ target'[u] = target[u]
                                     /\ existing'[u] = existing[u]
                                     /\ newEntry'[u] = newEntry[u]
    BY <1>2, <2>1, ZenonT(60) DEF GetOriginalRecheck
  <2>3. /\ pc'[t] # "idle" => vn'[t] \in Vnodes /\ target'[t] \in Vnodes
        /\ newEntry'[t] # NoEntry <=> pc'[t] \in NewPc
    BY <1>2, <2>1, SMTT(40) DEF GetOriginalRecheck
  <2>4. existing'[t] # NoEntry <=> pc'[t] \in ExistingPc
    BY <1>2, <2>1 DEF GetOriginalRecheck
  <2>5. QED
    BY <2>2, <2>3, <2>4, CallChange
<1>3. ASSUME NEW t \in Threads, GetOriginalFromEntry(t)
      PROVE  CallInv'
  BY <1>3 DEF GetOriginalFromEntry
<1>4. ASSUME NEW t \in Threads, HookSkip(t)
      PROVE  CallInv'
  <2>1. HookReturn(t) /\ pc[t] # "idle"
    BY <1>4 DEF HookSkip
  <2>2. /\ pc' \in [Threads -> {"idle"} \cup HookPc \cup OrigPc \cup UnhookPc]
        /\ \A u \in Threads \ {t} : /\ pc'[u] = pc[u] /\ vn'[u] = vn[u]
                                     /\ target'[u] = target[u]
                                     /\ existing'[u] = existing[u]
                                     /\ newEntry'[u] = newEntry[u]
    BY <1>4, <2>1, HookReturns DEF HookSkip, Others
  <2>3. /\ pc'[t] # "idle" => vn'[t] \in Vnodes /\ target'[t] \in Vnodes
        /\ newEntry'[t] # NoEntry <=> pc'[t] \in NewPc
    BY <1>4, <2>1, HookReturns DEF HookSkip, Others
  <2>4. existing'[t] # NoEntry <=> pc'[t] \in ExistingPc
    BY <1>4, <2>1, HookReturns DEF HookSkip, Others
  <2>5. QED
    BY <2>2, <2>3, <2>4, CallChange
<1>5. ASSUME NEW t \in Threads, HookLookup(t)
      PROVE  CallInv'
  <2>1. Vop(t) \in Vops
    BY <1>5, WorksOn DEF HookLookup
  <2>2. /\ pc' \in [Threads -> {"idle"} \cup HookPc \cup OrigPc \cup UnhookPc]
        /\ \A u \in Threads \ {t} : /\ pc'[u] = pc[u] /\ vn'[u] = vn[u]
                                     /\ target'[u] = target[u]
                                     /\ existing'[u] = existing[u]
                                     /\ newEntry'[u] = newEntry[u]
    BY <1>5, <2>1, ZenonT(60) DEF HookLookup
  <2>3. /\ pc'[t] # "idle" => vn'[t] \in Vnodes /\ target'[t] \in Vnodes
        /\ newEntry'[t] # NoEntry <=> pc'[t] \in NewPc
    BY <1>5, <2>1, SMTT(40) DEF HookLookup
  <2>4. existing'[t] # NoEntry <=> pc'[t] \in ExistingPc
    BY <1>5, <2>1 DEF HookLookup
  <2>5. QED
    BY <2>2, <2>3, <2>4, CallChange
<1>6. ASSUME NEW t \in Threads, HookFound(t)
      PROVE  CallInv'
  <2>1. HookReturn(t) /\ pc[t] # "idle"
    BY <1>6 DEF HookFound
  <2>2. QED
    BY <1>6, <2>1, HookReturns DEF HookFound, Others
<1>7. ASSUME NEW t \in Threads, HookAllocate(t)
      PROVE  CallInv'
  BY <1>7 DEF HookAllocate
<1>8. ASSUME NEW t \in Threads, HookNoMemory(t)
      PROVE  CallInv'
  <2>1. HookReturn(t) /\ pc[t] # "idle"
    BY <1>8 DEF HookNoMemory
  <2>2. QED
    BY <1>8, <2>1, HookReturns DEF HookNoMemory, Others
<1>9. ASSUME NEW t \in Threads, HookLockExisting(t)
      PROVE  CallInv'
  BY <1>9 DEF HookLockExisting
<1>10. ASSUME NEW t \in Threads, HookLockAddEntry(t)
      PROVE  CallInv'
  BY <1>10 DEF HookLockAddEntry
<1>11. ASSUME NEW t \in Threads, HookLockAddFails(t)
      PROVE  CallInv'
  BY <1>11 DEF HookLockAddFails
<1>12. ASSUME NEW t \in Threads, HookSlot(t)
      PROVE  CallInv'
  BY <1>12 DEF HookSlot
<1>13. ASSUME NEW t \in Threads, HookUnlock(t)
      PROVE  CallInv'
  BY <1>13 DEF HookUnlock
<1>14. ASSUME NEW t \in Threads, HookFinish(t)
      PROVE  CallInv'
  <2>1. HookReturn(t) /\ pc[t] # "idle"
    BY <1>14 DEF HookFinish
  <2>2. QED
    BY <1>14, <2>1, HookReturns DEF HookFinish, Others
<1>15. ASSUME NEW t \in Threads, HookFailed(t)
      PROVE  CallInv'
  <2>1. HookReturn(t) /\ pc[t] # "idle"
    BY <1>15 DEF HookFailed
  <2>2. QED
    BY <1>15, <2>1, HookReturns DEF HookFailed, Others
<1>16. ASSUME NEW t \in Threads, UnhookCheck(t)
      PROVE  CallInv'
  <2>1. UnhookReturn(t) =>
          /\ pc' \in [Threads -> {"idle"} \cup HookPc \cup OrigPc \cup UnhookPc]
          /\ pc'[t] \in {"callOrig", "unhookCheck"} /\ target'[t] \in Vnodes
          /\ Others(t)
    BY <1>16, UnhookReturns DEF UnhookCheck
  <2>2. /\ pc' \in [Threads -> {"idle"} \cup HookPc \cup OrigPc \cup UnhookPc]
        /\ \A u \in Threads \ {t} : /\ pc'[u] = pc[u] /\ vn'[u] = vn[u]
                                     /\ target'[u] = target[u]
                                     /\ existing'[u] = existing[u]
                                     /\ newEntry'[u] = newEntry[u]
    BY <1>16, <2>1 DEF UnhookCheck, Others
  <2>3. /\ pc'[t] # "idle" => vn'[t] \in Vnodes /\ target'[t] \in Vnodes
        /\ newEntry'[t] # NoEntry <=> pc'[t] \in NewPc
    BY <1>16, <2>1 DEF UnhookCheck, Others
  <2>4. existing'[t] # NoEntry <=> pc'[t] \in ExistingPc
    BY <1>16, <2>1 DEF UnhookCheck, Others
  <2>5. QED
    BY <2>2, <2>3, <2>4, CallChange
<1>17. ASSUME NEW t \in Threads, UnhookLookup(t)
      PROVE  CallInv'
  <2>1. UnhookReturn(t) =>
          /\ pc' \in [Threads -> {"idle"} \cup HookPc \cup OrigPc \cup UnhookPc]
          /\ pc'[t] \in {"callOrig", "unhookCheck"} /\ target'[t] \in Vnodes
          /\ Others(t)
    BY <1>17, UnhookReturns DEF UnhookLookup
  <2>2. /\ pc' \in [Threads -> {"idle"} \cup HookPc \cup OrigPc \cup UnhookPc]
        /\ \A u \in Threads \ {t} : /\ pc'[u] = pc[u] /\ vn'[u] = vn[u]
                                     /\ target'[u] = target[u]
                                     /\ existing'[u] = existing[u]
                                     /\ newEntry'[u] = newEntry[u]
    BY <1>17, <2>1 DEF UnhookLookup, Others
  <2>3. /\ pc'[t] # "idle" => vn'[t] \in Vnodes /\ target'[t] \in Vnodes
        /\ newEntry'[t] # NoEntry <=> pc'[t] \in NewPc
    BY <1>17, <2>1 DEF UnhookLookup, Others
  <2>4. existing'[t] # NoEntry <=> pc'[t] \in ExistingPc
    BY <1>17, <2>1, SMTT(40) DEF UnhookLookup, Others
  <2>5. QED
    BY <2>2, <2>3, <2>4, CallChange
<1>18. ASSUME NEW t \in Threads, UnhookDecrement(t)
      PROVE  CallInv'
  <2>1. UnhookReturn(t) =>
          /\ pc' \in [Threads -> {"idle"} \cup HookPc \cup OrigPc \cup UnhookPc]
          /\ pc'[t] \in {"callOrig", "unhookCheck"} /\ target'[t] \in Vnodes
          /\ Others(t)
    BY <1>18, UnhookReturns DEF UnhookDecrement
  <2>2. /\ pc' \in [Threads -> {"idle"} \cup HookPc \cup OrigPc \cup UnhookPc]
        /\ \A u \in Threads \ {t} : /\ pc'[u] = pc[u] /\ vn'[u] = vn[u]
                                     /\ target'[u] = target[u]
                                     /\ existing'[u] = existing[u]
                                     /\ newEntry'[u] = newEntry[u]
    BY <1>18, <2>1, SMTT(40) DEF UnhookDecrement, Others
  <2>3. /\ pc'[t] # "idle" => vn'[t] \in Vnodes /\ target'[t] \in Vnodes
        /\ newEntry'[t] # NoEntry <=> pc'[t] \in NewPc
    BY <1>18, <2>1 DEF UnhookDecrement, Others
  <2>4. existing'[t] # NoEntry <=> pc'[t] \in ExistingPc
    BY <1>18, <2>1 DEF UnhookDecrement, Others
  <2>5. QED
    BY <2>2, <2>3, <2>4, CallChange
<1>19. ASSUME NEW t \in Threads, UnhookLockBusy(t)
      PROVE  CallInv'
  BY <1>19 DEF UnhookLockBusy
<1>20. ASSUME NEW t \in Threads, UnhookLockGone(t)
      PROVE  CallInv'
  <2>1. UnhookReturn(t) =>
          /\ pc' \in [Threads -> {"idle"} \cup HookPc \cup OrigPc \cup UnhookPc]
          /\ pc'[t] \in {"callOrig", "unhookCheck"} /\ target'[t] \in Vnodes
          /\ Others(t)
    BY <1>20, UnhookReturns DEF UnhookLockGone
  <2>2. /\ pc' \in [Threads -> {"idle"} \cup HookPc \cup OrigPc \cup UnhookPc]
        /\ \A u \in Threads \ {t} : /\ pc'[u] = pc[u] /\ vn'[u] = vn[u]
                                     /\ target'[u] = target[u]
                                     /\ existing'[u] = existing[u]
                                     /\ newEntry'[u] = newEntry[u]
    BY <1>20, <2>1, ZenonT(60) DEF UnhookLockGone, Others
  <2>3. /\ pc'[t] # "idle" => vn'[t] \in Vnodes /\ target'[t] \in Vnodes
        /\ newEntry'[t] # NoEntry <=> pc'[t] \in NewPc
    BY <1>20, <2>1 DEF UnhookLockGone, Others
  <2>4. existing'[t] # NoEntry <=> pc'[t] \in ExistingPc
    BY <1>20, <2>1 DEF UnhookLockGone, Others
  <2>5. QED
    BY <2>2, <2>3, <2>4, CallChange
<1>21. ASSUME NEW t \in Threads, UnhookLockRemove(t)
      PROVE  CallInv'
  <2>1. Vop(t) \in Vops
    BY <1>21, WorksOn DEF UnhookLockRemove
  <2>2. /\ pc' \in [Threads -> {"idle"} \cup HookPc \cup OrigPc \cup UnhookPc]
        /\ \A u \in Threads \ {t} : /\ pc'[u] = pc[u] /\ vn'[u] = vn[u]
                                     /\ target'[u] = target[u]
                                     /\ existing'[u] = existing[u]
                                     /\ newEntry'[u] = newEntry[u]
    BY <1>21, <2>1 DEF UnhookLockRemove
  <2>3. /\ pc'[t] # "idle" => vn'[t] \in Vnodes /\ target'[t] \in Vnodes
        /\ newEntry'[t] # NoEntry <=> pc'[t] \in NewPc
    BY <1>21, <2>1 DEF UnhookLockRemove
  <2>4. existing'[t] # NoEntry <=> pc'[t] \in ExistingPc
    BY <1>21, <2>1 DEF UnhookLockRemove
  <2>5. QED
    BY <2>2, <2>3, <2>4, CallChange
<1>22. ASSUME NEW t \in Threads, UnhookSlot(t)
      PROVE  CallInv'
  BY <1>22 DEF UnhookSlot
<1>23. ASSUME NEW t \in Threads, UnhookUnlock(t)
      PROVE  CallInv'
  BY <1>23 DEF UnhookUnlock
<1>24. ASSUME NEW t \in Threads, UnhookFinish(t)
      PROVE  CallInv'
  <2>1. UnhookReturn(t) =>
          /\ pc' \in [Threads -> {"idle"} \cup HookPc \cup OrigPc \cup UnhookPc]
          /\ pc'[t] \in {"callOrig", "unhookCheck"} /\ target'[t] \in Vnodes
          /\ Others(t)
    BY <1>24, UnhookReturns DEF UnhookFinish
  <2>2. /\ pc' \in [Threads -> {"idle"} \cup HookPc \cup OrigPc \cup UnhookPc]
        /\ \A u \in Threads \ {t} : /\ pc'[u] = pc[u] /\ vn'[u] = vn[u]
                                     /\ target'[u] = target[u]
                                     /\ existing'[u] = existing[u]
                                     /\ newEntry'[u] = newEntry[u]
    BY <1>24, <2>1 DEF UnhookFinish, Others
  <2>3. /\ pc'[t] # "idle" => vn'[t] \in Vnodes /\ target'[t] \in Vnodes
        /\ newEntry'[t] # NoEntry <=> pc'[t] \in NewPc
    BY <1>24, <2>1 DEF UnhookFinish, Others
  <2>4. existing'[t] # NoEntry <=> pc'[t] \in ExistingPc
    BY <1>24, <2>1 DEF UnhookFinish, Others
  <2>5. QED
    BY <2>2, <2>3, <2>4, CallChange
<1>25. ASSUME NEW t \in Threads, CallOriginal(t)
      PROVE  CallInv'
  BY <1>25 DEF CallOriginal, Idle
<1>26. ASSUME NEW v \in Vnodes, VnodeCreate(v) \/ VnodeTerminate(v) \/ ReclaimMissed(v)
      PROVE  CallInv'
  BY <1>26 DEF VnodeCreate, VnodeTerminate, ReclaimMissed
<1>27. ASSUME NEW t \in Threads, NEW v \in Vnodes, VnodeAuthorizeCallback(t, v)
      PROVE  CallInv'
  BY <1>27 DEF VnodeAuthorizeCallback
<1>28. ASSUME NEW t \in Threads, NEW v \in Vnodes, NEW o \in Ops, VnopCall(t, v, o)
      PROVE  CallInv'
  BY <1>28 DEF VnopCall
<1>29. CASE UNCHANGED vars
  BY <1>29
<1>30. QED
  BY <1>1, <1>2, <1>3, <1>4, <1>5, <1>6, <1>7, <1>8, <1>9, <1>10, <1>11, <1>12,
     <1>13, <1>14, <1>15, <1>16, <1>17, <1>18, <1>19, <1>20, <1>21, <1>22, <1>23,
     <1>24, <1>25, <1>26, <1>27, <1>28, <1>29
     DEF Next, Step, GetOriginal, HookVnodeVop, UnhookVnodeVop, Kernel, NewCall

\* LockHeldWhileWalking is kept.
LEMMA LockStep ==
  ASSUME IInv, [Next]_vars
  PROVE  LockHeldWhileWalking'
<1> USE NoneAssumption DEF IInv, TypeInv, CallInv, LockHeldWhileWalking
<1>1. ASSUME NEW t \in Threads, GetOriginalLookup(t)
      PROVE  LockHeldWhileWalking'
  BY <1>1 DEF GetOriginalLookup
<1>2. ASSUME NEW t \in Threads, GetOriginalRecheck(t)
      PROVE  LockHeldWhileWalking'
  BY <1>2 DEF GetOriginalRecheck
<1>3. ASSUME NEW t \in Threads, GetOriginalFromEntry(t)
      PROVE  LockHeldWhileWalking'
  BY <1>3 DEF GetOriginalFromEntry
<1>4. ASSUME NEW t \in Threads, HookSkip(t)
      PROVE  LockHeldWhileWalking'
  BY <1>4 DEF HookSkip, HookReturn, ParentIsNext, Idle
<1>5. ASSUME NEW t \in Threads, HookLookup(t)
      PROVE  LockHeldWhileWalking'
  BY <1>5 DEF HookLookup
<1>6. ASSUME NEW t \in Threads, HookFound(t)
      PROVE  LockHeldWhileWalking'
  BY <1>6 DEF HookFound, HookReturn, ParentIsNext, Idle
<1>7. ASSUME NEW t \in Threads, HookAllocate(t)
      PROVE  LockHeldWhileWalking'
  BY <1>7 DEF HookAllocate
<1>8. ASSUME NEW t \in Threads, HookNoMemory(t)
      PROVE  LockHeldWhileWalking'
  BY <1>8 DEF HookNoMemory, HookReturn, ParentIsNext, Idle
<1>9. ASSUME NEW t \in Threads, HookLockExisting(t)
      PROVE  LockHeldWhileWalking'
  BY <1>9 DEF HookLockExisting
<1>10. ASSUME NEW t \in Threads, HookLockAddEntry(t)
      PROVE  LockHeldWhileWalking'
  BY <1>10 DEF HookLockAddEntry
<1>11. ASSUME NEW t \in Threads, HookLockAddFails(t)
      PROVE  LockHeldWhileWalking'
  BY <1>11 DEF HookLockAddFails
<1>12. ASSUME NEW t \in Threads, HookSlot(t)
      PROVE  LockHeldWhileWalking'
  BY <1>12 DEF HookSlot
<1>13. ASSUME NEW t \in Threads, HookUnlock(t)
      PROVE  LockHeldWhileWalking'
  BY <1>13 DEF HookUnlock
<1>14. ASSUME NEW t \in Threads, HookFinish(t)
      PROVE  LockHeldWhileWalking'
  BY <1>14 DEF HookFinish, HookReturn, ParentIsNext, Idle
<1>15. ASSUME NEW t \in Threads, HookFailed(t)
      PROVE  LockHeldWhileWalking'
  BY <1>15 DEF HookFailed, HookReturn, ParentIsNext, Idle
<1>16. ASSUME NEW t \in Threads, UnhookCheck(t)
      PROVE  LockHeldWhileWalking'
  BY <1>16 DEF UnhookCheck, UnhookReturn, ParentIsNext
<1>17. ASSUME NEW t \in Threads, UnhookLookup(t)
      PROVE  LockHeldWhileWalking'
  BY <1>17 DEF UnhookLookup, UnhookReturn, ParentIsNext
<1>18. ASSUME NEW t \in Threads, UnhookDecrement(t)
      PROVE  LockHeldWhileWalking'
  BY <1>18 DEF UnhookDecrement, UnhookReturn, ParentIsNext
<1>19. ASSUME NEW t \in Threads, UnhookLockBusy(t)
      PROVE  LockHeldWhileWalking'
  BY <1>19 DEF UnhookLockBusy
<1>20. ASSUME NEW t \in Threads, UnhookLockGone(t)
      PROVE  LockHeldWhileWalking'
  BY <1>20 DEF UnhookLockGone, UnhookReturn, ParentIsNext
<1>21. ASSUME NEW t \in Threads, UnhookLockRemove(t)
      PROVE  LockHeldWhileWalking'
  BY <1>21 DEF UnhookLockRemove
<1>22. ASSUME NEW t \in Threads, UnhookSlot(t)
      PROVE  LockHeldWhileWalking'
  BY <1>22 DEF UnhookSlot
<1>23. ASSUME NEW t \in Threads, UnhookUnlock(t)
      PROVE  LockHeldWhileWalking'
  BY <1>23 DEF UnhookUnlock
<1>24. ASSUME NEW t \in Threads, UnhookFinish(t)
      PROVE  LockHeldWhileWalking'
  BY <1>24 DEF UnhookFinish, UnhookReturn, ParentIsNext
<1>25. ASSUME NEW t \in Threads, CallOriginal(t)
      PROVE  LockHeldWhileWalking'
  BY <1>25 DEF CallOriginal, Idle
<1>26. ASSUME NEW v \in Vnodes, VnodeCreate(v) \/ VnodeTerminate(v) \/ ReclaimMissed(v)
      PROVE  LockHeldWhileWalking'
  BY <1>26 DEF VnodeCreate, VnodeTerminate, ReclaimMissed
<1>27. ASSUME NEW t \in Threads, NEW v \in Vnodes, VnodeAuthorizeCallback(t, v)
      PROVE  LockHeldWhileWalking'
  BY <1>27 DEF VnodeAuthorizeCallback
<1>28. ASSUME NEW t \in Threads, NEW v \in Vnodes, NEW o \in Ops, VnopCall(t, v, o)
      PROVE  LockHeldWhileWalking'
  BY <1>28 DEF VnopCall
<1>29. CASE UNCHANGED vars
  BY <1>29
<1>30. QED
  BY <1>1, <1>2, <1>3, <1>4, <1>5, <1>6, <1>7, <1>8, <1>9, <1>10, <1>11, <1>12,
     <1>13, <1>14, <1>15, <1>16, <1>17, <1>18, <1>19, <1>20, <1>21, <1>22, <1>23,
     <1>24, <1>25, <1>26, <1>27, <1>28, <1>29
     DEF Next, Step, GetOriginal, HookVnodeVop, UnhookVnodeVop, Kernel, NewCall

\* FoundInv is kept.
LEMMA FoundStep ==
  ASSUME IInv, [Next]_vars
  PROVE  FoundInv'
<1> USE NoneAssumption DEF IInv, TypeInv, CallInv
<1>1. ASSUME NEW t \in Threads, GetOriginalLookup(t)
      PROVE  FoundInv'
  <2>1. Vop(t) \in Vops /\ \A u \in Threads : pc[u] \notin WalkPc
    BY <1>1, WorksOn DEF GetOriginalLookup, LockHeldWhileWalking
  <2>2. hash[Vop(t)] # NoEntry => \A o \in Ops : origVop[hash[Vop(t)]][o] = "fsd"
    BY <2>1 DEF VectorInv, Walked
  <2>3. QED
    BY <1>1, <2>1, <2>2 DEF GetOriginalLookup, FoundInv
<1>2. ASSUME NEW t \in Threads, GetOriginalRecheck(t)
      PROVE  FoundInv'
  <2>1. Vop(t) \in Vops /\ \A u \in Threads : pc[u] \notin WalkPc
    BY <1>2, WorksOn DEF GetOriginalRecheck, LockHeldWhileWalking
  <2>2. hash[Vop(t)] # NoEntry => \A o \in Ops : origVop[hash[Vop(t)]][o] = "fsd"
    BY <2>1 DEF VectorInv, Walked
  <2>3. QED
    BY <1>2, <2>1, <2>2 DEF GetOriginalRecheck, FoundInv
<1>3. ASSUME NEW t \in Threads, GetOriginalFromEntry(t)
      PROVE  FoundInv'
  BY <1>3 DEF GetOriginalFromEntry, FoundInv
<1>4. ASSUME NEW t \in Threads, HookSkip(t)
      PROVE  FoundInv'
  BY <1>4 DEF HookSkip, FoundInv
<1>5. ASSUME NEW t \in Threads, HookLookup(t)
      PROVE  FoundInv'
  <2>1. Vop(t) \in Vops /\ \A u \in Threads : pc[u] \notin WalkPc
    BY <1>5, WorksOn DEF HookLookup, LockHeldWhileWalking
  <2>2. hash[Vop(t)] # NoEntry => \A o \in Ops : origVop[hash[Vop(t)]][o] = "fsd"
    BY <2>1 DEF VectorInv, Walked
  <2>3. QED
    BY <1>5, <2>1, <2>2 DEF HookLookup, FoundInv
<1>6. ASSUME NEW t \in Threads, HookFound(t)
      PROVE  FoundInv'
  BY <1>6 DEF HookFound, FoundInv
<1>7. ASSUME NEW t \in Threads, HookAllocate(t)
      PROVE  FoundInv'
  <2>1. PICK e \in Entries : /\ refs[e] = 0
                              /\ origVop' = [origVop EXCEPT ![e] = [o \in Ops |-> "NULL"]]
    BY <1>7 DEF HookAllocate
  <2>2. \A u \in Threads : existing[u] # e
    BY <2>1, FreeEntry
  <2>3. \A u \in Threads : existing[u] # NoEntry => origVop'[existing[u]] = origVop[existing[u]]
    BY <2>1, <2>2
  <2>4. UNCHANGED existing
    BY <1>7 DEF HookAllocate
  <2>5. QED
    BY <2>3, <2>4 DEF FoundInv
<1>8. ASSUME NEW t \in Threads, HookNoMemory(t)
      PROVE  FoundInv'
  BY <1>8 DEF HookNoMemory, FoundInv
<1>9. ASSUME NEW t \in Threads, HookLockExisting(t)
      PROVE  FoundInv'
  BY <1>9 DEF HookLockExisting, FoundInv
<1>10. ASSUME NEW t \in Threads, HookLockAddEntry(t)
      PROVE  FoundInv'
  BY <1>10 DEF HookLockAddEntry, FoundInv
<1>11. ASSUME NEW t \in Threads, HookLockAddFails(t)
      PROVE  FoundInv'
  BY <1>11 DEF HookLockAddFails, FoundInv
<1>12. ASSUME NEW t \in Threads, HookSlot(t)
      PROVE  FoundInv'
  <2>1. PICK o \in Ops \ done :
          origVop' = [origVop EXCEPT ![newEntry[t]][o] = slots[Vop(t)][o]]
    BY <1>12 DEF HookSlot, LoopAt
  <2>2. newEntry[t] \in Entries /\ UNCHANGED existing
    BY <1>12 DEF HookSlot
  <2>3. slots[Vop(t)][o] = "fsd"
    BY <1>12, <2>1 DEF HookSlot, WalkInv
  <2>4. ASSUME NEW e \in Entries, NEW p \in Ops, origVop[e][p] = "fsd"
        PROVE  origVop'[e][p] = "fsd"
    BY <2>1, <2>2, <2>3, <2>4
  <2>5. QED
    BY <2>2, <2>4 DEF FoundInv
<1>13. ASSUME NEW t \in Threads, HookUnlock(t)
      PROVE  FoundInv'
  BY <1>13 DEF HookUnlock, FoundInv
<1>14. ASSUME NEW t \in Threads, HookFinish(t)
      PROVE  FoundInv'
  BY <1>14 DEF HookFinish, FoundInv
<1>15. ASSUME NEW t \in Threads, HookFailed(t)
      PROVE  FoundInv'
  BY <1>15 DEF HookFailed, FoundInv
<1>16. ASSUME NEW t \in Threads, UnhookCheck(t)
      PROVE  FoundInv'
  BY <1>16 DEF UnhookCheck, FoundInv
<1>17. ASSUME NEW t \in Threads, UnhookLookup(t)
      PROVE  FoundInv'
  <2>1. Vop(t) \in Vops /\ \A u \in Threads : pc[u] \notin WalkPc
    BY <1>17, WorksOn DEF UnhookLookup, LockHeldWhileWalking
  <2>2. hash[Vop(t)] # NoEntry => \A o \in Ops : origVop[hash[Vop(t)]][o] = "fsd"
    BY <2>1 DEF VectorInv, Walked
  <2>3. QED
    BY <1>17, <2>1, <2>2 DEF UnhookLookup, FoundInv
<1>18. ASSUME NEW t \in Threads, UnhookDecrement(t)
      PROVE  FoundInv'
  BY <1>18 DEF UnhookDecrement, FoundInv
<1>19. ASSUME NEW t \in Threads, UnhookLockBusy(t)
      PROVE  FoundInv'
  BY <1>19 DEF UnhookLockBusy, FoundInv
<1>20. ASSUME NEW t \in Threads, UnhookLockGone(t)
      PROVE  FoundInv'
  BY <1>20 DEF UnhookLockGone, FoundInv
<1>21. ASSUME NEW t \in Threads, UnhookLockRemove(t)
      PROVE  FoundInv'
  <2>1. Vop(t) \in Vops /\ \A u \in Threads : pc[u] \notin WalkPc
    BY <1>21, WorksOn DEF UnhookLockRemove, LockHeldWhileWalking
  <2>2. hash[Vop(t)] # NoEntry => \A o \in Ops : origVop[hash[Vop(t)]][o] = "fsd"
    BY <2>1 DEF VectorInv, Walked
  <2>3. QED
    BY <1>21, <2>1, <2>2 DEF UnhookLockRemove, FoundInv
<1>22. ASSUME NEW t \in Threads, UnhookSlot(t)
      PROVE  FoundInv'
  BY <1>22 DEF UnhookSlot, FoundInv
<1>23. ASSUME NEW t \in Threads, UnhookUnlock(t)
      PROVE  FoundInv'
  BY <1>23 DEF UnhookUnlock, FoundInv
<1>24. ASSUME NEW t \in Threads, UnhookFinish(t)
      PROVE  FoundInv'
  BY <1>24 DEF UnhookFinish, FoundInv
<1>25. ASSUME NEW t \in Threads, CallOriginal(t)
      PROVE  FoundInv'
  BY <1>25 DEF CallOriginal, FoundInv
<1>26. ASSUME NEW v \in Vnodes, VnodeCreate(v) \/ VnodeTerminate(v) \/ ReclaimMissed(v)
      PROVE  FoundInv'
  BY <1>26 DEF VnodeCreate, VnodeTerminate, ReclaimMissed, FoundInv
<1>27. ASSUME NEW t \in Threads, NEW v \in Vnodes, VnodeAuthorizeCallback(t, v)
      PROVE  FoundInv'
  BY <1>27 DEF VnodeAuthorizeCallback, FoundInv
<1>28. ASSUME NEW t \in Threads, NEW v \in Vnodes, NEW o \in Ops, VnopCall(t, v, o)
      PROVE  FoundInv'
  BY <1>28 DEF VnopCall, FoundInv
<1>29. CASE UNCHANGED vars
  BY <1>29 DEF FoundInv
<1>30. QED
  BY <1>1, <1>2, <1>3, <1>4, <1>5, <1>6, <1>7, <1>8, <1>9, <1>10, <1>11, <1>12,
     <1>13, <1>14, <1>15, <1>16, <1>17, <1>18, <1>19, <1>20, <1>21, <1>22, <1>23,
     <1>24, <1>25, <1>26, <1>27, <1>28, <1>29
     DEF Next, Step, GetOriginal, HookVnodeVop, UnhookVnodeVop, Kernel, NewCall

\* WalkInv is kept.
LEMMA WalkStep ==
  ASSUME IInv, [Next]_vars
  PROVE  WalkInv'
<1> USE NoneAssumption DEF IInv, TypeInv, CallInv
<1>1. ASSUME NEW t \in Threads, GetOriginalLookup(t)
      PROVE  WalkInv'
  BY <1>1, WalkKept DEF GetOriginalLookup
<1>2. ASSUME NEW t \in Threads, GetOriginalRecheck(t)
      PROVE  WalkInv'
  BY <1>2, WalkKept DEF GetOriginalRecheck
<1>3. ASSUME NEW t \in Threads, GetOriginalFromEntry(t)
      PROVE  WalkInv'
  BY <1>3, WalkKept DEF GetOriginalFromEntry
<1>4. ASSUME NEW t \in Threads, HookSkip(t)
      PROVE  WalkInv'
  <2>1. HookReturn(t) /\ pc[t] # "idle"
    BY <1>4 DEF HookSkip
  <2>2. QED
    BY <1>4, <2>1, HookReturns, WalkKept DEF HookSkip, Others
<1>5. ASSUME NEW t \in Threads, HookLookup(t)
      PROVE  WalkInv'
  BY <1>5, WalkKept DEF HookLookup
<1>6. ASSUME NEW t \in Threads, HookFound(t)
      PROVE  WalkInv'
  <2>1. HookReturn(t) /\ pc[t] # "idle"
    BY <1>6 DEF HookFound
  <2>2. QED
    BY <1>6, <2>1, HookReturns, WalkKept DEF HookFound, Others
<1>7. ASSUME NEW t \in Threads, HookAllocate(t)
      PROVE  WalkInv'
  <2>1. PICK e \in Entries : /\ refs[e] = 0
                              /\ newEntry' = [newEntry EXCEPT ![t] = e]
                              /\ origVop' = [origVop EXCEPT ![e] = [o \in Ops |-> "NULL"]]
    BY <1>7 DEF HookAllocate
  <2>2. \A u \in Threads : newEntry[u] # e
    BY <2>1, FreeEntry
  <2>3. ASSUME NEW u \in Threads, pc'[u] \in WalkPc
        PROVE  /\ pc'[u] = pc[u] /\ u # t /\ newEntry'[u] = newEntry[u]
               /\ newEntry[u] \in Entries \/ pc[u] = "unhookSlots"
    BY <1>7, <2>1, <2>3 DEF HookAllocate
  <2>4. ASSUME NEW u \in Threads, pc'[u] \in WalkPc, newEntry[u] \in Entries
        PROVE  origVop'[newEntry[u]] = origVop[newEntry[u]]
    BY <2>1, <2>2, <2>4
  <2>5. UNCHANGED << hash, slots, done, target >>
    BY <1>7 DEF HookAllocate
  <2>6. QED
    BY <2>3, <2>4, <2>5 DEF WalkInv
<1>8. ASSUME NEW t \in Threads, HookNoMemory(t)
      PROVE  WalkInv'
  <2>1. HookReturn(t) /\ pc[t] # "idle"
    BY <1>8 DEF HookNoMemory
  <2>2. QED
    BY <1>8, <2>1, HookReturns, WalkKept DEF HookNoMemory, Others
<1>9. ASSUME NEW t \in Threads, HookLockExisting(t)
      PROVE  WalkInv'
  BY <1>9, WalkKept DEF HookLockExisting
<1>10. ASSUME NEW t \in Threads, HookLockAddEntry(t)
      PROVE  WalkInv'
  <2>1. writer = NoThread /\ \A u \in Threads : pc[u] \notin WalkPc
    BY <1>10 DEF HookLockAddEntry, LockHeldWhileWalking
  <2>2. Vop(t) \in Vops /\ hash[Vop(t)] = NoEntry
    BY <1>10, WorksOn DEF HookLockAddEntry
  <2>3. \A o \in Ops : slots[Vop(t)][o] = "fsd"
    BY <2>1, <2>2 DEF VectorInv, Walked
  <2>4. \A u \in Threads : pc'[u] \in WalkPc => u = t
    BY <1>10, <2>1 DEF HookLockAddEntry
  <2>5. QED
    BY <1>10, <2>2, <2>3, <2>4 DEF HookLockAddEntry, WalkInv
<1>11. ASSUME NEW t \in Threads, HookLockAddFails(t)
      PROVE  WalkInv'
  BY <1>11, WalkKept DEF HookLockAddFails
<1>12. ASSUME NEW t \in Threads, HookSlot(t)
      PROVE  WalkInv'
  <2>1. writer = t /\ \A u \in Threads : pc'[u] \in WalkPc => u = t
    BY <1>12 DEF HookSlot, LockHeldWhileWalking
  <2>2. PICK o \in Ops \ done :
          /\ origVop' = [origVop EXCEPT ![newEntry[t]][o] = slots[Vop(t)][o]]
          /\ slots' = [slots EXCEPT ![Vop(t)][o] = "hook"]
          /\ done' = done \cup {o}
    BY <1>12 DEF HookSlot, LoopAt
  <2>3. Vop(t) \in Vops /\ newEntry[t] \in Entries
    BY <1>12, WorksOn DEF HookSlot
  <2>4. /\ pc'[t] = "hookSlots" /\ hash[Vop(t)] = newEntry[t]
        /\ UNCHANGED << hash, newEntry, target >>
    BY <1>12 DEF HookSlot, WalkInv
  <2>5. slots[Vop(t)][o] = "fsd"
    BY <1>12, <2>2 DEF HookSlot, WalkInv
  <2>6. ASSUME NEW p \in Ops
        PROVE  IF p \in done'
               THEN slots'[Vop(t)][p] = "hook" /\ origVop'[newEntry[t]][p] = "fsd"
               ELSE slots'[Vop(t)][p] = "fsd"
    <3>1. CASE p = o
      BY <2>2, <2>3, <2>5, <3>1
    <3>2. CASE p # o
      <4>1. /\ slots'[Vop(t)][p] = slots[Vop(t)][p]
            /\ origVop'[newEntry[t]][p] = origVop[newEntry[t]][p]
            /\ p \in done' <=> p \in done
        BY <2>2, <2>3, <3>2
      <4>2. QED
        BY <1>12, <2>6, <4>1 DEF HookSlot, WalkInv
    <3>3. QED
      BY <3>1, <3>2
  <2>7. QED
    BY <2>1, <2>4, <2>6 DEF WalkInv
<1>13. ASSUME NEW t \in Threads, HookUnlock(t)
      PROVE  WalkInv'
  <2>1. \A u \in Threads : pc'[u] \notin WalkPc
    BY <1>13 DEF HookUnlock, LockHeldWhileWalking
  <2>2. QED
    BY <2>1 DEF WalkInv
<1>14. ASSUME NEW t \in Threads, HookFinish(t)
      PROVE  WalkInv'
  <2>1. HookReturn(t) /\ pc[t] # "idle"
    BY <1>14 DEF HookFinish
  <2>2. QED
    BY <1>14, <2>1, HookReturns, WalkKept DEF HookFinish, Others
<1>15. ASSUME NEW t \in Threads, HookFailed(t)
      PROVE  WalkInv'
  <2>1. HookReturn(t) /\ pc[t] # "idle"
    BY <1>15 DEF HookFailed
  <2>2. QED
    BY <1>15, <2>1, HookReturns, WalkKept DEF HookFailed, Others
<1>16. ASSUME NEW t \in Threads, UnhookCheck(t)
      PROVE  WalkInv'
  <2>1. Others(t) /\ pc'[t] \notin WalkPc
    BY <1>16, UnhookReturns DEF UnhookCheck, Others
  <2>2. QED
    BY <1>16, <2>1, WalkKept DEF UnhookCheck, Others
<1>17. ASSUME NEW t \in Threads, UnhookLookup(t)
      PROVE  WalkInv'
  <2>1. Others(t) /\ pc'[t] \notin WalkPc
    BY <1>17, UnhookReturns DEF UnhookLookup, Others
  <2>2. QED
    BY <1>17, <2>1, WalkKept DEF UnhookLookup, Others
<1>18. ASSUME NEW t \in Threads, UnhookDecrement(t)
      PROVE  WalkInv'
  <2>1. Others(t) /\ pc'[t] \notin WalkPc
    <3>1. CASE UnhookReturn(t)
      <4>1. UNCHANGED vn /\ pc[t] # "idle"
        BY <1>18 DEF UnhookDecrement
      <4>2. QED
        BY <3>1, <4>1, UnhookReturns
    <3>2. CASE ~UnhookReturn(t)
      BY <1>18, <3>2 DEF UnhookDecrement, Others
    <3>3. QED
      BY <3>1, <3>2
  <2>2. QED
    BY <1>18, <2>1, WalkKept DEF UnhookDecrement, Others
<1>19. ASSUME NEW t \in Threads, UnhookLockBusy(t)
      PROVE  WalkInv'
  BY <1>19, WalkKept DEF UnhookLockBusy
<1>20. ASSUME NEW t \in Threads, UnhookLockGone(t)
      PROVE  WalkInv'
  <2>1. Others(t) /\ pc'[t] \notin WalkPc
    BY <1>20, UnhookReturns DEF UnhookLockGone, Others
  <2>2. QED
    BY <1>20, <2>1, WalkKept DEF UnhookLockGone, Others
<1>21. ASSUME NEW t \in Threads, UnhookLockRemove(t)
      PROVE  WalkInv'
  <2>1. writer = NoThread /\ \A u \in Threads : pc[u] \notin WalkPc
    BY <1>21 DEF UnhookLockRemove, LockHeldWhileWalking
  <2>2. Vop(t) \in Vops /\ hash[Vop(t)] # NoEntry
    BY <1>21, WorksOn DEF UnhookLockRemove
  <2>3. \A o \in Ops : slots[Vop(t)][o] = "hook"
    BY <2>1, <2>2 DEF VectorInv, Walked
  <2>4. \A u \in Threads : pc'[u] \in WalkPc => u = t
    BY <1>21, <2>1 DEF UnhookLockRemove
  <2>5. /\ hash'[Vop(t)] = NoEntry /\ pc'[t] = "unhookSlots" /\ done' = {}
        /\ UNCHANGED << slots, target >>
    BY <1>21, <2>2 DEF UnhookLockRemove
  <2>6. QED
    BY <2>3, <2>4, <2>5 DEF WalkInv
<1>22. ASSUME NEW t \in Threads, UnhookSlot(t)
      PROVE  WalkInv'
  <2>1. writer = t /\ \A u \in Threads : pc'[u] \in WalkPc => u = t
    BY <1>22 DEF UnhookSlot, LockHeldWhileWalking
  <2>2. PICK o \in Ops \ done :
          /\ slots' = [slots EXCEPT ![Vop(t)][o] = origVop[existing[t]][o]]
          /\ done' = done \cup {o}
    BY <1>22 DEF UnhookSlot, LoopAt
  <2>3. Vop(t) \in Vops /\ origVop[existing[t]][o] = "fsd"
    BY <1>22, WorksOn DEF UnhookSlot, FoundInv
  <2>4. /\ pc'[t] = "unhookSlots" /\ hash[Vop(t)] = NoEntry
        /\ UNCHANGED << hash, target >>
    BY <1>22 DEF UnhookSlot, WalkInv
  <2>5. ASSUME NEW p \in Ops
        PROVE  slots'[Vop(t)][p] = IF p \in done' THEN "fsd" ELSE "hook"
    <3>1. CASE p = o
      BY <2>2, <2>3, <3>1
    <3>2. CASE p # o
      <4>1. slots'[Vop(t)][p] = slots[Vop(t)][p] /\ (p \in done' <=> p \in done)
        BY <2>2, <2>3, <3>2
      <4>2. QED
        BY <1>22, <2>5, <4>1 DEF UnhookSlot, WalkInv
    <3>3. QED
      BY <3>1, <3>2
  <2>6. QED
    BY <2>1, <2>4, <2>5 DEF WalkInv
<1>23. ASSUME NEW t \in Threads, UnhookUnlock(t)
      PROVE  WalkInv'
  <2>1. \A u \in Threads : pc'[u] \notin WalkPc
    BY <1>23 DEF UnhookUnlock, LockHeldWhileWalking
  <2>2. QED
    BY <2>1 DEF WalkInv
<1>24. ASSUME NEW t \in Threads, UnhookFinish(t)
      PROVE  WalkInv'
  <2>1. Others(t) /\ pc'[t] \notin WalkPc
    BY <1>24, UnhookReturns DEF UnhookFinish, Others
  <2>2. QED
    BY <1>24, <2>1, WalkKept DEF UnhookFinish, Others
<1>25. ASSUME NEW t \in Threads, CallOriginal(t)
      PROVE  WalkInv'
  BY <1>25, WalkKept DEF CallOriginal, Idle
<1>26. ASSUME NEW v \in Vnodes, VnodeCreate(v) \/ VnodeTerminate(v) \/ ReclaimMissed(v)
      PROVE  WalkInv'
  BY <1>26, WalkKept DEF VnodeCreate, VnodeTerminate, ReclaimMissed
<1>27. ASSUME NEW t \in Threads, NEW v \in Vnodes, VnodeAuthorizeCallback(t, v)
      PROVE  WalkInv'
  BY <1>27, WalkKept DEF VnodeAuthorizeCallback
<1>28. ASSUME NEW t \in Threads, NEW v \in Vnodes, NEW o \in Ops, VnopCall(t, v, o)
      PROVE  WalkInv'
  BY <1>28, WalkKept DEF VnopCall
<1>29. CASE UNCHANGED vars
  BY <1>29, WalkKept
<1>30. QED
  BY <1>1, <1>2, <1>3, <1>4, <1>5, <1>6, <1>7, <1>8, <1>9, <1>10, <1>11, <1>12,
     <1>13, <1>14, <1>15, <1>16, <1>17, <1>18, <1>19, <1>20, <1>21, <1>22, <1>23,
     <1>24, <1>25, <1>26, <1>27, <1>28, <1>29
     DEF Next, Step, GetOriginal, HookVnodeVop, UnhookVnodeVop, Kernel, NewCall

\* VectorInv is kept.
LEMMA VectorStep ==
  ASSUME IInv, [Next]_vars
  PROVE  VectorInv'
<1> USE NoneAssumption DEF IInv, TypeInv, CallInv
<1>1. ASSUME NEW t \in Threads, GetOriginalLookup(t)
      PROVE  VectorInv'
  BY <1>1, VectorKept DEF GetOriginalLookup
<1>2. ASSUME NEW t \in Threads, GetOriginalRecheck(t)
      PROVE  VectorInv'
  BY <1>2, VectorKept DEF GetOriginalRecheck
<1>3. ASSUME NEW t \in Threads, GetOriginalFromEntry(t)
      PROVE  VectorInv'
  BY <1>3, VectorKept DEF GetOriginalFromEntry
<1>4. ASSUME NEW t \in Threads, HookSkip(t)
      PROVE  VectorInv'
  <2>1. HookReturn(t) /\ pc[t] # "idle"
    BY <1>4 DEF HookSkip
  <2>2. QED
    BY <1>4, <2>1, HookReturns, VectorKept DEF HookSkip, Others
<1>5. ASSUME NEW t \in Threads, HookLookup(t)
      PROVE  VectorInv'
  BY <1>5, VectorKept DEF HookLookup
<1>6. ASSUME NEW t \in Threads, HookFound(t)
      PROVE  VectorInv'
  <2>1. HookReturn(t) /\ pc[t] # "idle"
    BY <1>6 DEF HookFound
  <2>2. QED
    BY <1>6, <2>1, HookReturns, VectorKept DEF HookFound, Others
<1>7. ASSUME NEW t \in Threads, HookAllocate(t)
      PROVE  VectorInv'
  <2>1. PICK e \in Entries : /\ refs[e] = 0
                              /\ origVop' = [origVop EXCEPT ![e] = [o \in Ops |-> "NULL"]]
    BY <1>7 DEF HookAllocate
  <2>2. \A w \in Vops : hash[w] # e
    BY <2>1, FreeEntry
  <2>3. \A w \in Vops : hash[w] # NoEntry => origVop'[hash[w]] = origVop[hash[w]]
    BY <2>1, <2>2
  <2>4. UNCHANGED << hash, slots, target >>
    BY <1>7 DEF HookAllocate
  <2>5. \A u \in Threads : pc[u] \in WalkPc => pc'[u] \in WalkPc
    BY <1>7 DEF HookAllocate
  <2>6. \A w \in Vops : Walked(w) => Walked(w)'
    BY <2>4, <2>5 DEF Walked
  <2>7. QED
    BY <2>3, <2>4, <2>6 DEF VectorInv
<1>8. ASSUME NEW t \in Threads, HookNoMemory(t)
      PROVE  VectorInv'
  <2>1. HookReturn(t) /\ pc[t] # "idle"
    BY <1>8 DEF HookNoMemory
  <2>2. QED
    BY <1>8, <2>1, HookReturns, VectorKept DEF HookNoMemory, Others
<1>9. ASSUME NEW t \in Threads, HookLockExisting(t)
      PROVE  VectorInv'
  BY <1>9, VectorKept DEF HookLockExisting
<1>10. ASSUME NEW t \in Threads, HookLockAddEntry(t)
      PROVE  VectorInv'
  <2>1. \A u \in Threads : pc[u] \notin WalkPc
    BY <1>10 DEF HookLockAddEntry, LockHeldWhileWalking
  <2>2. Vop(t) \in Vops /\ pc'[t] \in WalkPc /\ UNCHANGED << slots, origVop, target >>
    BY <1>10, WorksOn DEF HookLockAddEntry
  <2>3. Walked(Vop(t))'
    BY <2>2 DEF Walked
  <2>4. \A w \in Vops \ {Vop(t)} : hash'[w] = hash[w]
    BY <1>10 DEF HookLockAddEntry
  <2>5. \A w \in Vops : ~Walked(w)
    BY <2>1 DEF Walked
  <2>6. QED
    BY <2>2, <2>3, <2>4, <2>5 DEF VectorInv
<1>11. ASSUME NEW t \in Threads, HookLockAddFails(t)
      PROVE  VectorInv'
  BY <1>11, VectorKept DEF HookLockAddFails
<1>12. ASSUME NEW t \in Threads, HookSlot(t)
      PROVE  VectorInv'
  <2>1. writer = t
    BY <1>12 DEF HookSlot, LockHeldWhileWalking
  <2>2. \A u \in Threads : pc[u] \in WalkPc => u = t
    BY <2>1 DEF LockHeldWhileWalking
  <2>3. PICK o \in Ops \ done :
          /\ origVop' = [origVop EXCEPT ![newEntry[t]][o] = slots[Vop(t)][o]]
          /\ slots' = [slots EXCEPT ![Vop(t)][o] = "hook"]
    BY <1>12 DEF HookSlot, LoopAt
  <2>4. Vop(t) \in Vops /\ newEntry[t] \in Entries
    BY <1>12, WorksOn DEF HookSlot
  <2>5. pc[t] = "hookSlots" /\ UNCHANGED << hash, pc, target >>
    BY <1>12 DEF HookSlot
  <2>6. slots[Vop(t)][o] = "fsd"
    BY <2>3, <2>5 DEF WalkInv
  <2>7. \A w \in Vops : Walked(w)' <=> w = Vop(t)
    BY <2>2, <2>5 DEF Walked
  <2>8. ASSUME NEW w \in Vops, w # Vop(t)
        PROVE  /\ slots'[w] = slots[w] /\ ~Walked(w)
               /\ hash[w] # NoEntry => \A p \in Ops :
                    origVop[hash[w]][p] = "fsd" => origVop'[hash[w]][p] = "fsd"
    <3>1. slots'[w] = slots[w]
      BY <2>3, <2>8
    <3>2. ~Walked(w)
      BY <2>5, <2>7, <2>8 DEF Walked
    <3>3. ASSUME NEW e \in Entries, NEW p \in Ops, origVop[e][p] = "fsd"
          PROVE  origVop'[e][p] = "fsd"
      BY <2>3, <2>4, <2>6, <3>3
    <3>4. QED
      BY <3>1, <3>2, <3>3
  <2>9. QED
    BY <2>5, <2>7, <2>8 DEF VectorInv
<1>13. ASSUME NEW t \in Threads, HookUnlock(t)
      PROVE  VectorInv'
  <2>1. writer = t
    BY <1>13 DEF HookUnlock, LockHeldWhileWalking
  <2>2. \A u \in Threads : pc[u] \in WalkPc => u = t
    BY <2>1 DEF LockHeldWhileWalking
  <2>3. /\ Vop(t) \in Vops /\ pc[t] = "hookSlots" /\ done = Ops
        /\ UNCHANGED << slots, hash, origVop >>
    BY <1>13, WorksOn DEF HookUnlock
  <2>4. /\ hash[Vop(t)] = newEntry[t] /\ newEntry[t] # NoEntry
        /\ \A o \in Ops : slots[Vop(t)][o] = "hook" /\ origVop[newEntry[t]][o] = "fsd"
    BY <2>3 DEF WalkInv
  <2>5. \A w \in Vops : Walked(w) => w = Vop(t)
    BY <2>2 DEF Walked
  <2>6. ASSUME NEW w \in Vops, w # Vop(t)
        PROVE  \/ /\ hash[w] # NoEntry
                  /\ \A o \in Ops : slots[w][o] = "hook" /\ origVop[hash[w]][o] = "fsd"
               \/ hash[w] = NoEntry /\ \A o \in Ops : slots[w][o] = "fsd"
    BY <2>5, <2>6 DEF VectorInv
  <2>7. ASSUME NEW w \in Vops
        PROVE  \/ /\ hash[w] # NoEntry
                  /\ \A o \in Ops : slots[w][o] = "hook" /\ origVop[hash[w]][o] = "fsd"
               \/ hash[w] = NoEntry /\ \A o \in Ops : slots[w][o] = "fsd"
    <3>1. CASE w = Vop(t)
      BY <2>4, <3>1
    <3>2. CASE w # Vop(t)
      BY <2>6, <3>2
    <3>3. QED
      BY <3>1, <3>2
  <2>8. QED
    BY <2>3, <2>7 DEF VectorInv
<1>14. ASSUME NEW t \in Threads, HookFinish(t)
      PROVE  VectorInv'
  <2>1. HookReturn(t) /\ pc[t] # "idle"
    BY <1>14 DEF HookFinish
  <2>2. QED
    BY <1>14, <2>1, HookReturns, VectorKept DEF HookFinish, Others
<1>15. ASSUME NEW t \in Threads, HookFailed(t)
      PROVE  VectorInv'
  <2>1. HookReturn(t) /\ pc[t] # "idle"
    BY <1>15 DEF HookFailed
  <2>2. QED
    BY <1>15, <2>1, HookReturns, VectorKept DEF HookFailed, Others
<1>16. ASSUME NEW t \in Threads, UnhookCheck(t)
      PROVE  VectorInv'
  <2>1. Others(t)
    BY <1>16, UnhookReturns DEF UnhookCheck, Others
  <2>2. QED
    BY <1>16, <2>1, VectorKept DEF UnhookCheck, Others
<1>17. ASSUME NEW t \in Threads, UnhookLookup(t)
      PROVE  VectorInv'
  <2>1. Others(t)
    BY <1>17, UnhookReturns DEF UnhookLookup, Others
  <2>2. QED
    BY <1>17, <2>1, VectorKept DEF UnhookLookup, Others
<1>18. ASSUME NEW t \in Threads, UnhookDecrement(t)
      PROVE  VectorInv'
  <2>1. Others(t)
    BY <1>18, UnhookReturns DEF UnhookDecrement, Others
  <2>2. QED
    BY <1>18, <2>1, VectorKept DEF UnhookDecrement, Others
<1>19. ASSUME NEW t \in Threads, UnhookLockBusy(t)
      PROVE  VectorInv'
  BY <1>19, VectorKept DEF UnhookLockBusy
<1>20. ASSUME NEW t \in Threads, UnhookLockGone(t)
      PROVE  VectorInv'
  <2>1. Others(t)
    BY <1>20, UnhookReturns DEF UnhookLockGone, Others
  <2>2. QED
    BY <1>20, <2>1, VectorKept DEF UnhookLockGone, Others
<1>21. ASSUME NEW t \in Threads, UnhookLockRemove(t)
      PROVE  VectorInv'
  <2>1. \A u \in Threads : pc[u] \notin WalkPc
    BY <1>21 DEF UnhookLockRemove, LockHeldWhileWalking
  <2>2. Vop(t) \in Vops /\ pc'[t] \in WalkPc /\ UNCHANGED << slots, origVop, target >>
    BY <1>21, WorksOn DEF UnhookLockRemove
  <2>3. Walked(Vop(t))'
    BY <2>2 DEF Walked
  <2>4. \A w \in Vops \ {Vop(t)} : hash'[w] = hash[w]
    BY <1>21 DEF UnhookLockRemove
  <2>5. \A w \in Vops : ~Walked(w)
    BY <2>1 DEF Walked
  <2>6. QED
    BY <2>2, <2>3, <2>4, <2>5 DEF VectorInv
<1>22. ASSUME NEW t \in Threads, UnhookSlot(t)
      PROVE  VectorInv'
  <2>1. writer = t
    BY <1>22 DEF UnhookSlot, LockHeldWhileWalking
  <2>2. \A u \in Threads : pc[u] \in WalkPc => u = t
    BY <2>1 DEF LockHeldWhileWalking
  <2>3. pc[t] = "unhookSlots" /\ UNCHANGED << hash, pc, target, origVop >>
    BY <1>22 DEF UnhookSlot
  <2>4. \A w \in Vops : w # Vop(t) => slots'[w] = slots[w]
    BY <1>22 DEF UnhookSlot
  <2>5. \A w \in Vops : Walked(w)' <=> w = Vop(t)
    BY <2>2, <2>3 DEF Walked
  <2>6. \A w \in Vops : Walked(w) => w = Vop(t)
    BY <2>2 DEF Walked
  <2>7. ASSUME NEW w \in Vops, w # Vop(t)
        PROVE  \/ /\ hash[w] # NoEntry
                  /\ \A o \in Ops : slots[w][o] = "hook" /\ origVop[hash[w]][o] = "fsd"
               \/ hash[w] = NoEntry /\ \A o \in Ops : slots[w][o] = "fsd"
    BY <2>6, <2>7 DEF VectorInv
  <2>8. QED
    BY <2>3, <2>4, <2>5, <2>7, SMTT(40) DEF VectorInv
<1>23. ASSUME NEW t \in Threads, UnhookUnlock(t)
      PROVE  VectorInv'
  <2>1. writer = t
    BY <1>23 DEF UnhookUnlock, LockHeldWhileWalking
  <2>2. \A u \in Threads : pc[u] \in WalkPc => u = t
    BY <2>1 DEF LockHeldWhileWalking
  <2>3. /\ Vop(t) \in Vops /\ pc[t] = "unhookSlots" /\ done = Ops
        /\ UNCHANGED << slots, hash, origVop >>
    BY <1>23, WorksOn DEF UnhookUnlock
  <2>4. hash[Vop(t)] = NoEntry /\ \A o \in Ops : slots[Vop(t)][o] = "fsd"
    BY <2>3 DEF WalkInv
  <2>5. \A w \in Vops : Walked(w) => w = Vop(t)
    BY <2>2 DEF Walked
  <2>6. QED
    BY <2>3, <2>4, <2>5, SMTT(40) DEF VectorInv
<1>24. ASSUME NEW t \in Threads, UnhookFinish(t)
      PROVE  VectorInv'
  <2>1. Others(t)
    BY <1>24, UnhookReturns DEF UnhookFinish, Others
  <2>2. QED
    BY <1>24, <2>1, VectorKept DEF UnhookFinish, Others
<1>25. ASSUME NEW t \in Threads, CallOriginal(t)
      PROVE  VectorInv'
  BY <1>25, VectorKept DEF CallOriginal, Idle
<1>26. ASSUME NEW v \in Vnodes, VnodeCreate(v) \/ VnodeTerminate(v) \/ ReclaimMissed(v)
      PROVE  VectorInv'
  BY <1>26, VectorKept DEF VnodeCreate, VnodeTerminate, ReclaimMissed
<1>27. ASSUME NEW t \in Threads, NEW v \in Vnodes, VnodeAuthorizeCallback(t, v)
      PROVE  VectorInv'
  BY <1>27, VectorKept DEF VnodeAuthorizeCallback
<1>28. ASSUME NEW t \in Threads, NEW v \in Vnodes, NEW o \in Ops, VnopCall(t, v, o)
      PROVE  VectorInv'
  BY <1>28, VectorKept DEF VnopCall
<1>29. CASE UNCHANGED vars
  BY <1>29, VectorKept
<1>30. QED
  BY <1>1, <1>2, <1>3, <1>4, <1>5, <1>6, <1>7, <1>8, <1>9, <1>10, <1>11, <1>12,
     <1>13, <1>14, <1>15, <1>16, <1>17, <1>18, <1>19, <1>20, <1>21, <1>22, <1>23,
     <1>24, <1>25, <1>26, <1>27, <1>28, <1>29
     DEF Next, Step, GetOriginal, HookVnodeVop, UnhookVnodeVop, Kernel, NewCall

\* OriginalIsFsdFunction is kept.
LEMMA OriginalStep ==
  ASSUME IInv, [Next]_vars
  PROVE  OriginalIsFsdFunction'
<1> USE NoneAssumption DEF IInv, TypeInv, CallInv, FoundInv, OriginalIsFsdFunction
<1>1. ASSUME NEW t \in Threads, GetOriginalLookup(t)
      PROVE  OriginalIsFsdFunction'
  BY <1>1 DEF GetOriginalLookup
<1>2. ASSUME NEW t \in Threads, GetOriginalRecheck(t)
      PROVE  OriginalIsFsdFunction'
  <2>1. Vop(t) \in Vops /\ \A u \in Threads : pc[u] \notin WalkPc
    BY <1>2, WorksOn DEF GetOriginalRecheck, LockHeldWhileWalking
  <2>2. hash[Vop(t)] = NoEntry => \A o \in Ops : slots[Vop(t)][o] = "fsd"
    BY <2>1, SMTT(40) DEF VectorInv, Walked
  <2>3. QED
    BY <1>2, <2>2 DEF GetOriginalRecheck
<1>3. ASSUME NEW t \in Threads, GetOriginalFromEntry(t)
      PROVE  OriginalIsFsdFunction'
  BY <1>3 DEF GetOriginalFromEntry
<1>4. ASSUME NEW t \in Threads, HookSkip(t)
      PROVE  OriginalIsFsdFunction'
  BY <1>4 DEF HookSkip, HookReturn, ParentIsNext, Idle
<1>5. ASSUME NEW t \in Threads, HookLookup(t)
      PROVE  OriginalIsFsdFunction'
  BY <1>5 DEF HookLookup
<1>6. ASSUME NEW t \in Threads, HookFound(t)
      PROVE  OriginalIsFsdFunction'
  BY <1>6 DEF HookFound, HookReturn, ParentIsNext, Idle
<1>7. ASSUME NEW t \in Threads, HookAllocate(t)
      PROVE  OriginalIsFsdFunction'
  BY <1>7 DEF HookAllocate
<1>8. ASSUME NEW t \in Threads, HookNoMemory(t)
      PROVE  OriginalIsFsdFunction'
  BY <1>8 DEF HookNoMemory, HookReturn, ParentIsNext, Idle
<1>9. ASSUME NEW t \in Threads, HookLockExisting(t)
      PROVE  OriginalIsFsdFunction'
  BY <1>9 DEF HookLockExisting
<1>10. ASSUME NEW t \in Threads, HookLockAddEntry(t)
      PROVE  OriginalIsFsdFunction'
  BY <1>10 DEF HookLockAddEntry
<1>11. ASSUME NEW t \in Threads, HookLockAddFails(t)
      PROVE  OriginalIsFsdFunction'
  BY <1>11 DEF HookLockAddFails
<1>12. ASSUME NEW t \in Threads, HookSlot(t)
      PROVE  OriginalIsFsdFunction'
  BY <1>12 DEF HookSlot
<1>13. ASSUME NEW t \in Threads, HookUnlock(t)
      PROVE  OriginalIsFsdFunction'
  BY <1>13 DEF HookUnlock
<1>14. ASSUME NEW t \in Threads, HookFinish(t)
      PROVE  OriginalIsFsdFunction'
  BY <1>14 DEF HookFinish, HookReturn, ParentIsNext, Idle
<1>15. ASSUME NEW t \in Threads, HookFailed(t)
      PROVE  OriginalIsFsdFunction'
  BY <1>15 DEF HookFailed, HookReturn, ParentIsNext, Idle
<1>16. ASSUME NEW t \in Threads, UnhookCheck(t)
      PROVE  OriginalIsFsdFunction'
  BY <1>16 DEF UnhookCheck, UnhookReturn, ParentIsNext
<1>17. ASSUME NEW t \in Threads, UnhookLookup(t)
      PROVE  OriginalIsFsdFunction'
  BY <1>17 DEF UnhookLookup, UnhookReturn, ParentIsNext
<1>18. ASSUME NEW t \in Threads, UnhookDecrement(t)
      PROVE  OriginalIsFsdFunction'
  BY <1>18 DEF UnhookDecrement, UnhookReturn, ParentIsNext
<1>19. ASSUME NEW t \in Threads, UnhookLockBusy(t)
      PROVE  OriginalIsFsdFunction'
  BY <1>19 DEF UnhookLockBusy
<1>20. ASSUME NEW t \in Threads, UnhookLockGone(t)
      PROVE  OriginalIsFsdFunction'
  BY <1>20 DEF UnhookLockGone, UnhookReturn, ParentIsNext
<1>21. ASSUME NEW t \in Threads, UnhookLockRemove(t)
      PROVE  OriginalIsFsdFunction'
  BY <1>21 DEF UnhookLockRemove
<1>22. ASSUME NEW t \in Threads, UnhookSlot(t)
      PROVE  OriginalIsFsdFunction'
  BY <1>22 DEF UnhookSlot
<1>23. ASSUME NEW t \in Threads, UnhookUnlock(t)
      PROVE  OriginalIsFsdFunction'
  BY <1>23 DEF UnhookUnlock
<1>24. ASSUME NEW t \in Threads, UnhookFinish(t)
      PROVE  OriginalIsFsdFunction'
  BY <1>24 DEF UnhookFinish, UnhookReturn, ParentIsNext
<1>25. ASSUME NEW t \in Threads, CallOriginal(t)
      PROVE  OriginalIsFsdFunction'
  BY <1>25 DEF CallOriginal, Idle
<1>26. ASSUME NEW v \in Vnodes, VnodeCreate(v) \/ VnodeTerminate(v) \/ ReclaimMissed(v)
      PROVE  OriginalIsFsdFunction'
  BY <1>26 DEF VnodeCreate, VnodeTerminate, ReclaimMissed
<1>27. ASSUME NEW t \in Threads, NEW v \in Vnodes, VnodeAuthorizeCallback(t, v)
      PROVE  OriginalIsFsdFunction'
  BY <1>27 DEF VnodeAuthorizeCallback
<1>28. ASSUME NEW t \in Threads, NEW v \in Vnodes, NEW o \in Ops, VnopCall(t, v, o)
      PROVE  OriginalIsFsdFunction'
  BY <1>28 DEF VnopCall
<1>29. CASE UNCHANGED vars
  BY <1>29
<1>30. QED
  BY <1>1, <1>2, <1>3, <1>4, <1>5, <1>6, <1>7, <1>8, <1>9, <1>10, <1>11, <1>12,
     <1>13, <1>14, <1>15, <1>16, <1>17, <1>18, <1>19, <1>20, <1>21, <1>22, <1>23,
     <1>24, <1>25, <1>26, <1>27, <1>28, <1>29
     DEF Next, Step, GetOriginal, HookVnodeVop, UnhookVnodeVop, Kernel, NewCall

\* RefsCountHolders is kept.
LEMMA CountStep ==
  ASSUME IInv, TypeInv', [Next]_vars
  PROVE  RefsCountHolders'
<1> USE NoneAssumption DEF IInv, CallInv
<1>1. ASSUME NEW t \in Threads, GetOriginalLookup(t)
      PROVE  RefsCountHolders'
  <2>1. PICK w \in Vops : w = Vop(t)
    BY <1>1, WorksOn DEF GetOriginalLookup
  <2>2. /\ \A u \in Threads \ {t} :
             existing'[u] = existing[u] /\ newEntry'[u] = newEntry[u]
        /\ \A x \in Vops \ {w} : hash'[x] = hash[x]
    BY <1>1, <2>1 DEF GetOriginalLookup, TypeInv
  <2>3. existing[t] = NoEntry /\ UNCHANGED << hash, newEntry >>
    BY <1>1 DEF GetOriginalLookup, CallInv
  <2>4. CASE hash[w] = NoEntry
    BY <1>1, <2>1, <2>4, CountKept DEF GetOriginalLookup
  <2>5. CASE hash[w] # NoEntry
    <3>1. hash[w] \in Entries /\ existing'[t] = hash[w]
      BY <1>1, <2>1, <2>5 DEF GetOriginalLookup, TypeInv
    <3>2. refs' = [refs EXCEPT ![hash[Vop(t)]] = refs[hash[Vop(t)]] + 1]
      BY <1>1, <2>1, <2>5 DEF GetOriginalLookup
    <3>3. ASSUME NEW e \in Entries
          PROVE  refs'[e] = refs[e] + Is(hash'[w], e) - Is(hash[w], e)
                            + Is(existing'[t], e) - Is(existing[t], e)
                            + Is(newEntry'[t], e) - Is(newEntry[t], e)
      BY <2>1, <2>3, <3>1, <3>2, <3>3 DEF TypeInv, Is
    <3>4. QED
      BY <2>2, <3>3, Balance
  <2>6. QED
    BY <2>4, <2>5
<1>2. ASSUME NEW t \in Threads, GetOriginalRecheck(t)
      PROVE  RefsCountHolders'
  <2>1. PICK w \in Vops : w = Vop(t)
    BY <1>2, WorksOn DEF GetOriginalRecheck
  <2>2. /\ \A u \in Threads \ {t} :
             existing'[u] = existing[u] /\ newEntry'[u] = newEntry[u]
        /\ \A x \in Vops \ {w} : hash'[x] = hash[x]
    BY <1>2, <2>1 DEF GetOriginalRecheck, TypeInv
  <2>3. existing[t] = NoEntry /\ UNCHANGED << hash, newEntry >>
    BY <1>2 DEF GetOriginalRecheck, CallInv
  <2>4. CASE hash[w] = NoEntry
    BY <1>2, <2>1, <2>4, CountKept DEF GetOriginalRecheck
  <2>5. CASE hash[w] # NoEntry
    <3>1. hash[w] \in Entries /\ existing'[t] = hash[w]
      BY <1>2, <2>1, <2>5 DEF GetOriginalRecheck, TypeInv
    <3>2. refs' = [refs EXCEPT ![hash[Vop(t)]] = refs[hash[Vop(t)]] + 1]
      BY <1>2, <2>1, <2>5 DEF GetOriginalRecheck
    <3>3. ASSUME NEW e \in Entries
          PROVE  refs'[e] = refs[e] + Is(hash'[w], e) - Is(hash[w], e)
                            + Is(existing'[t], e) - Is(existing[t], e)
                            + Is(newEntry'[t], e) - Is(newEntry[t], e)
      BY <2>1, <2>3, <3>1, <3>2, <3>3 DEF TypeInv, Is
    <3>4. QED
      BY <2>2, <3>3, Balance
  <2>6. QED
    BY <2>4, <2>5
<1>3. ASSUME NEW t \in Threads, GetOriginalFromEntry(t)
      PROVE  RefsCountHolders'
  <2>1. PICK w \in Vops : w = Vop(t)
    BY <1>3, WorksOn DEF GetOriginalFromEntry
  <2>2. /\ \A u \in Threads \ {t} :
             existing'[u] = existing[u] /\ newEntry'[u] = newEntry[u]
        /\ \A x \in Vops \ {w} : hash'[x] = hash[x]
    BY <1>3, <2>1 DEF GetOriginalFromEntry, TypeInv
  <2>3. ASSUME NEW e \in Entries
        PROVE  refs'[e] = refs[e] + Is(hash'[w], e) - Is(hash[w], e)
                          + Is(existing'[t], e) - Is(existing[t], e)
                          + Is(newEntry'[t], e) - Is(newEntry[t], e)
    BY <1>3, <2>1, <2>3 DEF GetOriginalFromEntry, TypeInv, CallInv, Is
  <2>4. QED
    BY <2>2, <2>3, Balance
<1>4. ASSUME NEW t \in Threads, HookSkip(t)
      PROVE  RefsCountHolders'
  BY <1>4, CountKept DEF HookSkip
<1>5. ASSUME NEW t \in Threads, HookLookup(t)
      PROVE  RefsCountHolders'
  <2>1. PICK w \in Vops : w = Vop(t)
    BY <1>5, WorksOn DEF HookLookup
  <2>2. /\ \A u \in Threads \ {t} :
             existing'[u] = existing[u] /\ newEntry'[u] = newEntry[u]
        /\ \A x \in Vops \ {w} : hash'[x] = hash[x]
    BY <1>5, <2>1 DEF HookLookup, TypeInv
  <2>3. existing[t] = NoEntry /\ UNCHANGED << hash, newEntry >>
    BY <1>5 DEF HookLookup, CallInv
  <2>4. CASE hash[w] = NoEntry
    BY <1>5, <2>1, <2>4, CountKept DEF HookLookup
  <2>5. CASE hash[w] # NoEntry
    <3>1. hash[w] \in Entries /\ existing'[t] = hash[w]
      BY <1>5, <2>1, <2>5 DEF HookLookup, TypeInv
    <3>2. refs' = [refs EXCEPT ![hash[Vop(t)]] = refs[hash[Vop(t)]] + 1]
      BY <1>5, <2>1, <2>5 DEF HookLookup
    <3>3. ASSUME NEW e \in Entries
          PROVE  refs'[e] = refs[e] + Is(hash'[w], e) - Is(hash[w], e)
                            + Is(existing'[t], e) - Is(existing[t], e)
                            + Is(newEntry'[t], e) - Is(newEntry[t], e)
      BY <2>1, <2>3, <3>1, <3>2, <3>3 DEF TypeInv, Is
    <3>4. QED
      BY <2>2, <3>3, Balance
  <2>6. QED
    BY <2>4, <2>5
<1>6. ASSUME NEW t \in Threads, HookFound(t)
      PROVE  RefsCountHolders'
  <2>1. PICK w \in Vops : w = Vop(t)
    BY <1>6, WorksOn DEF HookFound
  <2>2. /\ \A u \in Threads \ {t} :
             existing'[u] = existing[u] /\ newEntry'[u] = newEntry[u]
        /\ \A x \in Vops \ {w} : hash'[x] = hash[x]
    BY <1>6, <2>1 DEF HookFound, TypeInv
  <2>3. ASSUME NEW e \in Entries
        PROVE  refs'[e] = refs[e] + Is(hash'[w], e) - Is(hash[w], e)
                          + Is(existing'[t], e) - Is(existing[t], e)
                          + Is(newEntry'[t], e) - Is(newEntry[t], e)
    BY <1>6, <2>1, <2>3 DEF HookFound, TypeInv, CallInv, Is
  <2>4. QED
    BY <2>2, <2>3, Balance
<1>7. ASSUME NEW t \in Threads, HookAllocate(t)
      PROVE  RefsCountHolders'
  <2>1. PICK w \in Vops : w = Vop(t)
    BY <1>7, WorksOn DEF HookAllocate
  <2>2. /\ \A u \in Threads \ {t} :
             existing'[u] = existing[u] /\ newEntry'[u] = newEntry[u]
        /\ \A x \in Vops \ {w} : hash'[x] = hash[x]
    BY <1>7, <2>1 DEF HookAllocate, TypeInv
  <2>3. PICK e \in Entries : /\ refs[e] = 0 /\ refs' = [refs EXCEPT ![e] = 1]
                              /\ newEntry' = [newEntry EXCEPT ![t] = e]
    BY <1>7 DEF HookAllocate
  <2>4. newEntry[t] = NoEntry /\ newEntry'[t] = e /\ UNCHANGED << hash, existing >>
    <3>1. newEntry[t] = NoEntry
      BY <1>7 DEF HookAllocate, CallInv
    <3>2. newEntry'[t] = e
      BY <2>3 DEF TypeInv
    <3>3. QED
      BY <1>7, <3>1, <3>2 DEF HookAllocate
  <2>5. ASSUME NEW x \in Entries
        PROVE  refs'[x] = refs[x] + Is(hash'[w], x) - Is(hash[w], x)
                          + Is(existing'[t], x) - Is(existing[t], x)
                          + Is(newEntry'[t], x) - Is(newEntry[t], x)
    BY <2>3, <2>4, <2>5 DEF TypeInv, Is
  <2>6. QED
    BY <2>2, <2>5, Balance
<1>8. ASSUME NEW t \in Threads, HookNoMemory(t)
      PROVE  RefsCountHolders'
  BY <1>8, CountKept DEF HookNoMemory
<1>9. ASSUME NEW t \in Threads, HookLockExisting(t)
      PROVE  RefsCountHolders'
  BY <1>9, CountKept DEF HookLockExisting
<1>10. ASSUME NEW t \in Threads, HookLockAddEntry(t)
      PROVE  RefsCountHolders'
  <2>1. PICK w \in Vops : w = Vop(t)
    BY <1>10, WorksOn DEF HookLockAddEntry
  <2>2. /\ \A u \in Threads \ {t} :
             existing'[u] = existing[u] /\ newEntry'[u] = newEntry[u]
        /\ \A x \in Vops \ {w} : hash'[x] = hash[x]
    BY <1>10, <2>1 DEF HookLockAddEntry, TypeInv
  <2>3. ASSUME NEW e \in Entries
        PROVE  refs'[e] = refs[e] + Is(hash'[w], e) - Is(hash[w], e)
                          + Is(existing'[t], e) - Is(existing[t], e)
                          + Is(newEntry'[t], e) - Is(newEntry[t], e)
    BY <1>10, <2>1, <2>3 DEF HookLockAddEntry, TypeInv, CallInv, Is
  <2>4. QED
    BY <2>2, <2>3, Balance
<1>11. ASSUME NEW t \in Threads, HookLockAddFails(t)
      PROVE  RefsCountHolders'
  BY <1>11, CountKept DEF HookLockAddFails
<1>12. ASSUME NEW t \in Threads, HookSlot(t)
      PROVE  RefsCountHolders'
  BY <1>12, CountKept DEF HookSlot
<1>13. ASSUME NEW t \in Threads, HookUnlock(t)
      PROVE  RefsCountHolders'
  BY <1>13, CountKept DEF HookUnlock
<1>14. ASSUME NEW t \in Threads, HookFinish(t)
      PROVE  RefsCountHolders'
  <2>1. PICK w \in Vops : w = Vop(t)
    BY <1>14, WorksOn DEF HookFinish
  <2>2. /\ \A u \in Threads \ {t} :
             existing'[u] = existing[u] /\ newEntry'[u] = newEntry[u]
        /\ \A x \in Vops \ {w} : hash'[x] = hash[x]
    BY <1>14, <2>1 DEF HookFinish, TypeInv
  <2>3. ASSUME NEW e \in Entries
        PROVE  refs'[e] = refs[e] + Is(hash'[w], e) - Is(hash[w], e)
                          + Is(existing'[t], e) - Is(existing[t], e)
                          + Is(newEntry'[t], e) - Is(newEntry[t], e)
    BY <1>14, <2>1, <2>3 DEF HookFinish, TypeInv, CallInv, Is
  <2>4. QED
    BY <2>2, <2>3, Balance
<1>15. ASSUME NEW t \in Threads, HookFailed(t)
      PROVE  RefsCountHolders'
  <2>1. PICK w \in Vops : w = Vop(t)
    BY <1>15, WorksOn DEF HookFailed
  <2>2. /\ \A u \in Threads \ {t} :
             existing'[u] = existing[u] /\ newEntry'[u] = newEntry[u]
        /\ \A x \in Vops \ {w} : hash'[x] = hash[x]
    BY <1>15, <2>1 DEF HookFailed, TypeInv
  <2>3. ASSUME NEW e \in Entries
        PROVE  refs'[e] = refs[e] + Is(hash'[w], e) - Is(hash[w], e)
                          + Is(existing'[t], e) - Is(existing[t], e)
                          + Is(newEntry'[t], e) - Is(newEntry[t], e)
    BY <1>15, <2>1, <2>3 DEF HookFailed, TypeInv, CallInv, Is
  <2>4. QED
    BY <2>2, <2>3, Balance
<1>16. ASSUME NEW t \in Threads, UnhookCheck(t)
      PROVE  RefsCountHolders'
  BY <1>16, CountKept DEF UnhookCheck
<1>17. ASSUME NEW t \in Threads, UnhookLookup(t)
      PROVE  RefsCountHolders'
  <2>1. PICK w \in Vops : w = Vop(t)
    BY <1>17, WorksOn DEF UnhookLookup
  <2>2. /\ \A u \in Threads \ {t} :
             existing'[u] = existing[u] /\ newEntry'[u] = newEntry[u]
        /\ \A x \in Vops \ {w} : hash'[x] = hash[x]
    BY <1>17, <2>1 DEF UnhookLookup, TypeInv
  <2>3. existing[t] = NoEntry /\ UNCHANGED << hash, newEntry >>
    BY <1>17 DEF UnhookLookup, CallInv
  <2>4. CASE hash[w] = NoEntry
    BY <1>17, <2>1, <2>4, CountKept DEF UnhookLookup
  <2>5. CASE hash[w] # NoEntry
    <3>1. hash[w] \in Entries /\ existing'[t] = hash[w]
      BY <1>17, <2>1, <2>5 DEF UnhookLookup, TypeInv
    <3>2. refs' = [refs EXCEPT ![hash[Vop(t)]] = refs[hash[Vop(t)]] + 1]
      BY <1>17, <2>1, <2>5 DEF UnhookLookup
    <3>3. ASSUME NEW e \in Entries
          PROVE  refs'[e] = refs[e] + Is(hash'[w], e) - Is(hash[w], e)
                            + Is(existing'[t], e) - Is(existing[t], e)
                            + Is(newEntry'[t], e) - Is(newEntry[t], e)
      BY <2>1, <2>3, <3>1, <3>2, <3>3 DEF TypeInv, Is
    <3>4. QED
      BY <2>2, <3>3, Balance
  <2>6. QED
    BY <2>4, <2>5
<1>18. ASSUME NEW t \in Threads, UnhookDecrement(t)
      PROVE  RefsCountHolders'
  <2>1. PICK w \in Vops : w = Vop(t)
    BY <1>18, WorksOn DEF UnhookDecrement
  <2>2. /\ \A u \in Threads \ {t} :
             existing'[u] = existing[u] /\ newEntry'[u] = newEntry[u]
        /\ \A x \in Vops \ {w} : hash'[x] = hash[x]
    BY <1>18, <2>1 DEF UnhookDecrement, TypeInv
  <2>3. ASSUME NEW e \in Entries
        PROVE  refs'[e] = refs[e] + Is(hash'[w], e) - Is(hash[w], e)
                          + Is(existing'[t], e) - Is(existing[t], e)
                          + Is(newEntry'[t], e) - Is(newEntry[t], e)
    BY <1>18, <2>1, <2>3 DEF UnhookDecrement, TypeInv, CallInv, Is
  <2>4. QED
    BY <2>2, <2>3, Balance
<1>19. ASSUME NEW t \in Threads, UnhookLockBusy(t)
      PROVE  RefsCountHolders'
  BY <1>19, CountKept DEF UnhookLockBusy
<1>20. ASSUME NEW t \in Threads, UnhookLockGone(t)
      PROVE  RefsCountHolders'
  <2>1. PICK w \in Vops : w = Vop(t)
    BY <1>20, WorksOn DEF UnhookLockGone
  <2>2. /\ \A u \in Threads \ {t} :
             existing'[u] = existing[u] /\ newEntry'[u] = newEntry[u]
        /\ \A x \in Vops \ {w} : hash'[x] = hash[x]
    BY <1>20, <2>1 DEF UnhookLockGone, TypeInv
  <2>3. ASSUME NEW e \in Entries
        PROVE  refs'[e] = refs[e] + Is(hash'[w], e) - Is(hash[w], e)
                          + Is(existing'[t], e) - Is(existing[t], e)
                          + Is(newEntry'[t], e) - Is(newEntry[t], e)
    BY <1>20, <2>1, <2>3 DEF UnhookLockGone, TypeInv, CallInv, Is
  <2>4. QED
    BY <2>2, <2>3, Balance
<1>21. ASSUME NEW t \in Threads, UnhookLockRemove(t)
      PROVE  RefsCountHolders'
  <2>1. PICK w \in Vops : w = Vop(t)
    BY <1>21, WorksOn DEF UnhookLockRemove
  <2>2. /\ \A u \in Threads \ {t} :
             existing'[u] = existing[u] /\ newEntry'[u] = newEntry[u]
        /\ \A x \in Vops \ {w} : hash'[x] = hash[x]
    BY <1>21, <2>1 DEF UnhookLockRemove, TypeInv
  <2>3. ASSUME NEW e \in Entries
        PROVE  refs'[e] = refs[e] + Is(hash'[w], e) - Is(hash[w], e)
                          + Is(existing'[t], e) - Is(existing[t], e)
                          + Is(newEntry'[t], e) - Is(newEntry[t], e)
    BY <1>21, <2>1, <2>3 DEF UnhookLockRemove, TypeInv, CallInv, Is
  <2>4. QED
    BY <2>2, <2>3, Balance
<1>22. ASSUME NEW t \in Threads, UnhookSlot(t)
      PROVE  RefsCountHolders'
  BY <1>22, CountKept DEF UnhookSlot
<1>23. ASSUME NEW t \in Threads, UnhookUnlock(t)
      PROVE  RefsCountHolders'
  BY <1>23, CountKept DEF UnhookUnlock
<1>24. ASSUME NEW t \in Threads, UnhookFinish(t)
      PROVE  RefsCountHolders'
  <2>1. PICK w \in Vops : w = Vop(t)
    BY <1>24, WorksOn DEF UnhookFinish
  <2>2. /\ \A u \in Threads \ {t} :
             existing'[u] = existing[u] /\ newEntry'[u] = newEntry[u]
        /\ \A x \in Vops \ {w} : hash'[x] = hash[x]
    BY <1>24, <2>1 DEF UnhookFinish, TypeInv
  <2>3. ASSUME NEW e \in Entries
        PROVE  refs'[e] = refs[e] + Is(hash'[w], e) - Is(hash[w], e)
                          + Is(existing'[t], e) - Is(existing[t], e)
                          + Is(newEntry'[t], e) - Is(newEntry[t], e)
    BY <1>24, <2>1, <2>3 DEF UnhookFinish, TypeInv, CallInv, Is
  <2>4. QED
    BY <2>2, <2>3, Balance
<1>25. ASSUME NEW t \in Threads, CallOriginal(t)
      PROVE  RefsCountHolders'
  BY <1>25, CountKept DEF CallOriginal
<1>26. ASSUME NEW v \in Vnodes, VnodeCreate(v) \/ VnodeTerminate(v) \/ ReclaimMissed(v)
      PROVE  RefsCountHolders'
  BY <1>26, CountKept DEF VnodeCreate, VnodeTerminate, ReclaimMissed
<1>27. ASSUME NEW t \in Threads, NEW v \in Vnodes, VnodeAuthorizeCallback(t, v)
      PROVE  RefsCountHolders'
  BY <1>27, CountKept DEF VnodeAuthorizeCallback
<1>28. ASSUME NEW t \in Threads, NEW v \in Vnodes, NEW o \in Ops, VnopCall(t, v, o)
      PROVE  RefsCountHolders'
  BY <1>28, CountKept DEF VnopCall
<1>29. CASE UNCHANGED vars
  BY <1>29, CountKept
<1>30. QED
  BY <1>1, <1>2, <1>3, <1>4, <1>5, <1>6, <1>7, <1>8, <1>9, <1>10, <1>11, <1>12,
     <1>13, <1>14, <1>15, <1>16, <1>17, <1>18, <1>19, <1>20, <1>21, <1>22, <1>23,
     <1>24, <1>25, <1>26, <1>27, <1>28, <1>29
     DEF Next, Step, GetOriginal, HookVnodeVop, UnhookVnodeVop, Kernel, NewCall

----------------------------------------------------------------------------
(* The theorems.                                                           *)

\* The strengthened invariant: what the hash, the vectors and the entries are
\* in the middle of every walk, and which entry each running function holds.
THEOREM Inductive == Spec => []IInv
<1>1. Init => IInv
  BY InitIInv
<1>2. IInv /\ [Next]_vars => IInv'
  BY TypeStep, CallStep, LockStep, FoundStep, WalkStep, VectorStep, OriginalStep,
     CountStep DEF IInv
<1>3. QED
  BY <1>1, <1>2, PTL DEF Spec

\* A hook is always given the file system's function, for any number of threads,
\* vnodes, vectors and hooked operations.
THEOREM OriginalIsFsd == Spec => []OriginalIsFsdFunction
<1>1. IInv => OriginalIsFsdFunction
  BY DEF IInv
<1>2. QED
  BY <1>1, Inductive, PTL

\* Outside of an exclusive section a vector is hooked as a whole or not at all.
THEOREM VectorsAreWhole == Spec => []HashMirrorsVector
<1>1. ASSUME IInv
      PROVE  HashMirrorsVector
  <2>1. SUFFICES ASSUME writer = NoThread
                 PROVE  HashMirrorsVector
    BY DEF HashMirrorsVector
  <2>2. \A t \in Threads : pc[t] \notin WalkPc
    BY <1>1, <2>1, NoneAssumption DEF IInv, LockHeldWhileWalking
  <2>3. \A w \in Vops : ~Walked(w)
    BY <2>2 DEF Walked
  <2>4. QED
    BY <1>1, <2>3 DEF IInv, VectorInv, HashMirrorsVector
<1>2. QED
  BY <1>1, Inductive, PTL

\* No pointer to a freed entry, and no entry that nobody points to.
THEOREM RefsAreExact == Spec => []RefsCountHolders
<1>1. IInv => RefsCountHolders
  BY DEF IInv
<1>2. QED
  BY <1>1, Inductive, PTL

\* The lock is held for the whole of a walk and for no longer.
THEOREM LockIsBalanced == Spec => []LockHeldWhileWalking
<1>1. IInv => LockHeldWhileWalking
  BY DEF IInv
<1>2. QED
  BY <1>1, Inductive, PTL

\* Types; a reference released twice would make a count negative.
THEOREM TypeCorrect == Spec => []TypeOK
<1>1. ASSUME IInv, NEW e \in Entries
      PROVE  refs[e] \in Nat
  <2>1. refs[e] = Refs(hash, Vops, e) + Refs(existing, Threads, e)
                  + Refs(newEntry, Threads, e)
    BY <1>1, HoldersAreRefs DEF IInv
  <2>2. /\ Refs(hash, Vops, e) \in Nat /\ Refs(existing, Threads, e) \in Nat
        /\ Refs(newEntry, Threads, e) \in Nat
    BY CountType, FiniteAssumption
  <2>3. QED
    BY <2>1, <2>2
<1>2. IInv => TypeOK
  BY <1>1 DEF IInv, TypeInv, CallInv, TypeOK
<1>3. QED
  BY <1>2, Inductive, PTL
=============================================================================
