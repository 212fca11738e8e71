--------------------------- MODULE VNodeMapProofs ---------------------------
(***************************************************************************)
(* Proofs about VNodeMap.                                                  *)
(***************************************************************************)
EXTENDS VNodeMap, Integers, FiniteSets, FiniteSetTheorems, TLAPS

\* TypeOK, without that the iocounts are never negative.
TypeInv ==
  /\ live \in SUBSET Vnodes
  /\ InstanceForVnodeIO \in [Vnodes -> Backing \cup {NULLVP}]
  /\ InstanceForShadowToVnode \in [Vnodes -> Vnodes \cup {NULLVP}]
  /\ iocount \in [All -> Int]
  /\ vn \in [Threads -> Vnodes \cup {NULLVP}]
  /\ orig \in [Threads -> Vnodes \cup {NULLVP}]
  /\ ref \in [Threads -> All \cup {NULLVP}]
  /\ old \in [Threads -> All \cup {NULLVP}]

ReclaimPc == { "reclaimIO", "reclaimPutIO", "reclaimShadow", "reclaimPutShadow",
               "reclaimed" }
HookPc    == { "get", "getOnly", "getShadow", "lookup", "add", "use", "inactive",
               "inactiveRemove", "inactivePut", "shadowAdd", "shadowRemove",
               "shadowPut" }
ClosePc   == { "releaseIO", "popIO", "releasePutIO", "releaseShadow", "popShadow",
               "releasePutShadow", "released" }
PutPc     == { "inactivePut", "reclaimPutIO", "reclaimPutShadow", "shadowPut",
               "releasePutIO", "releasePutShadow" }

\* A hook runs on a live vnode, the reclaim hook on one that is not; a thread
\* has a vnode to put only where it puts it.
CallInv ==
  /\ pc \in [Threads -> {"idle"} \cup ReclaimPc \cup HookPc \cup ClosePc]
  /\ \A t \in Threads :
       /\ pc[t] \in HookPc => vn[t] \in live
       /\ pc[t] \in ReclaimPc => vn[t] \in Vnodes \ live
       /\ pc[t] = "shadowAdd" => orig[t] \in Vnodes
       /\ pc[t] \in {"add", "use", "inactiveRemove", "inactivePut"}
            <=> ref[t] # NULLVP
       /\ pc[t] = "add" => ref[t] \in Backing
       /\ old[t] # NULLVP => pc[t] \in PutPc

\* What is in the maps for a reclaimed vnode its reclaim hook has yet to remove.
ForgetInv ==
  \A v \in Vnodes \ live :
    /\ InstanceForVnodeIO[v] # NULLVP =>
         \E t \in Threads : vn[t] = v /\ pc[t] = "reclaimIO"
    /\ InstanceForShadowToVnode[v] # NULLVP =>
         \E t \in Threads :
           vn[t] = v /\ pc[t] \in {"reclaimIO", "reclaimPutIO", "reclaimShadow"}

IInv == TypeInv /\ CallInv /\ ForgetInv /\ IocountsAreHeld

----------------------------------------------------------------------------
(* Counting.                                                               *)

\* One where two values agree, so that a change of a pointer is a difference.
Is(a, x) == IF a = x THEN 1 ELSE 0

\* How many elements of S point at x.
Refs(f, S, x) == Cardinality({z \in S : f[z] = x})

\* A function that changes at z only is counted anew at z only.
LEMMA Recount ==
  ASSUME NEW S, IsFiniteSet(S), NEW f, NEW g, NEW z \in S, NEW x,
         \A y \in S \ {z} : g[y] = f[y]
  PROVE  /\ Refs(f, S, x) \in Nat
         /\ Refs(g, S, x) = Refs(f, S, x) + Is(g[z], x) - Is(f[z], x)
<1> DEFINE F == {y \in S : f[y] = x}
           G == {y \in S : g[y] = x}
<1>1. IsFiniteSet(F) /\ IsFiniteSet(G)
  BY FS_Subset, F \in SUBSET S, G \in SUBSET S
<1>2. Cardinality(F) \in Nat /\ Cardinality(G) \in Nat
  BY <1>1, FS_CardinalityType
<1>3. CASE g[z] = x /\ f[z] # x
  <2>1. G = F \cup {z} /\ z \notin F
    BY <1>3
  <2>2. Cardinality(G) = Cardinality(F) + 1
    BY <1>1, <2>1, FS_AddElement
  <2>3. QED
    BY <1>2, <1>3, <2>2 DEF Refs, Is
<1>4. CASE g[z] # x /\ f[z] = x
  <2>1. G = F \ {z} /\ z \in F
    BY <1>4
  <2>2. Cardinality(G) = Cardinality(F) - 1
    BY <1>1, <2>1, FS_RemoveElement
  <2>3. QED
    BY <1>2, <1>4, <2>2 DEF Refs, Is
<1>5. CASE g[z] = x <=> f[z] = x
  <2>1. G = F
    BY <1>5
  <2>2. Is(g[z], x) = Is(f[z], x) /\ Is(f[z], x) \in {0, 1}
    BY <1>5 DEF Is
  <2>3. Refs(g, S, x) = Refs(f, S, x) /\ Refs(f, S, x) \in Nat
    BY <1>2, <2>1 DEF Refs
  <2>4. QED
    BY <2>2, <2>3
<1>6. QED
  BY <1>3, <1>4, <1>5

\* A count is a natural number.
LEMMA CountType ==
  ASSUME NEW S, IsFiniteSet(S), NEW f, NEW x
  PROVE  Refs(f, S, x) \in Nat
<1>1. IsFiniteSet({z \in S : f[z] = x})
  BY FS_Subset, {z \in S : f[z] = x} \in SUBSET S
<1>2. QED
  BY <1>1, FS_CardinalityType DEF Refs

\* The invariant in terms of Refs.
LEMMA IocountsAreRefs ==
  IocountsAreHeld <=>
    \A x \in All : iocount[x] = Refs(InstanceForVnodeIO, Vnodes, x)
                              + Refs(InstanceForShadowToVnode, Vnodes, x)
                              + Refs(ref, Threads, x) + Refs(old, Threads, x)
BY DEF IocountsAreHeld, Refs

\* A step that changes the maps at v and the locals of t only keeps the iocounts
\* right if it counts what it changes.
LEMMA Balance ==
  ASSUME TypeInv, TypeInv', IocountsAreHeld, NEW t \in Threads, NEW v \in Vnodes,
         \A u \in Threads \ {t} : ref'[u] = ref[u] /\ old'[u] = old[u],
         \A w \in Vnodes \ {v} :
           /\ InstanceForVnodeIO'[w] = InstanceForVnodeIO[w]
           /\ InstanceForShadowToVnode'[w] = InstanceForShadowToVnode[w],
         \A x \in All :
           iocount'[x] = iocount[x]
             + Is(InstanceForVnodeIO'[v], x) - Is(InstanceForVnodeIO[v], x)
             + Is(InstanceForShadowToVnode'[v], x) - Is(InstanceForShadowToVnode[v], x)
             + Is(ref'[t], x) - Is(ref[t], x) + Is(old'[t], x) - Is(old[t], x)
  PROVE  IocountsAreHeld'
<1> SUFFICES ASSUME NEW x \in All
             PROVE  iocount'[x] = Refs(InstanceForVnodeIO', Vnodes, x)
                                + Refs(InstanceForShadowToVnode', Vnodes, x)
                                + Refs(ref', Threads, x) + Refs(old', Threads, x)
  BY DEF IocountsAreHeld, Refs
<1>1. iocount[x] = Refs(InstanceForVnodeIO, Vnodes, x)
                 + Refs(InstanceForShadowToVnode, Vnodes, x)
                 + Refs(ref, Threads, x) + Refs(old, Threads, x)
  BY IocountsAreRefs
<1>2. /\ Refs(InstanceForVnodeIO, Vnodes, x) \in Nat
      /\ Refs(InstanceForVnodeIO', Vnodes, x) = Refs(InstanceForVnodeIO, Vnodes, x)
           + Is(InstanceForVnodeIO'[v], x) - Is(InstanceForVnodeIO[v], x)
  <2>1. \A y \in Vnodes \ {v} : InstanceForVnodeIO'[y] = InstanceForVnodeIO[y]
    OBVIOUS
  <2>2. IsFiniteSet(Vnodes)
    BY FiniteAssumption
  <2>3. QED
    BY <2>1, <2>2, Recount, Z3
<1>3. /\ Refs(InstanceForShadowToVnode, Vnodes, x) \in Nat
      /\ Refs(InstanceForShadowToVnode', Vnodes, x) =
           Refs(InstanceForShadowToVnode, Vnodes, x)
           + Is(InstanceForShadowToVnode'[v], x) - Is(InstanceForShadowToVnode[v], x)
  <2>1. \A y \in Vnodes \ {v} : InstanceForShadowToVnode'[y] = InstanceForShadowToVnode[y]
    OBVIOUS
  <2>2. IsFiniteSet(Vnodes)
    BY FiniteAssumption
  <2>3. QED
    BY <2>1, <2>2, Recount, Z3
<1>4. /\ Refs(ref, Threads, x) \in Nat
      /\ Refs(ref', Threads, x) = Refs(ref, Threads, x) + Is(ref'[t], x) - Is(ref[t], x)
  <2>1. \A y \in Threads \ {t} : ref'[y] = ref[y]
    OBVIOUS
  <2>2. IsFiniteSet(Threads)
    BY FiniteAssumption
  <2>3. QED
    BY <2>1, <2>2, Recount, Z3
<1>5. /\ Refs(old, Threads, x) \in Nat
      /\ Refs(old', Threads, x) = Refs(old, Threads, x) + Is(old'[t], x) - Is(old[t], x)
  <2>1. \A y \in Threads \ {t} : old'[y] = old[y]
    OBVIOUS
  <2>2. IsFiniteSet(Threads)
    BY FiniteAssumption
  <2>3. QED
    BY <2>1, <2>2, Recount, Z3
<1>6. QED
  BY <1>1, <1>2, <1>3, <1>4, <1>5 DEF Is

\* The same for a step that changes the locals of t only.
LEMMA ThreadBalance ==
  ASSUME TypeInv, TypeInv', IocountsAreHeld, NEW t \in Threads,
         UNCHANGED instances,
         \A u \in Threads \ {t} : ref'[u] = ref[u] /\ old'[u] = old[u],
         \A x \in All :
           iocount'[x] = iocount[x]
             + Is(ref'[t], x) - Is(ref[t], x) + Is(old'[t], x) - Is(old[t], x)
  PROVE  IocountsAreHeld'
<1> SUFFICES ASSUME NEW x \in All
             PROVE  iocount'[x] = Refs(InstanceForVnodeIO', Vnodes, x)
                                + Refs(InstanceForShadowToVnode', Vnodes, x)
                                + Refs(ref', Threads, x) + Refs(old', Threads, x)
  BY DEF IocountsAreHeld, Refs
<1>1. iocount[x] = Refs(InstanceForVnodeIO, Vnodes, x)
                 + Refs(InstanceForShadowToVnode, Vnodes, x)
                 + Refs(ref, Threads, x) + Refs(old, Threads, x)
  BY IocountsAreRefs
<1>2. /\ Refs(InstanceForVnodeIO', Vnodes, x) = Refs(InstanceForVnodeIO, Vnodes, x)
      /\ Refs(InstanceForVnodeIO, Vnodes, x) \in Nat
      /\ Refs(InstanceForShadowToVnode', Vnodes, x) =
           Refs(InstanceForShadowToVnode, Vnodes, x)
      /\ Refs(InstanceForShadowToVnode, Vnodes, x) \in Nat
  BY CountType, FiniteAssumption DEF instances
<1>3. /\ Refs(ref, Threads, x) \in Nat
      /\ Refs(ref', Threads, x) = Refs(ref, Threads, x) + Is(ref'[t], x) - Is(ref[t], x)
  <2>1. \A y \in Threads \ {t} : ref'[y] = ref[y]
    OBVIOUS
  <2>2. IsFiniteSet(Threads)
    BY FiniteAssumption
  <2>3. QED
    BY <2>1, <2>2, Recount, Z3
<1>4. /\ Refs(old, Threads, x) \in Nat
      /\ Refs(old', Threads, x) = Refs(old, Threads, x) + Is(old'[t], x) - Is(old[t], x)
  <2>1. \A y \in Threads \ {t} : old'[y] = old[y]
    OBVIOUS
  <2>2. IsFiniteSet(Threads)
    BY FiniteAssumption
  <2>3. QED
    BY <2>1, <2>2, Recount, Z3
<1>5. QED
  BY <1>1, <1>2, <1>3, <1>4 DEF Is

----------------------------------------------------------------------------
(* The steps.                                                              *)

USE DEF All, Goto, Return, TakeRef, vnode_get, vnode_put, instances, vars, ReclaimPc,
        HookPc, ClosePc, PutPc, AfterPut

\* The initial states satisfy the invariant.
LEMMA InitIInv ==
  ASSUME Init
  PROVE  IInv
<1> USE VnodesAssumption DEF Init
<1>1. TypeInv /\ CallInv /\ ForgetInv
  BY DEF TypeInv, CallInv, ForgetInv
<1>2. ASSUME NEW x \in All
      PROVE  /\ {v \in Vnodes : InstanceForVnodeIO[v] = x} = {}
             /\ {v \in Vnodes : InstanceForShadowToVnode[v] = x} = {}
             /\ {t \in Threads : ref[t] = x} = {}
             /\ {t \in Threads : old[t] = x} = {}
  BY <1>2
<1>3. IocountsAreHeld
  BY <1>2, FS_EmptySet DEF IocountsAreHeld
<1>4. QED
  BY <1>1, <1>3 DEF IInv

\* Every step keeps the types.
LEMMA TypeStep ==
  ASSUME IInv, [Next]_vars
  PROVE  TypeInv'
<1> USE VnodesAssumption, ShadowsAssumption DEF IInv, TypeInv, CallInv
<1>1. ASSUME NEW t \in Threads, GetVnodeIORef(t)
      PROVE  TypeInv'
  BY <1>1, SMTT(40) DEF GetVnodeIORef
<1>2. ASSUME NEW t \in Threads, GetVnodeShadowReverseRef(t)
      PROVE  TypeInv'
  BY <1>2 DEF GetVnodeShadowReverseRef
<1>3. ASSUME NEW t \in Threads, LookupBackingVnode(t)
      PROVE  TypeInv'
  BY <1>3 DEF LookupBackingVnode
<1>4. ASSUME NEW t \in Threads, AddVnodeIO(t)
      PROVE  TypeInv'
  BY <1>4 DEF AddVnodeIO
<1>5. ASSUME NEW t \in Threads, PutRef(t)
      PROVE  TypeInv'
  BY <1>5 DEF PutRef
<1>6. ASSUME NEW t \in Threads, RemoveVnodeIO(t)
      PROVE  TypeInv'
  BY <1>6 DEF RemoveVnodeIO
<1>7. ASSUME NEW t \in Threads, RemoveShadowReverse(t)
      PROVE  TypeInv'
  BY <1>7 DEF RemoveShadowReverse
<1>8. ASSUME NEW t \in Threads, AddVnodeShadowReverse(t)
      PROVE  TypeInv'
  BY <1>8 DEF AddVnodeShadowReverse
<1>9. ASSUME NEW t \in Threads, PutOld(t)
      PROVE  TypeInv'
  BY <1>9 DEF PutOld
<1>10. ASSUME NEW t \in Threads, Reclaimed(t)
      PROVE  TypeInv'
  BY <1>10 DEF Reclaimed
<1>11. ASSUME NEW t \in Threads, ReleaseTestVnodeIO(t)
      PROVE  TypeInv'
  BY <1>11 DEF ReleaseTestVnodeIO
<1>12. ASSUME NEW t \in Threads, ReleaseTestShadowReverse(t)
      PROVE  TypeInv'
  BY <1>12 DEF ReleaseTestShadowReverse
<1>13. ASSUME NEW t \in Threads, ReleasePopVnodeIO(t)
      PROVE  TypeInv'
  BY <1>13 DEF ReleasePopVnodeIO, Pop
<1>14. ASSUME NEW t \in Threads, ReleasePopShadowReverse(t)
      PROVE  TypeInv'
  BY <1>14 DEF ReleasePopShadowReverse, Pop
<1>15. ASSUME NEW t \in Threads, Close(t) \/ Closed(t)
      PROVE  TypeInv'
  BY <1>15 DEF Close, Closed
<1>16. ASSUME NEW v \in Vnodes, VnodeCreate(v)
      PROVE  TypeInv'
  BY <1>16 DEF VnodeCreate
<1>17. ASSUME NEW t \in Threads, NEW v \in Vnodes, VnopCall(t, v)
      PROVE  TypeInv'
  BY <1>17 DEF VnopCall
<1>18. ASSUME NEW t \in Threads, NEW v \in Vnodes, ReclaimCall(t, v)
      PROVE  TypeInv'
  BY <1>18 DEF ReclaimCall, Unused
<1>19. ASSUME NEW t \in Threads, NEW p \in Shadows, ShadowCall(t, p)
      PROVE  TypeInv'
  BY <1>19 DEF ShadowCall
<1>20. CASE UNCHANGED vars
  BY <1>20
<1>21. QED
  BY <1>1, <1>2, <1>3, <1>4, <1>5, <1>6, <1>7, <1>8, <1>9, <1>10, <1>11, <1>12, <1>13,
     <1>14, <1>15, <1>16, <1>17, <1>18, <1>19, <1>20 DEF Next, Hook, Release

\* Every step keeps what the functions have in hand (CallInv).
LEMMA CallStep ==
  ASSUME IInv, [Next]_vars
  PROVE  CallInv'
<1> USE VnodesAssumption, ShadowsAssumption DEF IInv, TypeInv, CallInv
<1>1. ASSUME NEW t \in Threads, GetVnodeIORef(t)
      PROVE  CallInv'
  BY <1>1 DEF GetVnodeIORef
<1>2. ASSUME NEW t \in Threads, GetVnodeShadowReverseRef(t)
      PROVE  CallInv'
  BY <1>2 DEF GetVnodeShadowReverseRef
<1>3. ASSUME NEW t \in Threads, LookupBackingVnode(t)
      PROVE  CallInv'
  BY <1>3 DEF LookupBackingVnode
<1>4. ASSUME NEW t \in Threads, AddVnodeIO(t)
      PROVE  CallInv'
  BY <1>4 DEF AddVnodeIO
<1>5. ASSUME NEW t \in Threads, PutRef(t)
      PROVE  CallInv'
  BY <1>5 DEF PutRef
<1>6. ASSUME NEW t \in Threads, RemoveVnodeIO(t)
      PROVE  CallInv'
  BY <1>6 DEF RemoveVnodeIO
<1>7. ASSUME NEW t \in Threads, RemoveShadowReverse(t)
      PROVE  CallInv'
  BY <1>7 DEF RemoveShadowReverse
<1>8. ASSUME NEW t \in Threads, AddVnodeShadowReverse(t)
      PROVE  CallInv'
  BY <1>8 DEF AddVnodeShadowReverse
<1>9. ASSUME NEW t \in Threads, PutOld(t)
      PROVE  CallInv'
  BY <1>9 DEF PutOld
<1>10. ASSUME NEW t \in Threads, Reclaimed(t)
      PROVE  CallInv'
  BY <1>10 DEF Reclaimed
<1>11. ASSUME NEW t \in Threads, ReleaseTestVnodeIO(t)
      PROVE  CallInv'
  BY <1>11 DEF ReleaseTestVnodeIO
<1>12. ASSUME NEW t \in Threads, ReleaseTestShadowReverse(t)
      PROVE  CallInv'
  BY <1>12 DEF ReleaseTestShadowReverse
<1>13. ASSUME NEW t \in Threads, ReleasePopVnodeIO(t)
      PROVE  CallInv'
  BY <1>13 DEF ReleasePopVnodeIO, Pop
<1>14. ASSUME NEW t \in Threads, ReleasePopShadowReverse(t)
      PROVE  CallInv'
  BY <1>14 DEF ReleasePopShadowReverse, Pop
<1>15. ASSUME NEW t \in Threads, Close(t) \/ Closed(t)
      PROVE  CallInv'
  BY <1>15 DEF Close, Closed
<1>16. ASSUME NEW v \in Vnodes, VnodeCreate(v)
      PROVE  CallInv'
  BY <1>16 DEF VnodeCreate
<1>17. ASSUME NEW t \in Threads, NEW v \in Vnodes, VnopCall(t, v)
      PROVE  CallInv'
  BY <1>17 DEF VnopCall
<1>18. ASSUME NEW t \in Threads, NEW v \in Vnodes, ReclaimCall(t, v)
      PROVE  CallInv'
  BY <1>18 DEF ReclaimCall, Unused
<1>19. ASSUME NEW t \in Threads, NEW p \in Shadows, ShadowCall(t, p)
      PROVE  CallInv'
  BY <1>19 DEF ShadowCall
<1>20. CASE UNCHANGED vars
  BY <1>20
<1>21. QED
  BY <1>1, <1>2, <1>3, <1>4, <1>5, <1>6, <1>7, <1>8, <1>9, <1>10, <1>11, <1>12, <1>13,
     <1>14, <1>15, <1>16, <1>17, <1>18, <1>19, <1>20 DEF Next, Hook, Release

\* ForgetInv is kept.
LEMMA ForgetStep ==
  ASSUME IInv, [Next]_vars
  PROVE  ForgetInv'
<1> USE VnodesAssumption, ShadowsAssumption DEF IInv, TypeInv, CallInv, ForgetInv
<1>1. ASSUME NEW t \in Threads, GetVnodeIORef(t)
      PROVE  ForgetInv'
  BY <1>1 DEF GetVnodeIORef
<1>2. ASSUME NEW t \in Threads, GetVnodeShadowReverseRef(t)
      PROVE  ForgetInv'
  BY <1>2 DEF GetVnodeShadowReverseRef
<1>3. ASSUME NEW t \in Threads, LookupBackingVnode(t)
      PROVE  ForgetInv'
  BY <1>3 DEF LookupBackingVnode
<1>4. ASSUME NEW t \in Threads, AddVnodeIO(t)
      PROVE  ForgetInv'
  BY <1>4 DEF AddVnodeIO
<1>5. ASSUME NEW t \in Threads, PutRef(t)
      PROVE  ForgetInv'
  BY <1>5 DEF PutRef
<1>6. ASSUME NEW t \in Threads, RemoveVnodeIO(t)
      PROVE  ForgetInv'
  BY <1>6 DEF RemoveVnodeIO
<1>7. ASSUME NEW t \in Threads, RemoveShadowReverse(t)
      PROVE  ForgetInv'
  BY <1>7 DEF RemoveShadowReverse
<1>8. ASSUME NEW t \in Threads, AddVnodeShadowReverse(t)
      PROVE  ForgetInv'
  BY <1>8 DEF AddVnodeShadowReverse
<1>9. ASSUME NEW t \in Threads, PutOld(t)
      PROVE  ForgetInv'
  BY <1>9 DEF PutOld
<1>10. ASSUME NEW t \in Threads, Reclaimed(t)
      PROVE  ForgetInv'
  BY <1>10 DEF Reclaimed
<1>11. ASSUME NEW t \in Threads, ReleaseTestVnodeIO(t)
      PROVE  ForgetInv'
  BY <1>11 DEF ReleaseTestVnodeIO
<1>12. ASSUME NEW t \in Threads, ReleaseTestShadowReverse(t)
      PROVE  ForgetInv'
  BY <1>12 DEF ReleaseTestShadowReverse
<1>13. ASSUME NEW t \in Threads, ReleasePopVnodeIO(t)
      PROVE  ForgetInv'
  BY <1>13 DEF ReleasePopVnodeIO, Pop
<1>14. ASSUME NEW t \in Threads, ReleasePopShadowReverse(t)
      PROVE  ForgetInv'
  BY <1>14 DEF ReleasePopShadowReverse, Pop
<1>15. ASSUME NEW t \in Threads, Close(t) \/ Closed(t)
      PROVE  ForgetInv'
  BY <1>15 DEF Close, Closed
<1>16. ASSUME NEW v \in Vnodes, VnodeCreate(v)
      PROVE  ForgetInv'
  BY <1>16 DEF VnodeCreate
<1>17. ASSUME NEW t \in Threads, NEW v \in Vnodes, VnopCall(t, v)
      PROVE  ForgetInv'
  BY <1>17 DEF VnopCall
<1>18. ASSUME NEW t \in Threads, NEW v \in Vnodes, ReclaimCall(t, v)
      PROVE  ForgetInv'
  BY <1>18 DEF ReclaimCall, Unused
<1>19. ASSUME NEW t \in Threads, NEW p \in Shadows, ShadowCall(t, p)
      PROVE  ForgetInv'
  BY <1>19 DEF ShadowCall
<1>20. CASE UNCHANGED vars
  BY <1>20
<1>21. QED
  BY <1>1, <1>2, <1>3, <1>4, <1>5, <1>6, <1>7, <1>8, <1>9, <1>10, <1>11, <1>12, <1>13,
     <1>14, <1>15, <1>16, <1>17, <1>18, <1>19, <1>20 DEF Next, Hook, Release

\* IocountsAreHeld is kept.
LEMMA CountStep ==
  ASSUME IInv, TypeInv', [Next]_vars
  PROVE  IocountsAreHeld'
<1> USE VnodesAssumption, ShadowsAssumption DEF IInv, CallInv
<1>1. ASSUME NEW t \in Threads,
             GetVnodeIORef(t) \/ GetVnodeShadowReverseRef(t) \/ LookupBackingVnode(t)
      PROVE  IocountsAreHeld'
  <2>1. /\ UNCHANGED << instances, old >>
        /\ \A u \in Threads \ {t} : ref'[u] = ref[u]
    BY <1>1 DEF GetVnodeIORef, GetVnodeShadowReverseRef, LookupBackingVnode, TypeInv
  <2>2. ASSUME NEW x \in All
        PROVE  iocount'[x] = iocount[x] + Is(ref'[t], x) - Is(ref[t], x)
    BY <1>1, <2>2 DEF GetVnodeIORef, GetVnodeShadowReverseRef, LookupBackingVnode,
                      TypeInv, Is
  <2>3. QED
    BY <2>1, <2>2, ThreadBalance DEF TypeInv, Is
<1>2. ASSUME NEW t \in Threads, PutRef(t) \/ PutOld(t)
      PROVE  IocountsAreHeld'
  <2>1. /\ UNCHANGED instances
        /\ \A u \in Threads \ {t} : ref'[u] = ref[u] /\ old'[u] = old[u]
    BY <1>2 DEF PutRef, PutOld, TypeInv
  <2>2. ASSUME NEW x \in All
        PROVE  iocount'[x] = iocount[x] + Is(ref'[t], x) - Is(ref[t], x)
                                        + Is(old'[t], x) - Is(old[t], x)
    <3>1. CASE PutRef(t)
      BY <3>1 DEF PutRef, TypeInv, Is
    <3>2. CASE PutOld(t)
      BY <3>2 DEF PutOld, TypeInv, Is
    <3>3. QED
      BY <1>2, <3>1, <3>2
  <2>3. QED
    BY <2>1, <2>2, ThreadBalance
<1>3. ASSUME NEW t \in Threads,
             \/ AddVnodeIO(t) \/ RemoveVnodeIO(t) \/ RemoveShadowReverse(t)
             \/ AddVnodeShadowReverse(t)
      PROVE  IocountsAreHeld'
  <2> DEFINE v == vn[t]
  <2>1. v \in Vnodes
    BY <1>3 DEF AddVnodeIO, RemoveVnodeIO, RemoveShadowReverse, AddVnodeShadowReverse,
                TypeInv
  <2>2. /\ UNCHANGED ref
        /\ \A u \in Threads \ {t} : old'[u] = old[u]
        /\ \A w \in Vnodes \ {v} :
             /\ InstanceForVnodeIO'[w] = InstanceForVnodeIO[w]
             /\ InstanceForShadowToVnode'[w] = InstanceForShadowToVnode[w]
    BY <1>3, <2>1 DEF AddVnodeIO, RemoveVnodeIO, RemoveShadowReverse,
                      AddVnodeShadowReverse, TypeInv
  <2>3. ASSUME NEW x \in All
        PROVE  iocount'[x] = iocount[x]
             + Is(InstanceForVnodeIO'[v], x) - Is(InstanceForVnodeIO[v], x)
             + Is(InstanceForShadowToVnode'[v], x) - Is(InstanceForShadowToVnode[v], x)
             + Is(old'[t], x) - Is(old[t], x)
    <3>1. CASE AddVnodeIO(t)
      BY <2>1, <3>1 DEF AddVnodeIO, TypeInv, Is
    <3>2. CASE RemoveVnodeIO(t)
      <4>1. /\ old'[t] = InstanceForVnodeIO[v] /\ old[t] = NULLVP
            /\ InstanceForVnodeIO'[v] = NULLVP
            /\ UNCHANGED << InstanceForShadowToVnode, iocount >>
        BY <2>1, <3>2 DEF RemoveVnodeIO, TypeInv, CallInv, IInv, PutPc
      <4>2. Is(NULLVP, x) = 0 /\ iocount[x] \in Int
        BY <2>3 DEF Is, IInv, TypeInv
      <4>3. \A a : Is(a, x) \in Int
        BY DEF Is
      <4>4. QED
        BY <4>1, <4>2, <4>3
    <3>3. CASE RemoveShadowReverse(t)
      <4>1. /\ old'[t] = InstanceForShadowToVnode[v] /\ old[t] = NULLVP
            /\ InstanceForShadowToVnode'[v] = NULLVP
            /\ UNCHANGED << InstanceForVnodeIO, iocount >>
        BY <2>1, <3>3 DEF RemoveShadowReverse, TypeInv, CallInv, IInv, PutPc
      <4>2. Is(NULLVP, x) = 0 /\ iocount[x] \in Int
        BY <2>3 DEF Is, IInv, TypeInv
      <4>3. \A a : Is(a, x) \in Int
        BY DEF Is
      <4>4. QED
        BY <4>1, <4>2, <4>3
    <3>4. CASE AddVnodeShadowReverse(t)
      BY <2>1, <3>4 DEF AddVnodeShadowReverse, TypeInv, Is
    <3>5. QED
      BY <1>3, <3>1, <3>2, <3>3, <3>4
  <2>4. ASSUME NEW x \in All
        PROVE  iocount'[x] = iocount[x]
             + Is(InstanceForVnodeIO'[v], x) - Is(InstanceForVnodeIO[v], x)
             + Is(InstanceForShadowToVnode'[v], x) - Is(InstanceForShadowToVnode[v], x)
             + Is(ref'[t], x) - Is(ref[t], x) + Is(old'[t], x) - Is(old[t], x)
    BY <2>2, <2>3 DEF TypeInv, Is
  <2> HIDE DEF v
  <2>5. QED
    BY <2>1, <2>2, <2>4, Balance
<1>4. ASSUME NEW t \in Threads, ReleasePopVnodeIO(t) \/ ReleasePopShadowReverse(t)
      PROVE  IocountsAreHeld'
  <2>1. CASE UNCHANGED << instances, old >>
    BY <1>4, <2>1 DEF ReleasePopVnodeIO, ReleasePopShadowReverse, IocountsAreHeld
  <2>2. CASE ~ UNCHANGED << instances, old >>
    <3>1. PICK v \in Vnodes :
            \/ /\ InstanceForVnodeIO[v] # NULLVP
               /\ InstanceForVnodeIO' = [InstanceForVnodeIO EXCEPT ![v] = NULLVP]
               /\ old' = [old EXCEPT ![t] = InstanceForVnodeIO[v]]
               /\ UNCHANGED InstanceForShadowToVnode
            \/ /\ InstanceForShadowToVnode[v] # NULLVP
               /\ InstanceForShadowToVnode' =
                    [InstanceForShadowToVnode EXCEPT ![v] = NULLVP]
               /\ old' = [old EXCEPT ![t] = InstanceForShadowToVnode[v]]
               /\ UNCHANGED InstanceForVnodeIO
      BY <1>4, <2>2 DEF ReleasePopVnodeIO, ReleasePopShadowReverse, Pop
    <3>2. old[t] = NULLVP /\ UNCHANGED << iocount, ref >>
      BY <1>4 DEF ReleasePopVnodeIO, ReleasePopShadowReverse
    <3>3. /\ \A u \in Threads \ {t} : ref'[u] = ref[u] /\ old'[u] = old[u]
          /\ \A w \in Vnodes \ {v} :
               /\ InstanceForVnodeIO'[w] = InstanceForVnodeIO[w]
               /\ InstanceForShadowToVnode'[w] = InstanceForShadowToVnode[w]
      BY <3>1, <3>2 DEF TypeInv
    <3>4. ASSUME NEW x \in All
          PROVE  iocount'[x] = iocount[x]
             + Is(InstanceForVnodeIO'[v], x) - Is(InstanceForVnodeIO[v], x)
             + Is(InstanceForShadowToVnode'[v], x) - Is(InstanceForShadowToVnode[v], x)
             + Is(ref'[t], x) - Is(ref[t], x) + Is(old'[t], x) - Is(old[t], x)
      <4>1. /\ old'[t] \in {InstanceForVnodeIO[v], InstanceForShadowToVnode[v]}
            /\ \/ /\ old'[t] = InstanceForVnodeIO[v]
                  /\ InstanceForVnodeIO'[v] = NULLVP
                  /\ InstanceForShadowToVnode'[v] = InstanceForShadowToVnode[v]
               \/ /\ old'[t] = InstanceForShadowToVnode[v]
                  /\ InstanceForShadowToVnode'[v] = NULLVP
                  /\ InstanceForVnodeIO'[v] = InstanceForVnodeIO[v]
        BY <3>1 DEF TypeInv
      <4>2. iocount'[x] = iocount[x] /\ iocount[x] \in Int /\ ref'[t] = ref[t]
        BY <3>2 DEF TypeInv
      <4>3. NULLVP # x
        OBVIOUS
      <4>4. QED
        BY <3>2, <4>1, <4>2, <4>3 DEF Is
    <3>5. QED
      BY <3>3, <3>4, Balance
  <2>3. QED
    BY <2>1, <2>2
<1>5. ASSUME UNCHANGED << instances, iocount, ref, old >>
      PROVE  IocountsAreHeld'
  BY <1>5 DEF IocountsAreHeld
<1>6. ASSUME NEW t \in Threads,
             Reclaimed(t) \/ ReleaseTestVnodeIO(t) \/ ReleaseTestShadowReverse(t)
               \/ Close(t) \/ Closed(t)
      PROVE  UNCHANGED << instances, iocount, ref, old >>
  BY <1>6 DEF Reclaimed, ReleaseTestVnodeIO, ReleaseTestShadowReverse, Close, Closed
<1>7. ASSUME NEW v \in Vnodes,
             \/ VnodeCreate(v)
             \/ \E t \in Threads : VnopCall(t, v) \/ ReclaimCall(t, v)
      PROVE  UNCHANGED << instances, iocount, ref, old >>
  BY <1>7 DEF VnodeCreate, VnopCall, ReclaimCall
<1>8. ASSUME NEW t \in Threads, NEW p \in Shadows, ShadowCall(t, p)
      PROVE  UNCHANGED << instances, iocount, ref, old >>
  BY <1>8 DEF ShadowCall
<1>9. QED
  BY <1>1, <1>2, <1>3, <1>4, <1>5, <1>6, <1>7, <1>8 DEF Next, Hook, Release

\* The strengthened invariant of the maps and the hooks that use them.
THEOREM Inductive == Spec => []IInv
<1>1. Init => IInv
  BY InitIInv
<1>2. IInv /\ [Next]_vars => IInv'
  BY TypeStep, CallStep, ForgetStep, CountStep DEF IInv
<1>3. QED
  BY <1>1, <1>2, PTL DEF Spec

\* No iocount is lost and none is put twice, for any number of threads and vnodes.
THEOREM IocountsAreExact == Spec => []IocountsAreHeld
<1>1. IInv => IocountsAreHeld
  BY DEF IInv
<1>2. QED
  BY <1>1, Inductive, PTL

\* A reclaimed vnode is in no map.
THEOREM ReclaimForgets == Spec => []ReclaimedVnodeIsForgotten
<1>1. IInv => ReclaimedVnodeIsForgotten
  BY DEF IInv, ForgetInv, ReclaimedVnodeIsForgotten
<1>2. QED
  BY <1>1, Inductive, PTL

\* Types; an iocount that were put twice would make its number negative.
THEOREM TypeCorrect == Spec => []TypeOK
<1>1. ASSUME IInv, NEW x \in All
      PROVE  iocount[x] \in Nat
  <2>1. iocount[x] = Refs(InstanceForVnodeIO, Vnodes, x)
                   + Refs(InstanceForShadowToVnode, Vnodes, x)
                   + Refs(ref, Threads, x) + Refs(old, Threads, x)
    BY <1>1, IocountsAreRefs DEF IInv
  <2>2. /\ Refs(InstanceForVnodeIO, Vnodes, x) \in Nat
        /\ Refs(InstanceForShadowToVnode, Vnodes, x) \in Nat
        /\ Refs(ref, Threads, x) \in Nat /\ Refs(old, Threads, x) \in Nat
    BY CountType, FiniteAssumption
  <2>3. QED
    BY <2>1, <2>2
<1>2. IInv => TypeOK
  BY <1>1 DEF IInv, TypeInv, CallInv, TypeOK
<1>3. QED
  BY <1>2, Inductive, PTL
=============================================================================
