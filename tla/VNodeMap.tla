------------------------------ MODULE VNodeMap ------------------------------
(***************************************************************************)
(* The associations the filter keeps between vnodes (VNode.h) and the      *)
(* iocounts it holds for them, with the hooks that use them (VFSHooks.cpp) *)
(* and the release of everything when the client closes                    *)
(* (VFSFilter0UserClient.cpp).                                             *)
(*                                                                         *)
(* InstanceForVnodeIO maps a vnode to the vnode of the file in the         *)
(* protected storage that its I/O is redirected to; InstanceForShadowTo-   *)
(* Vnode maps the vnode of a shadow copy to the original one.  Each entry  *)
(* holds an iocount on the vnode it refers to.  An iocount is taken under  *)
(* VNodeMap::Lock and dropped after the unlock; each locked section is one *)
(* step, each vnode_put is another.                                        *)
(***************************************************************************)
EXTENDS Integers, FiniteSets

CONSTANTS
  Threads,
  Vnodes,    \* vnodes of the files that applications see
  Backing,   \* vnodes of the files in the protected storage
  LookupOf,  \* what vnode_lookup of the redirected path of a vnode may find
  Shadows,   \* the pairs <<shadow, original>> that lookup and create make
  NULLVP

ASSUME VnodesAssumption ==
  /\ Vnodes \cap Backing = {} /\ NULLVP \notin Vnodes \cup Backing
  /\ LookupOf \in [Vnodes -> SUBSET Backing]
ASSUME FiniteAssumption == IsFiniteSet(Threads) /\ IsFiniteSet(Vnodes)
ASSUME ShadowsAssumption ==
  Shadows \subseteq {p \in Vnodes \X Vnodes : p[1] # p[2]}

VARIABLES
  live,                      \* vnodes that are not reclaimed
  InstanceForVnodeIO,        \* vnode -> backing vnode
  InstanceForShadowToVnode,  \* shadow vnode -> original vnode
  iocount,                   \* iocounts the filter holds on each vnode
  pc, vn,                    \* where each thread is, on which vnode
  orig,                      \* second argument of addVnodeShadowReverse
  ref,                       \* referenced vnode that the thread uses
  old                        \* vnode taken out of a map, to be put

instances == << InstanceForVnodeIO, InstanceForShadowToVnode >>
vars == << live, instances, iocount, pc, vn, orig, ref, old >>

All == Vnodes \cup Backing

\* Where the code goes after vnode_put of a vnode taken out of a map.
AfterPut ==
  [inactivePut |-> "use", reclaimPutIO |-> "reclaimShadow",
   reclaimPutShadow |-> "reclaimed", shadowPut |-> "idle",
   releasePutIO |-> "releaseIO", releasePutShadow |-> "releaseShadow"]

TypeOK ==
  /\ live \in SUBSET Vnodes
  /\ InstanceForVnodeIO \in [Vnodes -> Backing \cup {NULLVP}]
  /\ InstanceForShadowToVnode \in [Vnodes -> Vnodes \cup {NULLVP}]
  /\ iocount \in [All -> Nat]
  /\ pc \in [Threads ->
       DOMAIN AfterPut \cup
       {"idle", "get", "getOnly", "getShadow", "lookup", "add", "use",
        "inactive", "inactiveRemove", "reclaimIO", "reclaimShadow",
        "reclaimed", "shadowAdd", "shadowRemove", "releaseIO", "popIO",
        "releaseShadow", "popShadow", "released"}]
  /\ vn \in [Threads -> Vnodes \cup {NULLVP}]
  /\ orig \in [Threads -> Vnodes \cup {NULLVP}]
  /\ ref \in [Threads -> All \cup {NULLVP}]
  /\ old \in [Threads -> All \cup {NULLVP}]

Init ==
  /\ live = {}
  /\ InstanceForVnodeIO = [v \in Vnodes |-> NULLVP]
  /\ InstanceForShadowToVnode = [v \in Vnodes |-> NULLVP]
  /\ iocount = [v \in All |-> 0]
  /\ pc = [t \in Threads |-> "idle"]
  /\ vn = [t \in Threads |-> NULLVP]
  /\ orig = [t \in Threads |-> NULLVP]
  /\ ref = [t \in Threads |-> NULLVP]
  /\ old = [t \in Threads |-> NULLVP]

Goto(t, l)   == pc' = [pc EXCEPT ![t] = l]
vnode_get(v) == iocount' = [iocount EXCEPT ![v] = @ + 1]
vnode_put(v) == iocount' = [iocount EXCEPT ![v] = @ - 1]

Return(t) ==
  /\ Goto(t, "idle")
  /\ vn' = [vn EXCEPT ![t] = NULLVP]
  /\ orig' = [orig EXCEPT ![t] = NULLVP]

\* A referenced vnode out of a map, for the thread to use.
TakeRef(t, v) ==
  /\ ref' = [ref EXCEPT ![t] = v]
  /\ vnode_get(v)

\* No call is in progress on v, and the filter holds no iocount on it.
Unused(v) == iocount[v] = 0 /\ \A t \in Threads : vn[t] # v /\ orig[t] # v

----------------------------------------------------------------------------
(* The kernel.                                                             *)

\* lookup or create brings a vnode to life, at an address not in use.
VnodeCreate(v) ==
  /\ v \notin live
  /\ \A t \in Threads : vn[t] # v
  /\ live' = live \cup {v}
  /\ UNCHANGED << instances, iocount, pc, vn, orig, ref, old >>

\* A hook on a live vnode starts: "get" is QvrGetBackingVnodeForRedirectedIO
\* (read, write, pagein, pageout, and lookup and create by way of
\* QvrAssociateVnodeForRedirectedIO), "getOnly" the getVnodeIORef of close and
\* exchange, "getShadow" getattr, "inactive" the inactive hook, "shadowRemove"
\* the end of rename.
VnopCall(t, v) ==
  /\ pc[t] = "idle"
  /\ v \in live
  /\ vn' = [vn EXCEPT ![t] = v]
  /\ \E l \in {"get", "getOnly", "getShadow", "inactive", "shadowRemove"} :
       Goto(t, l)
  /\ UNCHANGED << live, instances, iocount, orig, ref, old >>

\* The lookup and create hooks associate a shadow with its original vnode.
ShadowCall(t, p) ==
  /\ pc[t] = "idle"
  /\ p[1] \in live /\ p[2] \in live
  /\ vn' = [vn EXCEPT ![t] = p[1]]
  /\ orig' = [orig EXCEPT ![t] = p[2]]
  /\ Goto(t, "shadowAdd")
  /\ UNCHANGED << live, instances, iocount, ref, old >>

\* A vnode with no iocount left is reclaimed; the reclaim hook runs.
ReclaimCall(t, v) ==
  /\ pc[t] = "idle"
  /\ v \in live
  /\ Unused(v)
  /\ live' = live \ {v}
  /\ vn' = [vn EXCEPT ![t] = v]
  /\ Goto(t, "reclaimIO")
  /\ UNCHANGED << instances, iocount, orig, ref, old >>

----------------------------------------------------------------------------
(* QvrGetBackingVnodeForRedirectedIO and the users of a backing vnode.     *)

\* getVnodeIORef.
GetVnodeIORef(t) ==
  /\ pc[t] \in {"get", "getOnly", "inactive"}
  /\ \/ /\ InstanceForVnodeIO[vn[t]] # NULLVP
        /\ TakeRef(t, InstanceForVnodeIO[vn[t]])
        /\ Goto(t, IF pc[t] = "inactive" THEN "inactiveRemove" ELSE "use")
        /\ UNCHANGED << vn, orig >>
     \/ /\ InstanceForVnodeIO[vn[t]] = NULLVP
        /\ IF pc[t] = "get" THEN Goto(t, "lookup") /\ UNCHANGED << vn, orig >>
                            ELSE Return(t)
        /\ UNCHANGED << iocount, ref >>
  /\ UNCHANGED << live, instances, old >>

\* getVnodeShadowReverseRef.
GetVnodeShadowReverseRef(t) ==
  /\ pc[t] = "getShadow"
  /\ \/ /\ InstanceForShadowToVnode[vn[t]] # NULLVP
        /\ TakeRef(t, InstanceForShadowToVnode[vn[t]])
        /\ Goto(t, "use")
        /\ UNCHANGED << vn, orig >>
     \/ /\ InstanceForShadowToVnode[vn[t]] = NULLVP
        /\ Return(t)
        /\ UNCHANGED << iocount, ref >>
  /\ UNCHANGED << live, instances, old >>

\* vnode_lookup of the redirected path, with no lock held.  It, or one of the
\* steps before it, may fail.
LookupBackingVnode(t) ==
  /\ pc[t] = "lookup"
  /\ \/ /\ \E b \in LookupOf[vn[t]] : TakeRef(t, b)
        /\ Goto(t, "add")
        /\ UNCHANGED << vn, orig >>
     \/ /\ Return(t)
        /\ UNCHANGED << iocount, ref >>
  /\ UNCHANGED << live, instances, old >>

\* Variant: an iocount is taken whether or not the entry was added.
AddVnodeIOAlwaysGets(t) ==
  /\ pc[t] = "add"
  /\ InstanceForVnodeIO' =
       IF InstanceForVnodeIO[vn[t]] = NULLVP
       THEN [InstanceForVnodeIO EXCEPT ![vn[t]] = ref[t]]
       ELSE InstanceForVnodeIO
  /\ vnode_get(ref[t])
  /\ Goto(t, "use")
  /\ UNCHANGED << live, InstanceForShadowToVnode, vn, orig, ref, old >>

\* addVnodeIO: an entry made meanwhile by another thread is left alone; the
\* insertion may fail for lack of memory.
AddVnodeIO(t) ==
  /\ pc[t] = "add"
  /\ \/ /\ InstanceForVnodeIO[vn[t]] = NULLVP
        /\ InstanceForVnodeIO' = [InstanceForVnodeIO EXCEPT ![vn[t]] = ref[t]]
        /\ vnode_get(ref[t])
     \/ UNCHANGED << InstanceForVnodeIO, iocount >>
  /\ Goto(t, "use")
  /\ UNCHANGED << live, InstanceForShadowToVnode, vn, orig, ref, old >>

\* The hook has done its I/O on the referenced vnode: vnode_put and return.
PutRef(t) ==
  /\ pc[t] = "use"
  /\ vnode_put(ref[t])
  /\ ref' = [ref EXCEPT ![t] = NULLVP]
  /\ Return(t)
  /\ UNCHANGED << live, instances, old >>

----------------------------------------------------------------------------
(* Removal of associations: the vnode comes out of the map under the lock, *)
(* vnode_put follows the unlock.                                           *)

\* removeVnodeIO, called by the inactive and by the reclaim hook.
RemoveVnodeIO(t) ==
  /\ pc[t] \in {"inactiveRemove", "reclaimIO"}
  /\ old' = [old EXCEPT ![t] = InstanceForVnodeIO[vn[t]]]
  /\ InstanceForVnodeIO' = [InstanceForVnodeIO EXCEPT ![vn[t]] = NULLVP]
  /\ Goto(t, IF pc[t] = "reclaimIO" THEN "reclaimPutIO" ELSE "inactivePut")
  /\ UNCHANGED << live, InstanceForShadowToVnode, iocount, vn, orig, ref >>

\* Variant: the entry is not removed.
RemoveShadowReverseForgotten(t) ==
  /\ pc[t] \in {"shadowRemove", "reclaimShadow"}
  /\ Goto(t, IF pc[t] = "reclaimShadow" THEN "reclaimPutShadow" ELSE "shadowPut")
  /\ UNCHANGED << live, instances, iocount, vn, orig, ref, old >>

\* removeShadowReverse, called by the rename and by the reclaim hook.
RemoveShadowReverse(t) ==
  /\ pc[t] \in {"shadowRemove", "reclaimShadow"}
  /\ old' = [old EXCEPT ![t] = InstanceForShadowToVnode[vn[t]]]
  /\ InstanceForShadowToVnode' =
       [InstanceForShadowToVnode EXCEPT ![vn[t]] = NULLVP]
  /\ Goto(t, IF pc[t] = "reclaimShadow" THEN "reclaimPutShadow" ELSE "shadowPut")
  /\ UNCHANGED << live, InstanceForVnodeIO, iocount, vn, orig, ref >>

\* Variant: the current original vnode is put even when it stays.
AddVnodeShadowReversePutsCurrent(t) ==
  /\ pc[t] = "shadowAdd"
  /\ old' = [old EXCEPT ![t] = InstanceForShadowToVnode[vn[t]]]
  /\ IF InstanceForShadowToVnode[vn[t]] = orig[t]
     THEN UNCHANGED << InstanceForShadowToVnode, iocount >>
     ELSE /\ InstanceForShadowToVnode' =
               [InstanceForShadowToVnode EXCEPT ![vn[t]] = orig[t]]
          /\ vnode_get(orig[t])
  /\ Goto(t, "shadowPut")
  /\ UNCHANGED << live, InstanceForVnodeIO, vn, orig, ref >>

\* addVnodeShadowReverse replaces an entry that refers to another vnode; the
\* insertion may fail, and then the replaced entry is gone all the same.
AddVnodeShadowReverse(t) ==
  /\ pc[t] = "shadowAdd"
  /\ IF InstanceForShadowToVnode[vn[t]] = orig[t]
     THEN UNCHANGED << InstanceForShadowToVnode, iocount, old >>
     ELSE /\ old' = [old EXCEPT ![t] = InstanceForShadowToVnode[vn[t]]]
          /\ \/ /\ InstanceForShadowToVnode' =
                     [InstanceForShadowToVnode EXCEPT ![vn[t]] = orig[t]]
                /\ vnode_get(orig[t])
             \/ /\ InstanceForShadowToVnode' =
                     [InstanceForShadowToVnode EXCEPT ![vn[t]] = NULLVP]
                /\ UNCHANGED iocount
  /\ Goto(t, "shadowPut")
  /\ UNCHANGED << live, InstanceForVnodeIO, vn, orig, ref >>

\* vnode_put of what was taken out of a map, if anything was.
PutOld(t) ==
  /\ pc[t] \in DOMAIN AfterPut
  /\ IF old[t] = NULLVP THEN UNCHANGED iocount ELSE vnode_put(old[t])
  /\ old' = [old EXCEPT ![t] = NULLVP]
  /\ IF AfterPut[pc[t]] = "idle"
     THEN Return(t)
     ELSE Goto(t, AfterPut[pc[t]]) /\ UNCHANGED << vn, orig >>
  /\ UNCHANGED << live, instances, ref >>

\* The reclaim hook calls the original function; the vnode is gone.
Reclaimed(t) ==
  /\ pc[t] = "reclaimed"
  /\ Return(t)
  /\ UNCHANGED << live, instances, iocount, ref, old >>

----------------------------------------------------------------------------
(* close: releaseAllVnodeIO, then releaseAllShadowReverse.                 *)

Close(t) ==
  /\ pc[t] = "idle"
  /\ Goto(t, "releaseIO")
  /\ UNCHANGED << live, instances, iocount, vn, orig, ref, old >>

\* The loops test isEmpty() without the lock.
ReleaseTestVnodeIO(t) ==
  /\ pc[t] = "releaseIO"
  /\ Goto(t, IF \E v \in Vnodes : InstanceForVnodeIO[v] # NULLVP
             THEN "popIO" ELSE "releaseShadow")
  /\ UNCHANGED << live, instances, iocount, vn, orig, ref, old >>

ReleaseTestShadowReverse(t) ==
  /\ pc[t] = "releaseShadow"
  /\ Goto(t, IF \E v \in Vnodes : InstanceForShadowToVnode[v] # NULLVP
             THEN "popShadow" ELSE "released")
  /\ UNCHANGED << live, instances, iocount, vn, orig, ref, old >>

\* removeFirstEntryAndReturnItsData: some entry, or none if all are gone.
Pop(t, map) ==
  LET keys == {v \in Vnodes : map[v] # NULLVP}
  IN  IF keys = {}
      THEN map' = map /\ UNCHANGED old
      ELSE \E v \in keys : /\ map' = [map EXCEPT ![v] = NULLVP]
                           /\ old' = [old EXCEPT ![t] = map[v]]

ReleasePopVnodeIO(t) ==
  /\ pc[t] = "popIO"
  /\ Pop(t, InstanceForVnodeIO)
  /\ Goto(t, "releasePutIO")
  /\ UNCHANGED << live, InstanceForShadowToVnode, iocount, vn, orig, ref >>

ReleasePopShadowReverse(t) ==
  /\ pc[t] = "popShadow"
  /\ Pop(t, InstanceForShadowToVnode)
  /\ Goto(t, "releasePutShadow")
  /\ UNCHANGED << live, InstanceForVnodeIO, iocount, vn, orig, ref >>

\* close goes on to unregister the client.
Closed(t) ==
  /\ pc[t] = "released"
  /\ Goto(t, "idle")
  /\ UNCHANGED << live, instances, iocount, vn, orig, ref, old >>

----------------------------------------------------------------------------
Hook(t) ==
  \/ GetVnodeIORef(t) \/ GetVnodeShadowReverseRef(t) \/ LookupBackingVnode(t)
  \/ AddVnodeIO(t) \/ PutRef(t) \/ RemoveVnodeIO(t) \/ RemoveShadowReverse(t)
  \/ AddVnodeShadowReverse(t) \/ PutOld(t) \/ Reclaimed(t)

Release(t) ==
  \/ ReleaseTestVnodeIO(t) \/ ReleaseTestShadowReverse(t)
  \/ ReleasePopVnodeIO(t) \/ ReleasePopShadowReverse(t) \/ Closed(t)

Next ==
  \/ \E v \in Vnodes : VnodeCreate(v)
  \/ \E t \in Threads :
       \/ Hook(t) \/ Release(t) \/ Close(t)
       \/ \E v \in Vnodes : VnopCall(t, v) \/ ReclaimCall(t, v)
       \/ \E p \in Shadows : ShadowCall(t, p)

Spec == Init /\ [][Next]_vars

----------------------------------------------------------------------------
(* Properties.                                                             *)

\* The iocounts of the filter on a vnode are those of the map entries that
\* refer to it, of the hooks that use it and of the puts still to be done: none
\* is lost, which would block unmount for ever, and none is dropped twice,
\* which would let a vnode in use be recycled.
IocountsAreHeld ==
  \A x \in All :
    iocount[x] = Cardinality({v \in Vnodes : InstanceForVnodeIO[v] = x})
               + Cardinality({v \in Vnodes : InstanceForShadowToVnode[v] = x})
               + Cardinality({t \in Threads : ref[t] = x})
               + Cardinality({t \in Threads : old[t] = x})

\* A reclaimed vnode is in no map when the reclaim hook returns: the vnode
\* that gets the same address next is not redirected by what it finds.
ReclaimedVnodeIsForgotten ==
  \A v \in Vnodes \ live : (\A t \in Threads : vn[t] # v) =>
    /\ InstanceForVnodeIO[v] = NULLVP
    /\ InstanceForShadowToVnode[v] = NULLVP
============================================================================
