----------------------------- MODULE VNodeHook -----------------------------
(***************************************************************************)
(* Hooking of the FSDs' vnode operation vectors (VNodeHook.cpp/.h), driven *)
(* by the KAuth vnode listener (Kauth.cpp) and undone by the reclaim hook  *)
(* (VFSHooks.cpp).                                                         *)
(*                                                                         *)
(* All vnodes of one file system share one v_op vector.  The first vnode   *)
(* the listener sees gets the vector hooked: a QvrVnodeHookEntry that      *)
(* keeps the original functions is put in a hash table keyed by the        *)
(* vector, then the slots of the vector are overwritten one by one while   *)
(* other threads dispatch through it without any lock.  The hash is under  *)
(* a reader/writer lock, the entry's counter is atomic, its life time is a *)
(* reference count.  A shared section reads the hash once and updates one  *)
(* atomic counter: it is one step, enabled while there is no writer.  An   *)
(* exclusive section is several steps, one per slot written.               *)
(***************************************************************************)
EXTENDS Integers, FiniteSets, Sequences

CONSTANTS
  Threads,   \* kernel threads
  Vnodes,    \* vnode addresses (an address is reused after a reclaim)
  Regular,   \* the vnodes of type VREG, the others are VDIR
  Parent,    \* Parent[v] is v_parent of v, or NoVnode
  Vops,      \* v_op vectors
  VopOf,     \* the v_op vector of each vnode
  Entries,   \* addresses of QvrVnodeHookEntry objects, reused when freed
  Ops,       \* the slots kept of gQvrVnodeVopHookEntries
  MaxCount,  \* bound: no KAuth call starts that could push a counter past it
  NoThread, NoVnode, NoEntry

\* The hook array, in the order in which the loops walk it.
gQvrVnodeVopHookEntries ==
  << "reclaim", "read", "open", "write", "pagein", "pageout", "lookup",
     "create", "close", "inactive", "rename", "exchange", "getattr" >>

Precedes(p, o) ==
  \E i, j \in DOMAIN gQvrVnodeVopHookEntries :
     /\ i < j
     /\ gQvrVnodeVopHookEntries[i] = p
     /\ gQvrVnodeVopHookEntries[j] = o

ASSUME SetAssumption ==
  /\ Regular \subseteq Vnodes
  /\ Parent \in [Vnodes -> Vnodes \cup {NoVnode}]
  /\ VopOf \in [Vnodes -> Vops]
  /\ "reclaim" \in Ops
  /\ \A o \in Ops : \E i \in DOMAIN gQvrVnodeVopHookEntries :
                       gQvrVnodeVopHookEntries[i] = o

ASSUME NoneAssumption ==
  /\ NoThread \notin Threads
  /\ NoVnode \notin Vnodes
  /\ NoEntry \notin Entries

ASSUME MaxCountAssumption == MaxCount \in Nat

ASSUME FiniteAssumption == IsFiniteSet(Threads) /\ IsFiniteSet(Vops)

VARIABLES
  vstate,    \* life of a vnode: "live", "dying" (in vclean) or "dead"
  slots,     \* slots[w][o]: the function that slot o of vector w holds
  hash,      \* sVnodeHooksHashTable: vector -> entry
  writer,    \* exclusive owner of the hash table's RWLock
  done,      \* slots the writer's walk over the hook array has passed
  refs,      \* reference count of each entry, 0 when it is freed
  counter,   \* QvrVnodeHookEntry::vNodeCounter
  origVop,   \* QvrVnodeHookEntry::origVop
  marked,    \* VNodeMap::InstanceForHookedVnodes
  pc,        \* what each thread does
  vn,        \* the vnode argument of the thread's call
  target,    \* vn or its parent, the one being (un)hooked
  existing,  \* local existingEntry
  newEntry,  \* local newEntry
  op,        \* the operation whose hook function the thread runs
  original   \* what QvrGetOriginalVnodeOp returned to that function

kernel == << vstate, slots >>
table  == << hash, writer, done >>
entry  == << refs, counter, origVop >>
call   == << vn, op, original >>
local  == << target, existing, newEntry >>
vars   == << kernel, table, entry, marked, pc, call, local >>

\* Contents of a vector slot or of an origVop element: no pointer, the
\* file system's own function, or the filter's hook.
VOPFUNC == { "NULL", "fsd", "hook" }

HookPc   == { "hookCheck", "hookFound", "hookNew", "hookLock", "hookSlots",
              "hookFinish", "hookFailed" }
OrigPc   == { "orig1", "orig2", "origEntry", "callOrig" }
UnhookPc == { "unhookCheck", "unhookFind", "unhookDec", "unhookLock",
              "unhookSlots", "unhookFinish" }

TypeOK ==
  /\ vstate \in [Vnodes -> {"live", "dying", "dead"}]
  /\ slots \in [Vops -> [Ops -> VOPFUNC]]
  /\ hash \in [Vops -> Entries \cup {NoEntry}]
  /\ writer \in Threads \cup {NoThread}
  /\ done \in SUBSET Ops
  /\ refs \in [Entries -> Nat]
  /\ counter \in [Entries -> Int]
  /\ origVop \in [Entries -> [Ops -> VOPFUNC]]
  /\ marked \in SUBSET Vnodes
  /\ pc \in [Threads -> {"idle"} \cup HookPc \cup OrigPc \cup UnhookPc]
  /\ vn \in [Threads -> Vnodes \cup {NoVnode}]
  /\ target \in [Threads -> Vnodes \cup {NoVnode}]
  /\ existing \in [Threads -> Entries \cup {NoEntry}]
  /\ newEntry \in [Threads -> Entries \cup {NoEntry}]
  /\ op \in [Threads -> Ops]
  /\ original \in [Threads -> VOPFUNC]

Init ==
  /\ vstate = [v \in Vnodes |-> "dead"]
  /\ slots = [w \in Vops |-> [o \in Ops |-> "fsd"]]
  /\ hash = [w \in Vops |-> NoEntry]
  /\ writer = NoThread
  /\ done = {}
  /\ refs = [e \in Entries |-> 0]
  /\ counter = [e \in Entries |-> 0]
  /\ origVop = [e \in Entries |-> [o \in Ops |-> "NULL"]]
  /\ marked = {}
  /\ pc = [t \in Threads |-> "idle"]
  /\ vn = [t \in Threads |-> NoVnode]
  /\ target = [t \in Threads |-> NoVnode]
  /\ existing = [t \in Threads |-> NoEntry]
  /\ newEntry = [t \in Threads |-> NoEntry]
  /\ op = [t \in Threads |-> "reclaim"]
  /\ original = [t \in Threads |-> "NULL"]

----------------------------------------------------------------------------
(* Helpers.                                                                *)

Goto(t, l) == pc' = [pc EXCEPT ![t] = l]

\* OSObject::retain and release: the object is freed when refs reaches 0.
Retain(e)  == refs' = [refs EXCEPT ![e] = @ + 1]
Release(e) == refs' = [refs EXCEPT ![e] = @ - 1]

\* QvrGetVnodeOpVector of the vnode the thread works on.
Vop(t) == VopOf[target[t]]

\* Slot o is where the writer's walk over the hook array stands.
LoopAt(o) ==
  /\ o \in Ops \ done
  /\ \A p \in Ops : Precedes(p, o) => p \in done

\* No thread holds an iocount on v, directly or through a child's call.
Drained(v) == \A t \in Threads : vn[t] # v /\ target[t] # v

\* vnode_getparent() returns a parent that is still to be processed.
ParentIsNext(t) ==
  /\ target[t] = vn[t]
  /\ Parent[vn[t]] # NoVnode
  /\ vstate[Parent[vn[t]]] = "live"

Idle(t) ==
  /\ Goto(t, "idle")
  /\ vn' = [vn EXCEPT ![t] = NoVnode]
  /\ target' = [target EXCEPT ![t] = NoVnode]

\* QvrHookVnodeVopAndParent: go on to the parent, or return to the listener.
HookReturn(t) ==
  IF ParentIsNext(t)
  THEN /\ target' = [target EXCEPT ![t] = Parent[vn[t]]]
       /\ Goto(t, "hookCheck")
       /\ UNCHANGED vn
  ELSE Idle(t)

\* QvrUnHookVnodeVopAndParent: go on to the parent, or return to the hook.
UnhookReturn(t) ==
  IF ParentIsNext(t)
  THEN /\ target' = [target EXCEPT ![t] = Parent[vn[t]]]
       /\ Goto(t, "unhookCheck")
  ELSE /\ target' = [target EXCEPT ![t] = vn[t]]
       /\ Goto(t, "callOrig")

----------------------------------------------------------------------------
(* The kernel around the filter.                                           *)

\* A vnode is created at a free address.
VnodeCreate(v) ==
  /\ vstate[v] = "dead"
  /\ Parent[v] # NoVnode => vstate[Parent[v]] = "live"
  /\ \A c \in Vnodes : Parent[c] = v => vstate[c] = "dead"
  /\ vstate' = [vstate EXCEPT ![v] = "live"]
  /\ UNCHANGED << slots, table, entry, marked, pc, call, local >>

\* The vnode is marked VL_TERMINATE; vclean waits for its iocounts to drain.
VnodeTerminate(v) ==
  /\ vstate[v] = "live"
  /\ vstate' = [vstate EXCEPT ![v] = "dying"]
  /\ UNCHANGED << slots, table, entry, marked, pc, call, local >>

\* A thread calls operation o of vnode v through its vector; when the slot
\* holds the hook, the hook first asks for the original function.
VnopCall(t, v, o) ==
  /\ pc[t] = "idle"
  /\ IF o = "reclaim" THEN vstate[v] = "dying" /\ Drained(v)
                      ELSE vstate[v] = "live"
  /\ slots[VopOf[v]][o] = "hook"
  /\ Goto(t, "orig1")
  /\ vn' = [vn EXCEPT ![t] = v]
  /\ target' = [target EXCEPT ![t] = v]
  /\ op' = [op EXCEPT ![t] = o]
  /\ UNCHANGED << kernel, table, entry, marked, original, existing, newEntry >>

\* VNOP_RECLAIM through a slot that is not hooked: the filter sees nothing.
ReclaimMissed(v) ==
  /\ vstate[v] = "dying"
  /\ Drained(v)
  /\ slots[VopOf[v]]["reclaim"] = "fsd"
  /\ vstate' = [vstate EXCEPT ![v] = "dead"]
  /\ UNCHANGED << slots, table, entry, marked, pc, call, local >>

\* The hook calls the original function and returns.
CallOriginal(t) ==
  /\ pc[t] = "callOrig"
  /\ vstate' = IF op[t] = "reclaim" THEN [vstate EXCEPT ![vn[t]] = "dead"]
                                    ELSE vstate
  /\ op' = [op EXCEPT ![t] = "reclaim"]
  /\ original' = [original EXCEPT ![t] = "NULL"]
  /\ Idle(t)
  /\ UNCHANGED << slots, table, entry, marked, existing, newEntry >>

----------------------------------------------------------------------------
(* QvrGetOriginalVnodeOp.                                                  *)

\* First shared section: a referenced entry, or none.
GetOriginalLookup(t) ==
  /\ pc[t] = "orig1"
  /\ writer = NoThread
  /\ IF hash[Vop(t)] # NoEntry
     THEN /\ existing' = [existing EXCEPT ![t] = hash[Vop(t)]]
          /\ Retain(hash[Vop(t)])
          /\ Goto(t, "origEntry")
     ELSE /\ Goto(t, "orig2")
          /\ UNCHANGED << existing, refs >>
  /\ UNCHANGED << kernel, table, counter, origVop, marked, call, target,
                  newEntry >>

\* The vector was unhooked meanwhile.  Second shared section: the entry of a
\* vector hooked again, or the current contents of the slot.
GetOriginalRecheck(t) ==
  /\ pc[t] = "orig2"
  /\ writer = NoThread
  /\ IF hash[Vop(t)] # NoEntry
     THEN /\ existing' = [existing EXCEPT ![t] = hash[Vop(t)]]
          /\ Retain(hash[Vop(t)])
          /\ Goto(t, "origEntry")
          /\ UNCHANGED original
     ELSE /\ original' = [original EXCEPT ![t] = slots[Vop(t)][op[t]]]
          /\ Goto(t, IF op[t] = "reclaim" THEN "unhookCheck" ELSE "callOrig")
          /\ UNCHANGED << existing, refs >>
  /\ UNCHANGED << kernel, table, counter, origVop, marked, vn, op, target,
                  newEntry >>

\* getOrignalVop and release of the entry, with no lock held.
GetOriginalFromEntry(t) ==
  /\ pc[t] = "origEntry"
  /\ original' = [original EXCEPT ![t] = origVop[existing[t]][op[t]]]
  /\ Release(existing[t])
  /\ existing' = [existing EXCEPT ![t] = NoEntry]
  /\ Goto(t, IF op[t] = "reclaim" THEN "unhookCheck" ELSE "callOrig")
  /\ UNCHANGED << kernel, table, counter, origVop, marked, vn, op, target,
                  newEntry >>

----------------------------------------------------------------------------
(* QvrHookVnodeVop, called for the vnode and then for its parent.          *)

\* The KAuth listener of a protected application's access to a live vnode.
\* (For other applications the listener changes nothing.)
VnodeAuthorizeCallback(t, v) ==
  /\ pc[t] = "idle"
  /\ vstate[v] = "live"
  /\ \A e \in Entries : counter[e] + Cardinality(Threads) =< MaxCount
  /\ Goto(t, "hookCheck")
  /\ vn' = [vn EXCEPT ![t] = v]
  /\ target' = [target EXCEPT ![t] = v]
  /\ UNCHANGED << kernel, table, entry, marked, op, original, existing,
                  newEntry >>

\* A recycled vnode is refused, one that is not VREG is not hooked.
HookSkip(t) ==
  /\ pc[t] = "hookCheck"
  /\ vstate[target[t]] = "dying" \/ target[t] \notin Regular
  /\ HookReturn(t)
  /\ UNCHANGED << kernel, table, entry, marked, op, original, existing,
                  newEntry >>

\* Shared section: count one more vnode on the vector's entry, if it has one.
HookLookup(t) ==
  /\ pc[t] = "hookCheck"
  /\ vstate[target[t]] # "dying" /\ target[t] \in Regular
  /\ writer = NoThread
  /\ IF hash[Vop(t)] # NoEntry
     THEN /\ existing' = [existing EXCEPT ![t] = hash[Vop(t)]]
          /\ Retain(hash[Vop(t)])
          /\ counter' = [counter EXCEPT ![hash[Vop(t)]] = @ + 1]
          /\ Goto(t, "hookFound")
     ELSE /\ Goto(t, "hookNew")
          /\ UNCHANGED << existing, refs, counter >>
  /\ UNCHANGED << kernel, table, origVop, marked, call, target, newEntry >>

\* Already hooked: success, and the vnode is not added to the hooked vnodes.
HookFound(t) ==
  /\ pc[t] = "hookFound"
  /\ Release(existing[t])
  /\ existing' = [existing EXCEPT ![t] = NoEntry]
  /\ HookReturn(t)
  /\ UNCHANGED << kernel, table, counter, origVop, marked, op, original,
                  newEntry >>

\* newEntry() with no lock held.
HookAllocate(t) ==
  /\ pc[t] = "hookNew"
  /\ \E e \in Entries :
       /\ refs[e] = 0
       /\ refs' = [refs EXCEPT ![e] = 1]
       /\ counter' = [counter EXCEPT ![e] = 0]
       /\ origVop' = [origVop EXCEPT ![e] = [o \in Ops |-> "NULL"]]
       /\ newEntry' = [newEntry EXCEPT ![t] = e]
  /\ Goto(t, "hookLock")
  /\ UNCHANGED << kernel, table, marked, call, target, existing >>

\* newEntry() returned NULL: kIOReturnNoMemory.
HookNoMemory(t) ==
  /\ pc[t] = "hookNew"
  /\ HookReturn(t)
  /\ UNCHANGED << kernel, table, entry, marked, op, original, existing,
                  newEntry >>

\* Exclusive section, the vector was hooked since the shared section.
HookLockExisting(t) ==
  /\ pc[t] = "hookLock"
  /\ writer = NoThread
  /\ hash[Vop(t)] # NoEntry
  /\ counter' = [counter EXCEPT ![hash[Vop(t)]] = @ + 1]
  /\ Goto(t, "hookFinish")
  /\ UNCHANGED << kernel, table, refs, origVop, marked, call, local >>

\* Variant: the hash is not looked up again in the exclusive section.
HookLockAddEntryNoRecheck(t) ==
  /\ pc[t] = "hookLock"
  /\ writer = NoThread
  /\ writer' = t
  /\ done' = {}
  /\ hash' = [hash EXCEPT ![Vop(t)] = newEntry[t]]
  /\ Retain(newEntry[t])
  /\ counter' = [counter EXCEPT ![newEntry[t]] = @ + 1]
  /\ Goto(t, "hookSlots")
  /\ UNCHANGED << kernel, origVop, marked, call, local >>

\* Exclusive section, AddEntry before any slot is written.
HookLockAddEntry(t) ==
  /\ pc[t] = "hookLock"
  /\ writer = NoThread
  /\ hash[Vop(t)] = NoEntry
  /\ writer' = t
  /\ done' = {}
  /\ hash' = [hash EXCEPT ![Vop(t)] = newEntry[t]]
  /\ Retain(newEntry[t])
  /\ counter' = [counter EXCEPT ![newEntry[t]] = @ + 1]
  /\ Goto(t, "hookSlots")
  /\ UNCHANGED << kernel, origVop, marked, call, local >>

\* Exclusive section, AddEntry failed.
HookLockAddFails(t) ==
  /\ pc[t] = "hookLock"
  /\ writer = NoThread
  /\ hash[Vop(t)] = NoEntry
  /\ Goto(t, "hookFailed")
  /\ UNCHANGED << kernel, table, entry, marked, call, local >>

\* Save the original of the next slot, then overwrite the slot.
HookSlot(t) ==
  /\ pc[t] = "hookSlots"
  /\ \E o \in Ops :
       /\ LoopAt(o)
       /\ origVop' = [origVop EXCEPT ![newEntry[t]][o] = slots[Vop(t)][o]]
       /\ slots' = [slots EXCEPT ![Vop(t)][o] = "hook"]
       /\ done' = done \cup {o}
  /\ UNCHANGED << vstate, hash, writer, refs, counter, marked, pc, call,
                  local >>

\* Variant: the walk over the hook array stops early.
HookUnlockEarly(t) ==
  /\ pc[t] = "hookSlots"
  /\ done # {}
  /\ writer' = NoThread
  /\ done' = {}
  /\ Goto(t, "hookFinish")
  /\ UNCHANGED << kernel, hash, entry, marked, call, local >>

\* Variant: an exit from the exclusive section that keeps the lock.
HookUnlockForgotten(t) ==
  /\ pc[t] = "hookSlots"
  /\ done = Ops
  /\ done' = {}
  /\ Goto(t, "hookFinish")
  /\ UNCHANGED << kernel, hash, writer, entry, marked, call, local >>

HookUnlock(t) ==
  /\ pc[t] = "hookSlots"
  /\ done = Ops
  /\ writer' = NoThread
  /\ done' = {}
  /\ Goto(t, "hookFinish")
  /\ UNCHANGED << kernel, hash, entry, marked, call, local >>

\* After the unlock: drop the local reference, then addHookedVnode, whose
\* allocation may fail unnoticed.
HookFinish(t) ==
  /\ pc[t] = "hookFinish"
  /\ Release(newEntry[t])
  /\ newEntry' = [newEntry EXCEPT ![t] = NoEntry]
  /\ marked' \in { marked \cup {target[t]}, marked }
  /\ HookReturn(t)
  /\ UNCHANGED << kernel, table, counter, origVop, op, original, existing >>

\* The same for kIOReturnNoMemory, which adds no vnode.
HookFailed(t) ==
  /\ pc[t] = "hookFailed"
  /\ Release(newEntry[t])
  /\ newEntry' = [newEntry EXCEPT ![t] = NoEntry]
  /\ HookReturn(t)
  /\ UNCHANGED << kernel, table, counter, origVop, marked, op, original,
                  existing >>

----------------------------------------------------------------------------
(* QvrUnHookVnodeVop, called by the reclaim hook for the vnode and then    *)
(* for its parent.                                                         *)

\* Vnodes that were not hooked are skipped.
UnhookCheck(t) ==
  /\ pc[t] = "unhookCheck"
  /\ IF target[t] \in Regular \cap marked
     THEN Goto(t, "unhookFind") /\ UNCHANGED target
     ELSE UnhookReturn(t)
  /\ UNCHANGED << kernel, table, entry, marked, call, existing, newEntry >>

\* Shared section: a referenced entry, if the vector still has one.
UnhookLookup(t) ==
  /\ pc[t] = "unhookFind"
  /\ writer = NoThread
  /\ IF hash[Vop(t)] # NoEntry
     THEN /\ existing' = [existing EXCEPT ![t] = hash[Vop(t)]]
          /\ Retain(hash[Vop(t)])
          /\ Goto(t, "unhookDec")
          /\ UNCHANGED target
     ELSE /\ UnhookReturn(t)
          /\ UNCHANGED << existing, refs >>
  /\ UNCHANGED << kernel, table, counter, origVop, marked, call, newEntry >>

\* removeHookedVnode and the atomic decrement, with no lock held; only the
\* thread that took the counter from 1 goes on to unhook the vector.
UnhookDecrement(t) ==
  /\ pc[t] = "unhookDec"
  /\ marked' = marked \ {target[t]}
  /\ counter' = [counter EXCEPT ![existing[t]] = @ - 1]
  /\ IF counter[existing[t]] = 1
     THEN Goto(t, "unhookLock") /\ UNCHANGED << target, existing, refs >>
     ELSE /\ Release(existing[t])
          /\ existing' = [existing EXCEPT ![t] = NoEntry]
          /\ UnhookReturn(t)
  /\ UNCHANGED << kernel, table, origVop, call, newEntry >>

\* Variant: the entry is released here and again at __exit.
UnhookLockBusyReleases(t) ==
  /\ pc[t] = "unhookLock"
  /\ writer = NoThread
  /\ counter[existing[t]] # 0
  /\ Release(existing[t])
  /\ Goto(t, "unhookFinish")
  /\ UNCHANGED << kernel, table, counter, origVop, marked, call, local >>

\* Exclusive section, the counter was incremented meanwhile.
UnhookLockBusy(t) ==
  /\ pc[t] = "unhookLock"
  /\ writer = NoThread
  /\ counter[existing[t]] # 0
  /\ Goto(t, "unhookFinish")
  /\ UNCHANGED << kernel, table, entry, marked, call, local >>

\* Variant: the reference from RetrieveEntry is leaked.
UnhookLockGoneLeaks(t) ==
  /\ pc[t] = "unhookLock"
  /\ writer = NoThread
  /\ counter[existing[t]] = 0
  /\ hash[Vop(t)] = NoEntry
  /\ existing' = [existing EXCEPT ![t] = NoEntry]
  /\ UnhookReturn(t)
  /\ UNCHANGED << kernel, table, entry, marked, call, newEntry >>

\* Exclusive section, another thread has already removed the entry.
UnhookLockGone(t) ==
  /\ pc[t] = "unhookLock"
  /\ writer = NoThread
  /\ counter[existing[t]] = 0
  /\ hash[Vop(t)] = NoEntry
  /\ Release(existing[t])
  /\ existing' = [existing EXCEPT ![t] = NoEntry]
  /\ UnhookReturn(t)
  /\ UNCHANGED << kernel, table, counter, origVop, marked, call, newEntry >>

\* Exclusive section: RemoveEntry(v_op), by key, hands over the reference the
\* hash held on whatever entry the vector has now.
UnhookLockRemove(t) ==
  /\ pc[t] = "unhookLock"
  /\ writer = NoThread
  /\ counter[existing[t]] = 0
  /\ hash[Vop(t)] # NoEntry
  /\ writer' = t
  /\ done' = {}
  /\ Release(existing[t])
  /\ existing' = [existing EXCEPT ![t] = hash[Vop(t)]]
  /\ hash' = [hash EXCEPT ![Vop(t)] = NoEntry]
  /\ Goto(t, "unhookSlots")
  /\ UNCHANGED << kernel, counter, origVop, marked, call, target, newEntry >>

\* Restore the next slot from the removed entry.
UnhookSlot(t) ==
  /\ pc[t] = "unhookSlots"
  /\ \E o \in Ops :
       /\ LoopAt(o)
       /\ slots' = [slots EXCEPT ![Vop(t)][o] = origVop[existing[t]][o]]
       /\ done' = done \cup {o}
  /\ UNCHANGED << vstate, hash, writer, entry, marked, pc, call, local >>

UnhookUnlock(t) ==
  /\ pc[t] = "unhookSlots"
  /\ done = Ops
  /\ writer' = NoThread
  /\ done' = {}
  /\ Goto(t, "unhookFinish")
  /\ UNCHANGED << kernel, hash, entry, marked, call, local >>

\* Release the entry that RetrieveEntry or RemoveEntry returned.
UnhookFinish(t) ==
  /\ pc[t] = "unhookFinish"
  /\ Release(existing[t])
  /\ existing' = [existing EXCEPT ![t] = NoEntry]
  /\ UnhookReturn(t)
  /\ UNCHANGED << kernel, table, counter, origVop, marked, call, newEntry >>

----------------------------------------------------------------------------
GetOriginal(t) ==
  GetOriginalLookup(t) \/ GetOriginalRecheck(t) \/ GetOriginalFromEntry(t)

HookVnodeVop(t) ==
  \/ HookSkip(t) \/ HookLookup(t) \/ HookFound(t) \/ HookAllocate(t)
  \/ HookNoMemory(t) \/ HookLockExisting(t) \/ HookLockAddEntry(t)
  \/ HookLockAddFails(t) \/ HookSlot(t) \/ HookUnlock(t) \/ HookFinish(t)
  \/ HookFailed(t)

UnhookVnodeVop(t) ==
  \/ UnhookCheck(t) \/ UnhookLookup(t) \/ UnhookDecrement(t)
  \/ UnhookLockBusy(t) \/ UnhookLockGone(t) \/ UnhookLockRemove(t)
  \/ UnhookSlot(t) \/ UnhookUnlock(t) \/ UnhookFinish(t)

\* The steps of a call in progress.
Step(t) ==
  GetOriginal(t) \/ HookVnodeVop(t) \/ UnhookVnodeVop(t) \/ CallOriginal(t)

Kernel ==
  \E v \in Vnodes : VnodeCreate(v) \/ VnodeTerminate(v) \/ ReclaimMissed(v)

NewCall(t) ==
  \E v \in Vnodes : \/ VnodeAuthorizeCallback(t, v)
                    \/ \E o \in Ops : VnopCall(t, v, o)

Next == Kernel \/ \E t \in Threads : NewCall(t) \/ Step(t)

Spec == Init /\ [][Next]_vars

----------------------------------------------------------------------------
(* Properties.                                                             *)

\* A hook function that asks for the original operation is given the file
\* system's function: never a hook (the hook would call itself for ever) and
\* never NULL (an element of origVop not yet saved), however hooking,
\* unhooking and hooking again of the vector interleave with the call
\* (QvrGetOriginalVnodeOp).
OriginalIsFsdFunction ==
  \A t \in Threads :
     pc[t] = "callOrig" \/ pc[t] \in UnhookPc => original[t] = "fsd"

\* Outside of an exclusive section a vector is hooked in all its slots and
\* has an entry in the hash, or is hooked in none and has no entry.
HashMirrorsVector ==
  writer = NoThread =>
    \A w \in Vops :
      \/ hash[w] # NoEntry /\ \A o \in Ops : slots[w][o] = "hook"
      \/ hash[w] = NoEntry /\ \A o \in Ops : slots[w][o] = "fsd"

\* The reference count of an entry is the number of the pointers to it held
\* by the hash and by the functions that run: no pointer is to a freed entry,
\* and no entry is left allocated when the last pointer goes.
RefsCountHolders ==
  \A e \in Entries :
    refs[e] = Cardinality({w \in Vops : hash[w] = e})
              + Cardinality({t \in Threads : existing[t] = e})
              + Cardinality({t \in Threads : newEntry[t] = e})

\* The lock is held exclusively exactly while a thread walks the slots: no
\* return, goto or failure of QvrHookVnodeVop and QvrUnHookVnodeVop keeps it,
\* and nobody walks without it.
LockHeldWhileWalking ==
  /\ writer # NoThread => pc[writer] \in {"hookSlots", "unhookSlots"}
  /\ \A t \in Threads : pc[t] \in {"hookSlots", "unhookSlots"} => writer = t

\* The assertion in QvrUnHookVnodeVop on the entry that RemoveEntry returned:
\* nobody counts on an entry that is removed.
RemovedEntryIsUnused ==
  [][\A t \in Threads :
       pc[t] = "unhookLock" /\ pc'[t] = "unhookSlots"
         => counter[existing'[t]] = 0]_vars
============================================================================
