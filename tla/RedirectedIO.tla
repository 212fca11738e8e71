---------------------------- MODULE RedirectedIO ----------------------------
(***************************************************************************)
(* The I/O hooks of VFSHooks.cpp on one shadow vnode that an application   *)
(* was handed: read, write, pagein, pageout, getattr, close and inactive.  *)
(* The shadow's own file holds nothing but zeros; its data is in a backing *)
(* file of the protected storage, to which the hooks turn.  What is mapped *)
(* is a page of the shadow's cache, which the pagein hook fills from the   *)
(* backing file and the pageout hook writes there.                         *)
(*                                                                         *)
(* A step is one call into the file system, the page cache or a map.  The  *)
(* hooks' passing through (vnodes without application data, the daemon,    *)
(* recursive calls) appears where it matters: in the storage's own vnops,  *)
(* which are hooked when the storage has the same file system.             *)
(***************************************************************************)
EXTENDS Integers

CONSTANTS
  Threads,
  NoThread,
  MaxSize,   \* bound: file sizes, in pages
  MayFail,   \* may calls into the file system and the page cache fail?
  MayDrop,   \* may the close of the client drop the association?
  CallsAfterFailure  \* bound: may a call begin when an earlier one has failed?

ASSUME ThreadAssumption == NoThread \notin Threads
ASSUME SizeAssumption == MaxSize \in Nat \ {0}
ASSUME MayAssumption ==
  MayFail \in BOOLEAN /\ MayDrop \in BOOLEAN /\ CallsAfterFailure \in BOOLEAN

Ops  == { "read", "write", "pagein", "pageout", "getattr", "close", "inactive" }
\* A storage that is hooked is of the same file system as the shadow.
Mounts == { m \in [hooked : BOOLEAN, shadowV2 : BOOLEAN, storageV2 : BOOLEAN] :
              m.hooked => m.shadowV2 = m.storageV2 }

\* The shadow's own zeros, the file's data, and what a pageout writes to the
\* backing file when the page has none of it.
Data == { "zero", "data", "blank" }

VARIABLES
  mounts,     \* is the storage's file system hooked, and which have the V2
              \* interface for pages, the shadow's and the storage's?
  vnodeIO,    \* does InstanceForVnodeIO have the backing vnode?
  back, own,  \* the data of the backing file and of the shadow's own file
  page,       \* the shadow's page: "absent" or its data
  dirty,      \* is it modified?
  busy,       \* the thread that has it in a UPL
  sizeV, sizeB,  \* sizes of the shadow and the backing file
  recursive,  \* threads that RecursionEngine knows
  pc, op,
  upl,        \* local upl, of the backing vnode
  held,       \* has the thread an iocount on the backing vnode?
  heldReal,   \* has it one on the original vnode?
  error,
  oldSize, newSize,  \* locals of QvrAdjustVnodeSizeByBackingVnode
  moved,      \* history: where the call moved its data: backing, own, none
  degraded,   \* history: has a call failed?
  shrunk      \* history: has an adjustment lowered the shadow's size?

files == << back, own, page, dirty, sizeV, sizeB >>
sizes == << oldSize, newSize >>
hist  == << moved, degraded, shrunk >>
local == << op, heldReal, sizes >>
vars  == << mounts, vnodeIO, files, busy, recursive, pc, upl, held, error, local,
            hist >>

BackingPc == { "invalidate", "resident", "fill", "fillRead", "fillAbort", "uplB", "io",
               "oldSize", "newSize", "setSize", "uplV", "uplWrite", "uplAbort",
               "push", "remove", "put", "size" }
OtherPc   == { "idle", "original", "backing", "lookup", "add", "ref", "reverse",
               "real", "sizeRef", "putReal", "return", "panic" }

TypeOK ==
  /\ mounts \in Mounts
  /\ vnodeIO \in BOOLEAN /\ dirty \in BOOLEAN
  /\ degraded \in BOOLEAN /\ shrunk \in BOOLEAN
  /\ back \in Data /\ own \in Data
  /\ page \in Data \cup {"absent"}
  /\ busy \in Threads \cup {NoThread}
  /\ sizeV \in 0..MaxSize /\ sizeB \in 0..MaxSize
  /\ recursive \in SUBSET Threads
  /\ pc \in [Threads -> BackingPc \cup OtherPc]
  /\ op \in [Threads -> Ops]
  /\ upl \in [Threads -> BOOLEAN]
  /\ held \in [Threads -> BOOLEAN]
  /\ heldReal \in [Threads -> BOOLEAN]
  /\ error \in [Threads -> {"ok", "ENODATA", "other"}]
  /\ oldSize \in [Threads -> 0..MaxSize]
  /\ newSize \in [Threads -> 0..MaxSize]
  /\ moved \in [Threads -> {"none", "backing", "own"}]

\* The create hook has associated the shadow of a file that is empty.
Init ==
  /\ mounts \in Mounts
  /\ vnodeIO = TRUE
  /\ back = "data" /\ own = "zero"
  /\ page = "absent" /\ dirty = FALSE /\ busy = NoThread
  /\ sizeV = 0 /\ sizeB = 0
  /\ recursive = {}
  /\ pc = [t \in Threads |-> "idle"]
  /\ op = [t \in Threads |-> "read"]
  /\ upl = [t \in Threads |-> FALSE]
  /\ held = [t \in Threads |-> FALSE]
  /\ heldReal = [t \in Threads |-> FALSE]
  /\ error = [t \in Threads |-> "ok"]
  /\ oldSize = [t \in Threads |-> 0]
  /\ newSize = [t \in Threads |-> 0]
  /\ moved = [t \in Threads |-> "none"]
  /\ degraded = FALSE /\ shrunk = FALSE

At(t, l)    == pc[t] = l
Goto(t, l)  == pc' = [pc EXCEPT ![t] = l]
Set(x, t, v) == [x EXCEPT ![t] = v]
Fails(t, l) == /\ MayFail
               /\ degraded' = TRUE
               /\ error' = Set(error, t, "other")
               /\ Goto(t, l)
               /\ UNCHANGED << moved, shrunk >>

EnterRecursiveCall(t) == recursive' = recursive \cup {t}
LeaveRecursiveCall(t) == recursive' = recursive \ {t}

----------------------------------------------------------------------------
(* Calls.                                                                  *)

\* Does the caller of pageout pass a UPL, ap->a_pl?
a_pl == ~mounts.shadowV2

FirstPc(o) == CASE o \in {"read", "write", "pageout"} -> "backing"
                [] o = "pagein" -> "original"
                [] o = "getattr" -> "reverse"
                [] o \in {"close", "inactive"} -> "ref"

\* A page is faulted in when it is absent and paged out when it is dirty; with
\* the V1 interface the caller has it in a UPL.
Vnop(t, o) ==
  /\ At(t, "idle") /\ (degraded => CallsAfterFailure)
  /\ o = "pagein" => page = "absent" /\ sizeV > 0
  /\ o = "inactive" => \A u \in Threads : At(u, "idle") \/ op[u] = "pageout"
  /\ IF o = "pageout"
     THEN /\ dirty /\ busy = NoThread
          /\ busy' = IF a_pl THEN t ELSE busy
     ELSE UNCHANGED busy
  /\ op' = Set(op, t, o)
  /\ Goto(t, FirstPc(o))
  /\ UNCHANGED << mounts, vnodeIO, files, recursive, upl, held, heldReal, error, sizes,
                  hist >>

\* The caller has the answer; the locals are gone.
Return(t) ==
  /\ At(t, "return")
  /\ op' = Set(op, t, "read")
  /\ upl' = Set(upl, t, FALSE)
  /\ error' = Set(error, t, "ok")
  /\ moved' = Set(moved, t, "none")
  /\ oldSize' = Set(oldSize, t, 0)
  /\ newSize' = Set(newSize, t, 0)
  /\ Goto(t, "idle")
  /\ UNCHANGED << mounts, vnodeIO, files, busy, recursive, held, heldReal, degraded,
                  shrunk >>

\* The application writes to the page it has mapped.
MappedStore ==
  /\ page # "absent" /\ busy = NoThread
  /\ page' = "data" /\ dirty' = TRUE
  /\ UNCHANGED << mounts, vnodeIO, back, own, sizeV, sizeB, busy, recursive, pc, upl,
                  held, error, local, hist >>

\* A page that is not modified may be dropped by the kernel at any time.
Evict ==
  /\ page # "absent" /\ ~dirty /\ busy = NoThread
  /\ page' = "absent"
  /\ UNCHANGED << mounts, vnodeIO, back, own, dirty, sizeV, sizeB, busy, recursive, pc,
                  upl, held, error, local, hist >>

\* The close of the client drops the association.
Drop ==
  /\ MayDrop
  /\ vnodeIO' = FALSE
  /\ UNCHANGED << mounts, files, busy, recursive, pc, upl, held, error, local, hist >>

----------------------------------------------------------------------------
(* QvrGetBackingVnodeForRedirectedIO.                                      *)

\* Variant: the page is filled only where the association is made.
WithBackingUnfilled(t) ==
  IF op[t] = "pagein" THEN "put"
  ELSE IF op[t] = "pageout" /\ ~a_pl /\ ~mounts.storageV2 THEN "uplB"
  ELSE "io"

\* What each hook does next with the backing vnode, and without one.
WithBacking(t) ==
  IF op[t] = "pagein" THEN "fill"
  ELSE IF op[t] = "pageout" /\ ~a_pl /\ ~mounts.storageV2 THEN "uplB"
  ELSE "io"
WithoutBacking(t) == IF op[t] = "pagein" THEN "return" ELSE "original"

GetVnodeIORefOr(t, l) ==
  /\ At(t, "backing")
  /\ IF vnodeIO THEN held' = Set(held, t, TRUE) /\ Goto(t, WithBacking(t))
                ELSE Goto(t, l) /\ UNCHANGED held
  /\ UNCHANGED << mounts, vnodeIO, files, busy, recursive, upl, error, local, hist >>

\* Variant: a shadow whose association was dropped has no backing file.
GetVnodeIORefOnly(t) == GetVnodeIORefOr(t, WithoutBacking(t))

GetVnodeIORef(t) == GetVnodeIORefOr(t, "lookup")

\* The path's conversion and its lookup, in a recursive section of their own.
BackingLookup(t) ==
  /\ At(t, "lookup")
  /\ \/ /\ held' = Set(held, t, TRUE)
        /\ Goto(t, "add")
        /\ UNCHANGED << degraded, moved >>
     \/ /\ MayFail
        /\ degraded' = TRUE
        /\ moved' = IF op[t] = "pagein" THEN Set(moved, t, "own") ELSE moved
        /\ Goto(t, WithoutBacking(t))
        /\ UNCHANGED held
  /\ UNCHANGED << mounts, vnodeIO, files, busy, recursive, upl, error, local, shrunk >>

AddVnodeIO(t) ==
  /\ At(t, "add")
  /\ vnodeIO' = TRUE
  /\ EnterRecursiveCall(t)
  /\ Goto(t, "invalidate")
  /\ UNCHANGED << mounts, files, busy, upl, held, error, local, hist >>

\* ubc_msync drops the page, be it dirty or not; it waits for a UPL.  It is left
\* out when the size cannot be had.
Invalidate(t) ==
  /\ At(t, "invalidate")
  /\ \/ /\ busy = NoThread
        /\ page' = "absent" /\ dirty' = FALSE
        /\ Goto(t, "resident")
        /\ UNCHANGED << recursive, hist >>
     \/ /\ MayFail /\ degraded' = TRUE
        /\ LeaveRecursiveCall(t)
        /\ Goto(t, WithBacking(t))
        /\ UNCHANGED << page, dirty, moved, shrunk >>
  /\ UNCHANGED << mounts, vnodeIO, back, own, sizeV, sizeB, busy, upl, held, error,
                  local >>

\* If another thread brought in a page since, it is overwritten.
Resident(t) ==
  /\ At(t, "resident")
  /\ IF page # "absent" THEN Goto(t, "fill") /\ UNCHANGED recursive
                        ELSE Goto(t, WithBacking(t)) /\ LeaveRecursiveCall(t)
  /\ UNCHANGED << mounts, vnodeIO, files, busy, upl, held, error, local, hist >>

----------------------------------------------------------------------------
(* QvrReadInCacheFromBackingFile, called by the pagein hook and above.     *)

FillUplOr(t, onError) ==
  /\ At(t, "fill")
  /\ \/ /\ busy = NoThread
        /\ busy' = t
        /\ Goto(t, "fillRead")
        /\ UNCHANGED << error, hist >>
     \/ onError /\ UNCHANGED busy
  /\ UNCHANGED << mounts, vnodeIO, files, recursive, upl, held, local >>

\* Variant: the error is left where it was found.
FillUplUnreported(t) ==
  FillUplOr(t, /\ MayFail /\ degraded' = TRUE
               /\ Goto(t, "fillAbort") /\ UNCHANGED << error, moved, shrunk >>)

FillUpl(t) == FillUplOr(t, Fails(t, "fillAbort"))

\* An absent page is in the UPL as well, but goes with it: it is aborted, not
\* committed.  The page may count as modified, as it is written through a mapping.
FillRead(t) ==
  /\ At(t, "fillRead")
  /\ \/ /\ IF page # "absent" THEN page' = back /\ (UNCHANGED dirty \/ dirty' = TRUE)
                              ELSE UNCHANGED << page, dirty >>
        /\ moved' = Set(moved, t, "backing")
        /\ Goto(t, "fillAbort")
        /\ UNCHANGED << error, degraded, shrunk >>
     \/ Fails(t, "fillAbort") /\ UNCHANGED << page, dirty >>
  /\ UNCHANGED << mounts, vnodeIO, back, own, sizeV, sizeB, busy, recursive, upl, held,
                  local >>

\* Within the lookup of the backing vnode the result is a local's.
FillAbort(t) ==
  /\ At(t, "fillAbort")
  /\ busy' = IF busy = t THEN NoThread ELSE busy
  /\ IF t \in recursive
     THEN /\ error' = Set(error, t, "ok")
          /\ moved' = Set(moved, t, "none")
          /\ LeaveRecursiveCall(t)
          /\ Goto(t, WithBacking(t))
     ELSE /\ Goto(t, "put")
          /\ UNCHANGED << error, moved, recursive >>
  /\ UNCHANGED << mounts, vnodeIO, files, upl, held, local, degraded, shrunk >>

----------------------------------------------------------------------------
(* The vnop of the storage's file system.                                  *)

\* Pageout needs a UPL of the backing vnode when the storage is V1 and the
\* caller is V2.
BackingUpl(t) ==
  /\ At(t, "uplB")
  /\ \/ /\ upl' = Set(upl, t, TRUE)
        /\ Goto(t, "io")
        /\ UNCHANGED << error, hist >>
     \/ Fails(t, "put") /\ UNCHANGED upl
  /\ UNCHANGED << mounts, vnodeIO, files, busy, recursive, held, local >>

\* read and write of the backing file.  A write may extend it.
BackingVnop(t) ==
  /\ At(t, "io") /\ op[t] \in {"read", "write"}
  /\ \/ /\ moved' = Set(moved, t, "backing")
        /\ IF op[t] = "write"
           THEN /\ back' = "data"
                /\ sizeB' \in (sizeB..sizeB + 1) \cap (1..MaxSize)
                /\ EnterRecursiveCall(t)
                /\ Goto(t, "oldSize")
           ELSE /\ Goto(t, "put")
                /\ UNCHANGED << back, sizeB, recursive >>
        /\ UNCHANGED << error, degraded, shrunk >>
     \/ Fails(t, "put") /\ UNCHANGED << back, sizeB, recursive >>
  /\ UNCHANGED << mounts, vnodeIO, own, page, dirty, sizeV, busy, upl, held, local >>

\* pageout: with the caller's UPL the shadow's page is written, without one
\* the file system looks at the backing vnode's pages only.  The file system
\* is done with a UPL when it returns, and a hooked one is reached through
\* this hook's own passing through, which always answers ENODATA.
PageoutAnswer == IF mounts.hooked THEN "ENODATA" ELSE "ok"
AfterPageoutAs(t, answer) ==
  IF answer = "ok" THEN error' = error /\ EnterRecursiveCall(t) /\ Goto(t, "oldSize")
  ELSE error' = Set(error, t, answer) /\ Goto(t, "put") /\ UNCHANGED recursive

BackingPageout(t) ==
  /\ At(t, "io") /\ op[t] = "pageout"
  /\ \/ /\ IF a_pl
           THEN /\ back' = page /\ dirty' = FALSE /\ busy' = NoThread
                /\ moved' = Set(moved, t, "backing")
           ELSE UNCHANGED << back, dirty, busy, moved >>
        /\ AfterPageoutAs(t, PageoutAnswer)
        /\ UNCHANGED << degraded, shrunk >>
     \/ /\ Fails(t, "put")
        /\ busy' = IF a_pl THEN NoThread ELSE busy
        /\ UNCHANGED << back, dirty, recursive >>
  /\ UNCHANGED << mounts, vnodeIO, own, page, sizeV, sizeB, upl, held, local >>

----------------------------------------------------------------------------
(* QvrAdjustVnodeSizeByBackingVnode.  Its result is ignored.               *)

AfterAdjust(t) == IF op[t] = "pageout" /\ ~a_pl THEN "uplV" ELSE "put"

OldSize(t) ==
  /\ At(t, "oldSize")
  /\ \/ /\ oldSize' = Set(oldSize, t, sizeV)
        /\ Goto(t, "newSize")
        /\ UNCHANGED << recursive, degraded >>
     \/ /\ MayFail /\ degraded' = TRUE
        /\ LeaveRecursiveCall(t)
        /\ Goto(t, AfterAdjust(t))
        /\ UNCHANGED oldSize
  /\ UNCHANGED << mounts, vnodeIO, files, busy, upl, held, error, op, heldReal,
                  newSize, moved, shrunk >>

NewSize(t) ==
  /\ At(t, "newSize")
  /\ \/ /\ newSize' = Set(newSize, t, sizeB)
        /\ Goto(t, "setSize")
        /\ UNCHANGED << recursive, degraded >>
     \/ /\ MayFail /\ degraded' = TRUE
        /\ LeaveRecursiveCall(t)
        /\ Goto(t, AfterAdjust(t))
        /\ UNCHANGED newSize
  /\ UNCHANGED << mounts, vnodeIO, files, busy, upl, held, error, op, heldReal,
                  oldSize, moved, shrunk >>

SetSizeIf(t, grows, newer) ==
  /\ At(t, "setSize")
  /\ \/ /\ sizeV' = IF grows THEN newer ELSE sizeV
        /\ shrunk' = (shrunk \/ sizeV' < sizeV)
        /\ UNCHANGED degraded
     \/ /\ MayFail /\ degraded' = TRUE /\ UNCHANGED << sizeV, shrunk >>
  /\ LeaveRecursiveCall(t)
  /\ Goto(t, AfterAdjust(t))
  /\ UNCHANGED << mounts, vnodeIO, back, own, page, dirty, sizeB, busy, upl, held,
                  error, local, moved >>

\* Variant: the comparison the other way round.
SetSizeReversed(t) == SetSizeIf(t, newSize[t] < oldSize[t], newSize[t])

\* Variant: the difference is added to a size that others may have set since.
SetSizeAdded(t) == SetSizeIf(t, newSize[t] > oldSize[t], sizeV + newSize[t] - oldSize[t])

SetSize(t) == SetSizeIf(t, newSize[t] > oldSize[t], newSize[t])

----------------------------------------------------------------------------
(* The V2 pageout: the shadow's pages are mapped and written.              *)

\* Without a UPL the abort is of none at all when upl is there.
UplAllPages(t) ==
  /\ At(t, "uplV")
  /\ \/ /\ busy = NoThread
        /\ busy' = t
        /\ Goto(t, "uplWrite")
        /\ UNCHANGED << error, hist >>
     \/ Fails(t, IF upl[t] THEN "panic" ELSE "put") /\ UNCHANGED busy
  /\ UNCHANGED << mounts, vnodeIO, files, recursive, upl, held, local >>

\* The UPL has all pages of the range, also those that are absent or have the
\* zeros a pagein is about to overwrite.
UplWrite(t) ==
  /\ At(t, "uplWrite")
  /\ \/ /\ back' = IF page \in {"absent", "zero"} THEN "blank" ELSE page
        /\ moved' = Set(moved, t, "backing")
        /\ Goto(t, "uplAbort")
        /\ UNCHANGED << error, degraded, shrunk >>
     \/ Fails(t, "uplAbort") /\ UNCHANGED back
  /\ UNCHANGED << mounts, vnodeIO, own, page, dirty, sizeV, sizeB, busy, recursive, upl,
                  held, local >>

\* The test is of upl, which the V2 storage does not need.
UplAbortIf(t, made) ==
  /\ At(t, "uplAbort")
  /\ busy' = IF made THEN NoThread ELSE busy
  /\ Goto(t, "put")
  /\ UNCHANGED << mounts, vnodeIO, files, recursive, upl, held, error, local, hist >>

\* Variant: the UPL is left to a file system that will not commit it.
UplAbortNever(t) == UplAbortIf(t, FALSE)

UplAbort(t) == UplAbortIf(t, upl[t])

----------------------------------------------------------------------------
(* The original function, and returning.                                   *)

\* read, write and pageout without a backing vnode, and pagein always first,
\* which waits for a page that is absent but in a UPL.
\* The pageout hook ignores the original's result.
Original(t) ==
  /\ At(t, "original")
  /\ \/ /\ IF op[t] = "pagein"
           THEN /\ page # "absent" \/ busy = NoThread
                /\ page' = IF page = "absent" THEN own ELSE page
                /\ Goto(t, "backing")
                /\ UNCHANGED << own, dirty, busy, error, moved >>
           ELSE /\ own' = CASE op[t] = "write" -> "data"
                            [] op[t] = "pageout" /\ page # "absent" -> page
                            [] OTHER -> own
                /\ IF op[t] = "pageout"
                   THEN /\ dirty' = FALSE
                        /\ busy' = IF a_pl THEN NoThread ELSE busy
                        /\ error' = Set(error, t, "ENODATA")
                   ELSE UNCHANGED << dirty, busy, error >>
                /\ moved' = Set(moved, t, "own")
                /\ Goto(t, "return")
                /\ UNCHANGED page
        /\ UNCHANGED << degraded, shrunk >>
     \/ /\ Fails(t, "return")
        /\ busy' = IF busy = t THEN NoThread ELSE busy
        /\ UNCHANGED << own, page, dirty >>
  /\ UNCHANGED << mounts, vnodeIO, back, sizeV, sizeB, recursive, upl, held, local >>

\* vnode_put of the backing vnode, and the call returns; getattr has the
\* original vnode to put as well.
PutAs(t, kept) ==
  /\ At(t, "put")
  /\ held' = Set(held, t, kept)
  /\ IF op[t] = "getattr"
     THEN Goto(t, "putReal") /\ LeaveRecursiveCall(t)
     ELSE Goto(t, "return") /\ UNCHANGED recursive
  /\ UNCHANGED << mounts, vnodeIO, files, busy, upl, error, local, hist >>

\* Variant: the backing vnode is kept.
PutForgotten(t) == PutAs(t, TRUE)

Put(t) == PutAs(t, FALSE)

----------------------------------------------------------------------------
(* close and inactive.                                                     *)

Ref(t) ==
  /\ At(t, "ref")
  /\ IF vnodeIO THEN held' = Set(held, t, TRUE) /\ Goto(t, "push")
                ELSE Goto(t, "return") /\ UNCHANGED held
  /\ UNCHANGED << mounts, vnodeIO, files, busy, recursive, upl, error, local, hist >>

\* cluster_push, and for inactive vnode_recycle, of the backing vnode.
Push(t) ==
  /\ At(t, "push")
  /\ Goto(t, IF op[t] = "inactive" THEN "remove" ELSE "put")
  /\ UNCHANGED << mounts, vnodeIO, files, busy, recursive, upl, held, error, local,
                  hist >>

RemoveVnodeIO(t) ==
  /\ At(t, "remove")
  /\ vnodeIO' = FALSE
  /\ Goto(t, "put")
  /\ UNCHANGED << mounts, files, busy, recursive, upl, held, error, local,
                  hist >>

----------------------------------------------------------------------------
(* getattr: the attributes are the original's, the size the backing file's.*)

\* A shadow may have lost its original to a rename or the close of the client.
GetVnodeShadowReverseRef(t) ==
  /\ At(t, "reverse")
  /\ \/ /\ heldReal' = Set(heldReal, t, TRUE)
        /\ EnterRecursiveCall(t)
        /\ Goto(t, "real")
     \/ Goto(t, "return") /\ UNCHANGED << heldReal, recursive >>
  /\ UNCHANGED << mounts, vnodeIO, files, busy, upl, held, error, op, sizes, hist >>

\* The original's own getattr.
RealGetattr(t) ==
  /\ At(t, "real")
  /\ \/ Goto(t, "sizeRef") /\ UNCHANGED << error, hist, recursive >>
     \/ Fails(t, "putReal") /\ LeaveRecursiveCall(t)
  /\ UNCHANGED << mounts, vnodeIO, files, busy, upl, held, local >>

SizeRef(t) ==
  /\ At(t, "sizeRef")
  /\ IF vnodeIO THEN /\ held' = Set(held, t, TRUE)
                     /\ Goto(t, "size")
                     /\ UNCHANGED recursive
                ELSE /\ LeaveRecursiveCall(t)
                     /\ Goto(t, "putReal")
                     /\ UNCHANGED held
  /\ UNCHANGED << mounts, vnodeIO, files, busy, upl, error, local, hist >>

\* A failure leaves the original's sizes.
GetSize(t) ==
  /\ At(t, "size")
  /\ UNCHANGED degraded \/ (MayFail /\ degraded' = TRUE)
  /\ Goto(t, "put")
  /\ UNCHANGED << mounts, vnodeIO, files, busy, recursive, upl, held, error, local,
                  moved, shrunk >>

PutReal(t) ==
  /\ At(t, "putReal")
  /\ heldReal' = Set(heldReal, t, FALSE)
  /\ Goto(t, "return")
  /\ UNCHANGED << mounts, vnodeIO, files, busy, recursive, upl, held, error, op,
                  sizes, hist >>

----------------------------------------------------------------------------

Step(t) ==
  \/ GetVnodeIORef(t) \/ BackingLookup(t) \/ AddVnodeIO(t) \/ Invalidate(t)
  \/ Resident(t) \/ FillUpl(t) \/ FillRead(t) \/ FillAbort(t)
  \/ BackingUpl(t) \/ BackingVnop(t) \/ BackingPageout(t)
  \/ OldSize(t) \/ NewSize(t) \/ SetSize(t)
  \/ UplAllPages(t) \/ UplWrite(t) \/ UplAbort(t)
  \/ Original(t) \/ Put(t) \/ Ref(t) \/ Push(t) \/ RemoveVnodeIO(t)
  \/ GetVnodeShadowReverseRef(t) \/ RealGetattr(t) \/ SizeRef(t) \/ GetSize(t)
  \/ PutReal(t) \/ Return(t)

Next == \/ \E t \in Threads : Step(t) \/ \E o \in Ops : Vnop(t, o)
        \/ MappedStore \/ Evict \/ Drop

Spec == Init /\ [][Next]_vars

----------------------------------------------------------------------------
(* Properties.                                                             *)

\* While every call succeeds, what an application writes, by itself or through
\* a mapping, never reaches the shadow's own file, which lies next to the
\* original, outside the protected storage.
DataStaysInStorage == ~degraded => own = "zero"

\* The pagein hook lets the original function bring in the shadow's zeros
\* and overwrites them.  While every call succeeds, a page holds zeros only
\* as long as a thread that is to overwrite it has not returned.
ZerosAreOverwritten ==
  page = "zero" /\ ~degraded =>
    \E t \in Threads :
      /\ op[t] = "pagein"
      /\ pc[t] \in {"backing", "lookup", "add", "invalidate", "resident", "fill",
                    "fillRead"}

\* A thread that works on the backing vnode holds it, be the association
\* dropped or not; a call that returned has put it, and the original.
BackingIsHeld ==
  \A t \in Threads :
    /\ pc[t] \in BackingPc => held[t]
    /\ At(t, "return") => ~held[t] /\ ~heldReal[t] /\ t \notin recursive

\* With no failure, and when no write is under way, the shadow is as long as
\* its backing file, so that all of it can be mapped; except after two
\* adjustments of its size overlapped and the second lowered it.
SizeCoversBacking ==
  ~degraded /\ ~shrunk
  /\ (\A t \in Threads : pc[t] \notin {"oldSize", "newSize", "setSize"})
    => sizeV >= sizeB

\* No call answers success that moved no data to or from a file: an error on
\* one of the ways through the page cache is not lost.
SuccessMeansMoved ==
  \A t \in Threads :
    At(t, "return") /\ error[t] = "ok" /\ op[t] \in {"read", "write", "pagein", "pageout"}
      => moved[t] # "none"

\* No page stays in a UPL when the call that made it has returned; except a
\* pageout through the V2 interface to a V2 storage that is not hooked.
UplsAreReleased ==
  busy # NoThread /\ At(busy, "return") => mounts.storageV2 /\ ~mounts.hooked

\* A pageout stores the page in the backing file ("write in data to the backing
\* vnode") unless something failed.
PageoutStores ==
  \A t \in Threads :
    At(t, "return") /\ op[t] = "pageout" /\ ~degraded => moved[t] = "backing"
=============================================================================
