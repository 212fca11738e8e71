------------------------- MODULE RedirectedIOProofs -------------------------
(***************************************************************************)
(* Proofs about RedirectedIO.                                              *)
(***************************************************************************)
EXTENDS RedirectedIO, TLAPS

\* The type invariant in two parts: the flags, and all else.
FlagInv == /\ vnodeIO \in BOOLEAN /\ dirty \in BOOLEAN
           /\ degraded \in BOOLEAN /\ shrunk \in BOOLEAN

ValueInv ==
  /\ mounts \in Mounts
  /\ back \in Data /\ own \in Data
  /\ page \in Data \cup {"absent"}
  /\ busy \in Threads \cup {NoThread}
  /\ sizeV \in 0..MaxSize /\ sizeB \in 0..MaxSize
  /\ recursive \in SUBSET Threads
  /\ pc \in [Threads -> BackingPc \cup OtherPc]
  /\ op \in [Threads -> Ops]
  /\ upl \in [Threads -> BOOLEAN]
  /\ held \in [Threads -> BOOLEAN]
  /\ heldReal \in [Threads -> BOOLEAN]
  /\ error \in [Threads -> {"ok", "ENODATA", "other"}]
  /\ oldSize \in [Threads -> 0..MaxSize]
  /\ newSize \in [Threads -> 0..MaxSize]
  /\ moved \in [Threads -> {"none", "backing", "own"}]

\* getattr is about to put the backing vnode and then the original.
PutsBoth(t) == At(t, "put") /\ op[t] = "getattr"

ReverseHeld == { "real", "sizeRef", "size", "putReal" }
Sections    == { "invalidate", "resident", "fill", "fillRead", "fillAbort", "oldSize",
                 "newSize", "setSize", "real", "sizeRef", "size" }

\* What a thread holds where, and in which recursive sections it is.
HoldInv ==
  \A t \in Threads :
    /\ held[t] <=> pc[t] \in BackingPc \cup {"add", "panic"}
    /\ heldReal[t] <=> pc[t] \in ReverseHeld \/ PutsBoth(t)
    /\ t \in recursive => pc[t] \in Sections \/ PutsBoth(t)
    /\ pc[t] \in {"invalidate", "resident"} => t \in recursive
    /\ pc[t] \in {"fill", "fillRead", "fillAbort"} /\ t \notin recursive =>
         op[t] = "pagein"

\* Where the calls of each hook may be.
OpInv ==
  \A t \in Threads :
    /\ op[t] = "getattr" =>
         pc[t] \in ReverseHeld \cup {"idle", "reverse", "put", "return"}
    /\ pc[t] \in ReverseHeld \cup {"reverse"} => op[t] = "getattr"
    /\ op[t] \in {"close", "inactive"} =>
         pc[t] \in {"idle", "ref", "push", "remove", "put", "return"}
    /\ pc[t] \in {"ref", "push", "remove"} => op[t] \in {"close", "inactive"}
    /\ At(t, "io") => op[t] \in {"read", "write", "pageout"}
    /\ pc[t] \in {"oldSize", "newSize", "setSize"} => op[t] \in {"write", "pageout"}

\* The page that the caller of a V1 pageout has in a UPL, and one that a hook has.
UplInv ==
  /\ page = "absent" => ~dirty
  /\ page = "zero" /\ ~degraded => ~dirty
  /\ \A t \in Threads :
       /\ op[t] = "pageout" /\ a_pl /\ pc[t] \notin {"idle", "put", "return"} =>
            /\ pc[t] \notin {"resident", "fill", "fillRead", "fillAbort", "uplB"}
            /\ pc[t] \in {"backing", "lookup", "add", "invalidate", "io", "original"} =>
                 busy = t /\ dirty
       /\ pc[t] \in {"fillRead", "uplWrite", "uplAbort"} => busy = t
       /\ pc[t] \in {"uplB", "uplV", "uplWrite", "uplAbort"} => op[t] = "pageout" /\ ~a_pl
       /\ op[t] = "pageout" /\ pc[t] \in {"oldSize", "newSize", "setSize", "uplV",
                                          "uplWrite", "uplAbort"} => ~mounts.hooked
       /\ op[t] = "pageout" /\ ~a_pl
          /\ pc[t] \in {"io", "oldSize", "newSize", "setSize", "uplV", "uplWrite",
                        "uplAbort"} => upl[t] \/ mounts.storageV2
       /\ busy = t =>
            \/ pc[t] \in {"fillRead", "fillAbort", "uplWrite", "uplAbort"}
            \/ op[t] = "pageout" /\ a_pl
               /\ pc[t] \in {"backing", "lookup", "add", "invalidate", "io", "original"}
            \/ mounts.storageV2 /\ ~mounts.hooked

\* Data reaches the shadow's own file only after a failure, and the backing
\* file never has a pagein's zeros before one.
DataInv ==
  /\ ~degraded => own = "zero" /\ back # "zero"
  /\ \A t \in Threads :
       At(t, "original") /\ op[t] \in {"write", "pageout"} => degraded
  /\ ZerosAreOverwritten

\* A call without an error has moved its data from the place on where it does.
MovedInv ==
  \A t \in Threads : op[t] \in {"read", "write", "pagein", "pageout"} /\ error[t] = "ok" =>
    /\ pc[t] \in {"put", "return", "uplAbort"} => moved[t] # "none"
    /\ At(t, "fillAbort") /\ t \notin recursive => moved[t] # "none"
    /\ pc[t] \in {"oldSize", "newSize", "setSize"} /\ ~(op[t] = "pageout" /\ ~a_pl) =>
         moved[t] # "none"

\* The longer backing file is seen by an adjustment that is still under way.
SizeInv ==
  ~degraded /\ ~shrunk =>
    /\ \A t \in Threads : pc[t] \in {"newSize", "setSize"} => oldSize[t] =< sizeV
    /\ sizeV < sizeB =>
         \E t \in Threads : \/ pc[t] \in {"oldSize", "newSize"}
                            \/ At(t, "setSize") /\ newSize[t] = sizeB

IInv == TypeOK /\ HoldInv /\ OpInv /\ UplInv /\ DataInv /\ MovedInv /\ SizeInv

----------------------------------------------------------------------------
USE DEF At, Goto, Set, Fails, EnterRecursiveCall, LeaveRecursiveCall, files, sizes,
        hist, local, vars, PutsBoth, ReverseHeld, Sections, BackingPc, OtherPc, a_pl

\* The initial states satisfy the invariant.
LEMMA InitIInv ==
  ASSUME Init
  PROVE  IInv
<1> USE ThreadAssumption, SizeAssumption DEF Init, Mounts
<1>1. TypeOK
  <2>1. /\ vnodeIO \in BOOLEAN /\ dirty \in BOOLEAN
        /\ degraded \in BOOLEAN /\ shrunk \in BOOLEAN
    BY Zenon
  <2>2. QED
    BY <2>1 DEF TypeOK, Ops, Data
<1>2. HoldInv /\ OpInv /\ UplInv /\ DataInv /\ MovedInv /\ SizeInv
  BY DEF HoldInv, OpInv, UplInv, DataInv, MovedInv, SizeInv, ZerosAreOverwritten
<1>3. QED
  BY <1>1, <1>2 DEF IInv

\* The types of the data and sizes are kept.
LEMMA ValueStep ==
  ASSUME IInv, Next \/ UNCHANGED vars
  PROVE  ValueInv'
<1> USE ThreadAssumption, SizeAssumption, MayAssumption
    DEF IInv, TypeOK, ValueInv, Ops, Data
<1>1. ASSUME NEW t \in Threads, GetVnodeIORef(t) \/ BackingLookup(t) \/ AddVnodeIO(t)
      PROVE  ValueInv'
  <2>1. CASE GetVnodeIORef(t)
    <3>1. \E l \in {"put", "uplB", "io", "fill", "lookup"} : pc' = [pc EXCEPT ![t] = l]
      BY <2>1 DEF GetVnodeIORef, GetVnodeIORefOr, WithBacking
    <3>2. held' \in [Threads -> BOOLEAN]
      BY <2>1 DEF GetVnodeIORef, GetVnodeIORefOr
    <3>3. pc' \in [Threads -> BackingPc \cup OtherPc]
      BY <3>1
    <3>4. QED
      BY <2>1, <3>2, <3>3 DEF GetVnodeIORef, GetVnodeIORefOr
  <2>2. CASE BackingLookup(t)
    BY <2>2, ZenonT(60) DEF BackingLookup, WithoutBacking
  <2>3. CASE AddVnodeIO(t)
    BY <2>3 DEF AddVnodeIO
  <2>4. QED
    BY <1>1, <2>1, <2>2, <2>3
<1>2. ASSUME NEW t \in Threads, Invalidate(t) \/ Resident(t)
      PROVE  ValueInv'
  <2>1. CASE Invalidate(t)
    BY <2>1 DEF Invalidate, WithBacking
  <2>2. CASE Resident(t)
    BY <2>2 DEF Resident, WithBacking
  <2>3. QED
    BY <1>2, <2>1, <2>2
<1>3. ASSUME NEW t \in Threads, FillUpl(t) \/ FillRead(t) \/ FillAbort(t)
      PROVE  ValueInv'
  <2>1. CASE FillUpl(t)
    BY <2>1 DEF FillUpl, FillUplOr
  <2>2. CASE FillRead(t)
    BY <2>2 DEF FillRead
  <2>3. CASE FillAbort(t)
    BY <2>3 DEF FillAbort, WithBacking
  <2>4. QED
    BY <1>3, <2>1, <2>2, <2>3
<1>4. ASSUME NEW t \in Threads, BackingUpl(t) \/ BackingVnop(t)
      PROVE  ValueInv'
  <2>1. CASE BackingUpl(t)
    BY <2>1, ZenonT(60) DEF BackingUpl
  <2>2. CASE BackingVnop(t)
    BY <2>2 DEF BackingVnop
  <2>3. QED
    BY <1>4, <2>1, <2>2
<1>5. ASSUME NEW t \in Threads, BackingPageout(t)
      PROVE  ValueInv'
  BY <1>5 DEF BackingPageout, AfterPageoutAs, PageoutAnswer, UplInv
<1>6. ASSUME NEW t \in Threads, OldSize(t) \/ NewSize(t) \/ SetSize(t)
      PROVE  ValueInv'
  <2>1. CASE OldSize(t)
    BY <2>1 DEF OldSize, AfterAdjust
  <2>2. CASE NewSize(t)
    BY <2>2 DEF NewSize, AfterAdjust
  <2>3. CASE SetSize(t)
    BY <2>3 DEF SetSize, SetSizeIf, AfterAdjust
  <2>4. QED
    BY <1>6, <2>1, <2>2, <2>3
<1>7. ASSUME NEW t \in Threads, UplAllPages(t) \/ UplWrite(t) \/ UplAbort(t)
      PROVE  ValueInv'
  <2>1. CASE UplAllPages(t)
    BY <2>1 DEF UplAllPages
  <2>2. CASE UplWrite(t)
    BY <2>2 DEF UplWrite
  <2>3. CASE UplAbort(t)
    BY <2>3 DEF UplAbort, UplAbortIf
  <2>4. QED
    BY <1>7, <2>1, <2>2, <2>3
<1>8. ASSUME NEW t \in Threads, Original(t)
      PROVE  ValueInv'
  BY <1>8 DEF Original
<1>9. ASSUME NEW t \in Threads,
               Put(t) \/ Ref(t) \/ Push(t) \/
               RemoveVnodeIO(t)
      PROVE  ValueInv'
  <2>1. CASE Put(t)
    BY <2>1 DEF Put, PutAs
  <2>2. CASE Ref(t)
    BY <2>2, ZenonT(60) DEF Ref
  <2>3. CASE Push(t)
    BY <2>3 DEF Push
  <2>4. CASE RemoveVnodeIO(t)
    BY <2>4 DEF RemoveVnodeIO
  <2>5. QED
    BY <1>9, <2>1, <2>2, <2>3, <2>4
<1>10. ASSUME NEW t \in Threads,
               GetVnodeShadowReverseRef(t) \/ RealGetattr(t) \/ SizeRef(t) \/
               GetSize(t) \/ PutReal(t)
      PROVE  ValueInv'
  <2>1. CASE GetVnodeShadowReverseRef(t)
    BY <2>1, ZenonT(60) DEF GetVnodeShadowReverseRef
  <2>2. CASE RealGetattr(t)
    BY <2>2 DEF RealGetattr
  <2>3. CASE SizeRef(t)
    BY <2>3, ZenonT(60) DEF SizeRef
  <2>4. CASE GetSize(t)
    BY <2>4 DEF GetSize
  <2>5. CASE PutReal(t)
    BY <2>5 DEF PutReal
  <2>6. QED
    BY <1>10, <2>1, <2>2, <2>3, <2>4, <2>5
<1>11. ASSUME NEW t \in Threads, Return(t)
      PROVE  ValueInv'
  BY <1>11 DEF Return
<1>12. ASSUME NEW t \in Threads, NEW o \in Ops, Vnop(t, o)
      PROVE  ValueInv'
  BY <1>12 DEF Vnop, FirstPc, Ops
<1>13. CASE MappedStore \/ Evict \/ Drop \/ UNCHANGED vars
  BY <1>13 DEF MappedStore, Evict, Drop
<1>14. QED
  BY <1>1, <1>2, <1>3, <1>4, <1>5, <1>6, <1>7, <1>8, <1>9, <1>10, <1>11, <1>12,
     <1>13 DEF Next, Step

\* The types of the flags are kept.
LEMMA FlagStep ==
  ASSUME IInv, Next \/ UNCHANGED vars
  PROVE  FlagInv'
<1> USE ThreadAssumption, SizeAssumption, MayAssumption, Zenon
    DEF IInv, TypeOK, FlagInv
<1>1. ASSUME NEW t \in Threads, GetVnodeIORef(t) \/ BackingLookup(t) \/ AddVnodeIO(t)
      PROVE  FlagInv'
  <2>1. CASE GetVnodeIORef(t)
    BY <2>1 DEF GetVnodeIORef, GetVnodeIORefOr, WithBacking
  <2>2. CASE BackingLookup(t)
    BY <2>2 DEF BackingLookup, WithoutBacking
  <2>3. CASE AddVnodeIO(t)
    BY <2>3 DEF AddVnodeIO
  <2>4. QED
    BY <1>1, <2>1, <2>2, <2>3
<1>2. ASSUME NEW t \in Threads, Invalidate(t) \/ Resident(t)
      PROVE  FlagInv'
  <2>1. CASE Invalidate(t)
    BY <2>1 DEF Invalidate, WithBacking
  <2>2. CASE Resident(t)
    BY <2>2 DEF Resident, WithBacking
  <2>3. QED
    BY <1>2, <2>1, <2>2
<1>3. ASSUME NEW t \in Threads, FillUpl(t) \/ FillRead(t) \/ FillAbort(t)
      PROVE  FlagInv'
  <2>1. CASE FillUpl(t)
    BY <2>1 DEF FillUpl, FillUplOr
  <2>2. CASE FillRead(t)
    BY <2>2 DEF FillRead
  <2>3. CASE FillAbort(t)
    BY <2>3 DEF FillAbort, WithBacking
  <2>4. QED
    BY <1>3, <2>1, <2>2, <2>3
<1>4. ASSUME NEW t \in Threads, BackingUpl(t) \/ BackingVnop(t)
      PROVE  FlagInv'
  <2>1. CASE BackingUpl(t)
    BY <2>1 DEF BackingUpl
  <2>2. CASE BackingVnop(t)
    BY <2>2 DEF BackingVnop
  <2>3. QED
    BY <1>4, <2>1, <2>2
<1>5. ASSUME NEW t \in Threads, BackingPageout(t)
      PROVE  FlagInv'
  BY <1>5 DEF BackingPageout, AfterPageoutAs, PageoutAnswer
<1>6. ASSUME NEW t \in Threads, OldSize(t) \/ NewSize(t) \/ SetSize(t)
      PROVE  FlagInv'
  <2>1. CASE OldSize(t)
    BY <2>1 DEF OldSize, AfterAdjust
  <2>2. CASE NewSize(t)
    BY <2>2 DEF NewSize, AfterAdjust
  <2>3. CASE SetSize(t)
    BY <2>3 DEF SetSize, SetSizeIf, AfterAdjust
  <2>4. QED
    BY <1>6, <2>1, <2>2, <2>3
<1>7. ASSUME NEW t \in Threads, UplAllPages(t) \/ UplWrite(t) \/ UplAbort(t)
      PROVE  FlagInv'
  <2>1. CASE UplAllPages(t)
    BY <2>1 DEF UplAllPages
  <2>2. CASE UplWrite(t)
    BY <2>2 DEF UplWrite
  <2>3. CASE UplAbort(t)
    BY <2>3 DEF UplAbort, UplAbortIf
  <2>4. QED
    BY <1>7, <2>1, <2>2, <2>3
<1>8. ASSUME NEW t \in Threads, Original(t)
      PROVE  FlagInv'
  BY <1>8 DEF Original
<1>9. ASSUME NEW t \in Threads,
               Put(t) \/ Ref(t) \/ Push(t) \/
               RemoveVnodeIO(t)
      PROVE  FlagInv'
  <2>1. CASE Put(t)
    BY <2>1 DEF Put, PutAs
  <2>2. CASE Ref(t)
    BY <2>2 DEF Ref
  <2>3. CASE Push(t)
    BY <2>3 DEF Push
  <2>4. CASE RemoveVnodeIO(t)
    BY <2>4 DEF RemoveVnodeIO
  <2>5. QED
    BY <1>9, <2>1, <2>2, <2>3, <2>4
<1>10. ASSUME NEW t \in Threads,
               GetVnodeShadowReverseRef(t) \/ RealGetattr(t) \/ SizeRef(t) \/
               GetSize(t) \/ PutReal(t)
      PROVE  FlagInv'
  <2>1. CASE GetVnodeShadowReverseRef(t)
    BY <2>1 DEF GetVnodeShadowReverseRef
  <2>2. CASE RealGetattr(t)
    BY <2>2 DEF RealGetattr
  <2>3. CASE SizeRef(t)
    BY <2>3 DEF SizeRef
  <2>4. CASE GetSize(t)
    BY <2>4 DEF GetSize
  <2>5. CASE PutReal(t)
    BY <2>5 DEF PutReal
  <2>6. QED
    BY <1>10, <2>1, <2>2, <2>3, <2>4, <2>5
<1>11. ASSUME NEW t \in Threads, Return(t)
      PROVE  FlagInv'
  BY <1>11 DEF Return
<1>12. ASSUME NEW t \in Threads, NEW o \in Ops, Vnop(t, o)
      PROVE  FlagInv'
  BY <1>12 DEF Vnop, FirstPc, Ops
<1>13. CASE MappedStore \/ Evict \/ Drop \/ UNCHANGED vars
  BY <1>13 DEF MappedStore, Evict, Drop
<1>14. QED
  BY <1>1, <1>2, <1>3, <1>4, <1>5, <1>6, <1>7, <1>8, <1>9, <1>10, <1>11, <1>12,
     <1>13 DEF Next, Step

\* HoldInv is kept.
LEMMA HoldStep ==
  ASSUME IInv, Next \/ UNCHANGED vars
  PROVE  HoldInv'
<1> USE ThreadAssumption, SizeAssumption, MayAssumption
    DEF IInv, TypeOK, HoldInv, OpInv
<1>1. ASSUME NEW t \in Threads, GetVnodeIORef(t) \/ BackingLookup(t) \/ AddVnodeIO(t)
      PROVE  HoldInv'
  <2>1. CASE GetVnodeIORef(t)
    BY <2>1 DEF GetVnodeIORef, GetVnodeIORefOr, WithBacking
  <2>2. CASE BackingLookup(t)
    BY <2>2 DEF BackingLookup, WithoutBacking
  <2>3. CASE AddVnodeIO(t)
    BY <2>3 DEF AddVnodeIO
  <2>4. QED
    BY <1>1, <2>1, <2>2, <2>3
<1>2. ASSUME NEW t \in Threads, Invalidate(t) \/ Resident(t)
      PROVE  HoldInv'
  <2>1. CASE Invalidate(t)
    BY <2>1 DEF Invalidate, WithBacking
  <2>2. CASE Resident(t)
    BY <2>2 DEF Resident, WithBacking
  <2>3. QED
    BY <1>2, <2>1, <2>2
<1>3. ASSUME NEW t \in Threads, FillUpl(t) \/ FillRead(t) \/ FillAbort(t)
      PROVE  HoldInv'
  <2>1. CASE FillUpl(t)
    BY <2>1 DEF FillUpl, FillUplOr
  <2>2. CASE FillRead(t)
    BY <2>2 DEF FillRead
  <2>3. CASE FillAbort(t)
    BY <2>3 DEF FillAbort, WithBacking
  <2>4. QED
    BY <1>3, <2>1, <2>2, <2>3
<1>4. ASSUME NEW t \in Threads, BackingUpl(t) \/ BackingVnop(t)
      PROVE  HoldInv'
  <2>1. CASE BackingUpl(t)
    BY <2>1 DEF BackingUpl
  <2>2. CASE BackingVnop(t)
    BY <2>2 DEF BackingVnop
  <2>3. QED
    BY <1>4, <2>1, <2>2
<1>5. ASSUME NEW t \in Threads, BackingPageout(t)
      PROVE  HoldInv'
  BY <1>5 DEF BackingPageout, AfterPageoutAs, PageoutAnswer
<1>6. ASSUME NEW t \in Threads, OldSize(t) \/ NewSize(t) \/ SetSize(t)
      PROVE  HoldInv'
  <2>1. CASE OldSize(t)
    BY <2>1 DEF OldSize, AfterAdjust
  <2>2. CASE NewSize(t)
    BY <2>2 DEF NewSize, AfterAdjust
  <2>3. CASE SetSize(t)
    BY <2>3 DEF SetSize, SetSizeIf, AfterAdjust
  <2>4. QED
    BY <1>6, <2>1, <2>2, <2>3
<1>7. ASSUME NEW t \in Threads, UplAllPages(t) \/ UplWrite(t) \/ UplAbort(t)
      PROVE  HoldInv'
  <2>1. CASE UplAllPages(t)
    BY <2>1 DEF UplAllPages
  <2>2. CASE UplWrite(t)
    BY <2>2 DEF UplWrite
  <2>3. CASE UplAbort(t)
    BY <2>3 DEF UplAbort, UplAbortIf
  <2>4. QED
    BY <1>7, <2>1, <2>2, <2>3
<1>8. ASSUME NEW t \in Threads, Original(t)
      PROVE  HoldInv'
  BY <1>8 DEF Original
<1>9. ASSUME NEW t \in Threads,
               Put(t) \/ Ref(t) \/ Push(t) \/
               RemoveVnodeIO(t)
      PROVE  HoldInv'
  <2>1. CASE Put(t)
    BY <2>1 DEF Put, PutAs
  <2>2. CASE Ref(t)
    BY <2>2 DEF Ref
  <2>3. CASE Push(t)
    BY <2>3 DEF Push
  <2>4. CASE RemoveVnodeIO(t)
    BY <2>4 DEF RemoveVnodeIO
  <2>5. QED
    BY <1>9, <2>1, <2>2, <2>3, <2>4
<1>10. ASSUME NEW t \in Threads,
               GetVnodeShadowReverseRef(t) \/ RealGetattr(t) \/ SizeRef(t) \/
               GetSize(t) \/ PutReal(t)
      PROVE  HoldInv'
  <2>1. CASE GetVnodeShadowReverseRef(t)
    BY <2>1 DEF GetVnodeShadowReverseRef
  <2>2. CASE RealGetattr(t)
    BY <2>2 DEF RealGetattr
  <2>3. CASE SizeRef(t)
    BY <2>3 DEF SizeRef
  <2>4. CASE GetSize(t)
    BY <2>4 DEF GetSize
  <2>5. CASE PutReal(t)
    BY <2>5 DEF PutReal
  <2>6. QED
    BY <1>10, <2>1, <2>2, <2>3, <2>4, <2>5
<1>11. ASSUME NEW t \in Threads, Return(t)
      PROVE  HoldInv'
  BY <1>11 DEF Return
<1>12. ASSUME NEW t \in Threads, NEW o \in Ops, Vnop(t, o)
      PROVE  HoldInv'
  BY <1>12 DEF Vnop, FirstPc, Ops
<1>13. CASE MappedStore \/ Evict \/ Drop \/ UNCHANGED vars
  BY <1>13 DEF MappedStore, Evict, Drop
<1>14. QED
  BY <1>1, <1>2, <1>3, <1>4, <1>5, <1>6, <1>7, <1>8, <1>9, <1>10, <1>11, <1>12,
     <1>13 DEF Next, Step

\* OpInv is kept.
LEMMA OpStep ==
  ASSUME IInv, Next \/ UNCHANGED vars
  PROVE  OpInv'
<1> USE ThreadAssumption, SizeAssumption, MayAssumption
    DEF IInv, TypeOK, HoldInv, OpInv, UplInv, Ops
<1>1. ASSUME NEW t \in Threads, GetVnodeIORef(t) \/ BackingLookup(t) \/ AddVnodeIO(t)
      PROVE  OpInv'
  <2>1. CASE GetVnodeIORef(t)
    BY <2>1 DEF GetVnodeIORef, GetVnodeIORefOr, WithBacking
  <2>2. CASE BackingLookup(t)
    BY <2>2 DEF BackingLookup, WithoutBacking
  <2>3. CASE AddVnodeIO(t)
    BY <2>3 DEF AddVnodeIO
  <2>4. QED
    BY <1>1, <2>1, <2>2, <2>3
<1>2. ASSUME NEW t \in Threads, Invalidate(t) \/ Resident(t)
      PROVE  OpInv'
  <2>1. CASE Invalidate(t)
    BY <2>1 DEF Invalidate, WithBacking
  <2>2. CASE Resident(t)
    BY <2>2 DEF Resident, WithBacking
  <2>3. QED
    BY <1>2, <2>1, <2>2
<1>3. ASSUME NEW t \in Threads, FillUpl(t) \/ FillRead(t) \/ FillAbort(t)
      PROVE  OpInv'
  <2>1. CASE FillUpl(t)
    BY <2>1 DEF FillUpl, FillUplOr
  <2>2. CASE FillRead(t)
    BY <2>2 DEF FillRead
  <2>3. CASE FillAbort(t)
    BY <2>3 DEF FillAbort, WithBacking
  <2>4. QED
    BY <1>3, <2>1, <2>2, <2>3
<1>4. ASSUME NEW t \in Threads, BackingUpl(t) \/ BackingVnop(t)
      PROVE  OpInv'
  <2>1. CASE BackingUpl(t)
    BY <2>1 DEF BackingUpl
  <2>2. CASE BackingVnop(t)
    BY <2>2 DEF BackingVnop
  <2>3. QED
    BY <1>4, <2>1, <2>2
<1>5. ASSUME NEW t \in Threads, BackingPageout(t)
      PROVE  OpInv'
  BY <1>5 DEF BackingPageout, AfterPageoutAs, PageoutAnswer
<1>6. ASSUME NEW t \in Threads, OldSize(t) \/ NewSize(t) \/ SetSize(t)
      PROVE  OpInv'
  <2>1. CASE OldSize(t)
    BY <2>1 DEF OldSize, AfterAdjust
  <2>2. CASE NewSize(t)
    BY <2>2 DEF NewSize, AfterAdjust
  <2>3. CASE SetSize(t)
    BY <2>3 DEF SetSize, SetSizeIf, AfterAdjust
  <2>4. QED
    BY <1>6, <2>1, <2>2, <2>3
<1>7. ASSUME NEW t \in Threads, UplAllPages(t) \/ UplWrite(t) \/ UplAbort(t)
      PROVE  OpInv'
  <2>1. CASE UplAllPages(t)
    BY <2>1 DEF UplAllPages
  <2>2. CASE UplWrite(t)
    BY <2>2 DEF UplWrite
  <2>3. CASE UplAbort(t)
    BY <2>3 DEF UplAbort, UplAbortIf
  <2>4. QED
    BY <1>7, <2>1, <2>2, <2>3
<1>8. ASSUME NEW t \in Threads, Original(t)
      PROVE  OpInv'
  BY <1>8 DEF Original
<1>9. ASSUME NEW t \in Threads,
               Put(t) \/ Ref(t) \/ Push(t) \/
               RemoveVnodeIO(t)
      PROVE  OpInv'
  <2>1. CASE Put(t)
    BY <2>1 DEF Put, PutAs
  <2>2. CASE Ref(t)
    BY <2>2 DEF Ref
  <2>3. CASE Push(t)
    BY <2>3 DEF Push
  <2>4. CASE RemoveVnodeIO(t)
    BY <2>4 DEF RemoveVnodeIO
  <2>5. QED
    BY <1>9, <2>1, <2>2, <2>3, <2>4
<1>10. ASSUME NEW t \in Threads,
               GetVnodeShadowReverseRef(t) \/ RealGetattr(t) \/ SizeRef(t) \/
               GetSize(t) \/ PutReal(t)
      PROVE  OpInv'
  <2>1. CASE GetVnodeShadowReverseRef(t)
    BY <2>1 DEF GetVnodeShadowReverseRef
  <2>2. CASE RealGetattr(t)
    BY <2>2 DEF RealGetattr
  <2>3. CASE SizeRef(t)
    BY <2>3 DEF SizeRef
  <2>4. CASE GetSize(t)
    BY <2>4 DEF GetSize
  <2>5. CASE PutReal(t)
    BY <2>5 DEF PutReal
  <2>6. QED
    BY <1>10, <2>1, <2>2, <2>3, <2>4, <2>5
<1>11. ASSUME NEW t \in Threads, Return(t)
      PROVE  OpInv'
  BY <1>11 DEF Return
<1>12. ASSUME NEW t \in Threads, NEW o \in Ops, Vnop(t, o)
      PROVE  OpInv'
  BY <1>12 DEF Vnop, FirstPc, Ops
<1>13. CASE MappedStore \/ Evict \/ Drop \/ UNCHANGED vars
  BY <1>13 DEF MappedStore, Evict, Drop
<1>14. QED
  BY <1>1, <1>2, <1>3, <1>4, <1>5, <1>6, <1>7, <1>8, <1>9, <1>10, <1>11, <1>12,
     <1>13 DEF Next, Step

\* UplInv is kept.
LEMMA UplStep ==
  ASSUME IInv, Next \/ UNCHANGED vars
  PROVE  UplInv'
<1> USE ThreadAssumption, SizeAssumption, MayAssumption
    DEF IInv, TypeOK, HoldInv, OpInv, UplInv, DataInv, Mounts
<1>1. ASSUME NEW t \in Threads, GetVnodeIORef(t) \/ BackingLookup(t) \/ AddVnodeIO(t)
      PROVE  UplInv'
  <2>1. CASE GetVnodeIORef(t)
    BY <2>1 DEF GetVnodeIORef, GetVnodeIORefOr, WithBacking
  <2>2. CASE BackingLookup(t)
    BY <2>2 DEF BackingLookup, WithoutBacking
  <2>3. CASE AddVnodeIO(t)
    BY <2>3 DEF AddVnodeIO
  <2>4. QED
    BY <1>1, <2>1, <2>2, <2>3
<1>2. ASSUME NEW t \in Threads, Invalidate(t) \/ Resident(t)
      PROVE  UplInv'
  <2>1. CASE Invalidate(t)
    BY <2>1 DEF Invalidate, WithBacking
  <2>2. CASE Resident(t)
    BY <2>2 DEF Resident, WithBacking
  <2>3. QED
    BY <1>2, <2>1, <2>2
<1>3. ASSUME NEW t \in Threads, FillUpl(t) \/ FillRead(t) \/ FillAbort(t)
      PROVE  UplInv'
  <2>1. CASE FillUpl(t)
    BY <2>1 DEF FillUpl, FillUplOr
  <2>2. CASE FillRead(t)
    <3>1. \/ UNCHANGED << page, dirty, degraded >>
          \/ UNCHANGED << page, dirty >> /\ degraded'
          \/ UNCHANGED degraded /\ page # "absent" /\ page' = back
      BY <2>2 DEF FillRead
    <3>2. page' = "absent" => ~dirty'
      BY <2>2 DEF FillRead, Data
    <3>3. page' = "zero" /\ ~degraded' => ~dirty'
      BY <3>1
    <3>4. dirty => dirty'
      BY <2>2 DEF FillRead
    <3>5. /\ UNCHANGED << mounts, op, upl, busy >>
          /\ pc[t] = "fillRead" /\ pc' = [pc EXCEPT ![t] = "fillAbort"]
      BY <2>2 DEF FillRead
    <3>6. QED
      BY <3>2, <3>3, <3>4, <3>5
  <2>3. CASE FillAbort(t)
    BY <2>3 DEF FillAbort, WithBacking
  <2>4. QED
    BY <1>3, <2>1, <2>2, <2>3
<1>4. ASSUME NEW t \in Threads, BackingUpl(t) \/ BackingVnop(t)
      PROVE  UplInv'
  <2>1. CASE BackingUpl(t)
    BY <2>1 DEF BackingUpl
  <2>2. CASE BackingVnop(t)
    BY <2>2 DEF BackingVnop
  <2>3. QED
    BY <1>4, <2>1, <2>2
<1>5. ASSUME NEW t \in Threads, BackingPageout(t)
      PROVE  UplInv'
  BY <1>5 DEF BackingPageout, AfterPageoutAs, PageoutAnswer
<1>6. ASSUME NEW t \in Threads, OldSize(t) \/ NewSize(t) \/ SetSize(t)
      PROVE  UplInv'
  <2>1. CASE OldSize(t)
    BY <2>1 DEF OldSize, AfterAdjust
  <2>2. CASE NewSize(t)
    BY <2>2 DEF NewSize, AfterAdjust
  <2>3. CASE SetSize(t)
    BY <2>3 DEF SetSize, SetSizeIf, AfterAdjust
  <2>4. QED
    BY <1>6, <2>1, <2>2, <2>3
<1>7. ASSUME NEW t \in Threads, UplAllPages(t) \/ UplWrite(t) \/ UplAbort(t)
      PROVE  UplInv'
  <2>1. CASE UplAllPages(t)
    BY <2>1 DEF UplAllPages
  <2>2. CASE UplWrite(t)
    BY <2>2 DEF UplWrite
  <2>3. CASE UplAbort(t)
    BY <2>3 DEF UplAbort, UplAbortIf
  <2>4. QED
    BY <1>7, <2>1, <2>2, <2>3
<1>8. ASSUME NEW t \in Threads, Original(t)
      PROVE  UplInv'
  BY <1>8 DEF Original
<1>9. ASSUME NEW t \in Threads,
               Put(t) \/ Ref(t) \/ Push(t) \/
               RemoveVnodeIO(t)
      PROVE  UplInv'
  <2>1. CASE Put(t)
    BY <2>1 DEF Put, PutAs
  <2>2. CASE Ref(t)
    BY <2>2 DEF Ref
  <2>3. CASE Push(t)
    BY <2>3 DEF Push
  <2>4. CASE RemoveVnodeIO(t)
    BY <2>4 DEF RemoveVnodeIO
  <2>5. QED
    BY <1>9, <2>1, <2>2, <2>3, <2>4
<1>10. ASSUME NEW t \in Threads,
               GetVnodeShadowReverseRef(t) \/ RealGetattr(t) \/ SizeRef(t) \/
               GetSize(t) \/ PutReal(t)
      PROVE  UplInv'
  <2>1. CASE GetVnodeShadowReverseRef(t)
    BY <2>1 DEF GetVnodeShadowReverseRef
  <2>2. CASE RealGetattr(t)
    BY <2>2 DEF RealGetattr
  <2>3. CASE SizeRef(t)
    BY <2>3 DEF SizeRef
  <2>4. CASE GetSize(t)
    BY <2>4 DEF GetSize
  <2>5. CASE PutReal(t)
    BY <2>5 DEF PutReal
  <2>6. QED
    BY <1>10, <2>1, <2>2, <2>3, <2>4, <2>5
<1>11. ASSUME NEW t \in Threads, Return(t)
      PROVE  UplInv'
  BY <1>11 DEF Return
<1>12. ASSUME NEW t \in Threads, NEW o \in Ops, Vnop(t, o)
      PROVE  UplInv'
  BY <1>12 DEF Vnop, FirstPc, Ops
<1>13. CASE MappedStore \/ Evict \/ Drop \/ UNCHANGED vars
  BY <1>13 DEF MappedStore, Evict, Drop
<1>14. QED
  BY <1>1, <1>2, <1>3, <1>4, <1>5, <1>6, <1>7, <1>8, <1>9, <1>10, <1>11, <1>12,
     <1>13 DEF Next, Step

\* DataInv is kept.
LEMMA DataStep ==
  ASSUME IInv, Next \/ UNCHANGED vars
  PROVE  DataInv'
<1> USE ThreadAssumption, SizeAssumption, MayAssumption
    DEF IInv, TypeOK, Data, HoldInv, OpInv, UplInv, DataInv, ZerosAreOverwritten
<1>1. ASSUME NEW t \in Threads, GetVnodeIORef(t) \/ BackingLookup(t) \/ AddVnodeIO(t)
      PROVE  DataInv'
  <2>1. CASE GetVnodeIORef(t)
    BY <2>1 DEF GetVnodeIORef, GetVnodeIORefOr, WithBacking
  <2>2. CASE BackingLookup(t)
    BY <2>2 DEF BackingLookup, WithoutBacking
  <2>3. CASE AddVnodeIO(t)
    BY <2>3 DEF AddVnodeIO
  <2>4. QED
    BY <1>1, <2>1, <2>2, <2>3
<1>2. ASSUME NEW t \in Threads, Invalidate(t) \/ Resident(t)
      PROVE  DataInv'
  <2>1. CASE Invalidate(t)
    BY <2>1 DEF Invalidate, WithBacking
  <2>2. CASE Resident(t)
    BY <2>2 DEF Resident, WithBacking
  <2>3. QED
    BY <1>2, <2>1, <2>2
<1>3. ASSUME NEW t \in Threads, FillUpl(t) \/ FillRead(t) \/ FillAbort(t)
      PROVE  DataInv'
  <2>1. CASE FillUpl(t)
    BY <2>1 DEF FillUpl, FillUplOr
  <2>2. CASE FillRead(t)
    BY <2>2 DEF FillRead
  <2>3. CASE FillAbort(t)
    BY <2>3 DEF FillAbort, WithBacking
  <2>4. QED
    BY <1>3, <2>1, <2>2, <2>3
<1>4. ASSUME NEW t \in Threads, BackingUpl(t) \/ BackingVnop(t)
      PROVE  DataInv'
  <2>1. CASE BackingUpl(t)
    BY <2>1 DEF BackingUpl
  <2>2. CASE BackingVnop(t)
    BY <2>2 DEF BackingVnop
  <2>3. QED
    BY <1>4, <2>1, <2>2
<1>5. ASSUME NEW t \in Threads, BackingPageout(t)
      PROVE  DataInv'
  BY <1>5 DEF BackingPageout, AfterPageoutAs, PageoutAnswer
<1>6. ASSUME NEW t \in Threads, OldSize(t) \/ NewSize(t) \/ SetSize(t)
      PROVE  DataInv'
  <2>1. CASE OldSize(t)
    BY <2>1 DEF OldSize, AfterAdjust
  <2>2. CASE NewSize(t)
    BY <2>2 DEF NewSize, AfterAdjust
  <2>3. CASE SetSize(t)
    BY <2>3 DEF SetSize, SetSizeIf, AfterAdjust
  <2>4. QED
    BY <1>6, <2>1, <2>2, <2>3
<1>7. ASSUME NEW t \in Threads, UplAllPages(t) \/ UplWrite(t) \/ UplAbort(t)
      PROVE  DataInv'
  <2>1. CASE UplAllPages(t)
    BY <2>1 DEF UplAllPages
  <2>2. CASE UplWrite(t)
    BY <2>2 DEF UplWrite
  <2>3. CASE UplAbort(t)
    BY <2>3 DEF UplAbort, UplAbortIf
  <2>4. QED
    BY <1>7, <2>1, <2>2, <2>3
<1>8. ASSUME NEW t \in Threads, Original(t)
      PROVE  DataInv'
  BY <1>8 DEF Original
<1>9. ASSUME NEW t \in Threads,
               Put(t) \/ Ref(t) \/ Push(t) \/
               RemoveVnodeIO(t)
      PROVE  DataInv'
  <2>1. CASE Put(t)
    BY <2>1 DEF Put, PutAs
  <2>2. CASE Ref(t)
    BY <2>2 DEF Ref
  <2>3. CASE Push(t)
    BY <2>3 DEF Push
  <2>4. CASE RemoveVnodeIO(t)
    BY <2>4 DEF RemoveVnodeIO
  <2>5. QED
    BY <1>9, <2>1, <2>2, <2>3, <2>4
<1>10. ASSUME NEW t \in Threads,
               GetVnodeShadowReverseRef(t) \/ RealGetattr(t) \/ SizeRef(t) \/
               GetSize(t) \/ PutReal(t)
      PROVE  DataInv'
  <2>1. CASE GetVnodeShadowReverseRef(t)
    BY <2>1 DEF GetVnodeShadowReverseRef
  <2>2. CASE RealGetattr(t)
    BY <2>2 DEF RealGetattr
  <2>3. CASE SizeRef(t)
    BY <2>3 DEF SizeRef
  <2>4. CASE GetSize(t)
    BY <2>4 DEF GetSize
  <2>5. CASE PutReal(t)
    BY <2>5 DEF PutReal
  <2>6. QED
    BY <1>10, <2>1, <2>2, <2>3, <2>4, <2>5
<1>11. ASSUME NEW t \in Threads, Return(t)
      PROVE  DataInv'
  BY <1>11 DEF Return
<1>12. ASSUME NEW t \in Threads, NEW o \in Ops, Vnop(t, o)
      PROVE  DataInv'
  BY <1>12 DEF Vnop, FirstPc, Ops
<1>13. CASE MappedStore \/ Evict \/ Drop \/ UNCHANGED vars
  BY <1>13 DEF MappedStore, Evict, Drop
<1>14. QED
  BY <1>1, <1>2, <1>3, <1>4, <1>5, <1>6, <1>7, <1>8, <1>9, <1>10, <1>11, <1>12,
     <1>13 DEF Next, Step

\* MovedInv is kept.
LEMMA MovedStep ==
  ASSUME IInv, Next \/ UNCHANGED vars
  PROVE  MovedInv'
<1> USE ThreadAssumption, SizeAssumption, MayAssumption
    DEF IInv, TypeOK, HoldInv, OpInv, UplInv, MovedInv
<1>1. ASSUME NEW t \in Threads, GetVnodeIORef(t) \/ BackingLookup(t) \/ AddVnodeIO(t)
      PROVE  MovedInv'
  <2>1. CASE GetVnodeIORef(t)
    BY <2>1 DEF GetVnodeIORef, GetVnodeIORefOr, WithBacking
  <2>2. CASE BackingLookup(t)
    BY <2>2 DEF BackingLookup, WithoutBacking
  <2>3. CASE AddVnodeIO(t)
    BY <2>3 DEF AddVnodeIO
  <2>4. QED
    BY <1>1, <2>1, <2>2, <2>3
<1>2. ASSUME NEW t \in Threads, Invalidate(t) \/ Resident(t)
      PROVE  MovedInv'
  <2>1. CASE Invalidate(t)
    BY <2>1 DEF Invalidate, WithBacking
  <2>2. CASE Resident(t)
    BY <2>2 DEF Resident, WithBacking
  <2>3. QED
    BY <1>2, <2>1, <2>2
<1>3. ASSUME NEW t \in Threads, FillUpl(t) \/ FillRead(t) \/ FillAbort(t)
      PROVE  MovedInv'
  <2>1. CASE FillUpl(t)
    BY <2>1 DEF FillUpl, FillUplOr
  <2>2. CASE FillRead(t)
    BY <2>2 DEF FillRead
  <2>3. CASE FillAbort(t)
    BY <2>3 DEF FillAbort, WithBacking
  <2>4. QED
    BY <1>3, <2>1, <2>2, <2>3
<1>4. ASSUME NEW t \in Threads, BackingUpl(t) \/ BackingVnop(t)
      PROVE  MovedInv'
  <2>1. CASE BackingUpl(t)
    BY <2>1 DEF BackingUpl
  <2>2. CASE BackingVnop(t)
    BY <2>2 DEF BackingVnop
  <2>3. QED
    BY <1>4, <2>1, <2>2
<1>5. ASSUME NEW t \in Threads, BackingPageout(t)
      PROVE  MovedInv'
  BY <1>5 DEF BackingPageout, AfterPageoutAs, PageoutAnswer
<1>6. ASSUME NEW t \in Threads, OldSize(t) \/ NewSize(t) \/ SetSize(t)
      PROVE  MovedInv'
  <2>1. CASE OldSize(t)
    BY <2>1 DEF OldSize, AfterAdjust
  <2>2. CASE NewSize(t)
    BY <2>2 DEF NewSize, AfterAdjust
  <2>3. CASE SetSize(t)
    BY <2>3 DEF SetSize, SetSizeIf, AfterAdjust
  <2>4. QED
    BY <1>6, <2>1, <2>2, <2>3
<1>7. ASSUME NEW t \in Threads, UplAllPages(t) \/ UplWrite(t) \/ UplAbort(t)
      PROVE  MovedInv'
  <2>1. CASE UplAllPages(t)
    BY <2>1 DEF UplAllPages
  <2>2. CASE UplWrite(t)
    BY <2>2 DEF UplWrite
  <2>3. CASE UplAbort(t)
    BY <2>3 DEF UplAbort, UplAbortIf
  <2>4. QED
    BY <1>7, <2>1, <2>2, <2>3
<1>8. ASSUME NEW t \in Threads, Original(t)
      PROVE  MovedInv'
  BY <1>8 DEF Original
<1>9. ASSUME NEW t \in Threads,
               Put(t) \/ Ref(t) \/ Push(t) \/
               RemoveVnodeIO(t)
      PROVE  MovedInv'
  <2>1. CASE Put(t)
    BY <2>1 DEF Put, PutAs
  <2>2. CASE Ref(t)
    BY <2>2 DEF Ref
  <2>3. CASE Push(t)
    BY <2>3 DEF Push
  <2>4. CASE RemoveVnodeIO(t)
    BY <2>4 DEF RemoveVnodeIO
  <2>5. QED
    BY <1>9, <2>1, <2>2, <2>3, <2>4
<1>10. ASSUME NEW t \in Threads,
               GetVnodeShadowReverseRef(t) \/ RealGetattr(t) \/ SizeRef(t) \/
               GetSize(t) \/ PutReal(t)
      PROVE  MovedInv'
  <2>1. CASE GetVnodeShadowReverseRef(t)
    BY <2>1 DEF GetVnodeShadowReverseRef
  <2>2. CASE RealGetattr(t)
    BY <2>2 DEF RealGetattr
  <2>3. CASE SizeRef(t)
    BY <2>3 DEF SizeRef
  <2>4. CASE GetSize(t)
    BY <2>4 DEF GetSize
  <2>5. CASE PutReal(t)
    BY <2>5 DEF PutReal
  <2>6. QED
    BY <1>10, <2>1, <2>2, <2>3, <2>4, <2>5
<1>11. ASSUME NEW t \in Threads, Return(t)
      PROVE  MovedInv'
  BY <1>11 DEF Return
<1>12. ASSUME NEW t \in Threads, NEW o \in Ops, Vnop(t, o)
      PROVE  MovedInv'
  BY <1>12 DEF Vnop, FirstPc, Ops
<1>13. CASE MappedStore \/ Evict \/ Drop \/ UNCHANGED vars
  BY <1>13 DEF MappedStore, Evict, Drop
<1>14. QED
  BY <1>1, <1>2, <1>3, <1>4, <1>5, <1>6, <1>7, <1>8, <1>9, <1>10, <1>11, <1>12,
     <1>13 DEF Next, Step

\* SizeInv is kept.
LEMMA SizeStep ==
  ASSUME IInv, Next \/ UNCHANGED vars
  PROVE  SizeInv'
<1> USE ThreadAssumption, SizeAssumption, MayAssumption
    DEF IInv, TypeOK, SizeInv
<1>1. ASSUME NEW t \in Threads, GetVnodeIORef(t) \/ BackingLookup(t) \/ AddVnodeIO(t)
      PROVE  SizeInv'
  <2>1. CASE GetVnodeIORef(t)
    BY <2>1 DEF GetVnodeIORef, GetVnodeIORefOr, WithBacking
  <2>2. CASE BackingLookup(t)
    BY <2>2 DEF BackingLookup, WithoutBacking
  <2>3. CASE AddVnodeIO(t)
    BY <2>3 DEF AddVnodeIO
  <2>4. QED
    BY <1>1, <2>1, <2>2, <2>3
<1>2. ASSUME NEW t \in Threads, Invalidate(t) \/ Resident(t)
      PROVE  SizeInv'
  <2>1. CASE Invalidate(t)
    BY <2>1 DEF Invalidate, WithBacking
  <2>2. CASE Resident(t)
    BY <2>2 DEF Resident, WithBacking
  <2>3. QED
    BY <1>2, <2>1, <2>2
<1>3. ASSUME NEW t \in Threads, FillUpl(t) \/ FillRead(t) \/ FillAbort(t)
      PROVE  SizeInv'
  <2>1. CASE FillUpl(t)
    BY <2>1 DEF FillUpl, FillUplOr
  <2>2. CASE FillRead(t)
    BY <2>2 DEF FillRead
  <2>3. CASE FillAbort(t)
    BY <2>3 DEF FillAbort, WithBacking
  <2>4. QED
    BY <1>3, <2>1, <2>2, <2>3
<1>4. ASSUME NEW t \in Threads, BackingUpl(t) \/ BackingVnop(t)
      PROVE  SizeInv'
  <2>1. CASE BackingUpl(t)
    BY <2>1 DEF BackingUpl
  <2>2. CASE BackingVnop(t)
    BY <2>2 DEF BackingVnop
  <2>3. QED
    BY <1>4, <2>1, <2>2
<1>5. ASSUME NEW t \in Threads, BackingPageout(t)
      PROVE  SizeInv'
  BY <1>5 DEF BackingPageout, AfterPageoutAs, PageoutAnswer
<1>6. ASSUME NEW t \in Threads, OldSize(t) \/ NewSize(t) \/ SetSize(t)
      PROVE  SizeInv'
  <2>1. CASE OldSize(t)
    BY <2>1 DEF OldSize, AfterAdjust
  <2>2. CASE NewSize(t)
    BY <2>2 DEF NewSize, AfterAdjust
  <2>3. CASE SetSize(t)
    <3> SUFFICES ASSUME ~degraded', ~shrunk'
                 PROVE  SizeInv'
      BY DEF SizeInv
    <3>1. /\ ~degraded /\ ~shrunk
          /\ sizeV' = IF newSize[t] > oldSize[t] THEN newSize[t] ELSE sizeV
          /\ ~(sizeV' < sizeV)
      BY <2>3 DEF SetSize, SetSizeIf
    <3>2. /\ UNCHANGED << sizeB, oldSize, newSize >>
          /\ pc' = [pc EXCEPT ![t] = AfterAdjust(t)] /\ AfterAdjust(t) \in {"put", "uplV"}
      BY <2>3 DEF SetSize, SetSizeIf, AfterAdjust
    <3>3. \A u \in Threads : pc'[u] \in {"newSize", "setSize"} => oldSize'[u] =< sizeV'
      BY <2>3, <3>1, <3>2 DEF SetSize, SetSizeIf
    <3>4. ASSUME sizeV' < sizeB'
          PROVE  \E u \in Threads : \/ pc'[u] \in {"oldSize", "newSize"}
                                    \/ pc'[u] = "setSize" /\ newSize'[u] = sizeB'
      <4>1. PICK u \in Threads : \/ pc[u] \in {"oldSize", "newSize"}
                                 \/ pc[u] = "setSize" /\ newSize[u] = sizeB
        BY <3>1, <3>2, <3>4
      <4>2. u # t
        BY <2>3, <3>1, <3>2, <3>4, <4>1 DEF SetSize, SetSizeIf
      <4>3. QED
        BY <3>2, <4>1, <4>2
    <3>5. QED
      BY <3>3, <3>4
  <2>4. QED
    BY <1>6, <2>1, <2>2, <2>3
<1>7. ASSUME NEW t \in Threads, UplAllPages(t) \/ UplWrite(t) \/ UplAbort(t)
      PROVE  SizeInv'
  <2>1. CASE UplAllPages(t)
    BY <2>1 DEF UplAllPages
  <2>2. CASE UplWrite(t)
    BY <2>2 DEF UplWrite
  <2>3. CASE UplAbort(t)
    BY <2>3 DEF UplAbort, UplAbortIf
  <2>4. QED
    BY <1>7, <2>1, <2>2, <2>3
<1>8. ASSUME NEW t \in Threads, Original(t)
      PROVE  SizeInv'
  BY <1>8 DEF Original
<1>9. ASSUME NEW t \in Threads,
               Put(t) \/ Ref(t) \/ Push(t) \/
               RemoveVnodeIO(t)
      PROVE  SizeInv'
  <2>1. CASE Put(t)
    BY <2>1 DEF Put, PutAs
  <2>2. CASE Ref(t)
    BY <2>2 DEF Ref
  <2>3. CASE Push(t)
    BY <2>3 DEF Push
  <2>4. CASE RemoveVnodeIO(t)
    BY <2>4 DEF RemoveVnodeIO
  <2>5. QED
    BY <1>9, <2>1, <2>2, <2>3, <2>4
<1>10. ASSUME NEW t \in Threads,
               GetVnodeShadowReverseRef(t) \/ RealGetattr(t) \/ SizeRef(t) \/
               GetSize(t) \/ PutReal(t)
      PROVE  SizeInv'
  <2>1. CASE GetVnodeShadowReverseRef(t)
    BY <2>1 DEF GetVnodeShadowReverseRef
  <2>2. CASE RealGetattr(t)
    BY <2>2 DEF RealGetattr
  <2>3. CASE SizeRef(t)
    BY <2>3 DEF SizeRef
  <2>4. CASE GetSize(t)
    BY <2>4 DEF GetSize
  <2>5. CASE PutReal(t)
    BY <2>5 DEF PutReal
  <2>6. QED
    BY <1>10, <2>1, <2>2, <2>3, <2>4, <2>5
<1>11. ASSUME NEW t \in Threads, Return(t)
      PROVE  SizeInv'
  BY <1>11 DEF Return
<1>12. ASSUME NEW t \in Threads, NEW o \in Ops, Vnop(t, o)
      PROVE  SizeInv'
  BY <1>12 DEF Vnop, FirstPc, Ops
<1>13. CASE MappedStore \/ Evict \/ Drop \/ UNCHANGED vars
  BY <1>13 DEF MappedStore, Evict, Drop
<1>14. QED
  BY <1>1, <1>2, <1>3, <1>4, <1>5, <1>6, <1>7, <1>8, <1>9, <1>10, <1>11, <1>12,
     <1>13 DEF Next, Step

\* The strengthened invariant of the I/O hooks: what each call holds, which page
\* it has in a UPL, and where its data has been, at each of its places.
THEOREM Inductive == Spec => []IInv
<1>1. Init => IInv
  BY InitIInv
<1>2. IInv /\ [Next]_vars => IInv'
  <2> SUFFICES ASSUME IInv, Next \/ UNCHANGED vars
               PROVE  IInv'
    OBVIOUS
  <2>1. TypeOK'
    BY ValueStep, FlagStep DEF ValueInv, FlagInv, TypeOK
  <2>2. QED
    BY <2>1, HoldStep, OpStep, UplStep, DataStep, MovedStep, SizeStep DEF IInv
<1>3. QED
  BY <1>1, <1>2, PTL DEF Spec

\* Types, with the bound of the sizes.
THEOREM TypeCorrect == Spec => []TypeOK
<1>1. IInv => TypeOK
  BY DEF IInv
<1>2. QED
  BY <1>1, Inductive, PTL

\* While nothing fails no data reaches the shadow's own file.
THEOREM DataIsProtected == Spec => []DataStaysInStorage
<1>1. IInv => DataStaysInStorage
  BY DEF IInv, DataInv, DataStaysInStorage
<1>2. QED
  BY <1>1, Inductive, PTL

\* The zeros that a pagein brings in are there only until it fills the page.
THEOREM ZerosDoNotStay == Spec => []ZerosAreOverwritten
<1>1. IInv => ZerosAreOverwritten
  BY DEF IInv, DataInv
<1>2. QED
  BY <1>1, Inductive, PTL

\* The backing vnode is held where it is used and put on every way out.
THEOREM HoldsAreBalanced == Spec => []BackingIsHeld
<1>1. IInv => BackingIsHeld
  BY DEF IInv, TypeOK, HoldInv, BackingIsHeld
<1>2. QED
  BY <1>1, Inductive, PTL

\* The shadow's size follows the backing file's, but for a lost race.
THEOREM SizeFollows == Spec => []SizeCoversBacking
<1>1. IInv => SizeCoversBacking
  BY DEF IInv, TypeOK, SizeInv, SizeCoversBacking
<1>2. QED
  BY <1>1, Inductive, PTL

\* No error on a way through the page cache is lost.
THEOREM SuccessIsReal == Spec => []SuccessMeansMoved
<1>1. IInv => SuccessMeansMoved
  BY DEF IInv, MovedInv, SuccessMeansMoved
<1>2. QED
  BY <1>1, Inductive, PTL

\* A UPL outlives its call only on the one way where its release is forgotten.
THEOREM UplsDoNotLeak == Spec => []UplsAreReleased
<1>1. IInv => UplsAreReleased
  BY ThreadAssumption DEF IInv, TypeOK, UplInv, UplsAreReleased
<1>2. QED
  BY <1>1, Inductive, PTL
=============================================================================
