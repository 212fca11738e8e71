-------------------------- MODULE RedirectionProofs --------------------------
(***************************************************************************)
(* Proofs about Redirection.                                               *)
(***************************************************************************)
EXTENDS Redirection, TLAPS

\* Both hooks go this way.
BothPc  == { "copyShadow", "associate", "associateLookup", "associateAdd",
             "getBacking", "handOut" }
FirstPc == { "lookup", "appData", "filter" }
OpenPc  == { "shadowLookup", "shadowOpen" }
PathPc  == { "askCopy", "copyPath", "pathLookup" }

\* TypeOK in three parts: the files, the counts with HeldInv, and all else.
DiskInv == exists \subseteq Files /\ copied \subseteq Storage /\ copied \subseteq exists

TypeInv ==
  /\ appData \in SUBSET Visible
  /\ vnodeIO \in {NULLVP, "backing"}
  /\ shadowReverse \in Visible \cup {NULLVP}
  /\ recursive \in SUBSET Threads
  /\ create \in [Threads -> BOOLEAN]
  /\ name \in [Threads -> Visible]
  /\ nameiop \in [Threads -> {"LOOKUP", "CREATE"}]
  /\ error \in [Threads -> Errors]
  /\ vpp \in [Threads -> Vnode]
  /\ original \in [Threads -> Visible \cup {NULLVP}]
  /\ shadow \in [Threads -> {"shadow", NULLVP}]
  /\ backing \in [Threads -> {"backing", NULLVP}]
  /\ controlled \in [Threads -> BOOLEAN]
  /\ callDaemon \in [Threads -> BOOLEAN]

\* Where each hook is, and which of its vnodes it has there.
CallInv ==
  /\ pc \in [Threads -> {"idle", "return"} \cup NestedPc \cup LookupPc
                        \cup SharedPc \cup CreatePc]
  /\ \A t \in Threads :
       /\ pc[t] \in CreatePc \cup {"createOriginal", "createShadow"} => create[t]
       /\ pc[t] \in LookupPc \cup OpenPc => ~create[t]
       /\ pc[t] \in {"idle", "return", "createFilter", "createOriginal"} \cup FirstPc =>
            original[t] = NULLVP
       /\ pc[t] \in {"shadowLookup", "shadowOpen", "reverse", "createShadow", "askShadow",
                     "askCreate", "createReverse", "createClose"} \cup BothPc =>
            original[t] # NULLVP
       /\ pc[t] \in {"idle", "return", "createFilter", "createOriginal", "createShadow"}
                    \cup FirstPc \cup OpenPc => shadow[t] = NULLVP
       /\ pc[t] \in {"reverse", "askShadow", "askCreate", "createReverse", "createClose"}
                    \cup BothPc => shadow[t] # NULLVP
       /\ backing[t] # NULLVP <=> pc[t] \in {"associateAdd", "handOut"}
       /\ pc[t] \in {"idle", "lookup", "reverse", "askShadow", "askCreate",
                     "createFilter", "createOriginal", "createShadow"}
                    \cup OpenPc \cup PathPc \cup BothPc => vpp[t] = NULLVP
       /\ pc[t] \in {"appData", "filter"} => vpp[t] = name[t]
       /\ pc[t] = "redirectedLookup" => vpp[t] \in {name[t], NULLVP}

\* The error agrees with the vnode wherever it will be returned.
ResultInv ==
  \A t \in Threads :
    /\ pc[t] \in {"appData", "filter", "redirectedLookup", "exit", "return",
                  "createReverse", "createClose"} => (error[t] = "ok" <=> vpp[t] # NULLVP)
    /\ pc[t] = "createFilter" => error[t] = "ok"
    /\ error[t] = "EJUSTRETURN" => ~create[t] /\ nameiop[t] = "CREATE"
    /\ error[t] = "ENOENT" => ~create[t] /\ nameiop[t] = "LOOKUP"
    /\ pc[t] = "idle" => error[t] = "ok"

\* Which threads RecursionEngine may know, and which it must.
SectionInv ==
  \A t \in Threads :
    /\ pc[t] \in NestedPc => t \in recursive
    /\ t \in recursive =>
         \/ pc[t] \in NestedPc \cup {"reverse"}
         \/ create[t] /\ pc[t] \in BothPc \cup {"askCreate", "createReverse", "createClose"}

\* A file of the storage that is in use, or being copied, is there to stay.
BackedInv ==
  /\ vnodeIO # NULLVP => "backing" \in exists
  /\ \A t \in Threads :
       /\ backing[t] # NULLVP => "backing" \in exists
       /\ pc[t] = "copyShadow" => "backing" \in exists
       /\ pc[t] = "copyPath" => RedirectedPath(name[t]) \in exists
       /\ name[t] = "original" /\ vpp[t] = "shadow" => "backing" \in exists

One(a, f) == IF a = f THEN 1 ELSE 0
InHand(t, f) == One(vpp[t], f) + One(original[t], f) + One(shadow[t], f)
                  + One(backing[t], f)

HeldInv ==
  /\ held \in [Threads -> [Files -> Int]]
  /\ \A t \in Threads, f \in Files : held[t][f] = InHand(t, f)

IInv == DiskInv /\ TypeInv /\ CallInv /\ ResultInv /\ SectionInv /\ BackedInv /\ HeldInv

----------------------------------------------------------------------------
USE DEF At, Goto, Set, Fail, EnterRecursiveCall, LeaveRecursiveCall, disk, maps, args,
        local, vars, Visible, Storage, Files, Vnode, Errors, NestedPc, LookupPc,
        SharedPc, CreatePc, BothPc, FirstPc, OpenPc, PathPc

\* The initial states satisfy the invariant.
LEMMA InitIInv ==
  ASSUME Init
  PROVE  IInv
<1> USE NullAssumption DEF Init
<1>1. DiskInv /\ TypeInv /\ CallInv
  BY DEF DiskInv, TypeInv, CallInv
<1>2. ResultInv /\ SectionInv /\ BackedInv
  BY DEF ResultInv, SectionInv, BackedInv
<1>3. HeldInv
  BY DEF HeldInv, InHand, One
<1>4. QED
  BY <1>1, <1>2, <1>3 DEF IInv

\* The types of the files are kept.
LEMMA DiskStep ==
  ASSUME IInv, [Next]_vars
  PROVE  DiskInv'
<1> USE NullAssumption, MayAssumption
    DEF IInv, TypeInv, DiskInv, CallInv, BackedInv
<1>1. ASSUME NEW t \in Threads, OriginalLookup(t)
      PROVE  DiskInv'
  BY <1>1 DEF OriginalLookup
<1>2. ASSUME NEW t \in Threads, CheckAppData(t)
      PROVE  DiskInv'
  BY <1>2 DEF CheckAppData
<1>3. ASSUME NEW t \in Threads, Filter(t)
      PROVE  DiskInv'
  BY <1>3 DEF Filter
<1>4. ASSUME NEW t \in Threads, ShadowLookup(t)
      PROVE  DiskInv'
  BY <1>4 DEF ShadowLookup
<1>5. ASSUME NEW t \in Threads, ShadowOpen(t)
      PROVE  DiskInv'
  BY <1>5 DEF ShadowOpen
<1>6. ASSUME NEW t \in Threads, Reverse(t)
      PROVE  DiskInv'
  BY <1>6 DEF Reverse, AddVnodeShadowReverse
<1>7. ASSUME NEW t \in Threads, AskForCopy(t)
      PROVE  DiskInv'
  BY <1>7 DEF AskForCopy, CopyBegins, NothingCopied, RedirectedPath
<1>8. ASSUME NEW t \in Threads, CopyEnds(t)
      PROVE  DiskInv'
  <2>1. UNCHANGED exists /\ copied \subseteq copied'
    BY <1>8 DEF CopyEnds, RedirectedPath
  <2>2. CASE At(t, "copyShadow")
    BY <1>8, <2>1, <2>2 DEF CopyEnds
  <2>3. CASE At(t, "copyPath")
    <3>1. copied' \subseteq copied \cup {RedirectedPath(name[t])}
      BY <1>8, <2>3 DEF CopyEnds
    <3>2. RedirectedPath(name[t]) \in exists \cap Storage
      BY <2>3 DEF RedirectedPath
    <3>3. QED
      BY <2>1, <3>1, <3>2
  <2>4. QED
    BY <1>8, <2>2, <2>3 DEF CopyEnds
<1>9. ASSUME NEW t \in Threads, RedirectedLookup(t)
      PROVE  DiskInv'
  BY <1>9 DEF RedirectedLookup, RedirectedPath
<1>10. ASSUME NEW t \in Threads, Exit(t)
      PROVE  DiskInv'
  BY <1>10 DEF Exit
<1>11. ASSUME NEW t \in Threads, CreateFilter(t)
      PROVE  DiskInv'
  BY <1>11 DEF CreateFilter, OriginalCreates, OriginalFails
<1>12. ASSUME NEW t \in Threads, CreateOriginal(t)
      PROVE  DiskInv'
  BY <1>12 DEF CreateOriginal, OriginalCreates, OriginalFails
<1>13. ASSUME NEW t \in Threads, CreateShadow(t)
      PROVE  DiskInv'
  BY <1>13 DEF CreateShadow
<1>14. ASSUME NEW t \in Threads, CreateReverse(t)
      PROVE  DiskInv'
  BY <1>14 DEF CreateReverse, AddVnodeShadowReverse
<1>15. ASSUME NEW t \in Threads, CreateClose(t)
      PROVE  DiskInv'
  BY <1>15 DEF CreateClose
<1>16. ASSUME NEW t \in Threads, AskForBacking(t)
      PROVE  DiskInv'
  BY <1>16 DEF AskForBacking, CopyBegins, NothingCopied
<1>17. ASSUME NEW t \in Threads, Associate(t)
      PROVE  DiskInv'
  BY <1>17 DEF Associate
<1>18. ASSUME NEW t \in Threads, AssociateLookup(t)
      PROVE  DiskInv'
  BY <1>18 DEF AssociateLookup
<1>19. ASSUME NEW t \in Threads, AssociateAdd(t)
      PROVE  DiskInv'
  BY <1>19 DEF AssociateAdd
<1>20. ASSUME NEW t \in Threads, GetBacking(t)
      PROVE  DiskInv'
  BY <1>20 DEF GetBacking
<1>21. ASSUME NEW t \in Threads, HandOut(t)
      PROVE  DiskInv'
  BY <1>21 DEF HandOut
<1>22. ASSUME NEW t \in Threads, Done(t)
      PROVE  DiskInv'
  BY <1>22 DEF Done
<1>23. ASSUME NEW t \in Threads, NEW n \in Visible, NEW o \in {"LOOKUP", "CREATE"},
             Lookup(t, n, o)
      PROVE  DiskInv'
  BY <1>23 DEF Lookup
<1>24. ASSUME NEW t \in Threads, NEW n \in Visible, Create(t, n)
      PROVE  DiskInv'
  BY <1>24 DEF Create
<1>25. ASSUME NEW f \in Visible, OtherCreates(f) \/ Reclaim(f)
      PROVE  DiskInv'
  BY <1>25 DEF OtherCreates, Reclaim
<1>26. CASE OtherUnlinks \/ DropAssociation \/ UNCHANGED vars
  BY <1>26 DEF OtherUnlinks, DropAssociation
<1>27. QED
  BY <1>1, <1>2, <1>3, <1>4, <1>5, <1>6, <1>7, <1>8, <1>9, <1>10, <1>11, <1>12,
     <1>13, <1>14, <1>15, <1>16, <1>17, <1>18, <1>19, <1>20, <1>21, <1>22, <1>23,
     <1>24, <1>25, <1>26 DEF Next, LookupStep, CreateStep, SharedStep

\* Every step keeps the types.
LEMMA TypeStep ==
  ASSUME IInv, [Next]_vars
  PROVE  TypeInv'
<1> USE NullAssumption, MayAssumption
    DEF IInv, TypeInv
<1>1. ASSUME NEW t \in Threads, OriginalLookup(t)
      PROVE  TypeInv'
  BY <1>1 DEF OriginalLookup
<1>2. ASSUME NEW t \in Threads, CheckAppData(t)
      PROVE  TypeInv'
  BY <1>2 DEF CheckAppData
<1>3. ASSUME NEW t \in Threads, Filter(t)
      PROVE  TypeInv'
  <2>1. vpp[t] \in Visible
    BY <1>3 DEF Filter, CallInv
  <2>2. UNCHANGED << maps, args, shadow, backing, callDaemon >>
    BY <1>3 DEF Filter
  <2>3. /\ error' \in [Threads -> Errors] /\ vpp' \in [Threads -> Vnode]
        /\ original' \in [Threads -> Visible \cup {NULLVP}]
    BY <1>3, <2>1 DEF Filter
  <2>4. controlled' \in [Threads -> BOOLEAN]
    BY <1>3 DEF Filter
  <2>5. recursive' \in SUBSET Threads
    BY <1>3 DEF Filter
  <2>6. QED
    BY <2>2, <2>3, <2>4, <2>5
<1>4. ASSUME NEW t \in Threads, ShadowLookup(t)
      PROVE  TypeInv'
  BY <1>4 DEF ShadowLookup
<1>5. ASSUME NEW t \in Threads, ShadowOpen(t)
      PROVE  TypeInv'
  BY <1>5 DEF ShadowOpen
<1>6. ASSUME NEW t \in Threads, Reverse(t)
      PROVE  TypeInv'
  BY <1>6 DEF Reverse, AddVnodeShadowReverse
<1>7. ASSUME NEW t \in Threads, AskForCopy(t)
      PROVE  TypeInv'
  BY <1>7 DEF AskForCopy, CopyBegins, NothingCopied, RedirectedPath
<1>8. ASSUME NEW t \in Threads, CopyEnds(t)
      PROVE  TypeInv'
  BY <1>8 DEF CopyEnds, RedirectedPath
<1>9. ASSUME NEW t \in Threads, RedirectedLookup(t)
      PROVE  TypeInv'
  BY <1>9 DEF RedirectedLookup, RedirectedPath
<1>10. ASSUME NEW t \in Threads, Exit(t)
      PROVE  TypeInv'
  BY <1>10 DEF Exit
<1>11. ASSUME NEW t \in Threads, CreateFilter(t)
      PROVE  TypeInv'
  <2>1. UNCHANGED << maps, args, shadow, backing, callDaemon, original >>
    BY <1>11 DEF CreateFilter, OriginalFails
  <2>2. /\ controlled' \in [Threads -> BOOLEAN]
        /\ recursive' \in SUBSET Threads
    BY <1>11 DEF CreateFilter
  <2>3. error' \in [Threads -> Errors] /\ vpp' \in [Threads -> Vnode]
    BY <1>11 DEF CreateFilter, OriginalCreates, OriginalFails
  <2>4. QED
    BY <2>1, <2>2, <2>3
<1>12. ASSUME NEW t \in Threads, CreateOriginal(t)
      PROVE  TypeInv'
  BY <1>12 DEF CreateOriginal, OriginalCreates, OriginalFails
<1>13. ASSUME NEW t \in Threads, CreateShadow(t)
      PROVE  TypeInv'
  BY <1>13 DEF CreateShadow
<1>14. ASSUME NEW t \in Threads, CreateReverse(t)
      PROVE  TypeInv'
  BY <1>14 DEF CreateReverse, AddVnodeShadowReverse
<1>15. ASSUME NEW t \in Threads, CreateClose(t)
      PROVE  TypeInv'
  BY <1>15 DEF CreateClose
<1>16. ASSUME NEW t \in Threads, AskForBacking(t)
      PROVE  TypeInv'
  BY <1>16 DEF AskForBacking, CopyBegins, NothingCopied
<1>17. ASSUME NEW t \in Threads, Associate(t)
      PROVE  TypeInv'
  BY <1>17 DEF Associate
<1>18. ASSUME NEW t \in Threads, AssociateLookup(t)
      PROVE  TypeInv'
  BY <1>18 DEF AssociateLookup
<1>19. ASSUME NEW t \in Threads, AssociateAdd(t)
      PROVE  TypeInv'
  BY <1>19 DEF AssociateAdd
<1>20. ASSUME NEW t \in Threads, GetBacking(t)
      PROVE  TypeInv'
  BY <1>20 DEF GetBacking
<1>21. ASSUME NEW t \in Threads, HandOut(t)
      PROVE  TypeInv'
  BY <1>21 DEF HandOut, CallInv
<1>22. ASSUME NEW t \in Threads, Done(t)
      PROVE  TypeInv'
  BY <1>22 DEF Done
<1>23. ASSUME NEW t \in Threads, NEW n \in Visible, NEW o \in {"LOOKUP", "CREATE"},
             Lookup(t, n, o)
      PROVE  TypeInv'
  BY <1>23 DEF Lookup
<1>24. ASSUME NEW t \in Threads, NEW n \in Visible, Create(t, n)
      PROVE  TypeInv'
  BY <1>24 DEF Create
<1>25. ASSUME NEW f \in Visible, OtherCreates(f) \/ Reclaim(f)
      PROVE  TypeInv'
  <2>1. UNCHANGED << recursive, args, vpp, error, local >>
    BY <1>25 DEF OtherCreates, Reclaim
  <2>2. /\ appData' \in SUBSET Visible
        /\ vnodeIO' \in {NULLVP, "backing"}
        /\ shadowReverse' \in Visible \cup {NULLVP}
    BY <1>25 DEF OtherCreates, Reclaim
  <2>3. QED
    BY <2>1, <2>2
<1>26. CASE OtherUnlinks \/ DropAssociation \/ UNCHANGED vars
  BY <1>26, ZenonT(60) DEF OtherUnlinks, DropAssociation
<1>27. QED
  BY <1>1, <1>2, <1>3, <1>4, <1>5, <1>6, <1>7, <1>8, <1>9, <1>10, <1>11, <1>12,
     <1>13, <1>14, <1>15, <1>16, <1>17, <1>18, <1>19, <1>20, <1>21, <1>22, <1>23,
     <1>24, <1>25, <1>26 DEF Next, LookupStep, CreateStep, SharedStep

\* Every step keeps what the functions have in hand (CallInv).
LEMMA CallStep ==
  ASSUME IInv, [Next]_vars
  PROVE  CallInv'
<1> USE NullAssumption, MayAssumption
    DEF IInv, TypeInv, CallInv
<1>1. ASSUME NEW t \in Threads, OriginalLookup(t)
      PROVE  CallInv'
  BY <1>1 DEF OriginalLookup
<1>2. ASSUME NEW t \in Threads, CheckAppData(t)
      PROVE  CallInv'
  BY <1>2 DEF CheckAppData
<1>3. ASSUME NEW t \in Threads, Filter(t)
      PROVE  CallInv'
  BY <1>3 DEF Filter
<1>4. ASSUME NEW t \in Threads, ShadowLookup(t)
      PROVE  CallInv'
  BY <1>4 DEF ShadowLookup
<1>5. ASSUME NEW t \in Threads, ShadowOpen(t)
      PROVE  CallInv'
  BY <1>5 DEF ShadowOpen
<1>6. ASSUME NEW t \in Threads, Reverse(t)
      PROVE  CallInv'
  BY <1>6 DEF Reverse, AddVnodeShadowReverse
<1>7. ASSUME NEW t \in Threads, AskForCopy(t)
      PROVE  CallInv'
  BY <1>7 DEF AskForCopy, CopyBegins, NothingCopied, RedirectedPath
<1>8. ASSUME NEW t \in Threads, CopyEnds(t)
      PROVE  CallInv'
  BY <1>8 DEF CopyEnds, RedirectedPath
<1>9. ASSUME NEW t \in Threads, RedirectedLookup(t)
      PROVE  CallInv'
  BY <1>9 DEF RedirectedLookup, RedirectedPath
<1>10. ASSUME NEW t \in Threads, Exit(t)
      PROVE  CallInv'
  BY <1>10 DEF Exit
<1>11. ASSUME NEW t \in Threads, CreateFilter(t)
      PROVE  CallInv'
  BY <1>11 DEF CreateFilter, OriginalCreates, OriginalFails
<1>12. ASSUME NEW t \in Threads, CreateOriginal(t)
      PROVE  CallInv'
  BY <1>12 DEF CreateOriginal, OriginalCreates, OriginalFails
<1>13. ASSUME NEW t \in Threads, CreateShadow(t)
      PROVE  CallInv'
  BY <1>13 DEF CreateShadow
<1>14. ASSUME NEW t \in Threads, CreateReverse(t)
      PROVE  CallInv'
  BY <1>14 DEF CreateReverse, AddVnodeShadowReverse
<1>15. ASSUME NEW t \in Threads, CreateClose(t)
      PROVE  CallInv'
  BY <1>15 DEF CreateClose
<1>16. ASSUME NEW t \in Threads, AskForBacking(t)
      PROVE  CallInv'
  BY <1>16 DEF AskForBacking, CopyBegins, NothingCopied
<1>17. ASSUME NEW t \in Threads, Associate(t)
      PROVE  CallInv'
  BY <1>17 DEF Associate
<1>18. ASSUME NEW t \in Threads, AssociateLookup(t)
      PROVE  CallInv'
  BY <1>18 DEF AssociateLookup
<1>19. ASSUME NEW t \in Threads, AssociateAdd(t)
      PROVE  CallInv'
  BY <1>19 DEF AssociateAdd
<1>20. ASSUME NEW t \in Threads, GetBacking(t)
      PROVE  CallInv'
  BY <1>20 DEF GetBacking
<1>21. ASSUME NEW t \in Threads, HandOut(t)
      PROVE  CallInv'
  BY <1>21 DEF HandOut
<1>22. ASSUME NEW t \in Threads, Done(t)
      PROVE  CallInv'
  BY <1>22 DEF Done
<1>23. ASSUME NEW t \in Threads, NEW n \in Visible, NEW o \in {"LOOKUP", "CREATE"},
             Lookup(t, n, o)
      PROVE  CallInv'
  BY <1>23 DEF Lookup
<1>24. ASSUME NEW t \in Threads, NEW n \in Visible, Create(t, n)
      PROVE  CallInv'
  BY <1>24 DEF Create
<1>25. ASSUME NEW f \in Visible, OtherCreates(f) \/ Reclaim(f)
      PROVE  CallInv'
  BY <1>25 DEF OtherCreates, Reclaim
<1>26. CASE OtherUnlinks \/ DropAssociation \/ UNCHANGED vars
  BY <1>26 DEF OtherUnlinks, DropAssociation
<1> HIDE DEF IInv, TypeInv, CallInv
<1>27. QED
  BY <1>1, <1>2, <1>3, <1>4, <1>5, <1>6, <1>7, <1>8, <1>9, <1>10, <1>11, <1>12,
     <1>13, <1>14, <1>15, <1>16, <1>17, <1>18, <1>19, <1>20, <1>21, <1>22, <1>23,
     <1>24, <1>25, <1>26 DEF Next, LookupStep, CreateStep, SharedStep

\* ResultInv is kept.
LEMMA ResultStep ==
  ASSUME IInv, [Next]_vars
  PROVE  ResultInv'
<1> USE NullAssumption, MayAssumption
    DEF IInv, TypeInv, CallInv, ResultInv
<1>1. ASSUME NEW t \in Threads, OriginalLookup(t)
      PROVE  ResultInv'
  BY <1>1 DEF OriginalLookup
<1>2. ASSUME NEW t \in Threads, CheckAppData(t)
      PROVE  ResultInv'
  BY <1>2 DEF CheckAppData
<1>3. ASSUME NEW t \in Threads, Filter(t)
      PROVE  ResultInv'
  BY <1>3 DEF Filter
<1>4. ASSUME NEW t \in Threads, ShadowLookup(t)
      PROVE  ResultInv'
  BY <1>4 DEF ShadowLookup
<1>5. ASSUME NEW t \in Threads, ShadowOpen(t)
      PROVE  ResultInv'
  BY <1>5 DEF ShadowOpen
<1>6. ASSUME NEW t \in Threads, Reverse(t)
      PROVE  ResultInv'
  BY <1>6 DEF Reverse, AddVnodeShadowReverse
<1>7. ASSUME NEW t \in Threads, AskForCopy(t)
      PROVE  ResultInv'
  BY <1>7 DEF AskForCopy, CopyBegins, NothingCopied, RedirectedPath
<1>8. ASSUME NEW t \in Threads, CopyEnds(t)
      PROVE  ResultInv'
  BY <1>8 DEF CopyEnds, RedirectedPath
<1>9. ASSUME NEW t \in Threads, RedirectedLookup(t)
      PROVE  ResultInv'
  BY <1>9 DEF RedirectedLookup, RedirectedPath
<1>10. ASSUME NEW t \in Threads, Exit(t)
      PROVE  ResultInv'
  BY <1>10 DEF Exit
<1>11. ASSUME NEW t \in Threads, CreateFilter(t)
      PROVE  ResultInv'
  BY <1>11 DEF CreateFilter, OriginalCreates, OriginalFails
<1>12. ASSUME NEW t \in Threads, CreateOriginal(t)
      PROVE  ResultInv'
  BY <1>12 DEF CreateOriginal, OriginalCreates, OriginalFails
<1>13. ASSUME NEW t \in Threads, CreateShadow(t)
      PROVE  ResultInv'
  BY <1>13 DEF CreateShadow
<1>14. ASSUME NEW t \in Threads, CreateReverse(t)
      PROVE  ResultInv'
  BY <1>14 DEF CreateReverse, AddVnodeShadowReverse
<1>15. ASSUME NEW t \in Threads, CreateClose(t)
      PROVE  ResultInv'
  BY <1>15 DEF CreateClose
<1>16. ASSUME NEW t \in Threads, AskForBacking(t)
      PROVE  ResultInv'
  BY <1>16 DEF AskForBacking, CopyBegins, NothingCopied
<1>17. ASSUME NEW t \in Threads, Associate(t)
      PROVE  ResultInv'
  BY <1>17 DEF Associate
<1>18. ASSUME NEW t \in Threads, AssociateLookup(t)
      PROVE  ResultInv'
  BY <1>18 DEF AssociateLookup
<1>19. ASSUME NEW t \in Threads, AssociateAdd(t)
      PROVE  ResultInv'
  BY <1>19 DEF AssociateAdd
<1>20. ASSUME NEW t \in Threads, GetBacking(t)
      PROVE  ResultInv'
  BY <1>20 DEF GetBacking
<1>21. ASSUME NEW t \in Threads, HandOut(t)
      PROVE  ResultInv'
  BY <1>21 DEF HandOut
<1>22. ASSUME NEW t \in Threads, Done(t)
      PROVE  ResultInv'
  BY <1>22 DEF Done
<1>23. ASSUME NEW t \in Threads, NEW n \in Visible, NEW o \in {"LOOKUP", "CREATE"},
             Lookup(t, n, o)
      PROVE  ResultInv'
  BY <1>23 DEF Lookup
<1>24. ASSUME NEW t \in Threads, NEW n \in Visible, Create(t, n)
      PROVE  ResultInv'
  BY <1>24 DEF Create
<1>25. ASSUME NEW f \in Visible, OtherCreates(f) \/ Reclaim(f)
      PROVE  ResultInv'
  BY <1>25 DEF OtherCreates, Reclaim
<1>26. CASE OtherUnlinks \/ DropAssociation \/ UNCHANGED vars
  BY <1>26 DEF OtherUnlinks, DropAssociation
<1>27. QED
  BY <1>1, <1>2, <1>3, <1>4, <1>5, <1>6, <1>7, <1>8, <1>9, <1>10, <1>11, <1>12,
     <1>13, <1>14, <1>15, <1>16, <1>17, <1>18, <1>19, <1>20, <1>21, <1>22, <1>23,
     <1>24, <1>25, <1>26 DEF Next, LookupStep, CreateStep, SharedStep

\* SectionInv is kept.
LEMMA SectionStep ==
  ASSUME IInv, [Next]_vars
  PROVE  SectionInv'
<1> USE NullAssumption, MayAssumption
    DEF IInv, TypeInv, CallInv, SectionInv
<1>1. ASSUME NEW t \in Threads, OriginalLookup(t)
      PROVE  SectionInv'
  BY <1>1 DEF OriginalLookup
<1>2. ASSUME NEW t \in Threads, CheckAppData(t)
      PROVE  SectionInv'
  BY <1>2 DEF CheckAppData
<1>3. ASSUME NEW t \in Threads, Filter(t)
      PROVE  SectionInv'
  BY <1>3 DEF Filter
<1>4. ASSUME NEW t \in Threads, ShadowLookup(t)
      PROVE  SectionInv'
  BY <1>4 DEF ShadowLookup
<1>5. ASSUME NEW t \in Threads, ShadowOpen(t)
      PROVE  SectionInv'
  BY <1>5 DEF ShadowOpen
<1>6. ASSUME NEW t \in Threads, Reverse(t)
      PROVE  SectionInv'
  BY <1>6 DEF Reverse, AddVnodeShadowReverse
<1>7. ASSUME NEW t \in Threads, AskForCopy(t)
      PROVE  SectionInv'
  BY <1>7 DEF AskForCopy, CopyBegins, NothingCopied, RedirectedPath
<1>8. ASSUME NEW t \in Threads, CopyEnds(t)
      PROVE  SectionInv'
  BY <1>8 DEF CopyEnds, RedirectedPath
<1>9. ASSUME NEW t \in Threads, RedirectedLookup(t)
      PROVE  SectionInv'
  BY <1>9 DEF RedirectedLookup, RedirectedPath
<1>10. ASSUME NEW t \in Threads, Exit(t)
      PROVE  SectionInv'
  BY <1>10 DEF Exit
<1>11. ASSUME NEW t \in Threads, CreateFilter(t)
      PROVE  SectionInv'
  BY <1>11 DEF CreateFilter, OriginalCreates, OriginalFails
<1>12. ASSUME NEW t \in Threads, CreateOriginal(t)
      PROVE  SectionInv'
  BY <1>12 DEF CreateOriginal, OriginalCreates, OriginalFails
<1>13. ASSUME NEW t \in Threads, CreateShadow(t)
      PROVE  SectionInv'
  BY <1>13 DEF CreateShadow
<1>14. ASSUME NEW t \in Threads, CreateReverse(t)
      PROVE  SectionInv'
  BY <1>14 DEF CreateReverse, AddVnodeShadowReverse
<1>15. ASSUME NEW t \in Threads, CreateClose(t)
      PROVE  SectionInv'
  BY <1>15 DEF CreateClose
<1>16. ASSUME NEW t \in Threads, AskForBacking(t)
      PROVE  SectionInv'
  BY <1>16 DEF AskForBacking, CopyBegins, NothingCopied
<1>17. ASSUME NEW t \in Threads, Associate(t)
      PROVE  SectionInv'
  BY <1>17 DEF Associate
<1>18. ASSUME NEW t \in Threads, AssociateLookup(t)
      PROVE  SectionInv'
  BY <1>18 DEF AssociateLookup
<1>19. ASSUME NEW t \in Threads, AssociateAdd(t)
      PROVE  SectionInv'
  BY <1>19 DEF AssociateAdd
<1>20. ASSUME NEW t \in Threads, GetBacking(t)
      PROVE  SectionInv'
  BY <1>20 DEF GetBacking
<1>21. ASSUME NEW t \in Threads, HandOut(t)
      PROVE  SectionInv'
  BY <1>21 DEF HandOut
<1>22. ASSUME NEW t \in Threads, Done(t)
      PROVE  SectionInv'
  BY <1>22 DEF Done
<1>23. ASSUME NEW t \in Threads, NEW n \in Visible, NEW o \in {"LOOKUP", "CREATE"},
             Lookup(t, n, o)
      PROVE  SectionInv'
  BY <1>23 DEF Lookup
<1>24. ASSUME NEW t \in Threads, NEW n \in Visible, Create(t, n)
      PROVE  SectionInv'
  BY <1>24 DEF Create
<1>25. ASSUME NEW f \in Visible, OtherCreates(f) \/ Reclaim(f)
      PROVE  SectionInv'
  BY <1>25 DEF OtherCreates, Reclaim
<1>26. CASE OtherUnlinks \/ DropAssociation \/ UNCHANGED vars
  BY <1>26 DEF OtherUnlinks, DropAssociation
<1>27. QED
  BY <1>1, <1>2, <1>3, <1>4, <1>5, <1>6, <1>7, <1>8, <1>9, <1>10, <1>11, <1>12,
     <1>13, <1>14, <1>15, <1>16, <1>17, <1>18, <1>19, <1>20, <1>21, <1>22, <1>23,
     <1>24, <1>25, <1>26 DEF Next, LookupStep, CreateStep, SharedStep

\* BackedInv is kept.
LEMMA BackedStep ==
  ASSUME IInv, [Next]_vars
  PROVE  BackedInv'
<1> USE NullAssumption, MayAssumption
    DEF IInv, TypeInv, CallInv, BackedInv, RedirectedPath
<1>1. ASSUME NEW t \in Threads, OriginalLookup(t)
      PROVE  BackedInv'
  BY <1>1 DEF OriginalLookup
<1>2. ASSUME NEW t \in Threads, CheckAppData(t)
      PROVE  BackedInv'
  BY <1>2 DEF CheckAppData
<1>3. ASSUME NEW t \in Threads, Filter(t)
      PROVE  BackedInv'
  BY <1>3 DEF Filter
<1>4. ASSUME NEW t \in Threads, ShadowLookup(t)
      PROVE  BackedInv'
  BY <1>4 DEF ShadowLookup
<1>5. ASSUME NEW t \in Threads, ShadowOpen(t)
      PROVE  BackedInv'
  BY <1>5 DEF ShadowOpen
<1>6. ASSUME NEW t \in Threads, Reverse(t)
      PROVE  BackedInv'
  BY <1>6 DEF Reverse, AddVnodeShadowReverse
<1>7. ASSUME NEW t \in Threads, AskForCopy(t)
      PROVE  BackedInv'
  BY <1>7 DEF AskForCopy, CopyBegins, NothingCopied, RedirectedPath
<1>8. ASSUME NEW t \in Threads, CopyEnds(t)
      PROVE  BackedInv'
  BY <1>8 DEF CopyEnds, RedirectedPath
<1>9. ASSUME NEW t \in Threads, RedirectedLookup(t)
      PROVE  BackedInv'
  BY <1>9 DEF RedirectedLookup, RedirectedPath
<1>10. ASSUME NEW t \in Threads, Exit(t)
      PROVE  BackedInv'
  BY <1>10 DEF Exit
<1>11. ASSUME NEW t \in Threads, CreateFilter(t)
      PROVE  BackedInv'
  BY <1>11 DEF CreateFilter, OriginalCreates, OriginalFails
<1>12. ASSUME NEW t \in Threads, CreateOriginal(t)
      PROVE  BackedInv'
  BY <1>12 DEF CreateOriginal, OriginalCreates, OriginalFails
<1>13. ASSUME NEW t \in Threads, CreateShadow(t)
      PROVE  BackedInv'
  BY <1>13 DEF CreateShadow
<1>14. ASSUME NEW t \in Threads, CreateReverse(t)
      PROVE  BackedInv'
  BY <1>14 DEF CreateReverse, AddVnodeShadowReverse
<1>15. ASSUME NEW t \in Threads, CreateClose(t)
      PROVE  BackedInv'
  BY <1>15 DEF CreateClose
<1>16. ASSUME NEW t \in Threads, AskForBacking(t)
      PROVE  BackedInv'
  BY <1>16 DEF AskForBacking, CopyBegins, NothingCopied
<1>17. ASSUME NEW t \in Threads, Associate(t)
      PROVE  BackedInv'
  BY <1>17 DEF Associate
<1>18. ASSUME NEW t \in Threads, AssociateLookup(t)
      PROVE  BackedInv'
  BY <1>18 DEF AssociateLookup
<1>19. ASSUME NEW t \in Threads, AssociateAdd(t)
      PROVE  BackedInv'
  BY <1>19 DEF AssociateAdd
<1>20. ASSUME NEW t \in Threads, GetBacking(t)
      PROVE  BackedInv'
  BY <1>20 DEF GetBacking
<1>21. ASSUME NEW t \in Threads, HandOut(t)
      PROVE  BackedInv'
  BY <1>21 DEF HandOut
<1>22. ASSUME NEW t \in Threads, Done(t)
      PROVE  BackedInv'
  BY <1>22 DEF Done
<1>23. ASSUME NEW t \in Threads, NEW n \in Visible, NEW o \in {"LOOKUP", "CREATE"},
             Lookup(t, n, o)
      PROVE  BackedInv'
  BY <1>23 DEF Lookup
<1>24. ASSUME NEW t \in Threads, NEW n \in Visible, Create(t, n)
      PROVE  BackedInv'
  BY <1>24 DEF Create
<1>25. ASSUME NEW f \in Visible, OtherCreates(f) \/ Reclaim(f)
      PROVE  BackedInv'
  BY <1>25 DEF OtherCreates, Reclaim
<1>26. CASE OtherUnlinks \/ DropAssociation \/ UNCHANGED vars
  BY <1>26 DEF OtherUnlinks, DropAssociation
<1>27. QED
  BY <1>1, <1>2, <1>3, <1>4, <1>5, <1>6, <1>7, <1>8, <1>9, <1>10, <1>11, <1>12,
     <1>13, <1>14, <1>15, <1>16, <1>17, <1>18, <1>19, <1>20, <1>21, <1>22, <1>23,
     <1>24, <1>25, <1>26 DEF Next, LookupStep, CreateStep, SharedStep

OnlyIn(t) ==
  \A u \in Threads \ {t} :
    /\ vpp'[u] = vpp[u] /\ original'[u] = original[u]
    /\ shadow'[u] = shadow[u] /\ backing'[u] = backing[u]

\* A step that changes what is in the hands of t alone.
LEMMA HeldChange ==
  ASSUME HeldInv, NEW t \in Threads, OnlyIn(t),
         held' = [held EXCEPT ![t] = held'[t]], held'[t] \in [Files -> Int],
         \A f \in Files : held'[t][f] = InHand(t, f)'
  PROVE  HeldInv'
<1>1. held' \in [Threads -> [Files -> Int]]
  BY DEF HeldInv
<1>2. ASSUME NEW u \in Threads \ {t}, NEW f \in Files
      PROVE  held'[u][f] = InHand(u, f)'
  BY <1>2 DEF HeldInv, InHand, OnlyIn
<1>3. QED
  BY <1>1, <1>2 DEF HeldInv

\* HeldInv is kept.
LEMMA HeldStep ==
  ASSUME IInv, [Next]_vars
  PROVE  HeldInv'
<1> USE NullAssumption, MayAssumption
    DEF IInv, TypeInv, CallInv, HeldInv, vnode_get, Puts
<1>1. ASSUME NEW t \in Threads, OriginalLookup(t)
      PROVE  HeldInv'
  <2>1. OnlyIn(t)
    BY <1>1 DEF OriginalLookup, OnlyIn
  <2>2. held' = [held EXCEPT ![t] = held'[t]] /\ held'[t] \in [Files -> Int]
    BY <1>1 DEF OriginalLookup
  <2>3. ASSUME NEW f \in Files
        PROVE  held'[t][f] = InHand(t, f)'
    BY <1>1, <2>3 DEF OriginalLookup, InHand, One
  <2>4. QED
    BY <2>1, <2>2, <2>3, HeldChange
<1>2. ASSUME NEW t \in Threads, CheckAppData(t)
      PROVE  HeldInv'
  BY <1>2 DEF CheckAppData, InHand
<1>3. ASSUME NEW t \in Threads, Filter(t)
      PROVE  HeldInv'
  <2>1. OnlyIn(t)
    BY <1>3 DEF Filter, OnlyIn
  <2>2. held' = [held EXCEPT ![t] = held'[t]] /\ held'[t] \in [Files -> Int]
    BY <1>3 DEF Filter
  <2>3. ASSUME NEW f \in Files
        PROVE  held'[t][f] = InHand(t, f)'
    BY <1>3, <2>3 DEF Filter, InHand, One
  <2>4. QED
    BY <2>1, <2>2, <2>3, HeldChange
<1>4. ASSUME NEW t \in Threads, ShadowLookup(t)
      PROVE  HeldInv'
  <2>1. OnlyIn(t)
    BY <1>4 DEF ShadowLookup, OnlyIn
  <2>2. held' = [held EXCEPT ![t] = held'[t]] /\ held'[t] \in [Files -> Int]
    BY <1>4 DEF ShadowLookup
  <2>3. ASSUME NEW f \in Files
        PROVE  held'[t][f] = InHand(t, f)'
    BY <1>4, <2>3 DEF ShadowLookup, InHand, One
  <2>4. QED
    BY <2>1, <2>2, <2>3, HeldChange
<1>5. ASSUME NEW t \in Threads, ShadowOpen(t)
      PROVE  HeldInv'
  <2>1. OnlyIn(t)
    BY <1>5 DEF ShadowOpen, OnlyIn
  <2>2. held' = [held EXCEPT ![t] = held'[t]] /\ held'[t] \in [Files -> Int]
    BY <1>5 DEF ShadowOpen
  <2>3. ASSUME NEW f \in Files
        PROVE  held'[t][f] = InHand(t, f)'
    BY <1>5, <2>3 DEF ShadowOpen, InHand, One
  <2>4. QED
    BY <2>1, <2>2, <2>3, HeldChange
<1>6. ASSUME NEW t \in Threads, Reverse(t)
      PROVE  HeldInv'
  BY <1>6 DEF Reverse, AddVnodeShadowReverse, InHand
<1>7. ASSUME NEW t \in Threads, AskForCopy(t)
      PROVE  HeldInv'
  BY <1>7 DEF AskForCopy, CopyBegins, NothingCopied, RedirectedPath, InHand
<1>8. ASSUME NEW t \in Threads, CopyEnds(t)
      PROVE  HeldInv'
  BY <1>8 DEF CopyEnds, RedirectedPath, InHand
<1>9. ASSUME NEW t \in Threads, RedirectedLookup(t)
      PROVE  HeldInv'
  <2>1. OnlyIn(t)
    BY <1>9 DEF RedirectedLookup, RedirectedPath, OnlyIn
  <2>2. held' = [held EXCEPT ![t] = held'[t]] /\ held'[t] \in [Files -> Int]
    BY <1>9 DEF RedirectedLookup, RedirectedPath
  <2>3. ASSUME NEW f \in Files
        PROVE  held'[t][f] = InHand(t, f)'
    BY <1>9, <2>3 DEF RedirectedLookup, RedirectedPath, InHand, One
  <2>4. QED
    BY <2>1, <2>2, <2>3, HeldChange
<1>10. ASSUME NEW t \in Threads, Exit(t)
      PROVE  HeldInv'
  <2>1. OnlyIn(t)
    BY <1>10 DEF Exit, OnlyIn
  <2>2. held' = [held EXCEPT ![t] = held'[t]] /\ held'[t] \in [Files -> Int]
    BY <1>10 DEF Exit
  <2>3. ASSUME NEW f \in Files
        PROVE  held'[t][f] = InHand(t, f)'
    BY <1>10, <2>3 DEF Exit, InHand, One
  <2>4. QED
    BY <2>1, <2>2, <2>3, HeldChange
<1>11. ASSUME NEW t \in Threads, CreateFilter(t)
      PROVE  HeldInv'
  <2>1. OnlyIn(t)
    BY <1>11 DEF CreateFilter, OriginalCreates, OriginalFails, OnlyIn
  <2>2. held' = [held EXCEPT ![t] = held'[t]] /\ held'[t] \in [Files -> Int]
    BY <1>11 DEF CreateFilter, OriginalCreates, OriginalFails
  <2>3. ASSUME NEW f \in Files
        PROVE  held'[t][f] = InHand(t, f)'
    BY <1>11, <2>3 DEF CreateFilter, OriginalCreates, OriginalFails, InHand, One
  <2>4. QED
    BY <2>1, <2>2, <2>3, HeldChange
<1>12. ASSUME NEW t \in Threads, CreateOriginal(t)
      PROVE  HeldInv'
  <2>1. OnlyIn(t)
    BY <1>12 DEF CreateOriginal, OriginalCreates, OriginalFails, OnlyIn
  <2>2. held' = [held EXCEPT ![t] = held'[t]] /\ held'[t] \in [Files -> Int]
    BY <1>12 DEF CreateOriginal, OriginalCreates, OriginalFails
  <2>3. ASSUME NEW f \in Files
        PROVE  held'[t][f] = InHand(t, f)'
    BY <1>12, <2>3 DEF CreateOriginal, OriginalCreates, OriginalFails, InHand, One
  <2>4. QED
    BY <2>1, <2>2, <2>3, HeldChange
<1>13. ASSUME NEW t \in Threads, CreateShadow(t)
      PROVE  HeldInv'
  <2>1. OnlyIn(t)
    BY <1>13 DEF CreateShadow, OnlyIn
  <2>2. held' = [held EXCEPT ![t] = held'[t]] /\ held'[t] \in [Files -> Int]
    BY <1>13 DEF CreateShadow
  <2>3. ASSUME NEW f \in Files
        PROVE  held'[t][f] = InHand(t, f)'
    <3>1. held[t][f] = One(original[t], f) /\ One(original[t], f) \in {0, 1}
      BY <1>13, <2>3 DEF CreateShadow, InHand, One
    <3>2. CASE shadow'[t] = "shadow"
      BY <1>13, <2>3, <3>1, <3>2 DEF CreateShadow, InHand, One
    <3>3. CASE shadow'[t] # "shadow"
      <4>1. held' = Puts(t, << original[t], NULLVP >>)
        BY <1>13, <3>3 DEF CreateShadow
      <4>2. held'[t][f] = held[t][f] - One(original[t], f) - One(NULLVP, f)
        BY <2>3, <4>1 DEF One
      <4>3. /\ original'[t] = NULLVP /\ shadow'[t] = NULLVP
            /\ vpp'[t] = NULLVP /\ backing'[t] = NULLVP
        BY <1>13, <3>3 DEF CreateShadow
      <4>4. One(NULLVP, f) = 0
        BY <2>3 DEF One
      <4>5. held'[t][f] = 0
        BY <3>1, <4>2, <4>4
      <4>6. InHand(t, f)' = 0
        BY <2>3, <4>3, <4>4 DEF InHand, One
      <4>7. QED
        BY <4>5, <4>6
    <3>4. QED
      BY <3>2, <3>3
  <2>4. QED
    BY <2>1, <2>2, <2>3, HeldChange
<1>14. ASSUME NEW t \in Threads, CreateReverse(t)
      PROVE  HeldInv'
  BY <1>14 DEF CreateReverse, AddVnodeShadowReverse, InHand
<1>15. ASSUME NEW t \in Threads, CreateClose(t)
      PROVE  HeldInv'
  <2>1. OnlyIn(t)
    BY <1>15 DEF CreateClose, OnlyIn
  <2>2. held' = [held EXCEPT ![t] = held'[t]] /\ held'[t] \in [Files -> Int]
    BY <1>15 DEF CreateClose
  <2>3. ASSUME NEW f \in Files
        PROVE  held'[t][f] = InHand(t, f)'
    BY <1>15, <2>3 DEF CreateClose, InHand, One
  <2>4. QED
    BY <2>1, <2>2, <2>3, HeldChange
<1>16. ASSUME NEW t \in Threads, AskForBacking(t)
      PROVE  HeldInv'
  BY <1>16 DEF AskForBacking, CopyBegins, NothingCopied, InHand
<1>17. ASSUME NEW t \in Threads, Associate(t)
      PROVE  HeldInv'
  BY <1>17 DEF Associate, InHand
<1>18. ASSUME NEW t \in Threads, AssociateLookup(t)
      PROVE  HeldInv'
  <2>1. OnlyIn(t)
    BY <1>18 DEF AssociateLookup, OnlyIn
  <2>2. held' = [held EXCEPT ![t] = held'[t]] /\ held'[t] \in [Files -> Int]
    BY <1>18 DEF AssociateLookup
  <2>3. ASSUME NEW f \in Files
        PROVE  held'[t][f] = InHand(t, f)'
    BY <1>18, <2>3 DEF AssociateLookup, InHand, One
  <2>4. QED
    BY <2>1, <2>2, <2>3, HeldChange
<1>19. ASSUME NEW t \in Threads, AssociateAdd(t)
      PROVE  HeldInv'
  <2>1. OnlyIn(t)
    BY <1>19 DEF AssociateAdd, OnlyIn
  <2>2. held' = [held EXCEPT ![t] = held'[t]] /\ held'[t] \in [Files -> Int]
    BY <1>19 DEF AssociateAdd
  <2>3. ASSUME NEW f \in Files
        PROVE  held'[t][f] = InHand(t, f)'
    <3>1. held' = Puts(t, << backing[t], NULLVP >>)
      BY <1>19 DEF AssociateAdd
    <3>2. held'[t][f] = held[t][f] - One(backing[t], f)
      BY <1>19, <2>3, <3>1 DEF One
    <3>3. InHand(t, f)' = One(vpp[t], f) + One(original[t], f) + One(shadow[t], f)
                            + One(NULLVP, f)
      BY <1>19 DEF AssociateAdd, InHand
    <3>4. held[t][f] = One(vpp[t], f) + One(original[t], f) + One(shadow[t], f)
                         + One(backing[t], f)
      BY <2>3 DEF InHand
    <3>5. held[t][f] \in Int /\ One(NULLVP, f) = 0
      BY <2>3 DEF One
    <3>6. \A a : One(a, f) \in Int
      BY DEF One
    <3>7. QED
      BY <3>2, <3>3, <3>4, <3>5, <3>6
  <2>4. QED
    BY <2>1, <2>2, <2>3, HeldChange
<1>20. ASSUME NEW t \in Threads, GetBacking(t)
      PROVE  HeldInv'
  <2>1. OnlyIn(t)
    BY <1>20 DEF GetBacking, OnlyIn
  <2>2. held' = [held EXCEPT ![t] = held'[t]] /\ held'[t] \in [Files -> Int]
    BY <1>20 DEF GetBacking
  <2>3. ASSUME NEW f \in Files
        PROVE  held'[t][f] = InHand(t, f)'
    BY <1>20, <2>3 DEF GetBacking, InHand, One
  <2>4. QED
    BY <2>1, <2>2, <2>3, HeldChange
<1>21. ASSUME NEW t \in Threads, HandOut(t)
      PROVE  HeldInv'
  <2>1. OnlyIn(t)
    BY <1>21 DEF HandOut, OnlyIn
  <2>2. held' = [held EXCEPT ![t] = held'[t]] /\ held'[t] \in [Files -> Int]
    BY <1>21 DEF HandOut
  <2>3. ASSUME NEW f \in Files
        PROVE  held'[t][f] = InHand(t, f)'
    BY <1>21, <2>3 DEF HandOut, InHand, One
  <2>4. QED
    BY <2>1, <2>2, <2>3, HeldChange
<1>22. ASSUME NEW t \in Threads, Done(t)
      PROVE  HeldInv'
  <2>1. OnlyIn(t)
    BY <1>22 DEF Done, OnlyIn
  <2>2. held' = [held EXCEPT ![t] = held'[t]] /\ held'[t] \in [Files -> Int]
    BY <1>22 DEF Done
  <2>3. ASSUME NEW f \in Files
        PROVE  held'[t][f] = InHand(t, f)'
    BY <1>22, <2>3 DEF Done, InHand, One
  <2>4. QED
    BY <2>1, <2>2, <2>3, HeldChange
<1>23. ASSUME NEW t \in Threads, NEW n \in Visible, NEW o \in {"LOOKUP", "CREATE"},
             Lookup(t, n, o)
      PROVE  HeldInv'
  BY <1>23 DEF Lookup, InHand
<1>24. ASSUME NEW t \in Threads, NEW n \in Visible, Create(t, n)
      PROVE  HeldInv'
  BY <1>24 DEF Create, InHand
<1>25. ASSUME NEW f \in Visible, OtherCreates(f) \/ Reclaim(f)
      PROVE  HeldInv'
  BY <1>25 DEF OtherCreates, Reclaim, InHand
<1>26. CASE OtherUnlinks \/ DropAssociation \/ UNCHANGED vars
  BY <1>26 DEF OtherUnlinks, DropAssociation, InHand
<1>27. QED
  BY <1>1, <1>2, <1>3, <1>4, <1>5, <1>6, <1>7, <1>8, <1>9, <1>10, <1>11, <1>12,
     <1>13, <1>14, <1>15, <1>16, <1>17, <1>18, <1>19, <1>20, <1>21, <1>22, <1>23,
     <1>24, <1>25, <1>26 DEF Next, LookupStep, CreateStep, SharedStep

----------------------------------------------------------------------------
(* The theorems.                                                           *)

\* The strengthened invariant of the lookup and create hooks: which vnodes and
\* which section a hook has at each of its steps, and what is in the storage.
THEOREM Inductive == Spec => []IInv
<1>1. Init => IInv
  BY InitIInv
<1>2. IInv /\ [Next]_vars => IInv'
  BY DiskStep, TypeStep, CallStep, ResultStep, SectionStep, BackedStep, HeldStep
     DEF IInv
<1>3. QED
  BY <1>1, <1>2, PTL DEF Spec

\* No vnode is put twice and none is forgotten on any path of the two hooks, for
\* any number of threads.
THEOREM HoldsAreExact == Spec => []VnodesAreHeld
<1>1. IInv => VnodesAreHeld
  BY DEF IInv, HeldInv, InHand, One, VnodesAreHeld
<1>2. QED
  BY <1>1, Inductive, PTL

\* A hook returns a vnode exactly when it returns no error.
THEOREM ResultIsConsistent == Spec => []ResultAgrees
<1>1. IInv => ResultAgrees
  BY DEF IInv, ResultInv, ResultAgrees, At
<1>2. QED
  BY <1>1, Inductive, PTL

\* The calls a hook makes are not redirected again, and its thread is not taken
\* for a recursive one afterwards.
THEOREM NestingIsMarked == Spec => []NestedCallsAreMarked
<1>1. IInv => NestedCallsAreMarked
  BY DEF IInv, CallInv, SectionInv, NestedCallsAreMarked, NestedPc, BothPc
<1>2. QED
  BY <1>1, Inductive, PTL

\* An application never gets a shadow without a backing file for the original.
THEOREM ShadowIsBacked == Spec => []HandedOutShadowIsBacked
<1>1. IInv => HandedOutShadowIsBacked
  BY DEF IInv, BackedInv, HandedOutShadowIsBacked
<1>2. QED
  BY <1>1, Inductive, PTL

\* Types; a vnode that were put twice would make its count negative.
THEOREM TypeCorrect == Spec => []TypeOK
<1>1. ASSUME IInv
      PROVE  held \in [Threads -> [Files -> Nat]]
  <2>1. ASSUME NEW t \in Threads, NEW f \in Files
        PROVE  held[t][f] \in Nat
    BY <1>1, <2>1 DEF IInv, HeldInv, InHand, One
  <2>2. QED
    BY <1>1, <2>1 DEF IInv, HeldInv
<1>2. ASSUME IInv
      PROVE  TypeOK
  BY <1>1, <1>2, NullAssumption DEF IInv, DiskInv, TypeInv, CallInv, TypeOK, Vnode, Files
<1>3. QED
  BY <1>2, Inductive, PTL
==============================================================================
