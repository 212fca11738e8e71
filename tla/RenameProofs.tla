----------------------------- MODULE RenameProofs -----------------------------
(***************************************************************************)
(* Proofs about Rename, for any threads, names and documents.  A document  *)
(* is whole only between calls: WholeNow says how far the only call is on  *)
(* its way, as the wholeness of the files with its next steps done, and    *)
(* SeenNow that what it has looked up is still so.  Both need that no call *)
(* overlapped and nothing failed; what is held, and what each call has in  *)
(* hand (CallInv), needs neither.                                          *)
(***************************************************************************)
EXTENDS Rename, FiniteSetTheorems, TLAPS

Places == {"idle", "exit", "return"} \cup RenamePc \cup PathPc \cup ExPc

\* TypeOK, without the bound of the counts.
TypeInv ==
  /\ orig \in [Names -> Doc] /\ shadow \in [Names -> Doc] /\ redirected \in [Names -> Doc]
  /\ plain \in SUBSET Docs
  /\ data \in [Docs -> Doc] /\ size \in [Docs -> Doc]
  /\ vnodeIO \in [Docs -> Doc] /\ shadowReverse \in [Docs -> Doc]
  /\ pc \in [Threads -> Places]
  /\ op \in [Threads -> Ops]
  /\ from \in [Threads -> Names] /\ to \in [Threads -> Names]
  /\ fvp \in [Threads -> Doc] /\ tvp \in [Threads -> Doc]
  /\ v \in [Threads -> [Locals -> Vnode]]
  /\ error \in [Threads -> {"ok", "other"}]

FlagInv ==
  /\ swapped \in [Threads -> BOOLEAN]
  /\ overlapped \in BOOLEAN /\ degraded \in BOOLEAN

Beginning == { "idle", "return", "fdvp", "newF", "backingF" }
BeforeFvp == { "tdvp", "redirectedF" }
BeforeTvp == BeforeFvp \cup { "originalF", "redirectedT", "leftover" }
LeftoverPc == { "leftover", "leftoverOriginal", "truncate" }

\* What each call has been given, and which vnodes it has looked up.
Call(t) ==
  /\ swapped[t] => pc[t] = "exit"
  /\ pc[t] = "idle" => op[t] = "rename"
  /\ pc[t] \in RenamePc => op[t] = "rename"
  /\ pc[t] \in PathPc => op[t] = "renamePath"
  /\ pc[t] \in ExPc => op[t] = "exchange"
  /\ pc[t] \notin {"exit", "return"} => error[t] = "ok"
  /\ pc[t] # "idle" => from[t] # to[t]
  /\ pc[t] \in ExPc => fvp[t] \in Docs /\ tvp[t] \in Docs
  /\ pc[t] \in RenamePc => fvp[t] \in Docs
  /\ pc[t] \in LeftoverPc => tvp[t] = NULLVP
  /\ pc[t] \in {"redirectedT", "originalT"} => tvp[t] # NULLVP
  /\ pc[t] \in Beginning => \A l \in Locals : v[t][l] = NULLVP
  /\ pc[t] = "tdvp" => v[t]["tdvp"] = NULLVP
  /\ pc[t] \in BeforeFvp => v[t]["redirectedF"] = NULLVP
  /\ pc[t] \in BeforeFvp \cup {"originalF"} => v[t]["originalF"] = NULLVP
  /\ pc[t] \in BeforeTvp => v[t]["redirectedT"] = NULLVP
  /\ pc[t] \in BeforeTvp \cup LeftoverPc \cup {"originalT"} => v[t]["originalT"] = NULLVP
  /\ pc[t] = "newT" => v[t]["newT"] = NULLVP
  /\ pc[t] = "backingT" => v[t]["backingT"] = NULLVP
  /\ pc[t] \in RenamePc \ (BeforeFvp \cup {"fdvp"}) => v[t]["redirectedF"] # NULLVP
  /\ pc[t] \in RenamePc \ (BeforeFvp \cup {"fdvp", "originalF"}) =>
       v[t]["originalF"] # NULLVP
  /\ pc[t] \in {"leftoverOriginal", "truncate", "originalT"} => v[t]["redirectedT"] # NULLVP
  /\ pc[t] \in {"backingT", "ask"} => v[t]["backingF"] \in Docs
  /\ pc[t] = "ask" => v[t]["backingT"] \in Docs

CallInv == \A t \in Threads : Call(t)

InHand(t) == {l \in Locals : v[t][l] # NULLVP}

HeldInv == held \in [Threads -> Nat] /\ \A t \in Threads : held[t] = Cardinality(InHand(t))

Active(t) == pc[t] # "idle"
Alone == \A t, u \in Threads : Active(t) /\ Active(u) => t = u

AloneInv == ~overlapped => Alone

\* How far the three renames have come, and what an error leaves.
Moved(t) ==
  /\ pc[t] \in RenamePc \ {"dissociate"} => orig[from[t]] # NULLVP
  /\ pc[t] \in {"renameShadow", "renameOriginal"} =>
       redirected[to[t]] # NULLVP /\ redirected[from[t]] = NULLVP
  /\ pc[t] = "renameOriginal" => shadow[to[t]] = fvp[t] /\ shadow[from[t]] = NULLVP
  /\ pc[t] = "dissociate" \/ (pc[t] \in {"exit", "return"} /\ error[t] = "ok") =>
       /\ shadow[to[t]] = fvp[t] /\ redirected[to[t]] # NULLVP /\ orig[to[t]] # NULLVP
       /\ orig[from[t]] = NULLVP /\ shadow[from[t]] = NULLVP
       /\ redirected[from[t]] = NULLVP
  /\ pc[t] \in {"exit", "return"} /\ error[t] # "ok" => orig[from[t]] # NULLVP

MovedInv == ~overlapped => \A t \in Threads : op[t] = "rename" /\ Active(t) => Moved(t)

\* Every shadow, also one that is being replaced, has its own backing file.
BackedInv ==
  Clean =>
    /\ \A n \in Names : shadow[n] # NULLVP => vnodeIO[shadow[n]] = shadow[n]
    /\ \A t \in Threads : op[t] # "renamePath" =>
         /\ fvp[t] # NULLVP => vnodeIO[fvp[t]] = fvp[t]
         /\ tvp[t] # NULLVP => vnodeIO[tvp[t]] = tvp[t]

\* DocumentsAreWhole of any plain documents p, directories o, s and r, and
\* contents d and z; and no two names share a file of the storage.
Whole(p, o, s, r, d, z) ==
  \A n \in Names :
    /\ o[n] \in Docs \ p => s[n] = o[n]
    /\ s[n] # NULLVP =>
         /\ s[n] \notin p
         /\ r[n] = s[n] /\ o[n] = s[n]
         /\ d[s[n]] # NULLVP /\ z[s[n]] = d[s[n]]
    /\ r[n] # NULLVP => \A m \in Names \ {n} : r[m] # r[n]

Renaming(dir, n, m, f) == [dir EXCEPT ![m] = f, ![n] = NULLVP]

\* In the middle of a call the documents would be whole with its next steps done.
WholeNow(t) ==
  /\ pc[t] = "renameShadow" =>
       Whole(plain, Renaming(orig, from[t], to[t], fvp[t]),
             Renaming(shadow, from[t], to[t], fvp[t]), redirected, data, size)
  /\ pc[t] = "renameOriginal" =>
       Whole(plain, Renaming(orig, from[t], to[t], fvp[t]), shadow, redirected, data, size)
  /\ pc[t] = "exchange" =>
       Whole(plain, orig, shadow, redirected, data, Exchanged(size, fvp[t], tvp[t]))
  /\ pc[t] \notin {"renameShadow", "renameOriginal", "exchange"} =>
       Whole(plain, orig, shadow, redirected, data, size)

\* What a call has looked up is still what the names stand for.
SeenNow(t) ==
  /\ pc[t] \in (RenamePc \ {"renameOriginal", "dissociate"}) \cup (ExPc \ {"exchange"}) =>
       fvp[t] = shadow[from[t]] /\ tvp[t] = shadow[to[t]]
  /\ pc[t] \in LeftoverPc \cup {"fdvp"} \cup BeforeFvp \cup {"originalF"}
     /\ tvp[t] = NULLVP => orig[to[t]] = NULLVP
  /\ pc[t] \in {"originalF", "leftover", "redirectedT", "originalT", "leftoverOriginal",
                "truncate", "renameRedirected"} => v[t]["redirectedF"] = redirected[from[t]]
  /\ pc[t] \in {"leftover", "redirectedT", "originalT", "leftoverOriginal", "truncate",
                "renameRedirected", "renameShadow", "renameOriginal"} =>
       v[t]["originalF"] = orig[from[t]] /\ v[t]["originalF"] = fvp[t]
  /\ pc[t] \in {"originalT", "leftoverOriginal", "truncate", "renameRedirected"} =>
       v[t]["redirectedT"] = redirected[to[t]]
  /\ pc[t] \in {"renameRedirected", "renameShadow", "renameOriginal"} =>
       v[t]["originalT"] = orig[to[t]]
  /\ pc[t] \in {"backingT", "ask"} => v[t]["backingF"] = fvp[t]
  /\ pc[t] = "ask" => v[t]["backingT"] = tvp[t]
  /\ pc[t] \in PathPc =>
       orig[from[t]] \in plain /\ shadow[from[t]] = NULLVP /\ shadow[to[t]] = NULLVP
  /\ pc[t] = "renameOriginal" => fvp[t] # NULLVP

WholeInv ==
  Clean =>
    /\ Quiet => Whole(plain, orig, shadow, redirected, data, size)
    /\ \A t \in Threads : Active(t) => WholeNow(t) /\ SeenNow(t)

IInv == /\ TypeInv /\ FlagInv /\ CallInv /\ HeldInv /\ AloneInv /\ MovedInv
        /\ BackedInv /\ WholeInv

----------------------------------------------------------------------------
USE DEF At, Goto, Set, dirs, disk, maps, args, vars, Places, RenamePc, PathPc, ExPc,
        Doc, Vnode, Ops

\* The steps of a call one by one, and what happens around the calls.
LEMMA Steps ==
  ASSUME NEW t \in Threads, Step(t)
  PROVE  \/ NewFvp(t) \/ NewTvp(t) \/ RenameNew(t)
         \/ RedirectedFdvp(t) \/ RedirectedTdvp(t) \/ RedirectedFvp(t) \/ OriginalFvp(t)
         \/ RedirectedTvp(t) \/ OriginalTvp(t) \/ Leftover(t) \/ LeftoverOriginal(t)
         \/ Truncate(t) \/ RenameRedirected(t) \/ RenameShadow(t) \/ RenameOriginal(t)
         \/ RemoveShadowReverse(t)
         \/ BackingFvp(t) \/ BackingTvp(t) \/ AskDaemon(t) \/ ExchangeShadows(t)
         \/ Exit(t) \/ Return(t)
BY DEF Step

\* There is a name.
LEMMA ANameIsName == AName \in Names
BY NamesAssumption DEF AName

\* The initial states satisfy the invariant.
LEMMA InitIInv ==
  ASSUME Init
  PROVE  IInv
<1> USE NullAssumption, ANameIsName DEF Init, NoFiles, NoVnodes
<1>1. TypeInv
  BY DEF TypeInv
<1>2. FlagInv
  BY Zenon DEF FlagInv
<1>3. CallInv /\ AloneInv /\ MovedInv /\ BackedInv
  BY DEF CallInv, Call, AloneInv, Alone, Active, MovedInv, BackedInv, Beginning, BeforeFvp,
         BeforeTvp, LeftoverPc
<1>4. HeldInv
  <2>1. \A t \in Threads : InHand(t) = {}
    BY DEF InHand
  <2>2. QED
    BY <2>1, FS_EmptySet DEF HeldInv
<1>5. WholeInv
  BY DEF WholeInv, Whole, Active
<1>6. QED
  BY <1>1, <1>2, <1>3, <1>4, <1>5 DEF IInv

\* A lookup changes a local vnode and how the call goes on.
LEMMA LocalType ==
  ASSUME NEW t \in Threads, NEW l \in Locals, NEW file \in Vnode,
         NEW w \in [Threads -> [Locals -> Vnode]]
  PROVE  [w EXCEPT ![t][l] = file] \in [Threads -> [Locals -> Vnode]]
<1>1. [w[t] EXCEPT ![l] = file] \in [Locals -> Vnode]
  OBVIOUS
<1>2. [w EXCEPT ![t] = [w[t] EXCEPT ![l] = file]] \in [Threads -> [Locals -> Vnode]]
  BY <1>1
<1>3. QED
  BY <1>2

\* A lookup keeps the types.
LEMMA LookupType ==
  ASSUME TypeInv, NEW t \in Threads, NEW l \in Locals, NEW file \in Vnode,
         NEW next \in Places, VnodeLookup(t, l, file, next)
  PROVE  TypeInv'
<1>1. v' \in [Threads -> [Locals -> Vnode]]
  <2>1. v \in [Threads -> [Locals -> Vnode]]
    BY DEF TypeInv
  <2>2. [v EXCEPT ![t][l] = file] \in [Threads -> [Locals -> Vnode]]
    BY <2>1, LocalType
  <2>3. v' = v \/ v' = [v EXCEPT ![t][l] = file]
    BY Zenon DEF VnodeLookup, LookedUp
  <2>4. QED
    BY <2>1, <2>2, <2>3
<1>2. pc' \in [Threads -> Places] /\ error' \in [Threads -> {"ok", "other"}]
  BY DEF VnodeLookup, TypeInv, Fails
<1>3. QED
  BY <1>1, <1>2 DEF VnodeLookup, TypeInv

\* Taking a reference keeps the types.
LEMMA RefType ==
  ASSUME TypeInv, NEW t \in Threads, NEW l \in Locals, NEW d \in Docs,
         NEW next \in Places, GetVnodeIORef(t, l, d, next)
  PROVE  TypeInv'
<1>1. v' \in [Threads -> [Locals -> Vnode]]
  <2>1. v \in [Threads -> [Locals -> Vnode]] /\ vnodeIO[d] \in Vnode
    BY DEF TypeInv
  <2>2. [v EXCEPT ![t][l] = vnodeIO[d]] \in [Threads -> [Locals -> Vnode]]
    BY <2>1, LocalType
  <2>3. v' = v \/ v' = [v EXCEPT ![t][l] = vnodeIO[d]]
    BY Zenon DEF GetVnodeIORef, LookedUp
  <2>4. QED
    BY <2>1, <2>2, <2>3
<1>2. pc' \in [Threads -> Places]
  BY DEF GetVnodeIORef, TypeInv
<1>3. QED
  BY <1>1, <1>2 DEF GetVnodeIORef, TypeInv

\* A directory after a rename in it.
LEMMA RenamedType ==
  ASSUME NEW t, NEW dir \in [Names -> Doc], NEW f \in Doc
  PROVE  Renamed(dir, t, f) \in [Names -> Doc]
BY DEF Renamed

\* Every step keeps the types.
LEMMA TypeStep ==
  ASSUME IInv, [Next]_vars
  PROVE  TypeInv'
<1> USE NullAssumption, ANameIsName DEF IInv
<1>0. Locals = { "fdvp", "tdvp", "redirectedF", "redirectedT", "originalF", "originalT",
                 "newF", "newT", "backingF", "backingT" }
  BY DEF Locals
<1>1. ASSUME NEW t \in Threads, NewFvp(t) \/ NewTvp(t)
      PROVE  TypeInv'
  <2>1. orig[from[t]] \in Vnode /\ orig[to[t]] \in Vnode
    BY DEF TypeInv
  <2>2. CASE NewFvp(t)
    BY <1>0, <2>1, <2>2, LookupType DEF NewFvp
  <2>3. CASE NewTvp(t)
    BY <1>0, <2>1, <2>3, LookupType DEF NewTvp
  <2>4. QED
    BY <1>1, <2>2, <2>3
<1>2. ASSUME NEW t \in Threads,
             \/ RedirectedFdvp(t) \/ RedirectedTdvp(t) \/ RedirectedFvp(t)
             \/ OriginalFvp(t) \/ RedirectedTvp(t) \/ OriginalTvp(t)
      PROVE  TypeInv'
  <2>1. /\ orig[from[t]] \in Vnode /\ orig[to[t]] \in Vnode
        /\ redirected[from[t]] \in Vnode /\ redirected[to[t]] \in Vnode
    BY DEF TypeInv
  <2>2. CASE RedirectedFdvp(t)
    BY <1>0, <2>2, LookupType DEF RedirectedFdvp
  <2>3. CASE RedirectedTdvp(t)
    BY <1>0, <2>3, LookupType DEF RedirectedTdvp
  <2>4. CASE RedirectedFvp(t)
    BY <1>0, <2>1, <2>4, LookupType DEF RedirectedFvp
  <2>5. CASE OriginalFvp(t)
    BY <1>0, <2>1, <2>5, LookupType DEF OriginalFvp
  <2>6. CASE RedirectedTvp(t)
    BY <1>0, <2>1, <2>6, LookupType DEF RedirectedTvp
  <2>7. CASE OriginalTvp(t)
    BY <1>0, <2>1, <2>7, LookupType DEF OriginalTvp
  <2>8. QED
    BY <1>2, <2>2, <2>3, <2>4, <2>5, <2>6, <2>7
<1>3. ASSUME NEW t \in Threads, BackingFvp(t) \/ BackingTvp(t)
      PROVE  TypeInv'
  <2>1. fvp[t] \in Docs /\ tvp[t] \in Docs
    BY <1>3 DEF BackingFvp, BackingTvp, GetVnodeIORef, CallInv, Call
  <2>2. CASE BackingFvp(t)
    BY <1>0, <2>1, <2>2, RefType DEF BackingFvp
  <2>3. CASE BackingTvp(t)
    BY <1>0, <2>1, <2>3, RefType DEF BackingTvp
  <2>4. QED
    BY <1>3, <2>2, <2>3
<1>4. ASSUME NEW t \in Threads, RenameNew(t)
      PROVE  TypeInv'
  <2>1. orig' \in [Names -> Doc]
    <3>1. CASE orig' = Renamed(orig, t, v[t]["newF"]) /\ orig[from[t]] = v[t]["newF"]
      BY <3>1, RenamedType DEF TypeInv
    <3>2. QED
      BY <1>4, <3>1 DEF RenameNew, CanRename, TypeInv
  <2>2. pc' \in [Threads -> Places] /\ error' \in [Threads -> {"ok", "other"}]
    BY <1>4 DEF RenameNew, TypeInv
  <2>3. QED
    BY <1>4, <2>1, <2>2 DEF RenameNew, TypeInv
<1>5. ASSUME NEW t \in Threads, Leftover(t) \/ LeftoverOriginal(t)
      PROVE  TypeInv'
  <2>1. redirected[to[t]] \in Vnode
    BY DEF TypeInv
  <2>2. v' \in [Threads -> [Locals -> Vnode]]
    <3>1. "redirectedT" \in Locals /\ NULLVP \in Vnode /\ v \in [Threads -> [Locals -> Vnode]]
      BY <1>0 DEF TypeInv
    <3>2. \/ v' = v \/ v' = [v EXCEPT ![t]["redirectedT"] = redirected[to[t]]]
          \/ v' = [v EXCEPT ![t]["redirectedT"] = NULLVP]
      BY <1>5, Zenon DEF Leftover, LeftoverOriginal, LeftoverOriginalAs, LookedUp
    <3>3. /\ [v EXCEPT ![t]["redirectedT"] = redirected[to[t]]]
               \in [Threads -> [Locals -> Vnode]]
          /\ [v EXCEPT ![t]["redirectedT"] = NULLVP] \in [Threads -> [Locals -> Vnode]]
      BY <2>1, <3>1, LocalType
    <3>4. QED
      BY <3>1, <3>2, <3>3
  <2>3. pc' \in [Threads -> Places]
    <3>1. PICK l \in {"leftoverOriginal", "renameRedirected", "truncate"} : Goto(t, l)
      BY <1>5, Zenon DEF Leftover, LeftoverOriginal, LeftoverOriginalAs
    <3>2. pc \in [Threads -> Places] /\ l \in Places
      BY DEF TypeInv
    <3>3. QED
      BY <3>1, <3>2
  <2>4. QED
    BY <1>5, <2>2, <2>3 DEF Leftover, LeftoverOriginal, LeftoverOriginalAs, TypeInv
<1>6. ASSUME NEW t \in Threads, Truncate(t)
      PROVE  TypeInv'
  <2>1. data' \in [Docs -> Doc]
    BY <1>6 DEF Truncate, TypeInv
  <2>2. QED
    BY <1>6, <2>1 DEF Truncate, TypeInv
<1>7. ASSUME NEW t \in Threads,
             RenameRedirected(t) \/ RenameShadow(t) \/ RenameOriginal(t)
      PROVE  TypeInv'
  <2>1. pc' \in [Threads -> Places] /\ error' \in [Threads -> {"ok", "other"}]
    BY <1>7 DEF RenameRedirected, RenameShadow, RenameShadowOr, RenameOriginal,
                RenameOriginalIf, RenameIn, Fails, TypeInv
  <2>2. /\ orig' = orig \/ orig' = Renamed(orig, t, orig[from[t]])
        /\ shadow' = shadow \/ shadow' = Renamed(shadow, t, shadow[from[t]])
        /\ redirected' = redirected \/ redirected' = Renamed(redirected, t, redirected[from[t]])
    BY <1>7 DEF RenameRedirected, RenameShadow, RenameShadowOr, RenameOriginal,
                RenameOriginalIf, RenameIn, CanRename
  <2>3. /\ orig[from[t]] \in Doc /\ shadow[from[t]] \in Doc /\ redirected[from[t]] \in Doc
    BY DEF TypeInv
  <2>4. orig' \in [Names -> Doc] /\ shadow' \in [Names -> Doc] /\ redirected' \in [Names -> Doc]
    <3>1. /\ Renamed(orig, t, orig[from[t]]) \in [Names -> Doc]
          /\ Renamed(shadow, t, shadow[from[t]]) \in [Names -> Doc]
          /\ Renamed(redirected, t, redirected[from[t]]) \in [Names -> Doc]
      BY <2>3 DEF Renamed, TypeInv
    <3>2. QED
      BY <2>2, <3>1 DEF TypeInv
  <2>5. QED
    BY <1>7, <2>1, <2>4 DEF RenameRedirected, RenameShadow, RenameShadowOr, RenameOriginal,
                            RenameOriginalIf, RenameIn, TypeInv
<1>8. ASSUME NEW t \in Threads, RemoveShadowReverse(t)
      PROVE  TypeInv'
  BY <1>8 DEF RemoveShadowReverse, TypeInv
<1>9. ASSUME NEW t \in Threads, AskDaemon(t)
      PROVE  TypeInv'
  <2>1. v[t]["backingF"] \in Docs /\ v[t]["backingT"] \in Docs
    BY <1>9 DEF AskDaemon, CallInv, Call
  <2>2. data' \in [Docs -> Doc]
    <3>1. Exchanged(data, v[t]["backingF"], v[t]["backingT"]) \in [Docs -> Doc]
      BY <2>1 DEF Exchanged, TypeInv
    <3>2. QED
      BY <1>9, <3>1 DEF AskDaemon, TypeInv
  <2>3. pc' \in [Threads -> Places] /\ error' \in [Threads -> {"ok", "other"}]
    BY <1>9 DEF AskDaemon, Fails, TypeInv
  <2>4. QED
    BY <1>9, <2>2, <2>3 DEF AskDaemon, TypeInv
<1>10. ASSUME NEW t \in Threads, ExchangeShadows(t)
      PROVE  TypeInv'
  <2>1. fvp[t] \in Docs /\ tvp[t] \in Docs
    BY <1>10 DEF ExchangeShadows, CallInv, Call
  <2>2. size' \in [Docs -> Doc]
    <3>1. Exchanged(size, fvp[t], tvp[t]) \in [Docs -> Doc]
      BY <2>1 DEF Exchanged, TypeInv
    <3>2. QED
      BY <1>10, <3>1 DEF ExchangeShadows, TypeInv
  <2>3. QED
    BY <1>10, <2>2 DEF ExchangeShadows, TypeInv
<1>11. ASSUME NEW t \in Threads, Exit(t)
      PROVE  TypeInv'
  BY <1>11 DEF Exit, ExitAs, NoVnodes, TypeInv
<1>12. ASSUME NEW t \in Threads, Return(t)
      PROVE  TypeInv'
  BY <1>12 DEF Return, TypeInv
<1>13. ASSUME NEW t \in Threads, NEW o \in Ops, NEW n \in Names, NEW m \in Names,
              Vnop(t, o, n, m)
       PROVE  TypeInv'
  <2>1. PICK f \in Doc, g \in Doc, l \in {"fdvp", "backingF", "newF"} :
          fvp' = Set(fvp, t, f) /\ tvp' = Set(tvp, t, g) /\ Goto(t, l)
    <3>1. /\ orig[n] \in Doc /\ orig[m] \in Doc /\ shadow[n] \in Doc /\ shadow[m] \in Doc
          /\ NULLVP \in Doc
      BY DEF TypeInv
    <3>2. QED
      BY <1>13, <3>1, Zenon DEF Vnop
  <2>2. /\ fvp' \in [Threads -> Doc] /\ tvp' \in [Threads -> Doc]
        /\ pc' \in [Threads -> Places]
    BY <2>1 DEF TypeInv
  <2>3. /\ op' \in [Threads -> Ops] /\ from' \in [Threads -> Names]
        /\ to' \in [Threads -> Names]
    BY <1>13 DEF Vnop, TypeInv
  <2>4. QED
    BY <1>13, <2>2, <2>3 DEF Vnop, TypeInv
<1>14. ASSUME NEW n \in Names, NEW d \in Docs, NEW b \in BOOLEAN, Create(n, d, b)
       PROVE  TypeInv'
  <2>1. /\ orig' \in [Names -> Doc] /\ plain' \in SUBSET Docs
    <3>1. orig' = [orig EXCEPT ![n] = d]
          /\ (plain' = plain \cup {d} \/ plain' = plain \ {d})
      BY <1>14, Zenon DEF Create
    <3>2. QED
      BY <3>1 DEF TypeInv
  <2>2. CASE b
    BY <1>14, <2>1, <2>2 DEF Create, TypeInv
  <2>3. CASE ~b
    <3>1. /\ shadow' = [shadow EXCEPT ![n] = d] /\ redirected' = [redirected EXCEPT ![n] = d]
          /\ data' = [data EXCEPT ![d] = d] /\ size' = [size EXCEPT ![d] = d]
          /\ vnodeIO' = [vnodeIO EXCEPT ![d] = d]
          /\ shadowReverse' = [shadowReverse EXCEPT ![d] = d]
      BY <1>14, <2>3, Zenon DEF Create
    <3>2. UNCHANGED << pc, args, v, error >>
      BY <1>14 DEF Create
    <3>3. QED
      BY <2>1, <3>1, <3>2 DEF TypeInv
  <2>4. QED
    BY <1>14, <2>2, <2>3
<1>15. ASSUME NEW n \in Names, NEW b \in BOOLEAN, Remove(n, b)
       PROVE  TypeInv'
  BY <1>15 DEF Remove, TypeInv
<1>16. ASSUME NEW n \in Names, Lookup(n)
       PROVE  TypeInv'
  BY <1>16 DEF Lookup, TypeInv
<1>17. ASSUME NEW d \in Docs, Reclaim(d)
       PROVE  TypeInv'
  BY <1>17 DEF Reclaim, TypeInv
<1>18. CASE Drop \/ UNCHANGED vars
  BY <1>18 DEF Drop, TypeInv
<1> HIDE DEF IInv
<1>19. ASSUME NEW t \in Threads, Step(t)
       PROVE  TypeInv'
  BY <1>19, Steps, <1>1, <1>2, <1>3, <1>4, <1>5, <1>6, <1>7, <1>8, <1>9, <1>10, <1>11, <1>12
<1>20. QED
  BY <1>13, <1>14, <1>15, <1>16, <1>17, <1>18, <1>19 DEF Next


\* The types of the flags are kept.
LEMMA FlagStep ==
  ASSUME FlagInv, [Next]_vars
  PROVE  FlagInv'
<1>1. ASSUME NEW t \in Threads, Step(t)
      PROVE  /\ UNCHANGED overlapped
             /\ swapped' = swapped \/ \E b \in BOOLEAN : swapped' = [swapped EXCEPT ![t] = b]
             /\ UNCHANGED degraded \/ degraded' = TRUE
  <2>1. CASE RenameNew(t)
    BY <2>1, Zenon DEF RenameNew, Fault
  <2>2. CASE Exit(t)
    BY <2>2, Zenon DEF Exit, ExitAs
  <2>3. CASE ~RenameNew(t) /\ ~Exit(t)
    BY <1>1, <2>3, Steps
       DEF NewFvp, NewTvp, RedirectedFdvp, RedirectedTdvp, RedirectedFvp, OriginalFvp,
           RedirectedTvp, OriginalTvp, VnodeLookup, Leftover, LeftoverOriginal,
           LeftoverOriginalAs, Truncate, RenameRedirected, RenameShadow, RenameShadowOr,
           RenameOriginal, RenameOriginalIf, RenameIn, RemoveShadowReverse, BackingFvp,
           BackingTvp, GetVnodeIORef, AskDaemon, ExchangeShadows, Return, Fault
  <2>4. QED
    BY <2>1, <2>2, <2>3
<1>2. CASE \/ \E t \in Threads, o \in Ops, n, m \in Names : Vnop(t, o, n, m)
           \/ \E n \in Names, d \in Docs, b \in BOOLEAN : Create(n, d, b)
           \/ \E n \in Names, b \in BOOLEAN : Remove(n, b)
  <2>1. /\ UNCHANGED swapped /\ overlapped' = (overlapped \/ ~Quiet)
        /\ UNCHANGED degraded \/ degraded' = TRUE
    BY <1>2 DEF Vnop, Create, Remove, Begins, Fault
  <2>2. QED
    BY <2>1, Zenon DEF FlagInv
<1>3. CASE \/ \E n \in Names : Lookup(n)
           \/ \E d \in Docs : Reclaim(d)
           \/ Drop \/ UNCHANGED vars
  <2>1. /\ UNCHANGED << swapped, overlapped >>
        /\ UNCHANGED degraded \/ degraded' = TRUE
    BY <1>3 DEF Lookup, Reclaim, Drop, Fault
  <2>2. QED
    BY <2>1, Zenon DEF FlagInv
<1>4. ASSUME NEW t \in Threads, Step(t)
      PROVE  FlagInv'
  <2>1. swapped' \in [Threads -> BOOLEAN]
    BY <1>1, <1>4 DEF FlagInv
  <2>2. QED
    BY <1>1, <1>4, <2>1, Zenon DEF FlagInv
<1>5. QED
  BY <1>2, <1>3, <1>4 DEF Next

\* A step changes nothing of another thread's call.
Own(t) == << pc[t], op[t], from[t], to[t], fvp[t], tvp[t], swapped[t], v[t], held[t],
             error[t] >>

\* A step of a thread leaves the locals of the others alone.
LEMMA StepOthers ==
  ASSUME TypeInv, FlagInv, HeldInv, NEW t \in Threads, NEW u \in Threads \ {t},
         Step(t) \/ \E o \in Ops, n, m \in Names : Vnop(t, o, n, m)
  PROVE  UNCHANGED Own(u)
<1> USE DEF Own
<1>1. CASE RenameNew(t) \/ Exit(t) \/ Return(t)
  BY <1>1 DEF RenameNew, Exit, ExitAs, Return, TypeInv, FlagInv, HeldInv
<1>2. CASE \E o \in Ops, n, m \in Names : Vnop(t, o, n, m)
  BY <1>2 DEF Vnop, TypeInv
<1>3. CASE \/ NewFvp(t) \/ NewTvp(t) \/ RedirectedFdvp(t) \/ RedirectedTdvp(t)
           \/ RedirectedFvp(t) \/ OriginalFvp(t) \/ RedirectedTvp(t) \/ OriginalTvp(t)
           \/ BackingFvp(t) \/ BackingTvp(t) \/ Leftover(t) \/ LeftoverOriginal(t)
  BY <1>3 DEF NewFvp, NewTvp, RedirectedFdvp, RedirectedTdvp, RedirectedFvp, OriginalFvp,
              RedirectedTvp, OriginalTvp, VnodeLookup, Leftover, LeftoverOriginal,
              LeftoverOriginalAs, BackingFvp, BackingTvp, GetVnodeIORef, LookedUp, Fails,
              TypeInv, HeldInv
<1>4. CASE \/ Truncate(t) \/ RenameRedirected(t) \/ RenameShadow(t) \/ RenameOriginal(t)
           \/ RemoveShadowReverse(t) \/ AskDaemon(t) \/ ExchangeShadows(t)
  BY <1>4 DEF Truncate, RenameRedirected, RenameShadow, RenameShadowOr, RenameOriginal,
              RenameOriginalIf, RenameIn, RemoveShadowReverse, AskDaemon, ExchangeShadows,
              Fails, TypeInv
<1>5. QED
  BY <1>1, <1>2, <1>3, <1>4, Steps

\* What a lookup by the hook changes of its call.
LookupEffect(t, l, file, next) ==
  /\ pc[t] = l
  /\ UNCHANGED << op, from, to, fvp, tvp, swapped, overlapped >>
  /\ \/ /\ file # NULLVP /\ pc'[t] = next /\ v'[t][l] = file /\ held'[t] = held[t] + 1
        /\ \A k \in Locals \ {l} : v'[t][k] = v[t][k]
        /\ UNCHANGED << error, degraded >>
     \/ /\ pc'[t] = "exit" /\ error'[t] = "other" /\ UNCHANGED << v, held >>
        /\ degraded' = TRUE \/ (UNCHANGED degraded /\ file = NULLVP)

\* What a lookup leaves and returns.
LEMMA LookupHasEffect ==
  ASSUME TypeInv, HeldInv, NEW t \in Threads, NEW l \in Locals, NEW file, NEW next \in Places,
         VnodeLookup(t, l, file, next)
  PROVE  LookupEffect(t, l, file, next)
<1> USE DEF LookupEffect
<1>1. CASE file # NULLVP /\ LookedUp(t, l, file) /\ Goto(t, next) /\ UNCHANGED << error, degraded >>
  BY <1>1 DEF VnodeLookup, LookedUp, TypeInv, HeldInv
<1>2. CASE Fails(t) /\ UNCHANGED << v, held >>
           /\ (degraded' = TRUE \/ (UNCHANGED degraded /\ file = NULLVP))
  BY <1>2 DEF VnodeLookup, Fails, TypeInv
<1>3. QED
  BY <1>1, <1>2 DEF VnodeLookup, Fault

\* The case of a vnode looked up without a test of the result.
LEMMA LookedUpEffect ==
  ASSUME TypeInv, NEW t \in Threads, NEW l \in Locals, NEW file, LookedUp(t, l, file)
  PROVE  v'[t][l] = file /\ \A k \in Locals \ {l} : v'[t][k] = v[t][k]
BY DEF LookedUp, TypeInv

\* Every step keeps what the functions have in hand (CallInv).
LEMMA CallStep ==
  ASSUME TypeInv, FlagInv, HeldInv, CallInv, [Next]_vars
  PROVE  CallInv'
<1> USE NullAssumption DEF CallInv
<1>0. Locals = { "fdvp", "tdvp", "redirectedF", "redirectedT", "originalF", "originalT",
                 "newF", "newT", "backingF", "backingT" }
  BY DEF Locals
<1>01. ASSUME NEW t \in Threads
       PROVE  Call(t) /\ v[t] \in [Locals -> Vnode]
  BY DEF TypeInv
<1> HIDE DEF CallInv
<1> USE DEF Call, Beginning, BeforeFvp, BeforeTvp, LeftoverPc
<1>1. ASSUME NEW t \in Threads,
             NewFvp(t) \/ NewTvp(t)
      PROVE  Call(t)'
  <2>1. CASE NewFvp(t)
    <3>1. LookupEffect(t, "newF", orig[from[t]],
            IF tvp[t] # NULLVP THEN "newT" ELSE "renameNew")
      BY <1>0, <2>1, LookupHasEffect DEF NewFvp
    <3>2. QED
      BY <1>0, <1>01, <3>1 DEF LookupEffect
  <2>2. CASE NewTvp(t)
    <3>1. LookupEffect(t, "newT", orig[to[t]], "renameNew")
      BY <1>0, <2>2, LookupHasEffect DEF NewTvp
    <3>2. QED
      BY <1>0, <1>01, <3>1 DEF LookupEffect
  <2>3. QED
    BY <1>1, <2>1, <2>2
<1>2. ASSUME NEW t \in Threads,
             \/ RedirectedFdvp(t) \/ RedirectedTdvp(t) \/ RedirectedFvp(t)
             \/ OriginalFvp(t) \/ RedirectedTvp(t) \/ OriginalTvp(t)
      PROVE  Call(t)'
  <2>1. CASE RedirectedFdvp(t)
    <3>1. LookupEffect(t, "fdvp", "storage", "tdvp")
      BY <1>0, <2>1, LookupHasEffect DEF RedirectedFdvp
    <3>2. QED
      BY <1>0, <1>01, <3>1 DEF LookupEffect
  <2>2. CASE RedirectedTdvp(t)
    <3>1. LookupEffect(t, "tdvp", "storage", "redirectedF")
      BY <1>0, <2>2, LookupHasEffect DEF RedirectedTdvp
    <3>2. QED
      BY <1>0, <1>01, <3>1 DEF LookupEffect
  <2>3. CASE RedirectedFvp(t)
    <3>1. LookupEffect(t, "redirectedF", redirected[from[t]], "originalF")
      BY <1>0, <2>3, LookupHasEffect DEF RedirectedFvp
    <3>2. QED
      BY <1>0, <1>01, <3>1 DEF LookupEffect
  <2>4. CASE OriginalFvp(t)
    <3>1. LookupEffect(t, "originalF", orig[from[t]],
            IF tvp[t] # NULLVP THEN "redirectedT" ELSE "leftover")
      BY <1>0, <2>4, LookupHasEffect DEF OriginalFvp
    <3>2. QED
      BY <1>0, <1>01, <3>1 DEF LookupEffect
  <2>5. CASE RedirectedTvp(t)
    <3>1. LookupEffect(t, "redirectedT", redirected[to[t]], "originalT")
      BY <1>0, <2>5, LookupHasEffect DEF RedirectedTvp
    <3>2. QED
      BY <1>0, <1>01, <3>1 DEF LookupEffect
  <2>6. CASE OriginalTvp(t)
    <3>1. LookupEffect(t, "originalT", orig[to[t]], "renameRedirected")
      BY <1>0, <2>6, LookupHasEffect DEF OriginalTvp
    <3>2. QED
      BY <1>0, <1>01, <3>1 DEF LookupEffect
  <2>7. QED
    BY <1>2, <2>1, <2>2, <2>3, <2>4, <2>5, <2>6
<1>3. ASSUME NEW t \in Threads, BackingFvp(t) \/ BackingTvp(t)
      PROVE  Call(t)'
  <2>1. fvp[t] \in Docs /\ tvp[t] \in Docs /\ v[t] \in [Locals -> Vnode]
    BY <1>01, <1>3 DEF BackingFvp, BackingTvp, GetVnodeIORef, TypeInv
  <2>2. vnodeIO[fvp[t]] \in Doc /\ vnodeIO[tvp[t]] \in Doc
    BY <1>01, <2>1 DEF TypeInv
  <2>3. CASE BackingFvp(t)
    BY <1>01, <1>0, <2>1, <2>2, <2>3, LookedUpEffect DEF BackingFvp, GetVnodeIORef, TypeInv
  <2>4. CASE BackingTvp(t)
    BY <1>01, <1>0, <2>1, <2>2, <2>4, LookedUpEffect DEF BackingTvp, GetVnodeIORef, TypeInv
  <2>5. QED
    BY <1>3, <2>3, <2>4
<1>4. ASSUME NEW t \in Threads, RenameNew(t)
      PROVE  Call(t)'
  BY <1>01, <1>4 DEF RenameNew, TypeInv, FlagInv
<1>5. ASSUME NEW t \in Threads, Leftover(t) \/ LeftoverOriginal(t)
      PROVE  Call(t)'
  <2>1. v[t] \in [Locals -> Vnode]
    BY DEF TypeInv
  <2>2. CASE Leftover(t)
    BY <1>01, <1>0, <2>1, <2>2, LookedUpEffect DEF Leftover, TypeInv
  <2>3. CASE LeftoverOriginal(t)
    BY <1>01, <1>0, <2>1, <2>3 DEF LeftoverOriginal, LeftoverOriginalAs, TypeInv
  <2>4. QED
    BY <1>01, <1>5, <2>2, <2>3
<1>6. ASSUME NEW t \in Threads,
             \/ Truncate(t) \/ RenameRedirected(t) \/ RenameShadow(t) \/ RenameOriginal(t)
             \/ RemoveShadowReverse(t) \/ AskDaemon(t) \/ ExchangeShadows(t)
      PROVE  Call(t)'
  <2>1. CASE Truncate(t) \/ RemoveShadowReverse(t)
    BY <1>01, <2>1 DEF Truncate, RemoveShadowReverse, TypeInv
  <2>2. CASE RenameRedirected(t) \/ RenameShadow(t) \/ RenameOriginal(t)
    BY <1>01, <2>2 DEF RenameRedirected, RenameShadow, RenameShadowOr, RenameOriginal,
                RenameOriginalIf, RenameIn, Fails, TypeInv
  <2>3. CASE AskDaemon(t) \/ ExchangeShadows(t)
    BY <1>01, <2>3 DEF AskDaemon, ExchangeShadows, Fails, TypeInv
  <2>4. QED
    BY <1>01, <1>6, <2>1, <2>2, <2>3
<1>7. ASSUME NEW t \in Threads, Exit(t)
      PROVE  Call(t)'
  BY <1>01, <1>7 DEF Exit, ExitAs, NoVnodes, TypeInv, FlagInv
<1>8. ASSUME NEW t \in Threads, Return(t)
      PROVE  Call(t)'
  BY <1>01, <1>8 DEF Return, TypeInv
<1>9. ASSUME NEW t \in Threads, NEW o \in Ops, NEW n \in Names, NEW m \in Names,
             Vnop(t, o, n, m)
      PROVE  Call(t)'
  <2>1. /\ op'[t] = o /\ from'[t] = n /\ to'[t] = m /\ pc[t] = "idle" /\ n # m
        /\ UNCHANGED << v[t], error[t], swapped[t] >>
    BY <1>01, <1>9 DEF Vnop, TypeInv
  <2>2. \/ o = "rename" /\ pc'[t] = "fdvp" /\ fvp'[t] \in Docs
        \/ o = "exchange" /\ pc'[t] = "backingF" /\ fvp'[t] \in Docs /\ tvp'[t] \in Docs
        \/ o = "renamePath" /\ pc'[t] = "newF"
    BY <1>01, <1>9 DEF Vnop, TypeInv
  <2>3. QED
    BY <1>01, <1>0, <2>1, <2>2
<1> HIDE DEF Call, Beginning, BeforeFvp, BeforeTvp, LeftoverPc, RenamePc, PathPc, ExPc
<1>10. ASSUME NEW t \in Threads,
              Step(t) \/ \E o \in Ops, n, m \in Names : Vnop(t, o, n, m)
       PROVE  CallInv'
  <2>1. Call(t)'
    BY <1>10, Steps, <1>1, <1>2, <1>3, <1>4, <1>5, <1>6, <1>7, <1>8, <1>9
  <2>2. ASSUME NEW u \in Threads, u # t
        PROVE  Call(u)'
    BY <1>10, <1>01, <2>2, StepOthers DEF Own, Call
  <2>3. QED
    BY <2>1, <2>2 DEF CallInv
<1>11. CASE \/ \E n \in Names, d \in Docs, b \in BOOLEAN : Create(n, d, b)
            \/ \E n \in Names, b \in BOOLEAN : Remove(n, b)
            \/ \E n \in Names : Lookup(n)
            \/ \E d \in Docs : Reclaim(d)
            \/ Drop \/ UNCHANGED vars
  BY <1>11 DEF Create, Remove, Lookup, Reclaim, Drop, Call, CallInv
<1>12. QED
  BY <1>10, <1>11 DEF Next

\* There are finitely many local vnodes.
LEMMA LocalsFinite == IsFiniteSet(Locals)
<1>1. ASSUME NEW x, NEW y
      PROVE  IsFiniteSet({x, y})
  <2>1. {x, y} = {x} \cup {y}
    OBVIOUS
  <2>2. IsFiniteSet({x}) /\ IsFiniteSet({y})
    BY FS_Singleton
  <2>3. IsFiniteSet({x} \cup {y})
    BY <2>2, FS_Union
  <2>4. QED
    BY <2>1, <2>3
<1>2. IsFiniteSet({"fdvp", "tdvp"} \cup {"redirectedF", "redirectedT"})
  BY <1>1, FS_Union
<1>3. IsFiniteSet({"originalF", "originalT"} \cup {"newF", "newT"})
  BY <1>1, FS_Union
<1>4. Locals = (({"fdvp", "tdvp"} \cup {"redirectedF", "redirectedT"})
                \cup ({"originalF", "originalT"} \cup {"newF", "newT"}))
               \cup {"backingF", "backingT"}
  BY DEF Locals
<1>5. QED
  BY <1>1, <1>2, <1>3, <1>4, FS_Union

\* There are finitely many of them in hand.
LEMMA InHandFinite ==
  ASSUME NEW t \in Threads
  PROVE  /\ IsFiniteSet(InHand(t))
         /\ Cardinality(InHand(t)) \in 0..Cardinality(Locals)
BY LocalsFinite, FS_Subset, FS_CardinalityType DEF InHand

\* The count follows the locals: one more is set, one is forgotten, or none.
LEMMA MoreInHand ==
  ASSUME HeldInv, NEW t \in Threads, NEW l \in Locals, v[t][l] = NULLVP,
         v'[t][l] # NULLVP, \A k \in Locals \ {l} : v'[t][k] = v[t][k],
         held'[t] = held[t] + 1
  PROVE  held'[t] = Cardinality(InHand(t)')
<1>1. InHand(t)' = InHand(t) \cup {l} /\ l \notin InHand(t)
  BY DEF InHand
<1>2. QED
  BY <1>1, InHandFinite, FS_AddElement DEF HeldInv

\* HeldInv is kept.
LEMMA HeldStep ==
  ASSUME TypeInv, FlagInv, CallInv, HeldInv, [Next]_vars
  PROVE  HeldInv'
<1> USE NullAssumption
<1>0. Locals = { "fdvp", "tdvp", "redirectedF", "redirectedT", "originalF", "originalT",
                 "newF", "newT", "backingF", "backingT" }
  BY DEF Locals
<1>01. ASSUME NEW t \in Threads
       PROVE  Call(t) /\ v[t] \in [Locals -> Vnode] /\ held[t] = Cardinality(InHand(t))
  BY DEF TypeInv, CallInv, HeldInv
<1> DEFINE Counts(t) == held'[t] = Cardinality(InHand(t)')
<1> USE DEF Call, Beginning, BeforeFvp, BeforeTvp, LeftoverPc
<1>1. ASSUME NEW t \in Threads, NEW l \in Locals, NEW file, NEW next \in Places,
             LookupEffect(t, l, file, next), v[t][l] = NULLVP
      PROVE  Counts(t)
  <2>1. CASE UNCHANGED << v, held >>
    BY <1>01, <2>1 DEF InHand
  <2>2. CASE ~UNCHANGED << v, held >>
    BY <1>1, <2>2, MoreInHand DEF LookupEffect
  <2>3. QED
    BY <2>1, <2>2
<1> HIDE DEF Counts
<1>2. ASSUME NEW t \in Threads,
             \/ NewFvp(t) \/ NewTvp(t) \/ RedirectedFdvp(t) \/ RedirectedTdvp(t)
             \/ RedirectedFvp(t) \/ OriginalFvp(t) \/ RedirectedTvp(t) \/ OriginalTvp(t)
      PROVE  Counts(t)
  <2>1. CASE NewFvp(t)
    <3>1. LookupEffect(t, "newF", orig[from[t]],
            IF tvp[t] # NULLVP THEN "newT" ELSE "renameNew")
      BY <1>0, <2>1, LookupHasEffect DEF NewFvp
    <3>2. v[t]["newF"] = NULLVP
      BY <1>0, <1>01, <3>1 DEF LookupEffect
    <3>3. QED
      BY <1>0, <1>1, <3>1, <3>2
  <2>2. CASE NewTvp(t)
    <3>1. LookupEffect(t, "newT", orig[to[t]], "renameNew")
      BY <1>0, <2>2, LookupHasEffect DEF NewTvp
    <3>2. v[t]["newT"] = NULLVP
      BY <1>0, <1>01, <3>1 DEF LookupEffect
    <3>3. QED
      BY <1>0, <1>1, <3>1, <3>2
  <2>3. CASE RedirectedFdvp(t)
    <3>1. LookupEffect(t, "fdvp", "storage", "tdvp")
      BY <1>0, <2>3, LookupHasEffect DEF RedirectedFdvp
    <3>2. v[t]["fdvp"] = NULLVP
      BY <1>0, <1>01, <3>1 DEF LookupEffect
    <3>3. QED
      BY <1>0, <1>1, <3>1, <3>2
  <2>4. CASE RedirectedTdvp(t)
    <3>1. LookupEffect(t, "tdvp", "storage", "redirectedF")
      BY <1>0, <2>4, LookupHasEffect DEF RedirectedTdvp
    <3>2. v[t]["tdvp"] = NULLVP
      BY <1>0, <1>01, <3>1 DEF LookupEffect
    <3>3. QED
      BY <1>0, <1>1, <3>1, <3>2
  <2>5. CASE RedirectedFvp(t)
    <3>1. LookupEffect(t, "redirectedF", redirected[from[t]], "originalF")
      BY <1>0, <2>5, LookupHasEffect DEF RedirectedFvp
    <3>2. v[t]["redirectedF"] = NULLVP
      BY <1>0, <1>01, <3>1 DEF LookupEffect
    <3>3. QED
      BY <1>0, <1>1, <3>1, <3>2
  <2>6. CASE OriginalFvp(t)
    <3>1. LookupEffect(t, "originalF", orig[from[t]],
            IF tvp[t] # NULLVP THEN "redirectedT" ELSE "leftover")
      BY <1>0, <2>6, LookupHasEffect DEF OriginalFvp
    <3>2. v[t]["originalF"] = NULLVP
      BY <1>0, <1>01, <3>1 DEF LookupEffect
    <3>3. QED
      BY <1>0, <1>1, <3>1, <3>2
  <2>7. CASE RedirectedTvp(t)
    <3>1. LookupEffect(t, "redirectedT", redirected[to[t]], "originalT")
      BY <1>0, <2>7, LookupHasEffect DEF RedirectedTvp
    <3>2. v[t]["redirectedT"] = NULLVP
      BY <1>0, <1>01, <3>1 DEF LookupEffect
    <3>3. QED
      BY <1>0, <1>1, <3>1, <3>2
  <2>8. CASE OriginalTvp(t)
    <3>1. LookupEffect(t, "originalT", orig[to[t]], "renameRedirected")
      BY <1>0, <2>8, LookupHasEffect DEF OriginalTvp
    <3>2. v[t]["originalT"] = NULLVP
      BY <1>0, <1>01, <3>1 DEF LookupEffect
    <3>3. QED
      BY <1>0, <1>1, <3>1, <3>2
  <2>9. QED
    BY <1>2, <2>1, <2>2, <2>3, <2>4, <2>5, <2>6, <2>7, <2>8
<1>3. ASSUME NEW t \in Threads, BackingFvp(t) \/ BackingTvp(t)
      PROVE  Counts(t)
  <2>1. PICK l \in {"backingF", "backingT"}, d \in Doc, next \in Places :
          GetVnodeIORef(t, l, d, next)
    BY <1>3 DEF BackingFvp, BackingTvp, TypeInv
  <2>2. v[t][l] = NULLVP /\ l \in Locals
    BY <1>0, <1>01, <2>1 DEF GetVnodeIORef
  <2>3. CASE LookedUp(t, l, vnodeIO[d]) /\ vnodeIO[d] # NULLVP
    <3>1. held'[t] = held[t] + 1
      BY <2>3 DEF LookedUp, HeldInv
    <3>2. v'[t][l] # NULLVP /\ \A k \in Locals \ {l} : v'[t][k] = v[t][k]
      BY <2>2, <2>3, LookedUpEffect
    <3>3. QED
      BY <2>2, <3>1, <3>2, MoreInHand DEF Counts
  <2>4. CASE UNCHANGED << v, held >>
    BY <1>01, <2>4 DEF InHand, Counts
  <2>5. QED
    BY <2>1, <2>3, <2>4 DEF GetVnodeIORef
<1>4. ASSUME NEW t \in Threads, Leftover(t)
      PROVE  Counts(t)
  <2>1. v[t]["redirectedT"] = NULLVP /\ "redirectedT" \in Locals
    BY <1>0, <1>01, <1>4 DEF Leftover
  <2>2. CASE LookedUp(t, "redirectedT", redirected[to[t]]) /\ redirected[to[t]] # NULLVP
    <3>1. held'[t] = held[t] + 1
      BY <2>2 DEF LookedUp, HeldInv
    <3>2. /\ v'[t]["redirectedT"] # NULLVP
          /\ \A k \in Locals \ {"redirectedT"} : v'[t][k] = v[t][k]
      BY <2>1, <2>2, LookedUpEffect
    <3>3. QED
      BY <2>1, <3>1, <3>2, MoreInHand DEF Counts
  <2>3. CASE UNCHANGED << v, held >>
    BY <1>01, <2>3 DEF InHand, Counts
  <2>4. QED
    BY <1>4, <2>2, <2>3 DEF Leftover
<1>5. ASSUME NEW t \in Threads, LeftoverOriginal(t)
      PROVE  Counts(t)
  <2>1. v[t]["redirectedT"] # NULLVP /\ "redirectedT" \in Locals
    BY <1>0, <1>01, <1>5 DEF LeftoverOriginal, LeftoverOriginalAs
  <2>2. CASE v' = [v EXCEPT ![t]["redirectedT"] = NULLVP] /\ held' = Set(held, t, held[t] - 1)
    <3>1. InHand(t)' = InHand(t) \ {"redirectedT"} /\ "redirectedT" \in InHand(t)
      BY <1>01, <2>1, <2>2 DEF InHand, TypeInv
    <3>2. held'[t] = held[t] - 1
      BY <2>2 DEF HeldInv
    <3>3. QED
      BY <1>01, <3>1, <3>2, InHandFinite, FS_RemoveElement DEF Counts
  <2>3. CASE UNCHANGED << v, held >>
    BY <1>01, <2>3 DEF InHand, Counts
  <2>4. QED
    BY <1>5, <2>2, <2>3 DEF LeftoverOriginal, LeftoverOriginalAs
<1>6. ASSUME NEW t \in Threads, Exit(t)
      PROVE  Counts(t)
  <2>1. held'[t] = 0
    <3>1. held'[t] = held[t] - Cardinality(InHand(t))
      BY <1>6 DEF Exit, ExitAs, InHand, HeldInv
    <3>2. QED
      BY <1>01, <3>1, InHandFinite, LocalsFinite
  <2>2. InHand(t)' = {}
    BY <1>6 DEF Exit, ExitAs, InHand, NoVnodes, TypeInv
  <2>3. QED
    BY <2>1, <2>2, FS_EmptySet DEF Counts
<1>7. ASSUME NEW t \in Threads,
             \/ RenameNew(t) \/ Truncate(t) \/ RenameRedirected(t) \/ RenameShadow(t)
             \/ RenameOriginal(t) \/ RemoveShadowReverse(t) \/ AskDaemon(t)
             \/ ExchangeShadows(t) \/ Return(t)
             \/ \E o \in Ops, n, m \in Names : Vnop(t, o, n, m)
      PROVE  Counts(t)
  <2>1. UNCHANGED << v, held >>
    BY <1>7 DEF RenameNew, Truncate, RenameRedirected, RenameShadow, RenameShadowOr,
                RenameOriginal, RenameOriginalIf, RenameIn, RemoveShadowReverse, AskDaemon,
                ExchangeShadows, Return, Vnop
  <2>2. QED
    BY <1>01, <2>1 DEF InHand, Counts
<1> HIDE DEF Call, Beginning, BeforeFvp, BeforeTvp, LeftoverPc, RenamePc, PathPc, ExPc
<1>8. ASSUME NEW t \in Threads,
             Step(t) \/ \E o \in Ops, n, m \in Names : Vnop(t, o, n, m)
      PROVE  HeldInv'
  <2>1. Counts(t)
    BY <1>8, Steps, <1>2, <1>3, <1>4, <1>5, <1>6, <1>7
  <2>2. ASSUME NEW u \in Threads
        PROVE  held'[u] = Cardinality(InHand(u)') /\ held'[u] \in Nat
    <3>1. held'[u] = Cardinality(InHand(u)')
      <4>1. CASE u = t
        BY <2>1, <4>1 DEF Counts
      <4>2. CASE u # t
        <5>1. UNCHANGED << v[u], held[u] >>
          BY <1>8, <4>2, StepOthers DEF Own
        <5>2. QED
          BY <1>01, <5>1 DEF InHand
      <4>3. QED
        BY <4>1, <4>2
    <3>2. InHand(u)' \subseteq Locals
      BY DEF InHand
    <3>3. QED
      BY <3>1, <3>2, LocalsFinite, FS_Subset, FS_CardinalityType
  <2>3. held' = held \/ \E x : held' = [held EXCEPT ![t] = x]
    <3>1. CASE \/ Leftover(t) \/ LeftoverOriginal(t) \/ BackingFvp(t) \/ BackingTvp(t)
               \/ Exit(t)
      BY <3>1, Zenon DEF Leftover, LeftoverOriginal, LeftoverOriginalAs, BackingFvp,
                         BackingTvp, GetVnodeIORef, LookedUp, Exit, ExitAs
    <3>2. CASE \/ NewFvp(t) \/ NewTvp(t) \/ RedirectedFdvp(t) \/ RedirectedTdvp(t)
               \/ RedirectedFvp(t) \/ OriginalFvp(t) \/ RedirectedTvp(t) \/ OriginalTvp(t)
      BY <3>2, Zenon DEF NewFvp, NewTvp, RedirectedFdvp, RedirectedTdvp, RedirectedFvp,
                         OriginalFvp, RedirectedTvp, OriginalTvp, VnodeLookup, LookedUp
    <3>3. CASE \/ RenameNew(t) \/ Truncate(t) \/ RenameRedirected(t) \/ RenameShadow(t)
               \/ RenameOriginal(t) \/ RemoveShadowReverse(t) \/ AskDaemon(t)
               \/ ExchangeShadows(t) \/ Return(t)
               \/ \E o \in Ops, n, m \in Names : Vnop(t, o, n, m)
      BY <3>3 DEF RenameNew, Truncate, RenameRedirected, RenameShadow, RenameShadowOr,
                  RenameOriginal, RenameOriginalIf, RenameIn, RemoveShadowReverse,
                  AskDaemon, ExchangeShadows, Return, Vnop
    <3>4. QED
      BY <1>8, Steps, <3>1, <3>2, <3>3
  <2>4. held' \in [Threads -> Nat]
    BY <2>2, <2>3 DEF HeldInv
  <2>5. QED
    BY <2>2, <2>4 DEF HeldInv
<1>9. CASE \/ \E n \in Names, d \in Docs, b \in BOOLEAN : Create(n, d, b)
           \/ \E n \in Names, b \in BOOLEAN : Remove(n, b)
           \/ \E n \in Names : Lookup(n)
           \/ \E d \in Docs : Reclaim(d)
           \/ Drop \/ UNCHANGED vars
  <2>1. UNCHANGED << v, held >>
    BY <1>9 DEF Create, Remove, Lookup, Reclaim, Drop
  <2>2. QED
    BY <2>1 DEF HeldInv, InHand
<1>10. QED
  BY <1>8, <1>9 DEF Next

\* A step is an active thread's, and begins nothing.
LEMMA StepActive ==
  ASSUME NEW t \in Threads, Step(t)
  PROVE  Active(t) /\ UNCHANGED overlapped
<1> USE DEF Active
<1>1. CASE \/ NewFvp(t) \/ NewTvp(t) \/ RedirectedFdvp(t) \/ RedirectedTdvp(t)
           \/ RedirectedFvp(t) \/ OriginalFvp(t) \/ RedirectedTvp(t) \/ OriginalTvp(t)
           \/ BackingFvp(t) \/ BackingTvp(t) \/ Leftover(t) \/ LeftoverOriginal(t)
  BY <1>1 DEF NewFvp, NewTvp, RedirectedFdvp, RedirectedTdvp, RedirectedFvp, OriginalFvp,
              RedirectedTvp, OriginalTvp, VnodeLookup, Leftover, LeftoverOriginal,
              LeftoverOriginalAs, BackingFvp, BackingTvp, GetVnodeIORef
<1>2. CASE \/ Truncate(t) \/ RenameRedirected(t) \/ RenameShadow(t) \/ RenameOriginal(t)
           \/ RemoveShadowReverse(t) \/ AskDaemon(t) \/ ExchangeShadows(t)
           \/ RenameNew(t) \/ Exit(t) \/ Return(t)
  BY <1>2 DEF Truncate, RenameRedirected, RenameShadow, RenameShadowOr, RenameOriginal,
              RenameOriginalIf, RenameIn, RemoveShadowReverse, AskDaemon, ExchangeShadows,
              RenameNew, Exit, ExitAs, Return
<1>3. QED
  BY <1>1, <1>2, Steps

\* A step touches no backing file, and records what fails.
LEMMA StepDegrades ==
  ASSUME NEW t \in Threads, Step(t)
  PROVE  UNCHANGED vnodeIO /\ (UNCHANGED degraded \/ degraded' = TRUE)
<1>1. CASE \/ NewFvp(t) \/ NewTvp(t) \/ RedirectedFdvp(t) \/ RedirectedTdvp(t)
           \/ RedirectedFvp(t) \/ OriginalFvp(t) \/ RedirectedTvp(t) \/ OriginalTvp(t)
           \/ BackingFvp(t) \/ BackingTvp(t) \/ Leftover(t) \/ LeftoverOriginal(t)
  BY <1>1 DEF NewFvp, NewTvp, RedirectedFdvp, RedirectedTdvp, RedirectedFvp,
              OriginalFvp, RedirectedTvp, OriginalTvp, VnodeLookup, Leftover,
              LeftoverOriginal, LeftoverOriginalAs, BackingFvp, BackingTvp,
              GetVnodeIORef, Fault
<1>2. CASE \/ Truncate(t) \/ RenameRedirected(t) \/ RenameShadow(t) \/ RenameOriginal(t)
           \/ RemoveShadowReverse(t) \/ AskDaemon(t) \/ ExchangeShadows(t)
           \/ RenameNew(t) \/ Exit(t) \/ Return(t)
  BY <1>2 DEF Truncate, RenameRedirected, RenameShadow, RenameShadowOr, RenameOriginal,
              RenameOriginalIf, RenameIn, RemoveShadowReverse, AskDaemon,
              ExchangeShadows, RenameNew, Exit, ExitAs, Return, Fault
<1>3. QED
  BY Steps, <1>1, <1>2

\* A thread is active from the call of the hook to the return; a call that
\* begins while another is active is recorded.
LEMMA AloneStep ==
  ASSUME TypeInv, FlagInv, HeldInv, AloneInv, [Next]_vars
  PROVE  AloneInv'
<1> USE DEF AloneInv, Alone, Active
<1>1. ASSUME NEW t \in Threads, Step(t)
      PROVE  AloneInv'
  <2>1. pc[t] # "idle"
    BY <1>1, StepActive
  <2>2. UNCHANGED overlapped
    BY <1>1, StepActive
  <2>3. \A u \in Threads \ {t} : pc'[u] = pc[u]
    BY <1>1, StepOthers DEF Own
  <2>4. QED
    BY <2>1, <2>2, <2>3
<1>2. ASSUME NEW t \in Threads, NEW o \in Ops, NEW n \in Names, NEW m \in Names,
             Vnop(t, o, n, m)
      PROVE  AloneInv'
  <2>1. \A u \in Threads \ {t} : pc'[u] = pc[u]
    BY <1>2, StepOthers DEF Own
  <2>2. overlapped' = (overlapped \/ ~Quiet)
    BY <1>2 DEF Vnop, Begins
  <2>3. QED
    BY <2>1, <2>2 DEF Quiet
<1>3. CASE \/ \E n \in Names, d \in Docs, b \in BOOLEAN : Create(n, d, b)
           \/ \E n \in Names, b \in BOOLEAN : Remove(n, b)
           \/ \E n \in Names : Lookup(n)
           \/ \E d \in Docs : Reclaim(d)
           \/ Drop \/ UNCHANGED vars
  BY <1>3 DEF Create, Remove, Lookup, Reclaim, Drop, Begins
<1>4. QED
  BY <1>1, <1>2, <1>3 DEF Next

\* A directory after a rename.
LEMMA RenamedNames ==
  ASSUME NEW t \in Threads, NEW dir \in [Names -> Doc], NEW f \in Doc,
         from[t] \in Names, to[t] \in Names, from[t] # to[t]
  PROVE  /\ Renamed(dir, t, f) \in [Names -> Doc]
         /\ Renamed(dir, t, f)[to[t]] = f /\ Renamed(dir, t, f)[from[t]] = NULLVP
         /\ \A n \in Names \ {from[t], to[t]} : Renamed(dir, t, f)[n] = dir[n]
BY DEF Renamed

\* What each of the three renames changes.
RenameEffect(t, l, dir, f, g, next) ==
  /\ pc[t] = l /\ UNCHANGED << args, plain, data, size, maps, v, overlapped >>
  /\ \/ /\ pc'[t] = next /\ UNCHANGED << error, degraded >>
        /\ dir[from[t]] = f /\ dir[to[t]] = g /\ dir' = Renamed(dir, t, f)
     \/ /\ pc'[t] = "exit" /\ error'[t] = "other" /\ UNCHANGED dir
        /\ degraded' = TRUE \/ (UNCHANGED degraded /\ ~(dir[from[t]] = f /\ dir[to[t]] = g))

\* What a rename leaves and returns.
LEMMA RenameHasEffect ==
  ASSUME TypeInv, NEW t \in Threads
  PROVE  /\ RenameRedirected(t) =>
              /\ RenameEffect(t, "renameRedirected", redirected, v[t]["redirectedF"],
                              v[t]["redirectedT"], "renameShadow")
              /\ UNCHANGED << orig, shadow >>
         /\ RenameShadow(t) =>
              /\ RenameEffect(t, "renameShadow", shadow, fvp[t], tvp[t], "renameOriginal")
              /\ UNCHANGED << orig, redirected >>
         /\ RenameOriginal(t) =>
              /\ RenameEffect(t, "renameOriginal", orig, v[t]["originalF"],
                              v[t]["originalT"], "dissociate")
              /\ UNCHANGED << shadow, redirected >>
<1> USE DEF RenameEffect, RenameIn, CanRename, Fails, Fault, TypeInv
<1>1. ASSUME RenameRedirected(t)
      PROVE  /\ RenameEffect(t, "renameRedirected", redirected, v[t]["redirectedF"],
                             v[t]["redirectedT"], "renameShadow")
             /\ UNCHANGED << orig, shadow >>
  BY <1>1 DEF RenameRedirected
<1>2. ASSUME RenameShadow(t)
      PROVE  /\ RenameEffect(t, "renameShadow", shadow, fvp[t], tvp[t], "renameOriginal")
             /\ UNCHANGED << orig, redirected >>
  BY <1>2 DEF RenameShadow, RenameShadowOr
<1>3. ASSUME RenameOriginal(t)
      PROVE  /\ RenameEffect(t, "renameOriginal", orig, v[t]["originalF"],
                             v[t]["originalT"], "dissociate")
             /\ UNCHANGED << shadow, redirected >>
  BY <1>3 DEF RenameOriginal, RenameOriginalIf
<1>4. QED
  BY <1>1, <1>2, <1>3

\* MovedInv is kept.
LEMMA MovedStep ==
  ASSUME TypeInv, FlagInv, HeldInv, CallInv, AloneInv, MovedInv, [Next]_vars
  PROVE  MovedInv'
<1> USE NullAssumption
<1>0. Locals = { "fdvp", "tdvp", "redirectedF", "redirectedT", "originalF", "originalT",
                 "newF", "newT", "backingF", "backingT" }
  BY DEF Locals
<1>1. SUFFICES ASSUME ~overlapped'
               PROVE  \A t \in Threads : op'[t] = "rename" /\ Active(t)' => Moved(t)'
  BY DEF MovedInv
<1>2. ASSUME NEW t \in Threads, NEW l \in RenamePc \cap Locals, NEW file,
             NEW next \in RenamePc \ {"renameShadow", "renameOriginal", "dissociate"},
             LookupEffect(t, l, file, next), UNCHANGED dirs, Moved(t)
      PROVE  Moved(t)'
  BY <1>0, <1>2 DEF LookupEffect, Moved
<1>3. ASSUME NEW t \in Threads, op[t] = "rename", Active(t), Moved(t), Call(t),
             from[t] \in Names, to[t] \in Names, from[t] # to[t], fvp[t] \in Doc,
             Step(t), ~Return(t)
      PROVE  Moved(t)'
  <2>1. CASE RedirectedFdvp(t)
    <3>1. LookupEffect(t, "fdvp", "storage", "tdvp")
      BY <1>0, <2>1, LookupHasEffect DEF RedirectedFdvp
    <3>2. UNCHANGED dirs
      BY <2>1 DEF RedirectedFdvp, VnodeLookup
    <3>3. QED
      BY <1>0, <1>2, <1>3, <3>1, <3>2
  <2>2. CASE RedirectedTdvp(t)
    <3>1. LookupEffect(t, "tdvp", "storage", "redirectedF")
      BY <1>0, <2>2, LookupHasEffect DEF RedirectedTdvp
    <3>2. UNCHANGED dirs
      BY <2>2 DEF RedirectedTdvp, VnodeLookup
    <3>3. QED
      BY <1>0, <1>2, <1>3, <3>1, <3>2
  <2>3. CASE RedirectedFvp(t)
    <3>1. LookupEffect(t, "redirectedF", redirected[from[t]], "originalF")
      BY <1>0, <2>3, LookupHasEffect DEF RedirectedFvp
    <3>2. UNCHANGED dirs
      BY <2>3 DEF RedirectedFvp, VnodeLookup
    <3>3. QED
      BY <1>0, <1>2, <1>3, <3>1, <3>2
  <2>4. CASE OriginalFvp(t)
    <3>1. LookupEffect(t, "originalF", orig[from[t]],
            IF tvp[t] # NULLVP THEN "redirectedT" ELSE "leftover")
      BY <1>0, <2>4, LookupHasEffect DEF OriginalFvp
    <3>2. UNCHANGED dirs
      BY <2>4 DEF OriginalFvp, VnodeLookup
    <3>3. QED
      BY <1>0, <1>2, <1>3, <3>1, <3>2
  <2>5. CASE RedirectedTvp(t)
    <3>1. LookupEffect(t, "redirectedT", redirected[to[t]], "originalT")
      BY <1>0, <2>5, LookupHasEffect DEF RedirectedTvp
    <3>2. UNCHANGED dirs
      BY <2>5 DEF RedirectedTvp, VnodeLookup
    <3>3. QED
      BY <1>0, <1>2, <1>3, <3>1, <3>2
  <2>6. CASE OriginalTvp(t)
    <3>1. LookupEffect(t, "originalT", orig[to[t]], "renameRedirected")
      BY <1>0, <2>6, LookupHasEffect DEF OriginalTvp
    <3>2. UNCHANGED dirs
      BY <2>6 DEF OriginalTvp, VnodeLookup
    <3>3. QED
      BY <1>0, <1>2, <1>3, <3>1, <3>2
  <2>7. CASE Leftover(t) \/ LeftoverOriginal(t) \/ Truncate(t)
    <3>1. /\ UNCHANGED << orig, shadow, redirected, from, to, fvp, error >>
          /\ pc[t] \in LeftoverPc
          /\ pc'[t] \in {"leftoverOriginal", "truncate", "renameRedirected"}
      BY <2>7 DEF Leftover, LeftoverOriginal, LeftoverOriginalAs, Truncate, LeftoverPc, TypeInv
    <3>2. QED
      BY <1>3, <3>1 DEF Moved, LeftoverPc
  <2>8. CASE RenameRedirected(t)
    <3>1. /\ RenameEffect(t, "renameRedirected", redirected, v[t]["redirectedF"],
                          v[t]["redirectedT"], "renameShadow")
          /\ UNCHANGED << orig, shadow >>
      BY <2>8, RenameHasEffect
    <3>2. v[t]["redirectedF"] # NULLVP
      BY <1>3, <3>1 DEF RenameEffect, Call, BeforeFvp
    <3>3. CASE pc'[t] = "renameShadow" /\ redirected[from[t]] = v[t]["redirectedF"]
               /\ redirected' = Renamed(redirected, t, v[t]["redirectedF"])
      <4>1. redirected'[to[t]] # NULLVP /\ redirected'[from[t]] = NULLVP
        <5>1. redirected \in [Names -> Doc] /\ redirected[from[t]] \in Doc
          BY <1>3 DEF TypeInv
        <5>2. /\ Renamed(redirected, t, redirected[from[t]])[to[t]] = redirected[from[t]]
              /\ Renamed(redirected, t, redirected[from[t]])[from[t]] = NULLVP
          BY <1>3, <5>1, RenamedNames
        <5>3. QED
          BY <3>2, <3>3, <5>2
      <4>2. QED
        BY <1>3, <3>1, <3>3, <4>1 DEF RenameEffect, Moved
    <3>4. CASE pc'[t] = "exit" /\ error'[t] = "other" /\ UNCHANGED redirected
      BY <1>3, <3>1, <3>4 DEF RenameEffect, Moved
    <3>5. QED
      BY <3>1, <3>3, <3>4 DEF RenameEffect
  <2>9. CASE RenameShadow(t)
    <3>1. /\ RenameEffect(t, "renameShadow", shadow, fvp[t], tvp[t], "renameOriginal")
          /\ UNCHANGED << orig, redirected >>
      BY <2>9, RenameHasEffect
    <3>2. CASE pc'[t] = "renameOriginal" /\ shadow' = Renamed(shadow, t, fvp[t])
      <4>1. shadow'[to[t]] = fvp[t] /\ shadow'[from[t]] = NULLVP
        <5>1. shadow \in [Names -> Doc]
          BY DEF TypeInv
        <5>2. /\ Renamed(shadow, t, fvp[t])[to[t]] = fvp[t]
              /\ Renamed(shadow, t, fvp[t])[from[t]] = NULLVP
          BY <1>3, <5>1, RenamedNames
        <5>3. QED
          BY <3>2, <5>2
      <4>2. QED
        BY <1>3, <3>1, <3>2, <4>1 DEF RenameEffect, Moved
    <3>3. CASE pc'[t] = "exit" /\ error'[t] = "other" /\ UNCHANGED shadow
      BY <1>3, <3>1, <3>3 DEF RenameEffect, Moved
    <3>4. QED
      BY <3>1, <3>2, <3>3 DEF RenameEffect
  <2>10. CASE RenameOriginal(t)
    <3>1. /\ RenameEffect(t, "renameOriginal", orig, v[t]["originalF"],
                          v[t]["originalT"], "dissociate")
          /\ UNCHANGED << shadow, redirected >>
      BY <2>10, RenameHasEffect
    <3>2. v[t]["originalF"] # NULLVP
      BY <1>3, <3>1 DEF RenameEffect, Call, BeforeFvp
    <3>3. CASE pc'[t] = "dissociate" /\ orig[from[t]] = v[t]["originalF"]
               /\ orig' = Renamed(orig, t, v[t]["originalF"])
      <4>1. orig'[to[t]] # NULLVP /\ orig'[from[t]] = NULLVP
        <5>1. orig \in [Names -> Doc] /\ orig[from[t]] \in Doc
          BY <1>3 DEF TypeInv
        <5>2. /\ Renamed(orig, t, orig[from[t]])[to[t]] = orig[from[t]]
              /\ Renamed(orig, t, orig[from[t]])[from[t]] = NULLVP
          BY <1>3, <5>1, RenamedNames
        <5>3. QED
          BY <3>2, <3>3, <5>2
      <4>2. QED
        BY <1>3, <3>1, <3>3, <4>1 DEF RenameEffect, Moved
    <3>4. CASE pc'[t] = "exit" /\ error'[t] = "other" /\ UNCHANGED orig
      BY <1>3, <3>1, <3>4 DEF RenameEffect, Moved
    <3>5. QED
      BY <3>1, <3>3, <3>4 DEF RenameEffect
  <2>11. CASE RemoveShadowReverse(t)
    <3>1. /\ UNCHANGED << orig, shadow, redirected, from, to, fvp, error >>
          /\ pc[t] = "dissociate" /\ pc'[t] = "exit" /\ error[t] = "ok"
      BY <1>3, <2>11 DEF RemoveShadowReverse, Call, TypeInv
    <3>2. QED
      BY <1>3, <3>1 DEF Moved
  <2>12. CASE Exit(t)
    <3>1. /\ UNCHANGED << orig, shadow, redirected, from, to, fvp, error >>
          /\ pc[t] = "exit" /\ pc'[t] = "return"
      BY <2>12 DEF Exit, ExitAs, TypeInv
    <3>2. QED
      BY <1>3, <3>1 DEF Moved
  <2>13. CASE \/ NewFvp(t) \/ NewTvp(t) \/ RenameNew(t)
              \/ BackingFvp(t) \/ BackingTvp(t) \/ AskDaemon(t) \/ ExchangeShadows(t)
    <3>1. pc[t] \in PathPc \cup ExPc
      BY <2>13 DEF NewFvp, NewTvp, VnodeLookup, RenameNew, BackingFvp, BackingTvp,
                   GetVnodeIORef, AskDaemon, ExchangeShadows
    <3>2. QED
      BY <1>3, <3>1 DEF Call
  <2>14. QED
    BY <1>3, Steps, <2>1, <2>2, <2>3, <2>4, <2>5, <2>6, <2>7, <2>8, <2>9, <2>10, <2>11,
       <2>12, <2>13
<1> HIDE DEF RenamePc, PathPc, ExPc
<1>4. ASSUME NEW t \in Threads, Step(t), op'[t] = "rename", Active(t)'
      PROVE  Moved(t)'
  <2>1. ~Return(t)
    BY <1>4 DEF Return, Active, TypeInv
  <2>2. UNCHANGED op
    BY <1>4, <2>1, Steps
       DEF NewFvp, NewTvp, RedirectedFdvp, RedirectedTdvp, RedirectedFvp, OriginalFvp,
           RedirectedTvp, OriginalTvp, VnodeLookup, Leftover, LeftoverOriginal,
           LeftoverOriginalAs, Truncate, RenameNew, RenameRedirected, RenameShadow,
           RenameShadowOr, RenameOriginal, RenameOriginalIf, RenameIn,
           RemoveShadowReverse, BackingFvp, BackingTvp, GetVnodeIORef, AskDaemon,
           ExchangeShadows, Exit, ExitAs
  <2>3. op[t] = "rename" /\ Active(t) /\ ~overlapped
    BY <1>1, <1>4, <2>2, StepActive
  <2>4. Call(t) /\ Moved(t)
    BY <2>3 DEF CallInv, MovedInv
  <2>5. from[t] \in Names /\ to[t] \in Names /\ fvp[t] \in Doc
    BY DEF TypeInv
  <2>6. from[t] # to[t]
    BY <2>3, <2>4 DEF Call, Active
  <2>7. QED
    BY <1>3, <1>4, <2>1, <2>3, <2>4, <2>5, <2>6
<1>5. ASSUME NEW t \in Threads, Step(t), NEW u \in Threads, u # t
      PROVE  ~Active(u)'
  <2>1. ~Active(u)
    BY <1>1, <1>5, StepActive DEF AloneInv, Alone
  <2>2. QED
    BY <1>5, <2>1, StepOthers DEF Own, Active
<1>6. ASSUME NEW t \in Threads, NEW o \in Ops, NEW n \in Names, NEW m \in Names,
             Vnop(t, o, n, m)
      PROVE  /\ op'[t] = "rename" => Moved(t)'
             /\ \A u \in Threads \ {t} : ~Active(u)'
  <2>1. \A u \in Threads : pc[u] = "idle"
    BY <1>1, <1>6 DEF Vnop, Begins, Quiet
  <2>2. \A u \in Threads \ {t} : ~Active(u)'
    BY <1>6, <2>1, StepOthers DEF Own, Active
  <2>3. /\ op'[t] = o /\ from'[t] = n /\ orig[n] # NULLVP /\ UNCHANGED orig
        /\ o = "rename" => pc'[t] = "fdvp"
    BY <1>6 DEF Vnop, TypeInv
  <2>4. QED
    BY <2>2, <2>3 DEF Moved, RenamePc
<1>7. CASE \/ \E n \in Names, d \in Docs, b \in BOOLEAN : Create(n, d, b)
           \/ \E n \in Names, b \in BOOLEAN : Remove(n, b)
  <2>1. \A u \in Threads : pc'[u] = "idle"
    BY <1>1, <1>7 DEF Create, Remove, Begins, Quiet
  <2>2. QED
    BY <2>1 DEF Active
<1>8. CASE \/ \E n \in Names : Lookup(n)
           \/ \E d \in Docs : Reclaim(d)
           \/ Drop \/ UNCHANGED vars
  <2>1. UNCHANGED << orig, shadow, redirected, pc, op, from, to, fvp, error, overlapped >>
    BY <1>8 DEF Lookup, Reclaim, Drop
  <2>2. QED
    BY <1>1, <2>1 DEF MovedInv, Moved, Active
<1>9. QED
  BY <1>4, <1>5, <1>6, <1>7, <1>8 DEF Next

\* No step touches the backing files, and a shadow that is renamed was one before.
LEMMA BackedStep ==
  ASSUME TypeInv, FlagInv, HeldInv, BackedInv, [Next]_vars
  PROVE  BackedInv'
<1> USE NullAssumption
<1> DEFINE Backed(d) == d # NULLVP => vnodeIO[d] = d
<1> DEFINE AllBacked == /\ \A n \in Names : Backed(shadow[n])
                        /\ \A t \in Threads :
                             op[t] # "renamePath" => Backed(fvp[t]) /\ Backed(tvp[t])
<1>2. SUFFICES ASSUME Clean'
               PROVE  AllBacked'
  BY DEF BackedInv
<1>3. ASSUME Clean
      PROVE  AllBacked
  BY <1>3 DEF BackedInv
<1>4. ASSUME NEW t \in Threads, Step(t)
      PROVE  AllBacked'
  <2>1. UNCHANGED << vnodeIO, overlapped >> /\ (UNCHANGED degraded \/ degraded' = TRUE)
    BY <1>4, StepActive, StepDegrades
  <2>2. AllBacked
    BY <1>2, <1>3, <2>1 DEF Clean
  <2>3. CASE RenameShadow(t)
    <3>1. /\ fvp[t] \in Doc
          /\ shadow' = shadow \/ (shadow[from[t]] = fvp[t] /\ shadow' = Renamed(shadow, t, fvp[t]))
      BY <2>3, RenameHasEffect DEF RenameEffect, TypeInv
    <3>2. \A n \in Names : shadow'[n] = NULLVP \/ \E m \in Names : shadow'[n] = shadow[m]
      BY <3>1 DEF Renamed, TypeInv
    <3>3. ASSUME NEW n \in Names
          PROVE  Backed(shadow[n])'
      BY <2>1, <2>2, <3>2
    <3>4. ASSUME NEW u \in Threads, op'[u] # "renamePath"
          PROVE  Backed(fvp[u])' /\ Backed(tvp[u])'
      <4>1. UNCHANGED << op, fvp, tvp >>
        BY <2>3 DEF RenameShadow, RenameShadowOr, RenameIn
      <4>2. QED
        BY <2>1, <2>2, <3>4, <4>1
    <3>5. QED
      BY <3>3, <3>4
  <2>4. CASE Return(t)
    <3>1. UNCHANGED shadow /\ fvp'[t] = NULLVP /\ tvp'[t] = NULLVP
      BY <2>4 DEF Return, TypeInv
    <3>2. ASSUME NEW u \in Threads \ {t}
          PROVE  UNCHANGED << op[u], fvp[u], tvp[u] >>
      BY <1>4, StepOthers DEF Own
    <3>3. QED
      BY <2>1, <2>2, <3>1, <3>2
  <2>5. CASE ~RenameShadow(t) /\ ~Return(t)
    <3>1. UNCHANGED << shadow, op, fvp, tvp >>
      BY <1>4, <2>5, Steps
         DEF NewFvp, NewTvp, RedirectedFdvp, RedirectedTdvp, RedirectedFvp, OriginalFvp,
             RedirectedTvp, OriginalTvp, VnodeLookup, Leftover, LeftoverOriginal,
             LeftoverOriginalAs, Truncate, RenameNew, RenameRedirected,
             RenameOriginal, RenameOriginalIf, RenameIn,
             RemoveShadowReverse, BackingFvp, BackingTvp, GetVnodeIORef, AskDaemon,
             ExchangeShadows, Exit, ExitAs
    <3>2. QED
      BY <2>1, <2>2, <3>1
  <2>6. QED
    BY <2>3, <2>4, <2>5
<1>5. ASSUME NEW t \in Threads, NEW o \in Ops, NEW n \in Names, NEW m \in Names,
             Vnop(t, o, n, m)
      PROVE  AllBacked'
  <2>1. Clean /\ UNCHANGED << vnodeIO, shadow >>
    BY <1>2, <1>5 DEF Vnop, Begins, Clean
  <2>2. o # "renamePath" =>
          /\ fvp'[t] = NULLVP \/ fvp'[t] = shadow[n]
          /\ tvp'[t] = NULLVP \/ tvp'[t] = shadow[m]
    BY <1>5 DEF Vnop, TypeInv
  <2>3. op'[t] = o
    BY <1>5 DEF Vnop, TypeInv
  <2>4. ASSUME NEW u \in Threads \ {t}
        PROVE  UNCHANGED << op[u], fvp[u], tvp[u] >>
    BY <1>5, StepOthers DEF Own
  <2>5. QED
    BY <1>3, <2>1, <2>2, <2>3, <2>4
<1>6. ASSUME NEW n \in Names, NEW d \in Docs, NEW b \in BOOLEAN, Create(n, d, b)
      PROVE  AllBacked'
  <2>1. Clean /\ UNCHANGED << op, fvp, tvp >>
    BY <1>2, <1>6 DEF Create, Begins, Clean
  <2>2. CASE b
    BY <1>3, <1>6, <2>1, <2>2 DEF Create
  <2>3. CASE ~b
    <3>1. shadow' = [shadow EXCEPT ![n] = d] /\ vnodeIO' = [vnodeIO EXCEPT ![d] = d]
      BY <1>6, <2>3, Zenon DEF Create
    <3>2. \A e \in Docs : vnodeIO[e] = e => vnodeIO'[e] = e
      BY <3>1 DEF TypeInv
    <3>3. vnodeIO'[d] = d /\ shadow'[n] = d /\ \A k \in Names \ {n} : shadow'[k] = shadow[k]
      BY <3>1 DEF TypeInv
    <3>4. /\ \A k \in Names : shadow[k] \in Doc
          /\ \A u \in Threads : fvp[u] \in Doc /\ tvp[u] \in Doc
      BY DEF TypeInv
    <3>5. QED
      BY <1>3, <2>1, <3>2, <3>3, <3>4
  <2>4. QED
    BY <1>6, <2>2, <2>3
<1>7. ASSUME NEW n \in Names, NEW b \in BOOLEAN, Remove(n, b)
      PROVE  AllBacked'
  <2>1. UNCHANGED << vnodeIO, op, fvp, tvp >>
    BY <1>7 DEF Remove
  <2>2. ~b /\ Clean
    <3>1. ~b
      <4>1. b => degraded' = TRUE
        BY <1>7, Zenon DEF Remove, Fault
      <4>2. QED
        BY <1>2, <4>1, Zenon DEF Clean
    <3>2. degraded' = degraded /\ overlapped' = (overlapped \/ ~Quiet)
      BY <1>7, <3>1, Zenon DEF Remove, Begins
    <3>3. QED
      BY <1>2, <3>1, <3>2, Zenon DEF Clean
  <2>3. \A k \in Names : shadow'[k] = NULLVP \/ shadow'[k] = shadow[k]
    BY <1>7 DEF Remove, TypeInv
  <2>4. QED
    BY <1>3, <2>1, <2>2, <2>3
<1>8. ASSUME NEW n \in Names, Lookup(n)
      PROVE  AllBacked'
  <2>1. Clean /\ UNCHANGED << shadow, op, fvp, tvp >>
    BY <1>2, <1>8 DEF Lookup, Clean
  <2>2. UNCHANGED vnodeIO
    <3>1. shadow[n] \in Docs /\ vnodeIO[shadow[n]] = shadow[n]
      BY <1>3, <1>8, <2>1 DEF Lookup, TypeInv
    <3>2. QED
      BY <1>8, <3>1 DEF Lookup, TypeInv
  <2>3. QED
    BY <1>3, <2>1, <2>2
<1>9. ASSUME NEW d \in Docs, Reclaim(d)
      PROVE  AllBacked'
  <2>1. Clean /\ UNCHANGED << shadow, op, fvp, tvp >>
    BY <1>2, <1>9 DEF Reclaim, Clean
  <2>2. \A e \in Docs \ {d} : vnodeIO'[e] = vnodeIO[e]
    BY <1>9 DEF Reclaim, TypeInv
  <2>3. /\ \A n \in Names : shadow[n] # d /\ shadow[n] \in Doc
        /\ \A t \in Threads : fvp[t] # d /\ tvp[t] # d /\ fvp[t] \in Doc /\ tvp[t] \in Doc
    BY <1>9 DEF Reclaim, TypeInv
  <2>4. QED
    BY <1>3, <2>1, <2>2, <2>3
<1>10. CASE Drop
  BY <1>2, <1>10 DEF Drop, Fault, Clean
<1>11. CASE UNCHANGED vars
  BY <1>2, <1>3, <1>11 DEF Clean
<1>12. QED
  BY <1>4, <1>5, <1>6, <1>7, <1>8, <1>9, <1>10, <1>11 DEF Next

\* The three renames together keep the documents whole.
LEMMA WholeRenamed ==
  ASSUME NEW p, NEW o \in [Names -> Doc], NEW s \in [Names -> Doc], NEW r \in [Names -> Doc],
         NEW d, NEW z, Whole(p, o, s, r, d, z),
         NEW n \in Names, NEW m \in Names, n # m, s[n] # NULLVP
  PROVE  Whole(p, Renaming(o, n, m, s[n]), Renaming(s, n, m, s[n]),
               Renaming(r, n, m, r[n]), d, z)
<1> DEFINE o2 == Renaming(o, n, m, s[n])
           s2 == Renaming(s, n, m, s[n])
           r2 == Renaming(r, n, m, r[n])
<1>1. /\ o2[m] = s[n] /\ s2[m] = s[n] /\ r2[m] = r[n]
      /\ o2[n] = NULLVP /\ s2[n] = NULLVP /\ r2[n] = NULLVP
      /\ \A k \in Names \ {n, m} : o2[k] = o[k] /\ s2[k] = s[k] /\ r2[k] = r[k]
  BY DEF Renaming
<1> HIDE DEF o2, s2, r2
<1>2. Whole(p, o2, s2, r2, d, z)
  BY <1>1, NullAssumption DEF Whole
<1>3. QED
  BY <1>2 DEF o2, s2, r2

\* The rename of a plain file concerns no shadow.
LEMMA WholePlain ==
  ASSUME NEW p, NEW o \in [Names -> Doc], NEW s \in [Names -> Doc], NEW r \in [Names -> Doc],
         NEW d, NEW z, Whole(p, o, s, r, d, z),
         NEW n \in Names, NEW m \in Names, n # m, o[n] \in p, s[n] = NULLVP, s[m] = NULLVP
  PROVE  Whole(p, Renaming(o, n, m, o[n]), s, r, d, z)
<1> DEFINE o2 == Renaming(o, n, m, o[n])
<1>1. o2[m] = o[n] /\ o2[n] = NULLVP /\ \A k \in Names \ {n, m} : o2[k] = o[k]
  BY DEF Renaming
<1> HIDE DEF o2
<1>2. Whole(p, o2, s, r, d, z)
  BY <1>1, NullAssumption DEF Whole
<1>3. QED
  BY <1>2 DEF o2

\* A leftover that is truncated is nobody's data.
LEMMA WholeTruncated ==
  ASSUME NEW p, NEW o \in [Names -> Doc], NEW s \in [Names -> Doc], NEW r \in [Names -> Doc],
         NEW d \in [Docs -> Doc], NEW z, Whole(p, o, s, r, d, z),
         NEW m \in Names, r[m] # NULLVP, s[m] = NULLVP
  PROVE  Whole(p, o, s, r, [d EXCEPT ![r[m]] = NULLVP], z)
<1> DEFINE d2 == [d EXCEPT ![r[m]] = NULLVP]
<1>1. \A e \in Docs : e # r[m] => d2[e] = d[e]
  OBVIOUS
<1> HIDE DEF d2
<1>2. \A k \in Names : s[k] # NULLVP => s[k] \in Docs /\ s[k] # r[m]
  BY DEF Whole
<1>3. Whole(p, o, s, r, d2, z)
  BY <1>1, <1>2 DEF Whole
<1>4. QED
  BY <1>3 DEF d2

\* The two exchanges together.
LEMMA WholeExchanged ==
  ASSUME NEW p, NEW o \in [Names -> Doc], NEW s \in [Names -> Doc], NEW r \in [Names -> Doc],
         NEW d \in [Docs -> Doc], NEW z \in [Docs -> Doc], Whole(p, o, s, r, d, z),
         NEW n \in Names, NEW m \in Names, s[n] # NULLVP, s[m] # NULLVP
  PROVE  Whole(p, o, s, r, Exchanged(d, s[n], s[m]), Exchanged(z, s[n], s[m]))
<1> DEFINE d2 == Exchanged(d, s[n], s[m])
           z2 == Exchanged(z, s[n], s[m])
<1>1. /\ s[n] \in Docs /\ s[m] \in Docs
      /\ d[s[n]] # NULLVP /\ z[s[n]] = d[s[n]] /\ d[s[m]] # NULLVP /\ z[s[m]] = d[s[m]]
  BY DEF Whole
<1>2. /\ d2[s[n]] = d[s[m]] /\ d2[s[m]] = d[s[n]]
      /\ z2[s[n]] = z[s[m]] /\ z2[s[m]] = z[s[n]]
      /\ \A e \in Docs \ {s[n], s[m]} : d2[e] = d[e] /\ z2[e] = z[e]
  BY <1>1 DEF Exchanged
<1> HIDE DEF d2, z2
<1>3. \A k \in Names : s[k] # NULLVP => d2[s[k]] # NULLVP /\ z2[s[k]] = d2[s[k]]
  BY <1>1, <1>2 DEF Whole
<1>4. Whole(p, o, s, r, d2, z2)
  BY <1>3 DEF Whole
<1>5. QED
  BY <1>4 DEF d2, z2

AllWhole == Whole(plain, orig, shadow, redirected, data, size)

\* A step of the only call keeps the documents as good as whole.
LEMMA WholeOwn ==
  ASSUME TypeInv, HeldInv, BackedInv, Clean, Clean', NEW t \in Threads, Step(t),
         Call(t), Active(t), WholeNow(t), SeenNow(t)
  PROVE  (Active(t)' => WholeNow(t)' /\ SeenNow(t)') /\ (~Active(t)' => AllWhole')
<1> USE NullAssumption
<1>0. Locals = { "fdvp", "tdvp", "redirectedF", "redirectedT", "originalF", "originalT",
                 "newF", "newT", "backingF", "backingT" }
  BY DEF Locals
<1>1. /\ from[t] \in Names /\ to[t] \in Names /\ from[t] # to[t]
      /\ orig \in [Names -> Doc] /\ shadow \in [Names -> Doc] /\ redirected \in [Names -> Doc]
      /\ data \in [Docs -> Doc] /\ size \in [Docs -> Doc]
  BY DEF TypeInv, Call, Active
<1> DEFINE Special == {"renameShadow", "renameOriginal", "exchange"}
<1>2. pc[t] \notin Special => AllWhole
  BY DEF WholeNow, AllWhole
\* Where the files stay as they are.
<1>3. ASSUME UNCHANGED disk, pc[t] \notin Special, pc'[t] \notin Special
      PROVE  WholeNow(t)' /\ AllWhole'
  BY <1>2, <1>3 DEF WholeNow, AllWhole
<1>4. ASSUME pc'[t] = "exit" \/ pc'[t] = "return"
      PROVE  SeenNow(t)'
  BY <1>4 DEF SeenNow, LeftoverPc, BeforeFvp
<1>5. ASSUME \/ NewFvp(t) \/ NewTvp(t) \/ RedirectedFdvp(t) \/ RedirectedTdvp(t)
             \/ RedirectedFvp(t) \/ OriginalFvp(t) \/ RedirectedTvp(t) \/ OriginalTvp(t)
      PROVE  WholeNow(t)' /\ SeenNow(t)'
  <2>1. CASE NewFvp(t)
    <3>1. LookupEffect(t, "newF", orig[from[t]],
            IF tvp[t] # NULLVP THEN "newT" ELSE "renameNew")
      BY <1>0, <2>1, LookupHasEffect DEF NewFvp
    <3>2. UNCHANGED disk
      BY <2>1 DEF NewFvp, VnodeLookup
    <3>3. WholeNow(t)'
      BY <1>3, <3>1, <3>2 DEF LookupEffect
    <3>4. CASE pc'[t] = "exit"
      BY <1>4, <3>3, <3>4
    <3>5. CASE pc'[t] # "exit"
      BY <1>0, <3>1, <3>2, <3>3, <3>5
         DEF LookupEffect, SeenNow, Call, BeforeFvp, BeforeTvp, LeftoverPc
    <3>6. QED
      BY <3>4, <3>5
  <2>2. CASE NewTvp(t)
    <3>1. LookupEffect(t, "newT", orig[to[t]], "renameNew")
      BY <1>0, <2>2, LookupHasEffect DEF NewTvp
    <3>2. UNCHANGED disk
      BY <2>2 DEF NewTvp, VnodeLookup
    <3>3. WholeNow(t)'
      BY <1>3, <3>1, <3>2 DEF LookupEffect
    <3>4. CASE pc'[t] = "exit"
      BY <1>4, <3>3, <3>4
    <3>5. CASE pc'[t] # "exit"
      BY <1>0, <3>1, <3>2, <3>3, <3>5
         DEF LookupEffect, SeenNow, Call, BeforeFvp, BeforeTvp, LeftoverPc
    <3>6. QED
      BY <3>4, <3>5
  <2>3. CASE RedirectedFdvp(t)
    <3>1. LookupEffect(t, "fdvp", "storage", "tdvp")
      BY <1>0, <2>3, LookupHasEffect DEF RedirectedFdvp
    <3>2. UNCHANGED disk
      BY <2>3 DEF RedirectedFdvp, VnodeLookup
    <3>3. WholeNow(t)'
      BY <1>3, <3>1, <3>2 DEF LookupEffect
    <3>4. CASE pc'[t] = "exit"
      BY <1>4, <3>3, <3>4
    <3>5. CASE pc'[t] # "exit"
      BY <1>0, <3>1, <3>2, <3>3, <3>5
         DEF LookupEffect, SeenNow, Call, BeforeFvp, BeforeTvp, LeftoverPc
    <3>6. QED
      BY <3>4, <3>5
  <2>4. CASE RedirectedTdvp(t)
    <3>1. LookupEffect(t, "tdvp", "storage", "redirectedF")
      BY <1>0, <2>4, LookupHasEffect DEF RedirectedTdvp
    <3>2. UNCHANGED disk
      BY <2>4 DEF RedirectedTdvp, VnodeLookup
    <3>3. WholeNow(t)'
      BY <1>3, <3>1, <3>2 DEF LookupEffect
    <3>4. CASE pc'[t] = "exit"
      BY <1>4, <3>3, <3>4
    <3>5. CASE pc'[t] # "exit"
      BY <1>0, <3>1, <3>2, <3>3, <3>5
         DEF LookupEffect, SeenNow, Call, BeforeFvp, BeforeTvp, LeftoverPc
    <3>6. QED
      BY <3>4, <3>5
  <2>5. CASE RedirectedFvp(t)
    <3>1. LookupEffect(t, "redirectedF", redirected[from[t]], "originalF")
      BY <1>0, <2>5, LookupHasEffect DEF RedirectedFvp
    <3>2. UNCHANGED disk
      BY <2>5 DEF RedirectedFvp, VnodeLookup
    <3>3. WholeNow(t)'
      BY <1>3, <3>1, <3>2 DEF LookupEffect
    <3>4. CASE pc'[t] = "exit"
      BY <1>4, <3>3, <3>4
    <3>5. CASE pc'[t] # "exit"
      BY <1>0, <3>1, <3>2, <3>3, <3>5
         DEF LookupEffect, SeenNow, Call, BeforeFvp, BeforeTvp, LeftoverPc
    <3>6. QED
      BY <3>4, <3>5
  <2>6. CASE OriginalFvp(t)
    <3>1. LookupEffect(t, "originalF", orig[from[t]],
            IF tvp[t] # NULLVP THEN "redirectedT" ELSE "leftover")
      BY <1>0, <2>6, LookupHasEffect DEF OriginalFvp
    <3>2. UNCHANGED disk
      BY <2>6 DEF OriginalFvp, VnodeLookup
    <3>3. WholeNow(t)'
      BY <1>3, <3>1, <3>2 DEF LookupEffect
    <3>4. CASE pc'[t] = "exit"
      BY <1>4, <3>3, <3>4
    <3>5. CASE pc'[t] # "exit"
      <4>1. fvp[t] = shadow[from[t]] /\ fvp[t] \in Docs
        BY <3>1 DEF LookupEffect, SeenNow, Call
      <4>2. orig[from[t]] = fvp[t]
        BY <1>1, <1>2, <3>1, <4>1 DEF LookupEffect, AllWhole, Whole
      <4>3. QED
        BY <1>0, <3>1, <3>2, <3>3, <3>5, <4>2
           DEF LookupEffect, SeenNow, Call, BeforeFvp, BeforeTvp, LeftoverPc
    <3>6. QED
      BY <3>4, <3>5
  <2>7. CASE RedirectedTvp(t)
    <3>1. LookupEffect(t, "redirectedT", redirected[to[t]], "originalT")
      BY <1>0, <2>7, LookupHasEffect DEF RedirectedTvp
    <3>2. UNCHANGED disk
      BY <2>7 DEF RedirectedTvp, VnodeLookup
    <3>3. WholeNow(t)'
      BY <1>3, <3>1, <3>2 DEF LookupEffect
    <3>4. CASE pc'[t] = "exit"
      BY <1>4, <3>3, <3>4
    <3>5. CASE pc'[t] # "exit"
      BY <1>0, <3>1, <3>2, <3>3, <3>5
         DEF LookupEffect, SeenNow, Call, BeforeFvp, BeforeTvp, LeftoverPc
    <3>6. QED
      BY <3>4, <3>5
  <2>8. CASE OriginalTvp(t)
    <3>1. LookupEffect(t, "originalT", orig[to[t]], "renameRedirected")
      BY <1>0, <2>8, LookupHasEffect DEF OriginalTvp
    <3>2. UNCHANGED disk
      BY <2>8 DEF OriginalTvp, VnodeLookup
    <3>3. WholeNow(t)'
      BY <1>3, <3>1, <3>2 DEF LookupEffect
    <3>4. CASE pc'[t] = "exit"
      BY <1>4, <3>3, <3>4
    <3>5. CASE pc'[t] # "exit"
      BY <1>0, <3>1, <3>2, <3>3, <3>5
         DEF LookupEffect, SeenNow, Call, BeforeFvp, BeforeTvp, LeftoverPc
    <3>6. QED
      BY <3>4, <3>5
  <2>9. QED
    BY <1>5, <2>1, <2>2, <2>3, <2>4, <2>5, <2>6, <2>7, <2>8
<1>6. ASSUME BackingFvp(t) \/ BackingTvp(t)
      PROVE  WholeNow(t)' /\ SeenNow(t)'
  <2>1. UNCHANGED << disk, args >> /\ pc[t] \in {"backingF", "backingT"}
    BY <1>6 DEF BackingFvp, BackingTvp, GetVnodeIORef
  <2>2. op[t] = "exchange" /\ fvp[t] \in Docs /\ tvp[t] \in Docs
    BY <2>1 DEF Call
  <2>3. vnodeIO[fvp[t]] = fvp[t] /\ vnodeIO[tvp[t]] = tvp[t]
    BY <2>2 DEF BackedInv
  <2>4. fvp[t] = shadow[from[t]] /\ tvp[t] = shadow[to[t]]
    BY <2>1 DEF SeenNow
  <2>5. CASE BackingFvp(t)
    <3>1. pc'[t] = "backingT" /\ v'[t]["backingF"] = fvp[t]
      BY <1>0, <2>2, <2>3, <2>5, LookedUpEffect DEF BackingFvp, GetVnodeIORef, TypeInv
    <3>2. WholeNow(t)'
      BY <1>3, <2>1, <3>1
    <3>3. SeenNow(t)'
      BY <2>1, <2>4, <3>1 DEF SeenNow, LeftoverPc, BeforeFvp
    <3>4. QED
      BY <3>2, <3>3
  <2>6. CASE BackingTvp(t)
    <3>1. /\ pc[t] = "backingT" /\ pc'[t] = "ask"
          /\ v'[t]["backingT"] = tvp[t] /\ v'[t]["backingF"] = v[t]["backingF"]
      BY <1>0, <2>2, <2>3, <2>6, LookedUpEffect DEF BackingTvp, GetVnodeIORef, TypeInv
    <3>2. WholeNow(t)'
      BY <1>3, <2>1, <3>1
    <3>3. v[t]["backingF"] = fvp[t]
      BY <3>1 DEF SeenNow
    <3>4. SeenNow(t)'
      BY <2>1, <2>4, <3>1, <3>3 DEF SeenNow, LeftoverPc, BeforeFvp
    <3>5. QED
      BY <3>2, <3>4
  <2>7. QED
    BY <1>6, <2>5, <2>6
<1>7. ASSUME AskDaemon(t)
      PROVE  WholeNow(t)' /\ SeenNow(t)'
  <2>1. pc[t] = "ask" /\ UNCHANGED << dirs, size, args >>
    BY <1>7 DEF AskDaemon
  <2>2. /\ fvp[t] \in Docs /\ tvp[t] \in Docs
        /\ fvp[t] = shadow[from[t]] /\ tvp[t] = shadow[to[t]]
        /\ v[t]["backingF"] = fvp[t] /\ v[t]["backingT"] = tvp[t]
    BY <2>1 DEF SeenNow, Call
  <2>3. data' = Exchanged(data, fvp[t], tvp[t]) /\ pc'[t] = "exchange"
    <3>1. degraded' # TRUE
      BY Zenon DEF Clean
    <3>2. QED
      BY <1>7, <2>2, <3>1 DEF AskDaemon, Fault, TypeInv
  <2>4. Whole(plain, orig, shadow, redirected, data', Exchanged(size, fvp[t], tvp[t]))
    <3>1. AllWhole /\ shadow[from[t]] # NULLVP /\ shadow[to[t]] # NULLVP
      BY <1>2, <2>1, <2>2
    <3>2. QED
      BY <1>1, <2>2, <2>3, <3>1, WholeExchanged DEF AllWhole
  <2>5. WholeNow(t)'
    BY <2>1, <2>3, <2>4 DEF WholeNow
  <2>6. SeenNow(t)'
    BY <2>3 DEF SeenNow, LeftoverPc, BeforeFvp
  <2>7. QED
    BY <2>5, <2>6
<1>8. ASSUME ExchangeShadows(t)
      PROVE  WholeNow(t)' /\ SeenNow(t)'
  <2>1. pc[t] = "exchange" /\ pc'[t] = "exit" /\ UNCHANGED << dirs, data, args >>
    BY <1>8 DEF ExchangeShadows, TypeInv
  <2>2. size' = Exchanged(size, fvp[t], tvp[t])
    <3>1. degraded' # TRUE
      BY Zenon DEF Clean
    <3>2. QED
      BY <1>8, <3>1 DEF ExchangeShadows, Fault
  <2>3. Whole(plain, orig, shadow, redirected, data, size')
    BY <2>1, <2>2 DEF WholeNow
  <2>4. QED
    BY <1>4, <2>1, <2>3 DEF WholeNow
<1>9. ASSUME RenameNew(t)
      PROVE  WholeNow(t)' /\ SeenNow(t)'
  <2>1. /\ pc[t] = "renameNew" /\ pc'[t] = "exit"
        /\ UNCHANGED << shadow, redirected, plain, data, size >>
    BY <1>9 DEF RenameNew, TypeInv
  <2>2. AllWhole
    BY <1>2, <2>1
  <2>3. CASE UNCHANGED orig
    BY <1>3, <1>4, <2>1, <2>3
  <2>4. CASE orig' = Renaming(orig, from[t], to[t], orig[from[t]])
    <3>1. orig[from[t]] \in plain /\ shadow[from[t]] = NULLVP /\ shadow[to[t]] = NULLVP
      BY <2>1 DEF SeenNow
    <3>2. Whole(plain, orig', shadow, redirected, data, size)
      BY <1>1, <2>2, <2>4, <3>1, WholePlain DEF AllWhole
    <3>3. QED
      BY <1>4, <2>1, <3>2 DEF WholeNow
  <2>5. QED
    BY <1>9, <2>3, <2>4 DEF RenameNew, CanRename, Renamed, Renaming
<1>10. ASSUME Leftover(t)
       PROVE  WholeNow(t)' /\ SeenNow(t)'
  <2>1. UNCHANGED << disk, args >> /\ pc[t] = "leftover"
    BY <1>10 DEF Leftover
  <2>2. /\ tvp[t] = NULLVP /\ v[t]["redirectedT"] = NULLVP /\ v[t]["originalT"] = NULLVP
        /\ fvp[t] = shadow[from[t]] /\ tvp[t] = shadow[to[t]] /\ orig[to[t]] = NULLVP
        /\ v[t]["redirectedF"] = redirected[from[t]]
        /\ v[t]["originalF"] = orig[from[t]] /\ v[t]["originalF"] = fvp[t]
    BY <2>1 DEF SeenNow, Call, LeftoverPc, BeforeTvp, BeforeFvp
  <2>3. degraded' # TRUE
    BY Zenon DEF Clean
  <2>4. \/ /\ pc'[t] = "leftoverOriginal"
           /\ v'[t]["redirectedT"] = redirected[to[t]]
           /\ \A k \in Locals \ {"redirectedT"} : v'[t][k] = v[t][k]
        \/ /\ pc'[t] = "renameRedirected" /\ UNCHANGED v
           /\ redirected[to[t]] = NULLVP
    <3>1. \/ /\ LookedUp(t, "redirectedT", redirected[to[t]])
             /\ Goto(t, "leftoverOriginal")
          \/ redirected[to[t]] = NULLVP /\ Goto(t, "renameRedirected") /\ UNCHANGED v
      BY <1>10, <2>3 DEF Leftover, Fault
    <3>2. pc \in [Threads -> Places]
      BY DEF TypeInv
    <3>3. CASE LookedUp(t, "redirectedT", redirected[to[t]]) /\ Goto(t, "leftoverOriginal")
      BY <1>0, <3>2, <3>3, LookedUpEffect
    <3>4. CASE redirected[to[t]] = NULLVP /\ Goto(t, "renameRedirected") /\ UNCHANGED v
      BY <3>2, <3>4
    <3>5. QED
      BY <3>1, <3>3, <3>4
  <2>5. WholeNow(t)'
    BY <1>3, <2>1, <2>4
  <2>6. SeenNow(t)'
    BY <1>0, <2>1, <2>2, <2>4 DEF SeenNow, LeftoverPc, BeforeFvp
  <2>7. QED
    BY <2>5, <2>6
<1>11. ASSUME LeftoverOriginal(t)
       PROVE  WholeNow(t)' /\ SeenNow(t)'
  <2>1. UNCHANGED << disk, args >> /\ pc[t] = "leftoverOriginal"
    BY <1>11 DEF LeftoverOriginal, LeftoverOriginalAs
  <2>2. orig[to[t]] = NULLVP
    BY <2>1 DEF SeenNow, Call, LeftoverPc
  <2>3. pc'[t] = "truncate" /\ UNCHANGED v
    BY <1>11, <2>2 DEF LeftoverOriginal, LeftoverOriginalAs, TypeInv
  <2>4. WholeNow(t)'
    BY <1>3, <2>1, <2>3
  <2>5. SeenNow(t)'
    BY <2>1, <2>3 DEF SeenNow, LeftoverPc, BeforeFvp
  <2>6. QED
    BY <2>4, <2>5
<1>12. ASSUME Truncate(t)
       PROVE  WholeNow(t)' /\ SeenNow(t)'
  <2>1. /\ pc[t] = "truncate" /\ pc'[t] = "renameRedirected"
        /\ UNCHANGED << dirs, size, args, v >>
    BY <1>12 DEF Truncate, TypeInv
  <2>2. /\ tvp[t] = NULLVP /\ tvp[t] = shadow[to[t]] /\ orig[to[t]] = NULLVP
        /\ v[t]["redirectedT"] = redirected[to[t]] /\ v[t]["redirectedT"] # NULLVP
        /\ v[t]["originalT"] = NULLVP
    BY <2>1 DEF SeenNow, Call, LeftoverPc, BeforeTvp, BeforeFvp
  <2>3. data' = [data EXCEPT ![redirected[to[t]]] = NULLVP]
    <3>1. degraded' # TRUE
      BY Zenon DEF Clean
    <3>2. QED
      BY <1>12, <2>2, <3>1 DEF Truncate, Fault
  <2>4. Whole(plain, orig, shadow, redirected, data', size)
    BY <1>1, <1>2, <2>1, <2>2, <2>3, WholeTruncated DEF AllWhole
  <2>5. WholeNow(t)'
    BY <2>1, <2>4 DEF WholeNow
  <2>6. SeenNow(t)'
    BY <2>1, <2>2 DEF SeenNow, LeftoverPc, BeforeFvp
  <2>7. QED
    BY <2>5, <2>6
<1>13. ASSUME RenameRedirected(t)
       PROVE  WholeNow(t)' /\ SeenNow(t)'
  <2>1. /\ RenameEffect(t, "renameRedirected", redirected, v[t]["redirectedF"],
                        v[t]["redirectedT"], "renameShadow")
        /\ UNCHANGED << orig, shadow >>
    BY <1>13, RenameHasEffect
  <2>2. pc[t] = "renameRedirected" /\ UNCHANGED << args, plain, data, size, v >>
    BY <2>1 DEF RenameEffect
  <2>3. /\ fvp[t] = shadow[from[t]] /\ tvp[t] = shadow[to[t]] /\ fvp[t] \in Docs
        /\ v[t]["redirectedF"] = redirected[from[t]] /\ v[t]["redirectedT"] = redirected[to[t]]
        /\ v[t]["originalF"] = orig[from[t]] /\ v[t]["originalF"] = fvp[t]
        /\ v[t]["originalT"] = orig[to[t]]
    BY <2>2 DEF SeenNow, Call
  <2>4. /\ pc'[t] = "renameShadow"
        /\ redirected' = Renaming(redirected, from[t], to[t], redirected[from[t]])
    <3>1. degraded' # TRUE
      BY Zenon DEF Clean
    <3>2. QED
      BY <2>1, <2>3, <3>1 DEF RenameEffect, Renamed, Renaming
  <2>5. Whole(plain, Renaming(orig, from[t], to[t], fvp[t]),
              Renaming(shadow, from[t], to[t], fvp[t]), redirected', data, size)
    <3>1. AllWhole /\ shadow[from[t]] # NULLVP
      BY <1>2, <2>2, <2>3
    <3>2. QED
      BY <1>1, <2>3, <2>4, <3>1, WholeRenamed DEF AllWhole
  <2>6. WholeNow(t)'
    BY <2>1, <2>2, <2>4, <2>5 DEF WholeNow
  <2>7. SeenNow(t)'
    BY <2>1, <2>2, <2>3, <2>4 DEF SeenNow, LeftoverPc, BeforeFvp
  <2>8. QED
    BY <2>6, <2>7
<1>14. ASSUME RenameShadow(t)
       PROVE  WholeNow(t)' /\ SeenNow(t)'
  <2>1. /\ RenameEffect(t, "renameShadow", shadow, fvp[t], tvp[t], "renameOriginal")
        /\ UNCHANGED << orig, redirected >>
    BY <1>14, RenameHasEffect
  <2>2. pc[t] = "renameShadow" /\ UNCHANGED << args, plain, data, size, v >>
    BY <2>1 DEF RenameEffect
  <2>3. /\ fvp[t] = shadow[from[t]] /\ tvp[t] = shadow[to[t]] /\ fvp[t] \in Docs
        /\ v[t]["originalF"] = orig[from[t]] /\ v[t]["originalF"] = fvp[t]
        /\ v[t]["originalT"] = orig[to[t]]
    BY <2>2 DEF SeenNow, Call
  <2>4. /\ pc'[t] = "renameOriginal"
        /\ shadow' = Renaming(shadow, from[t], to[t], fvp[t])
    <3>1. degraded' # TRUE
      BY Zenon DEF Clean
    <3>2. QED
      BY <2>1, <2>3, <3>1 DEF RenameEffect, Renamed, Renaming
  <2>5. Whole(plain, Renaming(orig, from[t], to[t], fvp[t]), shadow', redirected, data, size)
    BY <2>2, <2>4 DEF WholeNow
  <2>6. WholeNow(t)'
    BY <2>1, <2>2, <2>4, <2>5 DEF WholeNow
  <2>7. SeenNow(t)'
    BY <2>1, <2>2, <2>3, <2>4 DEF SeenNow, LeftoverPc, BeforeFvp
  <2>8. QED
    BY <2>6, <2>7
<1>15. ASSUME RenameOriginal(t)
       PROVE  WholeNow(t)' /\ SeenNow(t)'
  <2>1. /\ RenameEffect(t, "renameOriginal", orig, v[t]["originalF"],
                        v[t]["originalT"], "dissociate")
        /\ UNCHANGED << shadow, redirected >>
    BY <1>15, RenameHasEffect
  <2>2. pc[t] = "renameOriginal" /\ UNCHANGED << args, plain, data, size, v >>
    BY <2>1 DEF RenameEffect
  <2>3. /\ v[t]["originalF"] = orig[from[t]] /\ v[t]["originalF"] = fvp[t]
        /\ v[t]["originalT"] = orig[to[t]]
    BY <2>2 DEF SeenNow
  <2>4. pc'[t] = "dissociate" /\ orig' = Renaming(orig, from[t], to[t], fvp[t])
    <3>1. degraded' # TRUE
      BY Zenon DEF Clean
    <3>2. QED
      BY <2>1, <2>3, <3>1 DEF RenameEffect, Renamed, Renaming
  <2>5. Whole(plain, orig', shadow, redirected, data, size)
    BY <2>2, <2>4 DEF WholeNow
  <2>6. WholeNow(t)'
    BY <2>1, <2>2, <2>4, <2>5 DEF WholeNow
  <2>7. SeenNow(t)'
    BY <2>4 DEF SeenNow, LeftoverPc, BeforeFvp
  <2>8. QED
    BY <2>6, <2>7
<1>16. ASSUME RemoveShadowReverse(t) \/ Exit(t)
       PROVE  WholeNow(t)' /\ SeenNow(t)'
  <2>1. UNCHANGED disk /\ pc[t] \in {"dissociate", "exit"} /\ pc'[t] \in {"exit", "return"}
    BY <1>16 DEF RemoveShadowReverse, Exit, ExitAs, TypeInv
  <2>2. QED
    BY <1>3, <1>4, <2>1
<1>17. ASSUME Return(t)
       PROVE  AllWhole' /\ ~Active(t)'
  <2>1. UNCHANGED disk /\ pc[t] = "return" /\ pc'[t] = "idle"
    BY <1>17 DEF Return, TypeInv
  <2>2. QED
    BY <1>3, <2>1 DEF Active
<1>18. WholeNow(t)' /\ ~Active(t)' => AllWhole'
  BY DEF WholeNow, Active, AllWhole
<1>19. CASE ~Return(t)
  BY Steps, <1>5, <1>6, <1>7, <1>8, <1>9, <1>10, <1>11, <1>12, <1>13, <1>14, <1>15, <1>16,
     <1>18, <1>19
<1>20. QED
  BY <1>17, <1>19

\* WholeInv is kept.
LEMMA WholeStep ==
  ASSUME TypeInv, FlagInv, CallInv, HeldInv, AloneInv, BackedInv, WholeInv, [Next]_vars
  PROVE  WholeInv'
<1> USE NullAssumption
<1> DEFINE Good == /\ Quiet => AllWhole
                   /\ \A t \in Threads : Active(t) => WholeNow(t) /\ SeenNow(t)
<1>1. SUFFICES ASSUME Clean'
               PROVE  Good'
  BY DEF WholeInv, AllWhole
<1>2. ASSUME Clean
      PROVE  Good
  BY <1>2 DEF WholeInv, AllWhole
<1>3. ASSUME NEW t \in Threads, Step(t)
      PROVE  Good'
  <2>1. Clean
    <3>1. UNCHANGED degraded \/ degraded' = TRUE
      BY <1>3, StepDegrades
    <3>2. QED
      BY <1>1, <1>3, <3>1, StepActive DEF Clean
  <2>2. Call(t) /\ Active(t) /\ WholeNow(t) /\ SeenNow(t)
    BY <1>2, <1>3, <2>1, StepActive DEF CallInv
  <2>3. (Active(t)' => WholeNow(t)' /\ SeenNow(t)') /\ (~Active(t)' => AllWhole')
    BY <1>1, <1>3, <2>1, <2>2, WholeOwn
  <2>4. ASSUME NEW u \in Threads \ {t}
        PROVE  ~Active(u)'
    <3>1. ~Active(u)
      BY <2>1, <2>2 DEF Clean, AloneInv, Alone
    <3>2. QED
      BY <1>3, <3>1, StepOthers DEF Own, Active
  <2>5. Quiet' => ~Active(t)'
    BY DEF Quiet, Active
  <2>6. QED
    BY <2>3, <2>4, <2>5
<1>4. ASSUME NEW t \in Threads, NEW o \in Ops, NEW n \in Names, NEW m \in Names,
             Vnop(t, o, n, m)
      PROVE  Good'
  <2>1. Clean /\ Quiet
    BY <1>1, <1>4, Zenon DEF Vnop, Begins, Clean
  <2>2. AllWhole /\ UNCHANGED disk
    BY <1>2, <1>4, <2>1 DEF Vnop
  <2>3. AllWhole'
    BY <2>2 DEF AllWhole
  <2>4. ASSUME NEW u \in Threads \ {t}
        PROVE  ~Active(u)'
    BY <1>4, <2>1, StepOthers DEF Own, Active, Quiet
  <2>5. /\ from'[t] = n /\ to'[t] = m /\ orig[n] # NULLVP
        /\ \/ /\ pc'[t] = "fdvp" /\ shadow[n] # NULLVP /\ fvp'[t] = shadow[n]
              /\ tvp'[t] = (IF orig[m] = NULLVP THEN NULLVP ELSE shadow[m])
              /\ orig[m] # NULLVP => shadow[m] # NULLVP
           \/ /\ pc'[t] = "backingF" /\ fvp'[t] = shadow[n] /\ tvp'[t] = shadow[m]
           \/ /\ pc'[t] = "newF" /\ orig[n] \in plain /\ shadow[m] = NULLVP
    BY <1>4 DEF Vnop, TypeInv
  <2>6. WholeNow(t)'
    BY <2>3, <2>5 DEF WholeNow, AllWhole
  <2>7. /\ orig[m] = NULLVP => shadow[m] = NULLVP
        /\ orig[n] \in plain => shadow[n] = NULLVP
    BY <2>2 DEF AllWhole, Whole
  <2>8. SeenNow(t)'
    <3>1. CASE pc'[t] = "fdvp"
      <4>1. tvp'[t] = shadow[m] /\ fvp'[t] = shadow[n] /\ (tvp'[t] = NULLVP => orig[m] = NULLVP)
        BY <2>5, <2>7, <3>1
      <4>2. QED
        BY <2>2, <2>5, <3>1, <4>1 DEF SeenNow, LeftoverPc, BeforeFvp
    <3>2. CASE pc'[t] = "backingF"
      BY <2>2, <2>5, <3>2 DEF SeenNow, LeftoverPc, BeforeFvp
    <3>3. CASE pc'[t] = "newF"
      BY <2>2, <2>5, <2>7, <3>3 DEF SeenNow, LeftoverPc, BeforeFvp
    <3>4. QED
      BY <2>5, <3>1, <3>2, <3>3
  <2>9. QED
    BY <2>3, <2>4, <2>6, <2>8
<1>5. ASSUME NEW n \in Names, NEW d \in Docs, NEW b \in BOOLEAN, Create(n, d, b)
      PROVE  Good'
  <2>1. Clean /\ Quiet /\ UNCHANGED pc
    BY <1>1, <1>5, Zenon DEF Create, Begins, Clean
  <2>2. AllWhole
    BY <1>2, <2>1
  <2>3. /\ \A k \in Names : orig[k] # d /\ shadow[k] # d /\ redirected[k] # d
        /\ orig[n] = NULLVP /\ shadow[n] = NULLVP /\ redirected[n] = NULLVP
    BY <1>5 DEF Create, InUse
  <2>4. orig' = [orig EXCEPT ![n] = d]
    BY <1>5 DEF Create
  <2>5. CASE b
    <3>1. plain' = plain \cup {d} /\ UNCHANGED << shadow, redirected, data, size >>
      BY <1>5, <2>5 DEF Create
    <3>2. orig'[n] = d /\ \A k \in Names \ {n} : orig'[k] = orig[k]
      BY <2>4 DEF TypeInv
    <3>3. Whole(plain', orig', shadow, redirected, data, size)
      BY <2>2, <2>3, <3>1, <3>2 DEF AllWhole, Whole
    <3>4. QED
      BY <2>1, <3>1, <3>3 DEF AllWhole, Active, Quiet
  <2>6. CASE ~b
    <3>1. /\ shadow' = [shadow EXCEPT ![n] = d] /\ redirected' = [redirected EXCEPT ![n] = d]
          /\ data' = [data EXCEPT ![d] = d] /\ size' = [size EXCEPT ![d] = d]
          /\ plain' = plain \ {d}
      BY <1>5, <2>6, Zenon DEF Create
    <3>2. /\ orig'[n] = d /\ shadow'[n] = d /\ redirected'[n] = d
          /\ data'[d] = d /\ size'[d] = d
          /\ \A k \in Names \ {n} : /\ orig'[k] = orig[k] /\ shadow'[k] = shadow[k]
                                    /\ redirected'[k] = redirected[k]
          /\ \A e \in Docs \ {d} : data'[e] = data[e] /\ size'[e] = size[e]
          /\ \A k \in Names : shadow[k] \in Doc
      BY <2>4, <3>1 DEF TypeInv
    <3>3. Whole(plain', orig', shadow', redirected', data', size')
      <4>1. ASSUME NEW k \in Names \ {n}
            PROVE  /\ orig'[k] \in Docs \ plain' => shadow'[k] = orig'[k]
                   /\ shadow'[k] # NULLVP =>
                        /\ shadow'[k] \notin plain'
                        /\ redirected'[k] = shadow'[k] /\ orig'[k] = shadow'[k]
                        /\ data'[shadow'[k]] # NULLVP
                        /\ size'[shadow'[k]] = data'[shadow'[k]]
                   /\ redirected'[k] # NULLVP =>
                        \A j \in Names \ {k} : redirected'[j] # redirected'[k]
        BY <2>2, <2>3, <3>1, <3>2 DEF AllWhole, Whole
      <4>2. QED
        BY <2>3, <3>1, <3>2, <4>1 DEF Whole
    <3>4. QED
      BY <2>1, <3>3 DEF AllWhole, Active, Quiet
  <2>7. QED
    BY <1>5, <2>5, <2>6
<1>6. ASSUME NEW n \in Names, NEW b \in BOOLEAN, Remove(n, b)
      PROVE  Good'
  <2>1. ~b
    <3>1. b => degraded' = TRUE
      BY <1>6, Zenon DEF Remove, Fault
    <3>2. QED
      BY <1>1, <3>1, Zenon DEF Clean
  <2>2. Clean /\ Quiet
    <3>1. degraded' = degraded /\ overlapped' = (overlapped \/ ~Quiet)
      BY <1>6, <2>1, Zenon DEF Remove, Begins
    <3>2. QED
      BY <1>1, <3>1, Zenon DEF Clean
  <2>3. AllWhole /\ UNCHANGED << redirected, plain, data, size, pc >>
    BY <1>2, <1>6, <2>2 DEF Remove
  <2>4. orig' = [orig EXCEPT ![n] = NULLVP] /\ shadow' = [shadow EXCEPT ![n] = NULLVP]
    BY <1>6, <2>1 DEF Remove
  <2>5. /\ orig'[n] = NULLVP /\ shadow'[n] = NULLVP
        /\ \A k \in Names \ {n} : orig'[k] = orig[k] /\ shadow'[k] = shadow[k]
    BY <2>4 DEF TypeInv
  <2>6. Whole(plain, orig', shadow', redirected, data, size)
    BY <2>3, <2>5 DEF AllWhole, Whole
  <2>7. QED
    BY <2>2, <2>3, <2>6 DEF AllWhole, Active, Quiet
<1>7. CASE \/ \E n \in Names : Lookup(n)
           \/ \E d \in Docs : Reclaim(d)
           \/ UNCHANGED vars
  <2>1. UNCHANGED << disk, pc, args, v, overlapped, degraded >>
    BY <1>7 DEF Lookup, Reclaim
  <2>2. Good
    BY <1>1, <1>2, <2>1 DEF Clean
  <2>3. QED
    BY <2>1, <2>2 DEF AllWhole, Active, Quiet, WholeNow, SeenNow
<1>8. CASE Drop
  BY <1>1, <1>8, Zenon DEF Drop, Fault, Clean
<1>9. QED
  BY <1>3, <1>4, <1>5, <1>6, <1>7, <1>8 DEF Next

----------------------------------------------------------------------------

\* The invariant that all the properties follow from.
THEOREM Inductive == Spec => []IInv
<1>1. Init => IInv
  BY InitIInv
<1>2. IInv /\ [Next]_vars => IInv'
  <2> SUFFICES ASSUME IInv, [Next]_vars
               PROVE  IInv'
    OBVIOUS
  <2>1. TypeInv /\ FlagInv /\ CallInv /\ HeldInv /\ AloneInv /\ MovedInv /\ BackedInv /\ WholeInv
    BY DEF IInv
  <2>2. TypeInv'
    BY TypeStep
  <2>3. QED
    BY <2>1, <2>2, FlagStep, CallStep, HeldStep, AloneStep, MovedStep, BackedStep, WholeStep
       DEF IInv
<1>3. QED
  BY <1>1, <1>2, PTL DEF Spec

\* Types; no more iocounts than local vnodes are held.
THEOREM TypeCorrect == Spec => []TypeOK
<1>1. IInv => TypeOK
  <2> SUFFICES ASSUME IInv
               PROVE  TypeOK
    OBVIOUS
  <2>1. held \in [Threads -> 0..Cardinality(Locals)]
    BY InHandFinite DEF IInv, HeldInv
  <2>2. swapped \in [Threads -> BOOLEAN] /\ {overlapped, degraded} \subseteq BOOLEAN
    BY Zenon DEF IInv, FlagInv
  <2>3. {orig, shadow, redirected} \subseteq [Names -> Doc] /\ plain \in SUBSET Docs
    BY DEF IInv, TypeInv
  <2>4. {data, size, vnodeIO, shadowReverse} \subseteq [Docs -> Doc]
    BY DEF IInv, TypeInv
  <2>5. /\ pc \in [Threads -> {"idle", "exit", "return"} \cup RenamePc \cup PathPc \cup ExPc]
        /\ op \in [Threads -> Ops] /\ {from, to} \subseteq [Threads -> Names]
        /\ {fvp, tvp} \subseteq [Threads -> Doc]
        /\ v \in [Threads -> [Locals -> Vnode]] /\ error \in [Threads -> {"ok", "other"}]
    BY DEF IInv, TypeInv
  <2>6. QED
    BY <2>1, <2>2, <2>3, <2>4, <2>5 DEF TypeOK
<1>2. QED
  BY <1>1, Inductive, PTL

\* No vnode is left held, and the caller's arguments are given back, on any way
\* out of any number of concurrent calls.
THEOREM HoldsAreBalanced == Spec => []VnodesArePut
<1>1. IInv => VnodesArePut
  <2> SUFFICES ASSUME IInv, NEW t \in Threads, pc[t] = "return"
               PROVE  held[t] = 0 /\ ~swapped[t]
    BY DEF VnodesArePut
  <2>1. Call(t) /\ held[t] = Cardinality(InHand(t))
    BY DEF IInv, CallInv, HeldInv
  <2>2. InHand(t) = {}
    BY <2>1 DEF InHand, Call, Beginning
  <2>3. QED
    BY <2>1, <2>2, FS_EmptySet DEF Call
<1>2. QED
  BY <1>1, Inductive, PTL

\* Calls that neither overlap nor fail keep the three files of each document together.
THEOREM RenamesKeepDocuments == Spec => []DocumentsAreWhole
<1>1. IInv => DocumentsAreWhole
  BY DEF IInv, WholeInv, Whole, DocumentsAreWhole
<1>2. QED
  BY <1>1, Inductive, PTL

\* The result of a rename tells what became of the original, also when it failed
\* half way.
THEOREM ResultIsTold == Spec => []ResultTellsOriginal
<1>1. IInv => ResultTellsOriginal
  <2> SUFFICES ASSUME IInv, ~overlapped, NEW t \in Threads, pc[t] = "return",
                      op[t] = "rename"
               PROVE  IF error[t] = "ok"
                      THEN /\ shadow[to[t]] = fvp[t] /\ redirected[to[t]] # NULLVP
                           /\ orig[to[t]] # NULLVP
                           /\ \A dir \in {orig, shadow, redirected} : dir[from[t]] = NULLVP
                      ELSE orig[from[t]] # NULLVP
    BY DEF ResultTellsOriginal
  <2>1. Moved(t)
    BY DEF IInv, MovedInv, Active
  <2>2. CASE error[t] = "ok"
    BY <2>1, <2>2 DEF Moved
  <2>3. CASE error[t] # "ok"
    BY <2>1, <2>3 DEF Moved
  <2>4. QED
    BY <2>2, <2>3
<1>2. QED
  BY <1>1, Inductive, PTL
=============================================================================
