-------------------------------- MODULE Rename --------------------------------
(***************************************************************************)
(* The rename and exchange hooks of VFSHooks.cpp.  A document that is      *)
(* redirected is three files: the original and its shadow in the           *)
(* application's directory, and the file of the protected storage that has *)
(* the data.  A rename is three renames, and an exchange two exchanges, by *)
(* the file system, which knows nothing of each other; the kernel does not *)
(* order the renames of different threads.                                 *)
(*                                                                         *)
(* A file goes by the document it was made for, so that a directory is a   *)
(* function from names to documents; a vnode goes by its file.  A step is  *)
(* one call into the file system, the daemon or a map.  The conversions of *)
(* the paths give each name its own shadow and storage name.               *)
(***************************************************************************)
EXTENDS Naturals, FiniteSets

CONSTANTS
  Threads,
  Names,    \* names in the application's directory
  Docs,
  NULLVP,
  MayFail,  \* may memory and calls fail, originals and associations vanish?
  OverlapAgain  \* bound: may anything begin when calls have overlapped before?

ASSUME NullAssumption == NULLVP \notin Docs
ASSUME NamesAssumption == Names # {}
ASSUME MayAssumption == {MayFail, OverlapAgain} \subseteq BOOLEAN

Doc   == Docs \cup {NULLVP}
Ops   == { "rename", "renamePath", "exchange" }
\* Local vnodes; the first two are the storage's directory.
Locals == { "fdvp", "tdvp", "redirectedF", "redirectedT", "originalF", "originalT",
            "newF", "newT", "backingF", "backingT" }
Vnode  == Doc \cup {"storage"}

VARIABLES
  orig, shadow, redirected,  \* the files of each name
  plain,          \* documents whose lookups fell back to path redirection
  data,           \* whose data the storage's file of a document has, if any
  size,           \* the document the shadow has the size of
  vnodeIO,        \* InstanceForVnodeIO of each document's shadow
  shadowReverse,  \* InstanceForShadowToVnode
  pc, op, from, to,
  fvp, tvp,       \* ap->a_fvp, ap->a_tvp, of a shadow or a path's copy
  swapped,        \* does ap name the hook's vnodes instead of the caller's?
  v,              \* v[t][l]: local vnode l
  held,           \* iocounts the hook has
  error,
  overlapped,     \* history: have two calls overlapped?
  degraded        \* history: has something failed or vanished?

dirs == << orig, shadow, redirected, plain >>
disk == << dirs, data, size >>
maps == << vnodeIO, shadowReverse >>
args == << op, from, to, fvp, tvp >>
vars == << disk, maps, pc, args, swapped, v, held, error, overlapped, degraded >>

RenamePc == { "fdvp", "tdvp", "redirectedF", "originalF", "redirectedT", "originalT",
              "leftover", "leftoverOriginal", "truncate", "renameRedirected",
              "renameShadow", "renameOriginal", "dissociate" }
PathPc   == { "newF", "newT", "renameNew" }
ExPc     == { "backingF", "backingT", "ask", "exchange" }

TypeOK ==
  /\ {orig, shadow, redirected} \subseteq [Names -> Doc]
  /\ plain \in SUBSET Docs
  /\ {data, size, vnodeIO, shadowReverse} \subseteq [Docs -> Doc]
  /\ pc \in [Threads -> {"idle", "exit", "return"} \cup RenamePc \cup PathPc \cup ExPc]
  /\ op \in [Threads -> Ops]
  /\ {from, to} \subseteq [Threads -> Names]
  /\ {fvp, tvp} \subseteq [Threads -> Doc]
  /\ swapped \in [Threads -> BOOLEAN]
  /\ v \in [Threads -> [Locals -> Vnode]]
  /\ held \in [Threads -> 0..Cardinality(Locals)]
  /\ error \in [Threads -> {"ok", "other"}]
  /\ {overlapped, degraded} \subseteq BOOLEAN

NoFiles  == [n \in Names |-> NULLVP]
NoVnodes == [l \in Locals |-> NULLVP]
AName    == CHOOSE n \in Names : TRUE

Init ==
  /\ orig = NoFiles /\ shadow = NoFiles /\ redirected = NoFiles /\ plain = {}
  /\ data = [d \in Docs |-> NULLVP] /\ size = [d \in Docs |-> NULLVP]
  /\ vnodeIO = [d \in Docs |-> NULLVP] /\ shadowReverse = [d \in Docs |-> NULLVP]
  /\ pc = [t \in Threads |-> "idle"]
  /\ op = [t \in Threads |-> "rename"]
  /\ from = [t \in Threads |-> AName] /\ to = [t \in Threads |-> AName]
  /\ fvp = [t \in Threads |-> NULLVP] /\ tvp = [t \in Threads |-> NULLVP]
  /\ swapped = [t \in Threads |-> FALSE]
  /\ v = [t \in Threads |-> NoVnodes]
  /\ held = [t \in Threads |-> 0]
  /\ error = [t \in Threads |-> "ok"]
  /\ overlapped = FALSE /\ degraded = FALSE

At(t, l)     == pc[t] = l
Goto(t, l)   == pc' = [pc EXCEPT ![t] = l]
Set(x, t, e) == [x EXCEPT ![t] = e]
Quiet        == \A t \in Threads : At(t, "idle")

\* A call gives the error up and leaves.
Fails(t) == /\ error' = Set(error, t, "other")
            /\ Goto(t, "exit")
Fault    == MayFail /\ degraded' = TRUE

\* Something begins, maybe while a call is under way.
Begins   == /\ overlapped => OverlapAgain
            /\ overlapped' = (overlapped \/ ~Quiet)

----------------------------------------------------------------------------
(* The world around the hooks.                                             *)

InUse(d) == \/ \E n \in Names : d \in {orig[n], shadow[n], redirected[n]}
            \/ \E e \in Docs : d \in {vnodeIO[e], shadowReverse[e]}
            \/ \E t \in Threads : d \in {fvp[t], tvp[t]} \/ \E l \in Locals : v[t][l] = d

\* Of a new document the create hook makes all three files; or no shadow can
\* be made.  A name with a leftover in the storage is left out: what comes of it
\* is the daemon's affair.
Create(n, d, isPlain) ==
  /\ orig[n] = NULLVP /\ shadow[n] = NULLVP /\ redirected[n] = NULLVP
  /\ ~InUse(d)
  /\ orig' = [orig EXCEPT ![n] = d]
  /\ IF isPlain
     THEN /\ plain' = plain \cup {d}
          /\ UNCHANGED << shadow, redirected, data, size, maps >>
     ELSE /\ shadow' = [shadow EXCEPT ![n] = d]
          /\ redirected' = [redirected EXCEPT ![n] = d]
          /\ data' = [data EXCEPT ![d] = d]
          /\ size' = [size EXCEPT ![d] = d]
          /\ vnodeIO' = [vnodeIO EXCEPT ![d] = d]
          /\ shadowReverse' = [shadowReverse EXCEPT ![d] = d]
          /\ plain' = plain \ {d}
  /\ Begins
  /\ UNCHANGED << pc, args, swapped, v, held, error, degraded >>

\* Somebody removes the visible files of a name, or the original alone; the
\* storage keeps its own.
Remove(n, alone) ==
  /\ orig[n] # NULLVP
  /\ alone => Fault
  /\ orig' = [orig EXCEPT ![n] = NULLVP]
  /\ shadow' = IF alone THEN shadow ELSE [shadow EXCEPT ![n] = NULLVP]
  /\ Begins
  /\ alone \/ UNCHANGED degraded
  /\ UNCHANGED << redirected, plain, data, size, maps, pc, args, swapped, v, held,
                  error >>

\* A shadow that is gone takes its associations along.
Reclaim(d) ==
  /\ \A n \in Names : shadow[n] # d
  /\ \A t \in Threads : d \notin {fvp[t], tvp[t]}
  /\ vnodeIO' = [vnodeIO EXCEPT ![d] = NULLVP]
  /\ shadowReverse' = [shadowReverse EXCEPT ![d] = NULLVP]
  /\ UNCHANGED << disk, pc, args, swapped, v, held, error, overlapped, degraded >>

\* A lookup of the application associates the shadow with its original and
\* with the storage's file of the name, where it has no association.
Lookup(n) ==
  /\ orig[n] # NULLVP /\ shadow[n] # NULLVP /\ redirected[n] # NULLVP
  /\ shadowReverse' = [shadowReverse EXCEPT ![shadow[n]] = orig[n]]
  /\ vnodeIO' = [vnodeIO EXCEPT ![shadow[n]] = IF @ = NULLVP THEN redirected[n] ELSE @]
  /\ UNCHANGED << disk, pc, args, swapped, v, held, error, overlapped, degraded >>

\* The close of the client drops the associations.
Drop ==
  /\ Fault
  /\ vnodeIO' = [d \in Docs |-> NULLVP]
  /\ shadowReverse' = [d \in Docs |-> NULLVP]
  /\ UNCHANGED << disk, pc, args, swapped, v, held, error, overlapped >>

\* The kernel looks up the two names, which gives the shadows, or the copies of
\* plain files, and calls the hook.  A shadow over a plain file is left out.
Vnop(t, o, n, m) ==
  /\ At(t, "idle") /\ n # m
  /\ \/ /\ o = "rename" /\ shadow[n] # NULLVP
        /\ orig[m] # NULLVP => shadow[m] # NULLVP
        /\ fvp' = Set(fvp, t, shadow[n])
        /\ tvp' = Set(tvp, t, IF orig[m] = NULLVP THEN NULLVP ELSE shadow[m])
        /\ Goto(t, "fdvp")
     \/ /\ o = "exchange" /\ shadow[n] # NULLVP /\ shadow[m] # NULLVP /\ orig[m] # NULLVP
        /\ fvp' = Set(fvp, t, shadow[n]) /\ tvp' = Set(tvp, t, shadow[m])
        /\ Goto(t, "backingF")
     \/ /\ o = "renamePath" /\ orig[n] \in plain /\ shadow[m] = NULLVP
        /\ fvp' = Set(fvp, t, orig[n]) /\ tvp' = Set(tvp, t, orig[m])
        /\ Goto(t, "newF")
  /\ orig[n] # NULLVP
  /\ op' = Set(op, t, o) /\ from' = Set(from, t, n) /\ to' = Set(to, t, m)
  /\ Begins
  /\ UNCHANGED << disk, maps, swapped, v, held, error, degraded >>

\* vnode_lookup into a local vnode; its caller has an iocount.
LookedUp(t, l, file) == /\ v' = [v EXCEPT ![t][l] = file]
                        /\ held' = Set(held, t, held[t] + 1)

VnodeLookup(t, l, file, next) ==
  /\ At(t, l)
  /\ \/ /\ file # NULLVP
        /\ LookedUp(t, l, file) /\ Goto(t, next)
        /\ UNCHANGED << error, degraded >>
     \/ /\ file = NULLVP /\ Fails(t)
        /\ UNCHANGED << v, held, degraded >>
     \/ /\ Fault /\ Fails(t)
        /\ UNCHANGED << v, held >>
  /\ UNCHANGED << disk, maps, args, swapped, overlapped >>

\* The file system's rename fails when a vnode is not, or no longer, what has
\* the name.
Renamed(dir, t, f)      == [dir EXCEPT ![to[t]] = f, ![from[t]] = NULLVP]
CanRename(dir, t, f, g) == dir[from[t]] = f /\ dir[to[t]] = g

----------------------------------------------------------------------------
(* Path redirection: a rename of the original, found by its name.          *)

NewFvp(t) == VnodeLookup(t, "newF", orig[from[t]],
                         IF tvp[t] # NULLVP THEN "newT" ELSE "renameNew")
NewTvp(t) == VnodeLookup(t, "newT", orig[to[t]], "renameNew")

\* The arguments name the originals until the hook returns.
RenameNew(t) ==
  /\ At(t, "renameNew")
  /\ swapped' = Set(swapped, t, TRUE)
  /\ Goto(t, "exit")
  /\ \/ /\ CanRename(orig, t, v[t]["newF"], v[t]["newT"])
        /\ orig' = Renamed(orig, t, v[t]["newF"])
        /\ UNCHANGED << error, degraded >>
     \/ /\ ~CanRename(orig, t, v[t]["newF"], v[t]["newT"])
        /\ error' = Set(error, t, "other") /\ UNCHANGED << orig, degraded >>
     \/ /\ Fault /\ error' = Set(error, t, "other") /\ UNCHANGED orig
  /\ UNCHANGED << shadow, redirected, plain, data, size, maps, args, v, held, overlapped >>

----------------------------------------------------------------------------
(* I/O redirection: the three renames.                                     *)

\* The conversions of the two names, which may find no memory, come first.
RedirectedFdvp(t) == VnodeLookup(t, "fdvp", "storage", "tdvp")
RedirectedTdvp(t) == VnodeLookup(t, "tdvp", "storage", "redirectedF")
RedirectedFvp(t)  == VnodeLookup(t, "redirectedF", redirected[from[t]], "originalF")
OriginalFvp(t)    == VnodeLookup(t, "originalF", orig[from[t]],
                                 IF tvp[t] # NULLVP THEN "redirectedT" ELSE "leftover")
RedirectedTvp(t)  == VnodeLookup(t, "redirectedT", redirected[to[t]], "originalT")
OriginalTvp(t)    == VnodeLookup(t, "originalT", orig[to[t]], "renameRedirected")

\* There is no target, but the storage may have a file of its name.
Leftover(t) ==
  /\ At(t, "leftover")
  /\ \/ /\ redirected[to[t]] # NULLVP
        /\ LookedUp(t, "redirectedT", redirected[to[t]])
        /\ Goto(t, "leftoverOriginal")
        /\ UNCHANGED degraded
     \/ /\ redirected[to[t]] = NULLVP \/ Fault
        /\ redirected[to[t]] # NULLVP \/ UNCHANGED degraded
        /\ Goto(t, "renameRedirected")
        /\ UNCHANGED << v, held >>
  /\ UNCHANGED << disk, maps, args, swapped, error, overlapped >>

\* If the original came to be, both are put and the rename runs into it.  Any
\* error of the lookup counts as its absence.
LeftoverOriginalAs(t, forgotten) ==
  /\ At(t, "leftoverOriginal")
  /\ \/ /\ orig[to[t]] # NULLVP
        /\ v' = [v EXCEPT ![t]["redirectedT"] = forgotten]
        /\ held' = Set(held, t, held[t] - 1)
        /\ Goto(t, "renameRedirected")
        /\ UNCHANGED degraded
     \/ /\ orig[to[t]] = NULLVP \/ Fault
        /\ orig[to[t]] # NULLVP \/ UNCHANGED degraded
        /\ Goto(t, "truncate")
        /\ UNCHANGED << v, held >>
  /\ UNCHANGED << disk, maps, args, swapped, error, overlapped >>

\* Variant: the exit puts the vnode once more.
LeftoverOriginalPutTwice(t) == LeftoverOriginalAs(t, v[t]["redirectedT"])

LeftoverOriginal(t) == LeftoverOriginalAs(t, NULLVP)

\* Its result is ignored.
Truncate(t) ==
  /\ At(t, "truncate")
  /\ \/ /\ data' = [data EXCEPT ![v[t]["redirectedT"]] = NULLVP]
        /\ UNCHANGED degraded
     \/ Fault /\ UNCHANGED data
  /\ Goto(t, "renameRedirected")
  /\ UNCHANGED << dirs, size, maps, args, swapped, v, held, error, overlapped >>

\* The three renames, with the vnodes each is given.
RenameIn(t, l, dir, f, g, next, onError) ==
  /\ At(t, l)
  /\ \/ /\ CanRename(dir, t, f, g)
        /\ dir' = Renamed(dir, t, f)
        /\ Goto(t, next)
        /\ UNCHANGED << error, degraded >>
     \/ /\ ~CanRename(dir, t, f, g) /\ onError
        /\ UNCHANGED << dir, degraded >>
     \/ /\ Fault /\ onError
        /\ UNCHANGED dir
  /\ UNCHANGED << plain, data, size, maps, args, swapped, v, held, overlapped >>

RenameRedirected(t) ==
  /\ RenameIn(t, "renameRedirected", redirected, v[t]["redirectedF"], v[t]["redirectedT"],
              "renameShadow", Fails(t))
  /\ UNCHANGED << orig, shadow >>

RenameShadowOr(t, onError) ==
  /\ RenameIn(t, "renameShadow", shadow, fvp[t], tvp[t], "renameOriginal", onError)
  /\ UNCHANGED << orig, redirected >>

\* Variant: its error does not stop the hook.
RenameShadowUntested(t) == RenameShadowOr(t, Goto(t, "renameOriginal") /\ UNCHANGED error)

RenameShadow(t) == RenameShadowOr(t, Fails(t))

\* gSynchroniseWithOriginal is a constant.
RenameOriginalIf(t, gSynchroniseWithOriginal) ==
  IF gSynchroniseWithOriginal
  THEN /\ RenameIn(t, "renameOriginal", orig, v[t]["originalF"], v[t]["originalT"],
                   "dissociate", Fails(t))
       /\ UNCHANGED << shadow, redirected >>
  ELSE /\ At(t, "renameOriginal") /\ Goto(t, "dissociate")
       /\ UNCHANGED << disk, maps, args, swapped, v, held, error, overlapped, degraded >>

\* Variant: as if the originals were not kept in step.
RenameOriginalNot(t) == RenameOriginalIf(t, FALSE)

RenameOriginal(t) == RenameOriginalIf(t, TRUE)

RemoveShadowReverse(t) ==
  /\ At(t, "dissociate")
  /\ shadowReverse' = [shadowReverse EXCEPT ![fvp[t]] = NULLVP]
  /\ Goto(t, "exit")
  /\ UNCHANGED << disk, vnodeIO, args, swapped, v, held, error, overlapped, degraded >>

----------------------------------------------------------------------------
(* Exchange: the daemon exchanges the data, the hook the shadows.          *)

GetVnodeIORef(t, l, d, next) ==
  /\ At(t, l)
  /\ IF vnodeIO[d] # NULLVP THEN LookedUp(t, l, vnodeIO[d]) /\ Goto(t, next)
                            ELSE Goto(t, "exchange") /\ UNCHANGED << v, held >>
  /\ UNCHANGED << disk, maps, args, swapped, error, overlapped, degraded >>

BackingFvp(t) == GetVnodeIORef(t, "backingF", fvp[t], "backingT")
BackingTvp(t) == GetVnodeIORef(t, "backingT", tvp[t], "ask")

Exchanged(x, d, e) == [x EXCEPT ![d] = x[e], ![e] = x[d]]

\* The paths of the backing vnodes, and the daemon, whose result is not asked
\* for.
AskDaemon(t) ==
  /\ At(t, "ask")
  /\ \/ /\ data' = Exchanged(data, v[t]["backingF"], v[t]["backingT"])
        /\ Goto(t, "exchange") /\ UNCHANGED << error, degraded >>
     \/ /\ Fault /\ Goto(t, "exchange") /\ UNCHANGED << data, error >>
     \/ /\ Fault /\ Fails(t) /\ UNCHANGED data
  /\ UNCHANGED << dirs, size, maps, args, swapped, v, held, overlapped >>

ExchangeShadows(t) ==
  /\ At(t, "exchange")
  /\ Goto(t, "exit")
  /\ \/ size' = Exchanged(size, fvp[t], tvp[t]) /\ UNCHANGED << error, degraded >>
     \/ Fault /\ error' = Set(error, t, "other") /\ UNCHANGED size
  /\ UNCHANGED << dirs, data, maps, args, swapped, v, held, overlapped >>

----------------------------------------------------------------------------

\* Every local vnode that is there is put, and the arguments are as they were.
ExitAs(t, put) ==
  /\ At(t, "exit")
  /\ held' = Set(held, t, held[t] - Cardinality({l \in put : v[t][l] # NULLVP}))
  /\ v' = Set(v, t, NoVnodes)
  /\ swapped' = Set(swapped, t, FALSE)
  /\ Goto(t, "return")
  /\ UNCHANGED << disk, maps, args, error, overlapped, degraded >>

\* Variant: the target of a path redirection is forgotten.
ExitKeepsNewTvp(t) == ExitAs(t, Locals \ {"newT"})

Exit(t) == ExitAs(t, Locals)

\* The kernel has the answer; the locals are gone.
Return(t) ==
  /\ At(t, "return")
  /\ Goto(t, "idle")
  /\ op' = Set(op, t, "rename")
  /\ from' = Set(from, t, AName) /\ to' = Set(to, t, AName)
  /\ fvp' = Set(fvp, t, NULLVP) /\ tvp' = Set(tvp, t, NULLVP)
  /\ error' = Set(error, t, "ok")
  /\ UNCHANGED << disk, maps, swapped, v, held, overlapped, degraded >>

Step(t) ==
  \/ NewFvp(t) \/ NewTvp(t) \/ RenameNew(t)
  \/ RedirectedFdvp(t) \/ RedirectedTdvp(t) \/ RedirectedFvp(t) \/ OriginalFvp(t)
  \/ RedirectedTvp(t) \/ OriginalTvp(t) \/ Leftover(t) \/ LeftoverOriginal(t)
  \/ Truncate(t) \/ RenameRedirected(t) \/ RenameShadow(t) \/ RenameOriginal(t)
  \/ RemoveShadowReverse(t)
  \/ BackingFvp(t) \/ BackingTvp(t) \/ AskDaemon(t) \/ ExchangeShadows(t)
  \/ Exit(t) \/ Return(t)

Next ==
  \/ \E t \in Threads : Step(t) \/ \E o \in Ops, n, m \in Names : Vnop(t, o, n, m)
  \/ \E n \in Names, d \in Docs, b \in BOOLEAN : Create(n, d, b)
  \/ \E n \in Names, b \in BOOLEAN : Remove(n, b)
  \/ \E n \in Names : Lookup(n)
  \/ \E d \in Docs : Reclaim(d)
  \/ Drop

Spec == Init /\ [][Next]_vars

----------------------------------------------------------------------------
(* Properties.                                                             *)

Clean == ~overlapped /\ ~degraded

\* The hook puts each vnode it looked up once, on every way out, and gives the
\* caller's arguments back as they were, whose vnodes the caller puts.
VnodesArePut == \A t \in Threads : At(t, "return") => held[t] = 0 /\ ~swapped[t]

\* Between calls that do not overlap and do not fail, the three files of a name
\* are of one document, whatever was renamed over what or left over before; no
\* truncation and no rename has taken its data, and the shadow, through which
\* the application reads, has the size of the data the storage has.
DocumentsAreWhole ==
  Clean /\ Quiet =>
    \A n \in Names :
      /\ orig[n] \in Docs \ plain => shadow[n] = orig[n]
      /\ shadow[n] # NULLVP =>
           /\ redirected[n] = shadow[n] /\ orig[n] = shadow[n]
           /\ data[shadow[n]] # NULLVP
           /\ size[shadow[n]] = data[shadow[n]]

\* Also when something failed: a rename that reports success has moved all
\* three files, and one that reports an error has left the original.
ResultTellsOriginal ==
  ~overlapped =>
    \A t \in Threads :
      At(t, "return") /\ op[t] = "rename" =>
        IF error[t] = "ok"
        THEN /\ shadow[to[t]] = fvp[t] /\ redirected[to[t]] # NULLVP
             /\ orig[to[t]] # NULLVP
             /\ \A dir \in {orig, shadow, redirected} : dir[from[t]] = NULLVP
        ELSE orig[from[t]] # NULLVP
=============================================================================
