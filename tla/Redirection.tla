---------------------------- MODULE Redirection ----------------------------
(***************************************************************************)
(* The lookup and create hooks of a protected application (VFSHooks.cpp)   *)
(* for one file.  The application names the original or, rarely, the       *)
(* shadow copy next to it; with I/O redirection it is handed the vnode of  *)
(* the shadow, whose data is in a backing file of the protected storage;   *)
(* when that fails, path redirection hands out the vnode of another copy   *)
(* in the storage, and the last resort is the original.                    *)
(*                                                                         *)
(* A step is one call into the file system, the daemon or a map.  A vnode  *)
(* goes by the name of its file: a file's vnode is gone only when nobody   *)
(* holds it.  Calls that pass through (other applications, the daemon,     *)
(* recursive calls, names in the storage) keep no state and are left out.  *)
(***************************************************************************)
EXTENDS Integers

CONSTANTS
  Threads,  \* threads of protected applications
  NULLVP,
  MayFail,  \* may memory run out, and calls fail on files that are there?
  MayDrop,  \* may the associations be dropped while they are in use?
  MayCreate \* do the applications create files too?

ASSUME NullAssumption == NULLVP \notin {"original", "shadow", "copy", "backing"}
ASSUME MayAssumption ==
  MayFail \in BOOLEAN /\ MayDrop \in BOOLEAN /\ MayCreate \in BOOLEAN

Visible == { "original", "shadow" }   \* files in the application's directory
Storage == { "copy", "backing" }      \* files in appData->redirectTo
Files   == Visible \cup Storage
Vnode   == Files \cup {NULLVP}

\* QvrConvertToRedirectedPath of the two names, and of the shadow's path.
\* (QvrConvertToShadowCopyPath gives the shadow for either name.)
RedirectedPath(n) == IF n = "shadow" THEN "backing" ELSE "copy"

VARIABLES
  exists,         \* files that exist
  copied,         \* files of the storage that hold all of what was copied
  appData,        \* vnodes InstanceForAppData has for I/O redirection
  vnodeIO,        \* InstanceForVnodeIO of the shadow
  shadowReverse,  \* InstanceForShadowToVnode of the shadow
  recursive,      \* threads that RecursionEngine knows
  pc,
  create,         \* does the thread run the create hook?
  name,           \* the file that a_cnp names
  nameiop,        \* cn_nameiop
  vpp,            \* *a_vpp
  error,
  original, shadow, backing,  \* local vnodes
  controlled,     \* the daemon's answer to Filter
  callDaemon,     \* local callDaemon
  held            \* held[t][f]: iocounts thread t has on the vnode of f

disk  == << exists, copied >>
maps  == << appData, vnodeIO, shadowReverse >>
args  == << create, name, nameiop >>
local == << original, shadow, backing, controlled, callDaemon >>
vars  == << disk, maps, recursive, pc, args, vpp, error, local, held >>

Errors   == { "ok", "ENOENT", "EJUSTRETURN", "other" }
\* Calls that, were they not marked, would be redirected once more.
NestedPc == { "shadowLookup", "shadowOpen", "associateLookup", "createOriginal",
              "createShadow" }
LookupPc == { "lookup", "appData", "filter", "reverse", "askShadow", "askCopy",
              "copyPath", "pathLookup", "redirectedLookup", "exit" }
SharedPc == { "copyShadow", "associate", "associateAdd", "getBacking", "handOut" }
CreatePc == { "createFilter", "askCreate", "createReverse", "createClose" }

TypeOK ==
  /\ exists \in SUBSET Files
  /\ copied \in SUBSET (Storage \cap exists)
  /\ appData \in SUBSET Visible
  /\ vnodeIO \in {NULLVP, "backing"}
  /\ shadowReverse \in Visible \cup {NULLVP}
  /\ recursive \in SUBSET Threads
  /\ pc \in [Threads -> {"idle", "return"} \cup NestedPc \cup LookupPc
                        \cup SharedPc \cup CreatePc]
  /\ create \in [Threads -> BOOLEAN]
  /\ name \in [Threads -> Visible]
  /\ nameiop \in [Threads -> {"LOOKUP", "CREATE"}]
  /\ error \in [Threads -> Errors]
  /\ vpp \in [Threads -> Vnode]
  /\ original \in [Threads -> Vnode]
  /\ shadow \in [Threads -> Vnode]
  /\ backing \in [Threads -> Vnode]
  /\ controlled \in [Threads -> BOOLEAN]
  /\ callDaemon \in [Threads -> BOOLEAN]
  /\ held \in [Threads -> [Files -> Nat]]

Init ==
  /\ exists \in SUBSET Visible
  /\ copied = {} /\ appData = {}
  /\ vnodeIO = NULLVP /\ shadowReverse = NULLVP
  /\ recursive = {}
  /\ pc = [t \in Threads |-> "idle"]
  /\ create = [t \in Threads |-> FALSE]
  /\ name = [t \in Threads |-> "original"]
  /\ nameiop = [t \in Threads |-> "LOOKUP"]
  /\ error = [t \in Threads |-> "ok"]
  /\ vpp = [t \in Threads |-> NULLVP]
  /\ original = [t \in Threads |-> NULLVP]
  /\ shadow = [t \in Threads |-> NULLVP]
  /\ backing = [t \in Threads |-> NULLVP]
  /\ controlled = [t \in Threads |-> FALSE]
  /\ callDaemon = [t \in Threads |-> FALSE]
  /\ held = [t \in Threads |-> [f \in Files |-> 0]]

At(t, l)    == pc[t] = l
Goto(t, l)  == pc' = [pc EXCEPT ![t] = l]
Set(x, t, v) == [x EXCEPT ![t] = v]
Fail(t, e, l) == error' = Set(error, t, e) /\ Goto(t, l)

\* vnode_get and vnode_put by thread t; a put of NULLVP does nothing.
vnode_get(t, f) == held' = [held EXCEPT ![t][f] = @ + 1]
Puts(t, vs) ==
  [held EXCEPT ![t] =
     [f \in Files |-> @[f] - (IF f = vs[1] THEN 1 ELSE 0)
                           - (IF f = vs[2] THEN 1 ELSE 0)]]

EnterRecursiveCall(t) == recursive' = recursive \cup {t}
LeaveRecursiveCall(t) == recursive' = recursive \ {t}

----------------------------------------------------------------------------
(* Other applications, and the other hooks.                                *)

\* A name is used again only after the vnode it stood for.
Unused(f) == /\ \A t \in Threads : held[t][f] = 0
             /\ f # vnodeIO /\ f # shadowReverse

OtherCreates(f) ==
  /\ f \notin exists /\ Unused(f)
  /\ exists' = exists \cup {f}
  /\ UNCHANGED << copied, maps, recursive, pc, args, vpp, error, local, held >>

\* The original is unlinked or renamed, be it in use or not.
OtherUnlinks ==
  /\ "original" \in exists
  /\ exists' = exists \ {"original"}
  /\ UNCHANGED << copied, maps, recursive, pc, args, vpp, error, local, held >>

\* A vnode nobody holds is reclaimed, maybe because its file is unlinked; the
\* reclaim hook takes it out of the maps.
Reclaim(f) ==
  /\ Unused(f)
  /\ exists' \in {exists, exists \ {f}}
  /\ appData' = appData \ {f}
  /\ IF f = "shadow" THEN vnodeIO' = NULLVP /\ shadowReverse' = NULLVP
                     ELSE UNCHANGED << vnodeIO, shadowReverse >>
  /\ UNCHANGED << copied, recursive, pc, args, vpp, error, local, held >>

\* The close of the client or the inactive hook drops the backing vnode, the
\* close or a rename the shadow's original.
DropAssociation ==
  /\ MayDrop
  /\ \/ vnodeIO' = NULLVP /\ UNCHANGED shadowReverse
     \/ shadowReverse' = NULLVP /\ UNCHANGED vnodeIO
  /\ UNCHANGED << disk, appData, recursive, pc, args, vpp, error, local,
                  held >>

----------------------------------------------------------------------------
(* QvrVnopLookupHookEx2: I/O redirection.                                  *)

Lookup(t, n, o) ==
  /\ At(t, "idle")
  /\ name' = Set(name, t, n)
  /\ nameiop' = Set(nameiop, t, o)
  /\ create' = Set(create, t, FALSE)
  /\ Goto(t, "lookup")
  /\ UNCHANGED << disk, maps, recursive, vpp, error, local, held >>

\* The original function, in a recursive section of its own, called first and
\* once more for path redirection.
OriginalLookup(t) ==
  /\ At(t, "lookup") \/ At(t, "pathLookup")
  /\ \/ /\ name[t] \in exists
        /\ vpp' = Set(vpp, t, name[t])
        /\ vnode_get(t, name[t])
        /\ error' = Set(error, t, "ok")
        /\ Goto(t, IF At(t, "lookup") THEN "appData" ELSE "redirectedLookup")
     \/ /\ name[t] \notin exists
        /\ Fail(t, IF nameiop[t] = "CREATE" THEN "EJUSTRETURN" ELSE "ENOENT",
                IF At(t, "lookup") THEN "exit" ELSE "redirectedLookup")
        /\ UNCHANGED << vpp, held >>
     \/ MayFail /\ Fail(t, "other", "exit") /\ UNCHANGED << vpp, held >>
  /\ UNCHANGED << disk, maps, recursive, args, local >>

\* A vnode that has its redirection is handed out as it is.
CheckAppData(t) ==
  /\ At(t, "appData")
  /\ Goto(t, IF vpp[t] \in appData THEN "exit" ELSE "filter")
  /\ UNCHANGED << disk, maps, recursive, args, vpp, error, local, held >>

\* Is the file controlled?  If so the vnode changes hands from *a_vpp to
\* originalVnode; the paths may not be converted for lack of memory.
Filter(t) ==
  /\ At(t, "filter")
  /\ \/ Goto(t, "exit") /\ UNCHANGED << recursive, vpp, error, original,
                                        controlled >>
     \/ /\ controlled' = Set(controlled, t, TRUE)
        /\ original' = Set(original, t, vpp[t])
        /\ vpp' = Set(vpp, t, NULLVP)
        /\ \/ /\ EnterRecursiveCall(t)
              /\ Goto(t, "shadowLookup")
              /\ UNCHANGED error
           \/ MayFail /\ Fail(t, "other", "exit") /\ UNCHANGED recursive
  /\ UNCHANGED << disk, maps, args, shadow, backing, callDaemon, held >>

ShadowLookup(t) ==
  /\ At(t, "shadowLookup")
  /\ \/ /\ "shadow" \in exists
        /\ shadow' = Set(shadow, t, "shadow")
        /\ vnode_get(t, "shadow")
        /\ Goto(t, "reverse")
     \/ /\ "shadow" \notin exists \/ MayFail
        /\ Goto(t, "shadowOpen")
        /\ UNCHANGED << shadow, held >>
  /\ UNCHANGED << disk, maps, recursive, args, vpp, error, original, backing,
                  controlled, callDaemon >>

\* vnode_open creates the shadow, vnode_get and vnode_close leave an iocount;
\* then its size is set to that of the original.
ShadowOpen(t) ==
  /\ At(t, "shadowOpen")
  /\ \/ /\ exists' = exists \cup {"shadow"}
        /\ shadow' = Set(shadow, t, "shadow")
        /\ callDaemon' = Set(callDaemon, t, TRUE)
        /\ vnode_get(t, "shadow")
        /\ \/ Goto(t, "reverse") /\ UNCHANGED recursive
           \/ /\ MayFail /\ original[t] # "shadow"
              /\ LeaveRecursiveCall(t)
              /\ Goto(t, "askCopy")
     \/ /\ MayFail
        /\ LeaveRecursiveCall(t)
        /\ Goto(t, "askCopy")
        /\ UNCHANGED << exists, shadow, callDaemon, held >>
  /\ UNCHANGED << copied, maps, args, vpp, error, original, backing, controlled >>

\* addVnodeShadowReverse, whose insertion may fail after the old one is gone.
AddVnodeShadowReverse(t) ==
  IF shadowReverse = original[t]
  THEN UNCHANGED shadowReverse
  ELSE shadowReverse' \in
         {original[t]} \cup IF MayFail THEN {NULLVP} ELSE {}

\* The shadow is associated with the original, unless they are one.  Only who
\* has created the shadow calls the daemon.
Reverse(t) ==
  /\ At(t, "reverse")
  /\ IF original[t] = "shadow" THEN UNCHANGED shadowReverse
                               ELSE AddVnodeShadowReverse(t)
  /\ LeaveRecursiveCall(t)
  /\ callDaemon' = Set(callDaemon, t, FALSE)
  /\ \/ Goto(t, IF callDaemon[t] THEN "askShadow" ELSE "associate")
     \/ MayFail /\ Goto(t, "askCopy")
  /\ UNCHANGED << disk, appData, vnodeIO, args, vpp, error, original, shadow,
                  backing, controlled, held >>

\* The daemon, one process, creates the file and then copies the data to it.
DaemonIdle == \A t \in Threads : pc[t] \notin {"copyShadow", "copyPath"}
CopyBegins(t, to) ==
  /\ DaemonIdle
  /\ name[t] \in exists /\ to \notin exists
  /\ exists' = exists \cup {to}

\* A file that is in the storage is not overwritten, one that is not there not
\* copied; there may be no daemon.  It answers in any case.
NothingCopied(t, to) ==
  /\ MayFail \/ name[t] \notin exists \/ to \in exists
  /\ UNCHANGED exists

\* Synchronous call for the shadow's data.
AskForBacking(t) ==
  /\ At(t, "askShadow") \/ At(t, "askCreate")
  /\ \/ CopyBegins(t, "backing") /\ Goto(t, "copyShadow")
     \/ NothingCopied(t, "backing") /\ Goto(t, "associate")
  /\ UNCHANGED << copied, maps, recursive, args, vpp, error, local, held >>

\* Path redirection begins: the path, and a synchronous call for the copy.
AskForCopy(t) ==
  /\ At(t, "askCopy")
  /\ LET to == RedirectedPath(name[t])
     IN  \/ CopyBegins(t, to) /\ Goto(t, "copyPath") /\ UNCHANGED error
         \/ NothingCopied(t, to) /\ Goto(t, "pathLookup") /\ UNCHANGED error
         \/ MayFail /\ Fail(t, "other", "exit") /\ UNCHANGED exists
  /\ UNCHANGED << copied, maps, recursive, args, vpp, local, held >>

\* The daemon answers, whether the copy is complete or has failed half way.
CopyEnds(t) ==
  /\ \/ /\ At(t, "copyShadow")
        /\ copied' \in {copied \cup {"backing"}}
                       \cup IF MayFail THEN {copied} ELSE {}
        /\ Goto(t, "associate")
     \/ /\ At(t, "copyPath")
        /\ copied' \in {copied \cup {RedirectedPath(name[t])}}
                       \cup IF MayFail THEN {copied} ELSE {}
        /\ Goto(t, "pathLookup")
  /\ UNCHANGED << exists, maps, recursive, args, vpp, error, local, held >>

----------------------------------------------------------------------------
(* QvrAssociateVnodeForRedirectedIO, and the end of I/O redirection.       *)

\* Variant: the lookup of the backing file is not marked as recursive.
AssociateUnmarked(t) ==
  /\ At(t, "associate")
  /\ \/ vnodeIO = NULLVP /\ Goto(t, "associateLookup")
     \/ (vnodeIO # NULLVP \/ MayFail) /\ Goto(t, "getBacking")
  /\ UNCHANGED << disk, maps, recursive, args, vpp, error, local, held >>

\* getVnodeIORef, and the paths.
Associate(t) ==
  /\ At(t, "associate")
  /\ \/ /\ vnodeIO = NULLVP
        /\ EnterRecursiveCall(t)
        /\ Goto(t, "associateLookup")
     \/ /\ vnodeIO # NULLVP \/ MayFail
        /\ Goto(t, "getBacking")
        /\ UNCHANGED recursive
  /\ UNCHANGED << disk, maps, args, vpp, error, local, held >>

\* vnode_lookup in the storage.  This leaves the recursive section, also the
\* one that create is in.
AssociateLookup(t) ==
  /\ At(t, "associateLookup")
  /\ LeaveRecursiveCall(t)
  /\ \/ /\ "backing" \in exists
        /\ backing' = Set(backing, t, "backing")
        /\ vnode_get(t, "backing")
        /\ Goto(t, "associateAdd")
     \/ /\ "backing" \notin exists \/ MayFail
        /\ Goto(t, "getBacking")
        /\ UNCHANGED << backing, held >>
  /\ UNCHANGED << disk, maps, args, vpp, error, original, shadow, controlled,
                  callDaemon >>

\* addVnodeIO, the refill of the cache, vnode_put.
AssociateAdd(t) ==
  /\ At(t, "associateAdd")
  /\ vnodeIO' \in {"backing"} \cup IF MayFail THEN {vnodeIO} ELSE {}
  /\ held' = Puts(t, << backing[t], NULLVP >>)
  /\ backing' = Set(backing, t, NULLVP)
  /\ Goto(t, "getBacking")
  /\ UNCHANGED << disk, appData, shadowReverse, recursive, args, vpp, error,
                  original, shadow, controlled, callDaemon >>

\* Variant: the association is taken for granted.
GetBackingUnchecked(t) ==
  /\ At(t, "getBacking")
  /\ Goto(t, "handOut")
  /\ UNCHANGED << disk, maps, recursive, args, vpp, error, local, held >>

\* getVnodeIORef: without a backing vnode lookup turns to path redirection and
\* create fails.
GetBacking(t) ==
  /\ At(t, "getBacking")
  /\ IF vnodeIO # NULLVP
     THEN /\ backing' = Set(backing, t, vnodeIO)
          /\ vnode_get(t, vnodeIO)
          /\ Goto(t, "handOut")
          /\ UNCHANGED error
     ELSE /\ \/ create[t] /\ Fail(t, "other", "createClose")
             \/ ~create[t] /\ Goto(t, "askCopy") /\ UNCHANGED error
          /\ UNCHANGED << backing, held >>
  /\ UNCHANGED << disk, maps, recursive, args, vpp, original, shadow,
                  controlled, callDaemon >>

\* Variant: the application's vnode is not referenced.
HandOutUnreferenced(t) ==
  /\ At(t, "handOut")
  /\ appData' \in {appData \cup {shadow[t]}}
                  \cup IF MayFail THEN {appData} ELSE {}
  /\ vpp' = Set(vpp, t, shadow[t])
  /\ held' = Puts(t, << backing[t], NULLVP >>)
  /\ backing' = Set(backing, t, NULLVP)
  /\ error' = Set(error, t, "ok")
  /\ Goto(t, IF create[t] THEN "createReverse" ELSE "exit")
  /\ UNCHANGED << disk, vnodeIO, shadowReverse, recursive, args, original,
                  shadow, controlled, callDaemon >>

\* addVnodeAppData, whose result is ignored; vnode_put of the backing vnode;
\* the caller gets the shadow.
HandOut(t) ==
  /\ At(t, "handOut")
  /\ appData' \in {appData \cup {shadow[t]}}
                  \cup IF MayFail THEN {appData} ELSE {}
  /\ vpp' = Set(vpp, t, shadow[t])
  /\ held' = [Puts(t, << backing[t], NULLVP >>) EXCEPT ![t][shadow[t]] = @ + 1]
  /\ backing' = Set(backing, t, NULLVP)
  /\ error' = Set(error, t, "ok")
  /\ Goto(t, IF create[t] THEN "createReverse" ELSE "exit")
  /\ UNCHANGED << disk, vnodeIO, shadowReverse, recursive, args, original,
                  shadow, controlled, callDaemon >>

----------------------------------------------------------------------------
(* QvrVnopLookupHookEx2: path redirection and exit.                        *)

\* Variant: the error of the original lookup is returned with the vnode.
RedirectedLookupKeepsError(t) ==
  /\ At(t, "redirectedLookup")
  /\ RedirectedPath(name[t]) \in exists
  /\ vpp' = Set(vpp, t, RedirectedPath(name[t]))
  /\ held' = [Puts(t, << vpp[t], NULLVP >>)
                EXCEPT ![t][RedirectedPath(name[t])] = @ + 1]
  /\ Goto(t, "exit")
  /\ UNCHANGED << disk, maps, recursive, args, error, local >>

\* vnode_lookup in the storage.  A file found there takes the place of the
\* original's vnode (its application data is not for I/O redirection).  When
\* there is none the original is left, if there is any.
RedirectedLookup(t) ==
  /\ At(t, "redirectedLookup")
  /\ LET file == RedirectedPath(name[t])
     IN  \/ /\ file \in exists
            /\ vpp' = Set(vpp, t, file)
            /\ held' = [Puts(t, << vpp[t], NULLVP >>) EXCEPT ![t][file] = @ + 1]
            /\ error' = Set(error, t, "ok")
            /\ Goto(t, "exit")
         \/ /\ file \notin exists
            /\ Goto(t, "exit")
            /\ UNCHANGED << vpp, held, error >>
         \/ /\ MayFail
            /\ Fail(t, IF error[t] = "ok" THEN "ok" ELSE "other", "exit")
            /\ UNCHANGED << vpp, held >>
  /\ UNCHANGED << disk, maps, recursive, args, local >>

\* Variant: originalVnode is not put.
ExitKeepsOriginal(t) ==
  /\ At(t, "exit")
  /\ held' = Puts(t, << shadow[t], NULLVP >>)
  /\ original' = Set(original, t, NULLVP)
  /\ shadow' = Set(shadow, t, NULLVP)
  /\ callDaemon' = Set(callDaemon, t, FALSE)
  /\ Goto(t, "return")
  /\ UNCHANGED << disk, maps, recursive, args, vpp, error, backing,
                  controlled >>

Exit(t) ==
  /\ At(t, "exit")
  /\ held' = Puts(t, << shadow[t], original[t] >>)
  /\ original' = Set(original, t, NULLVP)
  /\ shadow' = Set(shadow, t, NULLVP)
  /\ callDaemon' = Set(callDaemon, t, FALSE)
  /\ Goto(t, "return")
  /\ UNCHANGED << disk, maps, recursive, args, vpp, error, backing,
                  controlled >>

\* The application is done with the vnode it was handed, and the thread with
\* the arguments and the result of the call.
Done(t) ==
  /\ At(t, "return")
  /\ held' = Puts(t, << vpp[t], NULLVP >>)
  /\ vpp' = Set(vpp, t, NULLVP)
  /\ error' = Set(error, t, "ok")
  /\ controlled' = Set(controlled, t, FALSE)
  /\ create' = Set(create, t, FALSE)
  /\ name' = Set(name, t, "original")
  /\ nameiop' = Set(nameiop, t, "LOOKUP")
  /\ Goto(t, "idle")
  /\ UNCHANGED << disk, maps, recursive, original, shadow, backing,
                  callDaemon >>

----------------------------------------------------------------------------
(* QvrVnopCreateHookEx2.                                                   *)

Create(t, n) ==
  /\ MayCreate /\ At(t, "idle")
  /\ name' = Set(name, t, n)
  /\ nameiop' = Set(nameiop, t, "CREATE")
  /\ create' = Set(create, t, TRUE)
  /\ Goto(t, "createFilter")
  /\ UNCHANGED << disk, maps, recursive, vpp, error, local, held >>

\* The original function creates the file.
OriginalCreates(t) ==
  /\ name[t] \notin exists /\ Unused(name[t])
  /\ exists' = exists \cup {name[t]}
  /\ vnode_get(t, name[t])
  /\ UNCHANGED error

\* It fails, as it does when the file exists, and the hook returns.
OriginalFails(t) ==
  /\ name[t] \in exists \/ MayFail
  /\ Fail(t, "other", "return")
  /\ UNCHANGED << exists, vpp, original, held >>

\* A file that is not controlled is created by the original function alone.
CreateFilter(t) ==
  /\ At(t, "createFilter")
  /\ \/ /\ \/ /\ OriginalCreates(t)
              /\ vpp' = Set(vpp, t, name[t])
              /\ Goto(t, "return")
              /\ UNCHANGED original
           \/ OriginalFails(t)
        /\ UNCHANGED << recursive, controlled >>
     \/ /\ controlled' = Set(controlled, t, TRUE)
        /\ \/ /\ EnterRecursiveCall(t)
              /\ Goto(t, "createOriginal")
              /\ UNCHANGED error
           \/ MayFail /\ Fail(t, "other", "return") /\ UNCHANGED recursive
        /\ UNCHANGED << exists, vpp, original, held >>
  /\ UNCHANGED << copied, maps, args, shadow, backing, callDaemon >>

\* The original file is created for the application's peace of mind; its vnode
\* changes hands from *a_vpp to originalVnode.
CreateOriginal(t) ==
  /\ At(t, "createOriginal")
  /\ \/ /\ OriginalCreates(t)
        /\ original' = Set(original, t, name[t])
        /\ Goto(t, "createShadow")
        /\ UNCHANGED << vpp, recursive >>
     \/ OriginalFails(t) /\ LeaveRecursiveCall(t)
  /\ UNCHANGED << copied, maps, args, shadow, backing, controlled, callDaemon >>

\* vnode_open of the shadow.
CreateShadow(t) ==
  /\ At(t, "createShadow")
  /\ \/ /\ exists' = exists \cup {"shadow"}
        /\ shadow' = Set(shadow, t, "shadow")
        /\ vnode_get(t, "shadow")
        /\ Goto(t, "askCreate")
        /\ UNCHANGED << recursive, original, error >>
     \/ /\ MayFail
        /\ held' = Puts(t, << original[t], NULLVP >>)
        /\ original' = Set(original, t, NULLVP)
        /\ LeaveRecursiveCall(t)
        /\ Fail(t, "other", "return")
        /\ UNCHANGED << exists, shadow >>
  /\ UNCHANGED << copied, maps, args, vpp, backing, controlled, callDaemon >>

CreateReverse(t) ==
  /\ At(t, "createReverse")
  /\ AddVnodeShadowReverse(t)
  /\ Goto(t, "createClose")
  /\ UNCHANGED << disk, appData, vnodeIO, recursive, args, vpp, error, local,
                  held >>

\* vnode_close of the shadow and vnode_put of the original.
CreateClose(t) ==
  /\ At(t, "createClose")
  /\ held' = Puts(t, << shadow[t], original[t] >>)
  /\ original' = Set(original, t, NULLVP)
  /\ shadow' = Set(shadow, t, NULLVP)
  /\ LeaveRecursiveCall(t)
  /\ Goto(t, "return")
  /\ UNCHANGED << disk, maps, args, vpp, error, backing, controlled,
                  callDaemon >>

----------------------------------------------------------------------------
LookupStep(t) ==
  \/ OriginalLookup(t) \/ CheckAppData(t) \/ Filter(t) \/ ShadowLookup(t)
  \/ ShadowOpen(t) \/ Reverse(t) \/ AskForCopy(t) \/ CopyEnds(t)
  \/ RedirectedLookup(t) \/ Exit(t)

CreateStep(t) ==
  \/ CreateFilter(t) \/ CreateOriginal(t) \/ CreateShadow(t)
  \/ CreateReverse(t) \/ CreateClose(t)

SharedStep(t) ==
  \/ AskForBacking(t) \/ Associate(t) \/ AssociateLookup(t) \/ AssociateAdd(t)
  \/ GetBacking(t) \/ HandOut(t) \/ Done(t)

Next ==
  \/ \E t \in Threads :
       \/ LookupStep(t) \/ CreateStep(t) \/ SharedStep(t)
       \/ \E n \in Visible : Create(t, n) \/ Lookup(t, n, "LOOKUP")
       \/ Lookup(t, "original", "CREATE")
  \/ \E f \in Visible : OtherCreates(f) \/ Reclaim(f)
  \/ OtherUnlinks \/ DropAssociation

Spec == Init /\ [][Next]_vars

----------------------------------------------------------------------------
(* Properties.                                                             *)

\* On every path through the hooks, with every failure, a thread holds one
\* iocount for each vnode in its hands and no other: the caller gets its own
\* with the vnode it is handed, and nothing is left behind.
VnodesAreHeld ==
  \A t \in Threads, f \in Files :
    LET In(x) == IF x[t] = f THEN 1 ELSE 0
    IN  held[t][f] = In(vpp) + In(original) + In(shadow) + In(backing)

\* The hooks return a vnode exactly when they return no error, as the kernel
\* expects, whichever of the two lookups failed; only the lookup of a name to be
\* created says that there is none yet.
ResultAgrees ==
  \A t \in Threads :
    At(t, "return") =>
      /\ error[t] = "ok" <=> vpp[t] # NULLVP
      /\ error[t] = "EJUSTRETURN" => ~create[t] /\ nameiop[t] = "CREATE"
      /\ error[t] = "ENOENT" => ~create[t] /\ nameiop[t] = "LOOKUP"

\* The lookups, opens and creates a hook makes are never redirected again, and
\* the thread is not taken for a recursive one when the hook returns (the
\* assertions at both exits), although the sections nest and do not count.
NestedCallsAreMarked ==
  \A t \in Threads : /\ pc[t] \in NestedPc => t \in recursive
                     /\ pc[t] \in {"idle", "return"} => t \notin recursive

\* An application that asked for the original is handed the shadow, a file of
\* holes, only when there is a backing file for its reads and writes.
HandedOutShadowIsBacked ==
  \A t \in Threads :
    /\ At(t, "return") /\ controlled[t]
    /\ name[t] = "original" /\ vpp[t] = "shadow"
    => "backing" \in exists

\* A lookup or create that succeeded for a controlled file.
Redirected(t) == At(t, "return") /\ controlled[t] /\ error[t] = "ok"

\* Where reads and writes of the vnode handed to a thread go.
DataFile(t) == IF vpp[t] \in appData THEN "backing" ELSE vpp[t]

\* "believes it works with original files by using unmodified paths": a file in
\* the storage that an application is given for the original has all of the
\* original's data.  (Files the create hook makes have none; the run leaves
\* create out.)
CopyIsComplete ==
  \A t \in Threads :
    Redirected(t) /\ DataFile(t) \in Storage => DataFile(t) \in copied
============================================================================
