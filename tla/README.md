# A TLA+ development for the VFS redirector

`src/` is a macOS kernel extension that redirects the file I/O of protected
applications (Word, PowerPoint, Safari, ...) from the files they name to copies
in a protected storage, without a stacked file system: it overwrites the vnode
operation vectors of the running file systems with its own functions. A user
mode daemon does the work the kernel part cannot do, such as copying a file to
the storage before its first open.

The modules here are a formal account of its concurrency: what may happen when
the file systems' threads, the KAuth listener, the reclaim of vnodes, the
daemon and IOKit run in any order. Everything is checked by TLC on small
instances; the safety of all eight components modelled is proved with TLAPS
for every number of threads, clients, vnodes, vectors and keys.

`PROJECT.json` lists the components, the runs, the source lines every definition
stands for, the mutated definitions that show each property can fail, the
hazards and the theorems. Below, `V/` is `src/VFSFilter0/VFSFilter0/`.

## 1. The system

| Component | State | Operations | Talks to |
|---|---|---|---|
| Vnode operation hooking (`V/VNodeHook.*`) | hash table from v_op vector to entry, its RWLock, each entry's counter, saved functions and reference count, the contents of the vectors, the set of hooked vnodes | `QvrHookVnodeVopAndParent`, `QvrUnHookVnodeVopAndParent`, `QvrGetOriginalVnodeOp` | called by the KAuth listener and by every vnode hook; writes through Wired memory |
| User client registration (`V/VFSFilter0.cpp`) | the pointer to the client, `pendingUnregistration`, `clientInvocations` | `registerUserClient`, `unregisterUserClient`, `getClient`, `putClient` | called by the client's start and close, and around each use of the client by a hook |
| Synchronous calls (`V/VFSFilter0UserClient.cpp`, `V/WaitingList.h`) | the data queue, the waiting list, the map of published requests | `preOperationCallbackAndWaitForReply`, `sendVFSDataToClient`, `reply` | hooks on one side, the daemon on the other |
| Vnode associations (`V/VNode.h`) | maps vnode → backing vnode, shadow → original vnode, application data, hooked vnodes; the iocounts they hold | `addVnodeIO`, `getVnodeIORef`, `removeVnodeIO`, the same for shadows, the release loops | vnode hooks, close of the client |
| DataMap and RecursionEngine (`V/RecursionEngine.*`) | a list of key/data pairs under an RWLock; the threads in a recursive call | `addDataByKey`, `getDataByKey`, `removeKey`, `EnterRecursiveCall`, `LeaveRecursiveCall` | everything above |
| Redirecting hooks (`V/VFSHooks.cpp`) | none of their own | lookup, create, open, read, write, pagein, pageout, close, inactive, reclaim, rename, exchange, getattr | all of the above, and the original functions |
| Path conversion (`V/VFSHooks.cpp`) | none | shadow copy path, redirected path | lookup, create, rename |
| Hash table (`V/CommonHashTable.*`) | buckets, sizes, iterators | insert, get, remove, iterate, rehash | VNodeHook |
| KAuth, MAC policy, driver start (`V/Kauth.cpp`, `V/QvrMacPolicy.cpp`, `V/VFSFilter0.cpp`) | registrations, globals | start, listener, `vnode_check_lookup` | hooking |
| Protected applications (`V/ApplicationsData.*`) | a constant table | lookup by process name | listener and hooks |
| Wired memory writes (`V/VmPmap.*`) | none | copy through physical addresses | hooking |
| Daemon (`src/VFSFilter0Client/`) | none that lasts | dequeue, serve, reply | synchronous calls |

### What is hard

* A vector is hooked and unhooked **while other threads dispatch through it**.
  A hook that was entered through a hooked slot may ask for its original
  function after the vector has been unhooked, or hooked once more.
* Decisions are taken in one locked section (or none) and acted on in the next:
  hook, unhook, `getClient`, the lookup of a backing vnode, the release loops.
* The client's registration is **lock free**: a pointer, a flag and a counter.
* A request to the daemon is named by a **stack address**, which the next call
  uses again; the reply writes through a pointer found in a map.
* Iocounts and reference counts pass from hand to hand; one too few is a use
  after free, one too many blocks unmount for ever.
* Failures in the middle: no memory for an entry or an association, a full
  queue, a failed registration whose result is ignored, the second of three
  renames; a daemon that ends while hooks wait for it.
* One file has **two page caches and two sizes**, the shadow's and the backing
  file's, and each hook moves data between them in several steps while the
  kernel maps, evicts and pages out.

### What makes each component correct

* Hooking: a hook always gets the file system's own function; outside an
  exclusive section the vector and the hash table agree; an entry is freed
  exactly when its last pointer goes.
* Registration: nobody uses a client after registration has released it, no
  client is leaked, a close ends.
* Calls: no wakeup is lost, an answer reaches the request it answers, a hook
  does not go on before the daemon has acted, a session leaves nothing to the
  next, every call returns.
* Associations: every iocount is accounted for, none outlives its vnode.
* Redirecting hooks: on every exit the iocounts balance and the vnode and the
  error returned agree; the calls a hook makes are not redirected again; what
  an application is handed has its data in the storage, and in one place; what it
  writes goes there, what it maps comes from there; the three files of a document
  keep together through renames.
* Hash table: it is a map that keeps the order of insertion.

## 2. The modules

| Module | Models | Shape |
|---|---|---|
| `VNodeHook` | `V/VNodeHook.cpp`, `.h`, with the listener of `V/Kauth.cpp` and the reclaim hook | one action per shared access or locked section |
| `ClientGate` | what registration promises | abstract specification, five actions |
| `ClientRegistration` | `V/VFSFilter0.cpp`, with start and close of `V/VFSFilter0UserClient.cpp` | one action per shared access; implements `ClientGate` |
| `PreOperation` | calls of `V/VFSFilter0UserClient.cpp`, `V/WaitingList.h`, the loop of the daemon's `main.cpp` | one action per locked section or queue operation |
| `ClientSession` | the daemon's coming, ending and coming again around `PreOperation` | composes `PreOperation` with a registration that behaves as `ClientGate` says |
| `VNodeMap` | `V/VNode.h` and the hooks of `V/VFSHooks.cpp` that use it, the release loops of close | one action per locked section, each `vnode_put` apart |
| `Redirection` | the lookup and create hooks of `V/VFSHooks.cpp`, for one file, with `cp` of the daemon | one action per call into the file system, the daemon or a map |
| `RedirectedIO` | the read, write, pagein, pageout, getattr, close and inactive hooks of `V/VFSHooks.cpp`, the size adjustment of `V/VNode.cpp` | the same, with the page cache |
| `Rename` | the rename and exchange hooks of `V/VFSHooks.cpp` | one action per call into the file system, the daemon or a map |
| `AgeOrderedMap` | what `V/CommonHashTable.h` promises | abstract specification |
| `HashTable` | `V/CommonHashTable.cpp` on its linked structure | one action per call; implements `AgeOrderedMap` |
| `...Proofs` | | the theorems about the module they are named after |
| `MC...` | | model values and topologies for TLC |

How they compose: `ClientSession` extends `PreOperation` and takes the registration
as `ClientGate` specifies it, which `ClientRegistration` is proved to implement;
`FollowsGate` says that it stays within that, and is proved too.
`Redirection`, `RedirectedIO` and `Rename` take the maps as functions whose
operations are one step, which is what `VNodeMap` describes and the lock of
`DataMap` gives, and the daemon as a call that returns after it has acted, which
is what `PreOperation` shows. `VNodeHook` takes its hash table as a function,
which is what `HashTable` is proved to implement.

The actions carry the names of the functions they come from. `pc[t]` is where
thread t stands in the function it runs; the other indexed variables are that
function's locals, reset when it returns. Definitions marked "Variant" are
plausible mistakes in the code; no specification uses them, they are there to
show that the properties notice them.

**VNodeHook.** A vnode goes from live to dying (the kernel has decided to
reclaim it) to dead, and its address is used again. `VnodeAuthorizeCallback`
starts `QvrHookVnodeVop` for a vnode and then for its parent; `VnopCall`
dispatches an operation through a hooked slot, whose hook calls
`QvrGetOriginalVnodeOp` and, for reclaim, `QvrUnHookVnodeVop`. A shared section
of the lock reads the hash once and updates one atomic counter: it is one step.
An exclusive section is several: the walk over the slots writes one slot per
step while other threads dispatch. Entries are reused as soon as they are
freed. `AddEntry`, `newEntry` and `addHookedVnode` may fail. An action that
takes the lock, shared or exclusive, is enabled only while there is no writer.

**ClientRegistration.** Every read, compare-and-swap and atomic update of the
code is a step. The do-while around `msleep` in `unregisterUserClient` is the
step `UnregisterWait`, taken when the counter is zero: the sleep has a timeout
of a second, so that a lost wakeup only delays the next test. A client object
lives from `ClientStart` to `ClientTerminate`; its task may also call the close
method, any number of times and from several threads, before its connection
goes.

**PreOperation.** `Call` takes any stack address no thread is using.
The daemon is one process with one loop (`Dequeue`, `Serve`, `ReplyFind`,
`ReplyWrite`, `ReplySignal`). `sendVFSDataToClient` ignores what `enqueue`
returns, and so does its action; `SendAudit` sends audit messages whatever the length of
the queue, so that it is full at any time. `acted` is a history variable: the requests the
daemon has served since their address was last taken. The module has no
specification of its own: its steps are those of `ClientSession`.

**ClientSession.** A daemon opens a client (`Start`), its handler ends or the
process dies at any point of its loop (`HandlerEnds`; a `reply` that is in
the kernel runs to its end), IOKit closes the client (`Withdraw`), the close
waits for the hooks and drops it (`Drop`), and another daemon may come. A hook is
one of `users` from `getClient` to `putClient`. The queue is the client object's
and goes with it; the waiting list and the map of requests are globals
(V/VFSFilter0UserClient.cpp:49) and stay.

**VNodeMap.** `LookupOf[v]` is what looking up the redirected path of v may
find: more than one vnode when a rename replaces the file in between. The map
operations are one step each under the lock; `vnode_put` follows the unlock as
a step of its own, which is what leaves room for the other threads.

**Redirection.** There are four files: the original and its shadow, which the
application can name, and two in the storage, the shadow's backing file and the
copy that path redirection uses. A vnode goes by the name of its file; the
iocounts that threads hold are counted, those of the associations are
`VNodeMap`'s. `Lookup` and `Create` begin a call, `Done` is the caller putting
the vnode it was given. The daemon answers synchronously: `CopyBegins` creates
the file, `CopyEnds` is the answer, `copied` the files whose copy is complete.
An association may be dropped at any time (`DropAssociation`) and made again; a
vnode nobody holds may be reclaimed and its file unlinked, the original also
unlinked or renamed while it is in use; its name is used again only after that
vnode is gone. Calls that the hooks pass through to the original function without
doing anything (other applications, the daemon, recursive calls, names in the
storage, vnodes that are not regular files) are left out, as are the two test
switches `gSynchroniseWithOriginal` and `gRedirectionIsNullAndVoid`, which are
constants. Applications use full paths: the daemon is sent `cn_pnbuf`, and the
association uses `vn_getpath`, which are the same only then.

**RedirectedIO.** One shadow vnode that an application has open, with one page of
cache, and its backing file. Contents are "data", the shadow's own "zero", and
"blank", what a pageout writes for a page the cache does not have. `mounts`, chosen
at the start, says which of the two file systems has the second version of the
paging interface, in which the hook makes the UPL, and whether the storage's is
hooked as well. `Vnop` begins a call, the seven hooks share the steps that are one
function in the code (`GetVnodeIORef` to `FillAbort`), and `WithBacking` says where
each goes on. `busy` is the thread that has the page in a UPL; who needs it waits.
`MappedStore`, `Evict` and `Drop` are the application's mapping, the pager and the
close of the client. The user's buffers, offsets and partial transfers are
abstracted: a transfer moves the page or fails.

**Rename.** A document is three files, and a directory is a function from names to
the documents whose file the name has; a rename moves its file only if both names
still stand for the vnodes it was given. The three lookups, the truncation of
a leftover and the three renames are each a step that may fail (`Fault`).
`Vnop` has three forms: a rename with I/O redirection, one with path
redirection, where the hook replaces the caller's arguments by its own
vnodes until it returns (`swapped`), and an exchange, for which the daemon
exchanges the data of the two backing files and the hook the shadows. `Create`,
`Remove`, `Lookup` and `Reclaim` are the other hooks and the applications, in as
much as they change what a rename finds.

**HashTable.** The table is one record with the fields of `s_hash_table` and of its
entries; an entry goes by its key, and its links are functions. Each call is one
step, as its callers hold the lock of the table. `Options` fixes heuristics,
automatic rehash and bucket limit. A rehash may lose entries for want of memory, as
the code ignores what its insertions return. `Chain` follows links, and the two lists
are compared through it. An iteration keeps two pointers, as in the code; `SafeInsert`
keeps callers from inserting where that frees what these point to (section 5). As an
`AgeOrderedMap` the table is `Content`, its entries from the oldest to the newest, and
what is ahead of the iteration is the list of ages from the iterator's next entry on.

## 3. The runs

| Run | Instance | Shows |
|---|---|---|
| `vnode_hook` | 2 threads; a file, its named stream and its directory on one vector; slots reclaim and lookup; 3 entries; counters to 3 | `OriginalIsFsdFunction`, `HashMirrorsVector`, `RefsCountHolders`, `LockHeldWhileWalking` |
| `client_registration` | 3 threads, 2 clients, close method used, fair | `ClientInUseIsRetained`, `TerminatedClientIsFreed`, the proofs' `IInv` (which implies `TypeOK`, `RegisteredClientExists` and `InvocationsCountHooks`), refinement of `ClientGate`, `CloseReturns` |
| `pre_operation` | 3 threads, 2 addresses, queue of 2, any number of audit messages, daemons that end and come again, fair | `ReplyWritesLiveRequest`, `DaemonActedFirst`, `FilterAnswerIsDaemons`, `NothingNamesDeadFrame`, `SessionsAreApart`, refinement of `ClientGate` (`FollowsGate`), `CallReturns`, `CloseEnds` |
| `vnode_map` | 3 threads, 3 vnodes (one redirected), 2 backing vnodes | `IocountsAreHeld`, `ReclaimedVnodeIsForgotten` |
| `redirection` | 2 threads, one file and its shadow, failures and dropped associations anywhere | `VnodesAreHeld`, `ResultAgrees`, `NestedCallsAreMarked`, `HandedOutShadowIsBacked` |
| `redirected_io` | 2 threads, all seven hooks on one shadow, all pairs of paging interfaces, sizes to 2, failures and dropped associations anywhere | `DataStaysInStorage`, `ZerosAreOverwritten`, `BackingIsHeld`, `SizeCoversBacking`, `SuccessMeansMoved`, `UplsAreReleased` |
| `rename` | 2 threads, 2 names, 2 documents, failures, removals and dropped associations anywhere | `VnodesArePut`, `DocumentsAreWhole`, `ResultTellsOriginal` |
| `hash_table` | 4 keys in 1, 2 and 4 buckets, six sets of options | `ListsAgree`, refinement of `AgeOrderedMap` |
| `vnode_hook_remove`, `client_session_death`, `redirection_copy`, `redirected_io_pageout` | the same modules, smaller | a statement of the source that does not hold, see section 5 |

Every passing run also checks the type invariant of its module.

### Bounds

* *Two or three threads.* The races of this code are between two functions, or
  between two and a third that changes what they both saw. With two threads in
  `vnode_hook` a vector can be unhooked by one and hooked again by the other
  while a call is in flight; three are used wherever the state space allows.
* *Three entries* in `vnode_hook`: one in the hash and one in the hands of each
  thread. With fewer the allocation would block, which `HookNoMemory` already
  covers.
* *Two slots*, reclaim and lookup: reclaim is the one that unhooks, and with a
  second slot the walk can be seen half way.
* *MaxCount 3*: the counter passes from 1 to 0, goes back up before the
  exclusive section, and exceeds the number of vnodes.
* *QueueCapacity 2* in `pre_operation`: as many as calls can be under way at once. Audit
  messages are sent whatever the length of the queue, so that there is room for the
  messages of both calls, of one or of none. The theorems hold for any capacity.
* *Two addresses for three threads*: an address is used again by another thread.
* *One file* in `redirection`: the hooks share nothing between files but the
  maps, whose entries are independent. *Two threads*: what disturbs a lookup is
  another lookup of the same file, or a drop or reclaim, which are actions of
  their own. A shadow's name is opened or created, but not looked up for a
  creation that does not follow. Files of the storage are never deleted, since only the driver's
  user has access to it.
* *MayFail, MayDrop, MayCreate*: all TRUE in the passing runs. The violation
  runs set them FALSE, so that their counterexamples need neither a failure
  nor a dropped association.
* *One page, MaxSize 2* in `redirected_io`: pages of a file are independent but
  for the size, and with two sizes beyond zero one adjustment can set back what another
  has set. *CallsAfterFailure FALSE*: after a failure the calls under way go on
  to their end, and no new one begins; the properties about data say nothing
  then.
* *Two names, two documents, OverlapAgain FALSE* in `rename`: a rename over
  an existing document and back, with leftovers of both in the storage; calls
  of two threads interleave in every way once, and after that nothing new begins.
* *Four keys* in `hash_table`: two of them have equal hashes to the end, and a table
  of one bucket is rehashed twice. *DataOf*: one key has two values, which shows
  replacement; more say nothing new. The three heuristics, the bound
  of a bucket and the automatic rehash are taken in pairs, and alone as the hooks do.
* *Two clients*: one may be registered while the other closes, and a client
  that was not registered may close.

No property depends on a thread's or an entry's name; the runs without liveness
properties use that symmetry. `CloseReturns` is `CloseReturnsOf` one thread, which
stands for all: the others start, step and are fair in the same way.

### Deadlock

`pre_operation` and `client_session_death` do not check for deadlock: a daemon may
end and none come again, with hooks asleep for ever, which is what
`client_session_death` is about. All other runs do.

### Fairness

`FairSpec` of `ClientRegistration` has weak fairness for the steps of each thread
inside one of the four functions (`Running`): kernel threads are scheduled, and the only
sleep there is polled. It does not oblige any hook, start or close to begin, nor a
hook that was given the client to put it back: between the two it may sleep
uninterruptibly for a daemon (V/WaitingList.h:54) that is gone. So `CloseReturns`
has two exceptions, both of the code and not of the model. Some one hook never
comes back from its use while the close waits; a mere stream of hooks, each of which comes
back, is no excuse, as the withdrawn client is given to nobody. Or other clients are
registered while it waits, again and again or for good, whose hooks the one counter counts
as well.

`FairSessionSpec` has weak fairness for each hook's steps in a call (`HookStep`), which a
hook that is asleep and was not answered does not have; for `PutClient`, which here comes
only after the call has returned; for a `reply` that is in the
kernel; for the loop of the daemon as long as it lives (`Handler`: `Dequeue` and
`Serve`), a single thread with nothing else to do; and for `Withdraw` and `Drop`:
IOKit closes the client of a task that is gone. No hook is obliged to call, no
daemon to start or to end.

`CallReturns` is about every call, with audit messages before and after it, and
excepts two kinds, of which the code wakes neither. `Dropped`: the hook sleeps for an answer to
a message that a full queue did not take, with a daemon that lives (section 5).
`Stranded`: it sleeps while no daemon is left to answer, as `client_session_death` shows;
that is the exception of `CloseEnds` too. A sleep whose message the daemon has served,
or has still to serve, is in neither.

## 4. The proofs

In eight proof modules TLAPS shows that each safety invariant the passing runs
of that module check holds in every reachable state, for every value of the
constants under the assumptions below, so also for any number of threads. In each
the argument is one invariant `IInv` (theorem `Inductive`), of which the
properties are conjuncts or consequences; none of them is inductive by itself. Its
proof has a lemma per conjunct or two, with a step per action.

| Module | Theorems, with the property each is about | Assumptions |
|---|---|---|
| `VNodeHookProofs` | `OriginalIsFsd` (`OriginalIsFsdFunction`), `VectorsAreWhole` (`HashMirrorsVector`), `RefsAreExact` (`RefsCountHolders`), `LockIsBalanced` (`LockHeldWhileWalking`), `TypeCorrect` | finitely many threads and vectors; any vnodes, parents, operations and bound of the counters |
| `ClientRegistrationProofs` | `UseIsSafe` (`ClientInUseIsRetained`), `PointerIsSafe` (`RegisteredClientExists`), `NoLeak` (`TerminatedClientIsFreed`), `CounterIsExact` (`InvocationsCountHooks`), `ImplementsGate` (`GateSpec`), `GateProtects`, `TypeCorrect` | finitely many threads |
| `PreOperationProofs` | `ReplyIsSafe` (`ReplyWritesLiveRequest`), `DaemonIsAhead` (`DaemonActedFirst`), `AnswerIsOwn` (`FilterAnswerIsDaemons`), `DeadFrameIsForgotten` (`NothingNamesDeadFrame`), `SessionsStayApart` (`SessionsAreApart`), `SessionFollowsGate` (`FollowsGate`), `TypeCorrect`, all of `SessionSpec` | any capacity of the queue |
| `VNodeMapProofs` | `IocountsAreExact` (`IocountsAreHeld`), `ReclaimForgets` (`ReclaimedVnodeIsForgotten`), `TypeCorrect` | finitely many threads and vnodes; whatever the lookups find |
| `RedirectionProofs` | `HoldsAreExact` (`VnodesAreHeld`), `ResultIsConsistent` (`ResultAgrees`), `NestingIsMarked` (`NestedCallsAreMarked`), `ShadowIsBacked` (`HandedOutShadowIsBacked`), `TypeCorrect` | any of the three switches |
| `RedirectedIOProofs` | `DataIsProtected` (`DataStaysInStorage`), `ZerosDoNotStay` (`ZerosAreOverwritten`), `HoldsAreBalanced` (`BackingIsHeld`), `SizeFollows` (`SizeCoversBacking`), `SuccessIsReal` (`SuccessMeansMoved`), `UplsDoNotLeak` (`UplsAreReleased`), `TypeCorrect` | any bound of the sizes, any of the three switches |
| `RenameProofs` | `HoldsAreBalanced` (`VnodesArePut`), `RenamesKeepDocuments` (`DocumentsAreWhole`), `ResultIsTold` (`ResultTellsOriginal`), `TypeCorrect` | there is a name; any threads, names and documents, either of the two switches |
| `HashTableProofs` | `ListsAlwaysAgree` (`ListsAgree`), `TableIsAgeOrderedMap` (`IsAgeOrderedMap`), `Inductive` | finitely many keys; any hash function, initial size and options |

In all of them the values that stand for "none" are not in the sets they stand beside.
Why the invariants are needed:

**VNodeHook.** `TypeInv` and `CallInv` say which local entries a function has where:
a function gets a referenced entry from the hash or makes one, and has given
it back before it returns. `VectorInv` is the heart: a vector that nobody walks is
hooked as a whole, and its entry then has all the originals, or not at all. It is
kept because a walk that ends has done what `WalkInv` says it has done so far,
and only one thread walks (`LockHeldWhileWalking`). `FoundInv` carries that
over to an entry that a function has found and the hash may have lost since:
its originals stay, as nobody writes an entry but the walk that makes it. A hook
that was dispatched through a slot therefore finds either an entry with its
original or an unhooked vector, whose slot is the original (`OriginalIsFsdFunction`).
`RefsCountHolders` counts the places that point to an entry over all vectors and
threads.

**ClientRegistration.** The invariant, which the run `client_registration` checks as well:

* `TypeInv`, `CallInv`: types; a client some thread works on exists, and only
  one thread starts it.
* `PointerInv`: the registered client exists: it is starting, with the thread
  that is to retain it, or open, or about to be withdrawn by a close.
* `RetainInv`: the client a thread is about to retain is the registered one.
* `WithdrawInv`: a client that was withdrawn and not yet released was withdrawn
  by one thread only, is not the registered one, and still has its registration.
* `HoldInv`: the heart. A thread that was counted *and* read the pointer
  holds a client that is either still registered or withdrawn by a thread
  still before its release; it can get past the wait only when the counter
  is zero, and by `InvocationsCountHooks` the counter is not zero while the
  holder is there.
* `ReadInv`: a thread that read the pointer as the client read something.
* `RefsInv`: the reference count is one for the creator plus one for the
  registration, which decides when the last reference goes.

`InvocationsCountHooks` needs the cardinality of the set of counted threads to
change by one at the steps that move a thread in or out of it: two lemmas on
finite sets do that. The refinement maps the gate's `registered` to the pointer,
`retained` to the clients that are registered or withdrawn and not released, and
`user` to what a counted thread has read.

**PreOperation and ClientSession.** A request is named by an address, so the
invariant says of every place that can hold a name whose it is. `NameInv`: an
address is one thread's at a time. `MapInv`: what is published under an
address is the request of the call that has it. `QueueInv` and `DaemonInv`:
the messages in the queue and the one with the daemon name different requests,
and each of these is in a call that still waits for its answer (`Asked`), as
nothing takes a hook off the waiting list but the answer; that is why no
reply can come late. `AnswerInv` follows the answer from the daemon to the
return. `SessionInv`: who is in a call is a user of the client, so that a
close that drops the client finds no call, and with the parts above that
the globals are empty. `SessionFollowsGate` maps each step to one of the gate
or a stutter: the client is registered until its withdrawal, retained until its drop,
and in use by `users`.

**VNodeMap.** `ForgetInv`: an entry for a vnode that was reclaimed is there only while
its reclaim hook has yet to remove it. It needs that a hook works on a vnode that
cannot be reclaimed (`CallInv`). `IocountsAreHeld` is a count over two maps and two
locals of each thread.

**Redirection.** `CallInv` is the table of which local vnode a hook has at each of its
steps, `HeldInv` says that what it holds is what it has, and `ResultInv` follows
the error to the return. `SectionInv` says where a thread is known to `RecursionEngine`:
the create hook's outer section ends early, so that there is a range where it may
or may not be. `BackedInv`: while a thread has the backing file, or the
shadow is associated with it, the file is in the storage.

**RedirectedIO.** `HoldInv` and `OpInv` are the table of holds, sections and places.
`UplInv` says who has the page in a UPL and that a page a V1 pageout was called for
stays there, dirty, until the hook is done with it. `DataInv`: a thread gets to the shadow's own function
only by way of a failure; so the shadow's file keeps its zeros, and the backing
file never gets them. `MovedInv`: from the step that moves the data on, either
the call has moved it or has an error. `SizeInv`: when the backing file is longer than
the shadow, some thread has yet to see its new length and set it.

**Rename.** `CallInv` is the table of what each call has in hand, from which its
iocounts follow (`HeldInv`), whatever the other threads do. `AloneInv`: as long
as no call overlapped another, one thread at most is in a hook. For that thread
`MovedInv` says how far the three renames are, also after a failure. `WholeInv`
carries the documents across a call in which they are not whole: `WholeNow`, the files would
be whole with the call's next renames or exchange done, and `SeenNow`, what the
call has looked up is still what the names stand for, so that no rename is
given a stale vnode. The lemmas `WholeRenamed`, `WholePlain`, `WholeTruncated` and
`WholeExchanged` say of any directories what the hooks' effects preserve; that no
two names share a file of the storage is what makes the truncation of a
leftover harmless. `BackedInv` gives an exchange the right files.

**HashTable.** The code never sees a list as a whole, and neither does the
invariant. `IInv` says that there are a set of keys, a rank of each by age and a
rank of each in its bucket such that two entries are linked exactly when no other is
ranked between them, the first and last pointers are those of the ranks, the counts are
cardinalities, every other key is clear, and the iteration goes on at an entry of the
set (`TableInv`, `Held`). An operation changes the set at one key, or the rank of
one or two, so that its lemma looks at the links around those only (`ListRemove`,
`ListPushBack`, `ListPushFront`, `ListSwap`, `ListMoveToFront`); the record's
fields are matched with that in a lemma for each procedure (`UnlinkWorks`, `PlaceWorks`,
`PromoteWorks`, `MakeRoomWorks`, ...). The links alone are not inductive: that a chain ends
and meets nobody twice is what the ranks say and links cannot. What
recursion over the links yields is an enumeration of the set by rank
(`ChainEnumerates`), and there is only one (`EnumerationIsUnique`); from this follow
`ListsAgree` and the rehash, which takes the entries in the order of age and may lose any
of them (`RehashWorks`). Induction over the numbers is used as a fact on sets of
numbers (`SetInduction`), which the provers can instantiate. For the refinement,
`Content` is the enumeration by age, so that every operation on the set is one on the
sequence (`InsertContent`, `RemoveContent`, `ReplaceContent`), and what is ahead of the
iteration is the enumeration of the entries not older than its next one
(`AheadIsAhead`); `MapStep` has a case per call. As `IInv` quantifies over ranks, TLC cannot
evaluate it; the run checks what follows from it.

`VNodeHookProofs`, `VNodeMapProofs` and `ClientRegistrationProofs` begin with the
lemmas on cardinalities their counts need.

Only model-checked are the liveness properties (`CloseReturns`, `CallReturns`,
`CloseEnds`), liveness under fairness being out of the prover's reach.

## 5. Where the code and its own words differ

Each of these is a run that ends in a counterexample.

* `vnode_hook_remove`: the counter is tested on one entry, and the entry is
  removed by key (V/VNodeHook.cpp:564). When the vector was unhooked and hooked
  again in between, the entry removed is in use, and the assertion at line 568
  fails.
* `client_session_death`: "wait for any existing client invocations to return"
  (V/VFSFilter0.cpp:178): a hook that sleeps for a daemon that has ended does
  not return, as the sleep is uninterruptible (V/WaitingList.h:54) and close does
  not signal the list. The close waits for ever, `pendingUnregistration` stays
  set, and no daemon can register again.
* `redirection_copy`: applications are to believe that they work with original
  files (`src/README.md:11`). Only the lookup that creates the shadow asks the
  daemon for the copy and waits (V/VFSHooks.cpp:601, 755). A second lookup that
  comes while the daemon copies is given the file that is not complete.
* `redirected_io_pageout`: "write in data to the backing vnode"
  (V/VFSHooks.cpp:2048): the pageout hook's passing through does not take the original
  function's result and answers its initial ENODATA (V/VFSHooks.cpp:2106). With a
  storage whose file system is hooked too, the outer pageout takes that for a
  failure and skips the code that stores the page.

More were seen while modelling and have no run:

Registration and calls:

* The call has a branch for a message that was not enqueued, which removes its entry "by
  signalling it" and does not wait (V/VFSFilter0UserClient.cpp:278). It is never taken:
  `sendVFSDataToClient` ignores what `enqueue` returns and sets `WasEnqueued`
  (V/VFSFilter0UserClient.cpp:726-730). Audit messages (V/VFSFilter0.cpp:285-294) are
  sent without bound; when they have filled the queue the message of a hook is dropped,
  and the hook sleeps for ever although the daemon lives and serves all that is in the
  queue. The states are in `pre_operation`; `CallReturns` excepts them as `Dropped`.
* The assertion in `unregisterUserClient` (V/VFSFilter0.cpp:159): a client whose
  registration failed is closed like the others, as `start` ignores the result.
* `unregisterUserClient` waits for the counter of *all* hooks. A client
  that is registered while the old one's close waits (V/VFSFilter0.cpp:178-187,
  201) has its users waited for too; `CloseReturns` excepts that case.

Hooking, associations, lookup and create:

* The assertion that a second adder found the same vnode (V/VNode.h:162): the
  file behind the path may have been replaced between the two lookups.
* The release of all associations at close does not release those of hooks in
  flight (V/VFSFilter0UserClient.cpp:147-150): they are added after the loops, and stay
  until their vnodes are reclaimed.
* A second lookup that comes before the daemon begins to copy finds no backing
  file, turns to path redirection (V/VFSHooks.cpp:825), and works on another copy.
* The comment above the hook array wants reclaim and close hooked first, open
  and create last (V/VNodeHook.cpp:28-30); the array has open before close.
* The assertion in `getClient`'s failure path (V/VFSFilter0.cpp:253) that an
  unregistration is pending: it may be over by then.
* `QvrVnopCreateHookEx2` does not test, as lookup does, whether shadow and
  original are one vnode (V/VFSHooks.cpp:1276). When a file is created under a
  shadow's name the assertion at V/VNode.h:69 fails; in a release build the
  vnode is associated with itself and holds an iocount on itself.
* "if the copy existed and was connected with the vnode it was found on the
  previous step" (V/VFSHooks.cpp:573-574): the application data is put on the
  shadow's vnode only, so that the test of the original's vnode (line 506) does
  not find it, and every lookup of the original goes all the way.
* The results of `addVnodeAppData` (V/VFSHooks.cpp:790, 1266) and of `cp`
  (`main.cpp:127`) are ignored: without memory the application is handed a
  shadow whose reads and writes are not redirected, and a copy that failed half
  way stays in the storage as it is. No property is about such a copy: a failed `cp`
  counts as a failure, which the properties about data except.
* The comment V/VNodeHook.h:111-114 takes the entry's counter for the number of
  vnodes; the listener increments it at every access of a vnode
  (V/VNodeHook.cpp:303) and reclaim decrements it once. A vector once hooked
  may never be unhooked. Unhooking for good is therefore no property here.

Reads, writes and pages:

* A pageout through the V2 interface to a V2 storage that is not hooked never
  releases the UPL it has made of the shadow's pages: the release at
  V/VFSHooks.cpp:2069-2083 asks for the other UPL, `upl`. `UplsAreReleased`
  excepts that case, and shows that no other call returns with a page in a UPL.
* A V2 pageout with `upl` made and `uplAllPages` failed aborts a NULL UPL: the place
  "panic" of the model.
* A V1 pageout whose association was dropped looks the backing file up again, and
  the invalidation that goes with it (V/VFSHooks.cpp:369) waits for the page that its
  own caller has in a UPL.
* The V2 pageout takes *all* pages (comment about V/VFSHooks.cpp:2017), also those that the
  cache does not have, and writes what is in their place.
* Both sizes are read and then the larger set, without a lock (V/VNode.cpp:33-42):
  of two adjustments that overlap the second may shorten the shadow. `SizeCoversBacking`
  excepts what follows.
* The V2 pageout adjusts the shadow's size (V/VFSHooks.cpp:2002) and *then* writes whole pages
  (V/VFSHooks.cpp:2050), so that the backing file may grow to the end of its last page
  with nothing to adjust to it. The model's sizes are in pages and do not show that.
* Between pagein's call of the original function and its own reading the page of zeros is
  there to be seen, and a store to it through a mapping is overwritten. The invalidation
  when an association is made again drops dirty pages.
* pagein returns 0 with the zeros when the backing file is not found; read, write and
  pageout then work on the shadow's own file, outside the storage. The properties
  about data are therefore about runs without a failure.
* The branch of pagein for `!appData->redirectIO`, and its UPL code, is never reached.

Rename and exchange:

* When the shadow's or the original's rename fails the redirected file stays
  moved (V/VFSHooks.cpp:2568). A later rename to that name takes it for a leftover and truncates
  it; and any error of the lookup counts as absence of the target's original
  (V/VFSHooks.cpp:2518-2534).
* Renames are not ordered among threads. A target that is created between the
  kernel's lookup and the hook leaves a shadow paired with another document's
  original, although "the association will be restored on next lookup"
  (V/VFSHooks.cpp:2582-2586). The properties about documents except calls that overlap.
* Exchange ignores the daemon's result and never exchanges the originals.
* The cookie that rename gives `EnterRecursiveCall` is the address of a pointer to the
  component name, so that the lookup hook's "fix a cn_nameiop" (V/VFSHooks.cpp about 443)
  would read and write a pointer's bits.

Hash table, where nothing in `src/` uses rehash, limits or heuristics:

* `ght_rehash` loses the entries for which it finds no memory and reports success, although the header has it
  "retaining all elements" (V/CommonHashTable.h:558); and it uses the new table
  untested when its creation failed.
* An insertion during an iteration, which the header allows (V/CommonHashTable.h:446),
  frees the entries the iterator points to when it rehashes or evicts. `SafeInsert`
  leaves such calls out.
* After a rehash a bounded bucket may be over its limit.
* `QvrVnodeHooksHashTable::free` (V/VNodeHook.cpp:784-819) takes the data that
  `ght_first` returns for the entry; it would matter only for a table that is not empty, which is
  never freed.

## 6. Not modelled, and why

* Path conversion: string assembly in two functions without state; the modules use
  what it gives: each name has its own shadow, copy and backing file.
* The three hash functions: arithmetic on bytes; `fn_hash` is a constant, and
  collisions are in the instance.
* The list below `DataMap`: one function at a time walks it, under the lock. The
  application data's map is only read once it is set.
* Start of the driver and its registrations: runs once, on one thread; when
  the kernel first calls the listener is its own affair.
* The protected applications' table: constant; its result is a choice.
* Writes to wired memory: bytes through physical mappings. Their only use is a
  pointer-sized store, the step `HookSlot` or `UnhookSlot`.
* Kernel structure layouts, build files: no behaviour.
* Memory exhaustion beyond what the code tests (and `EnterRecursiveCall`'s, which
  ignores it), and weak memory: the code uses full-barrier atomics and locks for
  what is shared here.
* What `cp` copies: the model knows whether it is complete.
* Rename of a shadow over a file of path redirection, creation over a name with a leftover in the
  storage: what comes of them is decided by the daemon.

## 7. What is left

1. `Redirection` and `Rename` as one state machine: a lookup during a rename. Today
   each has the other's effects as steps of its environment.
2. The functions that `VNodeHook`, `Redirection`, `RedirectedIO` and `Rename` have for
   the maps stand for `HashTable` and `VNodeMap` by what these are proved to be; no
   theorem composes them.
