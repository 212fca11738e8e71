---------------------------- MODULE PreOperation ----------------------------
(***************************************************************************)
(* The synchronous calls from the hooks to the user mode daemon:           *)
(* preOperationCallbackAndWaitForReply and reply (VFSFilter0UserClient.cpp)*)
(* over WaitingList (WaitingList.h) and DataMap (RecursionEngine.h), and   *)
(* the daemon's notification loop (VFSFilterClient/main.cpp).              *)
(*                                                                         *)
(* A request is named by the address of a variable on the stack of the     *)
(* thread that makes it, so that the name is used again as soon as the     *)
(* call returns, maybe by another thread.  The message with that name is   *)
(* put in a bounded queue, the thread sleeps on the address, the daemon    *)
(* serves one message at a time and replies with the name it was sent.     *)
(* Each DataMap operation and each section under WaitingList's lock is one *)
(* step.                                                                   *)
(***************************************************************************)
EXTENDS Integers, Sequences

CONSTANTS
  Threads,        \* threads that run hooks
  Ids,            \* stack addresses, the names of the requests
  QueueCapacity,  \* messages that fit in the IODataQueue
  NoThread, NoId

ASSUME NoneAssumption == NoThread \notin Threads /\ NoId \notin Ids
ASSUME QueueAssumption == QueueCapacity \in Nat

VARIABLES
  queue,                \* fDataQueue, the oldest message first
  waiting,              \* keys of gFileOpenWaitingList
  gPreOperationDataMap, \* id -> thread whose inData it refers to, or NoThread
  pc,                   \* where each hook's call is
  id,                   \* the address that names the thread's request
  op,                   \* inData->op
  wasEnqueued,          \* data.Status.WasEnqueued
  inserted,             \* local insertedInPreOperationDataMap
  controlled,           \* inData->Parameters.Filter.out.isControlledFile
  dpc,                  \* where the daemon is
  message,              \* the message the daemon serves
  inData,               \* local inData of reply: a thread, or NoThread
  acted                 \* history: ids of the requests the daemon has served

maps   == << waiting, gPreOperationDataMap >>
frame  == << id, op, wasEnqueued, inserted >>
daemon == << dpc, message, inData >>
vars   == << queue, maps, pc, frame, controlled, daemon, acted >>

Opcodes  == { "Lookup", "Filter" }  \* an Exchange goes the way of a Lookup
Messages == [id : Ids, op : Opcodes]
Audit    == [id |-> NoId, op |-> "Audit"]

TypeOK ==
  /\ queue \in Seq(Messages \cup {Audit}) /\ Len(queue) =< QueueCapacity
  /\ waiting \in SUBSET Ids
  /\ gPreOperationDataMap \in [Ids -> Threads \cup {NoThread}]
  /\ pc \in [Threads -> {"idle", "insert", "enter", "send", "wait", "asleep",
                         "remove"}]
  /\ id \in [Threads -> Ids \cup {NoId}]
  /\ op \in [Threads -> Opcodes]
  /\ wasEnqueued \in [Threads -> BOOLEAN]
  /\ inserted \in [Threads -> BOOLEAN]
  /\ controlled \in [Threads -> BOOLEAN]
  /\ dpc \in {"dequeue", "serve", "find", "write", "signal"}
  /\ message \in Messages \cup {Audit}
  /\ inData \in Threads \cup {NoThread}
  /\ acted \in SUBSET Ids

Init ==
  /\ queue = << >>
  /\ waiting = {}
  /\ gPreOperationDataMap = [k \in Ids |-> NoThread]
  /\ pc = [t \in Threads |-> "idle"]
  /\ id = [t \in Threads |-> NoId]
  /\ op = [t \in Threads |-> "Lookup"]
  /\ wasEnqueued = [t \in Threads |-> FALSE]
  /\ inserted = [t \in Threads |-> FALSE]
  /\ controlled = [t \in Threads |-> FALSE]
  /\ dpc = "dequeue"
  /\ message = Audit
  /\ inData = NoThread
  /\ acted = {}

Goto(t, l) == pc' = [pc EXCEPT ![t] = l]

\* IODataQueue::enqueue: the message is refused when there is no room.
Enqueue(m) ==
  queue' = IF Len(queue) < QueueCapacity THEN Append(queue, m) ELSE queue

----------------------------------------------------------------------------
(* preOperationCallbackAndWaitForReply.                                    *)

\* Variant: inData is not zeroed.
CallUnzeroed(t, k, o) ==
  /\ pc[t] = "idle"
  /\ \A u \in Threads : id[u] # k
  /\ id' = [id EXCEPT ![t] = k]
  /\ op' = [op EXCEPT ![t] = o]
  /\ wasEnqueued' = [wasEnqueued EXCEPT ![t] = FALSE]
  /\ inserted' = [inserted EXCEPT ![t] = FALSE]
  /\ controlled' \in { [controlled EXCEPT ![t] = b] : b \in BOOLEAN }
  /\ acted' = acted \ {k}
  /\ Goto(t, IF o = "Filter" THEN "insert" ELSE "enter")
  /\ UNCHANGED << queue, maps, daemon >>

\* A hook fills a zeroed inData and calls.
Call(t, k, o) ==
  /\ pc[t] = "idle"
  /\ \A u \in Threads : id[u] # k
  /\ id' = [id EXCEPT ![t] = k]
  /\ op' = [op EXCEPT ![t] = o]
  /\ wasEnqueued' = [wasEnqueued EXCEPT ![t] = FALSE]
  /\ inserted' = [inserted EXCEPT ![t] = FALSE]
  /\ controlled' = [controlled EXCEPT ![t] = FALSE]
  /\ acted' = acted \ {k}
  /\ Goto(t, IF o = "Filter" THEN "insert" ELSE "enter")
  /\ UNCHANGED << queue, maps, daemon >>

\* A Filter request takes a reply: publish inData.  The insertion may fail.
InsertInData(t) ==
  /\ pc[t] = "insert"
  /\ \/ /\ gPreOperationDataMap' = [gPreOperationDataMap EXCEPT ![id[t]] = t]
        /\ inserted' = [inserted EXCEPT ![t] = TRUE]
        /\ UNCHANGED controlled
     \/ /\ controlled' = [controlled EXCEPT ![t] = FALSE]
        /\ UNCHANGED << gPreOperationDataMap, inserted >>
  /\ Goto(t, "enter")
  /\ UNCHANGED << queue, waiting, id, op, wasEnqueued, daemon, acted >>

\* WaitingList::enter; when it fails the daemon is not called at all.
Enter(t) ==
  /\ pc[t] = "enter"
  /\ \/ waiting' = waiting \cup {id[t]} /\ Goto(t, "send")
     \/ UNCHANGED waiting /\ Goto(t, "remove")
  /\ UNCHANGED << queue, gPreOperationDataMap, frame, controlled, daemon,
                  acted >>

\* sendVFSDataToClient ignores the result of the enqueue and says that the
\* message was enqueued; the branch for one that was not is never taken.
SendVFSDataToClient(t) ==
  /\ pc[t] = "send"
  /\ Enqueue([id |-> id[t], op |-> op[t]])
  /\ wasEnqueued' = [wasEnqueued EXCEPT ![t] = TRUE]
  /\ Goto(t, "wait")
  /\ UNCHANGED << maps, id, op, inserted, controlled, daemon, acted >>

\* Variant: the thread does not block after assert_wait.
WaitUnblocked(t) ==
  /\ pc[t] = "wait"
  /\ Goto(t, "remove")
  /\ UNCHANGED << queue, maps, frame, controlled, daemon, acted >>

\* WaitingList::wait: sleep unless the request was already signalled.
Wait(t) ==
  /\ pc[t] = "wait"
  /\ Goto(t, IF id[t] \in waiting THEN "asleep" ELSE "remove")
  /\ UNCHANGED << queue, maps, frame, controlled, daemon, acted >>

\* Variant: inData stays published.
RemoveInDataForgotten(t) ==
  /\ pc[t] = "remove"
  /\ id' = [id EXCEPT ![t] = NoId]
  /\ op' = [op EXCEPT ![t] = "Lookup"]
  /\ wasEnqueued' = [wasEnqueued EXCEPT ![t] = FALSE]
  /\ inserted' = [inserted EXCEPT ![t] = FALSE]
  /\ controlled' = [controlled EXCEPT ![t] = FALSE]
  /\ Goto(t, "idle")
  /\ UNCHANGED << queue, maps, daemon, acted >>

\* Withdraw inData and return; the hook's stack frame is gone.
RemoveInData(t) ==
  /\ pc[t] = "remove"
  /\ gPreOperationDataMap' =
       IF inserted[t] THEN [gPreOperationDataMap EXCEPT ![id[t]] = NoThread]
                      ELSE gPreOperationDataMap
  /\ id' = [id EXCEPT ![t] = NoId]
  /\ op' = [op EXCEPT ![t] = "Lookup"]
  /\ wasEnqueued' = [wasEnqueued EXCEPT ![t] = FALSE]
  /\ inserted' = [inserted EXCEPT ![t] = FALSE]
  /\ controlled' = [controlled EXCEPT ![t] = FALSE]
  /\ Goto(t, "idle")
  /\ UNCHANGED << queue, waiting, daemon, acted >>

\* Other hooks send audit messages, as many as there is room for, and do not
\* wait.
SendAudit ==
  /\ Enqueue(Audit)
  /\ UNCHANGED << maps, pc, frame, controlled, daemon, acted >>

----------------------------------------------------------------------------
(* The daemon: one loop, in main.cpp; reply is its call into the filter.   *)

\* Variant: the daemon answers audit messages too.
DequeueAnswersAudit ==
  /\ dpc = "dequeue"
  /\ queue # << >>
  /\ message' = Head(queue)
  /\ queue' = Tail(queue)
  /\ dpc' = "serve"
  /\ UNCHANGED << maps, pc, frame, controlled, inData, acted >>

Dequeue ==
  /\ dpc = "dequeue"
  /\ queue # << >>
  /\ message' = Head(queue)
  /\ queue' = Tail(queue)
  /\ dpc' = IF Head(queue) = Audit THEN "dequeue" ELSE "serve"
  /\ UNCHANGED << maps, pc, frame, controlled, inData, acted >>

\* cp, exchangedata, or the decision on a Filter request.
Serve ==
  /\ dpc = "serve"
  /\ acted' = acted \cup {message.id}
  /\ dpc' = "find"
  /\ UNCHANGED << queue, maps, pc, frame, controlled, message, inData >>

\* reply: getDataByKey.
ReplyFind ==
  /\ dpc = "find"
  /\ inData' = gPreOperationDataMap[message.id]
  /\ dpc' = IF inData' = NoThread THEN "signal" ELSE "write"
  /\ UNCHANGED << queue, maps, pc, frame, controlled, message, acted >>

\* reply: write through the pointer, without a lock.  The reply the daemon
\* sends for a Filter request is 1, and 0 for the others.
ReplyWrite ==
  /\ dpc = "write"
  /\ controlled' = IF op[inData] = "Filter"
                   THEN [controlled EXCEPT ![inData] = (message.op = "Filter")]
                   ELSE controlled
  /\ dpc' = "signal"
  /\ UNCHANGED << queue, maps, pc, frame, message, inData, acted >>

\* Variant: the key is removed before the wakeup, which then finds nothing.
ReplySignalNoWakeup ==
  /\ dpc = "signal"
  /\ waiting' = waiting \ {message.id}
  /\ inData' = NoThread
  /\ message' = Audit
  /\ dpc' = "dequeue"
  /\ UNCHANGED << queue, gPreOperationDataMap, pc, frame, controlled, acted >>

\* WaitingList::signal: wake the sleepers on the key and remove the key.
ReplySignal ==
  /\ dpc = "signal"
  /\ waiting' = waiting \ {message.id}
  /\ pc' = [t \in Threads |->
              IF /\ message.id \in waiting
                 /\ pc[t] = "asleep"
                 /\ id[t] = message.id
              THEN "remove" ELSE pc[t]]
  /\ inData' = NoThread
  /\ message' = Audit
  /\ dpc' = "dequeue"
  /\ UNCHANGED << queue, gPreOperationDataMap, frame, controlled, acted >>

----------------------------------------------------------------------------
Step(t) ==
  \/ InsertInData(t) \/ Enter(t) \/ SendVFSDataToClient(t) \/ Wait(t)
  \/ RemoveInData(t)

Daemon == Dequeue \/ Serve \/ ReplyFind \/ ReplyWrite \/ ReplySignal

Next ==
  \/ \E t \in Threads :
       Step(t) \/ \E k \in Ids, o \in Opcodes : Call(t, k, o)
  \/ SendAudit
  \/ Daemon

Spec == Init /\ [][Next]_vars

----------------------------------------------------------------------------
(* Properties.                                                             *)

\* The message of k is in the queue, or the daemon has yet to signal it.
Pending(k) ==
  \/ \E i \in DOMAIN queue : queue[i].id = k
  \/ dpc # "dequeue" /\ message.id = k

\* The comment in reply: the inData it writes through is not gone, because
\* the thread that owns it has not been signalled yet; and it is the request
\* the daemon was asked about, not a later one at the same address.
ReplyWritesLiveRequest ==
  dpc = "write" =>
    /\ pc[inData] \in {"wait", "asleep"}
    /\ id[inData] = message.id
    /\ op[inData] = message.op

\* A hook whose message was sent goes on only after the daemon has served that
\* very request.  (Whether cp succeeded is not asked: the daemon ignores it.)
DaemonActedFirst ==
  \A t \in Threads : pc[t] = "remove" /\ wasEnqueued[t] => id[t] \in acted

\* A Filter call returns the daemon's decision on that call, and "not
\* controlled" when the daemon could not be asked or could not answer; other
\* calls are never told that a file is controlled.
FilterAnswerIsDaemons ==
  \A t \in Threads :
    pc[t] = "remove" => (controlled[t] <=> wasEnqueued[t] /\ inserted[t])

\* A call leaves nothing that names its dead stack frame: neither a waiting
\* entry, nor a published inData, nor a message still to be answered.
NothingNamesDeadFrame ==
  \A k \in Ids : (\A t \in Threads : id[t] # k) =>
    k \notin waiting /\ gPreOperationDataMap[k] = NoThread /\ ~ Pending(k)
============================================================================
