---------------------------- MODULE ClientSession ----------------------------
(***************************************************************************)
(* The life of a user client around the calls of PreOperation: a daemon    *)
(* opens a client and serves it, its notification loop ends or it dies,    *)
(* IOKit closes the client, and another daemon comes.  The registration is *)
(* taken as ClientGate specifies it, with one client at a time: getClient  *)
(* and putClient bracket a call, and a close withdraws the client, waits   *)
(* for the hooks that have it, and drops it.  The queue goes with its      *)
(* client; the waiting list and the map of requests are globals and stay.  *)
(***************************************************************************)
EXTENDS PreOperation

VARIABLES
  client,  \* "none", "open", "dead": nobody serves it; "withdrawn": a close waits
  users    \* hooks between getClient and putClient

session     == << client, users >>
sessionVars == << vars, session >>

SessionTypeOK ==
  /\ TypeOK
  /\ client \in {"none", "open", "dead", "withdrawn"}
  /\ users \in SUBSET Threads

SessionInit == Init /\ client = "none" /\ users = {}

hooks == << maps, pc, frame, controlled >>

\* A process opens a client; registration refuses one that comes while
\* a close waits.
Start ==
  /\ client = "none" /\ dpc = "dequeue"
  /\ client' = "open"
  /\ queue' = << >>
  /\ UNCHANGED << hooks, daemon, acted, users >>

\* The notification loop ends, or its process dies, while it copies maybe; a
\* reply that has begun runs to its end.
HandlerEnds ==
  /\ client = "open"
  /\ client' = "dead"
  /\ IF dpc = "serve" THEN dpc' = "dequeue" /\ message' = Audit
                      ELSE UNCHANGED << dpc, message >>
  /\ UNCHANGED << queue, hooks, inData, acted, users >>

\* clientClose: close, up to the withdrawal of the pointer.
Withdraw ==
  /\ client = "dead"
  /\ client' = "withdrawn"
  /\ UNCHANGED << vars, users >>

\* The wait of unregisterUserClient is over: the client and its queue go.
DropIf(drained) ==
  /\ client = "withdrawn" /\ drained
  /\ client' = "none"
  /\ queue' = << >>
  /\ UNCHANGED << hooks, daemon, acted, users >>

\* Variant: the close waits a second and no longer.
DropUndrained == DropIf(TRUE)

Drop == DropIf(users = {})

\* A hook that gets the client calls it; without a client it goes on at once.
GetClient(t, k, o) ==
  /\ client \in {"open", "dead"} /\ t \notin users
  /\ users' = users \cup {t}
  /\ Call(t, k, o)
  /\ UNCHANGED client

\* Variant: the reference is not given back.
PutClientForgotten(t) == FALSE

PutClient(t) ==
  /\ t \in users /\ pc[t] = "idle"
  /\ users' = users \ {t}
  /\ UNCHANGED << vars, client >>

HookStep(t) == Step(t) /\ UNCHANGED session

AuditHook == client \in {"open", "dead"} /\ SendAudit /\ UNCHANGED session

Handler == client = "open" /\ (Dequeue \/ Serve) /\ UNCHANGED session
Reply   == (ReplyFind \/ ReplyWrite \/ ReplySignal) /\ UNCHANGED session

SessionNext ==
  \/ Start \/ HandlerEnds \/ Withdraw \/ Drop
  \/ \E t \in Threads :
       HookStep(t) \/ PutClient(t) \/ \E k \in Ids, o \in Opcodes : GetClient(t, k, o)
  \/ AuditHook \/ Handler \/ Reply

SessionSpec == SessionInit /\ [][SessionNext]_sessionVars

\* A thread that is not asleep runs, the daemon serves its queue for as long
\* as it lives, and IOKit closes the client of a dead one.
FairSessionSpec ==
  /\ SessionSpec
  /\ WF_sessionVars(Handler) /\ WF_sessionVars(Reply)
  /\ WF_sessionVars(Withdraw) /\ WF_sessionVars(Drop)
  /\ \A t \in Threads : WF_sessionVars(HookStep(t)) /\ WF_sessionVars(PutClient(t))

----------------------------------------------------------------------------
(* Properties.                                                             *)

\* A hook sleeps for an answer that nobody is left to give.
Stranded(t) == /\ pc[t] = "asleep" /\ client # "open"
               /\ ~(dpc # "dequeue" /\ message.id = id[t])

\* A session leaves nothing behind for the next one: when a client is dropped
\* no hook is in a call, and the globals name no request that the next daemon
\* could answer by chance, or be woken for.
SessionsAreApart ==
  client = "none" =>
    /\ queue = << >> /\ waiting = {}
    /\ \A t \in Threads : pc[t] = "idle"
    /\ \A k \in Ids : gPreOperationDataMap[k] = NoThread

\* The registration around the calls is one that com_VFSFilter0 allows: a client
\* that hooks were given stays retained until the last of them has put it back,
\* and none is given out after its withdrawal.
Gate == INSTANCE ClientGate WITH
  Clients <- {"client"}, NoClient <- "none",
  registered <- IF client \in {"open", "dead"} THEN "client" ELSE "none",
  retained <- IF client = "none" THEN {} ELSE {"client"},
  user <- [t \in Threads |-> IF t \in users THEN "client" ELSE "none"]
FollowsGate == Gate!GateSpec

\* A hook sleeps for an answer to a message that a full queue did not take: not
\* under way to the daemon, nor served by it.
Dropped(t) == pc[t] = "asleep" /\ ~Pending(id[t]) /\ id[t] \notin acted

\* Every call returns, however many hooks and audit messages there are, except
\* those whose message was dropped and those stranded by the end of the daemon.
CallReturns ==
  \A t \in Threads :
    (pc[t] # "idle") ~> (pc[t] = "idle" \/ Dropped(t) \/ Stranded(t))

\* A close comes to its end, in spite of hooks that still call the dead client,
\* except when one of them is stranded.
CloseEnds ==
  (client \in {"dead", "withdrawn"})
    ~> (client = "none" \/ \E t \in Threads : Stranded(t))

\* The wait of unregisterUserClient "for any existing client invocations to
\* return" ends.
InvocationsReturn == (client = "withdrawn") ~> (client = "none")
=============================================================================
