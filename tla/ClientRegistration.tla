------------------------- MODULE ClientRegistration -------------------------
(***************************************************************************)
(* Registration of the user client with com_VFSFilter0 (VFSFilter0.cpp),   *)
(* as used by the client's start and close (VFSFilter0UserClient.cpp) and  *)
(* by every hook that calls the client.  No lock protects the registration:*)
(* a pointer changed by compare-and-swap, a flag and an atomic counter.    *)
(* Every step below is one shared access of the code, except that the      *)
(* do-while of unregisterUserClient around its timed msleep is one step,   *)
(* taken when the sleep ends (by wakeup or by its timeout) and the counter *)
(* is zero; the wakeups only shorten that sleep and are not modelled.      *)
(***************************************************************************)
EXTENDS Integers, FiniteSets

CONSTANTS
  Threads,         \* kernel threads: hooks, and IOKit calls of the clients
  Clients,         \* addresses of VFSFilter0UserClient objects
  NoClient,
  CloseMethodUsed  \* may a client call its close method before it goes?

ASSUME ThreadsAssumption == IsFiniteSet(Threads)
ASSUME ClientsAssumption == NoClient \notin Clients
ASSUME CloseMethodAssumption == CloseMethodUsed \in BOOLEAN

VARIABLES
  userClient,             \* com_VFSFilter0::userClient
  pendingUnregistration,  \* com_VFSFilter0::pendingUnregistration
  clientInvocations,      \* com_VFSFilter0::clientInvocations
  refs,                   \* reference count of each client object
  life,                   \* stage of each client object
  pc,                     \* where each thread is
  client,                 \* argument of (un)registerUserClient
  currentClient           \* local of getClient and of unregisterUserClient

shared == << userClient, pendingUnregistration, clientInvocations >>
object == << refs, life >>
local  == << client, currentClient >>
vars   == << shared, object, pc, local >>

\* The steps of getClient/putClient during which the thread is counted in
\* clientInvocations.
CountedPc == { "getRead", "getCas", "getNull", "getFail", "using" }
GetPc     == { "getPending", "getInc" } \cup CountedPc
RegPc     == { "regCheck", "regCas", "regRetain" }
UnregPc   == { "unregRead", "unregPending", "unregCas", "unregFail",
               "unregWait", "unregRelease", "unregClear" }

TypeOK ==
  /\ userClient \in Clients \cup {NoClient}
  /\ pendingUnregistration \in BOOLEAN
  /\ clientInvocations \in Nat
  /\ refs \in [Clients -> Nat]
  /\ life \in [Clients -> {"none", "starting", "started", "closing"}]
  /\ pc \in [Threads -> {"idle"} \cup GetPc \cup RegPc \cup UnregPc]
  /\ client \in [Threads -> Clients \cup {NoClient}]
  /\ currentClient \in [Threads -> Clients \cup {NoClient}]

Init ==
  /\ userClient = NoClient
  /\ pendingUnregistration = FALSE
  /\ clientInvocations = 0
  /\ refs = [c \in Clients |-> 0]
  /\ life = [c \in Clients |-> "none"]
  /\ pc = [t \in Threads |-> "idle"]
  /\ client = [t \in Threads |-> NoClient]
  /\ currentClient = [t \in Threads |-> NoClient]

At(t, l)   == pc[t] = l
Goto(t, l) == pc' = [pc EXCEPT ![t] = l]

\* The function returns: its locals are gone.
Return(t) ==
  /\ Goto(t, "idle")
  /\ client' = [client EXCEPT ![t] = NoClient]
  /\ currentClient' = [currentClient EXCEPT ![t] = NoClient]

----------------------------------------------------------------------------
(* getClient, the use of the client, putClient.                            *)

\* A hook asks for the client and finds the pointer not NULL.  (When it is
\* NULL getClient returns NULL at once.)
GetClient(t) ==
  /\ At(t, "idle")
  /\ userClient # NoClient
  /\ Goto(t, "getPending")
  /\ UNCHANGED << shared, object, local >>

GetCheckPending(t) ==
  /\ At(t, "getPending")
  /\ IF pendingUnregistration THEN Return(t)
                              ELSE Goto(t, "getInc") /\ UNCHANGED local
  /\ UNCHANGED << shared, object >>

GetIncrement(t) ==
  /\ At(t, "getInc")
  /\ clientInvocations' = clientInvocations + 1
  /\ Goto(t, "getRead")
  /\ UNCHANGED << userClient, pendingUnregistration, object, local >>

GetRead(t) ==
  /\ At(t, "getRead")
  /\ currentClient' = [currentClient EXCEPT ![t] = userClient]
  /\ Goto(t, IF userClient = NoClient THEN "getFail" ELSE "getCas")
  /\ UNCHANGED << shared, object, client >>

\* CAS of the pointer with the value just read.
GetCompare(t) ==
  /\ At(t, "getCas")
  /\ Goto(t, IF userClient = currentClient[t] THEN "getNull" ELSE "getFail")
  /\ UNCHANGED << shared, object, local >>

\* CAS of NULL with NULL, an atomic test for NULL.
GetCompareNull(t) ==
  /\ At(t, "getNull")
  /\ Goto(t, IF userClient = NoClient THEN "getFail" ELSE "using")
  /\ UNCHANGED << shared, object, local >>

\* Variant: NULL is returned without undoing the increment.
GetFailLeaks(t) ==
  /\ At(t, "getFail")
  /\ Return(t)
  /\ UNCHANGED << shared, object >>

\* The unregistration is in progress: undo the increment, return NULL.
GetFail(t) ==
  /\ At(t, "getFail")
  /\ clientInvocations' = clientInvocations - 1
  /\ Return(t)
  /\ UNCHANGED << userClient, pendingUnregistration, object >>

\* The hook is done with the client.
PutClient(t) ==
  /\ At(t, "using")
  /\ clientInvocations' = clientInvocations - 1
  /\ Return(t)
  /\ UNCHANGED << userClient, pendingUnregistration, object >>

----------------------------------------------------------------------------
(* Start of a client: registerUserClient, whose result start() ignores.    *)

ClientStart(t, c) ==
  /\ At(t, "idle")
  /\ life[c] = "none" /\ refs[c] = 0
  /\ life' = [life EXCEPT ![c] = "starting"]
  /\ refs' = [refs EXCEPT ![c] = 1]
  /\ client' = [client EXCEPT ![t] = c]
  /\ Goto(t, "regCheck")
  /\ UNCHANGED << shared, currentClient >>

StartReturn(t) ==
  /\ life' = [life EXCEPT ![client[t]] = "started"]
  /\ Return(t)

RegisterCheck(t) ==
  /\ At(t, "regCheck")
  /\ IF pendingUnregistration
     THEN StartReturn(t)
     ELSE Goto(t, "regCas") /\ UNCHANGED << life, local >>
  /\ UNCHANGED << shared, refs >>

\* CAS of NULL with the client; another client may be registered already.
RegisterSwap(t) ==
  /\ At(t, "regCas")
  /\ IF userClient = NoClient
     THEN /\ userClient' = client[t]
          /\ Goto(t, "regRetain")
          /\ UNCHANGED << life, local >>
     ELSE StartReturn(t) /\ UNCHANGED userClient
  /\ UNCHANGED << pendingUnregistration, clientInvocations, refs >>

\* Variant: the registered client is not retained.
RegisterRetainForgotten(t) ==
  /\ At(t, "regRetain")
  /\ StartReturn(t)
  /\ UNCHANGED << shared, refs >>

RegisterRetain(t) ==
  /\ At(t, "regRetain")
  /\ refs' = [refs EXCEPT ![client[t]] = @ + 1]
  /\ StartReturn(t)
  /\ UNCHANGED shared

----------------------------------------------------------------------------
(* Close of a client: unregisterUserClient.                                *)

\* The task closed its connection or died: IOKit calls clientClose, once.
ClientClose(t, c) ==
  /\ At(t, "idle")
  /\ life[c] = "started"
  /\ life' = [life EXCEPT ![c] = "closing"]
  /\ client' = [client EXCEPT ![t] = c]
  /\ Goto(t, "unregRead")
  /\ UNCHANGED << shared, refs, currentClient >>

\* The task calls the external method close.
CloseMethod(t, c) ==
  /\ CloseMethodUsed
  /\ At(t, "idle")
  /\ life[c] = "started"
  /\ client' = [client EXCEPT ![t] = c]
  /\ Goto(t, "unregRead")
  /\ UNCHANGED << shared, object, currentClient >>

\* A client that is not the registered one is refused.
UnregisterRead(t) ==
  /\ At(t, "unregRead")
  /\ IF userClient = client[t]
     THEN /\ currentClient' = [currentClient EXCEPT ![t] = userClient]
          /\ Goto(t, "unregPending")
          /\ UNCHANGED client
     ELSE Return(t)
  /\ UNCHANGED << shared, object >>

UnregisterPending(t) ==
  /\ At(t, "unregPending")
  /\ pendingUnregistration' = TRUE
  /\ Goto(t, "unregCas")
  /\ UNCHANGED << userClient, clientInvocations, object, local >>

UnregisterSwap(t) ==
  /\ At(t, "unregCas")
  /\ IF userClient = currentClient[t]
     THEN userClient' = NoClient /\ Goto(t, "unregWait")
     ELSE UNCHANGED userClient /\ Goto(t, "unregFail")
  /\ UNCHANGED << pendingUnregistration, clientInvocations, object, local >>

UnregisterFail(t) ==
  /\ At(t, "unregFail")
  /\ pendingUnregistration' = FALSE
  /\ Return(t)
  /\ UNCHANGED << userClient, clientInvocations, object >>

\* Variant: the loop sleeps once and does not test the counter.
UnregisterWaitUntested(t) ==
  /\ At(t, "unregWait")
  /\ Goto(t, "unregRelease")
  /\ UNCHANGED << shared, object, local >>

UnregisterWait(t) ==
  /\ At(t, "unregWait")
  /\ clientInvocations = 0
  /\ Goto(t, "unregRelease")
  /\ UNCHANGED << shared, object, local >>

\* Variant: the reference taken by registerUserClient is leaked.
UnregisterReleaseForgotten(t) ==
  /\ At(t, "unregRelease")
  /\ Goto(t, "unregClear")
  /\ UNCHANGED << shared, object, local >>

UnregisterRelease(t) ==
  /\ At(t, "unregRelease")
  /\ refs' = [refs EXCEPT ![currentClient[t]] = @ - 1]
  /\ Goto(t, "unregClear")
  /\ UNCHANGED << shared, life, local >>

UnregisterClear(t) ==
  /\ At(t, "unregClear")
  /\ pendingUnregistration' = FALSE
  /\ Return(t)
  /\ UNCHANGED << userClient, clientInvocations, object >>

\* terminate: IOKit drops its reference once no call on the client is left.
ClientTerminate(c) ==
  /\ life[c] = "closing"
  /\ \A t \in Threads : client[t] # c
  /\ life' = [life EXCEPT ![c] = "none"]
  /\ refs' = [refs EXCEPT ![c] = @ - 1]
  /\ UNCHANGED << shared, pc, local >>

----------------------------------------------------------------------------
GetStep(t) ==
  \/ GetCheckPending(t) \/ GetIncrement(t) \/ GetRead(t) \/ GetCompare(t)
  \/ GetCompareNull(t) \/ GetFail(t) \/ PutClient(t)

RegisterStep(t) == RegisterCheck(t) \/ RegisterSwap(t) \/ RegisterRetain(t)

UnregisterStep(t) ==
  \/ UnregisterRead(t) \/ UnregisterPending(t) \/ UnregisterSwap(t)
  \/ UnregisterFail(t) \/ UnregisterWait(t) \/ UnregisterRelease(t)
  \/ UnregisterClear(t)

Step(t) == GetStep(t) \/ RegisterStep(t) \/ UnregisterStep(t)

Next ==
  \/ \E t \in Threads :
       \/ GetClient(t) \/ Step(t)
       \/ \E c \in Clients : ClientStart(t, c) \/ ClientClose(t, c)
                             \/ CloseMethod(t, c)
  \/ \E c \in Clients : ClientTerminate(c)

Spec == Init /\ [][Next]_vars

\* A thread inside one of these functions keeps running.  No hook is obliged to
\* come back to putClient: it may sleep for a daemon that is gone.
Running(t) == Step(t) /\ ~At(t, "using")
FairSpec == Spec /\ \A t \in Threads : WF_vars(Running(t))

----------------------------------------------------------------------------
(* Properties.                                                             *)

\* A hook that was given the client uses an object on which registration
\* still holds its reference: unregisterUserClient releases the client only
\* after every hook that saw it has called putClient.  While registerUserClient
\* has yet to retain, the reference of the client's creator stands in.
ClientInUseIsRetained ==
  \A t \in Threads : At(t, "using") =>
    \/ refs[currentClient[t]] > 1
    \/ \E u \in Threads : At(u, "regRetain") /\ client[u] = currentClient[t]

\* The pointer never refers to a freed client.
RegisteredClientExists ==
  userClient # NoClient => life[userClient] # "none"

\* A terminated client has lost its last reference: registration leaks none.
TerminatedClientIsFreed == \A c \in Clients : life[c] = "none" => refs[c] = 0

\* The counter is the number of hooks between increment and decrement.
Counted == {t \in Threads : pc[t] \in CountedPc}
InvocationsCountHooks == clientInvocations = Cardinality(Counted)

\* A close of t returns, whatever hooks keep coming: once the client is withdrawn
\* the counter drains.  There are two exceptions: some one hook never comes back
\* from its use of the client; or the close waits while other clients are
\* registered, again and again or for good, as it waits for their hooks as well.
CloseReturnsOf(t) ==
  [](pc[t] \in UnregPc =>
       <>(\/ pc[t] = "idle"
          \/ \E u \in Threads : [](At(t, "unregWait") /\ At(u, "using"))
          \/ []<>(At(t, "unregWait") /\ userClient # NoClient)))

\* The registration protocol implements the gate.
WithdrawnPc == { "unregWait", "unregRelease" }
HoldingPc   == { "getCas", "getNull", "getFail", "using" }
Withdrawn(c) ==
  \E t \in Threads : pc[t] \in WithdrawnPc /\ currentClient[t] = c
retainedClients == {c \in Clients : userClient = c \/ Withdrawn(c)}
clientUser ==
  [t \in Threads |-> IF pc[t] \in HoldingPc THEN currentClient[t]
                                           ELSE NoClient]
Gate == INSTANCE ClientGate WITH
  registered <- userClient, retained <- retainedClients, user <- clientUser
GateSpec == Gate!GateSpec

\* The parts of the inductive invariant that the proofs rest on.

\* Types; that the numbers are not negative follows from what they count.
TypeInv ==
  /\ userClient \in Clients \cup {NoClient}
  /\ pendingUnregistration \in BOOLEAN
  /\ clientInvocations \in Int
  /\ refs \in [Clients -> Int]
  /\ life \in [Clients -> {"none", "starting", "started", "closing"}]
  /\ pc \in [Threads -> {"idle"} \cup GetPc \cup RegPc \cup UnregPc]
  /\ client \in [Threads -> Clients \cup {NoClient}]
  /\ currentClient \in [Threads -> Clients \cup {NoClient}]

\* A client that a thread works on exists; one that starts has one such
\* thread, one that closes has been started.
CallInv ==
  \A t \in Threads :
    /\ pc[t] \in {"idle"} \cup GetPc => client[t] = NoClient
    /\ pc[t] \in RegPc => /\ client[t] \in Clients
                          /\ life[client[t]] = "starting"
                          /\ \A u \in Threads : client[u] = client[t] => u = t
    /\ pc[t] \in UnregPc => /\ client[t] \in Clients
                            /\ life[client[t]] \in {"started", "closing"}
    /\ pc[t] \in UnregPc \ {"unregRead"} => currentClient[t] = client[t]

\* The registered client exists; it is still being registered, or open, or a
\* close that has yet to withdraw it is on its way.
PointerInv ==
  userClient # NoClient =>
    /\ life[userClient] # "none"
    /\ life[userClient] = "starting" =>
         \E t \in Threads : At(t, "regRetain") /\ client[t] = userClient
    /\ life[userClient] = "closing" =>
         \E t \in Threads : /\ pc[t] \in {"unregRead", "unregPending",
                                         "unregCas"}
                            /\ client[t] = userClient

RetainInv ==
  \A t \in Threads : At(t, "regRetain") => userClient = client[t]

\* A client is withdrawn once, by one thread.
WithdrawInv ==
  \A t \in Threads : pc[t] \in WithdrawnPc =>
    /\ userClient # currentClient[t]
    /\ \A u \in Threads :
         pc[u] \in WithdrawnPc /\ currentClient[u] = currentClient[t] => u = t

\* A hook holds a client that is registered, or whose close waits for it.
HoldInv ==
  \A t \in Threads : pc[t] \in HoldingPc /\ currentClient[t] # NoClient =>
    \/ userClient = currentClient[t]
    \/ \E u \in Threads : /\ At(u, "unregWait")
                          /\ currentClient[u] = currentClient[t]

\* getClient goes on with a client only when it read one.
ReadInv ==
  \A t \in Threads : pc[t] \in HoldingPc \ {"getFail"}
                       => currentClient[t] # NoClient

\* The reference count: one reference of IOKit, one of the registration.
CreatorRef(c) == IF life[c] = "none" THEN 0 ELSE 1
Registration(c) ==
  \/ userClient = c /\ \A t \in Threads : At(t, "regRetain") => client[t] # c
  \/ Withdrawn(c)
RegistrationRef(c) == IF Registration(c) THEN 1 ELSE 0
RefsInv == \A c \in Clients : refs[c] = CreatorRef(c) + RegistrationRef(c)

\* All of them: every step of the registration protocol preserves it.
IInv ==
  /\ TypeInv /\ InvocationsCountHooks /\ CallInv /\ PointerInv /\ RetainInv
  /\ WithdrawInv /\ HoldInv /\ ReadInv /\ RefsInv
============================================================================
