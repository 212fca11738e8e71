----------------------------- MODULE ClientGate -----------------------------
(***************************************************************************)
(* What com_VFSFilter0 promises the threads that talk to the user client:  *)
(* at most one client is registered; a thread that was given the client by *)
(* getClient keeps it usable until putClient; the reference registration   *)
(* took on a client is dropped only when the client is not registered any  *)
(* more and nobody uses it.  ClientRegistration implements this with one   *)
(* pointer, one flag and one counter.                                      *)
(***************************************************************************)
CONSTANTS Threads, Clients, NoClient

VARIABLES
  registered,  \* the client hooks may be given, or NoClient
  retained,    \* the clients registration holds a reference on
  user         \* user[t]: the client thread t is using, or NoClient

gateVars == << registered, retained, user >>

GateInit ==
  /\ registered = NoClient
  /\ retained = {}
  /\ user = [t \in Threads |-> NoClient]

Register(c) ==
  /\ registered = NoClient
  /\ c \notin retained
  /\ registered' = c
  /\ retained' = retained \cup {c}
  /\ UNCHANGED user

Withdraw(c) ==
  /\ registered = c
  /\ registered' = NoClient
  /\ UNCHANGED << retained, user >>

Drop(c) ==
  /\ c \in retained
  /\ registered # c
  /\ \A t \in Threads : user[t] # c
  /\ retained' = retained \ {c}
  /\ UNCHANGED << registered, user >>

Acquire(t) ==
  /\ user[t] = NoClient
  /\ registered # NoClient
  /\ user' = [user EXCEPT ![t] = registered]
  /\ UNCHANGED << registered, retained >>

Yield(t) ==
  /\ user[t] # NoClient
  /\ user' = [user EXCEPT ![t] = NoClient]
  /\ UNCHANGED << registered, retained >>

GateNext ==
  \/ \E c \in Clients : Register(c) \/ Withdraw(c) \/ Drop(c)
  \/ \E t \in Threads : Acquire(t) \/ Yield(t)

GateSpec == GateInit /\ [][GateNext]_gateVars

\* What the gate is for: a client that is registered or in use is retained
\* (getClient, putClient and unregisterUserClient of com_VFSFilter0).
UsedClientIsRetained ==
  /\ registered # NoClient => registered \in retained
  /\ \A t \in Threads : user[t] # NoClient => user[t] \in retained
============================================================================
