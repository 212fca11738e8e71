---------------------- MODULE ClientRegistrationProofs ----------------------
(***************************************************************************)
(* Proofs about ClientRegistration.                                        *)
(***************************************************************************)
EXTENDS ClientRegistration, FiniteSetTheorems, TLAPS

USE DEF At, Goto, Return, StartReturn, shared, object, local

\* The initial states have the types.
LEMMA TypeInit ==
  ASSUME Init
  PROVE  TypeInv
<1>1. userClient \in Clients \cup {NoClient} /\ clientInvocations \in Int
  BY DEF Init
<1>2. pendingUnregistration \in BOOLEAN
  BY Zenon DEF Init
<1>3. refs \in [Clients -> Int]
  BY DEF Init
<1>4. life \in [Clients -> {"none", "starting", "started", "closing"}]
  BY DEF Init
<1>5. pc \in [Threads -> {"idle"} \cup GetPc \cup RegPc \cup UnregPc]
  BY DEF Init
<1>6. client \in [Threads -> Clients \cup {NoClient}]
  BY DEF Init
<1>7. currentClient \in [Threads -> Clients \cup {NoClient}]
  BY DEF Init
<1>8. QED
  BY <1>1, <1>2, <1>3, <1>4, <1>5, <1>6, <1>7 DEF TypeInv

\* Every step keeps the types.
LEMMA TypeStep ==
  ASSUME TypeInv, CallInv, [Next]_vars
  PROVE  TypeInv'
<1> USE ClientsAssumption DEF TypeInv, GetPc, CountedPc, RegPc, UnregPc
<1>1. ASSUME NEW t \in Threads, GetClient(t) \/ GetStep(t)
      PROVE  TypeInv'
  BY <1>1 DEF GetClient, GetStep, GetCheckPending, GetIncrement, GetRead,
              GetCompare, GetCompareNull, GetFail, PutClient
<1>2. ASSUME NEW t \in Threads, RegisterStep(t)
      PROVE  TypeInv'
  BY <1>2 DEF RegisterStep, RegisterCheck, RegisterSwap, RegisterRetain,
              CallInv
<1>3. ASSUME NEW t \in Threads, UnregisterStep(t)
      PROVE  TypeInv'
  <2>1. CASE UnregisterRead(t)
    BY <2>1 DEF UnregisterRead
  <2>2. CASE UnregisterPending(t) \/ UnregisterSwap(t) \/ UnregisterFail(t)
    BY <2>2 DEF UnregisterPending, UnregisterSwap, UnregisterFail
  <2>3. CASE UnregisterWait(t) \/ UnregisterClear(t)
    BY <2>3 DEF UnregisterWait, UnregisterClear
  <2>4. CASE UnregisterRelease(t)
    BY <2>4 DEF UnregisterRelease, CallInv
  <2>5. QED
    BY <1>3, <2>1, <2>2, <2>3, <2>4 DEF UnregisterStep
<1>4. ASSUME NEW t \in Threads, NEW c \in Clients,
             ClientStart(t, c) \/ ClientClose(t, c) \/ CloseMethod(t, c)
      PROVE  TypeInv'
  BY <1>4 DEF ClientStart, ClientClose, CloseMethod
<1>5. ASSUME NEW c \in Clients, ClientTerminate(c)
      PROVE  TypeInv'
  BY <1>5 DEF ClientTerminate
<1>6. CASE UNCHANGED vars
  BY <1>6 DEF vars
<1>7. QED
  BY <1>1, <1>2, <1>3, <1>4, <1>5, <1>6 DEF Next, Step

\* Every step keeps what the functions have in hand (CallInv).
LEMMA CallStep ==
  ASSUME TypeInv, CallInv, [Next]_vars
  PROVE  CallInv'
<1> USE ClientsAssumption
    DEF TypeInv, CallInv, GetPc, CountedPc, RegPc, UnregPc
<1>1. ASSUME NEW t \in Threads, GetClient(t) \/ GetStep(t)
      PROVE  CallInv'
  BY <1>1 DEF GetClient, GetStep, GetCheckPending, GetIncrement, GetRead,
              GetCompare, GetCompareNull, GetFail, PutClient
<1>2. ASSUME NEW t \in Threads, RegisterStep(t)
      PROVE  CallInv'
  BY <1>2 DEF RegisterStep, RegisterCheck, RegisterSwap, RegisterRetain
<1>3. ASSUME NEW t \in Threads, UnregisterStep(t)
      PROVE  CallInv'
  BY <1>3 DEF UnregisterStep, UnregisterRead, UnregisterPending,
              UnregisterSwap, UnregisterFail, UnregisterWait,
              UnregisterRelease, UnregisterClear
<1>4. ASSUME NEW t \in Threads, NEW c \in Clients,
             ClientStart(t, c) \/ ClientClose(t, c) \/ CloseMethod(t, c)
      PROVE  CallInv'
  BY <1>4 DEF ClientStart, ClientClose, CloseMethod
<1>5. ASSUME NEW c \in Clients, ClientTerminate(c)
      PROVE  CallInv'
  BY <1>5 DEF ClientTerminate
<1>6. CASE UNCHANGED vars
  BY <1>6 DEF vars
<1>7. QED
  BY <1>1, <1>2, <1>3, <1>4, <1>5, <1>6 DEF Next, Step

\* RetainInv is kept.
LEMMA RetainStep ==
  ASSUME TypeInv, CallInv, PointerInv, RetainInv, [Next]_vars
  PROVE  RetainInv'
<1> USE ClientsAssumption
    DEF TypeInv, CallInv, PointerInv, RetainInv, GetPc, CountedPc, RegPc, UnregPc
<1>1. ASSUME NEW t \in Threads, GetClient(t) \/ GetStep(t)
      PROVE  RetainInv'
  BY <1>1 DEF GetClient, GetStep, GetCheckPending, GetIncrement, GetRead,
              GetCompare, GetCompareNull, GetFail, PutClient
<1>2. ASSUME NEW t \in Threads, RegisterStep(t)
      PROVE  RetainInv'
  BY <1>2 DEF RegisterStep, RegisterCheck, RegisterSwap, RegisterRetain
<1>3. ASSUME NEW t \in Threads, UnregisterStep(t)
      PROVE  RetainInv'
  BY <1>3 DEF UnregisterStep, UnregisterRead, UnregisterPending,
              UnregisterSwap, UnregisterFail, UnregisterWait,
              UnregisterRelease, UnregisterClear
<1>4. ASSUME NEW t \in Threads, NEW c \in Clients,
             ClientStart(t, c) \/ ClientClose(t, c) \/ CloseMethod(t, c)
      PROVE  RetainInv'
  BY <1>4 DEF ClientStart, ClientClose, CloseMethod
<1>5. ASSUME NEW c \in Clients, ClientTerminate(c)
      PROVE  RetainInv'
  BY <1>5 DEF ClientTerminate
<1>6. CASE UNCHANGED vars
  BY <1>6 DEF vars
<1>7. QED
  BY <1>1, <1>2, <1>3, <1>4, <1>5, <1>6 DEF Next, Step

\* PointerInv is kept.
LEMMA PointerStep ==
  ASSUME TypeInv, CallInv, PointerInv, RetainInv, [Next]_vars
  PROVE  PointerInv'
<1> USE ClientsAssumption
    DEF TypeInv, CallInv, PointerInv, RetainInv, GetPc, CountedPc, RegPc, UnregPc
<1>1. ASSUME NEW t \in Threads, GetClient(t) \/ GetStep(t)
      PROVE  PointerInv'
  BY <1>1 DEF GetClient, GetStep, GetCheckPending, GetIncrement, GetRead,
              GetCompare, GetCompareNull, GetFail, PutClient
<1>2. ASSUME NEW t \in Threads, RegisterStep(t)
      PROVE  PointerInv'
  BY <1>2 DEF RegisterStep, RegisterCheck, RegisterSwap, RegisterRetain
<1>3. ASSUME NEW t \in Threads, UnregisterStep(t)
      PROVE  PointerInv'
  BY <1>3 DEF UnregisterStep, UnregisterRead, UnregisterPending,
              UnregisterSwap, UnregisterFail, UnregisterWait,
              UnregisterRelease, UnregisterClear
<1>4. ASSUME NEW t \in Threads, NEW c \in Clients,
             ClientStart(t, c) \/ ClientClose(t, c) \/ CloseMethod(t, c)
      PROVE  PointerInv'
  BY <1>4 DEF ClientStart, ClientClose, CloseMethod
<1>5. ASSUME NEW c \in Clients, ClientTerminate(c)
      PROVE  PointerInv'
  BY <1>5 DEF ClientTerminate
<1>6. CASE UNCHANGED vars
  BY <1>6 DEF vars
<1>7. QED
  BY <1>1, <1>2, <1>3, <1>4, <1>5, <1>6 DEF Next, Step

\* WithdrawInv is kept.
LEMMA WithdrawStep ==
  ASSUME TypeInv, CallInv, PointerInv, RetainInv, WithdrawInv, [Next]_vars
  PROVE  WithdrawInv'
<1> USE ClientsAssumption
    DEF TypeInv, CallInv, PointerInv, RetainInv, WithdrawInv, WithdrawnPc, GetPc, CountedPc, RegPc, UnregPc
<1>1. ASSUME NEW t \in Threads, GetClient(t) \/ GetStep(t)
      PROVE  WithdrawInv'
  BY <1>1 DEF GetClient, GetStep, GetCheckPending, GetIncrement, GetRead,
              GetCompare, GetCompareNull, GetFail, PutClient
<1>2. ASSUME NEW t \in Threads, RegisterStep(t)
      PROVE  WithdrawInv'
  BY <1>2 DEF RegisterStep, RegisterCheck, RegisterSwap, RegisterRetain
<1>3. ASSUME NEW t \in Threads, UnregisterStep(t)
      PROVE  WithdrawInv'
  BY <1>3 DEF UnregisterStep, UnregisterRead, UnregisterPending,
              UnregisterSwap, UnregisterFail, UnregisterWait,
              UnregisterRelease, UnregisterClear
<1>4. ASSUME NEW t \in Threads, NEW c \in Clients,
             ClientStart(t, c) \/ ClientClose(t, c) \/ CloseMethod(t, c)
      PROVE  WithdrawInv'
  BY <1>4 DEF ClientStart, ClientClose, CloseMethod
<1>5. ASSUME NEW c \in Clients, ClientTerminate(c)
      PROVE  WithdrawInv'
  BY <1>5 DEF ClientTerminate
<1>6. CASE UNCHANGED vars
  BY <1>6 DEF vars
<1>7. QED
  BY <1>1, <1>2, <1>3, <1>4, <1>5, <1>6 DEF Next, Step

\* ReadInv is kept.
LEMMA ReadStep ==
  ASSUME TypeInv, ReadInv, [Next]_vars
  PROVE  ReadInv'
<1> USE ClientsAssumption
    DEF TypeInv, ReadInv, HoldingPc, GetPc, CountedPc, RegPc, UnregPc
<1>1. ASSUME NEW t \in Threads, GetClient(t) \/ GetStep(t)
      PROVE  ReadInv'
  BY <1>1 DEF GetClient, GetStep, GetCheckPending, GetIncrement, GetRead,
              GetCompare, GetCompareNull, GetFail, PutClient
<1>2. ASSUME NEW t \in Threads, RegisterStep(t)
      PROVE  ReadInv'
  BY <1>2 DEF RegisterStep, RegisterCheck, RegisterSwap, RegisterRetain
<1>3. ASSUME NEW t \in Threads, UnregisterStep(t)
      PROVE  ReadInv'
  BY <1>3 DEF UnregisterStep, UnregisterRead, UnregisterPending,
              UnregisterSwap, UnregisterFail, UnregisterWait,
              UnregisterRelease, UnregisterClear
<1>4. ASSUME NEW t \in Threads, NEW c \in Clients,
             ClientStart(t, c) \/ ClientClose(t, c) \/ CloseMethod(t, c)
      PROVE  ReadInv'
  BY <1>4 DEF ClientStart, ClientClose, CloseMethod
<1>5. ASSUME NEW c \in Clients, ClientTerminate(c)
      PROVE  ReadInv'
  BY <1>5 DEF ClientTerminate
<1>6. CASE UNCHANGED vars
  BY <1>6 DEF vars
<1>7. QED
  BY <1>1, <1>2, <1>3, <1>4, <1>5, <1>6 DEF Next, Step


\* There are finitely many counted threads.
LEMMA CountedFinite ==
  /\ IsFiniteSet(Counted)
  /\ Cardinality(Counted) \in Nat
  /\ Cardinality(Counted) = 0 <=> Counted = {}
<1>1. Counted \in SUBSET Threads
  BY DEF Counted
<1>2. IsFiniteSet(Counted)
  BY <1>1, FS_Subset, ThreadsAssumption
<1>3. QED
  BY <1>2, FS_CardinalityType, FS_EmptySet

\* InvocationsCountHooks is kept.
LEMMA CountStep ==
  ASSUME TypeInv, InvocationsCountHooks, [Next]_vars
  PROVE  InvocationsCountHooks'
<1> USE DEF TypeInv, GetPc, CountedPc, RegPc, UnregPc
<1> DEFINE C == Counted
<1>1. ASSUME NEW t \in Threads, GetIncrement(t)
      PROVE  InvocationsCountHooks'
  <2>1. t \notin C /\ Counted' = C \cup {t}
    BY <1>1 DEF GetIncrement, Counted
  <2>2. Cardinality(C \cup {t}) = Cardinality(C) + 1
    BY <2>1, CountedFinite, FS_AddElement
  <2>3. QED
    BY <1>1, <2>1, <2>2 DEF GetIncrement, InvocationsCountHooks
<1>2. ASSUME NEW t \in Threads, GetFail(t) \/ PutClient(t)
      PROVE  InvocationsCountHooks'
  <2>1. t \in C /\ Counted' = C \ {t}
    BY <1>2 DEF GetFail, PutClient, Counted
  <2>2. Cardinality(C \ {t}) = Cardinality(C) - 1
    BY <2>1, CountedFinite, FS_RemoveElement
  <2>3. QED
    BY <1>2, <2>1, <2>2 DEF GetFail, PutClient, InvocationsCountHooks
<1>3. ASSUME Counted' = C, clientInvocations' = clientInvocations
      PROVE  InvocationsCountHooks'
  BY <1>3 DEF InvocationsCountHooks
<1>4. ASSUME NEW t \in Threads,
             \/ GetClient(t) \/ GetCheckPending(t) \/ GetRead(t)
             \/ GetCompare(t) \/ GetCompareNull(t)
      PROVE  InvocationsCountHooks'
  BY <1>3, <1>4 DEF GetClient, GetCheckPending, GetRead, GetCompare,
                    GetCompareNull, Counted
<1>5. ASSUME NEW t \in Threads, RegisterStep(t)
      PROVE  InvocationsCountHooks'
  BY <1>3, <1>5 DEF RegisterStep, RegisterCheck, RegisterSwap, RegisterRetain,
                    Counted
<1>6. ASSUME NEW t \in Threads, UnregisterStep(t)
      PROVE  InvocationsCountHooks'
  BY <1>3, <1>6 DEF UnregisterStep, UnregisterRead, UnregisterPending,
                    UnregisterSwap, UnregisterFail, UnregisterWait,
                    UnregisterRelease, UnregisterClear, Counted
<1>7. ASSUME NEW t \in Threads, NEW c \in Clients,
             ClientStart(t, c) \/ ClientClose(t, c) \/ CloseMethod(t, c)
      PROVE  InvocationsCountHooks'
  BY <1>3, <1>7 DEF ClientStart, ClientClose, CloseMethod, Counted
<1>8. ASSUME NEW c \in Clients, ClientTerminate(c)
      PROVE  InvocationsCountHooks'
  BY <1>3, <1>8 DEF ClientTerminate, Counted
<1>9. CASE UNCHANGED vars
  BY <1>3, <1>9 DEF vars, Counted
<1>10. QED
  BY <1>1, <1>2, <1>4, <1>5, <1>6, <1>7, <1>8, <1>9
     DEF Next, Step, GetStep

\* HoldInv is kept.
LEMMA HoldStep ==
  ASSUME TypeInv, InvocationsCountHooks, CallInv, PointerInv, HoldInv,
         [Next]_vars
  PROVE  HoldInv'
<1> USE ClientsAssumption
    DEF TypeInv, CallInv, HoldInv, HoldingPc, GetPc, CountedPc, RegPc, UnregPc
<1>1. ASSUME NEW t \in Threads, GetClient(t) \/ GetStep(t)
      PROVE  HoldInv'
  BY <1>1 DEF GetClient, GetStep, GetCheckPending, GetIncrement, GetRead,
              GetCompare, GetCompareNull, GetFail, PutClient
<1>2. ASSUME NEW t \in Threads, RegisterStep(t)
      PROVE  HoldInv'
  BY <1>2 DEF RegisterStep, RegisterCheck, RegisterSwap, RegisterRetain
<1>3. ASSUME NEW t \in Threads, UnregisterWait(t)
      PROVE  HoldInv'
  <2>1. Counted = {}
    BY <1>3, CountedFinite DEF UnregisterWait, InvocationsCountHooks
  <2>2. QED
    BY <1>3, <2>1 DEF UnregisterWait, Counted
<1>4. ASSUME NEW t \in Threads, UnregisterSwap(t)
      PROVE  HoldInv'
  BY <1>4 DEF UnregisterSwap
<1>5. ASSUME NEW t \in Threads,
             \/ UnregisterRead(t) \/ UnregisterPending(t) \/ UnregisterFail(t)
             \/ UnregisterRelease(t) \/ UnregisterClear(t)
      PROVE  HoldInv'
  BY <1>5 DEF UnregisterRead, UnregisterPending, UnregisterFail,
              UnregisterRelease, UnregisterClear
<1>6. ASSUME NEW t \in Threads, NEW c \in Clients,
             ClientStart(t, c) \/ ClientClose(t, c) \/ CloseMethod(t, c)
      PROVE  HoldInv'
  BY <1>6 DEF ClientStart, ClientClose, CloseMethod
<1>7. ASSUME NEW c \in Clients, ClientTerminate(c)
      PROVE  HoldInv'
  BY <1>7 DEF ClientTerminate
<1>8. CASE UNCHANGED vars
  BY <1>8 DEF vars
<1>9. QED
  BY <1>1, <1>2, <1>3, <1>4, <1>5, <1>6, <1>7, <1>8
     DEF Next, Step, UnregisterStep


\* A step that changes neither the life of a client nor its registration keeps
\* the equation as it is.
LEMMA RefsFrame ==
  ASSUME RefsInv, UNCHANGED << refs, life >>,
         \A c \in Clients : Registration(c)' <=> Registration(c)
  PROVE  RefsInv'
  BY DEF RefsInv, CreatorRef, RegistrationRef

\* RefsInv is kept.
LEMMA RefsStep ==
  ASSUME TypeInv, CallInv, PointerInv, RetainInv, WithdrawInv, RefsInv,
         [Next]_vars
  PROVE  RefsInv'
<1> USE ClientsAssumption
    DEF TypeInv, CallInv, WithdrawnPc, GetPc, CountedPc, RegPc, UnregPc
<1>1. ASSUME NEW t \in Threads, GetClient(t) \/ GetStep(t)
      PROVE  RefsInv'
  <2>1. \A c \in Clients : Registration(c)' <=> Registration(c)
    BY <1>1 DEF GetClient, GetStep, GetCheckPending, GetIncrement, GetRead,
                GetCompare, GetCompareNull, GetFail, PutClient, Registration,
                Withdrawn
  <2>2. UNCHANGED << refs, life >>
    BY <1>1 DEF GetClient, GetStep, GetCheckPending, GetIncrement, GetRead,
                GetCompare, GetCompareNull, GetFail, PutClient
  <2>3. QED
    BY <2>1, <2>2, RefsFrame
<1>2. ASSUME NEW t \in Threads, RegisterCheck(t) \/ RegisterSwap(t)
      PROVE  RefsInv'
  <2>1. \A c \in Clients : Registration(c)' <=> Registration(c)
    BY <1>2 DEF RegisterCheck, RegisterSwap, Registration, Withdrawn
  <2>2. \A c \in Clients : CreatorRef(c)' = CreatorRef(c)
    BY <1>2 DEF RegisterCheck, RegisterSwap, CreatorRef
  <2>3. refs' = refs
    BY <1>2 DEF RegisterCheck, RegisterSwap
  <2>4. QED
    BY <2>1, <2>2, <2>3 DEF RefsInv, RegistrationRef
<1>3. ASSUME NEW t \in Threads, RegisterRetain(t)
      PROVE  RefsInv'
  <2>1. PICK c \in Clients : c = client[t]
    BY <1>3 DEF RegisterRetain
  <2>2. \A d \in Clients \ {c} : Registration(d)' <=> Registration(d)
    BY <1>3, <2>1 DEF RegisterRetain, Registration, Withdrawn
  <2>3. ~ Registration(c)
    BY <1>3, <2>1 DEF RegisterRetain, Registration, Withdrawn
  <2>4. Registration(c)'
    BY <1>3, <2>1 DEF RegisterRetain, Registration, RetainInv
  <2>5. \A d \in Clients : CreatorRef(d)' = CreatorRef(d)
    BY <1>3 DEF RegisterRetain, CreatorRef
  <2>6. QED
    BY <1>3, <2>1, <2>2, <2>3, <2>4, <2>5
       DEF RegisterRetain, RefsInv, RegistrationRef, CreatorRef
<1>4. ASSUME NEW t \in Threads,
             \/ UnregisterRead(t) \/ UnregisterPending(t) \/ UnregisterSwap(t)
             \/ UnregisterFail(t) \/ UnregisterWait(t) \/ UnregisterClear(t)
      PROVE  RefsInv'
  <2>1. \A c \in Clients : Registration(c)' <=> Registration(c)
    <3>1. CASE UnregisterSwap(t)
      BY <3>1 DEF UnregisterSwap, Registration, Withdrawn
    <3>2. CASE UnregisterWait(t)
      BY <3>2 DEF UnregisterWait, Registration, Withdrawn
    <3>3. CASE \/ UnregisterRead(t) \/ UnregisterPending(t)
               \/ UnregisterFail(t) \/ UnregisterClear(t)
      BY <3>3 DEF UnregisterRead, UnregisterPending, UnregisterFail,
                  UnregisterClear, Registration, Withdrawn
    <3>4. QED
      BY <1>4, <3>1, <3>2, <3>3
  <2>2. UNCHANGED << refs, life >>
    BY <1>4 DEF UnregisterRead, UnregisterPending, UnregisterSwap,
                UnregisterFail, UnregisterWait, UnregisterClear
  <2>3. QED
    BY <2>1, <2>2, RefsFrame
<1>5. ASSUME NEW t \in Threads, UnregisterRelease(t)
      PROVE  RefsInv'
  <2>1. \A c \in Clients \ {currentClient[t]} :
           Registration(c)' <=> Registration(c)
    BY <1>5 DEF UnregisterRelease, Registration, Withdrawn
  <2>2. Registration(currentClient[t]) /\ ~ Registration(currentClient[t])'
    BY <1>5 DEF UnregisterRelease, Registration, Withdrawn, WithdrawInv
  <2>3. \A c \in Clients : CreatorRef(c)' = CreatorRef(c)
    BY <1>5 DEF UnregisterRelease, CreatorRef
  <2>4. QED
    BY <1>5, <2>1, <2>2, <2>3
       DEF UnregisterRelease, RefsInv, RegistrationRef, CreatorRef
<1>6. ASSUME NEW t \in Threads, NEW c \in Clients, ClientStart(t, c)
      PROVE  RefsInv'
  <2>1. \A d \in Clients : Registration(d)' <=> Registration(d)
    BY <1>6 DEF ClientStart, Registration, Withdrawn
  <2>2. ~ Registration(c)
    BY <1>6 DEF ClientStart, Registration, Withdrawn, PointerInv
  <2>3. QED
    BY <1>6, <2>1, <2>2 DEF ClientStart, RefsInv, RegistrationRef, CreatorRef
<1>7. ASSUME NEW t \in Threads, NEW c \in Clients,
             ClientClose(t, c) \/ CloseMethod(t, c)
      PROVE  RefsInv'
  <2>1. \A d \in Clients : Registration(d)' <=> Registration(d)
    BY <1>7 DEF ClientClose, CloseMethod, Registration, Withdrawn
  <2>2. \A d \in Clients : CreatorRef(d)' = CreatorRef(d)
    BY <1>7 DEF ClientClose, CloseMethod, CreatorRef
  <2>3. refs' = refs
    BY <1>7 DEF ClientClose, CloseMethod
  <2>4. QED
    BY <2>1, <2>2, <2>3 DEF RefsInv, RegistrationRef
<1>8. ASSUME NEW c \in Clients, ClientTerminate(c)
      PROVE  RefsInv'
  <2>1. \A d \in Clients : Registration(d)' <=> Registration(d)
    BY <1>8 DEF ClientTerminate, Registration, Withdrawn
  <2>2. QED
    BY <1>8, <2>1 DEF ClientTerminate, RefsInv, RegistrationRef, CreatorRef
<1>9. CASE UNCHANGED vars
  <2>1. \A c \in Clients : Registration(c)' <=> Registration(c)
    BY <1>9 DEF vars, Registration, Withdrawn
  <2>2. QED
    BY <1>9, <2>1, RefsFrame DEF vars
<1>10. QED
  BY <1>1, <1>2, <1>3, <1>4, <1>5, <1>6, <1>7, <1>8, <1>9
     DEF Next, Step, RegisterStep, UnregisterStep


----------------------------------------------------------------------------
(* The theorems.                                                           *)

\* The initial states satisfy the invariant.
LEMMA InitInv ==
  ASSUME Init
  PROVE  IInv
<1>1. Counted = {}
  BY DEF Init, Counted, CountedPc
<1>2. InvocationsCountHooks
  BY <1>1, FS_EmptySet DEF Init, InvocationsCountHooks
<1>3. CallInv /\ PointerInv /\ RetainInv /\ WithdrawInv /\ HoldInv /\ ReadInv
  BY DEF Init, CallInv, PointerInv, RetainInv, WithdrawInv, HoldInv, ReadInv,
         GetPc, CountedPc, RegPc, UnregPc, WithdrawnPc, HoldingPc
<1>4. RefsInv
  BY ClientsAssumption
     DEF Init, RefsInv, CreatorRef, RegistrationRef, Registration, Withdrawn,
         WithdrawnPc
<1>5. QED
  BY TypeInit, <1>2, <1>3, <1>4 DEF IInv

\* IInv is an invariant of the registration protocol, whatever the numbers of
\* threads and of clients.
THEOREM Inductive == Spec => []IInv
<1>1. Init => IInv
  BY InitInv
<1>2. IInv /\ [Next]_vars => IInv'
  BY TypeStep, CountStep, CallStep, PointerStep, RetainStep, WithdrawStep,
     HoldStep, ReadStep, RefsStep DEF IInv
<1>3. QED
  BY <1>1, <1>2, PTL DEF Spec

\* The types of the variables; the two counters never go below zero.
THEOREM TypeCorrect == Spec => []TypeOK
<1>1. IInv => TypeOK
  <2> SUFFICES ASSUME IInv
               PROVE  TypeOK
    OBVIOUS
  <2>1. TypeInv
    BY DEF IInv
  <2>2. clientInvocations \in Nat
    BY CountedFinite DEF IInv, InvocationsCountHooks
  <2>3. \A c \in Clients : refs[c] \in Nat
    BY DEF IInv, RefsInv, CreatorRef, RegistrationRef
  <2>4. refs \in [Clients -> Nat]
    BY <2>1, <2>3 DEF TypeInv
  <2>5. QED
    BY <2>1, <2>2, <2>4 DEF TypeInv, TypeOK
<1>2. QED
  BY <1>1, Inductive, PTL

\* A hook never uses a client on which registration has dropped its reference
\* (getClient against unregisterUserClient).
THEOREM UseIsSafe == Spec => []ClientInUseIsRetained
<1>1. IInv => ClientInUseIsRetained
  <2> SUFFICES ASSUME IInv, NEW t \in Threads, At(t, "using"),
                      ~ \E u \in Threads :
                          At(u, "regRetain") /\ client[u] = currentClient[t]
               PROVE  refs[currentClient[t]] > 1
    BY DEF ClientInUseIsRetained
  <2>1. PICK c \in Clients : c = currentClient[t]
    BY DEF IInv, TypeInv, ReadInv, HoldingPc
  <2>2. Registration(c)
    BY <2>1, ClientsAssumption
       DEF IInv, HoldInv, HoldingPc, Registration, Withdrawn, WithdrawnPc
  <2>3. life[c] # "none"
    BY <2>1, <2>2, ClientsAssumption
       DEF IInv, PointerInv, CallInv, Registration, Withdrawn, WithdrawnPc,
           UnregPc
  <2>4. QED
    BY <2>1, <2>2, <2>3 DEF IInv, RefsInv, CreatorRef, RegistrationRef
<1>2. QED
  BY <1>1, Inductive, PTL

\* registerUserClient's pointer never outlives the client.
THEOREM PointerIsSafe == Spec => []RegisteredClientExists
<1>1. IInv => RegisteredClientExists
  BY DEF IInv, PointerInv, RegisteredClientExists
<1>2. QED
  BY <1>1, Inductive, PTL

\* Every reference that registration takes on a client is dropped.
THEOREM NoLeak == Spec => []TerminatedClientIsFreed
<1>1. IInv => TerminatedClientIsFreed
  <2> SUFFICES ASSUME IInv, NEW c \in Clients, life[c] = "none"
               PROVE  refs[c] = 0
    BY DEF TerminatedClientIsFreed
  <2>1. ~ Registration(c)
    BY ClientsAssumption
       DEF IInv, PointerInv, CallInv, Registration, Withdrawn, WithdrawnPc,
           UnregPc
  <2>2. QED
    BY <2>1 DEF IInv, RefsInv, CreatorRef, RegistrationRef
<1>2. QED
  BY <1>1, Inductive, PTL

\* clientInvocations is exactly the number of the hooks that are counted.
THEOREM CounterIsExact == Spec => []InvocationsCountHooks
<1>1. IInv => InvocationsCountHooks
  BY DEF IInv
<1>2. QED
  BY <1>1, Inductive, PTL


----------------------------------------------------------------------------
(* The registration protocol implements the gate.                          *)

\* A step that leaves the pointer, the withdrawn clients and the held clients
\* as they are is a stuttering step of the gate.
LEMMA GateStutter ==
  ASSUME userClient' = userClient, clientUser' = clientUser,
         \A c \in Clients : Withdrawn(c)' <=> Withdrawn(c)
  PROVE  UNCHANGED Gate!gateVars
  BY DEF Gate!gateVars, retainedClients

\* Every step is one of the gate, or leaves the gate alone.
LEMMA GateStep ==
  ASSUME IInv, [Next]_vars
  PROVE  [Gate!GateNext]_(Gate!gateVars)
<1> USE ClientsAssumption
    DEF IInv, TypeInv, GetPc, CountedPc, RegPc, UnregPc, HoldingPc, WithdrawnPc
<1>1. ASSUME NEW t \in Threads, GetRead(t), userClient # NoClient
      PROVE  Gate!Acquire(t)
  <2>1. retainedClients' = retainedClients /\ userClient' = userClient
    BY <1>1 DEF GetRead, retainedClients, Withdrawn
  <2>2. clientUser[t] = NoClient
    BY <1>1 DEF GetRead, clientUser
  <2>3. clientUser' = [clientUser EXCEPT ![t] = userClient]
    BY <1>1 DEF GetRead, clientUser
  <2>4. QED
    BY <1>1, <2>1, <2>2, <2>3 DEF Gate!Acquire
<1>2. ASSUME NEW t \in Threads, GetFail(t) \/ PutClient(t),
             currentClient[t] # NoClient
      PROVE  Gate!Yield(t)
  <2>1. retainedClients' = retainedClients /\ userClient' = userClient
    BY <1>2 DEF GetFail, PutClient, retainedClients, Withdrawn
  <2>2. clientUser[t] # NoClient
    BY <1>2 DEF GetFail, PutClient, clientUser
  <2>3. clientUser' = [clientUser EXCEPT ![t] = NoClient]
    BY <1>2 DEF GetFail, PutClient, clientUser
  <2>4. QED
    BY <2>1, <2>2, <2>3 DEF Gate!Yield
<1>3. ASSUME NEW t \in Threads,
             \/ GetClient(t) \/ GetCheckPending(t) \/ GetIncrement(t)
             \/ GetRead(t) /\ userClient = NoClient
             \/ GetCompare(t) \/ GetCompareNull(t)
             \/ (GetFail(t) \/ PutClient(t)) /\ currentClient[t] = NoClient
      PROVE  UNCHANGED Gate!gateVars
  <2>1. \A c \in Clients : Withdrawn(c)' <=> Withdrawn(c)
    BY <1>3 DEF GetClient, GetCheckPending, GetIncrement, GetRead, GetCompare,
                GetCompareNull, GetFail, PutClient, Withdrawn
  <2>2. clientUser' = clientUser
    BY <1>3 DEF GetClient, GetCheckPending, GetIncrement, GetRead, GetCompare,
                GetCompareNull, GetFail, PutClient, clientUser
  <2>3. userClient' = userClient
    BY <1>3 DEF GetClient, GetCheckPending, GetIncrement, GetRead, GetCompare,
                GetCompareNull, GetFail, PutClient
  <2>4. QED
    BY <2>1, <2>2, <2>3, GateStutter
<1>4. ASSUME NEW t \in Threads, RegisterSwap(t), userClient = NoClient
      PROVE  Gate!Register(client[t]) /\ client[t] \in Clients
  <2>1. PICK c \in Clients : c = client[t]
    BY <1>4 DEF RegisterSwap, CallInv
  <2>2. c \notin retainedClients
    BY <1>4, <2>1 DEF RegisterSwap, CallInv, retainedClients, Withdrawn
  <2>3. retainedClients' = retainedClients \cup {c}
    BY <1>4, <2>1 DEF RegisterSwap, retainedClients, Withdrawn
  <2>4. clientUser' = clientUser
    BY <1>4 DEF RegisterSwap, clientUser
  <2>5. QED
    BY <1>4, <2>1, <2>2, <2>3, <2>4 DEF RegisterSwap, Gate!Register
<1>5. ASSUME NEW t \in Threads,
             \/ RegisterCheck(t) \/ RegisterRetain(t)
             \/ RegisterSwap(t) /\ userClient # NoClient
      PROVE  UNCHANGED Gate!gateVars
  <2>1. \A c \in Clients : Withdrawn(c)' <=> Withdrawn(c)
    BY <1>5 DEF RegisterCheck, RegisterRetain, RegisterSwap, Withdrawn
  <2>2. clientUser' = clientUser
    BY <1>5 DEF RegisterCheck, RegisterRetain, RegisterSwap, clientUser
  <2>3. userClient' = userClient
    BY <1>5 DEF RegisterCheck, RegisterRetain, RegisterSwap
  <2>4. QED
    BY <2>1, <2>2, <2>3, GateStutter
<1>6. ASSUME NEW t \in Threads, UnregisterSwap(t),
             userClient = currentClient[t]
      PROVE  Gate!Withdraw(currentClient[t]) /\ currentClient[t] \in Clients
  <2>1. PICK c \in Clients : c = currentClient[t]
    BY <1>6 DEF UnregisterSwap, CallInv
  <2>2. retainedClients' = retainedClients
    BY <1>6, <2>1 DEF UnregisterSwap, retainedClients, Withdrawn
  <2>3. clientUser' = clientUser
    BY <1>6 DEF UnregisterSwap, clientUser
  <2>4. QED
    BY <1>6, <2>1, <2>2, <2>3 DEF UnregisterSwap, Gate!Withdraw
<1>7. ASSUME NEW t \in Threads, UnregisterRelease(t)
      PROVE  Gate!Drop(currentClient[t]) /\ currentClient[t] \in Clients
  <2>1. PICK c \in Clients : c = currentClient[t]
    BY <1>7 DEF UnregisterRelease, CallInv
  <2>2. c \in retainedClients /\ userClient # c
    BY <1>7, <2>1 DEF UnregisterRelease, WithdrawInv, retainedClients, Withdrawn
  <2>3. \A u \in Threads : clientUser[u] # c
    BY <1>7, <2>1 DEF UnregisterRelease, WithdrawInv, HoldInv, clientUser
  <2>4. retainedClients' = retainedClients \ {c}
    BY <1>7, <2>1 DEF UnregisterRelease, WithdrawInv, retainedClients, Withdrawn
  <2>5. clientUser' = clientUser /\ userClient' = userClient
    BY <1>7 DEF UnregisterRelease, clientUser
  <2>6. QED
    BY <2>1, <2>2, <2>3, <2>4, <2>5 DEF Gate!Drop
<1>8. ASSUME NEW t \in Threads,
             \/ UnregisterRead(t) \/ UnregisterPending(t) \/ UnregisterFail(t)
             \/ UnregisterWait(t) \/ UnregisterClear(t)
             \/ UnregisterSwap(t) /\ userClient # currentClient[t]
      PROVE  UNCHANGED Gate!gateVars
  <2>1. \A c \in Clients : Withdrawn(c)' <=> Withdrawn(c)
    BY <1>8 DEF UnregisterRead, UnregisterPending, UnregisterFail,
                UnregisterWait, UnregisterClear, UnregisterSwap, Withdrawn
  <2>2. clientUser' = clientUser
    BY <1>8 DEF UnregisterRead, UnregisterPending, UnregisterFail,
                UnregisterWait, UnregisterClear, UnregisterSwap, clientUser
  <2>3. userClient' = userClient
    BY <1>8 DEF UnregisterRead, UnregisterPending, UnregisterFail,
                UnregisterWait, UnregisterClear, UnregisterSwap
  <2>4. QED
    BY <2>1, <2>2, <2>3, GateStutter
<1>9. ASSUME NEW t \in Threads, NEW c \in Clients,
             ClientStart(t, c) \/ ClientClose(t, c) \/ CloseMethod(t, c)
      PROVE  UNCHANGED Gate!gateVars
  <2>1. \A d \in Clients : Withdrawn(d)' <=> Withdrawn(d)
    BY <1>9 DEF ClientStart, ClientClose, CloseMethod, Withdrawn
  <2>2. clientUser' = clientUser /\ userClient' = userClient
    BY <1>9 DEF ClientStart, ClientClose, CloseMethod, clientUser
  <2>3. QED
    BY <2>1, <2>2, GateStutter
<1>10. ASSUME NEW c \in Clients, ClientTerminate(c)
       PROVE  UNCHANGED Gate!gateVars
  BY <1>10, GateStutter DEF ClientTerminate, Withdrawn, clientUser
<1>11. CASE UNCHANGED vars
  BY <1>11, GateStutter DEF vars, Withdrawn, clientUser
<1>12. QED
  BY <1>1, <1>2, <1>3, <1>4, <1>5, <1>6, <1>7, <1>8, <1>9, <1>10, <1>11
     DEF Next, Step, GetStep, RegisterStep, UnregisterStep, Gate!GateNext

\* Every behaviour of the registration protocol is one that ClientGate allows:
\* one registered client at a time, a hook that has it keeps it, and the
\* reference of registration is dropped when nobody has it any more.
THEOREM ImplementsGate == Spec => GateSpec
<1>1. Init => Gate!GateInit
  BY ClientsAssumption
     DEF Init, Gate!GateInit, retainedClients, clientUser, Withdrawn,
         WithdrawnPc, HoldingPc
<1>2. IInv /\ [Next]_vars => [Gate!GateNext]_(Gate!gateVars)
  BY GateStep
<1>3. QED
  BY <1>1, <1>2, Inductive, PTL DEF Spec, GateSpec, Gate!GateSpec

\* What the gate promises follows from its specification alone: a client that
\* is registered or in use is retained (registerUserClient, getClient and
\* unregisterUserClient of com_VFSFilter0).
THEOREM GateProtects == GateSpec => []Gate!UsedClientIsRetained
<1> USE DEF Gate!UsedClientIsRetained
<1>1. Gate!GateInit => Gate!UsedClientIsRetained
  BY DEF Gate!GateInit
<1>2. ASSUME Gate!UsedClientIsRetained, [Gate!GateNext]_(Gate!gateVars)
      PROVE  Gate!UsedClientIsRetained'
  <2>1. CASE \E c \in Clients : Gate!Register(c)
    BY <1>2, <2>1 DEF Gate!Register
  <2>2. CASE \E c \in Clients : Gate!Withdraw(c)
    BY <1>2, <2>2 DEF Gate!Withdraw
  <2>3. CASE \E c \in Clients : Gate!Drop(c)
    BY <1>2, <2>3 DEF Gate!Drop
  <2>4. CASE \E t \in Threads : Gate!Acquire(t)
    BY <1>2, <2>4 DEF Gate!Acquire
  <2>5. CASE \E t \in Threads : Gate!Yield(t)
    BY <1>2, <2>5 DEF Gate!Yield
  <2>6. CASE UNCHANGED Gate!gateVars
    BY <1>2, <2>6 DEF Gate!gateVars
  <2>7. QED
    BY <1>2, <2>1, <2>2, <2>3, <2>4, <2>5, <2>6 DEF Gate!GateNext
<1>3. QED
  BY <1>1, <1>2, PTL DEF GateSpec, Gate!GateSpec
============================================================================
