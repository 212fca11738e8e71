------------------------- MODULE PreOperationProofs -------------------------
(***************************************************************************)
(* Proofs about PreOperation and ClientSession.                            *)
(***************************************************************************)
EXTENDS ClientSession, TLAPS

\* The daemon has yet to answer t, and t is where the answer finds it.
Asked(t) == pc[t] \in {"wait", "asleep"} /\ id[t] \in waiting

NameInv ==
  \A t, u \in Threads : id[t] = id[u] /\ id[t] # NoId => t = u

CallInv ==
  \A t \in Threads :
    /\ pc[t] = "idle" <=> id[t] = NoId
    /\ pc[t] = "insert" => op[t] = "Filter"
    /\ pc[t] \in {"idle", "insert"} => ~inserted[t]
    /\ inserted[t] => op[t] = "Filter"
    /\ pc[t] \in {"insert", "enter", "send"} => ~wasEnqueued[t] /\ ~controlled[t]
    /\ pc[t] \in {"wait", "asleep"} => wasEnqueued[t]
    /\ pc[t] \in {"send", "asleep"} => id[t] \in waiting
    /\ pc[t] \in {"enter", "remove"} => id[t] \notin waiting

\* What is published is the inData of the call that published it.
MapInv ==
  \A k \in Ids, t \in Threads :
    gPreOperationDataMap[k] = t <=> inserted[t] /\ id[t] = k

WaitingInv ==
  \A k \in waiting : \E t \in Threads : id[t] = k /\ pc[t] \in {"send", "wait", "asleep"}

\* A message in the queue is the request of a thread that is still asking.
QueueInv ==
  /\ \A i \in 1..Len(queue) : queue[i] # Audit =>
       \E t \in Threads : id[t] = queue[i].id /\ op[t] = queue[i].op /\ Asked(t)
  /\ \A i, j \in 1..Len(queue) :
       queue[i].id = queue[j].id /\ queue[i] # Audit => i = j

DaemonInv ==
  /\ dpc # "dequeue" =>
       /\ message # Audit
       /\ \E t \in Threads : id[t] = message.id /\ op[t] = message.op /\ Asked(t)
       /\ \A i \in 1..Len(queue) : queue[i].id # message.id
  /\ dpc \in {"find", "write", "signal"} => message.id \in acted
  /\ dpc = "write" =>
       inData \in Threads /\ inserted[inData] /\ id[inData] = message.id

AnswerInv ==
  \A t \in Threads :
    /\ Asked(t) =>
         IF dpc = "signal" /\ message.id = id[t] THEN controlled[t] <=> inserted[t]
                                                 ELSE ~controlled[t]
    /\ pc[t] = "wait" /\ id[t] \notin waiting =>
         id[t] \in acted /\ (controlled[t] <=> inserted[t])
    /\ pc[t] = "remove" =>
         /\ wasEnqueued[t] => id[t] \in acted
         /\ controlled[t] <=> wasEnqueued[t] /\ inserted[t]

SessionInv ==
  /\ \A t \in Threads : pc[t] # "idle" => t \in users
  /\ client = "none" => users = {} /\ queue = << >>

IInv == /\ SessionTypeOK /\ NameInv /\ CallInv /\ MapInv /\ WaitingInv
        /\ QueueInv /\ DaemonInv /\ AnswerInv /\ SessionInv

----------------------------------------------------------------------------
USE DEF Goto, Enqueue, maps, frame, daemon, vars, session, sessionVars, hooks

\* The initial states satisfy the invariant.
LEMMA InitIInv ==
  ASSUME SessionInit
  PROVE  IInv
<1> USE NoneAssumption, QueueAssumption DEF SessionInit, Init
<1>1. SessionTypeOK
  BY DEF SessionTypeOK, TypeOK, Messages, Opcodes, Audit
<1>2. NameInv /\ CallInv /\ MapInv /\ WaitingInv
  BY DEF NameInv, CallInv, MapInv, WaitingInv
<1>3. QueueInv /\ DaemonInv /\ AnswerInv /\ SessionInv
  BY DEF QueueInv, DaemonInv, AnswerInv, SessionInv, Asked
<1>4. QED
  BY <1>1, <1>2, <1>3 DEF IInv

\* Every step keeps the types.
LEMMA TypeStep ==
  ASSUME IInv, Next \/ Start \/ HandlerEnds \/ Withdraw \/ Drop \/ UNCHANGED vars
  PROVE  TypeOK'
<1> USE NoneAssumption, QueueAssumption
    DEF IInv, SessionTypeOK, TypeOK, Messages, Opcodes, Audit, CallInv,
        DaemonInv
<1>1. ASSUME NEW t \in Threads, InsertInData(t)
      PROVE  TypeOK'
  <2>1. id[t] \in Ids
    BY <1>1 DEF InsertInData
  <2>2. gPreOperationDataMap' \in [Ids -> Threads \cup {NoThread}]
    BY <1>1, <2>1 DEF InsertInData
  <2>3. inserted' \in [Threads -> BOOLEAN] /\ controlled' \in [Threads -> BOOLEAN]
    BY <1>1, ZenonT(60) DEF InsertInData
  <2>4. QED
    BY <1>1, <2>2, <2>3 DEF InsertInData
<1>2. ASSUME NEW t \in Threads, Enter(t)
      PROVE  TypeOK'
  BY <1>2 DEF Enter
<1>3. ASSUME NEW t \in Threads, SendVFSDataToClient(t)
      PROVE  TypeOK'
  BY <1>3 DEF SendVFSDataToClient
<1>4. ASSUME NEW t \in Threads, Wait(t)
      PROVE  TypeOK'
  BY <1>4 DEF Wait
<1>5. ASSUME NEW t \in Threads, RemoveInData(t)
      PROVE  TypeOK'
  BY <1>5 DEF RemoveInData
<1>6. ASSUME NEW t \in Threads, NEW k \in Ids, NEW o \in Opcodes, Call(t, k, o)
      PROVE  TypeOK'
  BY <1>6 DEF Call
<1>7. CASE SendAudit
  BY <1>7 DEF SendAudit
<1>8. CASE Dequeue
  BY <1>8 DEF Dequeue
<1>9. CASE Serve
  BY <1>9 DEF Serve
<1>10. CASE ReplyFind
  BY <1>10 DEF ReplyFind
<1>11. CASE ReplyWrite
  BY <1>11 DEF ReplyWrite
<1>12. CASE ReplySignal
  BY <1>12 DEF ReplySignal
<1>13. CASE Start
  BY <1>13 DEF Start
<1>14. CASE HandlerEnds
  BY <1>14 DEF HandlerEnds
<1>15. CASE Withdraw \/ Drop
  <2>1. CASE Withdraw
    BY <2>1 DEF Withdraw
  <2>2. CASE Drop
    BY <2>2 DEF Drop, DropIf
  <2>3. QED
    BY <1>15, <2>1, <2>2
<1>16. CASE UNCHANGED vars
  BY <1>16
<1>17. QED
  BY <1>1, <1>2, <1>3, <1>4, <1>5, <1>6, <1>7, <1>8, <1>9, <1>10, <1>11, <1>12,
     <1>13, <1>14, <1>15, <1>16 DEF Next, Step, Daemon

\* NameInv is kept.
LEMMA NameStep ==
  ASSUME IInv, Next \/ Start \/ HandlerEnds \/ Withdraw \/ Drop \/ UNCHANGED vars
  PROVE  NameInv'
<1> USE NoneAssumption, QueueAssumption
    DEF IInv, SessionTypeOK, TypeOK, Messages, Opcodes, Audit, NameInv, CallInv
<1>1. ASSUME NEW t \in Threads, InsertInData(t)
      PROVE  NameInv'
  BY <1>1 DEF InsertInData
<1>2. ASSUME NEW t \in Threads, Enter(t)
      PROVE  NameInv'
  BY <1>2 DEF Enter
<1>3. ASSUME NEW t \in Threads, SendVFSDataToClient(t)
      PROVE  NameInv'
  BY <1>3 DEF SendVFSDataToClient
<1>4. ASSUME NEW t \in Threads, Wait(t)
      PROVE  NameInv'
  BY <1>4 DEF Wait
<1>5. ASSUME NEW t \in Threads, RemoveInData(t)
      PROVE  NameInv'
  BY <1>5 DEF RemoveInData
<1>6. ASSUME NEW t \in Threads, NEW k \in Ids, NEW o \in Opcodes, Call(t, k, o)
      PROVE  NameInv'
  BY <1>6 DEF Call
<1>7. CASE SendAudit
  BY <1>7 DEF SendAudit
<1>8. CASE Dequeue
  BY <1>8 DEF Dequeue
<1>9. CASE Serve
  BY <1>9 DEF Serve
<1>10. CASE ReplyFind
  BY <1>10 DEF ReplyFind
<1>11. CASE ReplyWrite
  BY <1>11 DEF ReplyWrite
<1>12. CASE ReplySignal
  BY <1>12 DEF ReplySignal
<1>13. CASE Start
  BY <1>13 DEF Start
<1>14. CASE HandlerEnds
  BY <1>14 DEF HandlerEnds
<1>15. CASE Withdraw \/ Drop
  BY <1>15 DEF Withdraw, Drop, DropIf
<1>16. CASE UNCHANGED vars
  BY <1>16
<1>17. QED
  BY <1>1, <1>2, <1>3, <1>4, <1>5, <1>6, <1>7, <1>8, <1>9, <1>10, <1>11, <1>12,
     <1>13, <1>14, <1>15, <1>16 DEF Next, Step, Daemon

\* Every step keeps what the functions have in hand (CallInv).
LEMMA CallStep ==
  ASSUME IInv, Next \/ Start \/ HandlerEnds \/ Withdraw \/ Drop \/ UNCHANGED vars
  PROVE  CallInv'
<1> USE NoneAssumption, QueueAssumption
    DEF IInv, SessionTypeOK, TypeOK, Messages, Opcodes, Audit, NameInv, CallInv,
        WaitingInv, DaemonInv, Asked
<1>1. ASSUME NEW t \in Threads, InsertInData(t)
      PROVE  CallInv'
  BY <1>1 DEF InsertInData
<1>2. ASSUME NEW t \in Threads, Enter(t)
      PROVE  CallInv'
  BY <1>2 DEF Enter
<1>3. ASSUME NEW t \in Threads, SendVFSDataToClient(t)
      PROVE  CallInv'
  BY <1>3 DEF SendVFSDataToClient
<1>4. ASSUME NEW t \in Threads, Wait(t)
      PROVE  CallInv'
  BY <1>4 DEF Wait
<1>5. ASSUME NEW t \in Threads, RemoveInData(t)
      PROVE  CallInv'
  BY <1>5 DEF RemoveInData
<1>6. ASSUME NEW t \in Threads, NEW k \in Ids, NEW o \in Opcodes, Call(t, k, o)
      PROVE  CallInv'
  BY <1>6 DEF Call
<1>7. CASE SendAudit
  BY <1>7 DEF SendAudit
<1>8. CASE Dequeue
  BY <1>8 DEF Dequeue
<1>9. CASE Serve
  BY <1>9 DEF Serve
<1>10. CASE ReplyFind
  BY <1>10 DEF ReplyFind
<1>11. CASE ReplyWrite
  BY <1>11 DEF ReplyWrite
<1>12. CASE ReplySignal
  BY <1>12 DEF ReplySignal
<1>13. CASE Start
  BY <1>13 DEF Start
<1>14. CASE HandlerEnds
  BY <1>14 DEF HandlerEnds
<1>15. CASE Withdraw \/ Drop
  BY <1>15 DEF Withdraw, Drop, DropIf
<1>16. CASE UNCHANGED vars
  BY <1>16
<1>17. QED
  BY <1>1, <1>2, <1>3, <1>4, <1>5, <1>6, <1>7, <1>8, <1>9, <1>10, <1>11, <1>12,
     <1>13, <1>14, <1>15, <1>16 DEF Next, Step, Daemon

\* MapInv is kept.
LEMMA MapStep ==
  ASSUME IInv, Next \/ Start \/ HandlerEnds \/ Withdraw \/ Drop \/ UNCHANGED vars
  PROVE  MapInv'
<1> USE NoneAssumption, QueueAssumption
    DEF IInv, SessionTypeOK, TypeOK, Messages, Opcodes, Audit, NameInv, CallInv,
        MapInv
<1>1. ASSUME NEW t \in Threads, InsertInData(t)
      PROVE  MapInv'
  BY <1>1 DEF InsertInData
<1>2. ASSUME NEW t \in Threads, Enter(t)
      PROVE  MapInv'
  BY <1>2 DEF Enter
<1>3. ASSUME NEW t \in Threads, SendVFSDataToClient(t)
      PROVE  MapInv'
  BY <1>3 DEF SendVFSDataToClient
<1>4. ASSUME NEW t \in Threads, Wait(t)
      PROVE  MapInv'
  BY <1>4 DEF Wait
<1>5. ASSUME NEW t \in Threads, RemoveInData(t)
      PROVE  MapInv'
  BY <1>5 DEF RemoveInData
<1>6. ASSUME NEW t \in Threads, NEW k \in Ids, NEW o \in Opcodes, Call(t, k, o)
      PROVE  MapInv'
  BY <1>6 DEF Call
<1>7. CASE SendAudit
  BY <1>7 DEF SendAudit
<1>8. CASE Dequeue
  BY <1>8 DEF Dequeue
<1>9. CASE Serve
  BY <1>9 DEF Serve
<1>10. CASE ReplyFind
  BY <1>10 DEF ReplyFind
<1>11. CASE ReplyWrite
  BY <1>11 DEF ReplyWrite
<1>12. CASE ReplySignal
  BY <1>12 DEF ReplySignal
<1>13. CASE Start
  BY <1>13 DEF Start
<1>14. CASE HandlerEnds
  BY <1>14 DEF HandlerEnds
<1>15. CASE Withdraw \/ Drop
  BY <1>15 DEF Withdraw, Drop, DropIf
<1>16. CASE UNCHANGED vars
  BY <1>16
<1>17. QED
  BY <1>1, <1>2, <1>3, <1>4, <1>5, <1>6, <1>7, <1>8, <1>9, <1>10, <1>11, <1>12,
     <1>13, <1>14, <1>15, <1>16 DEF Next, Step, Daemon

\* WaitingInv is kept.
LEMMA WaitingStep ==
  ASSUME IInv, Next \/ Start \/ HandlerEnds \/ Withdraw \/ Drop \/ UNCHANGED vars
  PROVE  WaitingInv'
<1> USE NoneAssumption, QueueAssumption
    DEF IInv, SessionTypeOK, TypeOK, Messages, Opcodes, Audit, NameInv, CallInv,
        WaitingInv
<1>1. ASSUME NEW t \in Threads, InsertInData(t)
      PROVE  WaitingInv'
  BY <1>1 DEF InsertInData
<1>2. ASSUME NEW t \in Threads, Enter(t)
      PROVE  WaitingInv'
  BY <1>2 DEF Enter
<1>3. ASSUME NEW t \in Threads, SendVFSDataToClient(t)
      PROVE  WaitingInv'
  BY <1>3 DEF SendVFSDataToClient
<1>4. ASSUME NEW t \in Threads, Wait(t)
      PROVE  WaitingInv'
  BY <1>4 DEF Wait
<1>5. ASSUME NEW t \in Threads, RemoveInData(t)
      PROVE  WaitingInv'
  BY <1>5 DEF RemoveInData
<1>6. ASSUME NEW t \in Threads, NEW k \in Ids, NEW o \in Opcodes, Call(t, k, o)
      PROVE  WaitingInv'
  BY <1>6 DEF Call
<1>7. CASE SendAudit
  BY <1>7 DEF SendAudit
<1>8. CASE Dequeue
  BY <1>8 DEF Dequeue
<1>9. CASE Serve
  BY <1>9 DEF Serve
<1>10. CASE ReplyFind
  BY <1>10 DEF ReplyFind
<1>11. CASE ReplyWrite
  BY <1>11 DEF ReplyWrite
<1>12. CASE ReplySignal
  BY <1>12 DEF ReplySignal
<1>13. CASE Start
  BY <1>13 DEF Start
<1>14. CASE HandlerEnds
  BY <1>14 DEF HandlerEnds
<1>15. CASE Withdraw \/ Drop
  BY <1>15 DEF Withdraw, Drop, DropIf
<1>16. CASE UNCHANGED vars
  BY <1>16
<1>17. QED
  BY <1>1, <1>2, <1>3, <1>4, <1>5, <1>6, <1>7, <1>8, <1>9, <1>10, <1>11, <1>12,
     <1>13, <1>14, <1>15, <1>16 DEF Next, Step, Daemon

\* QueueInv is kept.
LEMMA QueueStep ==
  ASSUME IInv, Next \/ Start \/ HandlerEnds \/ Withdraw \/ Drop \/ UNCHANGED vars
  PROVE  QueueInv'
<1> USE NoneAssumption, QueueAssumption
    DEF IInv, SessionTypeOK, TypeOK, Messages, Opcodes, Audit, NameInv, CallInv,
        WaitingInv, QueueInv, DaemonInv, Asked
<1>1. ASSUME NEW t \in Threads, InsertInData(t)
      PROVE  QueueInv'
  BY <1>1 DEF InsertInData
<1>2. ASSUME NEW t \in Threads, Enter(t)
      PROVE  QueueInv'
  BY <1>2 DEF Enter
<1>3. ASSUME NEW t \in Threads, SendVFSDataToClient(t)
      PROVE  QueueInv'
  BY <1>3, SMTT(40) DEF SendVFSDataToClient
<1>4. ASSUME NEW t \in Threads, Wait(t)
      PROVE  QueueInv'
  BY <1>4 DEF Wait
<1>5. ASSUME NEW t \in Threads, RemoveInData(t)
      PROVE  QueueInv'
  BY <1>5, ZenonT(60) DEF RemoveInData
<1>6. ASSUME NEW t \in Threads, NEW k \in Ids, NEW o \in Opcodes, Call(t, k, o)
      PROVE  QueueInv'
  BY <1>6 DEF Call
<1>7. CASE SendAudit
  BY <1>7, SMTT(40) DEF SendAudit
<1>8. CASE Dequeue
  BY <1>8 DEF Dequeue
<1>9. CASE Serve
  BY <1>9 DEF Serve
<1>10. CASE ReplyFind
  BY <1>10 DEF ReplyFind
<1>11. CASE ReplyWrite
  BY <1>11 DEF ReplyWrite
<1>12. CASE ReplySignal
  BY <1>12 DEF ReplySignal
<1>13. CASE Start
  BY <1>13 DEF Start
<1>14. CASE HandlerEnds
  BY <1>14 DEF HandlerEnds
<1>15. CASE Withdraw \/ Drop
  BY <1>15 DEF Withdraw, Drop, DropIf
<1>16. CASE UNCHANGED vars
  BY <1>16
<1>17. QED
  BY <1>1, <1>2, <1>3, <1>4, <1>5, <1>6, <1>7, <1>8, <1>9, <1>10, <1>11, <1>12,
     <1>13, <1>14, <1>15, <1>16 DEF Next, Step, Daemon

\* DaemonInv is kept.
LEMMA DaemonStep ==
  ASSUME IInv, Next \/ Start \/ HandlerEnds \/ Withdraw \/ Drop \/ UNCHANGED vars
  PROVE  DaemonInv'
<1> USE NoneAssumption, QueueAssumption
    DEF IInv, SessionTypeOK, TypeOK, Messages, Opcodes, Audit, NameInv, CallInv,
        MapInv, WaitingInv, QueueInv, DaemonInv, Asked
<1>1. ASSUME NEW t \in Threads, InsertInData(t)
      PROVE  DaemonInv'
  BY <1>1 DEF InsertInData
<1>2. ASSUME NEW t \in Threads, Enter(t)
      PROVE  DaemonInv'
  BY <1>2 DEF Enter
<1>3. ASSUME NEW t \in Threads, SendVFSDataToClient(t)
      PROVE  DaemonInv'
  BY <1>3 DEF SendVFSDataToClient
<1>4. ASSUME NEW t \in Threads, Wait(t)
      PROVE  DaemonInv'
  BY <1>4 DEF Wait
<1>5. ASSUME NEW t \in Threads, RemoveInData(t)
      PROVE  DaemonInv'
  BY <1>5 DEF RemoveInData
<1>6. ASSUME NEW t \in Threads, NEW k \in Ids, NEW o \in Opcodes, Call(t, k, o)
      PROVE  DaemonInv'
  <2>1. ASSUME dpc # "dequeue"
        PROVE  /\ message.id # k
               /\ \E u \in Threads \ {t} :
                    id[u] = message.id /\ op[u] = message.op /\ Asked(u)
    BY <1>6, <2>1 DEF Call
  <2>2. dpc = "write" => inData # t
    BY <1>6 DEF Call
  <2>3. QED
    BY <1>6, <2>1, <2>2, SMTT(40) DEF Call
<1>7. CASE SendAudit
  BY <1>7 DEF SendAudit
<1>8. CASE Dequeue
  BY <1>8 DEF Dequeue
<1>9. CASE Serve
  BY <1>9 DEF Serve
<1>10. CASE ReplyFind
  BY <1>10 DEF ReplyFind
<1>11. CASE ReplyWrite
  BY <1>11 DEF ReplyWrite
<1>12. CASE ReplySignal
  BY <1>12 DEF ReplySignal
<1>13. CASE Start
  BY <1>13 DEF Start
<1>14. CASE HandlerEnds
  BY <1>14 DEF HandlerEnds
<1>15. CASE Withdraw \/ Drop
  BY <1>15 DEF Withdraw, Drop, DropIf
<1>16. CASE UNCHANGED vars
  BY <1>16
<1>17. QED
  BY <1>1, <1>2, <1>3, <1>4, <1>5, <1>6, <1>7, <1>8, <1>9, <1>10, <1>11, <1>12,
     <1>13, <1>14, <1>15, <1>16 DEF Next, Step, Daemon

\* AnswerInv is kept.
LEMMA AnswerStep ==
  ASSUME IInv, Next \/ Start \/ HandlerEnds \/ Withdraw \/ Drop \/ UNCHANGED vars
  PROVE  AnswerInv'
<1> USE NoneAssumption, QueueAssumption
    DEF IInv, SessionTypeOK, TypeOK, Messages, Opcodes, Audit, NameInv, CallInv,
        MapInv, DaemonInv, AnswerInv, Asked
<1>1. ASSUME NEW t \in Threads, InsertInData(t)
      PROVE  AnswerInv'
  BY <1>1 DEF InsertInData
<1>2. ASSUME NEW t \in Threads, Enter(t)
      PROVE  AnswerInv'
  BY <1>2 DEF Enter
<1>3. ASSUME NEW t \in Threads, SendVFSDataToClient(t)
      PROVE  AnswerInv'
  BY <1>3 DEF SendVFSDataToClient
<1>4. ASSUME NEW t \in Threads, Wait(t)
      PROVE  AnswerInv'
  BY <1>4 DEF Wait
<1>5. ASSUME NEW t \in Threads, RemoveInData(t)
      PROVE  AnswerInv'
  BY <1>5 DEF RemoveInData
<1>6. ASSUME NEW t \in Threads, NEW k \in Ids, NEW o \in Opcodes, Call(t, k, o)
      PROVE  AnswerInv'
  BY <1>6 DEF Call
<1>7. CASE SendAudit
  BY <1>7 DEF SendAudit
<1>8. CASE Dequeue
  BY <1>8 DEF Dequeue
<1>9. CASE Serve
  BY <1>9 DEF Serve
<1>10. CASE ReplyFind
  BY <1>10 DEF ReplyFind
<1>11. CASE ReplyWrite
  BY <1>11 DEF ReplyWrite
<1>12. CASE ReplySignal
  BY <1>12 DEF ReplySignal
<1>13. CASE Start
  BY <1>13 DEF Start
<1>14. CASE HandlerEnds
  BY <1>14 DEF HandlerEnds
<1>15. CASE Withdraw \/ Drop
  BY <1>15 DEF Withdraw, Drop, DropIf
<1>16. CASE UNCHANGED vars
  BY <1>16
<1>17. QED
  BY <1>1, <1>2, <1>3, <1>4, <1>5, <1>6, <1>7, <1>8, <1>9, <1>10, <1>11, <1>12,
     <1>13, <1>14, <1>15, <1>16 DEF Next, Step, Daemon

\* SessionInv is kept.
LEMMA SessionStep ==
  ASSUME IInv, [SessionNext]_sessionVars
  PROVE  SessionInv'
<1> USE NoneAssumption
    DEF IInv, SessionTypeOK, TypeOK, CallInv, DaemonInv, SessionInv, Asked
<1>1. ASSUME NEW t \in Threads, HookStep(t)
      PROVE  SessionInv'
  BY <1>1 DEF HookStep, Step, InsertInData, Enter, SendVFSDataToClient, Wait,
              RemoveInData
<1>2. ASSUME NEW t \in Threads, NEW k \in Ids, NEW o \in Opcodes, GetClient(t, k, o)
      PROVE  SessionInv'
  BY <1>2 DEF GetClient, Call
<1>3. ASSUME NEW t \in Threads, PutClient(t)
      PROVE  SessionInv'
  BY <1>3 DEF PutClient
<1>4. CASE AuditHook \/ Handler
  BY <1>4 DEF AuditHook, SendAudit, Handler, Dequeue, Serve
<1>5. CASE Reply
  BY <1>5 DEF Reply, ReplyFind, ReplyWrite, ReplySignal
<1>6. CASE Start \/ HandlerEnds
  BY <1>6 DEF Start, HandlerEnds
<1>7. CASE Withdraw \/ Drop
  BY <1>7 DEF Withdraw, Drop, DropIf
<1>8. CASE UNCHANGED sessionVars
  BY <1>8
<1>9. QED
  BY <1>1, <1>2, <1>3, <1>4, <1>5, <1>6, <1>7, <1>8 DEF SessionNext

\* Every step of a session keeps the types.
LEMMA SessionTypeStep ==
  ASSUME IInv, [SessionNext]_sessionVars, TypeOK'
  PROVE  SessionTypeOK'
<1> USE DEF IInv, SessionTypeOK
<1>1. CASE \E t \in Threads :
             HookStep(t) \/ PutClient(t) \/ \E k \in Ids, o \in Opcodes : GetClient(t, k, o)
  BY <1>1 DEF HookStep, PutClient, GetClient
<1>2. CASE AuditHook \/ Handler \/ Reply \/ UNCHANGED sessionVars
  BY <1>2 DEF AuditHook, Handler, Reply
<1>3. CASE Start \/ HandlerEnds \/ Withdraw \/ Drop
  BY <1>3 DEF Start, HandlerEnds, Withdraw, Drop, DropIf
<1>4. QED
  BY <1>1, <1>2, <1>3 DEF SessionNext

\* Seen from PreOperation a step of a session is one of its own, or changes
\* what the life of the client changes.
LEMMA SessionNextIsStep ==
  ASSUME [SessionNext]_sessionVars
  PROVE  Next \/ Start \/ HandlerEnds \/ Withdraw \/ Drop \/ UNCHANGED vars
BY DEF SessionNext, HookStep, PutClient, GetClient, AuditHook, Handler, Reply, Next,
       Daemon

\* The strengthened invariant of the calls and the sessions: who is named by
\* the waiting list, the map and the queue is in a call that has not returned.
THEOREM Inductive == SessionSpec => []IInv
<1>1. SessionInit => IInv
  BY InitIInv
<1>2. IInv /\ [SessionNext]_sessionVars => IInv'
  <2> SUFFICES ASSUME IInv, [SessionNext]_sessionVars
               PROVE  IInv'
    OBVIOUS
  <2>1. Next \/ Start \/ HandlerEnds \/ Withdraw \/ Drop \/ UNCHANGED vars
    BY SessionNextIsStep
  <2>2. SessionTypeOK' /\ SessionInv'
    BY <2>1, TypeStep, SessionTypeStep, SessionStep
  <2>3. NameInv' /\ CallInv' /\ MapInv' /\ WaitingInv'
    BY <2>1, NameStep, CallStep, MapStep, WaitingStep
  <2>4. QueueInv' /\ DaemonInv' /\ AnswerInv'
    BY <2>1, QueueStep, DaemonStep, AnswerStep
  <2>5. QED
    BY <2>2, <2>3, <2>4 DEF IInv
<1>3. QED
  BY <1>1, <1>2, PTL DEF SessionSpec

\* Types, with the bound of the queue.
THEOREM TypeCorrect == SessionSpec => []SessionTypeOK
<1>1. IInv => SessionTypeOK
  BY DEF IInv
<1>2. QED
  BY <1>1, Inductive, PTL

\* The reply never writes through a pointer to a frame that is gone, or that
\* another request has taken over (the comment in reply).
THEOREM ReplyIsSafe == SessionSpec => []ReplyWritesLiveRequest
<1>1. IInv => ReplyWritesLiveRequest
  BY DEF IInv, SessionTypeOK, TypeOK, NameInv, CallInv, DaemonInv, Asked,
         ReplyWritesLiveRequest
<1>2. QED
  BY <1>1, Inductive, PTL

\* No hook goes on with a request the daemon has not carried out.
THEOREM DaemonIsAhead == SessionSpec => []DaemonActedFirst
<1>1. IInv => DaemonActedFirst
  BY DEF IInv, AnswerInv, DaemonActedFirst
<1>2. QED
  BY <1>1, Inductive, PTL

\* A Filter call returns the daemon's decision on that very call.
THEOREM AnswerIsOwn == SessionSpec => []FilterAnswerIsDaemons
<1>1. IInv => FilterAnswerIsDaemons
  BY DEF IInv, AnswerInv, FilterAnswerIsDaemons
<1>2. QED
  BY <1>1, Inductive, PTL

\* A call that returned has left no trace of its stack frame.
THEOREM DeadFrameIsForgotten == SessionSpec => []NothingNamesDeadFrame
<1>1. ASSUME IInv, NEW k \in Ids, \A t \in Threads : id[t] # k
      PROVE  k \notin waiting /\ gPreOperationDataMap[k] = NoThread /\ ~Pending(k)
  <2>1. k \notin waiting
    BY <1>1 DEF IInv, WaitingInv
  <2>2. gPreOperationDataMap[k] = NoThread
    BY <1>1 DEF IInv, SessionTypeOK, TypeOK, MapInv
  <2>3. \A i \in DOMAIN queue : queue[i].id # k
    BY <1>1, NoneAssumption DEF IInv, SessionTypeOK, TypeOK, QueueInv, Audit
  <2>4. dpc # "dequeue" => message.id # k
    BY <1>1 DEF IInv, DaemonInv
  <2>5. QED
    BY <2>1, <2>2, <2>3, <2>4 DEF Pending
<1>2. IInv => NothingNamesDeadFrame
  BY <1>1 DEF NothingNamesDeadFrame
<1>3. QED
  BY <1>2, Inductive, PTL

\* A client that was dropped leaves the next one nothing to answer.
THEOREM SessionsStayApart == SessionSpec => []SessionsAreApart
<1>1. ASSUME IInv, client = "none"
      PROVE  /\ queue = << >> /\ \A t \in Threads : pc[t] = "idle"
             /\ waiting = {}
             /\ \A k \in Ids : gPreOperationDataMap[k] = NoThread
  <2>1. queue = << >> /\ \A t \in Threads : pc[t] = "idle"
    BY <1>1 DEF IInv, SessionInv
  <2>2. waiting = {}
    BY <1>1, <2>1 DEF IInv, WaitingInv
  <2>3. \A k \in Ids : gPreOperationDataMap[k] = NoThread
    BY <1>1, <2>1 DEF IInv, SessionTypeOK, TypeOK, CallInv, MapInv
  <2>4. QED
    BY <2>1, <2>2, <2>3
<1>2. IInv => SessionsAreApart
  BY <1>1 DEF SessionsAreApart
<1>3. QED
  BY <1>2, Inductive, PTL

\* A step that leaves the registration alone leaves the gate alone.
LEMMA GateStutter ==
  ASSUME client' = client, users' = users
  PROVE  UNCHANGED Gate!gateVars
BY DEF Gate!gateVars

\* Every step of a session is one of the gate, or leaves the gate alone.
LEMMA GateStep ==
  ASSUME SessionTypeOK, [SessionNext]_sessionVars
  PROVE  [Gate!GateNext]_(Gate!gateVars)
<1>1. CASE Start
  <2>1. Gate!Register("client")
    BY <1>1 DEF Start, Gate!Register
  <2>2. QED
    BY <2>1 DEF Gate!GateNext
<1>2. CASE HandlerEnds
  <2>1. UNCHANGED Gate!gateVars
    BY <1>2 DEF HandlerEnds, Gate!gateVars
  <2>2. QED
    BY <2>1
<1>3. CASE Withdraw
  <2>1. Gate!Withdraw("client")
    BY <1>3 DEF Withdraw, Gate!Withdraw
  <2>2. QED
    BY <2>1 DEF Gate!GateNext
<1>4. CASE Drop
  <2>1. Gate!Drop("client")
    BY <1>4 DEF Drop, DropIf, Gate!Drop
  <2>2. QED
    BY <2>1 DEF Gate!GateNext
<1>5. ASSUME NEW t \in Threads, PutClient(t)
      PROVE  Gate!Yield(t)
  BY <1>5 DEF PutClient, Gate!Yield
<1>6. ASSUME NEW t \in Threads, NEW k \in Ids, NEW o \in Opcodes, GetClient(t, k, o)
      PROVE  Gate!Acquire(t)
  BY <1>6 DEF GetClient, Gate!Acquire
<1>7. CASE UNCHANGED session
  BY <1>7, GateStutter DEF session
<1>8. QED
  BY <1>1, <1>2, <1>3, <1>4, <1>5, <1>6, <1>7
     DEF SessionNext, HookStep, AuditHook, Handler, Reply, sessionVars, session,
         Gate!GateNext

\* The sessions around the calls use the registration as ClientGate, which
\* ClientRegistration implements, allows it.
THEOREM SessionFollowsGate == SessionSpec => FollowsGate
<1>1. SessionInit => Gate!GateInit
  BY DEF SessionInit, Gate!GateInit
<1>2. IInv /\ [SessionNext]_sessionVars => [Gate!GateNext]_(Gate!gateVars)
  BY GateStep DEF IInv
<1>3. QED
  BY <1>1, <1>2, Inductive, PTL DEF SessionSpec, FollowsGate, Gate!GateSpec
=============================================================================
