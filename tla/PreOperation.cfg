SPECIFICATION FairSessionSpec
CONSTANTS
  t1 = t1
  t2 = t2
  t3 = t3
  k1 = k1
  k2 = k2
  NoThread = NoThread
  NoId = NoId
  Threads = {t1, t2, t3}
  Ids = {k1, k2}
  QueueCapacity = 2
INVARIANTS
  SessionTypeOK
  ReplyWritesLiveRequest
  DaemonActedFirst
  FilterAnswerIsDaemons
  NothingNamesDeadFrame
  SessionsAreApart
PROPERTIES
  FollowsGate
  CallReturns
  CloseEnds
CHECK_DEADLOCK FALSE
