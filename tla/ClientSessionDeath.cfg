SPECIFICATION FairSessionSpec
CONSTANTS
  t1 = t1
  t2 = t2
  t3 = t3
  k1 = k1
  k2 = k2
  NoThread = NoThread
  NoId = NoId
  Threads = {t1, t2}
  Ids = {k1, k2}
  QueueCapacity = 4
PROPERTY InvocationsReturn
CHECK_DEADLOCK FALSE
