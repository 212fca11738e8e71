SPECIFICATION FairSpec
CONSTANTS
  t1 = t1
  t2 = t2
  t3 = t3
  c1 = c1
  c2 = c2
  NoClient = NoClient
  Threads = {t1, t2, t3}
  Clients = {c1, c2}
  CloseMethodUsed = TRUE
INVARIANTS
  ClientInUseIsRetained
  TerminatedClientIsFreed
  IInv
PROPERTIES
  GateSpec
  CloseReturns
