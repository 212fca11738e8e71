SPECIFICATION Spec
CONSTANTS
  t1 = t1
  t2 = t2
  v1 = v1
  v2 = v2
  v3 = v3
  w1 = w1
  w2 = w2
  e1 = e1
  e2 = e2
  e3 = e3
  NoThread = NoThread
  NoVnode = NoVnode
  NoEntry = NoEntry
  Threads <- TwoThreads
  Vnodes <- StreamVnodes
  Regular <- StreamRegular
  Parent <- StreamParent
  Vops = {w1}
  VopOf <- StreamVop
  Entries = {e1, e2, e3}
  Ops = {"reclaim", "lookup"}
  MaxCount = 3
SYMMETRY ThreadSymmetry
INVARIANTS
  TypeOK
  OriginalIsFsdFunction
  HashMirrorsVector
  RefsCountHolders
  LockHeldWhileWalking
