SPECIFICATION Spec
CONSTANTS
  t1 = t1
  t2 = t2
  n1 = n1
  n2 = n2
  d1 = d1
  d2 = d2
  NULLVP = NULLVP
  Threads = {t1, t2}
  Names = {n1, n2}
  Docs = {d1, d2}
  OverlapAgain = FALSE
  MayFail = TRUE
SYMMETRY Symmetry
INVARIANTS
  TypeOK
  VnodesArePut
  DocumentsAreWhole
  ResultTellsOriginal
