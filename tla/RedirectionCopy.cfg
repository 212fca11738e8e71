SPECIFICATION Spec
CONSTANTS
  t1 = t1
  t2 = t2
  NULLVP = NULLVP
  Threads = {t1, t2}
  MayCreate = FALSE
  MayDrop = FALSE
  MayFail = FALSE
SYMMETRY Symmetry
INVARIANT CopyIsComplete
