SPECIFICATION Spec
CONSTANTS
  t1 = t1
  t2 = t2
  NULLVP = NULLVP
  Threads = {t1, t2}
  MayCreate = TRUE
  MayDrop = TRUE
  MayFail = TRUE
SYMMETRY Symmetry
INVARIANTS
  TypeOK
  VnodesAreHeld
  ResultAgrees
  NestedCallsAreMarked
  HandedOutShadowIsBacked
