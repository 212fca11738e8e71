SPECIFICATION Spec
CONSTANTS
  t1 = t1
  t2 = t2
  NoThread = NoThread
  Threads = {t1, t2}
  MaxSize = 2
  MayFail = TRUE
  MayDrop = TRUE
  CallsAfterFailure = FALSE
SYMMETRY Symmetry
INVARIANTS
  TypeOK
  DataStaysInStorage
  ZerosAreOverwritten
  BackingIsHeld
  SizeCoversBacking
  SuccessMeansMoved
  UplsAreReleased
