SPECIFICATION Spec
CONSTANTS
  t1 = t1
  t2 = t2
  t3 = t3
  v1 = v1
  v2 = v2
  v3 = v3
  b1 = b1
  b2 = b2
  NULLVP = NULLVP
  Threads = {t1, t2, t3}
  Vnodes = {v1, v2, v3}
  Backing = {b1, b2}
  LookupOf <- AnyBacking
  Shadows <- AnyShadow
SYMMETRY Symmetry
INVARIANTS
  TypeOK
  IocountsAreHeld
  ReclaimedVnodeIsForgotten
