SPECIFICATION Spec
CONSTANTS
  k1 = k1
  k2 = k2
  k3 = k3
  k4 = k4
  d1 = d1
  d2 = d2
  NULL = NULL
  NoData = NoData
  Keys = {k1, k2, k3, k4}
  Data = {d1, d2}
  fn_hash <- MCHash
  Size = 1
  DataOf <- MCDataOf
  Options <- MCOptions
INVARIANT ListsAgree
PROPERTY IsAgeOrderedMap
