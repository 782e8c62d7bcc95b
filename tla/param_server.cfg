SPECIFICATION Spec
CONSTANTS
  n1 = n1
  n2 = n2
  t1 = t1
  t2 = t2
  t3 = t3
  Nodes = {n1, n2}
  Tasks = {t1, t2, t3}
  Owner <- MCOwner
  Namespace <- MCNamespace
  Remapping <- MCRemapping
  Names <- MCNames
  Values <- MCValues
  InitTrees <- MCInitTrees
  MaxOps = 3
SYMMETRY TaskSymmetry
INVARIANTS
  HeldSettled
  CacheFollows
  SearchReaches
  DownOnlyIfMixed
CHECK_DEADLOCK FALSE
