SPECIFICATION Spec
CONSTANTS
  t1 = t1 t2 = t2 t3 = t3
  Tasks = {t1, t2, t3}
  Priority <- Equal
  Spurious = TRUE
  LenBits = 2
SYMMETRY Symmetry
INVARIANTS MutualExclusion LinkedNodesLive LenExactWhenQuiescent
