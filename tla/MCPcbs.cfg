SPECIFICATION Spec
CONSTANTS
  PCBS = {p1, p2}
  NULL = NULL
  CtrMod = 2
  Allowed <- PairCalls
SYMMETRY Symmetric
CHECK_DEADLOCK FALSE
INVARIANTS
  ListsHold
  HandlesValid
  PointersValid
