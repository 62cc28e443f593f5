SPECIFICATION Spec
CONSTANTS
  PCBS = {p1, p2, p3}
  NULL = NULL
  CtrMod = 2
  Allowed <- FewCalls
SYMMETRY Symmetric
CHECK_DEADLOCK FALSE
INVARIANT NoAssertFails
