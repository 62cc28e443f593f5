SPECIFICATION Spec
CONSTANTS
  PCBS = {p1, p2}
  NULL = NULL
  CtrMod = 2
  Allowed <- CloseAtEof
SYMMETRY Symmetric
CHECK_DEADLOCK FALSE
INVARIANT NoPcbLost
