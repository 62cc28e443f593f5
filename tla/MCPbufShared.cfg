SPECIFICATION Spec
CONSTANTS
  p1 = p1
  p2 = p2
  h1 = h1
  POOL = {p1, p2}
  HEAP = {h1}
  NULL = NULL
  PBUF_POOL_BUFSIZE = 2
  HLEN = 0
  U16 = 4
  LWIP_WND_SCALE = TRUE
  PCBS = 1
  Lengths = {1, 3}
  MaxHeld = 3
  MaxLen = 4
SYMMETRY Symmetry
PROPERTY OthersKept
