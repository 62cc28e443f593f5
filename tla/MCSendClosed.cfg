SPECIFICATION Spec
CONSTANTS
  Half = 16
  ISS = 30
  TCP_MSS = 2
  TCP_SND_BUF = 4
  TCP_SND_QUEUELEN = 4
  SND_WND_MAX = 4
  TCP_MAXRTX = 1
  INITIAL_CWND = 4
  MaxWnd = 15
  NODELAY = FALSE
  SendErrors = FALSE
  StraySegments = FALSE
  PeerSends = FALSE
  PeerWnds = {0, 1, 4}
  WriteLens = {1, 3}
  MaxWritten = 4
  NrtxWidth = 3
CHECK_DEADLOCK FALSE
INVARIANT ClosedAfterAll
