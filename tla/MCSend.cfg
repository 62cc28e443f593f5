SPECIFICATION Spec
CONSTANTS
  Half = 16
  ISS = 30
  TCP_MSS = 2
  TCP_SND_BUF = 3
  TCP_SND_QUEUELEN = 4
  SND_WND_MAX = 4
  TCP_MAXRTX = 1
  INITIAL_CWND = 4
  MaxWnd = 5
  NODELAY = FALSE
  SendErrors = FALSE
  StraySegments = FALSE
  PeerSends = TRUE
  PeerWnds = {0, 4}
  WriteLens = {1, 3}
  MaxWritten = 3
  NrtxWidth = 2
CHECK_DEADLOCK FALSE
INVARIANTS
  TypeOK
  QueuesSound
  AccountsExact
  OversizeFits
