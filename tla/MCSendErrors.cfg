SPECIFICATION Spec
CONSTANTS
  Half = 16
  ISS = 30
  TCP_MSS = 2
  TCP_SND_BUF = 4
  TCP_SND_QUEUELEN = 4
  SND_WND_MAX = 4
  TCP_MAXRTX = 1
  INITIAL_CWND = 4
  MaxWnd = 5
  NODELAY = TRUE
  SendErrors = TRUE
  StraySegments = TRUE
  PeerSends = TRUE
  PeerWnds = {4}
  WriteLens = {1, 2}
  MaxWritten = 2
  NrtxWidth = 2
CHECK_DEADLOCK FALSE
INVARIANTS
  TimerRuns
  QueuesSound
