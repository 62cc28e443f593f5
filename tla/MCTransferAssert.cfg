SPECIFICATION Spec
CONSTANTS
  Half = 16
  ISS = 30
  TCP_MSS = 1
  TCP_WND = 2
  TCP_WND_UPDATE_THRESHOLD = 1
  TCP_SND_BUF = 2
  TCP_SND_QUEUELEN = 4
  TCP_MAXRTX = 1
  NrtxWidth = 3
  INITIAL_CWND = 2
  WriteLens = {1}
  MaxWritten = 3
  MaxSegments = 2
  MaxAcks = 1
CHECK_DEADLOCK FALSE
INVARIANT AssertsHold
