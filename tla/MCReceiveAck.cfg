SPECIFICATION Spec
CONSTANTS
  Half = 16
  ISN = 30
  N = 5
  TCP_MSS = 2
  TCP_WND = 4
  TCP_WND_UPDATE_THRESHOLD = 3
  SendErrors = {}
CHECK_DEADLOCK FALSE
INVARIANT
  AckOwed
