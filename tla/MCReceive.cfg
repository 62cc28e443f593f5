SPECIFICATION Spec
CONSTANTS
  Half = 16
  ISN = 30
  N = 6
  TCP_MSS = 2
  TCP_WND = 4
  TCP_WND_UPDATE_THRESHOLD = 3
  SendErrors = {"nobuf", "senderr"}
CHECK_DEADLOCK FALSE
INVARIANTS
  TypeOK
  DeliveredPrefix
  EofAfterAllData
  AckedBytesKept
  WindowConserved
  OoseqOrdered
  OnlyFinTripsAssert
  IInv
PROPERTIES
  RightEdgeNeverRetracts
