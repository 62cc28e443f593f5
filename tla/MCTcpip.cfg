SPECIFICATION Spec
CONSTANTS
  s1 = s1
  s2 = s2
  Posters <- PostersTwo
  Fetcher = fetcher
  SYS_MBOX_SIZE = 3
  MaxPosts <- PostsTwoOne
  Handlers = {"g", "h"}
  TCP_TMR_INTERVAL = 1
  Msecs = {2}
CHECK_DEADLOCK FALSE
INVARIANTS
  ListExact
PROPERTIES
  IsFifo
  PosterServed
  TcpTimerServed
