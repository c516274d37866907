SPECIFICATION ServerSpec
CONSTANTS
  s1 = s1
  s2 = s2
  Session <- TwoSessions
  Message <- Messages
  Stalled <- OneStalled
  Kind <- ChatAndEcho
  PeerHeader <- GoodHeader
  QueueBound = 0
  ReleaseInHandler = FALSE
  IdCount = 3
  LogBound = 1
  Timer = timer
INVARIANT ClosedSessionsRemoved
CHECK_DEADLOCK FALSE
