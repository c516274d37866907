SPECIFICATION Spec
CONSTANTS
  s1 = s1
  m1 = m1
  m2 = m2
  Session <- OneSession
  Message <- OneMessage
  PeerHeader <- PeerHeaders
  QueueBound = 1
  ReleaseInHandler = TRUE
INVARIANT AliveDuringClose
CHECK_DEADLOCK FALSE
