SPECIFICATION Spec
CONSTANTS
  s1 = s1
  m1 = m1
  m2 = m2
  Session <- OneSession
  Message <- TwoMessages
  PeerHeader <- PeerHeaders
  QueueBound = 3
  ReleaseInHandler = TRUE
INVARIANTS
  TypeOK
  OneReadOneWrite
  WriterMatchesQueue
  ReadArmed
  CloseHandlerOnce
  ReportedCause
  AliveWhileInUse
PROPERTIES
  RunningHandlerStable
  NoDeliveryAfterClose
  QueueFrontStable
  Reclaimed
  LossNoticed
CHECK_DEADLOCK FALSE
