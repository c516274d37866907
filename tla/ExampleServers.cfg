SPECIFICATION ServerSpec
CONSTANTS
  s1 = s1
  s2 = s2
  Session <- TwoSessions
  Message <- Messages
  Stalled <- OneStalled
  Kind <- AllKinds
  PeerHeader <- GoodHeader
  QueueBound = 0
  ReleaseInHandler = FALSE
  IdCount = 3
  LogBound = 2
  Timer = timer
INVARIANTS
  ServerTypeOK
  EveryoneGetsEverything
  CallbacksFindTheirSession
  NoCallbackAfterServer
PROPERTIES
  TableStableUnderLoop
CHECK_DEADLOCK FALSE
