SPECIFICATION LinkSpec
CONSTANTS
  a = a
  b = b
  Session <- Ends
  Message <- Messages
  PeerHeader <- NoHeader
  QueueBound = 2
  ReleaseInHandler = FALSE
  Capacity = 6
  SendBound = 2
INVARIANTS
  LinkTypeOK
  NeverBadMessage
  StreamIntact
PROPERTY ImplementsChannel
CHECK_DEADLOCK FALSE
