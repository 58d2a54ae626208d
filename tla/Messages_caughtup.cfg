\* More messages than a page holds arrive while the socket connects; nothing fails.
CONSTANTS
  Convs = {c1}
  None = None
  MaxMessages = 4
  HeadPage = 2
  SyncPage = 3
  QueueSize = 2
  MaxMoves = 0
  MaxTroubles = 0
  MaxConnects = 1
SPECIFICATION Spec
INVARIANTS CaughtUp
CHECK_DEADLOCK FALSE
