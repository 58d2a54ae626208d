\* Two conversations and two messages; the user moves once, one thing fails.
CONSTANTS
  Convs = {c1, c2}
  None = None
  MaxMessages = 2
  HeadPage = 1
  SyncPage = 1
  QueueSize = 1
  MaxMoves = 1
  MaxTroubles = 1
  MaxConnects = 2
SPECIFICATION Spec
INVARIANTS TypeOK LiveIsCaughtUp ShownIsSelected NeverAbandoned
SYMMETRY Sym
CHECK_DEADLOCK FALSE
