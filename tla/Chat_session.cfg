\* Two prompts in two groups, one move of the user: the first may hand off, the second is tried again, requests and streams up to twice; under fairness.
CONSTANTS
  Groups = {g1, g2}
  Start = g1
  Convs = {1, 2, 3}
  Existing = {1}
  None = None
  MaxSends = 2
  HandOffs = {1}
  Retried = {2}
  MaxMoves = 1
  MaxPosts = 2
  MaxTries = 2
SPECIFICATION FairSpec
INVARIANTS TypeOK ScreenIsActive StoredWhereTyped OneEnding LockedOnlyByWork OnlyTheUserInterrupts
PROPERTIES ComposerReopens
CHECK_DEADLOCK FALSE
