\* Two users, one slot each; two steps want the same file and one of them is asked about.
CONSTANTS
  Steps = {1, 2, 3}
  Runs = {"r1", "r2"}
  None = 0
  Users = {"u1", "u2"}
  RunOf <- TwoRuns
  UserOf <- TwoUsers
  Files <- SameFile
  Risky = {1}
  MaxConcurrent = 1
  ChannelSize = 1
  MaxTroubles = 1
SPECIFICATION FairSpec
INVARIANTS TypeOK EveryoneHasATurn WritersAreApart WithinShare
PROPERTIES Served
CHECK_DEADLOCK FALSE
