\* One user with one slot and one step, whose lease is lost once.
CONSTANTS
  Steps = {1}
  Runs = {"r1"}
  None = 0
  Users = {"u1"}
  RunOf <- TwoRuns
  UserOf <- TwoUsers
  Files <- SameFile
  Risky = {}
  MaxConcurrent = 1
  ChannelSize = 1
  MaxTroubles = 1
SPECIFICATION FairSpec
PROPERTIES StillGetsAssignments
CHECK_DEADLOCK FALSE
