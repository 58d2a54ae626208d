\* One process after the other, with a runner that may be away and seals that may fail, under fairness.
CONSTANTS
  Steps = {s1}
  Processes = {p1, p2, p3}
  NoStep = NoStep  NoProcess = NoProcess
  Unexamined = {}
  Changed = {}
  Billable = {s1}
  MaxTries = 2
  MayDie = {p1, p2}
  Overlap = FALSE
  RunnerMayFail = TRUE
  SealMayFail = TRUE
SPECIFICATION FairSpec
PROPERTIES JobsEnd
