\* A process that dies while it grades, and its successor.
CONSTANTS
  Steps = {s1}
  Processes = {p1, p2}
  NoStep = NoStep  NoProcess = NoProcess
  Unexamined = {}
  Changed = {}
  Billable = {s1}
  MaxTries = 3
  MayDie = {p1}
  Overlap = FALSE
  RunnerMayFail = FALSE
  SealMayFail = FALSE
SPECIFICATION Spec
INVARIANTS EndedJobDecidesItsStep
