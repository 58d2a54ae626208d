\* Two deliveries, one whose checks were edited, for processes that overlap; two of them may die.
CONSTANTS
  Steps = {s1, s2}
  Processes = {p1, p2, p3}
  NoStep = NoStep  NoProcess = NoProcess
  Unexamined = {}
  Changed = {s2}
  Billable = {s1}
  MaxTries = 2
  MayDie = {p1, p2}
  Overlap = TRUE
  RunnerMayFail = TRUE
  SealMayFail = FALSE
SPECIFICATION Spec
INVARIANTS TypeOK EndedJobIsProjected ClaimIsWorkedOn
PROPERTIES JobEndsOnce VerdictOnceHolds
SYMMETRY Sym
