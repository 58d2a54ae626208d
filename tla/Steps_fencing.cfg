\* One step leased up to twice by two connections that may close, one restart: late reports, expiry, grace periods, under fairness.
CONSTANTS
  s1 = s1  s2 = s2  s3 = s3  s4 = s4
  Steps = {s1}
  InitSteps = {s1}
  InitNeeds <- NoEdges
  InitHealable = {}
  Workers = {w1, w2}
  NoStep = NoStep  NoWorker = NoWorker  NoCommit = NoCommit
  MaxGen = 2
  MaxHeals = 0
  MaxRestarts = 1
  Sent = {"start", "renew", "complete", "reject", "fail", "cancel", "block"}
  MayLeave = {w1, w2}
  Overridable = {s1}
SPECIFICATION FairSpec
INVARIANTS TypeOK GradedWorkIsCurrent OnlyTheHolderReports
PROPERTIES WorkIsNeverRepeated LostLeaseComesBack
