\* A step that another step waits for, up to two leases each; failures cascade or are accepted by a person; one restart.
CONSTANTS
  s1 = s1  s2 = s2  s3 = s3  s4 = s4
  Steps = {s1, s2}
  InitSteps = {s1, s2}
  InitNeeds <- Chain
  InitHealable = {s1}
  Workers = {w1}
  NoStep = NoStep  NoWorker = NoWorker  NoCommit = NoCommit
  MaxGen = 2
  MaxHeals = 0
  MaxRestarts = 1
  Sent = {"complete", "fail"}
  MayLeave = {}
  Overridable = {s1}
SPECIFICATION Spec
INVARIANTS DependentsWaitForAcceptance
PROPERTIES StepTruthHolds
SYMMETRY Sym
