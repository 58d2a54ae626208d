\* A step that may fail, be healed and retried, with a restart anywhere in between.
CONSTANTS
  s1 = s1  s2 = s2  s3 = s3  s4 = s4
  Steps = {s1, s2, s3}
  InitSteps = {s1}
  InitNeeds <- NoEdges
  InitHealable = {s1}
  Workers = {w1}
  NoStep = NoStep  NoWorker = NoWorker  NoCommit = NoCommit
  MaxGen = 1
  MaxHeals = 1
  MaxRestarts = 1
  Sent = {"complete", "fail"}
  MayLeave = {}
  Overridable = {s1}
SPECIFICATION Spec
INVARIANTS DependentsWaitForAcceptance
PROPERTIES RunSucceedsOnAcceptedWork StepTruthHolds
SYMMETRY Sym
