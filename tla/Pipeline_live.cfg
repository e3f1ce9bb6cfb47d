SPECIFICATION FairSpec
CONSTANTS
  Jobs = {j1}
  HcvJobs = {j1}
  NoJob = none
  Workers = {w1, w2}
  Requests = {r1}
  KillSwitch = FALSE
  MaxOverlap = 2
  MaxAttempt = 2
  MaxEffects = 1
  MaxFaults = 1
CHECK_DEADLOCK FALSE
INVARIANTS HumanGates
PROPERTIES ImplementsGate JobsSettle
