SPECIFICATION Spec
CONSTANTS
  Jobs = {j1}
  HcvJobs = {j1}
  NoJob = none
  Workers = {w1}
  Requests = {r1}
  KillSwitch = FALSE
  MaxOverlap = 1
  MaxAttempt = 2
  MaxEffects = 2
  MaxFaults = 0
CHECK_DEADLOCK FALSE
INVARIANTS RegeneratedIsNew
