SPECIFICATION Spec
CONSTANTS
  Jobs = {j1}
  HcvJobs = {}
  NoJob = none
  Workers = {w1}
  Requests = {r1}
  KillSwitch = FALSE
  MaxOverlap = 2
  MaxAttempt = 2
  MaxEffects = 2
  MaxFaults = 0
CHECK_DEADLOCK FALSE
PROPERTIES ClosedStaysClosed
