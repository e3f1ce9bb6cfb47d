SPECIFICATION Spec
CONSTANTS
  Jobs = {j1, j2}
  HcvJobs = {j1}
  NoJob = none
  Workers = {w1, w2}
  Requests = {r1}
  KillSwitch = FALSE
  MaxOverlap = 1
  MaxAttempt = 2
  MaxEffects = 2
  MaxFaults = 1
CHECK_DEADLOCK FALSE
INVARIANTS TypeOK ClosedHasNoLiveJobs StatusShowsJobs PublishedAsReviewed
PROPERTIES ClosedStaysClosed SettledJobsStay
