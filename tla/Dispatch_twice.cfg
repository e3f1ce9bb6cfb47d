SPECIFICATION Spec
CONSTANTS
  Plans = {"p"}
  Items = {1, 2}
  PlanOf <- OnePlan
  Cost <- Free
  NoItem = 0
  NoPlan = none
  Sessions = {s1, s2}
  KillSwitch = FALSE
  PerRun = 1
  CapChoices <- Shipped
  NoCap = nocap
  Rough = 1
  CallCosts = {}
  MaxPosts = 1
  MaxOverlap = 2
  MaxGrants = 1
  MaxLedger = 3
  MaxFaults = 0
INVARIANTS OneEffectPerGo
