SPECIFICATION Spec
CONSTANTS
  Plans = {"p"}
  Items = {1, 2}
  PlanOf <- OnePlan
  Cost <- RisingCost
  NoItem = 0
  NoPlan = none
  Sessions = {s1}
  KillSwitch = FALSE
  PerRun = 2
  CapChoices <- Caps
  NoCap = nocap
  Rough = 1
  CallCosts = {2}
  MaxPosts = 2
  MaxOverlap = 1
  MaxGrants = 2
  MaxLedger = 2
  MaxFaults = 1
INVARIANTS TypeOK OnlyChosenGoLive OneEffectPerGo
PROPERTIES DispatchWithinCap ImplementsActionGate
