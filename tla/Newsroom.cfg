SPECIFICATION Spec
CONSTANTS
  Parts = {"cycle","refresh","rotation","profiles","users","weights","costs"}
  Desks = {d1, d2}
  PersonaNames = {n1, n2}
  MaxVersions = 3
  MaxPersonas = 3
  MaxApprovals = 3
  CycleRuns = {c1, c2}
  Wirings <- MCWirings
  MaxRuns = 3
  OrdinaryTopics = {t1, t2}
  ViralTopics = {v1}
  MaxItems = 2
  MaxEntries = 4
  MaxReports = 2
  MaxTopics = 1
  ByteCap = 4
  Sizes = {1, 2}
  Categories = {a1, a2}
  People = {p1, p2, p3}
  Allowed = {p1, p2}
  Admins = {p2}
  Scopes = {b1, b2}
  DefaultRole = "portfolio_admin"
  Knobs = {k1, k2}
  Lo = 1
  Hi = 3
  Asks = {0, 2, 4}
  Shipped <- MCShipped
  Editors = {e1, e2}
  MaxLogins = 3
  MaxGrants = 2
  MaxSaves = 3
  Pieces = {j1, j2}
  Bookers = {r1, r2}
  Calls <- MCCalls
  Price <- MCPrice
  Pays <- MCPays
  Cent = 4
  Null = Null
  MaxAttempted = 3
  MaxCostRows = 3
CHECK_DEADLOCK FALSE
INVARIANTS RotationIsFair ChosenVoiceSpeaks VoiceServed NewsroomTypeOK SnapshotsAreWhole DigestInputsRecent PlanSeesTheDay ScanCapHolds PaidOnceAWeek AuthorityIsGranted WeightsAsAsked CostsAddUp
