SPECIFICATION Spec
CONSTANTS
  Workers = {w1, w2}
  Categories = {traces}
  HOBBY = HOBBY
  PRO = PRO
  ENTERPRISE = ENTERPRISE
  Plans = {HOBBY, ENTERPRISE}
  Hobby = HOBBY
  PayAsYouGo <- PlanPayAsYouGo
  Base <- PlanBase
  StripeSubs = {s1, s2}
  OwnSub = s1
  Statuses = {"ACTIVE", "CANCELED"}
  None = None
  Orphaned = Orphaned
  Enabled = {"bill", "created", "deleted", "updated", "checkout", "crash", "aging"}
  MaxLegacy = 1
  MaxCount = 1
  MaxBelow = 0
  MaxReports = 1
SYMMETRY WorkerSymmetry
INVARIANTS NoDoubleCharge ReportedIsCharged
CHECK_DEADLOCK FALSE
