SPECIFICATION Spec
CONSTANTS
  Workers = {w1, w2}
  Categories = {traces}
  HOBBY = HOBBY
  PRO = PRO
  ENTERPRISE = ENTERPRISE
  Plans = {HOBBY, PRO, ENTERPRISE}
  Hobby = HOBBY
  PayAsYouGo <- PlanPayAsYouGo
  Base <- PlanBase
  StripeSubs = {s1, s2}
  OwnSub = s1
  Statuses = {"ACTIVE"}
  None = None
  Orphaned = Orphaned
  Enabled = {"bill", "sync", "paid", "late", "refund"}
  MaxLegacy = 0
  MaxCount = 2
  MaxBelow = 0
  MaxReports = 2
SYMMETRY WorkerSymmetry
INVARIANTS ReservationsTile WatermarkSafe
PROPERTIES ReservationsFrozen CloseReservesAll
CHECK_DEADLOCK FALSE
