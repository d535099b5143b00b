SPECIFICATION FairSpec
CONSTANTS
  Workers = {w1, w2}
  Categories = {traces}
  HOBBY = HOBBY
  PRO = PRO
  ENTERPRISE = ENTERPRISE
  Plans = {HOBBY, ENTERPRISE}
  Hobby = HOBBY
  PayAsYouGo <- PlanPayAsYouGo
  Base <- PlanBase
  StripeSubs = {s1}
  OwnSub = s1
  Statuses = {"ACTIVE", "CANCELED"}
  None = None
  Orphaned = Orphaned
  Enabled = {"bill", "paid", "late", "crash", "aging"}
  MaxLegacy = 1
  MaxCount = 1
  MaxBelow = 0
  MaxReports = 2
PROPERTIES EventuallySettled LateUsageReserved ImplementsLedger
CHECK_DEADLOCK FALSE
