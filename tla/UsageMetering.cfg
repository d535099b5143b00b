SPECIFICATION FairMeterSpec
CONSTANTS
  Callers = {r1, r2}
  Writers = {w1, w2}
  Absent = none
  Limit = 1
  MaxPeriod = 2
  Enabled = {"redis", "fail", "status", "plan", "reset"}
CHECK_DEADLOCK FALSE
INVARIANTS QuotaHolds CounterMatches
PROPERTIES CacheCatchesUp
