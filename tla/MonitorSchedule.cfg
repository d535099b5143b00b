SPECIFICATION FairSpec
CONSTANTS
  Monitors = {m1}
  Traces = {t1}
  Beats = {b1, b2}
  Workers = {w1, w2}
  None = none
  Cadences <- Interval
  MaxRetries = 1
  MaxTime = 1
  MaxTriggers = 1
  MaxFaults = 2
  Enabled = {"error", "quota", "broker", "crash", "limit", "lost", "redeliver",
             "update", "pause", "delete"}
CHECK_DEADLOCK FALSE
INVARIANTS OncePerDueTime ChargesMatchRuns
PROPERTIES DueIsTaken
