SPECIFICATION FairSpec
CONSTANTS
  Runs = {r1, r2}
  Traces = {t1}
  Metrics = {m1}
  Workers = {w1, w2}
  None = none
  MaxRetries = 1
  MaxCopies = 1
  MaxFaults = 2
  Enabled = {"error", "limits", "crash", "broker", "outage", "redeliver",
             "retry_failed", "delete_run", "delete_trace", "score"}
CHECK_DEADLOCK FALSE
INVARIANTS AttemptsReplace
PROPERTIES CompletedIsComplete EventuallyEnds
