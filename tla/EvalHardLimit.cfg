\* Violated: a run cut off by the hard time limit stays RUNNING.
SPECIFICATION FairSpec
CONSTANTS
  Runs = {r1}
  Traces = {t1}
  Metrics = {m1}
  Workers = {w1}
  None = none
  MaxRetries = 2
  MaxCopies = 0
  MaxFaults = 1
  Enabled = {"limits"}
CHECK_DEADLOCK FALSE
PROPERTIES EveryRunEnds
