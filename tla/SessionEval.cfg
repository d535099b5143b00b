SPECIFICATION Spec
CONSTANTS
  t1 = t1
  t2 = t2
  s1 = s1
  s2 = s2
  Runs = {r1, r2}
  Sessions = {s1, s2}
  Traces = {t1, t2}
  Workers = {w1, w2}
  Home <- Homes
  Signals = {"confidence"}
  Metrics = {"agent_reliability"}
  Weighed <- Names
  Weightings <- GivenWeights
  DefaultWeights <- Defaults
  Spelled = {2}
  TopK = 15
  Scale = 1
  MaxRetries = 1
  MaxEdits = 1
  Asked <- FirstSession
  Outcomes = {0, none}
  Enabled = {"error", "limit", "annotate", "edit", "delete", "move"}
  None = none
  Text = text
SYMMETRY Symmetric
CHECK_DEADLOCK FALSE
INVARIANTS OneScorePerTarget BetterSignalsScoreHigher ReportsAgree
PROPERTIES CompletedIsComplete
