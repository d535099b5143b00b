SPECIFICATION Spec
CONSTANTS
  t1 = t1
  t2 = t2
  s1 = s1
  s2 = s2
  ses = ses
  usr = usr
  mod = mod
  Traces = {t1, t2}
  Spans = {s1, s2}
  Sessions = {ses}
  EndUsers = {usr}
  Models = {mod}
  Tags = {"a", "b"}
  MetaKeys = {"x", "y", "z"}
  Times = {0, 1}
  Payloads <- SdkPayloads
  SpanBodies <- LateSpan
  Patches <- Edits
  SpanTokens = {0}
  TagEdits <- SwapTags
  Tasks = {k1, k2}
  Requests = {r1}
  MaxRetries = 1
  Granularity = 1
  None = none
CHECK_DEADLOCK FALSE
INVARIANTS NothingForgotten SpansHaveTraces TotalsAgree
PROPERTIES Settles
