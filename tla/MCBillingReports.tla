--------------------------- MODULE MCBillingReports ---------------------------
EXTENDS BillingReportsLedger, TLC

CONSTANTS HOBBY, PRO, ENTERPRISE

PlanBase == [p \in Plans |-> [c \in Categories |-> IF p = PRO THEN 1 ELSE 0]]
PlanPayAsYouGo == [p \in Plans |-> p # HOBBY]

WorkerSymmetry == Permutations(Workers)
===============================================================================
