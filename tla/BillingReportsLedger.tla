------------------------- MODULE BillingReportsLedger -------------------------
(***************************************************************************)
(* Overage billing implements the ledger: what has been reserved is read   *)
(* off the first and the last report only, what is owed off the requests   *)
(* Stripe holds no item for, what is invoiced off Stripe's items.          *)
(***************************************************************************)
EXTENDS BillingReports

dueBar ==
  [c \in Categories |->
     IF reports = <<>> THEN 0
     ELSE LET last == reports[Len(reports)]  first == reports[1] IN
          Overage(last.snapshot[c], last.base[c]) - Overage(first.reserved[c], first.base[c])]

\* The charge of one category of a report.
Charge(r, c) == [report |-> r, cat |-> c, units |-> Units(reports[r], c)]

owedBar ==
  UNION {{Charge(r, c) : c \in {d \in reports[r].asked :
                                 \A i \in items : ~(i.key.report = r /\ i.key.cat = d)}} :
           r \in DOMAIN reports}

invoicedBar == {[charge |-> Charge(i.key.report, i.key.cat), id |-> i] : i \in items}

Ledger == INSTANCE OverageLedger
            WITH due <- dueBar, owed <- owedBar, invoiced <- invoicedBar

\* Overage billing implements the ledger: the overage between the first and the
\* last reservation is charged exactly once, unit for unit, or still owed.
ImplementsLedger == Ledger!Spec
===============================================================================
