--------------------------- MODULE BillingReports ---------------------------
(***************************************************************************)
(* Overage billing of ONE usage period of one organisation.                *)
(*                                                                         *)
(* Usage is counted in Redis, copied into the period's usage_records row,  *)
(* reserved there as billing_reports rows (BillingReportingService.stage), *)
(* and delivered to Stripe from those rows (BillingReportingService        *)
(* .deliver) by Celery workers and webhook handlers that run concurrently, *)
(* may die between any two steps, and may be run again at any time.        *)
(*                                                                         *)
(* A database transaction is one step; a Redis read, a commit, a Stripe    *)
(* request and its answer are steps of their own, so that everything the   *)
(* code carries across them may be stale.                                  *)
(***************************************************************************)
EXTENDS Integers, Sequences, FiniteSets, FiniteSetsExt

CONSTANTS Workers,         \* Celery worker children and webhook handlers
          Categories,      \* the keys of _COUNTERS
          Plans, Hobby,    \* SubscriptionPlan; the plan after a deletion
          PayAsYouGo,      \* PLAN_LIMITS[p].pay_as_you_go
          Base,            \* PLAN_LIMITS[p].base_<category>
          StripeSubs,      \* Stripe subscription ids
          OwnSub,          \* the one the period was opened under
          Statuses,        \* SubscriptionStatus values Stripe may send
          None,            \* SQL NULL / Python None / "no lock"
          Orphaned,        \* a lock whose owner died with its token
          Enabled,         \* bound: the handlers and events of this instance
          MaxLegacy,       \* bound: watermark of a row older than the reports table
          MaxCount,        \* bound: highest counter value reached
          MaxBelow,        \* bound: how far a counter falls below 0
          MaxReports       \* bound: reports staged for the period

\* Idempotency keys (pp:report:<report>:<category>[:carryover]) and the Stripe
\* requests they identify.
Keys == [report : Nat, cat : Categories, carry : BOOLEAN]
Requests == [key : Keys, onInvoice : BOOLEAN]

ASSUME BillingAssumption ==
  /\ Hobby \in Plans
  /\ PayAsYouGo \in [Plans -> BOOLEAN]
  /\ Base \in [Plans -> [Categories -> Nat]]
  /\ OwnSub \in StripeSubs
  /\ Enabled \subseteq {"sync", "bill", "created", "paid", "late", "deleted",
                         "updated", "checkout", "refund", "aging", "crash"}
  /\ None \notin StripeSubs \cup Workers \cup Requests
  /\ None \notin [Categories -> Int]
  /\ Orphaned \notin Workers
  /\ MaxCount \in Nat /\ MaxBelow \in Nat /\ MaxReports \in Nat /\ MaxLegacy \in Nat

VARIABLES
  live,      \* the Redis usage hash of the period
  usage,     \* the usage_records row
  sub,       \* the subscriptions row; current: is this its current period?
  reports,   \* the billing_reports rows of the period, in creation order
  watched,   \* is the closure marker still among recent_closures()?
  lock,      \* the Redis overage lock of the organisation
  work,      \* what each worker is doing, and what it remembers
  invoice,   \* Stripe: the renewal invoice that ends the period
  items,     \* Stripe: the invoice items created
  saved,     \* Stripe: idempotency keys it still remembers
  net        \* Stripe requests still in flight whose sender is gone

stripeVars == <<invoice, items, saved, net>>
vars == <<live, usage, sub, reports, watched, lock, work, stripeVars>>

-----------------------------------------------------------------------------
(* State.                                                                  *)

ReportStatus == {"pending", "reported", "needs_review"}

\* BillingReportModel.  A request exists for the categories in asked; its
\* metadata.from_count is reserved[c], its to_count snapshot[c], and its price
\* follows from those and the frozen base.  onInvoice: the request names the
\* renewal invoice; carryover: its idempotency key has the ":carryover" suffix.
Report ==
  [snapshot : [Categories -> Nat], base : [Categories -> Nat],
   reserved : [Categories -> Nat], asked : SUBSET Categories,
   onInvoice : SUBSET Categories, carryover : SUBSET Categories,
   attempted : [Categories -> {"no", "fresh", "old"}],
   itemIds : SUBSET Categories, status : ReportStatus,
   closing : BOOLEAN, stripeSub : StripeSubs \cup {None}]

\* The idempotency key and the frozen request of one category of a report.
Key(r, c, rep) == [report |-> r, cat |-> c, carry |-> c \in rep.carryover]

Request(r, c, rep) ==
  [key |-> Key(r, c, rep), onInvoice |-> c \in rep.onInvoice]

PCs == {"idle", "sync", "bill", "created", "paid", "late", "deleted",
        "deliver", "call", "replied", "downgrade", "dead"}

Idle == [pc |-> "idle", seen |-> None, billed |-> FALSE,
         report |-> 0, request |-> None, item |-> FALSE, deleting |-> FALSE]

Local ==
  [pc : PCs, seen : [Categories -> Int] \cup {None}, billed : BOOLEAN, report : Nat,
   request : Requests \cup {None}, item : BOOLEAN, deleting : BOOLEAN]

Init ==
  /\ live = None
  /\ \E legacy \in [Categories -> 0..MaxLegacy] :
       usage = [count |-> legacy, reported |-> legacy, billed |-> FALSE]
  /\ \E p \in Plans \ {Hobby} :
       sub = [plan |-> p, stripeSub |-> OwnSub, status |-> "ACTIVE", current |-> TRUE]
  /\ reports = <<>>
  /\ watched = TRUE
  /\ lock = None
  /\ work = [w \in Workers |-> Idle]
  /\ invoice = "none"
  /\ items = {}
  /\ saved = {}
  /\ net = {}

-----------------------------------------------------------------------------
(* Pure arithmetic of a reservation.                                       *)

Larger(a, b) == IF a >= b THEN a ELSE b

Overage(n, base) == Larger(0, n - base)

\* Mutant: only the confirmed watermark counts, as before reports were durable.
ReservedByWatermark(u, rs, c) == u.reported[c]

\* Mutant: a report counts only once Stripe has confirmed it.
ReservedByReported(u, rs, c) ==
  Max({u.reported[c]} \cup
    {rs[r].snapshot[c] : r \in {q \in DOMAIN rs : rs[q].status = "reported"}})

\* What earlier reports and the watermark already account for.
Reserved(u, rs, c) ==
  Max({u.reported[c]} \cup {rs[r].snapshot[c] : r \in DOMAIN rs})

\* Units a report charges for one category.
Units(rep, c) ==
  Overage(rep.snapshot[c], rep.base[c]) - Overage(rep.reserved[c], rep.base[c])

\* The row stage() would insert.  Pricing and Stripe identity are frozen by the
\* first report of the period.
NewReport(u, rs, closing, onInvoice) ==
  LET base == IF rs = <<>> THEN Base[sub.plan] ELSE rs[1].base
      reserved == [c \in Categories |-> Reserved(u, rs, c)]
      snapshot == [c \in Categories |-> Larger(reserved[c], u.count[c])]
      asked == {c \in Categories :
                  Overage(snapshot[c], base[c]) > Overage(reserved[c], base[c])}
  IN [snapshot |-> snapshot, base |-> base, reserved |-> reserved,
      asked |-> asked,
      onInvoice |-> IF onInvoice THEN asked ELSE {},
      carryover |-> {},
      attempted |-> [c \in Categories |-> "no"],
      itemIds |-> {},
      status |-> IF asked = {} THEN "reported" ELSE "pending",
      closing |-> closing,
      stripeSub |-> IF rs = <<>> THEN sub.stripeSub ELSE rs[1].stripeSub]

\* Mutant: a closed period is never staged again.
StageOpenOnly(u, rs, closing, onInvoice, allowClosed) ==
  LET new == NewReport(u, rs, closing, onInvoice) IN
  IF u.billed \/ (new.asked = {} /\ ~closing) THEN rs ELSE Append(rs, new)

\* BillingReportingService.stage: the reports after it, given the usage row it locks.
Stage(u, rs, closing, onInvoice, allowClosed) ==
  LET new == NewReport(u, rs, closing, onInvoice) IN
  IF \/ u.billed /\ ~allowClosed
     \/ closing /\ \E r \in DOMAIN rs : rs[r].closing
     \/ ~PayAsYouGo[sub.plan] /\ rs = <<>>
     \/ new.asked = {} /\ ~closing
  THEN rs
  ELSE Append(rs, new)

\* Mutant: the watermark follows the newest confirmed report.
WatermarkConfirmed(u, rs, r, c) ==
  Max({u.reported[c]} \cup
    {rs[q].snapshot[c] :
       q \in {p \in DOMAIN rs : rs[p].status = "reported" \/ p = r}})

\* BillingReportRepository.finish: the new watermark of one category when report
\* r is confirmed, never past the start of a charge that is not.
Watermark(u, rs, r, c) ==
  LET confirmed == Max({u.reported[c]} \cup
                     {rs[q].snapshot[c] :
                        q \in {p \in DOMAIN rs : rs[p].status = "reported" \/ p = r}})
      unresolved == {rs[q].reserved[c] :
                       q \in {p \in DOMAIN rs : c \in rs[p].asked \ rs[p].itemIds}}
  IN Larger(u.reported[c], Min({confirmed} \cup unresolved))

-----------------------------------------------------------------------------
(* Workers.                                                                *)

\* The report row is locked by a transaction that spans a Stripe call, or by a
\* closed-period check (SELECT ... FOR UPDATE SKIP LOCKED).
RowLocked(r) ==
  \E w \in Workers : work[w].report = r /\ work[w].pc \in {"call", "replied", "late"}

Become(w, local) == work' = [work EXCEPT ![w] = local]
Finish(w) == Become(w, Idle)

\* repo.update: the row of report r becomes row.
Update(r, row) == reports' = [reports EXCEPT ![r] = row]

\* release_owned_lock: only the current owner's token deletes the key.
Released(w) == IF lock = w THEN None ELSE lock

\* The usage row after sync_to_database writes what was read from Redis; an
\* empty hash is not written.
Synced(w) ==
  IF work[w].seen = None THEN usage ELSE [usage EXCEPT !.count = work[w].seen]

\* A handler has read the Redis hash (HGETALL) and keeps the numbers.
Read(w, pc) ==
  Become(w, [Idle EXCEPT !.pc = pc, !.seen = live, !.billed = usage.billed])

\* report_overages_to_stripe after its commit: deliver what was just staged.
ThenDeliver(w) ==
  IF Len(reports') > Len(reports)
  THEN /\ Become(w, [Idle EXCEPT !.pc = "deliver", !.report = Len(reports')])
       /\ UNCHANGED lock
  ELSE Finish(w) /\ lock' = Released(w)

\* handle_subscription_deleted goes on to its second transaction.
EndDelete(w) ==
  Become(w, [Idle EXCEPT !.pc = "downgrade", !.deleting = TRUE])

\* deliver_safely returns to its caller, which releases the overage lock.
EndDeliver(w) ==
  /\ lock' = Released(w)
  /\ IF work[w].deleting THEN EndDelete(w) ELSE Finish(w)

-----------------------------------------------------------------------------
(* Redis counters: UsageService.check_and_increment, rollback_increment and *)
(* the expiry of the key.                                                   *)

\* HINCRBY takes a field that is not there for 0.
Counted == IF live = None THEN [c \in Categories |-> 0] ELSE live

Increment(c) ==
  /\ Counted[c] < MaxCount
  /\ live' = [Counted EXCEPT ![c] = @ + 1]
  /\ UNCHANGED <<usage, sub, reports, lock, work, stripeVars, watched>>

\* The script does not look at the counter: a unit counted in the period before, or
\* before the key expired, is given back all the same.
Refund(c) ==
  /\ "refund" \in Enabled
  /\ Counted[c] > -MaxBelow
  /\ live' = [Counted EXCEPT ![c] = @ - 1]
  /\ UNCHANGED <<usage, sub, reports, lock, work, stripeVars, watched>>

KeyExpires ==
  /\ ~sub.current /\ live # None
  /\ live' = None
  /\ UNCHANGED <<usage, sub, reports, lock, work, stripeVars, watched>>

-----------------------------------------------------------------------------
(* sync_single_org_usage.                                                  *)

SyncBegin(w) ==
  /\ "sync" \in Enabled /\ work[w].pc = "idle" /\ sub.current
  /\ Read(w, "sync")
  /\ UNCHANGED <<live, usage, sub, reports, lock, stripeVars, watched>>

SyncWrite(w) ==
  /\ work[w].pc = "sync"
  /\ usage' = Synced(w)
  /\ Finish(w)
  /\ UNCHANGED <<live, sub, reports, lock, stripeVars, watched>>

(* bill_single_org.  The task was queued while the organisation was active *)
(* and paying; it does not look again.                                     *)

BillBegin(w) ==
  /\ "bill" \in Enabled /\ work[w].pc = "idle" /\ sub.current
  /\ lock = None
  /\ lock' = w
  /\ Read(w, "bill")
  /\ UNCHANGED <<live, usage, sub, reports, stripeVars, watched>>

BillStage(w) ==
  /\ work[w].pc = "bill"
  /\ usage' = Synced(w)
  /\ reports' = IF sub.current THEN Stage(usage', reports, FALSE, FALSE, FALSE)
                               ELSE reports
  /\ Len(reports') <= MaxReports
  /\ ThenDeliver(w)
  /\ UNCHANGED <<live, sub, stripeVars, watched>>

(* invoice.created, for the renewal invoice.  A busy lock makes Stripe     *)
(* deliver the event again.                                                *)

InvoiceCreatedBegin(w) ==
  /\ "created" \in Enabled /\ work[w].pc = "idle"
  /\ invoice # "none" /\ sub.stripeSub = OwnSub /\ PayAsYouGo[sub.plan]
  /\ lock = None
  /\ lock' = w
  /\ Read(w, "created")
  /\ UNCHANGED <<live, usage, sub, reports, stripeVars, watched>>

InvoiceCreatedStage(w) ==
  /\ work[w].pc = "created"
  /\ usage' = IF work[w].billed THEN usage ELSE Synced(w)
  /\ reports' = Stage(usage', reports, FALSE, TRUE, FALSE)
  /\ Len(reports') <= MaxReports
  /\ ThenDeliver(w)
  /\ UNCHANGED <<live, sub, stripeVars, watched>>

(* invoice.paid, for the renewal invoice: reservation, closure and period  *)
(* change commit together.                                                 *)

InvoicePaidBegin(w) ==
  /\ "paid" \in Enabled /\ work[w].pc = "idle"
  /\ invoice = "final" /\ sub.stripeSub = OwnSub
  /\ lock = None
  /\ lock' = w
  /\ Read(w, "paid")
  /\ UNCHANGED <<live, usage, sub, reports, stripeVars, watched>>

\* Mutant: the closing reservation is computed before the counters are synced.
InvoicePaidCloseUnsynced(w) ==
  /\ work[w].pc = "paid"
  /\ IF work[w].billed
     THEN UNCHANGED <<usage, reports>>
     ELSE /\ usage' = [Synced(w) EXCEPT !.billed = TRUE]
          /\ reports' = Stage(usage, reports, TRUE, FALSE, FALSE)
          /\ Len(reports') <= MaxReports
  /\ sub' = [sub EXCEPT !.current = FALSE, !.status = "ACTIVE"]
  /\ lock' = Released(w)
  /\ Finish(w)
  /\ UNCHANGED <<live, stripeVars, watched>>

InvoicePaidClose(w) ==
  /\ work[w].pc = "paid"
  /\ IF work[w].billed
     THEN UNCHANGED <<usage, reports>>
     ELSE /\ usage' = [Synced(w) EXCEPT !.billed = TRUE]
          /\ reports' = Stage(Synced(w), reports, TRUE, FALSE, FALSE)
          /\ Len(reports') <= MaxReports
  /\ sub' = [sub EXCEPT !.current = FALSE, !.status = "ACTIVE"]
  /\ lock' = Released(w)
  /\ Finish(w)
  /\ UNCHANGED <<live, stripeVars, watched>>

(* check_closed_billing_period: runs under the closure marker's row lock.  *)

LateBegin(w, r) ==
  /\ "late" \in Enabled /\ work[w].pc = "idle"
  /\ reports[r].closing /\ watched /\ ~RowLocked(r)
  /\ Become(w, [Idle EXCEPT !.pc = "late", !.seen = live, !.report = r])
  /\ UNCHANGED <<live, usage, sub, reports, lock, stripeVars, watched>>

LateStage(w) ==
  /\ work[w].pc = "late"
  /\ usage' = Synced(w)
  /\ reports' = Stage(usage', reports, FALSE, FALSE, TRUE)
  /\ Len(reports') <= MaxReports
  /\ Finish(w)
  /\ UNCHANGED <<live, sub, lock, stripeVars, watched>>

\* USAGE_KEY_BUFFER_DAYS after the closure the dispatcher stops following it up.
WatchEnds ==
  /\ watched /\ \E r \in DOMAIN reports : reports[r].closing
  /\ watched' = FALSE
  /\ UNCHANGED <<live, usage, sub, reports, lock, work, stripeVars>>

(* customer.subscription.deleted: sync, report if the overage lock is free,  *)
(* then close the period and downgrade in a second transaction.             *)

DeletedBegin(w) ==
  /\ "deleted" \in Enabled /\ work[w].pc = "idle" /\ sub.stripeSub = OwnSub
  /\ IF PayAsYouGo[sub.plan] /\ sub.current
     THEN Read(w, "deleted")
     ELSE Become(w, [Idle EXCEPT !.pc = "downgrade"])
  /\ UNCHANGED <<live, usage, sub, reports, lock, stripeVars, watched>>

DeletedStage(w) ==
  /\ work[w].pc = "deleted" /\ lock = None
  /\ usage' = Synced(w)
  /\ reports' = IF sub.current THEN Stage(usage', reports, FALSE, FALSE, FALSE)
                               ELSE reports
  /\ Len(reports') <= MaxReports
  /\ IF Len(reports') > Len(reports)
     THEN /\ Become(w, [Idle EXCEPT !.pc = "deliver", !.deleting = TRUE,
                                    !.report = Len(reports')])
          /\ lock' = w
     ELSE EndDelete(w) /\ UNCHANGED lock
  /\ UNCHANGED <<live, sub, stripeVars, watched>>

Downgraded ==
  [plan |-> Hobby, stripeSub |-> None, status |-> "ACTIVE", current |-> FALSE]

\* The lock is held elsewhere: the report is skipped, the period still closed.
DeletedSkip(w) ==
  /\ work[w].pc = "deleted" /\ lock # None
  /\ usage' = [Synced(w) EXCEPT !.billed = TRUE]
  /\ sub' = Downgraded
  /\ Finish(w)
  /\ UNCHANGED <<live, reports, lock, stripeVars, watched>>

Downgrade(w) ==
  /\ work[w].pc = "downgrade"
  /\ usage' = [usage EXCEPT !.billed = @ \/ work[w].deleting]
  /\ sub' = Downgraded
  /\ Finish(w)
  /\ UNCHANGED <<live, reports, lock, stripeVars, watched>>

(* Other subscription webhooks, as far as delivery and staging look at them. *)

SubscriptionUpdated ==
  /\ "updated" \in Enabled
  /\ sub.stripeSub # None
  /\ \E p \in Plans \ {Hobby}, s \in Statuses, advance \in BOOLEAN :
       sub' = [sub EXCEPT !.plan = p, !.status = s, !.current = @ /\ ~advance]
  /\ UNCHANGED <<live, usage, reports, lock, work, stripeVars, watched>>

CheckoutCompleted ==
  /\ "checkout" \in Enabled
  /\ \E p \in Plans \ {Hobby}, s \in StripeSubs \ {OwnSub} :
       sub' = [plan |-> p, stripeSub |-> s, status |-> "ACTIVE", current |-> FALSE]
  /\ UNCHANGED <<live, usage, reports, lock, work, stripeVars, watched>>

-----------------------------------------------------------------------------
(* BillingReportingService.deliver.  Every iteration locks the row anew.   *)

DeliverBegin(w, r) ==
  /\ work[w].pc = "idle" /\ reports[r].status = "pending"
  /\ Become(w, [Idle EXCEPT !.pc = "deliver", !.report = r])
  /\ UNCHANGED <<live, usage, sub, reports, lock, stripeVars, watched>>

\* Worker w is at the top of the loop and lock_report gave it the pending row.
Holds(w) ==
  /\ work[w].pc = "deliver"
  /\ ~RowLocked(work[w].report)
  /\ reports[work[w].report].status = "pending"

DeliverExit(w) ==
  /\ work[w].pc = "deliver" /\ ~Holds(w)
  /\ EndDeliver(w)
  /\ UNCHANGED <<live, usage, sub, reports, stripeVars, watched>>

\* Mutant: a report is finished once every charge was attempted.
DeliverFinishAttempted(w) ==
  LET r == work[w].report IN
  /\ Holds(w)
  /\ \A c \in reports[r].asked : reports[r].attempted[c] # "no"
  /\ usage' = [usage EXCEPT !.reported =
                 [c \in Categories |-> Watermark(usage, reports, r, c)]]
  /\ Update(r, [reports[r] EXCEPT !.status = "reported"])
  /\ EndDeliver(w)
  /\ UNCHANGED <<live, sub, stripeVars, watched>>

DeliverFinish(w) ==
  LET r == work[w].report IN
  /\ Holds(w)
  /\ reports[r].asked \subseteq reports[r].itemIds
  /\ usage' = [usage EXCEPT !.reported =
                 [c \in Categories |-> Watermark(usage, reports, r, c)]]
  /\ Update(r, [reports[r] EXCEPT !.status = "reported"])
  /\ EndDeliver(w)
  /\ UNCHANGED <<live, sub, stripeVars, watched>>

\* No invoice to put the charge on, and no subscription to carry it over.
Uncollectable(r, c) ==
  /\ ~(c \in reports[r].onInvoice /\ invoice = "draft")
  /\ reports[r].stripeSub # None
  /\ sub.stripeSub # reports[r].stripeSub \/ sub.status = "CANCELED"

Todo(r) == reports[r].asked \ reports[r].itemIds

Review(w, r) ==
  /\ Update(r, [reports[r] EXCEPT !.status = "needs_review"])
  /\ EndDeliver(w)

DeliverUncollectable(w, c) ==
  LET r == work[w].report IN
  /\ Holds(w) /\ c \in Todo(r) /\ reports[r].attempted[c] = "no"
  /\ Uncollectable(r, c)
  /\ Review(w, r)
  /\ UNCHANGED <<live, usage, sub, stripeVars, watched>>

\* Mutant: the charge is recalculated from live usage when it is prepared.
DeliverPrepareLive(w, c) ==
  LET r == work[w].report IN
  /\ Holds(w) /\ c \in Todo(r) /\ reports[r].attempted[c] = "no"
  /\ ~Uncollectable(r, c)
  /\ Update(r, [reports[r] EXCEPT !.snapshot[c] = Larger(@, usage.count[c]),
                                  !.attempted[c] = "fresh"])
  /\ UNCHANGED <<live, usage, sub, lock, work, stripeVars, watched>>

\* Intent is committed before the network call.
DeliverPrepare(w, c) ==
  LET r == work[w].report IN
  /\ Holds(w) /\ c \in Todo(r) /\ reports[r].attempted[c] = "no"
  /\ ~Uncollectable(r, c)
  /\ Update(r, [reports[r] EXCEPT
                  !.onInvoice = IF invoice = "draft" THEN @ ELSE @ \ {c},
                  !.attempted[c] = "fresh"])
  /\ UNCHANGED <<live, usage, sub, lock, work, stripeVars, watched>>

\* Mutant: the request is repeated however old the first attempt is.
DeliverSendAnyAge(w, c) ==
  LET r == work[w].report IN
  /\ Holds(w) /\ c \in Todo(r) /\ reports[r].attempted[c] # "no"
  /\ Become(w, [work[w] EXCEPT !.pc = "call", !.request = Request(r, c, reports[r])])
  /\ UNCHANGED <<live, usage, sub, reports, lock, stripeVars, watched>>

DeliverSend(w, c) ==
  LET r == work[w].report IN
  /\ Holds(w) /\ c \in Todo(r) /\ reports[r].attempted[c] = "fresh"
  /\ Become(w, [work[w] EXCEPT !.pc = "call", !.request = Request(r, c, reports[r])])
  /\ UNCHANGED <<live, usage, sub, reports, lock, stripeVars, watched>>

RecordItem(w) ==
  LET r == work[w].report  c == work[w].request.key.cat IN
  /\ work[w].pc = "replied" /\ work[w].item
  /\ Update(r, [reports[r] EXCEPT !.itemIds = @ \cup {c}])
  /\ Become(w, [work[w] EXCEPT !.pc = "deliver", !.request = None, !.item = FALSE])
  /\ UNCHANGED <<live, usage, sub, lock, stripeVars, watched>>

\* Stripe rejected the request because the invoice is final.
Carryover(w) ==
  LET r == work[w].report  c == work[w].request.key.cat IN
  /\ work[w].pc = "replied" /\ ~work[w].item
  /\ Update(r, [reports[r] EXCEPT !.onInvoice = @ \ {c},
                                  !.carryover = @ \cup {c},
                                  !.attempted[c] = "no"])
  /\ Become(w, [work[w] EXCEPT !.pc = "deliver", !.request = None])
  /\ UNCHANGED <<live, usage, sub, lock, stripeVars, watched>>

\* Mutant: an item that cannot be found leaves the report as it is.
DeliverRecoverFoundOnly(w, c) ==
  LET r == work[w].report IN
  /\ Holds(w) /\ c \in Todo(r) /\ reports[r].attempted[c] = "old"
  /\ \E i \in items : i.key.report = r /\ i.key.cat = c
  /\ Update(r, [reports[r] EXCEPT !.itemIds = @ \cup {c}])
  /\ UNCHANGED <<live, usage, sub, lock, work, stripeVars, watched>>

\* More than 23 hours after the first attempt: look the item up instead.
DeliverRecover(w, c) ==
  LET r == work[w].report IN
  /\ Holds(w) /\ c \in Todo(r) /\ reports[r].attempted[c] = "old"
  /\ \/ /\ \E i \in items : i.key.report = r /\ i.key.cat = c
        /\ Update(r, [reports[r] EXCEPT !.itemIds = @ \cup {c}])
        /\ UNCHANGED <<lock, work>>
     \/ Review(w, r)         \* nothing found, or the bounded scan ended first
  /\ UNCHANGED <<live, usage, sub, stripeVars, watched>>

\* deliver_safely: an exception (of the database, or of any Stripe call of the
\* iteration) leaves the row pending.  A creation request may never have left, or
\* may still reach Stripe.
DeliverFails(w) ==
  /\ work[w].pc \in {"deliver", "call", "replied"}
  /\ \/ net' = net
     \/ work[w].pc = "call" /\ net' = net \cup {work[w].request}
  /\ EndDeliver(w)
  /\ UNCHANGED <<live, usage, sub, reports, invoice, items, saved, watched>>

-----------------------------------------------------------------------------
(* Stripe, and what happens to the processes (external to the repository). *)

\* A request reaches Stripe.  A remembered idempotency key answers with the item
\* it created; a request for an invoice that is final is rejected; any other
\* creates an item.  nth tells a second item for the same key apart.
Accepted(q) == q.key \in saved \/ ~q.onInvoice \/ invoice = "draft"

Arrive(q) ==
  IF q.key \notin saved /\ Accepted(q)
  THEN /\ saved' = saved \cup {q.key}
       /\ items' = items \cup
            {[key |-> q.key, nth |-> Cardinality({i \in items : i.key = q.key}) + 1]}
  ELSE UNCHANGED <<saved, items>>

StripeAnswers(w) ==
  /\ work[w].pc = "call"
  /\ Arrive(work[w].request)
  /\ Become(w, [work[w] EXCEPT !.pc = "replied", !.item = Accepted(work[w].request)])
  /\ UNCHANGED <<live, usage, sub, reports, lock, invoice, net, watched>>

\* A request whose sender gave up or died is processed after all.
StripeLate(q) ==
  /\ Arrive(q)
  /\ net' = net \ {q}
  /\ UNCHANGED <<live, usage, sub, reports, lock, work, invoice, watched>>

InvoiceDrafted ==
  /\ invoice = "none"
  /\ invoice' = "draft"
  /\ UNCHANGED <<live, usage, sub, reports, lock, work, items, saved, net, watched>>

InvoiceFinalized ==
  /\ invoice = "draft"
  /\ invoice' = "final"
  /\ UNCHANGED <<live, usage, sub, reports, lock, work, items, saved, net, watched>>

\* 23 hours pass since the recorded attempt.
AttemptAges(r, c) ==
  /\ "aging" \in Enabled
  /\ c \in Todo(r) /\ reports[r].attempted[c] = "fresh"
  /\ Update(r, [reports[r] EXCEPT !.attempted[c] = "old"])
  /\ UNCHANGED <<live, usage, sub, lock, work, stripeVars, watched>>

\* 24 hours pass: Stripe may drop the key; no request with it is still under way.
KeyForgotten(k) ==
  /\ reports[k.report].attempted[k.cat] = "old"
  /\ \A q \in net : q.key # k
  /\ \A w \in Workers : work[w].pc = "call" => work[w].request.key # k
  /\ saved' = saved \ {k}
  /\ UNCHANGED <<live, usage, sub, reports, lock, work, invoice, items, net, watched>>

\* A worker dies: its transaction rolls back and its row locks go, but the Redis
\* lock stays until it expires, and a Stripe request may still arrive.
Crash(w) ==
  /\ "crash" \in Enabled
  /\ work[w].pc \notin {"idle", "dead"}
  /\ Become(w, [Idle EXCEPT !.pc = "dead"])
  /\ lock' = IF lock = w THEN Orphaned ELSE lock
  /\ \/ net' = net
     \/ work[w].pc = "call" /\ net' = net \cup {work[w].request}
  /\ UNCHANGED <<live, usage, sub, reports, invoice, items, saved, watched>>

\* The pool replaces a dead child.
Restart(w) ==
  /\ work[w].pc = "dead"
  /\ Finish(w)
  /\ UNCHANGED <<live, usage, sub, reports, lock, stripeVars, watched>>

\* The lock's TTL of 60 seconds runs out, whoever holds it.
LockExpires ==
  /\ lock # None
  /\ lock' = None
  /\ UNCHANGED <<live, usage, sub, reports, work, stripeVars, watched>>

-----------------------------------------------------------------------------

Counters == KeyExpires \/ \E c \in Categories : Increment(c) \/ Refund(c)

Staging(w) ==
  \/ SyncBegin(w) \/ SyncWrite(w)
  \/ BillBegin(w) \/ BillStage(w)
  \/ InvoiceCreatedBegin(w) \/ InvoiceCreatedStage(w)
  \/ InvoicePaidBegin(w) \/ InvoicePaidClose(w)
  \/ LateStage(w)
  \/ \E r \in DOMAIN reports : LateBegin(w, r)
  \/ DeletedBegin(w) \/ DeletedStage(w) \/ DeletedSkip(w) \/ Downgrade(w)

Delivering(w) ==
  \/ \E r \in DOMAIN reports : DeliverBegin(w, r)
  \/ DeliverExit(w) \/ DeliverFinish(w)
  \/ \E c \in Categories : \/ DeliverUncollectable(w, c) \/ DeliverPrepare(w, c)
                           \/ DeliverSend(w, c) \/ DeliverRecover(w, c)
  \/ RecordItem(w) \/ Carryover(w) \/ DeliverFails(w)

Outside ==
  \/ WatchEnds
  \/ SubscriptionUpdated \/ CheckoutCompleted
  \/ InvoiceDrafted \/ InvoiceFinalized
  \/ \E w \in Workers : StripeAnswers(w)
  \/ \E q \in net : StripeLate(q)
  \/ \E k \in saved : KeyForgotten(k)
  \/ \E r \in DOMAIN reports, c \in Categories : AttemptAges(r, c)

Failures == LockExpires \/ \E w \in Workers : Crash(w) \/ Restart(w)

Next == \/ Counters \/ Outside \/ Failures
        \/ \E w \in Workers : Staging(w) \/ Delivering(w)

Spec == Init /\ [][Next]_vars

-----------------------------------------------------------------------------
(* Properties.                                                             *)

\* Types of the rows, of Stripe's objects and of what a worker remembers: a count
\* that was synced may be negative, a watermark and a reservation never are.
TypeOK ==
  /\ live \in [Categories -> Int] \cup {None}
  /\ usage \in [count : [Categories -> Int], reported : [Categories -> Nat],
                billed : BOOLEAN]
  /\ sub \in [plan : Plans, stripeSub : StripeSubs \cup {None},
              status : Statuses \cup {"ACTIVE"}, current : BOOLEAN]
  /\ reports \in Seq(Report)
  /\ watched \in BOOLEAN
  /\ lock \in Workers \cup {None, Orphaned}
  /\ work \in [Workers -> Local]
  /\ invoice \in {"none", "draft", "final"}
  /\ items \subseteq [key : Keys, nth : Nat]
  /\ saved \subseteq Keys
  /\ net \subseteq Requests

\* Reservations tile the usage: each report reserves from exactly where the one
\* before it stopped, so no unit is reserved twice and none is skipped, however
\* stages, lock expiries, late checks and counters going backwards interleave.
ReservationsTile ==
  \A r, q \in DOMAIN reports : \A c \in Categories :
    q = r + 1 => reports[q].reserved[c] = reports[r].snapshot[c]

\* No charge reaches Stripe twice, whatever is retried, lost or delayed.
NoDoubleCharge ==
  \A i, j \in items : i.key.report = j.key.report /\ i.key.cat = j.key.cat => i = j

\* finish(): the watermark never passes the start of a charge that has no item.
WatermarkSafe ==
  \A r \in DOMAIN reports : \A c \in Todo(r) : usage.reported[c] <= reports[r].reserved[c]

\* The types hold, and a report is reported only when Stripe holds an item for each of
\* its charges.
ReportedIsCharged ==
  /\ TypeOK
  /\ \A r \in DOMAIN reports : reports[r].status = "reported" =>
       \A c \in reports[r].asked : \E i \in items : i.key.report = r /\ i.key.cat = c

\* The watermark only moves forward, and what a report reserved (its counts, its
\* price base, the charges it owes) never changes once committed: retries do not
\* recalculate a charge from live usage.
ReservationsFrozen ==
  [][/\ \A c \in Categories : usage'.reported[c] >= usage.reported[c]
     /\ \A r \in DOMAIN reports :
          /\ reports'[r].snapshot = reports[r].snapshot
          /\ reports'[r].reserved = reports[r].reserved
          /\ reports'[r].base = reports[r].base
          /\ reports'[r].asked = reports[r].asked]_vars

\* Closing the period leaves nothing behind: at the step that marks the usage row
\* billed, all the overage counted in the row has been reserved by some report.
CloseReservesAll ==
  [][~usage.billed /\ usage'.billed =>
       \A c \in Categories :
         \/ ~PayAsYouGo[sub.plan]
         \/ usage'.count[c] <= Base[sub.plan][c]
         \/ usage'.count[c] <= usage'.reported[c]
         \/ \E r \in DOMAIN reports' : usage'.count[c] <= reports'[r].snapshot[c]]_vars

\* Every staged report is settled: each charge reaches Stripe, or the report is
\* handed to an operator, even though answers are lost and workers die.
EventuallySettled ==
  \A r \in 1..MaxReports :
    (r \in DOMAIN reports /\ reports[r].status = "pending")
      ~> (r \in DOMAIN reports /\ reports[r].status # "pending")

\* Usage counted late in a closed period, beyond what the plan includes, is reserved
\* too, as long as the Redis key lives and the closure marker keeps the period under
\* observation.
LateUsageReserved ==
  \A c \in Categories, n \in 1..MaxCount :
    ((\E r \in DOMAIN reports : reports[r].closing) /\ live # None /\ live[c] >= n)
      ~> (~watched \/ live = None \/ live[c] < n
          \/ \E r \in DOMAIN reports : n <= Larger(reports[r].base[c], reports[r].snapshot[c]))

\* Fairness.  The beat schedule queues a delivery for every pending report and a
\* check for every recent closure every five minutes, and a queued task is eventually
\* run; a running task goes on, and Stripe answers; outages and crashes do not go
\* on for ever.
WorkerStep(w) ==
  \/ SyncWrite(w) \/ BillStage(w) \/ InvoiceCreatedStage(w) \/ InvoicePaidClose(w)
  \/ LateStage(w) \/ DeletedStage(w) \/ DeletedSkip(w) \/ Downgrade(w)
  \/ DeliverExit(w) \/ DeliverFinish(w) \/ RecordItem(w) \/ Carryover(w)
  \/ StripeAnswers(w) \/ Restart(w)
  \/ \E c \in Categories : \/ DeliverUncollectable(w, c) \/ DeliverPrepare(w, c)
                           \/ DeliverSend(w, c) \/ DeliverRecover(w, c)

Fails(w) == Crash(w) \/ DeliverFails(w)

Fairness ==
  /\ \A w \in Workers : WF_vars(WorkerStep(w))
  /\ SF_vars(\E r \in DOMAIN reports, w \in Workers : LateBegin(w, r))
  /\ <>[][\A w \in Workers : ~Fails(w)]_vars

FairSpec ==
  /\ Spec /\ Fairness
  /\ \A r \in 1..MaxReports :
       SF_vars(r \in DOMAIN reports /\ \E w \in Workers : DeliverBegin(w, r))
=============================================================================
