---------------------------- MODULE BillingProofs ----------------------------
(***************************************************************************)
(* Proofs about BillingReports, for any number of workers, categories,     *)
(* plans, reports and counter values; and, in the last section, about      *)
(* WebhookEvents, for any number of deliveries.                            *)
(***************************************************************************)
EXTENDS BillingReportsLedger, WebhookEvents, FiniteSetTheorems, NaturalsInduction, WellFoundedInduction, TLAPS

-----------------------------------------------------------------------------
(* Extrema of sets of numbers.                                             *)

LEMMA MinExists ==
  ASSUME NEW S, S \subseteq Nat, S # {}
  PROVE  \E x \in S : \A y \in S : x <= y
<1> DEFINE R == {ss \in Nat \X Nat : ss[1] < ss[2]}
<1>1. IsWellFoundedOn(R, Nat)
  BY NatLessThanWellFounded DEF OpToRel
<1> HIDE DEF R
<1>2. PICK x \in S : \A y \in S : ~(<<y, x>> \in R)
  BY <1>1, WFMin
<1>3. ASSUME NEW y \in S, y < x PROVE FALSE
  <2>1. <<y, x>> \in Nat \X Nat /\ <<y, x>>[1] < <<y, x>>[2]
    BY <1>3
  <2>2. <<y, x>> \in R
    BY <2>1 DEF R
  <2> QED BY <2>2, <1>2
<1> QED BY <1>3

LEMMA MinProperty ==
  ASSUME NEW S, S \subseteq Nat, S # {}
  PROVE  Min(S) \in S /\ \A y \in S : Min(S) <= y
<1>1. \E x \in S : \A y \in S : x <= y
  BY MinExists
<1> QED BY <1>1 DEF Min

LEMMA MaxExists ==
  ASSUME NEW S, S \subseteq Nat, S # {}, NEW n \in Nat, \A y \in S : y <= n
  PROVE  \E x \in S : \A y \in S : y <= x
<1> DEFINE T == {n - y : y \in S}
<1>1. T \subseteq Nat /\ T # {}
  <2>1. \A y \in S : n - y \in Nat
    OBVIOUS
  <2> QED BY <2>1
<1>2. PICK t \in T : \A u \in T : t <= u
  BY <1>1, MinExists
<1>3. PICK x \in S : t = n - x
  OBVIOUS
<1>4. ASSUME NEW y \in S PROVE y <= x
  <2>1. n - y \in T
    OBVIOUS
  <2> QED BY <2>1, <1>2, <1>3
<1> QED BY <1>4

LEMMA MaxProperty ==
  ASSUME NEW S, S \subseteq Nat, S # {}, NEW n \in Nat, \A y \in S : y <= n
  PROVE  Max(S) \in S /\ \A y \in S : y <= Max(S)
<1>1. \E x \in S : \A y \in S : x >= y
  BY MaxExists
<1> QED BY <1>1 DEF Max

-----------------------------------------------------------------------------
(* The inductive invariant.                                                *)

\* Later reports never stop short of earlier ones.
Monotone(rs) ==
  \A q, r \in DOMAIN rs : \A c \in Categories :
    q <= r => rs[q].snapshot[c] <= rs[r].snapshot[c]

\* The watermark does not overtake the last reservation.
Bounded(u, rs) ==
  rs # <<>> => \A c \in Categories : u.reported[c] <= rs[Len(rs)].snapshot[c]

\* A reservation ends where it starts or later.
Ascending(rs) ==
  \A r \in DOMAIN rs : \A c \in Categories : rs[r].reserved[c] <= rs[r].snapshot[c]

\* The invariants of the runs, for a given row and list of reports.
Tile(rs) ==
  \A r, q \in DOMAIN rs : \A c \in Categories :
    q = r + 1 => rs[q].reserved[c] = rs[r].snapshot[c]

Safe(u, rs) ==
  \A r \in DOMAIN rs : \A c \in rs[r].asked \ rs[r].itemIds :
    u.reported[c] <= rs[r].reserved[c]

Sound(u, rs) ==
  Monotone(rs) /\ Bounded(u, rs) /\ Ascending(rs) /\ Tile(rs) /\ Safe(u, rs)

UsageType == [count : [Categories -> Int], reported : [Categories -> Nat],
              billed : BOOLEAN]

LEMMA ReservedProperty ==
  ASSUME NEW u \in UsageType, NEW rs \in Seq(Report), Monotone(rs), NEW c \in Categories
  PROVE  /\ Reserved(u, rs, c) \in Nat
         /\ u.reported[c] <= Reserved(u, rs, c)
         /\ \A r \in DOMAIN rs : rs[r].snapshot[c] <= Reserved(u, rs, c)
         /\ rs # <<>> /\ Bounded(u, rs) => Reserved(u, rs, c) = rs[Len(rs)].snapshot[c]
<1> DEFINE S == {u.reported[c]} \cup {rs[r].snapshot[c] : r \in DOMAIN rs}
           n == IF rs = <<>> THEN u.reported[c]
                ELSE Larger(u.reported[c], rs[Len(rs)].snapshot[c])
<1>1. u.reported[c] \in Nat
  BY DEF UsageType
<1>2. \A r \in DOMAIN rs : rs[r].snapshot[c] \in Nat
  <2>1. \A r \in DOMAIN rs : rs[r] \in Report
    OBVIOUS
  <2> QED BY <2>1 DEF Report
<1>3. S \subseteq Nat /\ S # {}
  BY <1>1, <1>2
<1>4. n \in Nat /\ \A y \in S : y <= n
  <2>1. CASE rs = <<>>
    BY <1>1, <2>1
  <2>2. CASE rs # <<>>
    <3>1. Len(rs) \in DOMAIN rs /\ \A r \in DOMAIN rs : r <= Len(rs)
      BY <2>2
    <3>2. \A r \in DOMAIN rs : rs[r].snapshot[c] <= rs[Len(rs)].snapshot[c]
      BY <3>1 DEF Monotone
    <3> QED BY <3>1, <3>2, <2>2, <1>1, <1>2 DEF Larger
  <2> QED BY <2>1, <2>2
<1>5. Reserved(u, rs, c) = Max(S)
  BY DEF Reserved
<1>6. Max(S) \in S /\ \A y \in S : y <= Max(S)
  BY <1>3, <1>4, MaxProperty
<1>7. ASSUME rs # <<>>, Bounded(u, rs)
      PROVE  Max(S) = rs[Len(rs)].snapshot[c]
  <2>1. Len(rs) \in DOMAIN rs
    BY <1>7
  <2>2. rs[Len(rs)].snapshot[c] \in S
    BY <2>1
  <2>3. n = rs[Len(rs)].snapshot[c]
    BY <1>7, <1>1, <1>2, <2>1 DEF Bounded, Larger
  <2>4. Max(S) <= n /\ n <= Max(S) /\ Max(S) \in Nat
    BY <2>2, <2>3, <1>3, <1>4, <1>6
  <2> HIDE DEF S, n
  <2> QED BY <2>3, <2>4, <1>4
<1> QED BY <1>3, <1>5, <1>6, <1>7

-----------------------------------------------------------------------------
(* What the three ways of changing the reports preserve.                   *)

LEMMA NewReportProperty ==
  ASSUME BillingAssumption, NEW u \in UsageType, NEW rs \in Seq(Report), Monotone(rs),
         NEW closing \in BOOLEAN, NEW onInvoice \in BOOLEAN,
         sub.plan \in Plans, sub.stripeSub \in StripeSubs \cup {None}
  PROVE  LET new == NewReport(u, rs, closing, onInvoice) IN
         /\ new \in Report
         /\ new.itemIds = {}
         /\ new.closing = closing
         /\ \A c \in Categories : /\ new.reserved[c] = Reserved(u, rs, c)
                                  /\ new.reserved[c] <= new.snapshot[c]
<1> DEFINE base == IF rs = <<>> THEN Base[sub.plan] ELSE rs[1].base
           reserved == [c \in Categories |-> Reserved(u, rs, c)]
           snapshot == [c \in Categories |-> Larger(reserved[c], u.count[c])]
           asked == {c \in Categories :
                       Overage(snapshot[c], base[c]) > Overage(reserved[c], base[c])}
           new == NewReport(u, rs, closing, onInvoice)
<1>1. reserved \in [Categories -> Nat]
  BY ReservedProperty
<1>2. snapshot \in [Categories -> Nat] /\ \A c \in Categories : reserved[c] <= snapshot[c]
  <2>1. \A c \in Categories : u.count[c] \in Int
    BY DEF UsageType
  <2>2. \A c \in Categories : reserved[c] \in Nat
    BY <1>1
  <2> HIDE DEF reserved
  <2> QED BY <2>1, <2>2 DEF Larger
<1>3. rs # <<>> => rs[1] \in Report
  OBVIOUS
<1>4. base \in [Categories -> Nat]
  BY <1>3 DEF BillingAssumption, Report
<1>5. (IF rs = <<>> THEN sub.stripeSub ELSE rs[1].stripeSub) \in StripeSubs \cup {None}
  BY <1>3 DEF Report
<1>6. new = [snapshot |-> snapshot, base |-> base, reserved |-> reserved,
             asked |-> asked,
             onInvoice |-> IF onInvoice THEN asked ELSE {},
             carryover |-> {},
             attempted |-> [c \in Categories |-> "no"],
             itemIds |-> {},
             status |-> IF asked = {} THEN "reported" ELSE "pending",
             closing |-> closing,
             stripeSub |-> IF rs = <<>> THEN sub.stripeSub ELSE rs[1].stripeSub]
  BY DEF NewReport
<1>7. asked \subseteq Categories
  OBVIOUS
<1>8. \A c \in Categories : reserved[c] = Reserved(u, rs, c)
  OBVIOUS
<1> HIDE DEF base, reserved, snapshot, asked, new
<1>9. new \in Report
  BY <1>1, <1>2, <1>4, <1>5, <1>6, <1>7 DEF Report, ReportStatus
<1> QED BY <1>2, <1>6, <1>8, <1>9 DEF new

LEMMA AppendSound ==
  ASSUME NEW u \in UsageType, NEW rs \in Seq(Report), Sound(u, rs),
         NEW new \in Report, new.itemIds = {},
         \A c \in Categories : /\ new.reserved[c] = Reserved(u, rs, c)
                               /\ new.reserved[c] <= new.snapshot[c]
  PROVE  Sound(u, Append(rs, new))
<1> DEFINE ap == Append(rs, new)
           n == Len(rs)
<1>1. /\ n \in Nat /\ Len(ap) = n + 1 /\ DOMAIN rs = 1..n /\ DOMAIN ap = 1..(n + 1)
      /\ ap[n + 1] = new /\ \A r \in 1..n : ap[r] = rs[r] /\ rs[r] \in Report
  OBVIOUS
<1>2. \A c \in Categories :
        /\ new.reserved[c] \in Nat /\ new.snapshot[c] \in Nat
        /\ u.reported[c] \in Nat
        /\ u.reported[c] <= new.reserved[c]
        /\ new.reserved[c] <= new.snapshot[c]
        /\ \A r \in 1..n : rs[r].snapshot[c] \in Nat /\ rs[r].reserved[c] \in Nat
        /\ \A r \in 1..n : rs[r].snapshot[c] <= new.reserved[c]
        /\ n # 0 => new.reserved[c] = rs[n].snapshot[c]
  <2> SUFFICES ASSUME NEW c \in Categories
               PROVE  /\ new.reserved[c] \in Nat /\ new.snapshot[c] \in Nat
                      /\ u.reported[c] \in Nat
                      /\ u.reported[c] <= new.reserved[c]
                      /\ \A r \in 1..n : rs[r].snapshot[c] \in Nat /\ rs[r].reserved[c] \in Nat
                      /\ \A r \in 1..n : rs[r].snapshot[c] <= new.reserved[c]
                      /\ n # 0 => new.reserved[c] = rs[n].snapshot[c]
    OBVIOUS
  <2>1. new.reserved[c] \in Nat /\ new.snapshot[c] \in Nat /\ u.reported[c] \in Nat
    BY DEF Report, UsageType
  <2>2. \A r \in 1..n : rs[r].snapshot[c] \in Nat /\ rs[r].reserved[c] \in Nat
    BY <1>1 DEF Report
  <2>3. Monotone(rs) /\ Bounded(u, rs)
    BY DEF Sound
  <2>4. n # 0 => rs # <<>>
    OBVIOUS
  <2> QED BY <2>1, <2>2, <2>3, <2>4, <1>1, ReservedProperty
<1> HIDE DEF ap, n
<1>3. Monotone(ap)
  <2> SUFFICES ASSUME NEW q \in 1..(n + 1), NEW r \in 1..(n + 1), NEW c \in Categories,
                      q <= r
               PROVE  ap[q].snapshot[c] <= ap[r].snapshot[c]
    BY <1>1 DEF Monotone
  <2>1. CASE r \in 1..n
    <3>1. q \in 1..n
      BY <2>1, <1>1
    <3> QED BY <2>1, <3>1, <1>1 DEF Sound, Monotone
  <2>2. CASE r = n + 1 /\ q \in 1..n
    BY <2>2, <1>1, <1>2
  <2>3. CASE r = n + 1 /\ q = n + 1
    BY <2>3, <1>1, <1>2
  <2> QED BY <2>1, <2>2, <2>3, <1>1
<1>4. Bounded(u, ap)
  BY <1>1, <1>2 DEF Bounded
<1>5. Ascending(ap)
  <2> SUFFICES ASSUME NEW r \in 1..(n + 1), NEW c \in Categories
               PROVE  ap[r].reserved[c] <= ap[r].snapshot[c]
    BY <1>1 DEF Ascending
  <2>1. CASE r \in 1..n
    BY <2>1, <1>1 DEF Sound, Ascending
  <2>2. CASE r = n + 1
    BY <2>2, <1>1, <1>2
  <2> QED BY <2>1, <2>2, <1>1
<1>6. Tile(ap)
  <2> SUFFICES ASSUME NEW r \in 1..(n + 1), NEW q \in 1..(n + 1), NEW c \in Categories,
                      q = r + 1
               PROVE  ap[q].reserved[c] = ap[r].snapshot[c]
    BY <1>1 DEF Tile
  <2>1. CASE q \in 1..n
    <3>1. r \in 1..n
      BY <2>1, <1>1
    <3> QED BY <2>1, <3>1, <1>1 DEF Sound, Tile
  <2>2. CASE q = n + 1
    <3>1. r = n /\ r \in 1..n
      BY <2>2, <1>1
    <3> QED BY <2>2, <3>1, <1>1, <1>2
  <2> QED BY <2>1, <2>2, <1>1
<1>7. Safe(u, ap)
  <2> SUFFICES ASSUME NEW r \in 1..(n + 1), NEW c \in ap[r].asked \ ap[r].itemIds
               PROVE  u.reported[c] <= ap[r].reserved[c]
    BY <1>1 DEF Safe
  <2>1. CASE r \in 1..n
    BY <2>1, <1>1 DEF Sound, Safe
  <2>2. CASE r = n + 1
    <3>1. c \in Categories
      BY <2>2, <1>1 DEF Report
    <3> QED BY <2>2, <3>1, <1>1, <1>2
  <2> QED BY <2>1, <2>2, <1>1
<1> QED BY <1>3, <1>4, <1>5, <1>6, <1>7 DEF Sound, ap

LEMMA StageProperty ==
  ASSUME BillingAssumption, NEW u \in UsageType, NEW rs \in Seq(Report), Sound(u, rs),
         NEW closing \in BOOLEAN, NEW onInvoice \in BOOLEAN, NEW allowClosed \in BOOLEAN,
         sub.plan \in Plans, sub.stripeSub \in StripeSubs \cup {None}
  PROVE  LET st == Stage(u, rs, closing, onInvoice, allowClosed) IN
         /\ st \in Seq(Report)
         /\ Sound(u, st)
         /\ Len(rs) <= Len(st)
         /\ \A r \in DOMAIN rs : st[r] = rs[r]
<1> DEFINE new == NewReport(u, rs, closing, onInvoice)
           st == Stage(u, rs, closing, onInvoice, allowClosed)
<1>1. st = rs \/ st = Append(rs, new)
  BY DEF Stage
<1>2. /\ new \in Report /\ new.itemIds = {}
      /\ \A c \in Categories : /\ new.reserved[c] = Reserved(u, rs, c)
                               /\ new.reserved[c] <= new.snapshot[c]
  BY NewReportProperty DEF Sound
<1> HIDE DEF new
<1>3. Sound(u, Append(rs, new))
  BY <1>2, AppendSound
<1>4. /\ Append(rs, new) \in Seq(Report) /\ Len(Append(rs, new)) = Len(rs) + 1
      /\ Len(rs) \in Nat
      /\ \A r \in DOMAIN rs : Append(rs, new)[r] = rs[r]
  BY <1>2
<1>5. CASE st = rs
  BY <1>5
<1>6. CASE st = Append(rs, new)
  BY <1>6, <1>3, <1>4
<1> QED BY <1>1, <1>5, <1>6

\* Nothing but the watermark of the usage row matters for soundness.
LEMMA SoundReported ==
  ASSUME NEW u, NEW v, v.reported = u.reported, NEW rs, Sound(u, rs)
  PROVE  Sound(v, rs)
BY DEF Sound, Bounded, Safe

LEMMA UpdateSound ==
  ASSUME NEW u \in UsageType, NEW rs \in Seq(Report), Sound(u, rs),
         NEW r \in DOMAIN rs, NEW row \in Report,
         row.snapshot = rs[r].snapshot, row.reserved = rs[r].reserved,
         row.asked = rs[r].asked, rs[r].itemIds \subseteq row.itemIds
  PROVE  LET up == [rs EXCEPT ![r] = row] IN
         up \in Seq(Report) /\ Len(up) = Len(rs) /\ Sound(u, up)
<1> DEFINE up == [rs EXCEPT ![r] = row]
<1>1. up \in Seq(Report) /\ Len(up) = Len(rs) /\ DOMAIN up = DOMAIN rs
  OBVIOUS
<1>2. \A q \in DOMAIN rs : /\ up[q].snapshot = rs[q].snapshot
                           /\ up[q].reserved = rs[q].reserved
                           /\ up[q].asked \ up[q].itemIds \subseteq rs[q].asked \ rs[q].itemIds
  OBVIOUS
<1>3. rs # <<>> /\ up # <<>> /\ Len(rs) \in DOMAIN rs
  BY <1>1
<1> HIDE DEF up
<1>4. Monotone(up)
  BY <1>1, <1>2 DEF Sound, Monotone
<1>5. Bounded(u, up)
  BY <1>1, <1>2, <1>3 DEF Sound, Bounded
<1>6. Ascending(up)
  BY <1>1, <1>2 DEF Sound, Ascending
<1>7. Tile(up)
  <2> SUFFICES ASSUME NEW p \in DOMAIN rs, NEW q \in DOMAIN rs, NEW c \in Categories,
                      q = p + 1
               PROVE  up[q].reserved[c] = up[p].snapshot[c]
    BY <1>1 DEF Tile
  <2> QED BY <1>2 DEF Sound, Tile
<1>8. Safe(u, up)
  BY <1>1, <1>2 DEF Sound, Safe
<1> QED BY <1>1, <1>4, <1>5, <1>6, <1>7, <1>8 DEF Sound, up

\* finish() moves the watermark forward, not past the last reservation and not
\* past a charge that has no item.
LEMMA WatermarkProperty ==
  ASSUME NEW u \in UsageType, NEW rs \in Seq(Report), Sound(u, rs),
         NEW r \in DOMAIN rs, NEW c \in Categories
  PROVE  /\ Watermark(u, rs, r, c) \in Nat
         /\ u.reported[c] <= Watermark(u, rs, r, c)
         /\ Watermark(u, rs, r, c) <= rs[Len(rs)].snapshot[c]
         /\ \A q \in DOMAIN rs : c \in rs[q].asked \ rs[q].itemIds =>
              Watermark(u, rs, r, c) <= rs[q].reserved[c]
<1> DEFINE C == {u.reported[c]} \cup
                  {rs[q].snapshot[c] :
                     q \in {p \in DOMAIN rs : rs[p].status = "reported" \/ p = r}}
           D == {Max(C)} \cup
                  {rs[q].reserved[c] :
                     q \in {p \in DOMAIN rs : c \in rs[p].asked \ rs[p].itemIds}}
           n == rs[Len(rs)].snapshot[c]
<1>1. \A q \in DOMAIN rs : rs[q] \in Report
  OBVIOUS
<1>2. \A q \in DOMAIN rs : rs[q].snapshot[c] \in Nat /\ rs[q].reserved[c] \in Nat
  BY <1>1 DEF Report
<1>3. u.reported[c] \in Nat
  BY DEF UsageType
<1>4. rs # <<>> /\ Len(rs) \in DOMAIN rs /\ \A q \in DOMAIN rs : q <= Len(rs)
  OBVIOUS
<1>5. n \in Nat /\ u.reported[c] <= n /\ \A q \in DOMAIN rs : rs[q].snapshot[c] <= n
  BY <1>2, <1>4 DEF Sound, Bounded, Monotone
<1>6. C \subseteq Nat /\ C # {} /\ \A y \in C : y <= n
  <2> HIDE DEF n
  <2> QED BY <1>2, <1>3, <1>5
<1>7. Max(C) \in Nat /\ Max(C) <= n
  <2> HIDE DEF C, n
  <2> QED BY <1>5, <1>6, MaxProperty
<1>8. D \subseteq Nat /\ D # {}
  BY <1>2, <1>7
<1>9. Min(D) \in Nat /\ \A y \in D : Min(D) <= y
  <2> HIDE DEF D
  <2> QED BY <1>8, MinProperty
<1>10. Min(D) <= n
  <2>1. Max(C) \in D
    OBVIOUS
  <2> HIDE DEF C, D, n
  <2> QED BY <2>1, <1>5, <1>7, <1>9
<1>11. \A q \in DOMAIN rs : c \in rs[q].asked \ rs[q].itemIds =>
         Min(D) <= rs[q].reserved[c] /\ u.reported[c] <= rs[q].reserved[c]
  BY <1>9 DEF Sound, Safe
<1>12. Watermark(u, rs, r, c) = Larger(u.reported[c], Min(D))
  BY DEF Watermark
<1> HIDE DEF C, D, n
<1>13. Watermark(u, rs, r, c) <= n
  BY <1>3, <1>5, <1>9, <1>10, <1>12 DEF Larger
<1> QED BY <1>2, <1>3, <1>9, <1>11, <1>12, <1>13 DEF Larger, n

\* The usage row after finish().
Confirmed(u, rs, r) ==
  [u EXCEPT !.reported = [c \in Categories |-> Watermark(u, rs, r, c)]]

LEMMA FinishSound ==
  ASSUME NEW u \in UsageType, NEW rs \in Seq(Report), Sound(u, rs), NEW r \in DOMAIN rs
  PROVE  LET v == Confirmed(u, rs, r) IN
         /\ v \in UsageType
         /\ Sound(v, rs)
         /\ \A c \in Categories : u.reported[c] <= v.reported[c]
<1> DEFINE v == Confirmed(u, rs, r)
<1>1. \A c \in Categories : Watermark(u, rs, r, c) \in Nat
  BY WatermarkProperty
<1>2. v \in UsageType /\ v.reported = [c \in Categories |-> Watermark(u, rs, r, c)]
  BY <1>1 DEF UsageType, Confirmed
<1> HIDE DEF v
<1>3. \A c \in Categories : v.reported[c] = Watermark(u, rs, r, c)
  BY <1>2
<1>4. Bounded(v, rs)
  BY <1>3, WatermarkProperty DEF Bounded
<1>5. Safe(v, rs)
  <2> SUFFICES ASSUME NEW q \in DOMAIN rs, NEW c \in rs[q].asked \ rs[q].itemIds
               PROVE  v.reported[c] <= rs[q].reserved[c]
    BY DEF Safe
  <2>1. rs[q] \in Report
    OBVIOUS
  <2>2. c \in Categories
    BY <2>1 DEF Report
  <2> QED BY <2>2, <1>3, WatermarkProperty
<1>6. \A c \in Categories : u.reported[c] <= v.reported[c]
  BY <1>3, WatermarkProperty
<1> QED BY <1>2, <1>4, <1>5, <1>6 DEF Sound, v

-----------------------------------------------------------------------------
(* The invariant of the whole state, and the three kinds of steps.         *)

\* Everything but the usage row, the reports and the workers.
ShellOK ==
  /\ live \in [Categories -> Int] \cup {None}
  /\ sub \in [plan : Plans, stripeSub : StripeSubs \cup {None},
              status : Statuses \cup {"ACTIVE"}, current : BOOLEAN]
  /\ watched \in BOOLEAN
  /\ lock \in Workers \cup {None, Orphaned}
  /\ invoice \in {"none", "draft", "final"}
  /\ items \subseteq [key : Keys, nth : Nat] /\ IsFiniteSet(items)
  /\ saved \subseteq Keys
  /\ net \subseteq Requests

RowsOK == usage \in UsageType /\ reports \in Seq(Report) /\ Sound(usage, reports)

\* A delivering worker is at an existing report, and one that talks to Stripe
\* remembers its request.
LocalOK(l, n) ==
  /\ l.pc \in {"deliver", "call", "replied"} => l.report \in 1..n
  /\ l.pc \in {"call", "replied"} => l.request \in Requests

WorkOK ==
  /\ work \in [Workers -> Local]
  /\ \A w \in Workers : LocalOK(work[w], Len(reports))

Inv == ShellOK /\ RowsOK /\ WorkOK

\* What ReservationsFrozen says of one step.
Frozen ==
  /\ \A c \in Categories : usage'.reported[c] >= usage.reported[c]
  /\ \A r \in DOMAIN reports :
       /\ reports'[r].snapshot = reports[r].snapshot
       /\ reports'[r].reserved = reports[r].reserved
       /\ reports'[r].base = reports[r].base
       /\ reports'[r].asked = reports[r].asked

RowsStep == RowsOK' /\ Frozen /\ Len(reports) \in Nat /\ Len(reports') \in Nat
            /\ Len(reports) <= Len(reports')

LEMMA RowsKept ==
  ASSUME RowsOK, UNCHANGED <<usage, reports>>
  PROVE  RowsStep
<1>1. usage \in UsageType /\ reports \in Seq(Report) /\ Sound(usage, reports)
  BY DEF RowsOK
<1>2. usage' = usage /\ reports' = reports
  OBVIOUS
<1>3. RowsOK'
  BY <1>1, <1>2 DEF RowsOK
<1>4. \A c \in Categories : usage.reported[c] \in Nat
  BY <1>1 DEF UsageType
<1>5. Frozen
  BY <1>2, <1>4 DEF Frozen
<1> QED BY <1>1, <1>2, <1>3, <1>5 DEF RowsStep

\* The watermark stays, and the reports are those of stage() or the same.
LEMMA RowsStaged ==
  ASSUME BillingAssumption, ShellOK, RowsOK,
         NEW u \in UsageType, u.reported = usage.reported,
         usage' \in UsageType, usage'.reported = usage.reported,
         NEW closing \in BOOLEAN, NEW onInvoice \in BOOLEAN, NEW allowClosed \in BOOLEAN,
         \/ reports' = reports
         \/ reports' = Stage(u, reports, closing, onInvoice, allowClosed)
  PROVE  RowsStep
<1>1. /\ usage \in UsageType /\ reports \in Seq(Report) /\ Sound(usage, reports)
      /\ sub.plan \in Plans /\ sub.stripeSub \in StripeSubs \cup {None}
  BY DEF RowsOK, ShellOK
<1>2. Sound(u, reports)
  BY <1>1, SoundReported
<1>3. /\ reports' \in Seq(Report) /\ Sound(u, reports')
      /\ Len(reports) <= Len(reports')
      /\ \A r \in DOMAIN reports : reports'[r] = reports[r]
  <2>1. CASE reports' = reports
    BY <2>1, <1>1, <1>2
  <2>2. CASE reports' = Stage(u, reports, closing, onInvoice, allowClosed)
    <3> DEFINE st == Stage(u, reports, closing, onInvoice, allowClosed)
    <3>1. /\ st \in Seq(Report) /\ Sound(u, st) /\ Len(reports) <= Len(st)
          /\ \A r \in DOMAIN reports : st[r] = reports[r]
      BY <1>1, <1>2, StageProperty
    <3> HIDE DEF st
    <3>2. reports' = st
      BY <2>2 DEF st
    <3> QED BY <3>1, <3>2
  <2> QED BY <2>1, <2>2
<1>4. Sound(usage', reports')
  BY <1>3, SoundReported
<1>5. \A c \in Categories : usage.reported[c] \in Nat
  BY <1>1 DEF UsageType
<1>6. Frozen
  BY <1>3, <1>5 DEF Frozen
<1>7. RowsOK'
  BY <1>3, <1>4 DEF RowsOK
<1> QED BY <1>1, <1>3, <1>6, <1>7 DEF RowsStep

\* A delivery may rewrite a row like this.
Rewrite(rep, row) ==
  /\ row \in Report
  /\ row.snapshot = rep.snapshot /\ row.reserved = rep.reserved
  /\ row.base = rep.base /\ row.asked = rep.asked
  /\ rep.itemIds \subseteq row.itemIds

\* One row is rewritten; its reservation stays and no item id is lost.
LEMMA RowsUpdated ==
  ASSUME RowsOK, usage' \in UsageType, Sound(usage', reports),
         \A c \in Categories : usage'.reported[c] >= usage.reported[c],
         NEW r \in DOMAIN reports, NEW row, Rewrite(reports[r], row), Update(r, row)
  PROVE  RowsStep
<1> USE DEF Rewrite
<1>1. usage \in UsageType /\ reports \in Seq(Report)
  BY DEF RowsOK
<1>2. reports' = [reports EXCEPT ![r] = row]
  BY DEF Update
<1>3. reports' \in Seq(Report) /\ Len(reports') = Len(reports) /\ Sound(usage', reports')
  BY <1>1, <1>2, UpdateSound
<1>4. \A q \in DOMAIN reports : reports'[q] = IF q = r THEN row ELSE reports[q]
  BY <1>1, <1>2
<1>5. Frozen
  BY <1>4 DEF Frozen
<1>6. RowsOK'
  BY <1>3 DEF RowsOK
<1> QED BY <1>1, <1>3, <1>5, <1>6 DEF RowsStep

LEMMA IdleOK == Idle \in Local /\ Idle.pc = "idle" /\ Idle.request = None
BY DEF Idle, Local, PCs

LEMMA WorkKept ==
  ASSUME WorkOK, RowsStep, work' = work
  PROVE  WorkOK'
BY DEF WorkOK, LocalOK, RowsStep

LEMMA BecomeOK ==
  ASSUME WorkOK, RowsStep, NEW w \in Workers, NEW l \in Local, Become(w, l),
         LocalOK(l, Len(reports'))
  PROVE  WorkOK'
<1>1. work' \in [Workers -> Local]
  BY DEF WorkOK, Become
<1>2. \A v \in Workers : work'[v] = IF v = w THEN l ELSE work[v]
  BY DEF WorkOK, Become
<1>3. \A v \in Workers : LocalOK(work[v], Len(reports'))
  BY DEF WorkOK, LocalOK, RowsStep
<1>4. \A v \in Workers : LocalOK(work'[v], Len(reports'))
  BY <1>2, <1>3
<1> QED BY <1>1, <1>4 DEF WorkOK

\* A worker that takes up something other than a delivery.
LEMMA TakeUp ==
  ASSUME WorkOK, RowsStep, NEW w \in Workers, NEW l \in Local, Become(w, l),
         l.pc \notin {"deliver", "call", "replied"}
  PROVE  WorkOK'
BY BecomeOK DEF LocalOK

LEMMA FinishOK ==
  ASSUME WorkOK, RowsStep, NEW w \in Workers, Finish(w)
  PROVE  WorkOK'
BY TakeUp, IdleOK DEF Finish

LEMMA ReadOK ==
  ASSUME ShellOK, RowsOK, WorkOK, RowsStep, NEW w \in Workers,
         NEW to \in PCs \ {"deliver", "call", "replied"}, Read(w, to)
  PROVE  WorkOK'
<1> DEFINE l == [Idle EXCEPT !.pc = to, !.seen = live, !.billed = usage.billed]
<1>1. live \in [Categories -> Int] \cup {None} /\ usage.billed \in BOOLEAN
  BY DEF ShellOK, RowsOK, UsageType
<1>2. l \in Local /\ l.pc = to
  BY <1>1 DEF Idle, Local
<1>3. Become(w, l)
  BY DEF Read
<1> HIDE DEF l
<1> QED BY <1>2, <1>3, TakeUp

LEMMA EndDeleteOK ==
  ASSUME WorkOK, RowsStep, NEW w \in Workers, EndDelete(w)
  PROVE  WorkOK'
<1> DEFINE l == [Idle EXCEPT !.pc = "downgrade", !.deleting = TRUE]
<1>1. l \in Local /\ l.pc = "downgrade"
  BY DEF Idle, Local, PCs
<1>2. Become(w, l)
  BY DEF EndDelete
<1> HIDE DEF l
<1> QED BY <1>1, <1>2, TakeUp

LEMMA ReleasedOK ==
  ASSUME ShellOK, NEW w
  PROVE  Released(w) \in Workers \cup {None, Orphaned}
BY DEF ShellOK, Released

LEMMA EndDeliverOK ==
  ASSUME ShellOK, WorkOK, RowsStep, NEW w \in Workers, EndDeliver(w)
  PROVE  WorkOK' /\ lock' \in Workers \cup {None, Orphaned}
BY ReleasedOK, EndDeleteOK, FinishOK DEF EndDeliver

\* A worker goes to deliver the report it has just staged.
LEMMA ThenDeliverOK ==
  ASSUME ShellOK, WorkOK, RowsStep, NEW w \in Workers, ThenDeliver(w)
  PROVE  WorkOK' /\ lock' \in Workers \cup {None, Orphaned}
<1>1. CASE Len(reports') > Len(reports)
  <2> DEFINE l == [Idle EXCEPT !.pc = "deliver", !.report = Len(reports')]
  <2>1. Len(reports') \in Nat /\ Len(reports') \in 1..Len(reports')
    BY <1>1 DEF RowsStep
  <2>2. l \in Local /\ l.pc = "deliver" /\ l.report = Len(reports')
    BY <2>1 DEF Idle, Local, PCs
  <2>3. Become(w, l) /\ lock' = lock
    BY <1>1 DEF ThenDeliver
  <2> HIDE DEF l
  <2>4. LocalOK(l, Len(reports'))
    BY <2>1, <2>2 DEF LocalOK
  <2> QED BY <2>2, <2>3, <2>4, BecomeOK DEF ShellOK
<1>2. CASE ~(Len(reports') > Len(reports))
  BY <1>2, FinishOK, ReleasedOK DEF ThenDeliver
<1> QED BY <1>1, <1>2

LEMMA SyncedOK ==
  ASSUME RowsOK, WorkOK, NEW w \in Workers
  PROVE  Synced(w) \in UsageType /\ Synced(w).reported = usage.reported
<1>1. work[w].seen \in [Categories -> Int] \cup {None}
  BY DEF WorkOK, Local
<1> QED BY <1>1 DEF Synced, RowsOK, UsageType

-----------------------------------------------------------------------------
(* Every step preserves the invariant and freezes the reservations.        *)

Good == ShellOK' /\ WorkOK' /\ RowsStep

LEMMA CountersStep ==
  ASSUME Inv, Counters
  PROVE  Good
<1> USE DEF Inv, Good, stripeVars
<1>1. UNCHANGED <<usage, sub, reports, lock, work, stripeVars, watched>>
  BY DEF Counters, KeyExpires, Increment, Refund
<1>2. RowsStep
  BY <1>1, RowsKept
<1>3. WorkOK'
  BY <1>1, <1>2, WorkKept
<1>4. live' \in [Categories -> Int] \cup {None}
  <2>1. CASE KeyExpires
    BY <2>1 DEF KeyExpires
  <2>2. Counted \in [Categories -> Int]
    BY DEF ShellOK, Counted
  <2>3. ASSUME NEW c \in Categories, Increment(c) \/ Refund(c)
        PROVE  live' \in [Categories -> Int] \cup {None}
    BY <2>2, <2>3 DEF Increment, Refund
  <2> QED BY <2>1, <2>3 DEF Counters
<1>5. ShellOK'
  BY <1>1, <1>4 DEF ShellOK
<1> QED BY <1>2, <1>3, <1>5

LEMMA StagingStep ==
  ASSUME BillingAssumption, Inv, NEW w \in Workers, Staging(w)
  PROVE  Good
<1> USE DEF Inv, Good, stripeVars
<1>a. Synced(w) \in UsageType /\ Synced(w).reported = usage.reported
  BY SyncedOK
<1>b. [Synced(w) EXCEPT !.billed = TRUE] \in UsageType
      /\ [Synced(w) EXCEPT !.billed = TRUE].reported = usage.reported
  BY <1>a DEF UsageType
<1>c. usage \in UsageType /\ work[w] \in Local /\ reports \in Seq(Report)
  BY DEF RowsOK, WorkOK
<1>1. CASE \/ SyncBegin(w)
           \/ BillBegin(w)
           \/ InvoiceCreatedBegin(w)
           \/ InvoicePaidBegin(w)
  <2>1. /\ UNCHANGED <<live, usage, sub, reports, stripeVars, watched>>
        /\ lock' \in {lock, w}
        /\ \E to \in {"sync", "bill", "created", "paid"} : Read(w, to)
    BY <1>1 DEF SyncBegin, BillBegin, InvoiceCreatedBegin, InvoicePaidBegin
  <2>2. RowsStep
    BY <2>1, RowsKept
  <2>3. WorkOK'
    BY <2>1, <2>2, ReadOK DEF PCs
  <2> QED BY <2>1, <2>2, <2>3 DEF ShellOK
<1>2. CASE SyncWrite(w)
  <2>1. /\ UNCHANGED <<live, sub, reports, lock, stripeVars, watched>>
        /\ usage' = Synced(w) /\ Finish(w)
    BY <1>2 DEF SyncWrite
  <2>2. RowsStep
    BY <2>1, <1>a, RowsStaged
  <2> QED BY <2>1, <2>2, FinishOK DEF ShellOK
<1>3. CASE BillStage(w)
  <2>1. /\ UNCHANGED <<live, sub, stripeVars, watched>>
        /\ usage' = Synced(w) /\ ThenDeliver(w)
        /\ reports' = reports \/ reports' = Stage(usage', reports, FALSE, FALSE, FALSE)
    BY <1>3 DEF BillStage
  <2>2. RowsStep
    BY <2>1, <1>a, RowsStaged
  <2> QED BY <2>1, <2>2, ThenDeliverOK DEF ShellOK
<1>4. CASE InvoiceCreatedStage(w)
  <2>1. /\ UNCHANGED <<live, sub, stripeVars, watched>>
        /\ usage' = usage \/ usage' = Synced(w)
        /\ ThenDeliver(w)
        /\ reports' = Stage(usage', reports, FALSE, TRUE, FALSE)
    BY <1>4 DEF InvoiceCreatedStage
  <2>2. usage' \in UsageType /\ usage'.reported = usage.reported
    BY <2>1, <1>a, <1>c
  <2>3. RowsStep
    BY <2>1, <2>2, RowsStaged
  <2> QED BY <2>1, <2>3, ThenDeliverOK DEF ShellOK
<1>5. CASE InvoicePaidClose(w)
  <2>1. /\ UNCHANGED <<live, stripeVars, watched>>
        /\ sub' = [sub EXCEPT !.current = FALSE, !.status = "ACTIVE"]
        /\ lock' = Released(w) /\ Finish(w)
    BY <1>5 DEF InvoicePaidClose
  <2>2. \/ UNCHANGED <<usage, reports>>
        \/ /\ usage' = [Synced(w) EXCEPT !.billed = TRUE]
           /\ reports' = Stage(Synced(w), reports, TRUE, FALSE, FALSE)
    BY <1>5 DEF InvoicePaidClose
  <2>3. RowsStep
    BY <2>2, <1>a, <1>b, RowsKept, RowsStaged
  <2>4. sub' \in [plan : Plans, stripeSub : StripeSubs \cup {None},
                  status : Statuses \cup {"ACTIVE"}, current : BOOLEAN]
    BY <2>1 DEF ShellOK
  <2> QED BY <2>1, <2>3, <2>4, FinishOK, ReleasedOK DEF ShellOK
<1>6. CASE LateStage(w)
  <2>1. /\ UNCHANGED <<live, sub, lock, stripeVars, watched>>
        /\ usage' = Synced(w) /\ Finish(w)
        /\ reports' = Stage(usage', reports, FALSE, FALSE, TRUE)
    BY <1>6 DEF LateStage
  <2>2. RowsStep
    BY <2>1, <1>a, RowsStaged
  <2> QED BY <2>1, <2>2, FinishOK DEF ShellOK
<1>7. ASSUME NEW r \in DOMAIN reports, LateBegin(w, r)
      PROVE  Good
  <2> DEFINE l == [Idle EXCEPT !.pc = "late", !.seen = live, !.report = r]
  <2>1. UNCHANGED <<live, usage, sub, reports, lock, stripeVars, watched>> /\ Become(w, l)
    BY <1>7 DEF LateBegin
  <2>2. RowsStep
    BY <2>1, RowsKept
  <2>3. r \in Nat
    BY <1>c
  <2>4. l \in Local /\ l.pc = "late"
    BY <2>3 DEF ShellOK, Local, Idle, PCs
  <2> HIDE DEF l
  <2> QED BY <2>1, <2>2, <2>4, TakeUp DEF ShellOK
<1>8. CASE DeletedBegin(w)
  <2>1. /\ UNCHANGED <<live, usage, sub, reports, lock, stripeVars, watched>>
        /\ Read(w, "deleted") \/ Become(w, [Idle EXCEPT !.pc = "downgrade"])
    BY <1>8 DEF DeletedBegin
  <2>2. RowsStep
    BY <2>1, RowsKept
  <2>3. [Idle EXCEPT !.pc = "downgrade"] \in Local
        /\ [Idle EXCEPT !.pc = "downgrade"].pc = "downgrade"
    BY DEF Local, Idle, PCs
  <2>4. WorkOK'
    BY <2>1, <2>2, <2>3, TakeUp, ReadOK DEF PCs
  <2> QED BY <2>1, <2>2, <2>4 DEF ShellOK
<1>9. CASE DeletedStage(w)
  <2>1. /\ UNCHANGED <<live, sub, stripeVars, watched>>
        /\ usage' = Synced(w) /\ lock' \in {lock, w}
        /\ reports' = reports \/ reports' = Stage(usage', reports, FALSE, FALSE, FALSE)
    BY <1>9 DEF DeletedStage
  <2>2. RowsStep
    BY <2>1, <1>a, RowsStaged
  <2>3. WorkOK'
    <3> DEFINE l == [Idle EXCEPT !.pc = "deliver", !.deleting = TRUE,
                                 !.report = Len(reports')]
    <3>1. CASE Len(reports') > Len(reports)
      <4>1. Become(w, l)
        BY <1>9, <3>1 DEF DeletedStage
      <4>2. Len(reports') \in Nat /\ Len(reports') \in 1..Len(reports')
        BY <2>2, <3>1 DEF RowsStep
      <4>3. l \in Local /\ l.pc = "deliver" /\ l.report = Len(reports')
        BY <4>2 DEF Idle, Local, PCs
      <4> HIDE DEF l
      <4>4. LocalOK(l, Len(reports'))
        BY <4>2, <4>3 DEF LocalOK
      <4> QED BY <2>2, <4>1, <4>3, <4>4, BecomeOK
    <3>2. CASE ~(Len(reports') > Len(reports))
      BY <1>9, <3>2, <2>2, EndDeleteOK DEF DeletedStage
    <3> QED BY <3>1, <3>2
  <2> QED BY <2>1, <2>2, <2>3 DEF ShellOK
<1>10. CASE DeletedSkip(w) \/ Downgrade(w)
  <2>1. /\ UNCHANGED <<live, reports, lock, stripeVars, watched>>
        /\ Finish(w) /\ sub' = Downgraded
        /\ \/ usage' = [Synced(w) EXCEPT !.billed = TRUE]
           \/ usage' = [usage EXCEPT !.billed = @ \/ work[w].deleting]
    BY <1>10 DEF DeletedSkip, Downgrade
  <2>2. work[w].deleting \in BOOLEAN
    BY <1>c DEF Local
  <2>3. [usage EXCEPT !.billed = @ \/ work[w].deleting] \in UsageType
        /\ [usage EXCEPT !.billed = @ \/ work[w].deleting].reported = usage.reported
    BY <1>c, <2>2 DEF UsageType
  <2>4. usage' \in UsageType /\ usage'.reported = usage.reported
    BY <2>1, <2>3, <1>b
  <2>5. RowsStep
    BY <2>1, <2>4, RowsStaged
  <2>6. Downgraded \in [plan : Plans, stripeSub : StripeSubs \cup {None},
                        status : Statuses \cup {"ACTIVE"}, current : BOOLEAN]
    BY DEF Downgraded, BillingAssumption
  <2> QED BY <2>1, <2>5, <2>6, FinishOK DEF ShellOK
<1> QED BY <1>1, <1>2, <1>3, <1>4, <1>5, <1>6, <1>7, <1>8, <1>9, <1>10 DEF Staging

\* A worker at a report: the row exists.
LEMMA AtReport ==
  ASSUME Inv, NEW w \in Workers, work[w].pc \in {"deliver", "call", "replied"}
  PROVE  /\ work[w].report \in DOMAIN reports
         /\ work[w].report \in Nat
         /\ reports[work[w].report] \in Report
<1>1. work[w].report \in 1..Len(reports) /\ reports \in Seq(Report)
  BY DEF Inv, WorkOK, LocalOK, RowsOK
<1> QED BY <1>1

\* The usage row is not touched while a report row is rewritten.
LEMMA RowRewritten ==
  ASSUME Inv, NEW r \in DOMAIN reports, NEW row, Rewrite(reports[r], row),
         Update(r, row), usage' = usage
  PROVE  RowsStep
<1>1. usage \in UsageType /\ Sound(usage, reports) /\ RowsOK
  BY DEF Inv, RowsOK
<1>2. \A c \in Categories : usage.reported[c] \in Nat
  BY <1>1 DEF UsageType
<1>3. \A c \in Categories : usage'.reported[c] >= usage.reported[c]
  BY <1>2
<1>4. usage' \in UsageType /\ Sound(usage', reports)
  BY <1>1
<1> QED BY <1>1, <1>3, <1>4, RowsUpdated

\* The rows the delivery loop, and time, write.
LEMMA RowVariants ==
  ASSUME NEW rep \in Report, NEW c \in Categories
  PROVE  /\ \A draft \in BOOLEAN :
              Rewrite(rep, [rep EXCEPT !.onInvoice = IF draft THEN @ ELSE @ \ {c},
                                       !.attempted[c] = "fresh"])
         /\ Rewrite(rep, [rep EXCEPT !.itemIds = @ \cup {c}])
         /\ Rewrite(rep, [rep EXCEPT !.onInvoice = @ \ {c}, !.carryover = @ \cup {c},
                                     !.attempted[c] = "no"])
         /\ Rewrite(rep, [rep EXCEPT !.attempted[c] = "old"])
<1> USE DEF Rewrite, Report
<1>1. \A draft \in BOOLEAN :
        Rewrite(rep, [rep EXCEPT !.onInvoice = IF draft THEN @ ELSE @ \ {c},
                                 !.attempted[c] = "fresh"])
  OBVIOUS
<1>2. Rewrite(rep, [rep EXCEPT !.itemIds = @ \cup {c}])
  OBVIOUS
<1>3. Rewrite(rep, [rep EXCEPT !.onInvoice = @ \ {c}, !.carryover = @ \cup {c},
                               !.attempted[c] = "no"])
  OBVIOUS
<1>4. Rewrite(rep, [rep EXCEPT !.attempted[c] = "old"])
  OBVIOUS
<1> HIDE DEF Rewrite, Report
<1> QED BY <1>1, <1>2, <1>3, <1>4

\* The status of a report changes, the rest of the row stays.
LEMMA StatusRewritten ==
  ASSUME NEW rep \in Report, NEW st \in ReportStatus
  PROVE  Rewrite(rep, [rep EXCEPT !.status = st])
BY DEF Rewrite, Report

LEMMA ReviewOK ==
  ASSUME Inv, NEW w \in Workers, NEW r \in DOMAIN reports, Review(w, r), usage' = usage
  PROVE  RowsStep /\ WorkOK' /\ lock' \in Workers \cup {None, Orphaned}
<1>1. reports[r] \in Report
  BY DEF Inv, RowsOK
<1>2. Rewrite(reports[r], [reports[r] EXCEPT !.status = "needs_review"])
  BY <1>1, StatusRewritten DEF ReportStatus
<1>3. RowsStep
  BY <1>2, RowRewritten DEF Review
<1> QED BY <1>3, EndDeliverOK DEF Review, Inv

LEMMA DeliveringStep ==
  ASSUME BillingAssumption, Inv, NEW w \in Workers, Delivering(w)
  PROVE  Good
<1> USE DEF Inv, Good, stripeVars
<1> DEFINE r == work[w].report
<1>a. usage \in UsageType /\ work[w] \in Local /\ reports \in Seq(Report)
  BY DEF RowsOK, WorkOK
<1>1. ASSUME NEW q \in DOMAIN reports, DeliverBegin(w, q)
      PROVE  Good
  <2> DEFINE l == [Idle EXCEPT !.pc = "deliver", !.report = q]
  <2>1. UNCHANGED <<live, usage, sub, reports, lock, stripeVars, watched>> /\ Become(w, l)
    BY <1>1 DEF DeliverBegin
  <2>2. RowsStep
    BY <2>1, RowsKept
  <2>3. q \in Nat /\ q \in 1..Len(reports)
    BY <1>a
  <2>4. l \in Local /\ l.pc = "deliver" /\ l.report = q
    BY <2>3 DEF Local, Idle, PCs
  <2> HIDE DEF l
  <2>5. LocalOK(l, Len(reports'))
    BY <2>1, <2>3, <2>4 DEF LocalOK
  <2> QED BY <2>1, <2>2, <2>4, <2>5, BecomeOK DEF ShellOK
<1>2. CASE DeliverExit(w)
  <2>1. UNCHANGED <<live, usage, sub, reports, stripeVars, watched>> /\ EndDeliver(w)
    BY <1>2 DEF DeliverExit
  <2>2. RowsStep
    BY <2>1, RowsKept
  <2> QED BY <2>1, <2>2, EndDeliverOK DEF ShellOK
<1>3. CASE DeliverFinish(w)
  <2> DEFINE v == Confirmed(usage, reports, r)
             row == [reports[r] EXCEPT !.status = "reported"]
  <2>1. UNCHANGED <<live, sub, stripeVars, watched>> /\ EndDeliver(w)
        /\ usage' = v /\ Update(r, row)
    BY <1>3 DEF DeliverFinish, Confirmed
  <2>2. r \in DOMAIN reports /\ reports[r] \in Report
    BY <1>3, AtReport DEF DeliverFinish, Holds
  <2>3. v \in UsageType /\ Sound(v, reports)
        /\ \A c \in Categories : usage.reported[c] <= v.reported[c]
    <3>1. usage \in UsageType /\ reports \in Seq(Report) /\ Sound(usage, reports)
      BY DEF RowsOK
    <3> HIDE DEF r
    <3> QED BY <2>2, <3>1, FinishSound
  <2>4. Rewrite(reports[r], row)
    BY <2>2, StatusRewritten DEF ReportStatus
  <2>5. \A c \in Categories : usage.reported[c] \in Nat /\ v.reported[c] \in Nat
    BY <1>a, <2>3 DEF UsageType
  <2> HIDE DEF v, row, r
  <2>6. usage' \in UsageType /\ Sound(usage', reports)
        /\ \A c \in Categories : usage'.reported[c] >= usage.reported[c]
    BY <2>1, <2>3, <2>5
  <2>7. RowsStep
    BY <2>1, <2>2, <2>4, <2>6, RowsUpdated
  <2> QED BY <2>1, <2>7, EndDeliverOK DEF ShellOK
<1>4. ASSUME NEW c \in Categories, DeliverUncollectable(w, c)
      PROVE  Good
  <2>1. UNCHANGED <<live, usage, sub, stripeVars, watched>> /\ Review(w, r)
    BY <1>4 DEF DeliverUncollectable
  <2>2. r \in DOMAIN reports
    BY <1>4, AtReport DEF DeliverUncollectable, Holds
  <2> QED BY <2>1, <2>2, ReviewOK DEF ShellOK
<1>5. ASSUME NEW c \in Categories, DeliverPrepare(w, c)
      PROVE  Good
  <2> DEFINE row == [reports[r] EXCEPT
                       !.onInvoice = IF invoice = "draft" THEN @ ELSE @ \ {c},
                       !.attempted[c] = "fresh"]
  <2>1. UNCHANGED <<live, usage, sub, lock, work, stripeVars, watched>> /\ Update(r, row)
    BY <1>5 DEF DeliverPrepare
  <2>2. r \in DOMAIN reports /\ reports[r] \in Report
    BY <1>5, AtReport DEF DeliverPrepare, Holds
  <2>3. Rewrite(reports[r], row)
    <3> DEFINE draft == invoice = "draft"
    <3>1. draft \in BOOLEAN
      OBVIOUS
    <3> QED BY <2>2, <3>1, RowVariants
  <2> HIDE DEF row, r
  <2>4. RowsStep
    BY <2>1, <2>2, <2>3, RowRewritten
  <2> QED BY <2>1, <2>4, WorkKept DEF ShellOK
<1>6. ASSUME NEW c \in Categories, DeliverSend(w, c)
      PROVE  Good
  <2> DEFINE req == Request(r, c, reports[r])
             l == [work[w] EXCEPT !.pc = "call", !.request = req]
  <2>1. UNCHANGED <<live, usage, sub, reports, lock, stripeVars, watched>> /\ Become(w, l)
    BY <1>6 DEF DeliverSend
  <2>2. r \in DOMAIN reports /\ r \in Nat /\ r \in 1..Len(reports)
    BY <1>6, <1>a, AtReport DEF DeliverSend, Holds
  <2>3. req \in Requests
    BY <2>2 DEF Request, Requests, Key, Keys
  <2>4. l \in Local /\ l.pc = "call" /\ l.request = req /\ l.report = r
    <3> HIDE DEF req
    <3> QED BY <2>3, <1>a DEF Local, PCs
  <2>5. RowsStep
    BY <2>1, RowsKept
  <2> HIDE DEF l, req, r
  <2>6. LocalOK(l, Len(reports'))
    BY <2>1, <2>2, <2>3, <2>4 DEF LocalOK
  <2> QED BY <2>1, <2>4, <2>5, <2>6, BecomeOK DEF ShellOK
<1>7. ASSUME NEW c \in Categories, DeliverRecover(w, c)
      PROVE  Good
  <2> DEFINE row == [reports[r] EXCEPT !.itemIds = @ \cup {c}]
  <2>1. /\ UNCHANGED <<live, usage, sub, stripeVars, watched>>
        /\ Review(w, r) \/ (Update(r, row) /\ UNCHANGED <<lock, work>>)
    BY <1>7 DEF DeliverRecover
  <2>2. r \in DOMAIN reports /\ reports[r] \in Report
    BY <1>7, AtReport DEF DeliverRecover, Holds
  <2>3. Rewrite(reports[r], row)
    BY <2>2, RowVariants
  <2> HIDE DEF row, r
  <2>4. CASE Review(w, r)
    BY <2>1, <2>2, <2>4, ReviewOK DEF ShellOK
  <2>5. CASE Update(r, row) /\ UNCHANGED <<lock, work>>
    <3>1. RowsStep
      BY <2>1, <2>2, <2>3, <2>5, RowRewritten
    <3> QED BY <2>1, <2>5, <3>1, WorkKept DEF ShellOK
  <2> QED BY <2>1, <2>4, <2>5
<1>8. CASE RecordItem(w) \/ Carryover(w)
  <2> DEFINE c == work[w].request.key.cat
             found == [reports[r] EXCEPT !.itemIds = @ \cup {c}]
             carried == [reports[r] EXCEPT !.onInvoice = @ \ {c},
                                           !.carryover = @ \cup {c},
                                           !.attempted[c] = "no"]
             l == [work[w] EXCEPT !.pc = "deliver", !.request = None, !.item = FALSE]
             m == [work[w] EXCEPT !.pc = "deliver", !.request = None]
  <2>1. /\ UNCHANGED <<live, usage, sub, lock, stripeVars, watched>>
        /\ work[w].pc = "replied"
        /\ Update(r, found) \/ Update(r, carried)
        /\ Become(w, l) \/ Become(w, m)
    BY <1>8 DEF RecordItem, Carryover
  <2>2. r \in DOMAIN reports /\ reports[r] \in Report /\ r \in 1..Len(reports)
    BY <2>1, <1>a, AtReport
  <2>3. c \in Categories
    BY <2>1 DEF WorkOK, LocalOK, Requests, Keys
  <2>4. Rewrite(reports[r], found) /\ Rewrite(reports[r], carried)
    <3> HIDE DEF c
    <3> QED BY <2>2, <2>3, RowVariants
  <2>5. /\ l \in Local /\ l.pc = "deliver" /\ l.report = r
        /\ m \in Local /\ m.pc = "deliver" /\ m.report = r
    BY <1>a DEF Local, PCs
  <2> HIDE DEF found, carried, l, m, c, r
  <2>6. RowsStep
    BY <2>1, <2>2, <2>4, RowRewritten
  <2>7. r \in 1..Len(reports')
    BY <2>2, <2>6 DEF RowsStep
  <2>8. LocalOK(l, Len(reports')) /\ LocalOK(m, Len(reports'))
    BY <2>5, <2>7 DEF LocalOK
  <2>9. WorkOK'
    BY <2>1, <2>5, <2>6, <2>8, BecomeOK
  <2> QED BY <2>1, <2>6, <2>9 DEF ShellOK
<1>9. CASE DeliverFails(w)
  <2>1. /\ UNCHANGED <<live, usage, sub, reports, invoice, items, saved, watched>>
        /\ EndDeliver(w)
        /\ \/ net' = net
           \/ work[w].pc = "call" /\ net' = net \cup {work[w].request}
    BY <1>9 DEF DeliverFails
  <2>2. RowsStep
    BY <2>1, RowsKept
  <2>3. (work[w].pc = "call" => work[w].request \in Requests) /\ net \subseteq Requests
    BY DEF ShellOK, WorkOK, LocalOK
  <2>4. net' \subseteq Requests
    BY <2>1, <2>3
  <2> QED BY <2>1, <2>2, <2>4, EndDeliverOK DEF ShellOK
<1> QED BY <1>1, <1>2, <1>3, <1>4, <1>5, <1>6, <1>7, <1>8, <1>9 DEF Delivering

\* A request that reaches Stripe leaves well-formed, finitely many items.
LEMMA ArriveOK ==
  ASSUME ShellOK, NEW q \in Requests, Arrive(q)
  PROVE  /\ items' \subseteq [key : Keys, nth : Nat] /\ IsFiniteSet(items')
         /\ saved' \subseteq Keys
<1> DEFINE same == {i \in items : i.key = q.key}
           new == [key |-> q.key, nth |-> Cardinality(same) + 1]
<1>1. q.key \in Keys
  BY DEF Requests
<1>2. IsFiniteSet(items) /\ items \subseteq [key : Keys, nth : Nat] /\ saved \subseteq Keys
  BY DEF ShellOK
<1>3. IsFiniteSet(same)
  BY <1>2, FS_Subset
<1>4. Cardinality(same) \in Nat
  BY <1>3, FS_CardinalityType
<1>5. new \in [key : Keys, nth : Nat]
  BY <1>1, <1>4
<1>6. \/ items' = items /\ saved' = saved
      \/ items' = items \cup {new} /\ saved' = saved \cup {q.key}
  BY DEF Arrive
<1> HIDE DEF new
<1>7. IsFiniteSet(items \cup {new})
  BY <1>2, FS_AddElement
<1> QED BY <1>1, <1>2, <1>5, <1>6, <1>7

LEMMA OutsideStep ==
  ASSUME BillingAssumption, Inv, Outside
  PROVE  Good
<1> USE DEF Inv, Good, stripeVars
<1>1. CASE WatchEnds \/ InvoiceDrafted \/ InvoiceFinalized
  <2>1. UNCHANGED <<usage, reports, work>>
    BY <1>1 DEF WatchEnds, InvoiceDrafted, InvoiceFinalized
  <2>2. ShellOK'
    BY <1>1 DEF ShellOK, WatchEnds, InvoiceDrafted, InvoiceFinalized
  <2> QED BY <2>1, <2>2, RowsKept, WorkKept
<1>2. CASE SubscriptionUpdated \/ CheckoutCompleted
  <2>1. UNCHANGED <<live, usage, reports, lock, work, stripeVars, watched>>
    BY <1>2 DEF SubscriptionUpdated, CheckoutCompleted
  <2>2. sub' \in [plan : Plans, stripeSub : StripeSubs \cup {None},
                  status : Statuses \cup {"ACTIVE"}, current : BOOLEAN]
    <3>1. CASE SubscriptionUpdated
      <4>1. PICK p \in Plans, s \in Statuses, advance \in BOOLEAN :
              sub' = [sub EXCEPT !.plan = p, !.status = s, !.current = @ /\ ~advance]
        BY <3>1 DEF SubscriptionUpdated
      <4>2. sub.stripeSub \in StripeSubs \cup {None} /\ sub.current \in BOOLEAN
        BY DEF ShellOK
      <4>3. (sub.current /\ ~advance) \in BOOLEAN
        OBVIOUS
      <4> QED BY <4>1, <4>2, <4>3 DEF ShellOK
    <3>2. CASE CheckoutCompleted
      BY <3>2 DEF CheckoutCompleted
    <3> QED BY <1>2, <3>1, <3>2
  <2> QED BY <2>1, <2>2, RowsKept, WorkKept DEF ShellOK
<1>3. ASSUME NEW w \in Workers, StripeAnswers(w)
      PROVE  Good
  <2> DEFINE q == work[w].request
             l == [work[w] EXCEPT !.pc = "replied", !.item = Accepted(q)]
  <2>1. /\ UNCHANGED <<live, usage, sub, reports, lock, invoice, net, watched>>
        /\ work[w].pc = "call" /\ Arrive(q) /\ Become(w, l)
    BY <1>3 DEF StripeAnswers
  <2>2. q \in Requests /\ work[w] \in Local /\ work[w].report \in 1..Len(reports)
    BY <2>1 DEF WorkOK, LocalOK
  <2>3. Accepted(q) \in BOOLEAN
    BY DEF Accepted
  <2>4. l \in Local /\ l.pc = "replied" /\ l.request = q /\ l.report = work[w].report
    BY <2>2, <2>3 DEF Local, PCs
  <2> HIDE DEF l
  <2>5. RowsStep
    BY <2>1, RowsKept
  <2>6. LocalOK(l, Len(reports'))
    BY <2>1, <2>2, <2>4 DEF LocalOK
  <2>7. WorkOK'
    BY <2>1, <2>4, <2>5, <2>6, BecomeOK
  <2>8. ShellOK'
    BY <2>1, <2>2, ArriveOK DEF ShellOK
  <2> QED BY <2>5, <2>7, <2>8
<1>4. ASSUME NEW q \in net, StripeLate(q)
      PROVE  Good
  <2>1. /\ UNCHANGED <<live, usage, sub, reports, lock, work, invoice, watched>>
        /\ Arrive(q) /\ net' = net \ {q} /\ q \in Requests
    BY <1>4 DEF StripeLate, ShellOK
  <2>2. ShellOK'
    BY <2>1, ArriveOK DEF ShellOK
  <2> QED BY <2>1, <2>2, RowsKept, WorkKept
<1>5. ASSUME NEW k \in saved, KeyForgotten(k)
      PROVE  Good
  <2>1. /\ UNCHANGED <<live, usage, sub, reports, lock, work, invoice, items, net, watched>>
        /\ saved' = saved \ {k}
    BY <1>5 DEF KeyForgotten
  <2> QED BY <2>1, RowsKept, WorkKept DEF ShellOK
<1>6. ASSUME NEW r \in DOMAIN reports, NEW c \in Categories, AttemptAges(r, c)
      PROVE  Good
  <2> DEFINE row == [reports[r] EXCEPT !.attempted[c] = "old"]
  <2>1. UNCHANGED <<live, usage, sub, lock, work, stripeVars, watched>> /\ Update(r, row)
    BY <1>6 DEF AttemptAges
  <2>2. reports[r] \in Report
    BY DEF RowsOK
  <2>3. Rewrite(reports[r], row)
    BY <2>2, RowVariants
  <2> HIDE DEF row
  <2>4. RowsStep
    BY <2>1, <2>3, RowRewritten
  <2> QED BY <2>1, <2>4, WorkKept DEF ShellOK
<1> QED BY <1>1, <1>2, <1>3, <1>4, <1>5, <1>6 DEF Outside

LEMMA FailuresStep ==
  ASSUME Inv, Failures
  PROVE  Good
<1> USE DEF Inv, Good, stripeVars
<1>1. UNCHANGED <<live, usage, sub, reports, invoice, items, saved, watched>>
  BY DEF Failures, LockExpires, Crash, Restart
<1>2. RowsStep
  BY <1>1, RowsKept
<1>3. CASE LockExpires
  BY <1>1, <1>2, <1>3, WorkKept DEF LockExpires, ShellOK
<1>4. ASSUME NEW w \in Workers, Crash(w)
      PROVE  Good
  <2> DEFINE l == [Idle EXCEPT !.pc = "dead"]
  <2>1. /\ Become(w, l) /\ lock' \in {lock, Orphaned}
        /\ \/ net' = net
           \/ work[w].pc = "call" /\ net' = net \cup {work[w].request}
    BY <1>4 DEF Crash
  <2>2. l \in Local /\ l.pc = "dead"
    BY DEF Idle, Local, PCs
  <2>3. net' \subseteq Requests
    BY <2>1 DEF ShellOK, WorkOK, LocalOK
  <2> HIDE DEF l
  <2> QED BY <1>1, <1>2, <2>1, <2>2, <2>3, TakeUp DEF ShellOK
<1>5. ASSUME NEW w \in Workers, Restart(w)
      PROVE  Good
  BY <1>1, <1>2, <1>5, FinishOK DEF Restart, ShellOK
<1> QED BY <1>3, <1>4, <1>5 DEF Failures

-----------------------------------------------------------------------------
(* The theorems.                                                           *)

\* Init establishes the invariant: there is nothing to deliver yet.
LEMMA InitInv ==
  ASSUME BillingAssumption, Init
  PROVE  Inv
<1>1. ShellOK
  <2>1. \E p \in Plans : sub = [plan |-> p, stripeSub |-> OwnSub,
                                status |-> "ACTIVE", current |-> TRUE]
    BY DEF Init
  <2> QED BY <2>1, FS_EmptySet DEF Init, ShellOK, BillingAssumption
<1>2. RowsOK
  <2>1. usage \in UsageType
    BY DEF Init, UsageType, BillingAssumption
  <2>2. reports = <<>>
    BY DEF Init
  <2>3. Sound(usage, reports)
    BY <2>2 DEF Sound, Monotone, Bounded, Ascending, Tile, Safe
  <2> QED BY <2>1, <2>2, <2>3 DEF RowsOK
<1>3. WorkOK
  BY IdleOK DEF Init, WorkOK, LocalOK
<1> QED BY <1>1, <1>2, <1>3 DEF Inv

\* Every step keeps the invariant.
LEMMA NextInv ==
  ASSUME BillingAssumption, Inv, Next
  PROVE  Inv' /\ Frozen
<1>1. CASE Counters
  BY <1>1, CountersStep DEF Good, Inv, RowsStep
<1>2. CASE Outside
  BY <1>2, OutsideStep DEF Good, Inv, RowsStep
<1>3. CASE Failures
  BY <1>3, FailuresStep DEF Good, Inv, RowsStep
<1>4. ASSUME NEW w \in Workers, Staging(w)
      PROVE  Inv' /\ Frozen
  BY <1>4, StagingStep DEF Good, Inv, RowsStep
<1>5. ASSUME NEW w \in Workers, Delivering(w)
      PROVE  Inv' /\ Frozen
  BY <1>5, DeliveringStep DEF Good, Inv, RowsStep
<1> QED BY <1>1, <1>2, <1>3, <1>4, <1>5 DEF Next

\* A step that changes nothing keeps the invariant.
LEMMA StutterInv ==
  ASSUME Inv, UNCHANGED vars
  PROVE  Inv'
BY DEF Inv, vars, stripeVars, ShellOK, RowsOK, WorkOK, LocalOK

\* The inductive invariant holds of every reachable state.
THEOREM Invariance == Spec => []Inv
<1>1. Init => Inv
  BY InitInv, BillingAssumption
<1>2. Inv /\ [Next]_vars => Inv'
  BY NextInv, StutterInv, BillingAssumption
<1> QED BY <1>1, <1>2, PTL DEF Spec

\* Every state of every instance is well typed; in particular a worker never
\* delivers a report that does not exist.
THEOREM TypeCorrect == Spec => []TypeOK
<1>1. Inv => TypeOK
  BY DEF Inv, ShellOK, RowsOK, WorkOK, TypeOK, UsageType
<1> QED BY <1>1, Invariance, PTL

\* stage() tiles the usage of a period, for any number of workers and reports and
\* whatever happens to the overage lock: no unit is reserved twice or skipped.
THEOREM Tiling == Spec => []ReservationsTile
<1>1. Inv => ReservationsTile
  BY DEF Inv, RowsOK, Sound, Tile, ReservationsTile
<1> QED BY <1>1, Invariance, PTL

\* finish() never confirms usage whose charge Stripe has not acknowledged.
THEOREM WatermarkIsSafe == Spec => []WatermarkSafe
<1>1. Inv => WatermarkSafe
  BY DEF Inv, RowsOK, Sound, Safe, WatermarkSafe, Todo
<1> QED BY <1>1, Invariance, PTL

\* No step of any handler changes what a committed report reserved, or moves the
\* watermark back.
THEOREM Freezing == Spec => ReservationsFrozen
<1>1. Inv /\ [Next]_vars => [Frozen]_vars
  BY NextInv, BillingAssumption
<1>2. Spec => [][Frozen]_vars
  BY <1>1, Invariance, PTL DEF Spec
<1> QED BY <1>2 DEF ReservationsFrozen, Frozen

-----------------------------------------------------------------------------
(* Charges: what Stripe holds for a report.                                *)

\* The request q is the one its row asks for now.
Current(q, rep) ==
  /\ rep.attempted[q.key.cat] # "no"
  /\ q.key.carry <=> q.key.cat \in rep.carryover
  /\ q.onInvoice <=> q.key.cat \in rep.onInvoice

\* The charge of q was carried over: Stripe rejects q for good.
Obsolete(q, rep, inv) ==
  q.key.cat \in rep.carryover /\ ~q.key.carry /\ q.onInvoice /\ inv = "final"

OnRow(l) == l.pc \in {"call", "replied"}

\* One worker at a time talks to Stripe about a report, with the request of its row.
OnRowOK(wk, rs) ==
  /\ \A v, w \in Workers : OnRow(wk[v]) /\ OnRow(wk[w]) /\ wk[v].report = wk[w].report => v = w
  /\ \A w \in Workers : OnRow(wk[w]) => /\ wk[w].request.key.report = wk[w].report
                                        /\ Current(wk[w].request, rs[wk[w].report])

NetOK(nt, rs, inv) ==
  \A q \in nt : /\ q.key.report \in DOMAIN rs
                /\ Current(q, rs[q.key.report]) \/ Obsolete(q, rs[q.key.report], inv)

\* The item of a charge was created with the key its row still has, and once; a key
\* that Stripe remembers has its item.
ItemsOK(its, sv, rs) ==
  /\ \A i \in its : /\ i.key.report \in DOMAIN rs
                    /\ rs[i.key.report].attempted[i.key.cat] # "no"
                    /\ i.key.carry <=> i.key.cat \in rs[i.key.report].carryover
  /\ \A i, j \in its : i.key = j.key => i = j
  /\ \A k \in sv : \E i \in its : i.key = k

\* Stripe forgets a key when nobody uses it any more.
ForgottenOK(its, sv, rs, nt, wk) ==
  \A i \in its : i.key \notin sv =>
    /\ rs[i.key.report].attempted[i.key.cat] = "old"
    /\ \A q \in nt : q.key # i.key
    /\ \A w \in Workers : wk[w].pc = "call" => wk[w].request.key # i.key

\* What an answer of Stripe means.
AnswersOK(wk, its, inv) ==
  \A w \in Workers : wk[w].pc = "replied" =>
    /\ wk[w].item => \E i \in its : i.key = wk[w].request.key
    /\ ~wk[w].item => /\ \A i \in its : i.key # wk[w].request.key
                      /\ wk[w].request.onInvoice /\ inv = "final"

\* A charge that was carried over names no invoice, and one that is under way only one
\* that exists; a report is reported when all its charges have items.
RowOK(rep, inv) ==
  /\ \A c \in Categories : /\ c \in rep.carryover => c \notin rep.onInvoice
                           /\ c \in rep.onInvoice /\ rep.attempted[c] # "no" => inv # "none"
  /\ rep.status = "reported" => rep.asked \subseteq rep.itemIds

RecordedOK(rs, its, inv) ==
  \A r \in DOMAIN rs :
    /\ RowOK(rs[r], inv)
    /\ \A c \in rs[r].itemIds : \E i \in its : i.key.report = r /\ i.key.cat = c

Charged ==
  /\ OnRowOK(work, reports) /\ NetOK(net, reports, invoice) /\ ItemsOK(items, saved, reports)
  /\ ForgottenOK(items, saved, reports, net, work) /\ AnswersOK(work, items, invoice)
  /\ RecordedOK(reports, items, invoice)

LEMMA ChargedFolded ==
  ASSUME OnRowOK(work', reports'), NetOK(net', reports', invoice'), ItemsOK(items', saved', reports'),
         ForgottenOK(items', saved', reports', net', work'), AnswersOK(work', items', invoice'),
         RecordedOK(reports', items', invoice')
  PROVE  Charged'
BY DEF Charged, OnRowOK, NetOK, ItemsOK, ForgottenOK, AnswersOK, RecordedOK, OnRow, Current, Obsolete, RowOK

LEMMA ChargedUnfolded ==
  ASSUME Charged
  PROVE  /\ OnRowOK(work, reports) /\ NetOK(net, reports, invoice) /\ ItemsOK(items, saved, reports)
         /\ ForgottenOK(items, saved, reports, net, work) /\ AnswersOK(work, items, invoice)
         /\ RecordedOK(reports, items, invoice)
BY DEF Charged

LEMMA ChargeTypes ==
  ASSUME Inv
  PROVE  /\ reports \in Seq(Report) /\ DOMAIN reports = 1..Len(reports) /\ Len(reports) \in Nat
         /\ \A r \in DOMAIN reports : reports[r] \in Report
         /\ net \subseteq Requests /\ saved \subseteq Keys
         /\ items \subseteq [key : Keys, nth : Nat] /\ IsFiniteSet(items)
         /\ invoice \in {"none", "draft", "final"}
         /\ work \in [Workers -> Local]
         /\ \A w \in Workers : OnRow(work[w]) =>
              /\ work[w].report \in DOMAIN reports
              /\ work[w].request \in Requests /\ work[w].request.key.cat \in Categories
<1>1. \A w \in Workers : OnRow(work[w]) => work[w].report \in 1..Len(reports) /\ work[w].request \in Requests
  BY DEF Inv, WorkOK, LocalOK, OnRow
<1>2. \A q \in Requests : q.key.cat \in Categories
  BY DEF Requests, Keys
<1> QED BY <1>1, <1>2 DEF Inv, RowsOK, ShellOK, WorkOK

\* A row as stage() inserts it.
Blank(rep) ==
  /\ rep.itemIds = {} /\ rep.carryover = {}
  /\ \A c \in Categories : rep.attempted[c] = "no"
  /\ rep.status = "reported" => rep.asked = {}

\* Steps that rewrite no row and no item: reports are staged, workers give up, the
\* invoice moves on.
LEMMA ChargesKept ==
  ASSUME Inv, Charged, UNCHANGED <<items, saved>>,
         \A r \in DOMAIN reports : r \in DOMAIN reports' /\ reports'[r] = reports[r],
         \A r \in DOMAIN reports' : r \notin DOMAIN reports => Blank(reports'[r]),
         \A w \in Workers : OnRow(work'[w]) => work'[w] = work[w],
         \A q \in net' : q \in net \/ \E w \in Workers : work[w].pc = "call" /\ q = work[w].request,
         invoice # "none" => invoice' # "none", invoice = "final" => invoice' = "final"
  PROVE  Charged'
<1>0. /\ OnRowOK(work, reports) /\ NetOK(net, reports, invoice) /\ ItemsOK(items, saved, reports)
      /\ ForgottenOK(items, saved, reports, net, work) /\ AnswersOK(work, items, invoice)
      /\ RecordedOK(reports, items, invoice)
  BY ChargedUnfolded
<1>1. \A w \in Workers : OnRow(work[w]) => work[w].report \in DOMAIN reports
  BY ChargeTypes
<1>2. OnRowOK(work', reports')
  BY <1>0, <1>1 DEF OnRowOK
<1>3. NetOK(net', reports', invoice')
  <2> SUFFICES ASSUME NEW q \in net'
               PROVE  /\ q.key.report \in DOMAIN reports'
                      /\ Current(q, reports'[q.key.report]) \/ Obsolete(q, reports'[q.key.report], invoice')
    BY DEF NetOK
  <2>1. CASE q \in net
    BY <1>0, <2>1 DEF NetOK, Obsolete
  <2>2. CASE \E w \in Workers : work[w].pc = "call" /\ q = work[w].request
    BY <1>0, <1>1, <2>2 DEF OnRowOK, OnRow
  <2> QED BY <2>1, <2>2
<1>4. ItemsOK(items', saved', reports')
  BY <1>0 DEF ItemsOK
<1>5. ForgottenOK(items', saved', reports', net', work')
  <2> SUFFICES ASSUME NEW i \in items, i.key \notin saved
               PROVE  /\ reports'[i.key.report].attempted[i.key.cat] = "old"
                      /\ \A q \in net' : q.key # i.key
                      /\ \A w \in Workers : work'[w].pc = "call" => work'[w].request.key # i.key
    BY DEF ForgottenOK
  <2> QED BY <1>0 DEF ForgottenOK, ItemsOK, OnRow
<1>6. AnswersOK(work', items', invoice')
  BY <1>0 DEF AnswersOK, OnRow
<1>7. RecordedOK(reports', items', invoice')
  <2> SUFFICES ASSUME NEW r \in DOMAIN reports'
               PROVE  /\ RowOK(reports'[r], invoice')
                      /\ \A c \in reports'[r].itemIds : \E i \in items : i.key.report = r /\ i.key.cat = c
    BY DEF RecordedOK
  <2>1. CASE r \in DOMAIN reports
    BY <1>0, <2>1 DEF RecordedOK, RowOK
  <2>2. CASE r \notin DOMAIN reports
    BY <2>2 DEF Blank, RowOK
  <2> QED BY <2>1, <2>2
<1> QED BY <1>2, <1>3, <1>4, <1>5, <1>6, <1>7, ChargedFolded

\* A row is rewritten and keeps the requests that were made for it.
SameCharges(rep, row) ==
  /\ row.carryover = rep.carryover
  /\ \A c \in Categories : rep.attempted[c] # "no" =>
       /\ row.attempted[c] # "no"
       /\ rep.attempted[c] = "old" => row.attempted[c] = "old"
       /\ c \in row.onInvoice <=> c \in rep.onInvoice

LEMMA ChargesRewritten ==
  ASSUME Inv, Charged, UNCHANGED <<items, saved, net, invoice>>,
         NEW r \in DOMAIN reports, NEW row, reports' = [reports EXCEPT ![r] = row],
         SameCharges(reports[r], row), RowOK(row, invoice),
         \A c \in row.itemIds : \E i \in items : i.key.report = r /\ i.key.cat = c,
         \A w \in Workers : OnRow(work'[w]) => work'[w] = work[w]
  PROVE  Charged'
<1>0. /\ OnRowOK(work, reports) /\ NetOK(net, reports, invoice) /\ ItemsOK(items, saved, reports)
      /\ ForgottenOK(items, saved, reports, net, work) /\ AnswersOK(work, items, invoice)
      /\ RecordedOK(reports, items, invoice)
  BY ChargedUnfolded
<1>1. \A w \in Workers : OnRow(work[w]) => work[w].report \in DOMAIN reports /\ work[w].request.key.cat \in Categories
  BY ChargeTypes
<1>2. DOMAIN reports' = DOMAIN reports /\ reports'[r] = row /\ \A p \in DOMAIN reports : p # r => reports'[p] = reports[p]
  BY ChargeTypes
<1>3. \A p \in DOMAIN reports : SameCharges(reports[p], reports'[p])
  BY <1>2 DEF SameCharges
<1>4. \A q \in net : q.key.cat \in Categories
  BY ChargeTypes DEF Requests, Keys
<1>5. \A i \in items : i.key.cat \in Categories
  BY ChargeTypes DEF Keys
<1>6. \A p \in DOMAIN reports : \A q : q.key.cat \in Categories /\ Current(q, reports[p]) => Current(q, reports'[p])
  BY <1>3 DEF SameCharges, Current
<1>7. \A p \in DOMAIN reports : \A q : Obsolete(q, reports[p], invoice) => Obsolete(q, reports'[p], invoice)
  BY <1>3 DEF SameCharges, Obsolete
<1>8. OnRowOK(work', reports')
  BY <1>0, <1>1, <1>6 DEF OnRowOK
<1>9. NetOK(net', reports', invoice')
  BY <1>0, <1>2, <1>4, <1>6, <1>7 DEF NetOK
<1>10. ItemsOK(items', saved', reports')
  BY <1>0, <1>2, <1>3, <1>5 DEF ItemsOK, SameCharges
<1>11. ForgottenOK(items', saved', reports', net', work')
  <2> SUFFICES ASSUME NEW i \in items, i.key \notin saved
               PROVE  /\ reports'[i.key.report].attempted[i.key.cat] = "old"
                      /\ \A q \in net : q.key # i.key
                      /\ \A w \in Workers : work'[w].pc = "call" => work'[w].request.key # i.key
    BY DEF ForgottenOK
  <2>1. i.key.report \in DOMAIN reports /\ reports[i.key.report].attempted[i.key.cat] = "old"
    BY <1>0 DEF ForgottenOK, ItemsOK
  <2>2. reports'[i.key.report].attempted[i.key.cat] = "old"
    BY <1>3, <1>5, <2>1 DEF SameCharges
  <2> QED BY <1>0, <2>2 DEF ForgottenOK, OnRow
<1>12. AnswersOK(work', items', invoice')
  BY <1>0 DEF AnswersOK, OnRow
<1>13. RecordedOK(reports', items', invoice')
  BY <1>0, <1>2 DEF RecordedOK
<1> QED BY <1>8, <1>9, <1>10, <1>11, <1>12, <1>13, ChargedFolded

\* The worker that gave up or went on is not on a row any more.
LEMMA LeavesRow ==
  ASSUME Inv, NEW w \in Workers, NEW l, Become(w, l), ~OnRow(l)
  PROVE  \A v \in Workers : OnRow(work'[v]) => work'[v] = work[v]
<1>1. work'[w] = l /\ \A v \in Workers : v # w => work'[v] = work[v]
  BY ChargeTypes DEF Become
<1> QED BY <1>1

LEMMA OffRow ==
  ASSUME NEW n, NEW s, NEW b
  PROVE  /\ ~OnRow(Idle)
         /\ \A to \in PCs \ {"call", "replied"} :
              /\ ~OnRow([Idle EXCEPT !.pc = to]) /\ ~OnRow([Idle EXCEPT !.pc = to, !.report = n])
              /\ ~OnRow([Idle EXCEPT !.pc = to, !.seen = s, !.billed = b])
              /\ ~OnRow([Idle EXCEPT !.pc = to, !.seen = s, !.report = n])
              /\ ~OnRow([Idle EXCEPT !.pc = to, !.deleting = TRUE])
              /\ ~OnRow([Idle EXCEPT !.pc = to, !.deleting = TRUE, !.report = n])
BY DEF OnRow, Idle

LEMMA EndDeliverLeaves ==
  ASSUME Inv, NEW w \in Workers, EndDeliver(w) \/ Finish(w) \/ EndDelete(w)
  PROVE  \A v \in Workers : OnRow(work'[v]) => work'[v] = work[v]
<1>1. "downgrade" \in PCs \ {"call", "replied"}
  BY DEF PCs
<1> QED BY <1>1, OffRow, LeavesRow DEF EndDeliver, Finish, EndDelete

\* The rows deliver() writes while it holds the row.
LEMMA ChargedDelivering ==
  ASSUME Inv, Charged, NEW w \in Workers,
         \/ DeliverFinish(w)
         \/ \E c \in Categories : DeliverUncollectable(w, c) \/ DeliverPrepare(w, c) \/ DeliverRecover(w, c)
  PROVE  Charged'
<1>0. /\ UNCHANGED <<items, saved, net, invoice>> /\ Holds(w) /\ work[w].pc = "deliver"
  BY DEF DeliverFinish, DeliverUncollectable, DeliverPrepare, DeliverRecover, Holds, stripeVars
<1>1. PICK r \in DOMAIN reports : r = work[w].report /\ reports[r] \in Report
  BY <1>0, AtReport
<1>2. RowOK(reports[r], invoice) /\ \A c \in reports[r].itemIds : \E i \in items : i.key.report = r /\ i.key.cat = c
  BY ChargedUnfolded DEF RecordedOK
<1>3. ASSUME NEW st \in {"needs_review", "reported"}, Update(r, [reports[r] EXCEPT !.status = st]), EndDeliver(w),
             st = "reported" => reports[r].asked \subseteq reports[r].itemIds
      PROVE  Charged'
  <2>1. PICK row : row = [reports[r] EXCEPT !.status = st]
    OBVIOUS
  <2>2. SameCharges(reports[r], row) /\ RowOK(row, invoice) /\ row.itemIds = reports[r].itemIds
    BY <1>1, <1>2, <1>3, <2>1 DEF SameCharges, RowOK, Report
  <2>3. reports' = [reports EXCEPT ![r] = row]
    BY <1>3, <2>1 DEF Update
  <2> QED BY <1>0, <1>2, <1>3, <2>2, <2>3, EndDeliverLeaves, ChargesRewritten
<1>4. CASE DeliverFinish(w)
  BY <1>1, <1>3, <1>4 DEF DeliverFinish
<1>5. ASSUME NEW c \in Categories, DeliverUncollectable(w, c) PROVE Charged'
  BY <1>1, <1>3, <1>5 DEF DeliverUncollectable, Review
<1>6. ASSUME NEW c \in Categories, DeliverPrepare(w, c) PROVE Charged'
  <2>1. PICK on : on = IF invoice = "draft" THEN reports[r].onInvoice ELSE reports[r].onInvoice \ {c}
    OBVIOUS
  <2>2. PICK row : row = [reports[r] EXCEPT !.onInvoice = on, !.attempted[c] = "fresh"]
    OBVIOUS
  <2>3. reports[r].attempted[c] = "no" /\ work' = work
    BY <1>1, <1>6 DEF DeliverPrepare
  <2>4. /\ row.onInvoice = on /\ row.carryover = reports[r].carryover /\ row.itemIds = reports[r].itemIds
        /\ row.status = reports[r].status /\ row.asked = reports[r].asked
        /\ row.attempted[c] = "fresh"
        /\ \A d \in Categories : d # c => row.attempted[d] = reports[r].attempted[d]
    BY <1>1, <2>2 DEF Report
  <2>5. SameCharges(reports[r], row)
    BY <2>1, <2>3, <2>4 DEF SameCharges
  <2>6. RowOK(row, invoice)
    BY <1>2, <2>1, <2>4 DEF RowOK
  <2>7. reports' = [reports EXCEPT ![r] = row]
    BY <1>1, <1>6, <2>1, <2>2 DEF DeliverPrepare, Update
  <2> QED BY <1>0, <1>2, <2>3, <2>4, <2>5, <2>6, <2>7, ChargesRewritten
<1>7. ASSUME NEW c \in Categories, DeliverRecover(w, c) PROVE Charged'
  <2>1. CASE Review(w, r)
    BY <1>3, <2>1 DEF Review
  <2>2. CASE /\ \E i \in items : i.key.report = r /\ i.key.cat = c
             /\ Update(r, [reports[r] EXCEPT !.itemIds = @ \cup {c}])
             /\ UNCHANGED <<lock, work>>
    <3>1. PICK row : row = [reports[r] EXCEPT !.itemIds = @ \cup {c}]
      OBVIOUS
    <3>2. SameCharges(reports[r], row) /\ RowOK(row, invoice) /\ row.itemIds = reports[r].itemIds \cup {c}
      BY <1>1, <1>2, <3>1 DEF SameCharges, RowOK, Report
    <3>3. reports' = [reports EXCEPT ![r] = row]
      BY <2>2, <3>1 DEF Update
    <3> QED BY <1>0, <1>2, <2>2, <3>2, <3>3, ChargesRewritten
  <2> QED BY <1>1, <1>7, <2>1, <2>2 DEF DeliverRecover
<1> QED BY <1>4, <1>5, <1>6, <1>7

\* An attempt ages, and the item Stripe answered with is recorded.
LEMMA ChargedRecorded ==
  ASSUME Inv, Charged,
         \/ \E r \in DOMAIN reports, c \in Categories : AttemptAges(r, c)
         \/ \E w \in Workers : RecordItem(w)
  PROVE  Charged'
<1>1. ASSUME NEW r \in DOMAIN reports, NEW c \in Categories, AttemptAges(r, c)
      PROVE  Charged'
  <2>1. /\ UNCHANGED <<items, saved, net, invoice>> /\ work' = work
        /\ reports[r].attempted[c] = "fresh" /\ reports[r] \in Report
    BY <1>1, ChargeTypes DEF AttemptAges, stripeVars
  <2>2. RowOK(reports[r], invoice) /\ \A d \in reports[r].itemIds : \E i \in items : i.key.report = r /\ i.key.cat = d
    BY ChargedUnfolded DEF RecordedOK
  <2>3. PICK row : row = [reports[r] EXCEPT !.attempted[c] = "old"]
    OBVIOUS
  <2>4. /\ row.onInvoice = reports[r].onInvoice /\ row.carryover = reports[r].carryover
        /\ row.itemIds = reports[r].itemIds /\ row.status = reports[r].status
        /\ row.asked = reports[r].asked /\ row.attempted[c] = "old"
        /\ \A d \in Categories : d # c => row.attempted[d] = reports[r].attempted[d]
    BY <2>1, <2>3 DEF Report
  <2>5. SameCharges(reports[r], row)
    BY <2>1, <2>4 DEF SameCharges
  <2>6. RowOK(row, invoice)
    BY <2>1, <2>2, <2>4 DEF RowOK
  <2>7. reports' = [reports EXCEPT ![r] = row]
    BY <1>1, <2>3 DEF AttemptAges, Update
  <2> QED BY <2>1, <2>2, <2>4, <2>5, <2>6, <2>7, ChargesRewritten
<1>2. ASSUME NEW w \in Workers, RecordItem(w)
      PROVE  Charged'
  <2>0. UNCHANGED <<items, saved, net, invoice>> /\ work[w].pc = "replied" /\ work[w].item
    BY <1>2 DEF RecordItem, stripeVars
  <2>1. PICK r \in DOMAIN reports : r = work[w].report /\ reports[r] \in Report
    BY <2>0, ChargeTypes DEF OnRow
  <2>2. PICK c \in Categories : c = work[w].request.key.cat
    BY <2>0, ChargeTypes DEF OnRow
  <2>3. RowOK(reports[r], invoice) /\ \A d \in reports[r].itemIds : \E i \in items : i.key.report = r /\ i.key.cat = d
    BY ChargedUnfolded DEF RecordedOK
  <2>4. \E i \in items : i.key.report = r /\ i.key.cat = c
    <3>1. work[w].request.key.report = r
      BY <2>0, <2>1, ChargedUnfolded DEF OnRowOK, OnRow
    <3>2. \E i \in items : i.key = work[w].request.key
      BY <2>0, ChargedUnfolded DEF AnswersOK
    <3> QED BY <2>2, <3>1, <3>2
  <2>5. PICK row : row = [reports[r] EXCEPT !.itemIds = @ \cup {c}]
    OBVIOUS
  <2>6. SameCharges(reports[r], row) /\ RowOK(row, invoice) /\ row.itemIds = reports[r].itemIds \cup {c}
    BY <2>1, <2>3, <2>5 DEF SameCharges, RowOK, Report
  <2>7. reports' = [reports EXCEPT ![r] = row]
    BY <1>2, <2>1, <2>2, <2>5 DEF RecordItem, Update
  <2>8. PICK l : l = [work[w] EXCEPT !.pc = "deliver", !.request = None, !.item = FALSE]
    OBVIOUS
  <2>9. ~OnRow(l) /\ Become(w, l)
    BY <1>2, <2>8, ChargeTypes DEF RecordItem, OnRow, Local
  <2>10. \A v \in Workers : OnRow(work'[v]) => work'[v] = work[v]
    BY <2>9, LeavesRow
  <2>11. \A d \in row.itemIds : \E i \in items : i.key.report = r /\ i.key.cat = d
    BY <2>3, <2>4, <2>6
  <2> QED BY <2>0, <2>6, <2>7, <2>10, <2>11, ChargesRewritten
<1> QED BY <1>1, <1>2

\* Stripe rejected the charge because its invoice is final: the row forgets the invoice
\* and takes a new key, and a copy of the old request can only be rejected too.
LEMMA ChargedCarriedOver ==
  ASSUME Inv, Charged, NEW w \in Workers, Carryover(w)
  PROVE  Charged'
<1>0. /\ OnRowOK(work, reports) /\ NetOK(net, reports, invoice) /\ ItemsOK(items, saved, reports)
      /\ ForgottenOK(items, saved, reports, net, work) /\ AnswersOK(work, items, invoice)
      /\ RecordedOK(reports, items, invoice)
  BY ChargedUnfolded
<1>1. UNCHANGED <<items, saved, net, invoice>> /\ work[w].pc = "replied" /\ ~work[w].item
  BY DEF Carryover, stripeVars
<1>2. PICK r \in DOMAIN reports : r = work[w].report /\ reports[r] \in Report
  BY <1>1, ChargeTypes DEF OnRow
<1>3. PICK q \in Requests : q = work[w].request
  BY <1>1, ChargeTypes DEF OnRow
<1>4. PICK c \in Categories : c = q.key.cat
  BY <1>3 DEF Requests, Keys
<1>5. /\ q.key.report = r /\ Current(q, reports[r])
      /\ \A v \in Workers : OnRow(work[v]) /\ work[v].report = r => v = w
  BY <1>0, <1>1, <1>2, <1>3 DEF OnRowOK, OnRow
<1>6. (\A i \in items : i.key # q.key) /\ q.onInvoice /\ invoice = "final"
  BY <1>0, <1>1, <1>3 DEF AnswersOK
<1>7. c \in reports[r].onInvoice /\ c \notin reports[r].carryover /\ ~q.key.carry
  <2>1. RowOK(reports[r], invoice)
    BY <1>0 DEF RecordedOK
  <2> QED BY <1>4, <1>5, <1>6, <2>1 DEF Current, RowOK
<1>8. PICK row : row = [reports[r] EXCEPT !.onInvoice = @ \ {c}, !.carryover = @ \cup {c}, !.attempted[c] = "no"]
  OBVIOUS
<1>9. /\ row.onInvoice = reports[r].onInvoice \ {c} /\ row.carryover = reports[r].carryover \cup {c}
      /\ row.itemIds = reports[r].itemIds /\ row.status = reports[r].status
      /\ row.asked = reports[r].asked /\ row.attempted[c] = "no"
      /\ \A d \in Categories : d # c => row.attempted[d] = reports[r].attempted[d]
  BY <1>2, <1>8 DEF Report
<1>10. reports' = [reports EXCEPT ![r] = row]
  BY <1>2, <1>3, <1>4, <1>8 DEF Carryover, Update
<1>11. DOMAIN reports' = DOMAIN reports /\ reports'[r] = row /\ \A p \in DOMAIN reports : p # r => reports'[p] = reports[p]
  BY <1>10, ChargeTypes
<1>12. PICK l : l = [work[w] EXCEPT !.pc = "deliver", !.request = None]
  OBVIOUS
<1>13. ~OnRow(l) /\ Become(w, l)
  BY <1>12, ChargeTypes DEF Carryover, OnRow, Local
<1>14. work'[w] = l /\ \A v \in Workers : v # w => work'[v] = work[v]
  BY <1>13, ChargeTypes DEF Become
\* Stripe holds nothing for the charge: an item has the key of its row.
<1>15. \A i \in items : ~(i.key.report = r /\ i.key.cat = c)
  <2> SUFFICES ASSUME NEW i \in items, i.key.report = r, i.key.cat = c
               PROVE  FALSE
    OBVIOUS
  <2>1. i.key \in Keys /\ q.key \in Keys
    BY <1>3, ChargeTypes DEF Requests
  <2>2. ~i.key.carry
    BY <1>0, <1>7 DEF ItemsOK
  <2>3. i.key.carry \in BOOLEAN /\ q.key.carry \in BOOLEAN
    BY <2>1 DEF Keys
  <2>4. i.key.carry = q.key.carry
    BY <1>7, <2>2, <2>3
  <2>5. i.key = q.key
    BY <1>4, <1>5, <2>1, <2>4 DEF Keys
  <2> QED BY <1>6, <2>5
<1>16. \A x : Current(x, reports[r]) /\ x.key.cat \in Categories /\ x.key.cat # c => Current(x, row)
  BY <1>9 DEF Current
<1>17. \A x : Current(x, reports[r]) /\ x.key.cat = c => Obsolete(x, row, invoice)
  BY <1>6, <1>7, <1>9 DEF Current, Obsolete
<1>18. \A x : Obsolete(x, reports[r], invoice) => Obsolete(x, row, invoice)
  BY <1>9 DEF Obsolete
<1>19. OnRowOK(work', reports')
  BY <1>0, <1>2, <1>5, <1>11, <1>13, <1>14, ChargeTypes DEF OnRowOK
<1>20. NetOK(net', reports', invoice')
  <2> SUFFICES ASSUME NEW x \in net
               PROVE  /\ x.key.report \in DOMAIN reports'
                      /\ Current(x, reports'[x.key.report]) \/ Obsolete(x, reports'[x.key.report], invoice)
    BY <1>1 DEF NetOK
  <2>1. x.key.cat \in Categories
    BY ChargeTypes DEF Requests, Keys
  <2>2. x.key.report \in DOMAIN reports /\ (Current(x, reports[x.key.report]) \/ Obsolete(x, reports[x.key.report], invoice))
    BY <1>0 DEF NetOK
  <2>3. CASE x.key.report = r
    BY <1>11, <1>16, <1>17, <1>18, <2>1, <2>2, <2>3
  <2>4. CASE x.key.report # r
    BY <1>11, <2>2, <2>4
  <2> QED BY <2>3, <2>4
<1>21. \A i \in items : /\ i.key.report \in DOMAIN reports /\ i.key.cat \in Categories
                        /\ reports'[i.key.report].attempted[i.key.cat] = reports[i.key.report].attempted[i.key.cat]
                        /\ (i.key.cat \in reports'[i.key.report].carryover <=> i.key.cat \in reports[i.key.report].carryover)
  <2> SUFFICES ASSUME NEW i \in items
               PROVE  /\ i.key.report \in DOMAIN reports /\ i.key.cat \in Categories
                      /\ reports'[i.key.report].attempted[i.key.cat] = reports[i.key.report].attempted[i.key.cat]
                      /\ (i.key.cat \in reports'[i.key.report].carryover <=> i.key.cat \in reports[i.key.report].carryover)
    OBVIOUS
  <2>1. i.key.report \in DOMAIN reports /\ i.key.cat \in Categories
    BY <1>0, ChargeTypes DEF ItemsOK, Keys
  <2>2. CASE i.key.report = r
    BY <1>9, <1>11, <1>15, <2>1, <2>2
  <2>3. CASE i.key.report # r
    BY <1>11, <2>1, <2>3
  <2> QED BY <2>1, <2>2, <2>3
<1>22. ItemsOK(items', saved', reports')
  BY <1>0, <1>1, <1>11, <1>21 DEF ItemsOK
<1>23. ForgottenOK(items', saved', reports', net', work')
  <2> SUFFICES ASSUME NEW i \in items, i.key \notin saved
               PROVE  /\ reports'[i.key.report].attempted[i.key.cat] = "old"
                      /\ \A x \in net : x.key # i.key
                      /\ \A v \in Workers : work'[v].pc = "call" => work'[v].request.key # i.key
    BY <1>1 DEF ForgottenOK
  <2>1. reports'[i.key.report].attempted[i.key.cat] = "old"
    BY <1>0, <1>21 DEF ForgottenOK
  <2> QED BY <1>0, <1>13, <1>14, <2>1 DEF ForgottenOK, OnRow
<1>24. AnswersOK(work', items', invoice')
  BY <1>0, <1>1, <1>13, <1>14 DEF AnswersOK, OnRow
<1>25. RecordedOK(reports', items', invoice')
  <2>1. RowOK(reports[r], invoice) /\ \A d \in reports[r].itemIds : \E i \in items : i.key.report = r /\ i.key.cat = d
    BY <1>0 DEF RecordedOK
  <2>2. RowOK(row, invoice)
    BY <1>9, <2>1 DEF RowOK
  <2> QED BY <1>0, <1>1, <1>9, <1>11, <2>1, <2>2 DEF RecordedOK
<1> QED BY <1>19, <1>20, <1>22, <1>23, <1>24, <1>25, ChargedFolded

\* deliver() sends the request of its row: nobody else is on the row, and the attempt is
\* too young for Stripe to have forgotten the key.
LEMMA ChargedSent ==
  ASSUME Inv, Charged, NEW w \in Workers, NEW c \in Categories, DeliverSend(w, c)
  PROVE  Charged'
<1>0. /\ OnRowOK(work, reports) /\ NetOK(net, reports, invoice) /\ ItemsOK(items, saved, reports)
      /\ ForgottenOK(items, saved, reports, net, work) /\ AnswersOK(work, items, invoice)
      /\ RecordedOK(reports, items, invoice)
  BY ChargedUnfolded
<1>1. UNCHANGED <<reports, items, saved, net, invoice>> /\ Holds(w)
  BY DEF DeliverSend, stripeVars
<1>2. PICK r \in DOMAIN reports : r = work[w].report /\ reports[r] \in Report
  BY <1>1, AtReport DEF Holds
<1>3. reports[r].attempted[c] = "fresh"
  BY <1>2 DEF DeliverSend
<1>4. PICK q : q = Request(r, c, reports[r])
  OBVIOUS
<1>5. /\ q.key.report = r /\ q.key.cat = c /\ (q.key.carry <=> c \in reports[r].carryover)
      /\ (q.onInvoice <=> c \in reports[r].onInvoice)
  BY <1>4 DEF Request, Key
<1>6. Current(q, reports[r])
  BY <1>3, <1>5 DEF Current
<1>7. PICK l : l = [work[w] EXCEPT !.pc = "call", !.request = q]
  OBVIOUS
<1>8. Become(w, l)
  BY <1>2, <1>4, <1>7 DEF DeliverSend
<1>9. l.pc = "call" /\ l.request = q /\ l.report = r
  BY <1>2, <1>7, ChargeTypes DEF Local
<1>10. work'[w] = l /\ \A v \in Workers : v # w => work'[v] = work[v]
  BY <1>8, ChargeTypes DEF Become
<1>11. \A v \in Workers : OnRow(work[v]) => work[v].report # r
  BY <1>1, <1>2 DEF Holds, RowLocked, OnRow
<1>12. OnRowOK(work', reports')
  BY <1>0, <1>1, <1>5, <1>6, <1>9, <1>10, <1>11 DEF OnRowOK
<1>13. NetOK(net', reports', invoice') /\ ItemsOK(items', saved', reports') /\ RecordedOK(reports', items', invoice')
  BY <1>0, <1>1
<1>14. ForgottenOK(items', saved', reports', net', work')
  <2> SUFFICES ASSUME NEW i \in items, i.key \notin saved
               PROVE  /\ reports[i.key.report].attempted[i.key.cat] = "old"
                      /\ \A x \in net : x.key # i.key
                      /\ \A v \in Workers : work'[v].pc = "call" => work'[v].request.key # i.key
    BY <1>1 DEF ForgottenOK
  <2>1. /\ reports[i.key.report].attempted[i.key.cat] = "old"
        /\ \A x \in net : x.key # i.key
        /\ \A v \in Workers : work[v].pc = "call" => work[v].request.key # i.key
    BY <1>0 DEF ForgottenOK
  <2>2. q.key # i.key
    BY <1>3, <1>5, <2>1
  <2> QED BY <1>9, <1>10, <2>1, <2>2
<1>15. AnswersOK(work', items', invoice')
  BY <1>0, <1>1, <1>9, <1>10 DEF AnswersOK
<1> QED BY <1>12, <1>13, <1>14, <1>15, ChargedFolded

\* A request that was on its way reaches Stripe.
LEMMA ChargedArrives ==
  ASSUME Inv, Charged, NEW q \in Requests, Arrive(q), UNCHANGED <<reports, invoice>>,
         q \in net \/ \E w \in Workers : work[w].pc = "call" /\ work[w].request = q
  PROVE  /\ items \subseteq items'
         /\ ItemsOK(items', saved', reports) /\ ForgottenOK(items', saved', reports, net, work)
         /\ AnswersOK(work, items', invoice)
         /\ Accepted(q) => \E i \in items' : i.key = q.key
         /\ ~Accepted(q) => /\ \A i \in items' : i.key # q.key
                            /\ q.onInvoice /\ invoice = "final"
<1>0. /\ OnRowOK(work, reports) /\ NetOK(net, reports, invoice) /\ ItemsOK(items, saved, reports)
      /\ ForgottenOK(items, saved, reports, net, work) /\ AnswersOK(work, items, invoice)
      /\ RecordedOK(reports, items, invoice)
  BY ChargedUnfolded
<1>1. PICK r \in DOMAIN reports : r = q.key.report /\ (Current(q, reports[r]) \/ Obsolete(q, reports[r], invoice))
  <2>1. CASE q \in net
    BY <1>0, <2>1 DEF NetOK
  <2>2. CASE \E w \in Workers : work[w].pc = "call" /\ work[w].request = q
    BY <1>0, <2>2, ChargeTypes DEF OnRowOK, OnRow
  <2> QED BY <2>1, <2>2
<1>2. \A i \in items : i.key = q.key => q.key \in saved
  BY <1>0 DEF ForgottenOK
<1>3. q.key.cat \in Categories /\ q.onInvoice \in BOOLEAN
  BY DEF Requests, Keys
<1>4. CASE q.key \in saved
  <2>1. items' = items /\ saved' = saved /\ Accepted(q)
    BY <1>4 DEF Arrive, Accepted
  <2> QED BY <1>0, <1>4, <2>1 DEF ItemsOK
<1>5. CASE q.key \notin saved /\ ~Accepted(q)
  <2>1. items' = items /\ saved' = saved
    BY <1>5 DEF Arrive
  <2>2. q.onInvoice /\ invoice # "draft"
    BY <1>3, <1>5 DEF Accepted
  <2>3. invoice = "final"
    <3>1. RowOK(reports[r], invoice) /\ invoice \in {"none", "draft", "final"}
      BY <1>0, ChargeTypes DEF RecordedOK
    <3> QED BY <1>1, <1>3, <2>2, <3>1 DEF Current, Obsolete, RowOK
  <2> QED BY <1>0, <1>2, <1>5, <2>1, <2>2, <2>3
<1>6. CASE q.key \notin saved /\ Accepted(q)
  <2>1. PICK new : new = [key |-> q.key, nth |-> Cardinality({i \in items : i.key = q.key}) + 1]
    OBVIOUS
  <2>2. items' = items \cup {new} /\ saved' = saved \cup {q.key} /\ new.key = q.key
    BY <1>6, <2>1 DEF Arrive
  <2>3. \A i \in items : i.key # q.key
    BY <1>2, <1>6
  <2>4. ~q.onInvoice \/ invoice = "draft"
    BY <1>6 DEF Accepted
  <2>5. Current(q, reports[r])
    BY <1>1, <2>4 DEF Obsolete
  <2>6. ItemsOK(items', saved', reports)
    <3>1. reports[r].attempted[q.key.cat] # "no" /\ (q.key.carry <=> q.key.cat \in reports[r].carryover)
      BY <2>5 DEF Current
    <3>2. \A i \in items' : /\ i.key.report \in DOMAIN reports
                            /\ reports[i.key.report].attempted[i.key.cat] # "no"
                            /\ i.key.carry <=> i.key.cat \in reports[i.key.report].carryover
      BY <1>0, <1>1, <2>2, <3>1 DEF ItemsOK
    <3>3. \A i, j \in items' : i.key = j.key => i = j
      BY <1>0, <2>2, <2>3 DEF ItemsOK
    <3>4. \A k \in saved' : \E i \in items' : i.key = k
      BY <1>0, <2>2 DEF ItemsOK
    <3> QED BY <3>2, <3>3, <3>4 DEF ItemsOK
  <2>7. ForgottenOK(items', saved', reports, net, work)
    BY <1>0, <2>2 DEF ForgottenOK
  <2>8. AnswersOK(work, items', invoice)
    <3> SUFFICES ASSUME NEW v \in Workers, work[v].pc = "replied", ~work[v].item
                 PROVE  q.key # work[v].request.key
      BY <1>0, <2>2 DEF AnswersOK
    <3>1. Current(work[v].request, reports[work[v].report]) /\ work[v].request.key.report = work[v].report
      BY <1>0 DEF OnRowOK, OnRow
    <3>2. work[v].request.onInvoice /\ invoice = "final"
      BY <1>0 DEF AnswersOK
    <3> QED BY <1>1, <2>4, <2>5, <3>1, <3>2 DEF Current
  <2> QED BY <1>6, <2>2, <2>6, <2>7, <2>8
<1> QED BY <1>4, <1>5, <1>6

\* Stripe answers a worker, or a request that nobody waits for.
LEMMA ChargedAnswered ==
  ASSUME Inv, Charged, (\E w \in Workers : StripeAnswers(w)) \/ \E q \in net : StripeLate(q)
  PROVE  Charged'
<1>0. /\ OnRowOK(work, reports) /\ NetOK(net, reports, invoice) /\ ItemsOK(items, saved, reports)
      /\ ForgottenOK(items, saved, reports, net, work) /\ AnswersOK(work, items, invoice)
      /\ RecordedOK(reports, items, invoice)
  BY ChargedUnfolded
<1>1. UNCHANGED <<reports, invoice>>
  BY DEF StripeAnswers, StripeLate
<1>2. ASSUME NEW q \in net, StripeLate(q) PROVE Charged'
  <2>1. q \in Requests /\ Arrive(q) /\ net' = net \ {q} /\ work' = work
    BY <1>2, ChargeTypes DEF StripeLate
  <2>2. /\ items \subseteq items'
        /\ ItemsOK(items', saved', reports) /\ ForgottenOK(items', saved', reports, net, work)
        /\ AnswersOK(work, items', invoice)
    BY <1>1, <2>1, ChargedArrives
  <2>3. ForgottenOK(items', saved', reports', net', work') /\ NetOK(net', reports', invoice')
    BY <1>0, <1>1, <2>1, <2>2 DEF ForgottenOK, NetOK
  <2>4. RecordedOK(reports', items', invoice')
    BY <1>0, <1>1, <2>2 DEF RecordedOK
  <2>5. ItemsOK(items', saved', reports') /\ AnswersOK(work', items', invoice') /\ OnRowOK(work', reports')
    BY <1>0, <1>1, <2>1, <2>2
  <2> QED BY <2>3, <2>4, <2>5, ChargedFolded
<1>3. ASSUME NEW w \in Workers, StripeAnswers(w) PROVE Charged'
  <2>1. PICK q \in Requests : q = work[w].request
    BY <1>3, ChargeTypes DEF StripeAnswers, OnRow
  <2>2. PICK b \in BOOLEAN : b = Accepted(q)
    BY DEF Accepted
  <2>3. PICK l : l = [work[w] EXCEPT !.pc = "replied", !.item = b]
    OBVIOUS
  <2>4. work[w].pc = "call" /\ Arrive(q) /\ net' = net /\ Become(w, l)
    BY <1>3, <2>1, <2>2, <2>3 DEF StripeAnswers
  <2>5. l.pc = "replied" /\ l.item = b /\ l.request = q /\ l.report = work[w].report
    BY <2>1, <2>3, ChargeTypes DEF Local
  <2>6. work'[w] = l /\ \A v \in Workers : v # w => work'[v] = work[v]
    BY <2>4, ChargeTypes DEF Become
  <2>7. /\ items \subseteq items'
        /\ ItemsOK(items', saved', reports) /\ ForgottenOK(items', saved', reports, net, work)
        /\ AnswersOK(work, items', invoice)
        /\ b => \E i \in items' : i.key = q.key
        /\ ~b => /\ \A i \in items' : i.key # q.key
                 /\ q.onInvoice /\ invoice = "final"
    BY <1>1, <2>1, <2>2, <2>4, ChargedArrives
  <2>8. OnRowOK(work', reports')
    BY <1>0, <1>1, <2>1, <2>4, <2>5, <2>6 DEF OnRowOK, OnRow
  <2>9. ForgottenOK(items', saved', reports', net', work') /\ NetOK(net', reports', invoice')
    BY <1>0, <1>1, <2>4, <2>5, <2>6, <2>7 DEF ForgottenOK, NetOK
  <2>10. AnswersOK(work', items', invoice')
    BY <1>1, <2>5, <2>6, <2>7 DEF AnswersOK
  <2>11. RecordedOK(reports', items', invoice') /\ ItemsOK(items', saved', reports')
    BY <1>0, <1>1, <2>7 DEF RecordedOK
  <2> QED BY <2>8, <2>9, <2>10, <2>11, ChargedFolded
<1> QED BY <1>2, <1>3

\* Stripe forgets a key that is no longer in use.
LEMMA ChargedForgotten ==
  ASSUME Inv, Charged, NEW k \in saved, KeyForgotten(k)
  PROVE  Charged'
<1>0. /\ OnRowOK(work, reports) /\ NetOK(net, reports, invoice) /\ ItemsOK(items, saved, reports)
      /\ ForgottenOK(items, saved, reports, net, work) /\ AnswersOK(work, items, invoice)
      /\ RecordedOK(reports, items, invoice)
  BY ChargedUnfolded
<1>1. /\ UNCHANGED <<reports, work, invoice, items, net>> /\ saved' = saved \ {k}
      /\ reports[k.report].attempted[k.cat] = "old"
      /\ \A q \in net : q.key # k
      /\ \A w \in Workers : work[w].pc = "call" => work[w].request.key # k
  BY DEF KeyForgotten
<1>2. ForgottenOK(items', saved', reports', net', work')
  BY <1>0, <1>1 DEF ForgottenOK
<1>3. ItemsOK(items', saved', reports')
  BY <1>0, <1>1 DEF ItemsOK
<1>4. /\ OnRowOK(work', reports') /\ NetOK(net', reports', invoice') /\ AnswersOK(work', items', invoice')
      /\ RecordedOK(reports', items', invoice')
  BY <1>0, <1>1
<1> QED BY <1>2, <1>3, <1>4, ChargedFolded

\* What stage() adds is a row for which nothing was requested yet.
LEMMA StagedBlank ==
  ASSUME BillingAssumption, Inv, NEW u \in UsageType, u.reported = usage.reported,
         NEW closing \in BOOLEAN, NEW onInvoice \in BOOLEAN, NEW allowClosed \in BOOLEAN,
         \/ reports' = reports
         \/ reports' = Stage(u, reports, closing, onInvoice, allowClosed)
  PROVE  /\ \A r \in DOMAIN reports : r \in DOMAIN reports' /\ reports'[r] = reports[r]
         /\ \A r \in DOMAIN reports' : r \notin DOMAIN reports => Blank(reports'[r])
<1>1. /\ usage \in UsageType /\ reports \in Seq(Report) /\ Monotone(reports)
      /\ sub.plan \in Plans /\ sub.stripeSub \in StripeSubs \cup {None}
  BY DEF Inv, RowsOK, ShellOK, Sound
<1>2. PICK new : new = NewReport(u, reports, closing, onInvoice)
  OBVIOUS
<1>3. new \in Report
  BY <1>1, <1>2, NewReportProperty
<1>4. Blank(new)
  BY <1>2 DEF Blank, NewReport
<1>5. reports' = reports \/ reports' = Append(reports, new)
  BY <1>2 DEF Stage
<1>6. CASE reports' = reports
  BY <1>6
<1>7. CASE reports' = Append(reports, new)
  <2>1. /\ DOMAIN reports = 1..Len(reports) /\ Len(reports) \in Nat
        /\ DOMAIN reports' = 1..(Len(reports) + 1)
        /\ reports'[Len(reports) + 1] = new
        /\ \A r \in 1..Len(reports) : reports'[r] = reports[r]
    BY <1>1, <1>3, <1>7
  <2>2. \A r \in 1..(Len(reports) + 1) : r \in 1..Len(reports) \/ r = Len(reports) + 1
    BY <2>1
  <2> QED BY <1>4, <2>1, <2>2
<1> QED BY <1>5, <1>6, <1>7

LEMMA ReadLeaves ==
  ASSUME Inv, NEW w \in Workers, NEW to \in PCs \ {"call", "replied"}, Read(w, to)
  PROVE  \A v \in Workers : OnRow(work'[v]) => work'[v] = work[v]
<1>1. PICK l : l = [Idle EXCEPT !.pc = to, !.seen = live, !.billed = usage.billed]
  OBVIOUS
<1>2. ~OnRow(l)
  BY <1>1, OffRow
<1>3. Become(w, l)
  BY <1>1 DEF Read
<1> QED BY <1>2, <1>3, LeavesRow

LEMMA ThenDeliverLeaves ==
  ASSUME Inv, NEW w \in Workers, ThenDeliver(w)
  PROVE  \A v \in Workers : OnRow(work'[v]) => work'[v] = work[v]
<1>1. PICK l : l = [Idle EXCEPT !.pc = "deliver", !.report = Len(reports')]
  OBVIOUS
<1>2. ~OnRow(l)
  BY <1>1 DEF OnRow, Idle
<1>3. Become(w, l) \/ Finish(w)
  BY <1>1 DEF ThenDeliver
<1> QED BY <1>2, <1>3, LeavesRow, EndDeliverLeaves

\* The handlers that sync, stage and close touch no charge that is under way.
LEMMA ChargedStaging ==
  ASSUME BillingAssumption, Inv, Charged, NEW w \in Workers, Staging(w)
  PROVE  Charged'
<1> USE DEF stripeVars
<1>0. UNCHANGED <<items, saved, net, invoice>>
  BY DEF Staging, SyncBegin, SyncWrite, BillBegin, BillStage, InvoiceCreatedBegin, InvoiceCreatedStage,
         InvoicePaidBegin, InvoicePaidClose, LateBegin, LateStage, DeletedBegin, DeletedStage,
         DeletedSkip, Downgrade
<1>1. SUFFICES /\ \A r \in DOMAIN reports : r \in DOMAIN reports' /\ reports'[r] = reports[r]
               /\ \A r \in DOMAIN reports' : r \notin DOMAIN reports => Blank(reports'[r])
               /\ \A v \in Workers : OnRow(work'[v]) => work'[v] = work[v]
  BY <1>0, ChargesKept
<1>2. PICK s \in UsageType : s = Synced(w) /\ s.reported = usage.reported
  BY SyncedOK DEF Inv
<1>3. usage \in UsageType
  BY DEF Inv, RowsOK
<1>4. CASE SyncBegin(w) \/ BillBegin(w) \/ InvoiceCreatedBegin(w) \/ InvoicePaidBegin(w)
  <2>1. reports' = reports /\ \E to \in {"sync", "bill", "created", "paid"} : Read(w, to)
    BY <1>4 DEF SyncBegin, BillBegin, InvoiceCreatedBegin, InvoicePaidBegin
  <2> QED BY <2>1, ReadLeaves DEF PCs
<1>5. CASE SyncWrite(w) \/ DeletedSkip(w) \/ Downgrade(w)
  <2>1. reports' = reports /\ Finish(w)
    BY <1>5 DEF SyncWrite, DeletedSkip, Downgrade
  <2> QED BY <2>1, EndDeliverLeaves
<1>6. CASE BillStage(w)
  <2>1. ThenDeliver(w) /\ (reports' = reports \/ reports' = Stage(s, reports, FALSE, FALSE, FALSE))
    BY <1>2, <1>6 DEF BillStage
  <2> QED BY <1>2, <2>1, StagedBlank, ThenDeliverLeaves
<1>7. CASE InvoiceCreatedStage(w)
  <2>1. PICK u \in UsageType : u = usage' /\ u.reported = usage.reported
    BY <1>2, <1>3, <1>7 DEF InvoiceCreatedStage
  <2>2. ThenDeliver(w) /\ reports' = Stage(u, reports, FALSE, TRUE, FALSE)
    BY <1>7, <2>1 DEF InvoiceCreatedStage
  <2> QED BY <2>1, <2>2, StagedBlank, ThenDeliverLeaves
<1>8. CASE InvoicePaidClose(w)
  <2>1. Finish(w) /\ (reports' = reports \/ reports' = Stage(s, reports, TRUE, FALSE, FALSE))
    BY <1>2, <1>8 DEF InvoicePaidClose
  <2> QED BY <1>2, <2>1, StagedBlank, EndDeliverLeaves
<1>9. CASE LateStage(w)
  <2>1. Finish(w) /\ reports' = Stage(s, reports, FALSE, FALSE, TRUE)
    BY <1>2, <1>9 DEF LateStage
  <2> QED BY <1>2, <2>1, StagedBlank, EndDeliverLeaves
<1>10. ASSUME NEW r \in DOMAIN reports, LateBegin(w, r)
       PROVE  /\ \A q \in DOMAIN reports : q \in DOMAIN reports' /\ reports'[q] = reports[q]
              /\ \A q \in DOMAIN reports' : q \notin DOMAIN reports => Blank(reports'[q])
              /\ \A v \in Workers : OnRow(work'[v]) => work'[v] = work[v]
  <2>1. PICK l : l = [Idle EXCEPT !.pc = "late", !.seen = live, !.report = r]
    OBVIOUS
  <2>2. reports' = reports /\ Become(w, l)
    BY <1>10, <2>1 DEF LateBegin
  <2>3. ~OnRow(l)
    BY <2>1 DEF OnRow, Idle
  <2> QED BY <2>2, <2>3, LeavesRow
<1>11. CASE DeletedBegin(w)
  <2>1. PICK l : l = [Idle EXCEPT !.pc = "downgrade"]
    OBVIOUS
  <2>2. reports' = reports /\ (Read(w, "deleted") \/ Become(w, l))
    BY <1>11, <2>1 DEF DeletedBegin
  <2>3. ~OnRow(l)
    BY <2>1 DEF OnRow, Idle
  <2>4. "deleted" \in PCs \ {"call", "replied"}
    BY DEF PCs
  <2> QED BY <2>2, <2>3, <2>4, LeavesRow, ReadLeaves
<1>12. CASE DeletedStage(w)
  <2>1. PICK l : l = [Idle EXCEPT !.pc = "deliver", !.deleting = TRUE, !.report = Len(reports')]
    OBVIOUS
  <2>2. ~OnRow(l)
    BY <2>1 DEF OnRow, Idle
  <2>3. Become(w, l) \/ EndDelete(w)
    BY <1>12, <2>1 DEF DeletedStage
  <2>4. reports' = reports \/ reports' = Stage(s, reports, FALSE, FALSE, FALSE)
    BY <1>2, <1>12 DEF DeletedStage
  <2> QED BY <1>2, <2>2, <2>3, <2>4, StagedBlank, LeavesRow, EndDeliverLeaves
<1> QED BY <1>4, <1>5, <1>6, <1>7, <1>8, <1>9, <1>10, <1>11, <1>12 DEF Staging

\* Nothing is written but locks, counters, subscriptions and the invoice, and a worker
\* that gives up or dies may leave its request under way.
LEMMA ChargedQuiet ==
  ASSUME Inv, Charged,
         \/ Counters \/ Failures \/ WatchEnds \/ SubscriptionUpdated \/ CheckoutCompleted
         \/ InvoiceDrafted \/ InvoiceFinalized
         \/ \E w \in Workers : \/ DeliverExit(w) \/ DeliverFails(w)
                               \/ \E r \in DOMAIN reports : DeliverBegin(w, r)
  PROVE  Charged'
<1> USE DEF stripeVars
<1>0. UNCHANGED <<items, saved, reports>>
  BY DEF Counters, Increment, Refund, KeyExpires, Failures, LockExpires, Crash, Restart, WatchEnds,
         SubscriptionUpdated, CheckoutCompleted, InvoiceDrafted, InvoiceFinalized, DeliverExit,
         DeliverFails, DeliverBegin
<1>1. ASSUME \A w \in Workers : OnRow(work'[w]) => work'[w] = work[w],
             \A q \in net' : q \in net \/ \E w \in Workers : work[w].pc = "call" /\ q = work[w].request,
             invoice # "none" => invoice' # "none", invoice = "final" => invoice' = "final"
      PROVE  Charged'
  BY <1>0, <1>1, ChargesKept
<1>2. CASE \/ Counters \/ LockExpires \/ WatchEnds \/ SubscriptionUpdated \/ CheckoutCompleted
           \/ InvoiceDrafted \/ InvoiceFinalized
  <2>1. /\ work' = work /\ net' = net
        /\ (invoice # "none" => invoice' # "none") /\ (invoice = "final" => invoice' = "final")
    BY <1>2 DEF Counters, Increment, Refund, KeyExpires, LockExpires, WatchEnds,
         SubscriptionUpdated, CheckoutCompleted, InvoiceDrafted, InvoiceFinalized
  <2> QED BY <1>1, <2>1
<1>3. ASSUME NEW w \in Workers, Restart(w) \/ DeliverExit(w) PROVE Charged'
  <2>1. net' = net /\ invoice' = invoice /\ (Finish(w) \/ EndDeliver(w))
    BY <1>3 DEF Restart, DeliverExit
  <2> QED BY <1>1, <2>1, EndDeliverLeaves
<1>4. ASSUME NEW w \in Workers, Crash(w) PROVE Charged'
  <2>1. PICK l : l = [Idle EXCEPT !.pc = "dead"]
    OBVIOUS
  <2>2. ~OnRow(l)
    BY <2>1 DEF OnRow, Idle
  <2>3. /\ Become(w, l) /\ invoice' = invoice
        /\ \/ net' = net
           \/ work[w].pc = "call" /\ net' = net \cup {work[w].request}
    BY <1>4, <2>1 DEF Crash
  <2> QED BY <1>1, <2>2, <2>3, LeavesRow
<1>5. ASSUME NEW w \in Workers, DeliverFails(w) PROVE Charged'
  <2>1. /\ EndDeliver(w) /\ invoice' = invoice
        /\ \/ net' = net
           \/ work[w].pc = "call" /\ net' = net \cup {work[w].request}
    BY <1>5 DEF DeliverFails
  <2> QED BY <1>1, <2>1, EndDeliverLeaves
<1>6. ASSUME NEW w \in Workers, NEW r \in DOMAIN reports, DeliverBegin(w, r) PROVE Charged'
  <2>1. PICK l : l = [Idle EXCEPT !.pc = "deliver", !.report = r]
    OBVIOUS
  <2>2. ~OnRow(l)
    BY <2>1 DEF OnRow, Idle
  <2>3. Become(w, l) /\ invoice' = invoice /\ net' = net
    BY <1>6, <2>1 DEF DeliverBegin
  <2> QED BY <1>1, <2>2, <2>3, LeavesRow
<1> QED BY <1>2, <1>3, <1>4, <1>5, <1>6 DEF Failures

LEMMA ChargedInit ==
  ASSUME BillingAssumption, Init
  PROVE  Charged
<1>1. /\ reports = <<>> /\ items = {} /\ saved = {} /\ net = {}
      /\ \A w \in Workers : work[w].pc = "idle"
  BY DEF Init, Idle
<1> QED BY <1>1 DEF Charged, OnRowOK, NetOK, ItemsOK, ForgottenOK, AnswersOK, RecordedOK, OnRow

LEMMA ChargedNext ==
  ASSUME BillingAssumption, Inv, Charged, Next
  PROVE  Charged'
<1>1. CASE Counters \/ Failures
  BY <1>1, ChargedQuiet
<1>2. CASE Outside
  BY <1>2, ChargedQuiet, ChargedAnswered, ChargedForgotten, ChargedRecorded DEF Outside
<1>3. ASSUME NEW w \in Workers, Staging(w) PROVE Charged'
  BY <1>3, ChargedStaging
<1>4. ASSUME NEW w \in Workers, Delivering(w) PROVE Charged'
  BY <1>4, ChargedQuiet, ChargedDelivering, ChargedSent, ChargedRecorded, ChargedCarriedOver
  DEF Delivering
<1> QED BY <1>1, <1>2, <1>3, <1>4 DEF Next

LEMMA ChargedStutter ==
  ASSUME Charged, UNCHANGED vars
  PROVE  Charged'
BY ChargedUnfolded, ChargedFolded DEF vars, stripeVars

\* What Stripe holds, what is under way and what the rows say agree in every reachable
\* state.
THEOREM ChargesAgree == Spec => []Charged
<1>1. Init => Charged
  BY ChargedInit, BillingAssumption
<1>2. Inv /\ Charged /\ [Next]_vars => Charged'
  BY ChargedNext, ChargedStutter, BillingAssumption
<1> QED BY <1>1, <1>2, Invariance, PTL DEF Spec

\* deliver() never charges a customer twice for what one report owes in one category,
\* for any number of workers, reports and retries: not when an answer is lost or a
\* worker dies with its request under way, not when Stripe forgets the idempotency key,
\* and not when a charge whose invoice is final is asked for again under a new key.
THEOREM ChargedOnce == Spec => []NoDoubleCharge
<1>1. Inv /\ Charged => NoDoubleCharge
  <2> SUFFICES ASSUME Inv, Charged, NEW i \in items, NEW j \in items,
                      i.key.report = j.key.report, i.key.cat = j.key.cat
               PROVE  i = j
    BY DEF NoDoubleCharge
  <2>1. i.key \in Keys /\ j.key \in Keys
    BY ChargeTypes
  <2>2. i.key.carry <=> j.key.carry
    BY ChargedUnfolded DEF ItemsOK
  <2>3. i.key.carry = j.key.carry
    BY <2>1, <2>2 DEF Keys
  <2>4. i.key = j.key
    BY <2>1, <2>3 DEF Keys
  <2> QED BY <2>4, ChargedUnfolded DEF ItemsOK
<1> QED BY <1>1, Invariance, ChargesAgree, PTL

\* deliver() marks a report reported only when Stripe holds an invoice item for each of
\* its charges, whether the item was answered or looked up later.
THEOREM ReportedHasItems == Spec => []ReportedIsCharged
<1>1. Charged /\ TypeOK => ReportedIsCharged
  BY ChargedUnfolded DEF RecordedOK, RowOK, ReportedIsCharged
<1> QED BY <1>1, ChargesAgree, TypeCorrect, PTL

-----------------------------------------------------------------------------
(* Overage billing implements the ledger.                                  *)

InFlight(q) == q \in net \/ \E w \in Workers : work[w].pc = "call" /\ work[w].request = q

\* What a step does to the rows and the items: only attempts of charges the row asks for
\* are recorded, or one row is staged, or a request that is under way arrives.
KeepsRows ==
  /\ items' = items /\ DOMAIN reports' = DOMAIN reports
  /\ \A r \in DOMAIN reports : \A c \in Categories :
       reports'[r].attempted[c] # "no" => reports[r].attempted[c] # "no" \/ c \in reports[r].asked

AddsRow ==
  /\ items' = items
  /\ \E u \in UsageType : \E closing, onInvoice \in BOOLEAN :
       /\ u.reported = usage.reported
       /\ reports' = Append(reports, NewReport(u, reports, closing, onInvoice))

Arrives == reports' = reports /\ invoice' = invoice /\ \E q \in Requests : Arrive(q) /\ InFlight(q)

LEMMA UpdateKeepsRows ==
  ASSUME Inv, items' = items, NEW r \in DOMAIN reports, NEW row, Update(r, row),
         \A c \in Categories :
           row.attempted[c] # "no" => reports[r].attempted[c] # "no" \/ c \in reports[r].asked
  PROVE  KeepsRows
<1>1. DOMAIN reports' = DOMAIN reports /\ \A p \in DOMAIN reports : reports'[p] = IF p = r THEN row ELSE reports[p]
  BY ChargeTypes DEF Update
<1> QED BY <1>1 DEF KeepsRows

LEMMA StagingKinds ==
  ASSUME Inv, NEW w \in Workers, Staging(w)
  PROVE  KeepsRows \/ AddsRow
<1> USE DEF stripeVars
<1>0. items' = items
  BY DEF Staging, SyncBegin, SyncWrite, BillBegin, BillStage, InvoiceCreatedBegin, InvoiceCreatedStage,
         InvoicePaidBegin, InvoicePaidClose, LateBegin, LateStage, DeletedBegin, DeletedStage,
         DeletedSkip, Downgrade
<1>1. PICK s \in UsageType : s = Synced(w) /\ s.reported = usage.reported
  BY SyncedOK DEF Inv
<1>2. usage \in UsageType
  BY DEF Inv, RowsOK
<1>3. CASE reports' = reports
  BY <1>0, <1>3 DEF KeepsRows
<1>4. ASSUME NEW u \in UsageType, u.reported = usage.reported, NEW closing \in BOOLEAN,
             NEW onInvoice \in BOOLEAN, NEW allowClosed \in BOOLEAN,
             reports' = Stage(u, reports, closing, onInvoice, allowClosed)
      PROVE  KeepsRows \/ AddsRow
  <2>1. reports' = reports \/ reports' = Append(reports, NewReport(u, reports, closing, onInvoice))
    BY <1>4 DEF Stage
  <2> QED BY <1>0, <1>3, <1>4, <2>1 DEF AddsRow
<1>5. CASE \/ SyncBegin(w) \/ BillBegin(w) \/ InvoiceCreatedBegin(w) \/ InvoicePaidBegin(w)
           \/ SyncWrite(w) \/ DeletedSkip(w) \/ Downgrade(w) \/ DeletedBegin(w)
           \/ \E r \in DOMAIN reports : LateBegin(w, r)
  BY <1>3, <1>5 DEF SyncBegin, BillBegin, InvoiceCreatedBegin, InvoicePaidBegin, SyncWrite, DeletedSkip,
                    Downgrade, DeletedBegin, LateBegin
<1>6. CASE BillStage(w) \/ DeletedStage(w)
  <2>1. reports' = reports \/ reports' = Stage(s, reports, FALSE, FALSE, FALSE)
    BY <1>1, <1>6 DEF BillStage, DeletedStage
  <2> QED BY <1>1, <1>3, <1>4, <2>1
<1>7. CASE InvoiceCreatedStage(w)
  <2>1. PICK u \in UsageType : u = usage' /\ u.reported = usage.reported
    BY <1>1, <1>2, <1>7 DEF InvoiceCreatedStage
  <2>2. reports' = Stage(u, reports, FALSE, TRUE, FALSE)
    BY <1>7, <2>1 DEF InvoiceCreatedStage
  <2> QED BY <1>4, <2>1, <2>2
<1>8. CASE InvoicePaidClose(w)
  <2>1. reports' = reports \/ reports' = Stage(s, reports, TRUE, FALSE, FALSE)
    BY <1>1, <1>8 DEF InvoicePaidClose
  <2> QED BY <1>1, <1>3, <1>4, <2>1
<1>9. CASE LateStage(w)
  <2>1. reports' = Stage(s, reports, FALSE, FALSE, TRUE)
    BY <1>1, <1>9 DEF LateStage
  <2> QED BY <1>1, <1>4, <2>1
<1> QED BY <1>5, <1>6, <1>7, <1>8, <1>9 DEF Staging

LEMMA DeliveringKinds ==
  ASSUME Inv, NEW w \in Workers, Delivering(w)
  PROVE  KeepsRows
<1> USE DEF stripeVars
<1>0. items' = items
  BY DEF Delivering, DeliverBegin, DeliverExit, DeliverFinish, DeliverUncollectable, DeliverPrepare,
         DeliverSend, DeliverRecover, RecordItem, Carryover, DeliverFails
<1>1. CASE reports' = reports
  BY <1>0, <1>1 DEF KeepsRows
<1>2. CASE \/ \E r \in DOMAIN reports : DeliverBegin(w, r)
           \/ DeliverExit(w) \/ DeliverFails(w) \/ \E c \in Categories : DeliverSend(w, c)
  BY <1>1, <1>2 DEF DeliverBegin, DeliverExit, DeliverFails, DeliverSend
<1>3. ASSUME work[w].pc \in {"deliver", "replied"},
             NEW row, Update(work[w].report, row),
             \A c \in Categories : row.attempted[c] # "no" =>
               \/ reports[work[w].report].attempted[c] # "no"
               \/ c \in reports[work[w].report].asked
      PROVE  KeepsRows
  BY <1>0, <1>3, AtReport, UpdateKeepsRows
<1>4. ASSUME work[w].pc \in {"deliver", "replied"}
      PROVE  reports[work[w].report] \in Report
  BY <1>4, AtReport
<1>5. ASSUME NEW st, work[w].pc = "deliver", Update(work[w].report, [reports[work[w].report] EXCEPT !.status = st])
      PROVE  KeepsRows
  <2>1. [reports[work[w].report] EXCEPT !.status = st].attempted = reports[work[w].report].attempted
    BY <1>4, <1>5 DEF Report
  <2> QED BY <1>3, <1>5, <2>1
<1>6. ASSUME NEW c, work[w].pc \in {"deliver", "replied"},
             Update(work[w].report, [reports[work[w].report] EXCEPT !.itemIds = @ \cup {c}])
      PROVE  KeepsRows
  <2>1. [reports[work[w].report] EXCEPT !.itemIds = @ \cup {c}].attempted = reports[work[w].report].attempted
    BY <1>4, <1>6 DEF Report
  <2> QED BY <1>3, <1>6, <2>1
<1>7. CASE DeliverFinish(w)
  BY <1>5, <1>7 DEF DeliverFinish, Holds
<1>8. ASSUME NEW c \in Categories, DeliverUncollectable(w, c) PROVE KeepsRows
  BY <1>5, <1>8 DEF DeliverUncollectable, Review, Holds
<1>9. ASSUME NEW c \in Categories, DeliverRecover(w, c) PROVE KeepsRows
  <2>1. work[w].pc = "deliver"
    BY <1>9 DEF DeliverRecover, Holds
  <2>2. \/ Update(work[w].report, [reports[work[w].report] EXCEPT !.itemIds = @ \cup {c}])
        \/ Update(work[w].report, [reports[work[w].report] EXCEPT !.status = "needs_review"])
    BY <1>9 DEF DeliverRecover, Review
  <2> QED BY <1>5, <1>6, <2>1, <2>2
<1>10. CASE RecordItem(w)
  <2>1. PICK c : c = work[w].request.key.cat
    OBVIOUS
  <2>2. PICK row : row = [reports[work[w].report] EXCEPT !.itemIds = @ \cup {c}]
    OBVIOUS
  <2>3. work[w].pc \in {"deliver", "replied"} /\ Update(work[w].report, row)
    BY <1>10, <2>1, <2>2 DEF RecordItem
  <2>4. row.attempted = reports[work[w].report].attempted
    BY <1>4, <2>2, <2>3 DEF Report
  <2> QED BY <1>3, <2>3, <2>4
<1>11. ASSUME NEW c \in Categories, DeliverPrepare(w, c) PROVE KeepsRows
  <2>1. PICK r \in DOMAIN reports : r = work[w].report /\ reports[r] \in Report
    BY <1>11, AtReport DEF DeliverPrepare, Holds
  <2>2. PICK on : on = IF invoice = "draft" THEN reports[r].onInvoice ELSE reports[r].onInvoice \ {c}
    OBVIOUS
  <2>3. PICK row : row = [reports[r] EXCEPT !.onInvoice = on, !.attempted[c] = "fresh"]
    OBVIOUS
  <2>4. \A d \in Categories : d # c => row.attempted[d] = reports[r].attempted[d]
    BY <2>1, <2>3 DEF Report
  <2>5. c \in reports[r].asked /\ Update(r, row)
    BY <1>11, <2>1, <2>2, <2>3 DEF DeliverPrepare, Todo
  <2> QED BY <1>0, <2>4, <2>5, UpdateKeepsRows
<1>12. CASE Carryover(w)
  <2>1. PICK r \in DOMAIN reports : r = work[w].report /\ reports[r] \in Report
    BY <1>12, AtReport DEF Carryover
  <2>2. PICK c : c = work[w].request.key.cat
    OBVIOUS
  <2>3. PICK row : row = [reports[r] EXCEPT !.onInvoice = @ \ {c}, !.carryover = @ \cup {c}, !.attempted[c] = "no"]
    OBVIOUS
  <2>4. \A d \in Categories : row.attempted[d] # "no" => row.attempted[d] = reports[r].attempted[d]
    BY <2>1, <2>3 DEF Report
  <2>5. Update(r, row)
    BY <1>12, <2>1, <2>2, <2>3 DEF Carryover
  <2> QED BY <1>0, <2>4, <2>5, UpdateKeepsRows
<1> QED BY <1>2, <1>7, <1>8, <1>9, <1>10, <1>11, <1>12 DEF Delivering

LEMMA StepKinds ==
  ASSUME Inv, Next
  PROVE  KeepsRows \/ AddsRow \/ Arrives
<1> USE DEF stripeVars
<1>1. CASE reports' = reports /\ items' = items
  BY <1>1 DEF KeepsRows
<1>2. CASE Counters \/ Failures
  BY <1>1, <1>2 DEF Counters, KeyExpires, Increment, Refund, Failures, LockExpires, Crash, Restart
<1>3. CASE \/ WatchEnds \/ SubscriptionUpdated \/ CheckoutCompleted \/ InvoiceDrafted \/ InvoiceFinalized
           \/ \E k \in saved : KeyForgotten(k)
  BY <1>1, <1>3 DEF WatchEnds, SubscriptionUpdated, CheckoutCompleted, InvoiceDrafted, InvoiceFinalized, KeyForgotten
<1>4. ASSUME NEW w \in Workers, StripeAnswers(w) PROVE Arrives
  <2>1. work[w].request \in Requests
    BY <1>4, ChargeTypes DEF StripeAnswers, OnRow
  <2> QED BY <1>4, <2>1 DEF StripeAnswers, Arrives, InFlight
<1>5. ASSUME NEW q \in net, StripeLate(q) PROVE Arrives
  BY <1>5, ChargeTypes DEF StripeLate, Arrives, InFlight
<1>6. ASSUME NEW r \in DOMAIN reports, NEW c \in Categories, AttemptAges(r, c) PROVE KeepsRows
  <2>1. PICK row : row = [reports[r] EXCEPT !.attempted[c] = "old"]
    OBVIOUS
  <2>2. items' = items /\ c \in reports[r].asked /\ Update(r, row) /\ reports[r] \in Report
    BY <1>6, <2>1, ChargeTypes DEF AttemptAges, Todo
  <2>3. \A d \in Categories : d # c => row.attempted[d] = reports[r].attempted[d]
    BY <2>1, <2>2 DEF Report
  <2> QED BY <2>2, <2>3, UpdateKeepsRows
<1>7. CASE Outside
  BY <1>3, <1>4, <1>5, <1>6, <1>7 DEF Outside
<1> QED BY <1>2, <1>7, StagingKinds, DeliveringKinds DEF Next

\* The rows of a period share the price base of the first, and only what a row asks for
\* is attempted.
Booked(rs) ==
  \A r \in DOMAIN rs : /\ rs[r].base = rs[1].base
                       /\ \A c \in Categories : rs[r].attempted[c] # "no" => c \in rs[r].asked

LEMMA BookedStep ==
  ASSUME BillingAssumption, Inv, Inv', Frozen, Booked(reports), KeepsRows \/ AddsRow \/ Arrives
  PROVE  Booked(reports')
<1>1. reports \in Seq(Report) /\ Monotone(reports) /\ sub.plan \in Plans /\ sub.stripeSub \in StripeSubs \cup {None}
  BY DEF Inv, RowsOK, ShellOK, Sound
<1>2. CASE Arrives
  BY <1>2 DEF Arrives
<1>3. CASE KeepsRows
  <2>1. \A r \in DOMAIN reports : 1 \in DOMAIN reports
    BY <1>1
  <2>2. \A r \in DOMAIN reports : reports'[r].base = reports[r].base /\ reports'[r].asked = reports[r].asked
    BY DEF Frozen
  <2> QED BY <1>3, <2>1, <2>2 DEF KeepsRows, Booked
<1>4. CASE AddsRow
  <2>1. PICK u \in UsageType, closing \in BOOLEAN, onInvoice \in BOOLEAN :
          reports' = Append(reports, NewReport(u, reports, closing, onInvoice))
    BY <1>4 DEF AddsRow
  <2>2. PICK new : new = NewReport(u, reports, closing, onInvoice)
    OBVIOUS
  <2>3. new \in Report
    BY <1>1, <2>2, NewReportProperty
  <2>4. /\ reports # <<>> => new.base = reports[1].base
        /\ \A c \in Categories : new.attempted[c] = "no"
    BY <2>2 DEF NewReport
  <2>5. /\ DOMAIN reports = 1..Len(reports) /\ Len(reports) \in Nat
        /\ DOMAIN reports' = 1..(Len(reports) + 1)
        /\ reports'[Len(reports) + 1] = new
        /\ \A r \in 1..Len(reports) : reports'[r] = reports[r]
        /\ reports = <<>> => Len(reports) = 0
    BY <1>1, <2>1, <2>2, <2>3
  <2>6. \A r \in 1..(Len(reports) + 1) : r \in 1..Len(reports) \/ r = Len(reports) + 1
    BY <2>5
  <2>7. CASE reports = <<>>
    BY <2>4, <2>5, <2>6, <2>7 DEF Booked
  <2>8. CASE reports # <<>>
    <3>1. 1 \in 1..Len(reports)
      BY <1>1, <2>5, <2>8
    <3> QED BY <2>4, <2>5, <2>6, <2>8, <3>1 DEF Booked
  <2> QED BY <2>7, <2>8
<1> QED BY <1>2, <1>3, <1>4

\* Stripe holds no item yet for what the report asks in the category.
Owes(rs, its, r, c) ==
  c \in rs[r].asked /\ \A i \in its : ~(i.key.report = r /\ i.key.cat = c)

LEMMA OwedMember ==
  ASSUME Inv, Inv'
  PROVE  /\ \A o : o \in owedBar <=> \E r \in DOMAIN reports : \E c \in Categories :
              Owes(reports, items, r, c) /\ o = Charge(r, c)
         /\ \A o : o \in owedBar' <=> \E r \in DOMAIN reports' : \E c \in Categories :
              Owes(reports', items', r, c) /\ o = [report |-> r, cat |-> c, units |-> Units(reports'[r], c)]
<1>0. /\ \A r \in DOMAIN reports : reports[r].asked \subseteq Categories
      /\ \A r \in DOMAIN reports' : reports'[r].asked \subseteq Categories
  <2>1. reports \in Seq(Report) /\ reports' \in Seq(Report)
    BY DEF Inv, RowsOK
  <2>2. \A rep \in Report : rep.asked \subseteq Categories
    BY DEF Report
  <2>3. /\ \A r \in DOMAIN reports : reports[r] \in Report
        /\ \A r \in DOMAIN reports' : reports'[r] \in Report
    BY <2>1
  <2> QED BY <2>2, <2>3
<1>1. \A o : o \in owedBar <=> \E r \in DOMAIN reports : \E c \in Categories :
       Owes(reports, items, r, c) /\ o = Charge(r, c)
  BY <1>0 DEF owedBar, Owes
<1>2. \A o : o \in owedBar' <=> \E r \in DOMAIN reports' : \E c \in Categories :
       Owes(reports', items', r, c) /\ o = [report |-> r, cat |-> c, units |-> Units(reports'[r], c)]
  BY <1>0 DEF owedBar, Owes, Charge, Units
<1> QED BY <1>1, <1>2

\* Nothing is reserved or invoiced: the ledger does not move.
LEMMA LedgerStutters ==
  ASSUME Inv, Inv', Frozen, Charged, items' = items, DOMAIN reports' = DOMAIN reports
  PROVE  UNCHANGED <<dueBar, owedBar, invoicedBar>>
<1>1. /\ reports \in Seq(Report) /\ reports' \in Seq(Report)
  BY DEF Inv, RowsOK
<1>2. /\ Len(reports') = Len(reports) /\ Len(reports) \in Nat /\ DOMAIN reports = 1..Len(reports)
      /\ (reports = <<>> <=> Len(reports) = 0) /\ (reports' = <<>> <=> Len(reports') = 0)
  BY <1>1
<1>3. \A r \in DOMAIN reports : /\ reports'[r].snapshot = reports[r].snapshot
                                /\ reports'[r].reserved = reports[r].reserved
                                /\ reports'[r].base = reports[r].base
                                /\ reports'[r].asked = reports[r].asked
  BY DEF Frozen
<1>4. \A r \in DOMAIN reports : \A c \in Categories : Units(reports'[r], c) = Units(reports[r], c)
  BY <1>3 DEF Units
<1>5. dueBar' = dueBar
  <2>1. CASE reports = <<>>
    BY <1>2, <2>1 DEF dueBar
  <2>2. CASE reports # <<>>
    <3>1. 1 \in DOMAIN reports /\ Len(reports) \in DOMAIN reports /\ reports' # <<>>
      BY <1>2, <2>2
    <3> QED BY <1>2, <1>3, <2>2, <3>1 DEF dueBar
  <2> QED BY <2>1, <2>2
<1>6. owedBar' = owedBar
  <2>1. \A r \in DOMAIN reports : \A c \in Categories : Owes(reports', items', r, c) <=> Owes(reports, items, r, c)
    BY <1>3 DEF Owes
  <2>2. \A r \in DOMAIN reports : \A c \in Categories :
          [report |-> r, cat |-> c, units |-> Units(reports'[r], c)] = Charge(r, c)
    BY <1>4 DEF Charge
  <2>3. \A o : o \in owedBar' <=> o \in owedBar
    BY <2>1, <2>2, OwedMember
  <2> QED BY <2>3
<1>7. invoicedBar' = invoicedBar
  <2>1. \A i \in items : i.key.report \in DOMAIN reports /\ i.key.cat \in Categories
    BY ChargeTypes, ChargedUnfolded DEF ItemsOK, Keys
  <2>2. \A i \in items : Units(reports'[i.key.report], i.key.cat) = Units(reports[i.key.report], i.key.cat)
    BY <1>4, <2>1
  <2> QED BY <2>2 DEF invoicedBar, Charge, Units
<1> QED BY <1>5, <1>6, <1>7

\* stage() reserves: a charge for every category with new overage, and for nothing else.
LEMMA LedgerReserves ==
  ASSUME BillingAssumption, Inv, Inv', Charged, Booked(reports), AddsRow
  PROVE  Ledger!Reserve
<1>1. PICK u \in UsageType, closing \in BOOLEAN, onInvoice \in BOOLEAN :
        u.reported = usage.reported /\ reports' = Append(reports, NewReport(u, reports, closing, onInvoice))
  BY DEF AddsRow
<1>2. items' = items
  BY DEF AddsRow
<1>3. PICK new : new = NewReport(u, reports, closing, onInvoice)
  OBVIOUS
<1>4. /\ reports \in Seq(Report) /\ Sound(usage, reports) /\ Sound(usage', reports')
      /\ sub.plan \in Plans /\ sub.stripeSub \in StripeSubs \cup {None}
  BY DEF Inv, RowsOK, ShellOK
<1>5. new \in Report /\ \A c \in Categories : new.reserved[c] <= new.snapshot[c]
  BY <1>3, <1>4, NewReportProperty DEF Sound
<1>6. PICK n \in Nat : n = Len(reports)
  BY <1>4
<1>7. /\ DOMAIN reports = 1..n /\ Len(reports') = n + 1 /\ DOMAIN reports' = 1..(n + 1)
      /\ reports'[n + 1] = new /\ \A r \in 1..n : reports'[r] = reports[r]
      /\ (reports = <<>> <=> n = 0) /\ reports' # <<>> /\ n + 1 \notin 1..n
  BY <1>1, <1>3, <1>4, <1>5, <1>6
<1>8. \A r \in 1..(n + 1) : r \in 1..n \/ r = n + 1
  OBVIOUS
<1>9. /\ new.asked = {c \in Categories : Overage(new.snapshot[c], new.base[c]) > Overage(new.reserved[c], new.base[c])}
      /\ n # 0 => new.base = reports[1].base
  BY <1>3, <1>7 DEF NewReport
<1>10. /\ \A c \in Categories : /\ new.snapshot[c] \in Nat /\ new.reserved[c] \in Nat /\ new.base[c] \in Nat
                                /\ \A r \in 1..n : /\ reports[r].snapshot[c] \in Nat
                                                   /\ reports[r].reserved[c] \in Nat /\ reports[r].base[c] \in Nat
  <2>1. \A rep \in Report : \A c \in Categories : rep.snapshot[c] \in Nat /\ rep.reserved[c] \in Nat /\ rep.base[c] \in Nat
    BY DEF Report
  <2>2. \A r \in 1..n : reports[r] \in Report
    BY <1>4, <1>7
  <2> QED BY <1>5, <2>1, <2>2
<1>11. ASSUME NEW c \in Categories
       PROVE  /\ dueBar[c] \in Int /\ dueBar'[c] - dueBar[c] = Units(new, c) /\ dueBar'[c] \in Int
              /\ Units(new, c) \in Int
  <2>1. dueBar'[c] = Overage(new.snapshot[c], new.base[c]) - Overage(reports'[1].reserved[c], reports'[1].base[c])
    BY <1>7 DEF dueBar, Overage, Larger
  <2>2. CASE n = 0
    <3>1. reports'[1] = new /\ dueBar[c] = 0
      BY <1>7, <2>2 DEF dueBar
    <3>2. dueBar'[c] = Units(new, c)
      BY <2>1, <3>1 DEF Units
    <3>3. Units(new, c) \in Int
      BY <1>10 DEF Units, Overage, Larger
    <3> QED BY <3>1, <3>2, <3>3
  <2>3. CASE n # 0
    <3>1. 1 \in 1..n /\ n \in 1..n /\ reports'[1] = reports[1] /\ reports'[n] = reports[n]
      BY <1>7, <2>3
    <3>2. dueBar[c] = Overage(reports[n].snapshot[c], reports[n].base[c]) - Overage(reports[1].reserved[c], reports[1].base[c])
      BY <1>6, <1>7, <2>3 DEF dueBar
    <3>3. reports[n].base = reports[1].base /\ new.base = reports[1].base
      BY <1>7, <1>9, <2>3, <3>1 DEF Booked
    <3>4. n \in DOMAIN reports' /\ n + 1 \in DOMAIN reports'
      BY <1>7, <3>1
    <3>5. new.reserved[c] = reports[n].snapshot[c]
      <4>1. Tile(reports')
        BY <1>4 DEF Sound
      <4>2. reports'[n + 1].reserved[c] = reports'[n].snapshot[c]
        BY <3>4, <4>1 DEF Tile
      <4> QED BY <1>7, <3>1, <4>2
    <3>6. PICK x \in Nat, y \in Nat, a \in Nat, f \in Nat :
            x = new.snapshot[c] /\ y = new.reserved[c] /\ a = new.base[c] /\ f = reports[1].reserved[c]
      BY <1>10, <3>1
    <3>7. /\ dueBar'[c] = Overage(x, a) - Overage(f, a) /\ dueBar[c] = Overage(y, a) - Overage(f, a)
          /\ Units(new, c) = Overage(x, a) - Overage(y, a)
      BY <2>1, <3>1, <3>2, <3>3, <3>5, <3>6 DEF Units
    <3>8. Overage(x, a) \in Int /\ Overage(y, a) \in Int /\ Overage(f, a) \in Int
      BY DEF Overage, Larger
    <3> QED BY <3>7, <3>8
  <2> QED BY <2>2, <2>3
<1>12. \A c \in Categories : Units(new, c) # 0 <=> c \in new.asked
  <2> SUFFICES ASSUME NEW c \in Categories
               PROVE  Units(new, c) # 0 <=> c \in new.asked
    OBVIOUS
  <2>1. PICK x \in Nat, y \in Nat, a \in Nat : x = new.snapshot[c] /\ y = new.reserved[c] /\ a = new.base[c]
    BY <1>10
  <2>2. y <= x
    BY <1>5, <2>1
  <2>3. Units(new, c) = Overage(x, a) - Overage(y, a) /\ (c \in new.asked <=> Overage(x, a) > Overage(y, a))
    BY <1>9, <2>1 DEF Units
  <2>4. Overage(x, a) \in Int /\ Overage(y, a) \in Int /\ Overage(x, a) >= Overage(y, a)
    BY <2>2 DEF Overage, Larger
  <2> QED BY <2>3, <2>4
<1>13. \A c \in new.asked : c \in Categories /\ Units(new, c) > 0
  <2>1. \A c \in Categories : Overage(new.snapshot[c], new.base[c]) \in Int /\ Overage(new.reserved[c], new.base[c]) \in Int
    BY <1>10 DEF Overage, Larger
  <2> QED BY <1>9, <2>1 DEF Units
<1>14. \A i \in items : i.key.report \in 1..n /\ i.key.cat \in Categories
  BY <1>7, ChargeTypes, ChargedUnfolded DEF ItemsOK, Keys
<1>15. \A r \in 1..n : \A c \in Categories :
         /\ Owes(reports', items', r, c) <=> Owes(reports, items, r, c)
         /\ [report |-> r, cat |-> c, units |-> Units(reports'[r], c)] = Charge(r, c)
  BY <1>2, <1>7 DEF Owes, Charge
<1>16. \A c \in Categories : Owes(reports', items', n + 1, c) <=> c \in new.asked
  BY <1>2, <1>7, <1>14 DEF Owes
<1>17. owedBar \subseteq owedBar'
  <2> SUFFICES ASSUME NEW o \in owedBar
               PROVE  o \in owedBar'
    OBVIOUS
  <2>1. PICK r \in 1..n, c \in Categories : Owes(reports, items, r, c) /\ o = Charge(r, c)
    BY <1>7, OwedMember
  <2>2. r \in DOMAIN reports'
    BY <1>7
  <2> QED BY <1>15, <2>1, <2>2, OwedMember
<1>18. \A o \in owedBar' \ owedBar : \E c \in new.asked : o = [report |-> n + 1, cat |-> c, units |-> Units(new, c)]
  <2> SUFFICES ASSUME NEW o \in owedBar', o \notin owedBar
               PROVE  \E c \in new.asked : o = [report |-> n + 1, cat |-> c, units |-> Units(new, c)]
    OBVIOUS
  <2>1. PICK r \in 1..(n + 1), c \in Categories :
          Owes(reports', items', r, c) /\ o = [report |-> r, cat |-> c, units |-> Units(reports'[r], c)]
    BY <1>7, OwedMember
  <2>2. r \notin 1..n
    <3>1. ASSUME r \in 1..n PROVE FALSE
      <4>1. Owes(reports, items, r, c) /\ o = Charge(r, c) /\ r \in DOMAIN reports
        BY <1>7, <1>15, <2>1, <3>1
      <4> QED BY <4>1, OwedMember
    <3> QED BY <3>1
  <2>3. r = n + 1
    BY <1>8, <2>2
  <2> QED BY <1>7, <1>16, <2>1, <2>3
<1>19. \A c \in new.asked : [report |-> n + 1, cat |-> c, units |-> Units(new, c)] \in owedBar' \ owedBar
  <2> SUFFICES ASSUME NEW c \in new.asked
               PROVE  [report |-> n + 1, cat |-> c, units |-> Units(new, c)] \in owedBar' \ owedBar
    OBVIOUS
  <2>1. PICK o : o = [report |-> n + 1, cat |-> c, units |-> Units(new, c)]
    OBVIOUS
  <2>2. n + 1 \in DOMAIN reports' /\ c \in Categories /\ Owes(reports', items', n + 1, c)
    BY <1>7, <1>13, <1>16
  <2>3. o \in owedBar'
    BY <1>7, <2>1, <2>2, OwedMember
  <2>4. \A r \in 1..n : \A d \in Categories : o # Charge(r, d)
    BY <1>7, <2>1 DEF Charge
  <2>5. o \notin owedBar
    BY <1>7, <2>4, OwedMember
  <2> QED BY <2>1, <2>3, <2>5
<1>20. invoicedBar' = invoicedBar
  <2>1. \A i \in items : Units(reports'[i.key.report], i.key.cat) = Units(reports[i.key.report], i.key.cat)
    BY <1>7, <1>14
  <2> QED BY <1>2, <2>1 DEF invoicedBar, Charge, Units
<1>21. \A o \in owedBar' \ owedBar : o.units > 0 /\ o.units = dueBar'[o.cat] - dueBar[o.cat]
  BY <1>11, <1>13, <1>18
<1>22. \A o, p \in owedBar' \ owedBar : o.cat = p.cat => o = p
  BY <1>18
<1>23. \A o \in owedBar' \ owedBar : \A l \in invoicedBar : l.charge # o
  <2>1. \A l \in invoicedBar : l.charge.report \in 1..n
    BY <1>14 DEF invoicedBar, Charge
  <2>2. \A o \in owedBar' \ owedBar : o.report = n + 1
    BY <1>18
  <2> QED BY <1>7, <2>1, <2>2
<1>24. \A c \in Categories : dueBar'[c] # dueBar[c] => \E o \in owedBar' \ owedBar : o.cat = c
  <2> SUFFICES ASSUME NEW c \in Categories, dueBar'[c] # dueBar[c]
               PROVE  \E o \in owedBar' \ owedBar : o.cat = c
    OBVIOUS
  <2>1. Units(new, c) # 0
    <3>1. dueBar[c] \in Int /\ dueBar'[c] - dueBar[c] = Units(new, c) /\ dueBar'[c] \in Int
      BY <1>11
    <3>2. PICK x \in Int, y \in Int : x = dueBar'[c] /\ y = dueBar[c]
      BY <3>1
    <3> QED BY <3>1, <3>2
  <2>2. c \in new.asked
    BY <1>12, <2>1
  <2>3. [report |-> n + 1, cat |-> c, units |-> Units(new, c)].cat = c
    OBVIOUS
  <2> QED BY <1>19, <2>2, <2>3
<1> QED BY <1>17, <1>20, <1>21, <1>22, <1>23, <1>24 DEF Ledger!Reserve

\* A request that arrives is invoiced: its charge was owed and gets one line.
LEMMA LedgerInvoices ==
  ASSUME BillingAssumption, Inv, Inv', Charged, Charged', Booked(reports), Arrives, items' # items
  PROVE  \E o \in owedBar : Ledger!Invoice(o)
<1>0. /\ OnRowOK(work, reports) /\ NetOK(net, reports, invoice) /\ ItemsOK(items, saved, reports)
      /\ ForgottenOK(items, saved, reports, net, work)
  BY ChargedUnfolded
<1>1. PICK q \in Requests : Arrive(q) /\ InFlight(q)
  BY DEF Arrives
<1>2. reports' = reports
  BY DEF Arrives
<1>3. q.key \notin saved /\ Accepted(q)
  BY <1>1 DEF Arrive
<1>4. PICK new : new = [key |-> q.key, nth |-> Cardinality({i \in items : i.key = q.key}) + 1]
  OBVIOUS
<1>5. items' = items \cup {new} /\ new.key = q.key
  BY <1>1, <1>3, <1>4 DEF Arrive
<1>6. new \notin items /\ new \in items'
  BY <1>5
<1>7. PICK r \in DOMAIN reports : r = q.key.report /\ (Current(q, reports[r]) \/ Obsolete(q, reports[r], invoice))
  <2>1. CASE q \in net
    BY <1>0, <2>1 DEF NetOK
  <2>2. CASE \E w \in Workers : work[w].pc = "call" /\ work[w].request = q
    BY <1>0, <2>2, ChargeTypes DEF OnRowOK, OnRow
  <2> QED BY <1>1, <2>1, <2>2 DEF InFlight
<1>8. PICK c \in Categories : c = q.key.cat
  BY DEF Requests, Keys
<1>9. Current(q, reports[r])
  BY <1>3, <1>7 DEF Obsolete, Accepted
<1>10. c \in reports[r].asked
  BY <1>8, <1>9 DEF Current, Booked
\* The item is the only one of its charge.
<1>11. \A i \in items : ~(i.key.report = r /\ i.key.cat = c)
  <2> SUFFICES ASSUME NEW i \in items, i.key.report = r, i.key.cat = c
               PROVE  FALSE
    OBVIOUS
  <2>1. i.key \in Keys /\ q.key \in Keys
    BY ChargeTypes DEF Requests
  <2>2. i.key.carry <=> q.key.carry
    BY <1>0, <1>8, <1>9 DEF ItemsOK, Current
  <2>3. i.key.carry = q.key.carry
    BY <2>1, <2>2 DEF Keys
  <2>4. i.key = q.key
    BY <1>7, <1>8, <2>1, <2>3 DEF Keys
  <2> QED BY <1>0, <1>1, <1>3, <2>4 DEF ForgottenOK, InFlight
<1>12. PICK o : o = Charge(r, c)
  OBVIOUS
<1>13. o \in owedBar
  BY <1>10, <1>11, <1>12, OwedMember DEF Owes
<1>14. \A p \in DOMAIN reports : \A d \in Categories :
         /\ Owes(reports', items', p, d) <=> Owes(reports, items, p, d) /\ ~(p = r /\ d = c)
         /\ [report |-> p, cat |-> d, units |-> Units(reports'[p], d)] = Charge(p, d)
         /\ Charge(p, d) = o <=> p = r /\ d = c
  <2> SUFFICES ASSUME NEW p \in DOMAIN reports, NEW d \in Categories
               PROVE  /\ Owes(reports', items', p, d) <=> Owes(reports, items, p, d) /\ ~(p = r /\ d = c)
                      /\ [report |-> p, cat |-> d, units |-> Units(reports'[p], d)] = Charge(p, d)
                      /\ Charge(p, d) = o <=> p = r /\ d = c
    OBVIOUS
  <2>1. Owes(reports', items', p, d) <=> Owes(reports, items, p, d) /\ ~(p = r /\ d = c)
    BY <1>2, <1>5, <1>7, <1>8 DEF Owes
  <2>2. [report |-> p, cat |-> d, units |-> Units(reports'[p], d)] = Charge(p, d)
    BY <1>2 DEF Charge
  <2>3. Charge(p, d) = o <=> p = r /\ d = c
    BY <1>12 DEF Charge
  <2> QED BY <2>1, <2>2, <2>3
<1>15. owedBar' = owedBar \ {o}
  <2>1. \A x : x \in owedBar' <=> x \in owedBar /\ x # o
    <3> SUFFICES ASSUME NEW x
                 PROVE  x \in owedBar' <=> x \in owedBar /\ x # o
      OBVIOUS
    <3>1. x \in owedBar' <=> \E p \in DOMAIN reports : \E d \in Categories :
            Owes(reports, items, p, d) /\ ~(p = r /\ d = c) /\ x = Charge(p, d)
      BY <1>2, <1>14, OwedMember
    <3>2. x \in owedBar <=> \E p \in DOMAIN reports : \E d \in Categories :
            Owes(reports, items, p, d) /\ x = Charge(p, d)
      BY OwedMember
    <3> QED BY <1>14, <3>1, <3>2
  <2> QED BY <2>1
<1>16. dueBar' = dueBar
  BY <1>2 DEF dueBar
<1>17. PICK l : l = [charge |-> o, id |-> new]
  OBVIOUS
<1>18. invoicedBar' = {[charge |-> Charge(i.key.report, i.key.cat), id |-> i] : i \in items'}
  BY <1>2 DEF invoicedBar, Charge, Units
<1>19. o = Charge(new.key.report, new.key.cat)
  BY <1>5, <1>7, <1>8, <1>12
<1>20. invoicedBar' = invoicedBar \cup {l}
  <2>1. invoicedBar = {[charge |-> Charge(i.key.report, i.key.cat), id |-> i] : i \in items}
    BY DEF invoicedBar
  <2> QED BY <1>5, <1>17, <1>18, <1>19, <2>1
<1>21. l \notin invoicedBar /\ l.charge = o
  BY <1>6, <1>17 DEF invoicedBar
<1>22. Ledger!Invoice(o)
  BY <1>15, <1>16, <1>20, <1>21 DEF Ledger!Invoice
<1> QED BY <1>13, <1>22

LEMMA LedgerInit ==
  ASSUME Init
  PROVE  Ledger!Init
<1>1. reports = <<>> /\ items = {} /\ DOMAIN reports = {}
  BY DEF Init
<1>2. dueBar = [c \in Categories |-> 0]
  BY <1>1 DEF dueBar
<1>3. owedBar = {}
  BY <1>1 DEF owedBar
<1>4. invoicedBar = {}
  BY <1>1 DEF invoicedBar
<1> QED BY <1>2, <1>3, <1>4 DEF Ledger!Init, Ledger!Zero

LEMMA LedgerNext ==
  ASSUME BillingAssumption, Inv, Inv', Frozen, Charged, Charged', Booked(reports), Next
  PROVE  [Ledger!Next]_(Ledger!vars)
<1>1. CASE KeepsRows
  <2>1. UNCHANGED <<dueBar, owedBar, invoicedBar>>
    BY <1>1, LedgerStutters DEF KeepsRows
  <2> QED BY <2>1 DEF Ledger!vars
<1>2. CASE AddsRow
  <2>1. Ledger!Reserve
    BY <1>2, LedgerReserves
  <2> QED BY <2>1 DEF Ledger!Next
<1>3. CASE Arrives
  <2>1. CASE items' = items
    <3>1. UNCHANGED <<dueBar, owedBar, invoicedBar>>
      BY <1>3, <2>1, LedgerStutters DEF Arrives
    <3> QED BY <3>1 DEF Ledger!vars
  <2>2. CASE items' # items
    <3>1. \E o \in owedBar : Ledger!Invoice(o)
      BY <1>3, <2>2, LedgerInvoices
    <3> QED BY <3>1 DEF Ledger!Next
  <2> QED BY <2>1, <2>2
<1> QED BY <1>1, <1>2, <1>3, StepKinds

LEMMA LedgerStutter ==
  ASSUME UNCHANGED vars
  PROVE  UNCHANGED Ledger!vars
BY DEF vars, stripeVars, Ledger!vars, dueBar, owedBar, invoicedBar, Charge, Units

LEMMA BookedNext ==
  ASSUME BillingAssumption, Inv, Booked(reports), [Next]_vars
  PROVE  Booked(reports)'
<1>1. CASE Next
  <2>1. Inv' /\ Frozen /\ (KeepsRows \/ AddsRow \/ Arrives)
    BY <1>1, NextInv, StepKinds
  <2>2. Booked(reports')
    BY <2>1, BookedStep
  <2> QED BY <2>2 DEF Booked
<1>2. CASE UNCHANGED vars
  BY <1>2 DEF vars, Booked
<1> QED BY <1>1, <1>2

\* Overage billing implements the ledger, for any number of workers, categories and
\* reports: every step of stage() reserves exactly the new overage, every invoice item
\* Stripe creates settles a charge that was owed, and nothing else moves the ledger,
\* whatever is lost, retried, carried over or forgotten on the way.
THEOREM LedgerIsImplemented == Spec => ImplementsLedger
<1>1. Init => Ledger!Init
  BY LedgerInit
<1>2. Init => Booked(reports)
  BY DEF Init, Booked
<1>3. Inv /\ Booked(reports) /\ [Next]_vars => Booked(reports)'
  BY BookedNext, BillingAssumption
<1>4. Inv /\ Inv' /\ Charged /\ Charged' /\ Booked(reports) /\ [Next]_vars => [Ledger!Next]_(Ledger!vars)
  <2>1. ASSUME Inv, Inv', Charged, Charged', Booked(reports), Next
        PROVE  [Ledger!Next]_(Ledger!vars)
    BY <2>1, NextInv, LedgerNext, BillingAssumption
  <2>2. ASSUME UNCHANGED vars
        PROVE  [Ledger!Next]_(Ledger!vars)
    BY <2>2, LedgerStutter
  <2> QED BY <2>1, <2>2
<1> QED BY <1>1, <1>2, <1>3, <1>4, Invariance, ChargesAgree, PTL DEF Spec, ImplementsLedger, Ledger!Spec

-----------------------------------------------------------------------------
(* Closing the period.                                                     *)

\* No subscription is being deleted.
Staying(l) == l.pc \notin {"deleted", "downgrade"} /\ ~l.deleting

\* Until the usage row is billed there is no closing report.
OpenOK(u, rs, wk) ==
  /\ \A w \in Workers : Staying(wk[w])
  /\ (\E r \in DOMAIN rs : rs[r].closing) => u.billed

\* A step that does not close: the worker w turns to l, if anyone does.
LEMMA StaysOpen ==
  ASSUME Inv, OpenOK(usage, reports, work), usage'.billed = usage.billed,
         \A r \in DOMAIN reports' : reports'[r].closing => r \in DOMAIN reports /\ reports[r].closing,
         \/ work' = work
         \/ \E w \in Workers : \E l : Become(w, l) /\ Staying(l)
  PROVE  OpenOK(usage', reports', work')
<1>1. work \in [Workers -> Local]
  BY ChargeTypes
<1>2. \A w \in Workers : Staying(work'[w])
  <2>1. CASE work' = work
    BY <2>1 DEF OpenOK
  <2>2. ASSUME NEW v \in Workers, NEW l, Become(v, l), Staying(l)
        PROVE  \A w \in Workers : Staying(work'[w])
    <3>1. work'[v] = l /\ \A w \in Workers : w # v => work'[w] = work[w]
      BY <1>1, <2>2 DEF Become
    <3> QED BY <2>2, <3>1 DEF OpenOK
  <2> QED BY <2>1, <2>2
<1> QED BY <1>2 DEF OpenOK

\* stage() without closing adds no closing report.
LEMMA StagedOpen ==
  ASSUME BillingAssumption, Inv, NEW u \in UsageType, NEW onInvoice \in BOOLEAN, NEW allowClosed \in BOOLEAN,
         \/ reports' = reports
         \/ reports' = Stage(u, reports, FALSE, onInvoice, allowClosed)
  PROVE  \A r \in DOMAIN reports' : reports'[r].closing => r \in DOMAIN reports /\ reports[r].closing
<1>1. reports \in Seq(Report) /\ Monotone(reports) /\ sub.plan \in Plans /\ sub.stripeSub \in StripeSubs \cup {None}
  BY DEF Inv, RowsOK, ShellOK, Sound
<1>2. PICK new : new = NewReport(u, reports, FALSE, onInvoice)
  OBVIOUS
<1>3. new \in Report /\ new.closing = FALSE
  BY <1>1, <1>2, NewReportProperty
<1>4. reports' = reports \/ reports' = Append(reports, new)
  BY <1>2 DEF Stage
<1>5. CASE reports' = Append(reports, new)
  <2>1. /\ DOMAIN reports = 1..Len(reports) /\ Len(reports) \in Nat
        /\ DOMAIN reports' = 1..(Len(reports) + 1)
        /\ reports'[Len(reports) + 1] = new
        /\ \A r \in 1..Len(reports) : reports'[r] = reports[r]
    BY <1>1, <1>3, <1>5
  <2>2. \A r \in 1..(Len(reports) + 1) : r \in 1..Len(reports) \/ r = Len(reports) + 1
    BY <2>1
  <2> QED BY <1>3, <2>1, <2>2
<1> QED BY <1>4, <1>5

LEMMA StayingIdle ==
  ASSUME NEW n, NEW s, NEW b, NEW to, to \notin {"deleted", "downgrade"}
  PROVE  /\ Staying(Idle) /\ Staying([Idle EXCEPT !.pc = to])
         /\ Staying([Idle EXCEPT !.pc = to, !.report = n])
         /\ Staying([Idle EXCEPT !.pc = to, !.seen = s, !.billed = b])
         /\ Staying([Idle EXCEPT !.pc = to, !.seen = s, !.report = n])
BY DEF Staying, Idle

\* The handlers, except for the one that closes the period when the invoice is paid.
LEMMA OpenStaging ==
  ASSUME BillingAssumption, "deleted" \notin Enabled, Inv, OpenOK(usage, reports, work),
         NEW w \in Workers, Staging(w), ~InvoicePaidClose(w)
  PROVE  OpenOK(usage', reports', work') /\ usage'.billed = usage.billed
<1>1. PICK s \in UsageType : s = Synced(w) /\ s.billed = usage.billed
  <2>1. Synced(w) \in UsageType /\ usage \in UsageType
    BY SyncedOK DEF Inv, RowsOK
  <2>2. Synced(w).billed = usage.billed
    BY <2>1 DEF Synced, UsageType
  <2> QED BY <2>1, <2>2
<1>2. Staying(work[w]) /\ usage \in UsageType
  BY DEF OpenOK, Inv, RowsOK
<1>3. Finish(w) => \E v \in Workers : \E l : Become(v, l) /\ Staying(l)
  BY DEF Finish, Staying, Idle
<1>4. ThenDeliver(w) => \E v \in Workers : \E l : Become(v, l) /\ Staying(l)
  <2>1. PICK l : l = [Idle EXCEPT !.pc = "deliver", !.report = Len(reports')]
    OBVIOUS
  <2>2. Staying(l)
    BY <2>1 DEF Staying, Idle
  <2>3. ThenDeliver(w) => Become(w, l) \/ Finish(w)
    BY <2>1 DEF ThenDeliver
  <2> QED BY <1>3, <2>2, <2>3
<1>5. CASE SyncBegin(w) \/ BillBegin(w) \/ InvoiceCreatedBegin(w) \/ InvoicePaidBegin(w)
  <2>1. /\ reports' = reports /\ usage' = usage
        /\ \E to \in {"sync", "bill", "created", "paid"} : Read(w, to)
    BY <1>5 DEF SyncBegin, BillBegin, InvoiceCreatedBegin, InvoicePaidBegin
  <2>2. PICK to \in {"sync", "bill", "created", "paid"} : Read(w, to)
    BY <2>1
  <2>3. PICK l : l = [Idle EXCEPT !.pc = to, !.seen = live, !.billed = usage.billed]
    OBVIOUS
  <2>4. Staying(l) /\ Become(w, l)
    BY <2>2, <2>3, StayingIdle DEF Read
  <2> QED BY <2>1, <2>4, StaysOpen
<1>6. CASE SyncWrite(w)
  <2>1. reports' = reports /\ usage' = s /\ Finish(w)
    BY <1>1, <1>6 DEF SyncWrite
  <2> QED BY <1>1, <1>3, <2>1, StaysOpen
<1>7. CASE BillStage(w)
  <2>1. usage' = s /\ ThenDeliver(w) /\ (reports' = reports \/ reports' = Stage(s, reports, FALSE, FALSE, FALSE))
    BY <1>1, <1>7 DEF BillStage
  <2> QED BY <1>1, <1>4, <2>1, StagedOpen, StaysOpen
<1>8. CASE InvoiceCreatedStage(w)
  <2>1. PICK u \in UsageType : u = usage' /\ u.billed = usage.billed
    BY <1>1, <1>2, <1>8 DEF InvoiceCreatedStage
  <2>2. ThenDeliver(w) /\ reports' = Stage(u, reports, FALSE, TRUE, FALSE)
    BY <1>8, <2>1 DEF InvoiceCreatedStage
  <2> QED BY <1>4, <2>1, <2>2, StagedOpen, StaysOpen
<1>9. CASE LateStage(w)
  <2>1. usage' = s /\ Finish(w) /\ reports' = Stage(s, reports, FALSE, FALSE, TRUE)
    BY <1>1, <1>9 DEF LateStage
  <2> QED BY <1>1, <1>3, <2>1, StagedOpen, StaysOpen
<1>10. ASSUME NEW r \in DOMAIN reports, LateBegin(w, r)
       PROVE  OpenOK(usage', reports', work') /\ usage'.billed = usage.billed
  <2>1. PICK l : l = [Idle EXCEPT !.pc = "late", !.seen = live, !.report = r]
    OBVIOUS
  <2>2. reports' = reports /\ usage' = usage /\ Become(w, l)
    BY <1>10, <2>1 DEF LateBegin
  <2>3. Staying(l)
    BY <2>1 DEF Staying, Idle
  <2> QED BY <2>2, <2>3, StaysOpen
<1>11. ~DeletedBegin(w) /\ ~DeletedStage(w) /\ ~DeletedSkip(w) /\ ~Downgrade(w)
  BY <1>2 DEF Staying, DeletedBegin, DeletedStage, DeletedSkip, Downgrade
<1> QED BY <1>5, <1>6, <1>7, <1>8, <1>9, <1>10, <1>11 DEF Staging

\* Deliveries record what happened to a report, and close nothing.
LEMMA OpenDelivering ==
  ASSUME Inv, Inv', OpenOK(usage, reports, work), NEW w \in Workers, Delivering(w)
  PROVE  OpenOK(usage', reports', work') /\ usage'.billed = usage.billed
<1>1. usage'.billed = usage.billed
  <2>1. usage \in UsageType
    BY DEF Inv, RowsOK
  <2>2. CASE DeliverFinish(w)
    BY <2>1, <2>2 DEF DeliverFinish, UsageType
  <2>3. CASE ~DeliverFinish(w)
    BY <2>3 DEF Delivering, DeliverBegin, DeliverExit, DeliverUncollectable, DeliverPrepare, DeliverSend,
                DeliverRecover, RecordItem, Carryover, DeliverFails
  <2> QED BY <2>2, <2>3
<1>2. work \in [Workers -> Local] /\ Staying(work[w]) /\ work[w] \in Local
  BY ChargeTypes DEF OpenOK
<1>3. ASSUME NEW r \in DOMAIN reports, NEW row, Update(r, row), row.closing = reports[r].closing
      PROVE  \A q \in DOMAIN reports' : reports'[q].closing => q \in DOMAIN reports /\ reports[q].closing
  <2>1. DOMAIN reports' = DOMAIN reports /\ \A p \in DOMAIN reports : reports'[p] = IF p = r THEN row ELSE reports[p]
    BY <1>3, ChargeTypes DEF Update
  <2> QED BY <1>3, <2>1
<1>4. EndDeliver(w) \/ Finish(w) => \E v \in Workers : \E l : Become(v, l) /\ Staying(l)
  BY <1>2, StayingIdle DEF EndDeliver, Finish, Staying
<1>5. ASSUME NEW r \in DOMAIN reports, DeliverBegin(w, r)
      PROVE  OpenOK(usage', reports', work')
  <2>1. PICK l : l = [Idle EXCEPT !.pc = "deliver", !.report = r]
    OBVIOUS
  <2>2. reports' = reports /\ Become(w, l)
    BY <1>5, <2>1 DEF DeliverBegin
  <2>3. Staying(l)
    BY <2>1 DEF Staying, Idle
  <2> QED BY <1>1, <2>2, <2>3, StaysOpen
<1>6. CASE DeliverExit(w) \/ DeliverFails(w)
  <2>1. reports' = reports /\ EndDeliver(w)
    BY <1>6 DEF DeliverExit, DeliverFails
  <2> QED BY <1>1, <1>4, <2>1, StaysOpen
<1>7. ASSUME NEW c \in Categories, DeliverSend(w, c)
      PROVE  OpenOK(usage', reports', work')
  <2>1. PICK q : q = Request(work[w].report, c, reports[work[w].report])
    OBVIOUS
  <2>2. PICK l : l = [work[w] EXCEPT !.pc = "call", !.request = q]
    OBVIOUS
  <2>3. Staying(l) /\ Become(w, l) /\ reports' = reports
    BY <1>2, <1>7, <2>1, <2>2 DEF DeliverSend, Staying, Local
  <2> QED BY <1>1, <2>3, StaysOpen
<1>8. CASE \/ DeliverFinish(w) \/ RecordItem(w) \/ Carryover(w)
           \/ \E c \in Categories : DeliverUncollectable(w, c) \/ DeliverPrepare(w, c) \/ DeliverRecover(w, c)
  <2>1. PICK r \in DOMAIN reports : r = work[w].report /\ reports[r] \in Report
    BY <1>8, AtReport DEF DeliverFinish, RecordItem, Carryover, DeliverUncollectable, DeliverPrepare, DeliverRecover, Holds
  <2>2. \E row : Update(r, row) /\ row.closing = reports[r].closing
    <3>1. CASE DeliverFinish(w)
      BY <2>1, <3>1 DEF DeliverFinish, Report
    <3>2. CASE RecordItem(w)
      BY <2>1, <3>2 DEF RecordItem, Report
    <3>3. CASE Carryover(w)
      <4>1. PICK c : c = work[w].request.key.cat
        OBVIOUS
      <4>2. PICK row : row = [reports[r] EXCEPT !.onInvoice = @ \ {c}, !.carryover = @ \cup {c}, !.attempted[c] = "no"]
        OBVIOUS
      <4>3. Update(r, row)
        BY <2>1, <3>3, <4>1, <4>2 DEF Carryover
      <4>4. row.closing = reports[r].closing
        BY <2>1, <4>2 DEF Report
      <4> QED BY <4>3, <4>4
    <3>4. ASSUME NEW c \in Categories, DeliverUncollectable(w, c)
          PROVE  \E row : Update(r, row) /\ row.closing = reports[r].closing
      BY <2>1, <3>4 DEF DeliverUncollectable, Review, Report
    <3>5. ASSUME NEW c \in Categories, DeliverPrepare(w, c)
          PROVE  \E row : Update(r, row) /\ row.closing = reports[r].closing
      <4>1. PICK on : on = IF invoice = "draft" THEN reports[r].onInvoice ELSE reports[r].onInvoice \ {c}
        OBVIOUS
      <4>2. PICK row : row = [reports[r] EXCEPT !.onInvoice = on, !.attempted[c] = "fresh"]
        OBVIOUS
      <4>3. Update(r, row)
        BY <2>1, <3>5, <4>1, <4>2 DEF DeliverPrepare
      <4>4. row.closing = reports[r].closing
        BY <2>1, <4>2 DEF Report
      <4> QED BY <4>3, <4>4
    <3>6. ASSUME NEW c \in Categories, DeliverRecover(w, c)
          PROVE  \E row : Update(r, row) /\ row.closing = reports[r].closing
      BY <2>1, <3>6 DEF DeliverRecover, Review, Report
    <3> QED BY <1>8, <3>1, <3>2, <3>3, <3>4, <3>5, <3>6
  <2>3. \/ work' = work
        \/ \E v \in Workers : \E l : Become(v, l) /\ Staying(l)
    <3>1. PICK l : l = [work[w] EXCEPT !.pc = "deliver", !.request = None, !.item = FALSE]
      OBVIOUS
    <3>2. PICK m : m = [work[w] EXCEPT !.pc = "deliver", !.request = None]
      OBVIOUS
    <3>3. Staying(l) /\ Staying(m)
      BY <1>2, <3>1, <3>2 DEF Staying, Local
    <3>4. work' = work \/ EndDeliver(w) \/ Become(w, l) \/ Become(w, m)
      BY <1>8, <3>1, <3>2 DEF DeliverFinish, RecordItem, Carryover, DeliverUncollectable, DeliverPrepare, DeliverRecover, Review
    <3> QED BY <1>4, <3>3, <3>4
  <2> QED BY <1>1, <1>3, <2>2, <2>3, StaysOpen
<1> QED BY <1>1, <1>5, <1>6, <1>7, <1>8 DEF Delivering

\* What CloseReservesAll says of one step.
ClosesAll ==
  ~usage.billed /\ usage'.billed =>
    \A c \in Categories :
      \/ ~PayAsYouGo[sub.plan]
      \/ usage'.count[c] <= Base[sub.plan][c]
      \/ usage'.count[c] <= usage'.reported[c]
      \/ \E r \in DOMAIN reports' : usage'.count[c] <= reports'[r].snapshot[c]

\* invoice.paid: the closing report is staged from the row it synced, in one transaction.
LEMMA CloseStep ==
  ASSUME BillingAssumption, Inv, OpenOK(usage, reports, work), NEW w \in Workers, InvoicePaidClose(w)
  PROVE  OpenOK(usage', reports', work') /\ ClosesAll
<1>1. PICK s \in UsageType : s = Synced(w) /\ s.billed = usage.billed
  <2>1. Synced(w) \in UsageType /\ usage \in UsageType
    BY SyncedOK DEF Inv, RowsOK
  <2>2. Synced(w).billed = usage.billed
    BY <2>1 DEF Synced, UsageType
  <2> QED BY <2>1, <2>2
<1>2. Become(w, Idle) /\ Staying(Idle)
  BY DEF InvoicePaidClose, Finish, Staying, Idle
<1>3. \A v \in Workers : Staying(work'[v])
  <2>1. work'[w] = Idle /\ \A v \in Workers : v # w => work'[v] = work[v]
    BY <1>2, ChargeTypes DEF Become
  <2> QED BY <1>2, <2>1 DEF OpenOK
<1>4. CASE UNCHANGED <<usage, reports>>
  BY <1>3, <1>4 DEF OpenOK, ClosesAll
<1>5. CASE /\ usage' = [s EXCEPT !.billed = TRUE]
           /\ reports' = Stage(s, reports, TRUE, FALSE, FALSE)
  <2>1. usage'.billed /\ usage'.count = s.count
    BY <1>1, <1>5 DEF UsageType
  <2>2. OpenOK(usage', reports', work')
    BY <1>3, <2>1 DEF OpenOK
  <2>3. ASSUME ~usage.billed, PayAsYouGo[sub.plan], NEW c \in Categories
        PROVE  \E r \in DOMAIN reports' : usage'.count[c] <= reports'[r].snapshot[c]
    <3>1. /\ reports \in Seq(Report) /\ Monotone(reports)
          /\ sub.plan \in Plans /\ sub.stripeSub \in StripeSubs \cup {None}
      BY DEF Inv, RowsOK, ShellOK, Sound
    <3>2. PICK new : new = NewReport(s, reports, TRUE, FALSE)
      OBVIOUS
    <3>3. new \in Report
      BY <3>1, <3>2, NewReportProperty
    <3>4. ~ \E r \in DOMAIN reports : reports[r].closing
      BY <2>3 DEF OpenOK
    <3>5. reports' = Append(reports, new)
      BY <1>1, <1>5, <2>3, <3>2, <3>4 DEF Stage
    <3>6. new.snapshot[c] = Larger(new.reserved[c], s.count[c])
      BY <3>2 DEF NewReport
    <3>7. new.reserved[c] \in Nat /\ s.count[c] \in Int
      BY <3>3 DEF Report, UsageType
    <3>8. s.count[c] <= new.snapshot[c]
      BY <3>6, <3>7 DEF Larger
    <3>9. Len(reports) + 1 \in DOMAIN reports' /\ reports'[Len(reports) + 1] = new
      BY <3>1, <3>3, <3>5
    <3> QED BY <2>1, <3>8, <3>9
  <2>4. ClosesAll
    BY <2>3 DEF ClosesAll
  <2> QED BY <2>2, <2>4
<1>6. \/ UNCHANGED <<usage, reports>>
      \/ /\ usage' = [s EXCEPT !.billed = TRUE]
         /\ reports' = Stage(s, reports, TRUE, FALSE, FALSE)
  BY <1>1 DEF InvoicePaidClose
<1> QED BY <1>4, <1>5, <1>6

LEMMA OpenNext ==
  ASSUME BillingAssumption, "deleted" \notin Enabled, Inv, Inv', OpenOK(usage, reports, work), Next
  PROVE  OpenOK(usage', reports', work') /\ ClosesAll
<1> USE DEF stripeVars
<1>1. ASSUME NEW w \in Workers, Staging(w) PROVE OpenOK(usage', reports', work') /\ ClosesAll
  BY <1>1, OpenStaging, CloseStep DEF ClosesAll
<1>2. ASSUME NEW w \in Workers, Delivering(w) PROVE OpenOK(usage', reports', work') /\ ClosesAll
  BY <1>2, OpenDelivering DEF ClosesAll
<1>3. ASSUME usage' = usage, reports' = reports,
             \/ work' = work
             \/ \E w \in Workers : \E l : Become(w, l) /\ Staying(l)
      PROVE  OpenOK(usage', reports', work') /\ ClosesAll
  BY <1>3, StaysOpen DEF ClosesAll
<1>4. CASE Counters
  BY <1>3, <1>4 DEF Counters, Increment, Refund, KeyExpires
<1>5. CASE Failures
  <2>1. PICK l : l = [Idle EXCEPT !.pc = "dead"]
    OBVIOUS
  <2>2. Staying(l) /\ Staying(Idle)
    BY <2>1 DEF Staying, Idle
  <2>3. usage' = usage /\ reports' = reports /\ (work' = work \/ \E w \in Workers : Become(w, l) \/ Become(w, Idle))
    BY <1>5, <2>1 DEF Failures, LockExpires, Crash, Restart, Finish
  <2> QED BY <1>3, <2>2, <2>3
<1>6. CASE \/ WatchEnds \/ SubscriptionUpdated \/ CheckoutCompleted \/ InvoiceDrafted \/ InvoiceFinalized
           \/ (\E q \in net : StripeLate(q)) \/ \E k \in saved : KeyForgotten(k)
  BY <1>3, <1>6 DEF WatchEnds, SubscriptionUpdated, CheckoutCompleted, InvoiceDrafted, InvoiceFinalized,
                    StripeLate, KeyForgotten
<1>7. ASSUME NEW w \in Workers, StripeAnswers(w) PROVE OpenOK(usage', reports', work') /\ ClosesAll
  <2>1. PICK b : b = Accepted(work[w].request)
    OBVIOUS
  <2>2. PICK l : l = [work[w] EXCEPT !.pc = "replied", !.item = b]
    OBVIOUS
  <2>3. Staying(work[w]) /\ work[w] \in Local
    BY ChargeTypes DEF OpenOK
  <2>4. Staying(l)
    BY <2>2, <2>3 DEF Staying, Local
  <2>5. usage' = usage /\ reports' = reports /\ Become(w, l)
    BY <1>7, <2>1, <2>2 DEF StripeAnswers
  <2> QED BY <1>3, <2>4, <2>5
<1>8. ASSUME NEW r \in DOMAIN reports, NEW c \in Categories, AttemptAges(r, c)
      PROVE  OpenOK(usage', reports', work') /\ ClosesAll
  <2>1. PICK row : row = [reports[r] EXCEPT !.attempted[c] = "old"]
    OBVIOUS
  <2>2. usage' = usage /\ work' = work /\ reports' = [reports EXCEPT ![r] = row]
    BY <1>8, <2>1 DEF AttemptAges, Update
  <2>3. row.closing = reports[r].closing
    BY <2>1, ChargeTypes DEF Report
  <2>4. \A q \in DOMAIN reports' : reports'[q].closing => q \in DOMAIN reports /\ reports[q].closing
    BY <2>2, <2>3, ChargeTypes
  <2> QED BY <2>2, <2>4, StaysOpen DEF ClosesAll
<1>9. CASE Outside
  BY <1>6, <1>7, <1>8, <1>9 DEF Outside
<1> QED BY <1>1, <1>2, <1>4, <1>5, <1>9 DEF Next

\* When invoice.paid closes the period, the overage counted in the usage row has all been
\* reserved, whatever stale read, expired lock or concurrent stage came before.  (The
\* handler of a deleted subscription may skip the report when the overage lock is busy:
\* the hypothesis leaves that handler out.)
THEOREM ClosingReservesAll ==
  ASSUME "deleted" \notin Enabled
  PROVE  Spec => CloseReservesAll
<1> DEFINE Open == OpenOK(usage, reports, work)
<1>1. Init => Open
  BY DEF Init, OpenOK, Staying, Idle
<1>2. Inv /\ Inv' /\ Open /\ [Next]_vars => Open'
  <2>1. ASSUME Inv, Inv', Open, Next PROVE Open'
    <3>1. OpenOK(usage', reports', work')
      BY <2>1, OpenNext, BillingAssumption
    <3> QED BY <3>1 DEF OpenOK, Staying
  <2>2. ASSUME Open, UNCHANGED vars PROVE Open'
    BY <2>2 DEF vars, OpenOK, Staying
  <2> QED BY <2>1, <2>2
<1>3. Inv /\ Inv' /\ Open /\ [Next]_vars => [ClosesAll]_vars
  BY OpenNext, BillingAssumption
<1> HIDE DEF Open
<1>4. Spec => [][ClosesAll]_vars
  BY <1>1, <1>2, <1>3, Invariance, PTL DEF Spec
<1> QED BY <1>4 DEF CloseReservesAll, ClosesAll

-----------------------------------------------------------------------------
(* The events Stripe delivers (WebhookEvents), for any number of deliveries *)
(* and faults: the processing lock is exclusive, and an event's effects are *)
(* applied once unless a lock ran out or a request that had committed was   *)
(* interrupted before it stored the marker.                                 *)
(*                                                                          *)
(* OnceUnlessInterrupted is not inductive.  Calm adds what it rests on: who *)
(* may commit (only the owner of the key, and only before anyone did) and   *)
(* that a commit is always guarded by a key, first the owner's token, then  *)
(* the marker.  Acknowledged follows an answer back to the commit it stands *)
(* for: through the marker, or through the request's own handler.           *)

\* The state of an event none of whose locks ran out and none of whose handlers was
\* interrupted.
Calm ==
  expired = {} /\ ~interrupted =>
    /\ commits \in {0, 1}
    /\ commits = 1 =>
         key = Completed \/ \E d \in Deliveries : pc[d] = "complete" /\ key = d
    /\ \A d \in Deliveries :
         /\ pc[d] = "handle" => commits = 0
         /\ pc[d] = "complete" => commits = 1 /\ key \in {d, Completed}

EventInv == EventTypeOK /\ ExclusiveLease /\ Calm

\* A marker, a request past its handler, and an answer of 200 that is not due to
\* another request's lock, each stand for a commit.
Acknowledged ==
  /\ key = Completed => commits > 0
  /\ \A d \in Deliveries :
       /\ pc[d] = "complete" => commits > 0
       /\ d \notin yielded /\ (pc[d] = "ok" \/ heard[d] = "ok") => commits > 0

\* Free, Completed and the tokens are different values.
LEMMA Distinct ==
  ASSUME NEW d \in Deliveries
  PROVE  d # Free /\ d # Completed /\ Free # Completed
BY WebhookAssumption

\* Initially nobody holds the key.
LEMMA InitEventInv == EventInit => EventInv
<1> SUFFICES ASSUME EventInit PROVE EventInv
  OBVIOUS
<1>1. interrupted \in BOOLEAN
  BY Zenon DEF EventInit
<1>2. EventTypeOK
  BY <1>1 DEF EventInit, EventTypeOK
<1>3. ExclusiveLease /\ Calm
  BY DEF EventInit, ExclusiveLease, Calm
<1> QED BY <1>2, <1>3 DEF EventInv

\* What the three scripts do to the key, for the owner and for everybody else.
LEMMA Scripts ==
  ASSUME EventInv, NEW d \in Deliveries, pc[d] \in Calls
  PROVE  /\ AfterScript(d) \in Deliveries \cup {Free, Completed}
         /\ key \in Deliveries /\ key # d => AfterScript(d) = key
         /\ key = Completed => AfterScript(d) = key
         /\ pc[d] = "acquire" => AfterScript(d) = IF key = Free THEN d ELSE key
         /\ pc[d] = "complete" => AfterScript(d) = IF key = d THEN Completed ELSE key
         /\ pc[d] = "release" => AfterScript(d) = IF key = d THEN Free ELSE key
BY Distinct DEF Calls, AfterScript, AfterAcquire, AfterRelease, AfterComplete,
                EventInv, EventTypeOK

\* Every step preserves the invariant.
LEMMA NextEventInv == EventInv /\ [EventNext]_eventVars => EventInv'
<1> SUFFICES ASSUME EventInv, [EventNext]_eventVars PROVE EventInv'
  OBVIOUS
<1> USE DEF EventInv
<1>1. CASE Expire
  BY <1>1, Distinct DEF Expire, EventTypeOK, ExclusiveLease, Calm
<1>2. ASSUME NEW d \in Deliveries, Send(d) PROVE EventInv'
  BY <1>2, Distinct DEF Send, EventTypeOK, ExclusiveLease, Calm
<1>3. ASSUME NEW d \in Deliveries, CallRedis(d) PROVE EventInv'
  <2>1. CASE pc[d] = "acquire"
    BY <1>3, <2>1, Scripts, Distinct
       DEF CallRedis, Answered, Acquired, EventTypeOK, ExclusiveLease, Calm
  <2>2. CASE pc[d] = "release"
    BY <1>3, <2>2, Scripts, Distinct
       DEF CallRedis, Answered, EventTypeOK, ExclusiveLease, Calm
  <2>3. CASE pc[d] = "complete"
    BY <1>3, <2>3, Scripts, Distinct
       DEF CallRedis, Answered, EventTypeOK, ExclusiveLease, Calm
  <2> QED BY <1>3, <2>1, <2>2, <2>3 DEF CallRedis, Calls
<1>4. ASSUME NEW d \in Deliveries, Handle(d) PROVE EventInv'
  BY <1>4, Distinct DEF Handle, EventTypeOK, ExclusiveLease, Calm
<1>5. ASSUME NEW d \in Deliveries, Hear(d) PROVE EventInv'
  BY <1>5, Distinct DEF Hear, EventTypeOK, ExclusiveLease, Calm
<1>6. ASSUME NEW d \in Deliveries, ReplyLost(d) PROVE EventInv'
  <2>1. CASE d \in replayed
    BY <1>6, <2>1, Scripts, Distinct DEF ReplyLost, Calls, EventTypeOK, ExclusiveLease, Calm
  <2>2. CASE d \notin replayed
    BY <1>6, <2>2, Scripts, Distinct DEF ReplyLost, Calls, EventTypeOK, ExclusiveLease, Calm
  <2> QED BY <2>1, <2>2
<1>7. ASSUME NEW d \in Deliveries, RedisDown(d) PROVE EventInv'
  BY <1>7, Distinct DEF RedisDown, Calls, EventTypeOK, ExclusiveLease, Calm
<1>8. ASSUME NEW d \in Deliveries, HandleFails(d) PROVE EventInv'
  BY <1>8, Distinct DEF HandleFails, EventTypeOK, ExclusiveLease, Calm
<1>9. ASSUME NEW d \in Deliveries, HandleFailsLate(d) PROVE EventInv'
  BY <1>9, Distinct DEF HandleFailsLate, EventTypeOK, ExclusiveLease, Calm
<1>10. ASSUME NEW d \in Deliveries, Dies(d) PROVE EventInv'
  BY <1>10, Distinct DEF Dies, Active, Ended, EventTypeOK, ExclusiveLease, Calm
<1>11. CASE UNCHANGED eventVars
  BY <1>11 DEF eventVars, EventTypeOK, ExclusiveLease, Calm
<1> QED
  BY <1>1, <1>2, <1>3, <1>4, <1>5, <1>6, <1>7, <1>8, <1>9, <1>10, <1>11
     DEF EventNext, SendUnheard, SendDuplicate, Serve, Trouble

\* The invariant holds throughout.
THEOREM EventInvariance == EventSpec => []EventInv
<1>1. EventInit => EventInv
  BY InitEventInv
<1>2. EventInv /\ [EventNext]_eventVars => EventInv'
  BY NextEventInv
<1> QED BY <1>1, <1>2, PTL DEF EventSpec

\* The lock of a running handler is taken away by nothing but its TTL, however many
\* deliveries race and however often scripts are repeated.
THEOREM LeaseIsExclusive == EventSpec => []ExclusiveLease
<1>1. EventInv => ExclusiveLease
  BY DEF EventInv
<1> QED BY <1>1, EventInvariance, PTL

\* Initially nothing has been answered.
LEMMA InitAcknowledged == EventInit => Acknowledged
BY Distinct, WebhookAssumption DEF EventInit, Acknowledged

\* Every step preserves Acknowledged.
LEMMA NextAcknowledged == EventInv /\ Acknowledged /\ [EventNext]_eventVars => Acknowledged'
<1> SUFFICES ASSUME EventInv, Acknowledged, [EventNext]_eventVars PROVE Acknowledged'
  OBVIOUS
<1> commits \in Nat /\ key \in Deliveries \cup {Free, Completed}
    /\ DOMAIN pc = Deliveries /\ DOMAIN heard = Deliveries
  BY DEF EventInv, EventTypeOK
<1>1. CASE Expire
  BY <1>1, Distinct, WebhookAssumption DEF Expire, Acknowledged
<1>2. ASSUME NEW d \in Deliveries, Send(d) PROVE Acknowledged'
  BY <1>2 DEF Send, Acknowledged
<1>3. ASSUME NEW d \in Deliveries, CallRedis(d) PROVE Acknowledged'
  <2>1. CASE pc[d] = "acquire"
    BY <1>3, <2>1, Scripts, Distinct DEF CallRedis, Answered, Acquired, Acknowledged
  <2>2. CASE pc[d] = "release"
    BY <1>3, <2>2, Scripts, Distinct, WebhookAssumption DEF CallRedis, Answered, Acknowledged
  <2>3. CASE pc[d] = "complete"
    BY <1>3, <2>3, Scripts, Distinct DEF CallRedis, Answered, Acknowledged
  <2> QED BY <1>3, <2>1, <2>2, <2>3 DEF CallRedis, Calls
<1>4. ASSUME NEW d \in Deliveries, Handle(d) PROVE Acknowledged'
  BY <1>4 DEF Handle, Acknowledged
<1>5. ASSUME NEW d \in Deliveries, Hear(d) PROVE Acknowledged'
  BY <1>5 DEF Hear, Acknowledged
<1>6. ASSUME NEW d \in Deliveries, ReplyLost(d) PROVE Acknowledged'
  BY <1>6, Scripts, Distinct, WebhookAssumption DEF ReplyLost, Calls, Acknowledged
<1>7. ASSUME NEW d \in Deliveries, RedisDown(d) PROVE Acknowledged'
  BY <1>7 DEF RedisDown, Acknowledged
<1>8. ASSUME NEW d \in Deliveries, HandleFails(d) PROVE Acknowledged'
  BY <1>8 DEF HandleFails, Acknowledged
<1>9. ASSUME NEW d \in Deliveries, HandleFailsLate(d) PROVE Acknowledged'
  BY <1>9 DEF HandleFailsLate, Acknowledged
<1>10. ASSUME NEW d \in Deliveries, Dies(d) PROVE Acknowledged'
  BY <1>10 DEF Dies, Acknowledged
<1>11. CASE UNCHANGED eventVars
  BY <1>11 DEF eventVars, Acknowledged
<1> QED
  BY <1>1, <1>2, <1>3, <1>4, <1>5, <1>6, <1>7, <1>8, <1>9, <1>10, <1>11
     DEF EventNext, SendUnheard, SendDuplicate, Serve, Trouble

\* An event whose 200 Stripe has heard was processed, whatever was lost, repeated or
\* interrupted on the way, unless the answer came from a duplicate turned away by
\* another request's lock.
THEOREM AcknowledgedAfterCommit == EventSpec => []AcknowledgedIsProcessed
<1>1. EventInit => Acknowledged
  BY InitAcknowledged
<1>2. EventInv /\ Acknowledged /\ [EventNext]_eventVars => Acknowledged'
  BY NextAcknowledged
<1>3. Acknowledged => AcknowledgedIsProcessed
  BY DEF Acknowledged, AcknowledgedIsProcessed
<1> QED BY <1>1, <1>2, <1>3, EventInvariance, PTL DEF EventSpec

\* The effects of an event are applied at most once, except after an expired lock or
\* an interrupted completion.
THEOREM AppliedOnce == EventSpec => []OnceUnlessInterrupted
<1>1. EventInv => OnceUnlessInterrupted
  BY DEF EventInv, Calm, OnceUnlessInterrupted
<1> QED BY <1>1, EventInvariance, PTL
===============================================================================
