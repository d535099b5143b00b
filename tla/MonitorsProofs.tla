--------------------------- MODULE MonitorsProofs ---------------------------
(***************************************************************************)
(* For any number of monitors, workers and ticks: units are counted for    *)
(* the runs there are or recorded as left behind, and a monitor is         *)
(* evaluated once for a due time but for tasks delivered again and         *)
(* publishes that raised though the message went out.                      *)
(*                                                                         *)
(* Each delivery has one token at most: its task in the broker or the      *)
(* worker that executes it.  The token goes when its run is published, and *)
(* a retry raises its number of tries above that of every run it left      *)
(* behind.  That two deliveries are not of the same due time, unless the   *)
(* broker made one of the other, is the work of the Redis lock: while it   *)
(* does not run out under a tick that has not committed, the time a        *)
(* monitor is due next is later than every due time taken for it.          *)
(***************************************************************************)
EXTENDS Monitors, FiniteSetTheorems, TLAPS

-----------------------------------------------------------------------------
(* The inductive invariant: the types of the schedule.                     *)

Entry == [monitor : Monitors, due : Nat, cadence : Cadences]
Tick == [pc : {"idle", "commit", "dispatch"}, now : Nat, due : SUBSET Entry]
Firing == [monitor : Monitors, due : Nat, again : BOOLEAN]

\* A tick has each monitor once, due by the time of the tick.
TickOK(q) ==
  /\ \A d \in q.due : d.due <= q.now
  /\ \A d, e \in q.due : d.monitor = e.monitor => d = e

Schedule ==
  /\ clock \in Time
  /\ monitor \in [Monitors -> Row]
  /\ \A m \in Monitors : ~Exists(m) => monitor[m].next = None
  /\ started \in [Traces -> Time \cup {None}]
  /\ lock \in Beats \cup {None}
  /\ beat \in [Beats -> Tick] /\ \A b \in Beats : TickOK(beat[b]) /\ beat[b].now <= clock
  /\ fires \in Seq(Firing) /\ \A i \in 1..Len(fires) : fires[i].due <= clock

-----------------------------------------------------------------------------
(* The inductive invariant: tokens, runs and charges.                      *)

Task(n) == [no : 1..n, try : 0..MaxRetries]
Local(n) ==
  [pc : {"idle", "spawn", "commit", "publish", "retry"}, task : Task(n) \cup {None},
   targets : SUBSET Traces]
Busy(w) == work[w].pc # "idle"

Types ==
  /\ queue \subseteq Task(Len(fires))
  /\ work \in [Workers -> Local(Len(fires))]
  /\ \A w \in Workers : Busy(w) => work[w].task \in Task(Len(fires))
  /\ runs \subseteq Run /\ \A r \in runs : r.id.no \in 0..Len(fires)
  /\ charged \subseteq RunId /\ stranded \subseteq RunId /\ unsure \subseteq RunIds

\* A delivery has one token.
OneToken ==
  /\ \A k, l \in queue : k.no = l.no => k = l
  /\ \A k \in queue, w \in Workers : Busy(w) => work[w].task.no # k.no
  /\ \A v, w \in Workers : Busy(v) /\ Busy(w) /\ work[v].task.no = work[w].task.no => v = w

\* While there is a token nothing is published, unless publishing it raised.
Open(rs, us, k) ==
  \A r \in rs : r.id.no = k.no => (r.published => r.id \in us) /\ r.id.try <= k.try
\* The attempt has inserted no run yet.
Fresh(rs, k) == \A r \in rs : r.id.no = k.no => r.id.try < k.try

TokensOK ==
  /\ \A k \in queue : Open(runs, unsure, k) /\ Fresh(runs, k)
  /\ \A w \in Workers : Busy(w) => Open(runs, unsure, work[w].task)
  /\ \A w \in Workers : work[w].pc \in {"spawn", "commit"} => Fresh(runs, work[w].task)
  /\ \A w \in Workers : work[w].pc = "publish" => \E r \in runs : r.id = work[w].task

RunsOK ==
  /\ \A r, q \in runs : r.id = q.id => r = q
  /\ \A r, q \in runs : r.id.no > 0 /\ r.id.no = q.id.no /\ r.published /\ q.published =>
       r = q \/ r.id \in unsure \/ q.id \in unsure
  /\ IsFiniteSet(TriggerIds)
  /\ \A id \in TriggerIds : id.try <= Cardinality(TriggerIds)

Charges ==
  /\ \A w \in Workers : work[w].pc \in {"commit", "publish"} => Spawned(w) \in charged
  /\ \A id \in charged :
       id \in RunIds \cup stranded \/ \E w \in Workers : At(w, "commit") /\ Spawned(w) = id
  /\ \A r \in runs : r.published => r.id \in charged \/ (r.id.no = 0 /\ r.id \in unsure)

Inv == Schedule /\ Types /\ OneToken /\ TokensOK /\ RunsOK /\ Charges

-----------------------------------------------------------------------------
(* The inductive invariant of the schedule under the lock.                 *)

\* Time x is later than every due time of monitor m that is in the history or in the
\* list of a tick that has committed.
Later(fs, bt, m, x) ==
  /\ \A i \in 1..Len(fs) : fs[i].monitor = m => fs[i].due < x
  /\ \A b \in Beats : bt[b].pc = "dispatch" =>
       \A d \in bt[b].due : d.monitor = m => d.due < x

\* Two firings of one due time by the scheduler; what the broker repeats is none.
FiredTwice(f, g) == ~f.again /\ ~g.again /\ f.monitor = g.monitor /\ f.due = g.due

\* A due time is fired once, and is not about to be fired again, or by two ticks.
Taken ==
  /\ \A i, j \in 1..Len(fires) : FiredTwice(fires[i], fires[j]) => i = j
  /\ \A b \in Beats : beat[b].pc = "dispatch" =>
       \A d \in beat[b].due, i \in 1..Len(fires) :
         ~(fires[i].monitor = d.monitor /\ fires[i].due = d.due)
  /\ \A b, c \in Beats : b # c /\ beat[b].pc = "dispatch" /\ beat[c].pc = "dispatch" =>
       \A d \in beat[b].due, e \in beat[c].due : ~(d.monitor = e.monitor /\ d.due = e.due)

\* A tick that has not committed has the lock, and what it read is still to be taken.
Locked ==
  \A b \in Beats : beat[b].pc = "commit" =>
    /\ lock = b
    /\ \A d \in beat[b].due : Later(fires, beat, d.monitor, d.due)
    /\ \A m \in Monitors : Later(fires, beat, m, beat[b].now + 1)

Exclusive ==
  /\ Taken /\ Locked
  /\ \A m \in Monitors : monitor[m].next # None => Later(fires, beat, m, monitor[m].next)

-----------------------------------------------------------------------------
(* The schedule.                                                           *)

\* compute_next_run is later than now.
LEMMA NextRunOK ==
  ASSUME NEW c \in Cadences, NEW now \in Nat
  PROVE  NextRun(c, now) \in Nat /\ NextRun(c, now) > now
<1>1. PICK e \in Nat : e = c.every /\ e > 0
  BY MonitorAssumption
<1>2. CASE c.cron
  <2>1. (now \div e + 1) * e > now
    BY <1>1, SMT
  <2>2. (now \div e + 1) * e \in Int
    BY <1>1, SMT
  <2> QED BY <1>1, <1>2, <2>1, <2>2 DEF NextRun
<1>3. CASE ~c.cron
  BY <1>1, <1>3 DEF NextRun
<1> QED BY <1>2, <1>3

LEMMA TimeIsNat == Time \subseteq Nat /\ 0 \in Time
BY MonitorAssumption DEF Time

LEMMA NoRowOK ==
  ASSUME NEW x \in {"NEW", "DELETED"}
  PROVE  NoRow(x) \in Row /\ NoRow(x).next = None
<1>1. PICK c \in Cadences : c = CHOOSE d \in Cadences : TRUE
  BY MonitorAssumption
<1> QED BY <1>1 DEF NoRow, Row

LEMMA QuietOK == Quiet \in Tick /\ TickOK(Quiet) /\ Quiet.pc = "idle" /\ Quiet.now = 0
BY DEF Quiet, Tick, TickOK

\* Steps that leave the schedule alone, or change a row or a tick.
LEMMA ScheduleFrame ==
  ASSUME Inv, UNCHANGED <<clock, monitor, started, lock, beat, fires>>
  PROVE  Schedule'
BY DEF Inv, Schedule, Exists, TickOK

LEMMA MonitorStep ==
  ASSUME Inv, NEW m \in Monitors, NEW row \in Row,
         row.status \in {"ACTIVE", "PAUSED"} \/ row.next = None,
         monitor' = [monitor EXCEPT ![m] = row], UNCHANGED <<clock, started, lock, beat, fires>>
  PROVE  Schedule'
<1>1. /\ monitor' \in [Monitors -> Row]
      /\ \A n \in Monitors : monitor'[n].status \notin {"ACTIVE", "PAUSED"} => monitor'[n].next = None
  BY DEF Inv, Schedule, Exists
<1> QED BY <1>1 DEF Inv, Schedule, Exists, TickOK

LEMMA TickStep ==
  ASSUME Inv, NEW b \in Beats, NEW q \in Tick, TickOK(q), q.now <= clock,
         beat' = [beat EXCEPT ![b] = q], lock' \in Beats \cup {None},
         UNCHANGED <<clock, monitor, started, fires>>
  PROVE  Schedule'
<1>1. /\ beat' \in [Beats -> Tick]
      /\ \A c \in Beats : TickOK(beat'[c]) /\ beat'[c].now <= clock
  BY DEF Inv, Schedule
<1> QED BY <1>1 DEF Inv, Schedule, Exists, TickOK

LEMMA QuietStep ==
  ASSUME Inv, NEW b \in Beats, beat' = [beat EXCEPT ![b] = Quiet], lock' \in Beats \cup {None},
         UNCHANGED <<clock, monitor, started, fires>>
  PROVE  Schedule'
<1>1. 0 <= clock
  BY TimeIsNat DEF Inv, Schedule
<1> QED BY <1>1, QuietOK, TickStep

LEMMA ReleaseOK ==
  ASSUME Inv, NEW b \in Beats, Release(b)
  PROVE  lock' \in Beats \cup {None}
BY DEF Inv, Schedule, Release

\* Time passes.
LEMMA ClockStep ==
  ASSUME Inv, Tock \/ \E t \in Traces : Arrive(t)
  PROVE  Schedule'
<1>1. CASE Tock
  <2>1. clock' \in Time /\ clock \in Nat /\ clock' = clock + 1
    BY <1>1, MonitorAssumption DEF Inv, Schedule, Time, Tock
  <2>2. UNCHANGED <<monitor, started, lock, beat, fires>>
    BY <1>1 DEF Tock, schedule
  <2>3. /\ \A b \in Beats : beat[b].now \in Nat /\ beat[b].now <= clock
        /\ \A i \in 1..Len(fires) : fires[i].due \in Nat /\ fires[i].due <= clock
    <3>1. \A i \in 1..Len(fires) : fires[i] \in Firing
      BY DEF Inv, Schedule
    <3> QED BY <3>1 DEF Inv, Schedule, Tick, Firing
  <2> QED BY <2>1, <2>2, <2>3 DEF Inv, Schedule, Exists, TickOK
<1>2. ASSUME NEW t \in Traces, Arrive(t) PROVE Schedule'
  <2>1. PICK s \in 0..clock : started' = [started EXCEPT ![t] = s]
    BY <1>2 DEF Arrive
  <2>2. s \in Time
    BY MonitorAssumption DEF Inv, Schedule, Time
  <2>3. started' \in [Traces -> Time \cup {None}]
    BY <2>1, <2>2 DEF Inv, Schedule
  <2> QED BY <1>2, <2>3 DEF Inv, Schedule, Exists, TickOK, Arrive, schedule
<1> QED BY <1>1, <1>2

\* What a tick reads.
LEMMA FoundOK ==
  ASSUME Inv
  PROVE  /\ Found \in Tick /\ TickOK(Found) /\ Found.now = clock /\ Found.pc = "commit"
         /\ \A d \in Found.due : /\ d.monitor \in Monitors /\ monitor[d.monitor].next # None
                                 /\ monitor[d.monitor].next = d.due
<1>1. clock \in Nat
  BY TimeIsNat DEF Inv, Schedule
<1>2. ASSUME NEW m \in Due(clock)
      PROVE  /\ m \in Monitors /\ monitor[m].next \in Nat /\ monitor[m].next <= clock
             /\ monitor[m].cadence \in Cadences /\ monitor[m].next # None
  BY <1>2 DEF Inv, Schedule, Due, Row
<1>3. PICK D : D = {[monitor |-> m, due |-> monitor[m].next, cadence |-> monitor[m].cadence] : m \in Due(clock)}
  OBVIOUS
<1>4. D \subseteq Entry /\ \A d \in D : /\ d.due <= clock /\ d.monitor \in Monitors
                                        /\ monitor[d.monitor].next # None
                                        /\ monitor[d.monitor].next = d.due
  BY <1>2, <1>3 DEF Entry
<1>5. \A d, e \in D : d.monitor = e.monitor => d = e
  BY <1>3
<1>6. PICK q : q = [pc |-> "commit", now |-> clock, due |-> D]
  OBVIOUS
<1>7. q = Found
  BY <1>3, <1>6 DEF Found
<1>8. q \in Tick /\ q.now = clock /\ q.pc = "commit" /\ q.due = D
  BY <1>1, <1>4, <1>6 DEF Tick
<1>9. TickOK(q)
  BY <1>4, <1>5, <1>8 DEF TickOK
<1> QED BY <1>4, <1>7, <1>8, <1>9

\* The rows after the commit of a tick.
LEMMA Rescheduled ==
  ASSUME Inv, NEW b \in Beats, BeatCommit(b), NEW m \in Monitors
  PROVE  \/ /\ monitor'[m] = monitor[m]
            /\ monitor[m].next = None \/ ~\E d \in beat[b].due : d.monitor = m
         \/ /\ Exists(m)
            /\ \E n \in Nat : n > beat[b].now /\ monitor'[m] = [monitor[m] EXCEPT !.next = n]
<1>1. CASE Exists(m) /\ \E d \in beat[b].due : d.monitor = m
  <2>1. PICK d : d = CHOOSE x \in beat[b].due : x.monitor = m
    OBVIOUS
  <2>2. d \in beat[b].due /\ beat[b] \in Tick
    BY <1>1, <2>1 DEF Inv, Schedule
  <2>3. d.cadence \in Cadences /\ beat[b].now \in Nat
    BY <2>2 DEF Tick, Entry
  <2>4. PICK n \in Nat : n = NextRun(d.cadence, beat[b].now) /\ n > beat[b].now
    BY <2>3, NextRunOK
  <2>5. monitor'[m] = [monitor[m] EXCEPT !.next = n]
    BY <1>1, <2>1, <2>4 DEF BeatCommit
  <2> QED BY <1>1, <2>4, <2>5
<1>2. CASE ~(Exists(m) /\ \E d \in beat[b].due : d.monitor = m)
  <2>1. monitor'[m] = monitor[m]
    BY <1>2 DEF BeatCommit
  <2> QED BY <1>2, <2>1 DEF Inv, Schedule
<1> QED BY <1>1, <1>2

LEMMA CommittedTick ==
  ASSUME Inv, NEW b \in Beats, BeatCommit(b)
  PROVE  \E q \in Tick : /\ beat' = [beat EXCEPT ![b] = q] /\ TickOK(q) /\ q.now <= clock
                         /\ q.pc = "dispatch" => q.due = beat[b].due
                         /\ q.pc # "commit"
<1>1. beat[b] \in Tick /\ TickOK(beat[b]) /\ beat[b].now <= clock /\ 0 <= clock
  BY TimeIsNat DEF Inv, Schedule
<1>2. CASE beat[b].due = {}
  <2>1. beat' = [beat EXCEPT ![b] = Quiet]
    BY <1>2 DEF BeatCommit, Watch
  <2> QED BY <1>1, <2>1, QuietOK
<1>3. CASE beat[b].due # {}
  <2>1. PICK q : q = [beat[b] EXCEPT !.pc = "dispatch"]
    OBVIOUS
  <2>2. q \in Tick /\ q.now = beat[b].now /\ q.due = beat[b].due /\ q.pc = "dispatch"
    BY <1>1, <2>1 DEF Tick
  <2>3. TickOK(q)
    BY <1>1, <2>2 DEF TickOK
  <2>4. beat' = [beat EXCEPT ![b] = q]
    BY <1>3, <2>1 DEF BeatCommit, Watch
  <2> QED BY <1>1, <2>2, <2>3, <2>4
<1> QED BY <1>2, <1>3

\* One monitor's row is written; its next run is later than now, or as it was, or not set.
RowWritten(m, row) ==
  /\ monitor' = [monitor EXCEPT ![m] = row]
  /\ row.status \in {"ACTIVE", "PAUSED"} \/ row.next = None
  /\ row.next = None \/ row.next > clock \/ row.next = monitor[m].next

LEMMA RowTyped ==
  ASSUME Inv, NEW m \in Monitors
  PROVE  /\ monitor[m] \in Row /\ clock \in Nat /\ clock \in Time
         /\ ~Exists(m) => monitor[m].next = None
BY TimeIsNat DEF Inv, Schedule

LEMMA UserWrites ==
  ASSUME Inv, NEW m \in Monitors,
         Create(m) \/ Update(m) \/ Pause(m) \/ Resume(m) \/ Delete(m)
  PROVE  /\ \E row \in Row : RowWritten(m, row)
         /\ UNCHANGED <<clock, started, schedule, queue, spawning>>
<1>0. monitor[m] \in Row /\ clock \in Nat /\ monitor[m].cadence \in Cadences
  BY RowTyped DEF Row
<1>1. CASE Create(m)
  <2>1. PICK c \in Cadences, skip \in BOOLEAN :
           Store(m, [status |-> "ACTIVE", cadence |-> c, skip |-> skip,
                     next |-> NextRun(c, clock), last |-> None])
    BY <1>1 DEF Create
  <2>2. PICK n \in Nat : n = NextRun(c, clock) /\ n > clock
    BY <1>0, NextRunOK
  <2>3. PICK row : row = [status |-> "ACTIVE", cadence |-> c, skip |-> skip, next |-> n, last |-> None]
    OBVIOUS
  <2>4. row \in Row /\ row.status = "ACTIVE" /\ row.next > clock
    BY <2>2, <2>3 DEF Row
  <2> QED BY <2>1, <2>2, <2>3, <2>4 DEF Store, RowWritten
<1>2. ASSUME NEW c \in Cadences, Exists(m),
             Store(m, [monitor[m] EXCEPT !.cadence = c, !.next = NextRun(c, clock)])
      PROVE  /\ \E row \in Row : RowWritten(m, row)
             /\ UNCHANGED <<clock, started, schedule, queue, spawning>>
  <2>1. PICK n \in Nat : n = NextRun(c, clock) /\ n > clock
    BY <1>0, NextRunOK
  <2>2. PICK row : row = [monitor[m] EXCEPT !.cadence = c, !.next = n]
    OBVIOUS
  <2>3. row \in Row /\ row.status = monitor[m].status /\ row.next > clock
    BY <1>0, <2>1, <2>2 DEF Row
  <2> QED BY <1>2, <2>1, <2>2, <2>3 DEF Store, RowWritten, Exists
<1>3. ASSUME Exists(m), Store(m, [monitor[m] EXCEPT !.skip = ~@])
      PROVE  /\ \E row \in Row : RowWritten(m, row)
             /\ UNCHANGED <<clock, started, schedule, queue, spawning>>
  <2>1. PICK s \in BOOLEAN : s = ~monitor[m].skip
    OBVIOUS
  <2>2. PICK row : row = [monitor[m] EXCEPT !.skip = s]
    OBVIOUS
  <2>3. row \in Row /\ row.status = monitor[m].status /\ row.next = monitor[m].next
    BY <1>0, <2>2 DEF Row
  <2>4. monitor' = [monitor EXCEPT ![m] = row]
    BY <1>3, <2>1, <2>2 DEF Store
  <2> QED BY <1>3, <2>3, <2>4 DEF Store, RowWritten, Exists
<1>4. CASE Pause(m)
  <2>1. PICK row : row = [monitor[m] EXCEPT !.status = "PAUSED", !.next = None]
    OBVIOUS
  <2>2. row \in Row /\ row.next = None
    BY <1>0, <2>1 DEF Row
  <2> QED BY <1>4, <2>1, <2>2 DEF Pause, Store, RowWritten
<1>5. CASE Resume(m)
  <2>1. PICK n \in Nat : n = NextRun(monitor[m].cadence, clock) /\ n > clock
    BY <1>0, NextRunOK
  <2>2. PICK row : row = [monitor[m] EXCEPT !.status = "ACTIVE", !.next = n]
    OBVIOUS
  <2>3. row \in Row /\ row.status = "ACTIVE" /\ row.next > clock
    BY <1>0, <2>1, <2>2 DEF Row
  <2> QED BY <1>5, <2>1, <2>2, <2>3 DEF Resume, Store, RowWritten
<1>6. CASE Delete(m)
  BY <1>6, NoRowOK DEF Delete, Store, RowWritten
<1> QED BY <1>1, <1>2, <1>3, <1>4, <1>5, <1>6 DEF Update

\* advance_monitor, from a task and from a trigger.
LEMMA TaskWrites ==
  ASSUME Inv, NEW m \in Monitors, monitor' = [monitor EXCEPT ![m].last = clock]
  PROVE  \E row \in Row : RowWritten(m, row)
<1>0. monitor[m] \in Row /\ clock \in Time
  BY RowTyped
<1>1. PICK row : row = [monitor[m] EXCEPT !.last = clock]
  OBVIOUS
<1>2. row \in Row /\ row.status = monitor[m].status /\ row.next = monitor[m].next
  BY <1>0, <1>1 DEF Row
<1>3. monitor' = [monitor EXCEPT ![m] = row]
  BY <1>1
<1> QED BY <1>2, <1>3, RowTyped DEF RowWritten, Exists

LEMMA TriggerWrites ==
  ASSUME Inv, NEW m \in Monitors, Trigger(m)
  PROVE  \E row \in Row : RowWritten(m, row)
<1>0. monitor[m] \in Row /\ clock \in Time /\ clock \in Nat /\ monitor[m].cadence \in Cadences
  BY RowTyped DEF Row
<1>1. PICK n \in Nat : n = NextRun(monitor[m].cadence, clock) /\ n > clock
  BY <1>0, NextRunOK
<1>2. PICK row : row = [monitor[m] EXCEPT !.last = clock, !.next = n]
  OBVIOUS
<1>3. row \in Row /\ row.status = monitor[m].status /\ row.next > clock
  BY <1>0, <1>1, <1>2 DEF Row
<1>4. monitor' = [monitor EXCEPT ![m].last = clock, ![m].next = n]
  BY <1>1 DEF Trigger
<1>5. monitor' = [monitor EXCEPT ![m] = row]
  BY <1>0, <1>2, <1>4 DEF Inv, Schedule
<1> QED BY <1>3, <1>5 DEF RowWritten, Trigger, CanTrigger, Exists

LEMMA WrittenOK ==
  ASSUME Inv, NEW m \in Monitors, NEW row \in Row, RowWritten(m, row),
         UNCHANGED <<clock, started, lock, beat, fires>>
  PROVE  Schedule'
BY MonitorStep DEF RowWritten

\* check_eval_monitors, but for its dispatch.
LEMMA BeatOK ==
  ASSUME Inv, NEW b \in Beats,
         BeatBegin(b) \/ BeatCommit(b) \/ BeatFails(b) \/ BeatDies(b) \/ LockExpires
  PROVE  Schedule'
<1>1. CASE BeatBegin(b)
  <2>1. PICK q : q = Found
    OBVIOUS
  <2>2. q \in Tick /\ TickOK(q) /\ q.now <= clock
    BY <2>1, FoundOK, TimeIsNat DEF Inv, Schedule
  <2>3. /\ beat' = [beat EXCEPT ![b] = q] /\ lock' \in Beats \cup {None}
        /\ UNCHANGED <<clock, monitor, started, fires>>
    BY <1>1, <2>1 DEF BeatBegin, Watch
  <2> QED BY <2>2, <2>3, TickStep
<1>2. CASE BeatCommit(b)
  <2>1. PICK q \in Tick : beat' = [beat EXCEPT ![b] = q] /\ TickOK(q) /\ q.now <= clock
    BY <1>2, CommittedTick
  <2>2. /\ beat' \in [Beats -> Tick]
        /\ \A c \in Beats : TickOK(beat'[c]) /\ beat'[c].now <= clock
    BY <2>1 DEF Inv, Schedule
  <2>3. ASSUME NEW m \in Monitors
        PROVE  /\ monitor'[m] \in Row
               /\ monitor'[m].status \notin {"ACTIVE", "PAUSED"} => monitor'[m].next = None
    <3>1. CASE monitor'[m] = monitor[m]
      BY <3>1, RowTyped DEF Exists
    <3>2. CASE Exists(m) /\ \E n \in Nat : monitor'[m] = [monitor[m] EXCEPT !.next = n]
      BY <3>2, RowTyped DEF Exists, Row
    <3> QED BY <1>2, <3>1, <3>2, Rescheduled
  <2>4. monitor' \in [Monitors -> Row]
    <3>1. monitor' = [m \in Monitors |-> monitor'[m]]
      BY <1>2 DEF BeatCommit
    <3> QED BY <2>3, <3>1
  <2>5. lock' \in Beats \cup {None} /\ UNCHANGED <<clock, started, fires>>
    BY <1>2, ReleaseOK DEF BeatCommit
  <2> QED BY <2>2, <2>3, <2>4, <2>5 DEF Inv, Schedule, Exists, TickOK
<1>3. CASE BeatFails(b)
  BY <1>3, ReleaseOK, QuietStep DEF BeatFails, Watch
<1>4. CASE BeatDies(b)
  <2>1. lock' \in Beats \cup {None}
    BY <1>4 DEF BeatDies, Inv, Schedule
  <2> QED BY <1>4, <2>1, QuietStep DEF BeatDies, Watch
<1>5. CASE LockExpires
  BY <1>5 DEF LockExpires, Inv, Schedule, Exists, TickOK
<1> QED BY <1>1, <1>2, <1>3, <1>4, <1>5

\* A due time is fired: the list of the tick gets shorter, the history longer.
LEMMA Dispatched ==
  ASSUME Inv, NEW b \in Beats, BeatDispatch(b)
  PROVE  \E d \in beat[b].due, q \in Tick, f \in Firing :
           /\ beat[b].pc = "dispatch" /\ beat' = [beat EXCEPT ![b] = q]
           /\ q.now <= clock /\ q.pc # "commit" /\ q.due \subseteq beat[b].due \ {d}
           /\ q.due = {} \/ q.now = beat[b].now
           /\ f.monitor = d.monitor /\ f.due = d.due /\ d.due <= clock
           /\ fires' = Append(fires, f)
<1>1. PICK d \in beat[b].due :
        /\ fires' = Append(fires, [monitor |-> d.monitor, due |-> d.due, again |-> FALSE])
        /\ Watch(b, IF beat[b].due = {d} THEN Quiet ELSE [beat[b] EXCEPT !.due = @ \ {d}])
  BY DEF BeatDispatch
<1>2. beat[b] \in Tick /\ beat[b].now <= clock /\ 0 <= clock /\ clock \in Nat /\ TickOK(beat[b])
  BY TimeIsNat DEF Inv, Schedule
<1>3. d \in Entry /\ beat[b].due \in SUBSET Entry /\ beat[b].now \in Nat
  BY <1>2 DEF Tick
<1>4. PICK f : f = [monitor |-> d.monitor, due |-> d.due, again |-> FALSE]
  OBVIOUS
<1>5. f \in Firing /\ f.monitor = d.monitor /\ f.due = d.due
  BY <1>3, <1>4 DEF Entry, Firing
<1>6. d.due <= clock
  BY <1>2, <1>3 DEF TickOK, Entry
<1>7. CASE beat[b].due = {d}
  <2>1. Quiet \in Tick /\ Quiet.now <= clock /\ Quiet.pc # "commit" /\ Quiet.due = {}
    BY <1>2, QuietOK DEF Quiet
  <2>2. beat' = [beat EXCEPT ![b] = Quiet]
    BY <1>1, <1>7 DEF Watch
  <2> QED BY <1>1, <1>4, <1>5, <1>6, <2>1, <2>2 DEF BeatDispatch
<1>8. CASE beat[b].due # {d}
  <2>1. PICK D \in SUBSET Entry : D = beat[b].due \ {d}
    BY <1>3
  <2>2. PICK q : q = [beat[b] EXCEPT !.due = D]
    OBVIOUS
  <2>3. q \in Tick /\ q.now = beat[b].now /\ q.pc = beat[b].pc /\ q.due = D
    BY <1>2, <2>2 DEF Tick
  <2>4. beat' = [beat EXCEPT ![b] = q]
    BY <1>1, <1>8, <2>1, <2>2 DEF Watch
  <2> QED BY <1>1, <1>2, <1>4, <1>5, <1>6, <2>1, <2>3, <2>4 DEF BeatDispatch
<1> QED BY <1>7, <1>8

LEMMA FiredOK ==
  ASSUME Inv, NEW f \in Firing, fires' = Append(fires, f)
  PROVE  /\ fires' \in Seq(Firing) /\ Len(fires') = Len(fires) + 1 /\ Len(fires) \in Nat
         /\ fires'[Len(fires) + 1] = f
         /\ \A i \in 1..Len(fires) : fires'[i] = fires[i] /\ fires[i] \in Firing
BY DEF Inv, Schedule

LEMMA DispatchOK ==
  ASSUME Inv, NEW b \in Beats, BeatDispatch(b)
  PROVE  Schedule'
<1>1. PICK d \in beat[b].due, q \in Tick, f \in Firing :
           /\ beat' = [beat EXCEPT ![b] = q]
           /\ q.now <= clock /\ q.pc # "commit" /\ q.due \subseteq beat[b].due \ {d}
           /\ q.due = {} \/ q.now = beat[b].now
           /\ f.monitor = d.monitor /\ f.due = d.due /\ d.due <= clock
           /\ fires' = Append(fires, f)
  BY Dispatched
<1>2. TickOK(q)
  <2>1. CASE q.due = {}
    BY <2>1 DEF TickOK
  <2>2. CASE q.now = beat[b].now
    BY <1>1, <2>2 DEF TickOK, Inv, Schedule
  <2> QED BY <1>1, <2>1, <2>2
<1>3. \A i \in 1..Len(fires') : fires'[i].due <= clock
  <2>1. \A i \in 1..Len(fires) : fires[i].due <= clock
    BY DEF Inv, Schedule
  <2>2. 1..Len(fires') = 1..Len(fires) \cup {Len(fires) + 1}
    BY <1>1, FiredOK
  <2> QED BY <1>1, <2>1, <2>2, FiredOK
<1>4. /\ beat' \in [Beats -> Tick]
      /\ \A c \in Beats : TickOK(beat'[c]) /\ beat'[c].now <= clock
  BY <1>1, <1>2 DEF Inv, Schedule
<1>5. UNCHANGED <<clock, monitor, started, lock>>
  BY DEF BeatDispatch
<1> QED BY <1>1, <1>3, <1>4, <1>5, FiredOK DEF Inv, Schedule, Exists, TickOK

\* A task is delivered again: the history has its due time once more.
LEMMA Redelivered ==
  ASSUME Inv, NEW k \in queue, Redeliver(k)
  PROVE  \E f \in Firing, i \in 1..Len(fires) :
           /\ fires' = Append(fires, f) /\ f.again
           /\ f.monitor = fires[i].monitor /\ f.due = fires[i].due
<1>1. PICK i \in 1..Len(fires) : i = k.no
  BY DEF Inv, Types, Task
<1>2. PICK f : f = [fires[i] EXCEPT !.again = TRUE]
  OBVIOUS
<1>3. fires[i] \in Firing
  BY DEF Inv, Schedule
<1>4. f \in Firing /\ f.again /\ f.monitor = fires[i].monitor /\ f.due = fires[i].due
  BY <1>2, <1>3 DEF Firing
<1> QED BY <1>1, <1>2, <1>4 DEF Redeliver

LEMMA RedeliverOK ==
  ASSUME Inv, NEW k \in queue, Redeliver(k)
  PROVE  Schedule'
<1>1. PICK f \in Firing, i \in 1..Len(fires) :
        fires' = Append(fires, f) /\ f.due = fires[i].due
  BY Redelivered
<1>2. \A j \in 1..Len(fires') : fires'[j].due <= clock
  <2>1. \A j \in 1..Len(fires) : fires[j].due <= clock
    BY DEF Inv, Schedule
  <2>2. 1..Len(fires') = 1..Len(fires) \cup {Len(fires) + 1}
    BY <1>1, FiredOK
  <2> QED BY <1>1, <2>1, <2>2, FiredOK
<1>3. UNCHANGED <<clock, monitor, started, lock, beat>>
  BY DEF Redeliver
<1> QED BY <1>1, <1>2, <1>3, FiredOK DEF Inv, Schedule, Exists, TickOK

-----------------------------------------------------------------------------
(* The schedule under the lock.                                            *)

LEMMA TickTyped ==
  ASSUME Inv, NEW b \in Beats
  PROVE  /\ beat[b] \in Tick /\ beat[b].now \in Nat /\ beat[b].now <= clock /\ clock \in Nat
         /\ \A d \in beat[b].due : /\ d.due \in Nat /\ d.due <= beat[b].now
                                   /\ d.monitor \in Monitors
         /\ \A d, e \in beat[b].due : d.monitor = e.monitor => d = e
BY TimeIsNat DEF Inv, Schedule, Tick, Entry, TickOK

\* No due time was ever taken before it was due.
LEMMA LaterThanNow ==
  ASSUME Inv, NEW m, NEW x \in Int, x > clock
  PROVE  Later(fires, beat, m, x)
<1>1. \A i \in 1..Len(fires) : fires[i].due < x
  <2>1. \A i \in 1..Len(fires) : fires[i] \in Firing /\ fires[i].due <= clock
    BY DEF Inv, Schedule
  <2> QED BY <2>1, TimeIsNat DEF Firing, Inv, Schedule
<1>2. \A b \in Beats : \A d \in beat[b].due : d.due < x
  BY TickTyped
<1> QED BY <1>1, <1>2 DEF Later

LEMMA ExclusiveFrame ==
  ASSUME Inv, Exclusive, UNCHANGED <<monitor, lock, beat, fires>>
  PROVE  Exclusive'
<1>1. \A m, x : Later(fires, beat, m, x) => Later(fires', beat', m, x)
  BY DEF Later
<1>2. Taken'
  BY DEF Exclusive, Taken
<1>3. Locked'
  BY <1>1 DEF Exclusive, Locked
<1> QED BY <1>1, <1>2, <1>3 DEF Exclusive

LEMMA ExclusiveWritten ==
  ASSUME Inv, Exclusive, NEW m \in Monitors, NEW row \in Row, RowWritten(m, row),
         UNCHANGED <<lock, beat, fires>>
  PROVE  Exclusive'
<1>1. \A n, x : Later(fires, beat, n, x) => Later(fires', beat', n, x)
  BY DEF Later
<1>2. Taken'
  BY DEF Exclusive, Taken
<1>3. Locked'
  BY <1>1 DEF Exclusive, Locked
<1>4. ASSUME NEW n \in Monitors, monitor'[n].next # None PROVE Later(fires', beat', n, monitor'[n].next)
  <2>1. CASE n # m \/ row.next = monitor[m].next
    <3>1. monitor'[n].next = monitor[n].next
      BY <2>1 DEF RowWritten, Inv, Schedule
    <3>2. PICK x : x = monitor[n].next
      OBVIOUS
    <3>3. Later(fires, beat, n, x)
      BY <1>4, <3>1, <3>2 DEF Exclusive
    <3> QED BY <1>1, <3>1, <3>2, <3>3
  <2>2. CASE n = m /\ row.next > clock
    <3>1. PICK x : x = row.next
      OBVIOUS
    <3>2. monitor'[n].next = x
      BY <2>2, <3>1 DEF RowWritten, Inv, Schedule
    <3>3. x \in Nat
      BY <1>4, <3>1, <3>2 DEF Row
    <3>4. Later(fires, beat, n, x)
      BY <2>2, <3>1, <3>3, LaterThanNow
    <3> QED BY <1>1, <3>2, <3>4
  <2>3. row.next # None \/ n # m
    BY <1>4 DEF RowWritten, Inv, Schedule
  <2> QED BY <2>1, <2>2, <2>3 DEF RowWritten
<1> QED BY <1>2, <1>3, <1>4 DEF Exclusive

\* A tick that takes nothing more.
LEMMA LaterStays ==
  ASSUME Inv, NEW b \in Beats, NEW q \in Tick, beat' = [beat EXCEPT ![b] = q], fires' = fires,
         q.pc # "dispatch", NEW m, NEW x, Later(fires, beat, m, x)
  PROVE  Later(fires', beat', m, x)
BY DEF Later, Inv, Schedule

LEMMA TakenStays ==
  ASSUME Inv, Exclusive, NEW b \in Beats, NEW q \in Tick, beat' = [beat EXCEPT ![b] = q],
         fires' = fires, q.pc # "dispatch"
  PROVE  Taken'
<1>1. \A c \in Beats : beat'[c].pc = "dispatch" => c # b /\ beat'[c] = beat[c]
  BY DEF Inv, Schedule
<1> QED BY <1>1 DEF Exclusive, Taken

\* Two ticks are not in their critical sections together.
LEMMA OneCommits ==
  ASSUME Inv, Exclusive, NEW b \in Beats, NEW c \in Beats, beat[b].pc = "commit", beat[c].pc = "commit"
  PROVE  b = c
BY DEF Exclusive, Locked

LEMMA ExclusiveQuiet ==
  ASSUME Inv, Exclusive, NEW b \in Beats, beat' = [beat EXCEPT ![b] = Quiet],
         lock' = lock \/ Release(b), UNCHANGED <<monitor, fires>>
  PROVE  Exclusive'
<1>1. Taken'
  BY QuietOK, TakenStays
<1>2. ASSUME NEW c \in Beats, beat'[c].pc = "commit"
      PROVE  /\ lock' = c
             /\ \A d \in beat'[c].due : Later(fires', beat', d.monitor, d.due)
             /\ \A m \in Monitors : Later(fires', beat', m, beat'[c].now + 1)
  <2>1. c # b /\ beat'[c] = beat[c]
    BY <1>2, QuietOK DEF Inv, Schedule
  <2>2. /\ lock = c
        /\ \A d \in beat[c].due : Later(fires, beat, d.monitor, d.due)
        /\ \A m \in Monitors : Later(fires, beat, m, beat[c].now + 1)
    BY <1>2, <2>1 DEF Exclusive, Locked
  <2>3. lock' = c
    BY <2>1, <2>2 DEF Release
  <2> QED BY <2>1, <2>2, <2>3, QuietOK, LaterStays
<1>3. ASSUME NEW m \in Monitors, monitor'[m].next # None PROVE Later(fires', beat', m, monitor'[m].next)
  BY <1>3, QuietOK, LaterStays DEF Exclusive
<1> QED BY <1>1, <1>2, <1>3 DEF Exclusive, Locked

LEMMA ExclusiveBegin ==
  ASSUME Inv, Exclusive, NEW b \in Beats, BeatBegin(b)
  PROVE  Exclusive'
<1>1. PICK q : q = Found
  OBVIOUS
<1>2. /\ q \in Tick /\ q.pc = "commit" /\ q.now = clock /\ clock \in Nat
      /\ \A d \in q.due : /\ d.monitor \in Monitors /\ monitor[d.monitor].next # None
                          /\ monitor[d.monitor].next = d.due
  BY <1>1, FoundOK, TimeIsNat DEF Inv, Schedule
<1>3. beat' = [beat EXCEPT ![b] = q] /\ lock' = b /\ UNCHANGED <<monitor, fires>> /\ lock = None
  BY <1>1 DEF BeatBegin, Watch
<1>4. Taken'
  BY <1>2, <1>3, TakenStays
<1>5. \A m, x : Later(fires, beat, m, x) => Later(fires', beat', m, x)
  BY <1>2, <1>3, LaterStays
<1>6. \A c \in Beats : beat[c].pc # "commit"
  BY <1>3, MonitorAssumption DEF Exclusive, Locked
<1>7. beat'[b] = q /\ \A c \in Beats : c # b => beat'[c] = beat[c]
  BY <1>3 DEF Inv, Schedule
<1>8. /\ \A d \in q.due : Later(fires, beat, d.monitor, d.due)
      /\ \A m \in Monitors : Later(fires, beat, m, q.now + 1)
  <2>1. q.now + 1 \in Int /\ q.now + 1 > clock
    BY <1>2
  <2> QED BY <1>2, <2>1, LaterThanNow DEF Exclusive
<1>9. Locked'
  <2>1. ASSUME NEW c \in Beats, beat'[c].pc = "commit" PROVE c = b
    BY <1>6, <1>7, <2>1
  <2> QED BY <1>3, <1>5, <1>7, <1>8, <2>1 DEF Locked
<1>10. ASSUME NEW m \in Monitors, monitor'[m].next # None PROVE Later(fires', beat', m, monitor'[m].next)
  BY <1>3, <1>5, <1>10 DEF Exclusive
<1> QED BY <1>4, <1>9, <1>10 DEF Exclusive

\* The commit: what the tick read is taken, and the next runs are later.
LEMMA ExclusiveCommit ==
  ASSUME Inv, Exclusive, NEW b \in Beats, BeatCommit(b)
  PROVE  Exclusive'
<1>1. PICK q \in Tick : /\ beat' = [beat EXCEPT ![b] = q]
                        /\ q.pc = "dispatch" => q.due = beat[b].due
                        /\ q.pc # "commit"
  BY CommittedTick
<1>2. /\ lock = b /\ beat[b].pc = "commit"
      /\ \A d \in beat[b].due : Later(fires, beat, d.monitor, d.due)
      /\ \A m \in Monitors : Later(fires, beat, m, beat[b].now + 1)
  BY DEF BeatCommit, Exclusive, Locked
<1>3. beat'[b] = q /\ (\A c \in Beats : c # b => beat'[c] = beat[c]) /\ fires' = fires
  BY <1>1 DEF Inv, Schedule, BeatCommit
<1>4. \A c \in Beats : beat'[c].pc # "commit"
  BY <1>1, <1>2, <1>3, OneCommits
<1>5. Taken'
  <2>1. ASSUME NEW c \in Beats, c # b, beat[c].pc = "dispatch",
               NEW d \in beat[b].due, NEW e \in beat[c].due
        PROVE  ~(d.monitor = e.monitor /\ d.due = e.due)
    <3>1. d.due \in Nat /\ Later(fires, beat, d.monitor, d.due)
      BY <1>2, TickTyped
    <3> QED BY <2>1, <3>1 DEF Later
  <2>2. ASSUME NEW d \in beat[b].due, NEW i \in 1..Len(fires)
        PROVE  ~(fires[i].monitor = d.monitor /\ fires[i].due = d.due)
    <3>1. d.due \in Nat /\ Later(fires, beat, d.monitor, d.due)
      BY <1>2, TickTyped
    <3> QED BY <3>1 DEF Later
  <2>3. ASSUME NEW c \in Beats, beat'[c].pc = "dispatch"
        PROVE  \A d \in beat'[c].due, i \in 1..Len(fires') :
                 ~(fires'[i].monitor = d.monitor /\ fires'[i].due = d.due)
    BY <1>1, <1>3, <2>2, <2>3 DEF Exclusive, Taken
  <2>4. ASSUME NEW c \in Beats, NEW a \in Beats, c # a, beat'[c].pc = "dispatch",
               beat'[a].pc = "dispatch", NEW d \in beat'[c].due, NEW e \in beat'[a].due
        PROVE  ~(d.monitor = e.monitor /\ d.due = e.due)
    <3>1. CASE c = b
      BY <1>1, <1>3, <2>1, <2>4, <3>1
    <3>2. CASE a = b
      BY <1>1, <1>3, <2>1, <2>4, <3>2
    <3>3. CASE a # b /\ c # b
      BY <1>3, <2>4, <3>3 DEF Exclusive, Taken
    <3> QED BY <3>1, <3>2, <3>3
  <2>5. \A i, j \in 1..Len(fires') : FiredTwice(fires'[i], fires'[j]) => i = j
    BY <1>3 DEF Exclusive, Taken
  <2> QED BY <2>3, <2>4, <2>5 DEF Taken
<1>6. ASSUME NEW m, NEW x, Later(fires, beat, m, x), \A d \in beat[b].due : d.monitor = m => d.due < x
      PROVE  Later(fires', beat', m, x)
  BY <1>1, <1>3, <1>6 DEF Later
<1>7. ASSUME NEW m \in Monitors, monitor'[m].next # None PROVE Later(fires', beat', m, monitor'[m].next)
  <2>1. CASE monitor'[m] = monitor[m] /\ ~\E d \in beat[b].due : d.monitor = m
    <3>1. Later(fires, beat, m, monitor[m].next)
      BY <1>7, <2>1 DEF Exclusive
    <3> QED BY <1>6, <2>1, <3>1
  <2>2. ASSUME NEW n \in Nat, n > beat[b].now, monitor'[m] = [monitor[m] EXCEPT !.next = n]
        PROVE  Later(fires', beat', m, monitor'[m].next)
    <3>1. monitor'[m].next = n
      BY <2>2, RowTyped DEF Row
    <3>2. n >= beat[b].now + 1 /\ \A d \in beat[b].due : d.due < n
      BY <2>2, TickTyped
    <3>3. Later(fires, beat, m, n)
      <4>1. Later(fires, beat, m, beat[b].now + 1)
        BY <1>2
      <4>2. \A i \in 1..Len(fires) : fires[i] \in Firing
        BY DEF Inv, Schedule
      <4>3. \A i \in 1..Len(fires) : fires[i].due \in Nat
        BY <4>2 DEF Firing
      <4>4. \A c \in Beats : \A d \in beat[c].due : d.due \in Nat
        BY TickTyped
      <4> QED BY <3>2, <4>1, <4>3, <4>4, TickTyped DEF Later
    <3> QED BY <1>6, <3>1, <3>2, <3>3
  <2> QED BY <1>7, <2>1, <2>2, Rescheduled
<1> QED BY <1>4, <1>5, <1>7 DEF Exclusive, Locked

\* The dispatch moves a due time from the list to the history.
LEMMA ExclusiveDispatch ==
  ASSUME Inv, Exclusive, NEW b \in Beats, BeatDispatch(b)
  PROVE  Exclusive'
<1>1. PICK d \in beat[b].due, q \in Tick, f \in Firing :
           /\ beat[b].pc = "dispatch" /\ beat' = [beat EXCEPT ![b] = q]
           /\ q.now <= clock /\ q.pc # "commit" /\ q.due \subseteq beat[b].due \ {d}
           /\ f.monitor = d.monitor /\ f.due = d.due
           /\ fires' = Append(fires, f)
  BY Dispatched
<1>2. beat'[b] = q /\ (\A c \in Beats : c # b => beat'[c] = beat[c]) /\ UNCHANGED <<monitor, lock>>
  BY <1>1 DEF Inv, Schedule, BeatDispatch
<1>3. PICK n \in Nat : n = Len(fires)
  BY <1>1, FiredOK
<1>4. /\ Len(fires') = n + 1 /\ 1..Len(fires') = 1..n \cup {n + 1}
      /\ fires'[n + 1] = f /\ \A i \in 1..n : fires'[i] = fires[i] /\ fires[i] \in Firing
  BY <1>1, <1>3, FiredOK
<1>5. ASSUME NEW m, NEW x, Later(fires, beat, m, x) PROVE Later(fires', beat', m, x)
  <2>1. d.monitor = m => d.due < x
    BY <1>1, <1>5 DEF Later
  <2>2. \A i \in 1..Len(fires') : fires'[i].monitor = m => fires'[i].due < x
    BY <1>1, <1>3, <1>4, <1>5, <2>1 DEF Later
  <2>3. \A c \in Beats : beat'[c].pc = "dispatch" =>
          \A e \in beat'[c].due : e.monitor = m => e.due < x
    BY <1>1, <1>2, <1>5 DEF Later
  <2> QED BY <2>2, <2>3 DEF Later
<1>6. \A i \in 1..n : ~(fires[i].monitor = d.monitor /\ fires[i].due = d.due)
  BY <1>1, <1>3 DEF Exclusive, Taken
<1>7. \A i, j \in 1..Len(fires') : FiredTwice(fires'[i], fires'[j]) => i = j
  BY <1>1, <1>3, <1>4, <1>6 DEF Exclusive, Taken, FiredTwice
<1>8. ASSUME NEW c \in Beats, beat'[c].pc = "dispatch", NEW e \in beat'[c].due, NEW i \in 1..Len(fires')
      PROVE  ~(fires'[i].monitor = e.monitor /\ fires'[i].due = e.due)
  <2>1. beat[c].pc = "dispatch" /\ e \in beat[c].due
    BY <1>1, <1>2, <1>8
  <2>2. CASE i \in 1..n
    BY <1>3, <1>4, <2>1, <2>2 DEF Exclusive, Taken
  <2>3. CASE i = n + 1
    <3>1. CASE c = b
      BY <1>1, <1>2, <1>4, <1>8, <2>3, <3>1, TickTyped
    <3>2. CASE c # b
      BY <1>1, <1>4, <2>1, <2>3, <3>2 DEF Exclusive, Taken
    <3> QED BY <3>1, <3>2
  <2> QED BY <1>4, <2>2, <2>3
<1>9. \A a, c \in Beats : a # c /\ beat'[a].pc = "dispatch" /\ beat'[c].pc = "dispatch" =>
        \A g \in beat'[a].due, e \in beat'[c].due : ~(g.monitor = e.monitor /\ g.due = e.due)
  <2>1. \A c \in Beats : beat'[c].pc = "dispatch" =>
          beat[c].pc = "dispatch" /\ beat'[c].due \subseteq beat[c].due
    BY <1>1, <1>2
  <2> QED BY <2>1 DEF Exclusive, Taken
<1>10. Taken'
  BY <1>7, <1>8, <1>9 DEF Taken
<1>11. Locked'
  <2>1. ASSUME NEW c \in Beats, beat'[c].pc = "commit" PROVE beat'[c] = beat[c]
    BY <1>1, <1>2, <2>1
  <2> QED BY <1>2, <1>5, <2>1 DEF Exclusive, Locked
<1>12. \A m \in Monitors : monitor'[m].next # None => Later(fires', beat', m, monitor'[m].next)
  BY <1>2, <1>5 DEF Exclusive
<1> QED BY <1>10, <1>11, <1>12 DEF Exclusive

\* A delivery that is repeated takes no due time that was not taken.
LEMMA ExclusiveRedeliver ==
  ASSUME Inv, Exclusive, NEW k \in queue, Redeliver(k)
  PROVE  Exclusive'
<1>1. PICK f \in Firing, o \in 1..Len(fires) :
        /\ fires' = Append(fires, f) /\ f.again
        /\ f.monitor = fires[o].monitor /\ f.due = fires[o].due
  BY Redelivered
<1>2. UNCHANGED <<monitor, lock, beat>>
  BY DEF Redeliver
<1>3. PICK n \in Nat : n = Len(fires)
  BY <1>1, FiredOK
<1>4. /\ Len(fires') = n + 1 /\ 1..Len(fires') = 1..n \cup {n + 1} /\ o \in 1..n
      /\ fires'[n + 1] = f /\ \A i \in 1..n : fires'[i] = fires[i]
  BY <1>1, <1>3, FiredOK
<1>5. ASSUME NEW m, NEW x, Later(fires, beat, m, x) PROVE Later(fires', beat', m, x)
  <2>1. \A i \in 1..Len(fires') : fires'[i].monitor = m => fires'[i].due < x
    BY <1>1, <1>3, <1>4, <1>5 DEF Later
  <2> QED BY <1>2, <1>5, <2>1 DEF Later
<1>6. \A i, j \in 1..Len(fires') : FiredTwice(fires'[i], fires'[j]) => i = j
  BY <1>1, <1>3, <1>4 DEF Exclusive, Taken, FiredTwice
<1>7. ASSUME NEW c \in Beats, beat'[c].pc = "dispatch", NEW e \in beat'[c].due, NEW i \in 1..Len(fires')
      PROVE  ~(fires'[i].monitor = e.monitor /\ fires'[i].due = e.due)
  BY <1>1, <1>2, <1>3, <1>4, <1>7 DEF Exclusive, Taken
<1>8. Taken'
  BY <1>2, <1>6, <1>7 DEF Exclusive, Taken
<1>9. Locked'
  BY <1>2, <1>5 DEF Exclusive, Locked
<1> QED BY <1>2, <1>5, <1>8, <1>9 DEF Exclusive

\* The lock runs out only after its owner is gone.
LEMMA ExclusiveExpires ==
  ASSUME Inv, Exclusive, "slow" \notin Enabled, LockExpires
  PROVE  Exclusive'
<1>1. \A b \in Beats : beat[b].pc # "commit"
  BY DEF LockExpires, Exclusive, Locked
<1>2. UNCHANGED <<monitor, beat, fires>>
  BY DEF LockExpires
<1>3. Taken' /\ Locked'
  BY <1>1, <1>2 DEF Exclusive, Taken, Locked
<1> QED BY <1>2, <1>3 DEF Exclusive

-----------------------------------------------------------------------------
(* Tokens, runs and charges.                                               *)

Spawning == Types /\ OneToken /\ TokensOK /\ RunsOK /\ Charges

LEMMA SpawningFrame ==
  ASSUME Inv, UNCHANGED <<fires, queue, work, runs, charged, stranded, unsure>>
  PROVE  Spawning'
<1>1. Types' /\ OneToken'
  BY DEF Inv, Types, OneToken, Busy, Task, Local, RunIds
<1>2. TokensOK'
  BY DEF Inv, TokensOK, Busy
<1>3. TriggerIds' = TriggerIds
  BY DEF TriggerIds, RunIds
<1>4. RunsOK'
  BY <1>3 DEF Inv, RunsOK
<1>5. Charges'
  BY DEF Inv, Charges, At, Spawned, RunIds
<1> QED BY <1>1, <1>2, <1>4, <1>5 DEF Spawning

LEMMA IdleOK ==
  ASSUME NEW n
  PROVE  Idle \in Local(n) /\ Idle.pc = "idle"
BY DEF Idle, Local

LEMMA WorkTyped ==
  ASSUME Inv, NEW w \in Workers
  PROVE  /\ work[w] \in Local(Len(fires)) /\ Len(fires) \in Nat
         /\ Busy(w) => /\ work[w].task \in Task(Len(fires)) /\ work[w].task \in RunId
                       /\ work[w].task.no \in 1..Len(fires)
<1>1. Len(fires) \in Nat
  BY DEF Inv, Schedule
<1> QED BY <1>1, MonitorAssumption DEF Inv, Types, Task, RunId

LEMMA RunTyped ==
  ASSUME Inv, NEW r \in runs
  PROVE  /\ r \in Run /\ r.id \in RunId /\ r.published \in BOOLEAN /\ r.id.no \in Nat
         /\ r.id.try \in Nat /\ r.id.no <= Len(fires)
<1>1. Len(fires) \in Nat
  BY DEF Inv, Schedule
<1> QED BY <1>1 DEF Inv, Types, Run, RunId

\* Charges, spelled out for the next state.
LEMMA ChargesFolded ==
  ASSUME \A w \in Workers : work'[w].pc \in {"commit", "publish"} => work'[w].task \in charged',
         \A id \in charged' : \/ \E r \in runs' : r.id = id
                              \/ id \in stranded'
                              \/ \E w \in Workers : work'[w].pc = "commit" /\ work'[w].task = id,
         \A r \in runs' : r.published => r.id \in charged' \/ (r.id.no = 0 /\ r.id \in unsure')
  PROVE  Charges'
BY DEF Charges, At, Spawned, RunIds

LEMMA ChargesUnfolded ==
  ASSUME Inv
  PROVE  /\ \A w \in Workers : work[w].pc \in {"commit", "publish"} => work[w].task \in charged
         /\ \A id \in charged : \/ \E r \in runs : r.id = id
                                \/ id \in stranded
                                \/ \E w \in Workers : work[w].pc = "commit" /\ work[w].task = id
         /\ \A r \in runs : r.published => r.id \in charged \/ (r.id.no = 0 /\ r.id \in unsure)
         /\ charged \subseteq RunId /\ stranded \subseteq RunId
         /\ \A id \in unsure : \E r \in runs : r.id = id
BY DEF Inv, Charges, At, Spawned, RunIds, Types

\* What a step may do to the run with the id k: add it, or publish it.
RunWritten(k) ==
  /\ \A q \in runs' : q \in Run /\ (q \in runs \/ q.id = k)
  /\ \A r \in runs : \E q \in runs' : q.id = r.id
  /\ \A p, q \in runs' : p.id = q.id => p = q
  /\ unsure \subseteq unsure' /\ \A id \in unsure' : \E q \in runs' : q.id = id

LEMMA RunUnwritten ==
  ASSUME Inv, NEW k, UNCHANGED <<runs, unsure>>
  PROVE  RunWritten(k)
BY RunTyped, ChargesUnfolded DEF RunWritten, Inv, RunsOK

\* The ids of triggered runs stay when a scheduled one is written.
LEMMA SameTriggers ==
  ASSUME Inv, NEW k \in RunId, k.no # 0, RunWritten(k), stranded' = stranded \/ stranded' = stranded \cup {k}
  PROVE  TriggerIds' = TriggerIds
<1>1. ASSUME NEW id \in TriggerIds' PROVE id \in TriggerIds
  BY DEF TriggerIds, RunIds, RunWritten
<1>2. ASSUME NEW id \in TriggerIds PROVE id \in TriggerIds'
  <2>1. id.no = 0 /\ (id \in stranded \/ \E r \in runs : r.id = id)
    BY DEF TriggerIds, RunIds
  <2>2. id \in stranded' \/ \E r \in runs' : r.id = id
    BY <2>1 DEF RunWritten
  <2> QED BY <2>1, <2>2 DEF TriggerIds, RunIds
<1> QED BY <1>1, <1>2

\* An execution goes on with its task or drops it.  While it keeps the task, the run of
\* this attempt is published only if publishing raised; before the commit there is none.
LEMMA ExecutionStep ==
  ASSUME Inv, NEW w \in Workers, Busy(w), NEW x \in Local(Len(fires)),
         x.pc = "idle" \/ x.task = work[w].task,
         x.pc \in {"spawn", "commit"} => work[w].pc \in {"spawn", "commit"} /\ UNCHANGED runs,
         work' = [work EXCEPT ![w] = x], UNCHANGED <<fires, queue>>,
         RunWritten(work[w].task),
         x.pc = "publish" => \E q \in runs' : q.id = work[w].task,
         x.pc # "idle" => \A q \in runs' : q.id = work[w].task /\ q.published => q.id \in unsure',
         stranded' = stranded \/ stranded' = stranded \cup {work[w].task},
         charged' \subseteq RunId
  PROVE  Types' /\ OneToken' /\ TokensOK' /\ RunsOK'
<1>0. PICK k \in RunId : k = work[w].task /\ k.no \in 1..Len(fires) /\ Len(fires) \in Nat /\ k.no # 0
  BY WorkTyped
<1>1. /\ work'[w] = x /\ (\A v \in Workers : v # w => work'[v] = work[v])
      /\ work' \in [Workers -> Local(Len(fires))]
  BY DEF Inv, Types
<1>2. ASSUME NEW v \in Workers, work'[v].pc # "idle"
      PROVE  Busy(v) /\ work'[v].task = work[v].task /\ (v = w => x.pc # "idle")
  BY <1>1, <1>2 DEF Busy
<1>3. Types'
  <2>1. /\ queue' \subseteq Task(Len(fires')) /\ work' \in [Workers -> Local(Len(fires'))]
        /\ \A v \in Workers : work'[v].pc # "idle" => work'[v].task \in Task(Len(fires'))
    BY <1>1, <1>2 DEF Inv, Types
  <2>2. runs' \subseteq Run /\ \A r \in runs' : r.id.no \in 0..Len(fires')
    BY <1>0 DEF RunWritten, Inv, Types
  <2>3. stranded' \subseteq RunId /\ unsure' \subseteq RunIds'
    BY <1>0 DEF RunWritten, Inv, Types, RunIds
  <2> QED BY <2>1, <2>2, <2>3 DEF Types, Busy
<1>4. OneToken'
  BY <1>2 DEF Inv, OneToken, Busy
<1>5. ASSUME NEW l, l.no # k.no
      PROVE  /\ Open(runs, unsure, l) => Open(runs', unsure', l)
             /\ Fresh(runs, l) => Fresh(runs', l)
  BY <1>0, <1>5 DEF Open, Fresh, RunWritten
<1>6. \A l \in queue : l.no # k.no
  BY <1>0 DEF Inv, OneToken
<1>7. \A v \in Workers : v # w /\ Busy(v) => work[v].task.no # k.no
  BY <1>0 DEF Inv, OneToken
<1>8. x.pc # "idle" => Open(runs', unsure', k)
  <2> SUFFICES ASSUME x.pc # "idle", NEW q \in runs', q.id.no = k.no
               PROVE  (q.published => q.id \in unsure') /\ q.id.try <= k.try
    BY DEF Open
  <2>1. CASE q.id = k
    BY <1>0, <2>1 DEF RunId
  <2>2. CASE q.id # k
    BY <1>0, <2>2 DEF RunWritten, Inv, TokensOK, Open
  <2> QED BY <2>1, <2>2
<1>9. TokensOK'
  <2>1. \A l \in queue' : Open(runs', unsure', l) /\ Fresh(runs', l)
    BY <1>5, <1>6 DEF Inv, TokensOK
  <2>2. \A v \in Workers : work'[v].pc # "idle" => Open(runs', unsure', work'[v].task)
    <3> TAKE v \in Workers
    <3> HAVE work'[v].pc # "idle"
    <3>1. CASE v = w
      BY <1>0, <1>2, <1>8, <3>1
    <3>2. CASE v # w
      BY <1>2, <1>5, <1>7, <3>2 DEF Inv, TokensOK
    <3> QED BY <3>1, <3>2
  <2>3. \A v \in Workers : work'[v].pc \in {"spawn", "commit"} => Fresh(runs', work'[v].task)
    <3> TAKE v \in Workers
    <3> HAVE work'[v].pc \in {"spawn", "commit"}
    <3>0. Busy(v) /\ work'[v].task = work[v].task
      BY <1>2
    <3>1. CASE v = w
      BY <1>1, <3>0, <3>1 DEF Inv, TokensOK
    <3>2. CASE v # w
      BY <1>1, <1>5, <1>7, <3>0, <3>2 DEF Inv, TokensOK
    <3> QED BY <3>1, <3>2
  <2>4. \A v \in Workers : work'[v].pc = "publish" => \E r \in runs' : r.id = work'[v].task
    <3> TAKE v \in Workers
    <3> HAVE work'[v].pc = "publish"
    <3>1. CASE v = w
      BY <1>1, <3>1
    <3>2. CASE v # w
      BY <1>1, <3>2 DEF Inv, TokensOK, RunWritten
    <3> QED BY <3>1, <3>2
  <2> QED BY <2>1, <2>2, <2>3, <2>4 DEF TokensOK, Busy
<1>10. RunsOK'
  <2>1. TriggerIds' = TriggerIds
    BY <1>0, SameTriggers
  <2>2. ASSUME NEW p \in runs', NEW q \in runs', p.id.no > 0, p.id.no = q.id.no,
               p.published, q.published
        PROVE  p = q \/ p.id \in unsure' \/ q.id \in unsure'
    <3>1. CASE p.id = k /\ q.id = k
      BY <3>1 DEF RunWritten
    <3>2. CASE p.id # k /\ q.id # k
      BY <1>0, <2>2, <3>2 DEF RunWritten, Inv, RunsOK
    <3>3. ASSUME NEW s \in runs', s.id # k, s.id.no = k.no, s.published PROVE s.id \in unsure'
      BY <1>0, <3>3 DEF RunWritten, Inv, TokensOK, Open
    <3> QED BY <2>2, <3>1, <3>2, <3>3
  <2>3. \A p, q \in runs' : p.id = q.id => p = q
    BY DEF RunWritten
  <2> QED BY <2>1, <2>2, <2>3 DEF Inv, RunsOK
<1> QED BY <1>3, <1>4, <1>9, <1>10

\* The units of the attempt are counted, given back, or left as they are.
LEMMA ChargeStep ==
  ASSUME Inv, NEW w \in Workers, Busy(w), NEW x,
         x.pc = "idle" \/ x.task = work[w].task,
         work' = [work EXCEPT ![w] = x], RunWritten(work[w].task),
         stranded \subseteq stranded',
         \A id : id # work[w].task => (id \in charged' <=> id \in charged),
         x.pc \in {"commit", "publish"} => work[w].task \in charged',
         work[w].task \in charged' => \/ \E q \in runs' : q.id = work[w].task
                                      \/ work[w].task \in stranded'
                                      \/ x.pc = "commit",
         \A q \in runs' : q.id = work[w].task /\ q.published => q.id \in charged'
  PROVE  Charges' /\ charged' \subseteq RunId
<1>0. PICK k \in RunId : k = work[w].task
  BY WorkTyped
<1>1. work'[w] = x /\ \A v \in Workers : v # w => work'[v] = work[v]
  BY DEF Inv, Types
<1>2. \A v \in Workers : v # w /\ Busy(v) => work[v].task # k
  BY <1>0 DEF Inv, OneToken
<1>3. \A v \in Workers : work'[v].pc \in {"commit", "publish"} => work'[v].task \in charged'
  <2> TAKE v \in Workers
  <2> HAVE work'[v].pc \in {"commit", "publish"}
  <2>1. CASE v = w
    BY <1>1, <2>1
  <2>2. CASE v # w
    BY <1>0, <1>1, <1>2, <2>2, ChargesUnfolded DEF Busy
  <2> QED BY <2>1, <2>2
<1>4. ASSUME NEW id \in charged'
      PROVE  \/ \E r \in runs' : r.id = id
             \/ id \in stranded'
             \/ \E v \in Workers : work'[v].pc = "commit" /\ work'[v].task = id
  <2>1. CASE id = k
    BY <1>0, <1>1, <1>4, <2>1
  <2>2. CASE id # k
    <3>1. id \in charged
      BY <1>0, <1>4, <2>2
    <3>2. CASE id \in stranded \/ \E r \in runs : r.id = id
      BY <3>2 DEF RunWritten
    <3>3. CASE \E v \in Workers : work[v].pc = "commit" /\ work[v].task = id
      BY <1>0, <1>1, <2>2, <3>3
    <3> QED BY <3>1, <3>2, <3>3, ChargesUnfolded
  <2> QED BY <2>1, <2>2
<1>5. ASSUME NEW r \in runs', r.published
      PROVE  r.id \in charged' \/ (r.id.no = 0 /\ r.id \in unsure')
  <2>1. CASE r.id = k
    BY <1>0, <1>5, <2>1
  <2>2. CASE r.id # k
    BY <1>0, <1>5, <2>2, ChargesUnfolded DEF RunWritten
  <2> QED BY <2>1, <2>2
<1>6. charged' \subseteq RunId
  BY <1>0, ChargesUnfolded
<1> QED BY <1>3, <1>4, <1>5, <1>6, ChargesFolded

\* Before the commit the attempt has no run.
LEMMA NoRunYet ==
  ASSUME Inv, NEW w \in Workers, work[w].pc \in {"spawn", "commit"}
  PROVE  \A r \in runs : r.id # work[w].task
<1>1. Busy(w) /\ Fresh(runs, work[w].task) /\ work[w].task \in RunId
  BY WorkTyped DEF Inv, TokensOK, Busy
<1>2. \A r \in runs : r.id.try \in Nat
  BY RunTyped
<1> QED BY <1>1, <1>2 DEF Fresh, RunId

\* A worker leaves its task, or will retry it; no units of it wait for a commit.
LEMMA UnchargedStep ==
  ASSUME Inv, NEW w \in Workers, Busy(w), NEW x \in Local(Len(fires)),
         x.pc = "idle" \/ (x.task = work[w].task /\ x.pc = "retry"),
         work[w].pc # "commit", work' = [work EXCEPT ![w] = x],
         UNCHANGED <<fires, queue, runs, charged, stranded, unsure>>
  PROVE  Spawning'
<1>1. PICK k \in RunId : k = work[w].task /\ k.no # 0
  BY WorkTyped
<1>2. RunWritten(k)
  BY RunUnwritten
<1>3. \A q \in runs : q.id = k /\ q.published => q.id \in unsure /\ q.id \in charged
  BY <1>1, ChargesUnfolded DEF Inv, TokensOK, Open
<1>4. k \in charged => (\E q \in runs : q.id = k) \/ k \in stranded
  <2>1. \A v \in Workers : work[v].pc = "commit" => work[v].task # k
    BY <1>1 DEF Inv, OneToken, Busy
  <2> QED BY <2>1, ChargesUnfolded
<1>5. Charges' /\ charged' \subseteq RunId
  BY <1>1, <1>2, <1>3, <1>4, ChargeStep
<1>6. Types' /\ OneToken' /\ TokensOK' /\ RunsOK'
  BY <1>1, <1>2, <1>3, <1>5, ExecutionStep
<1> QED BY <1>5, <1>6 DEF Spawning

LEMMA MonitorOfOK ==
  ASSUME Inv, NEW w \in Workers, Busy(w)
  PROVE  MonitorOf(w) \in Monitors
<1>1. PICK i \in 1..Len(fires) : i = work[w].task.no
  BY WorkTyped
<1>2. fires[i] \in Firing
  BY DEF Inv, Schedule
<1> QED BY <1>1, <1>2 DEF MonitorOf, Firing

\* The commit inserts the run of the attempt, not yet published.
LEMMA InsertOK ==
  ASSUME Inv, NEW w \in Workers, work[w].pc = "commit", Insert(w), unsure' = unsure
  PROVE  /\ RunWritten(work[w].task) /\ \E q \in runs' : q.id = work[w].task
         /\ \A q \in runs' : q.id = work[w].task => q.published = FALSE
<1>0. Busy(w)
  BY DEF Busy
<1>1. PICK k \in RunId : k = work[w].task
  BY <1>0, WorkTyped
<1>2. PICK r : r = [id |-> k, monitor |-> MonitorOf(w), targets |-> work[w].targets, published |-> FALSE]
  OBVIOUS
<1>3. r \in Run /\ r.id = k /\ r.published = FALSE
  <2>1. work[w].targets \in SUBSET Traces
    BY WorkTyped DEF Local
  <2> QED BY <1>0, <1>2, <2>1, MonitorOfOK DEF Run
<1>4. runs' = runs \cup {r}
  BY <1>1, <1>2 DEF Insert, Spawned
<1>5. \A q \in runs : q.id # k /\ q \in Run
  BY <1>1, NoRunYet, RunTyped
<1>6. \A p, q \in runs' : p.id = q.id => p = q
  BY <1>3, <1>4, <1>5 DEF Inv, RunsOK
<1>7. RunWritten(k)
  BY <1>3, <1>4, <1>5, <1>6, ChargesUnfolded DEF RunWritten
<1> QED BY <1>1, <1>3, <1>4, <1>5, <1>7

\* A commit that raises: the run is there or not, the units are given back or not.
LEMMA AbortOK ==
  ASSUME Inv, NEW w \in Workers, work[w].pc = "commit", NEW x \in Local(Len(fires)),
         x.pc = "idle" \/ (x.task = work[w].task /\ x.pc = "retry"),
         work' = [work EXCEPT ![w] = x], InsertUnsure(w), UNCHANGED <<fires, queue, unsure>>,
         RollbackIncrement(Spawned(w)) \/ Strand(Spawned(w))
  PROVE  Spawning'
<1>0. Busy(w)
  BY DEF Busy
<1>1. PICK k \in RunId : k = work[w].task
  BY <1>0, WorkTyped
<1>2. RunWritten(k) /\ \A q \in runs' : q.id = k => ~q.published
  <2>1. CASE UNCHANGED <<runs, monitor>>
    BY <1>1, <2>1, NoRunYet, RunUnwritten
  <2>2. CASE Insert(w)
    BY <1>1, <2>2, InsertOK
  <2> QED BY <2>1, <2>2 DEF InsertUnsure
<1>3. \/ charged' = charged \ {k} /\ stranded' = stranded
      \/ charged' = charged /\ stranded' = stranded \cup {k}
  BY <1>1 DEF RollbackIncrement, Strand, Spawned
<1>4. Charges' /\ charged' \subseteq RunId
  BY <1>0, <1>1, <1>2, <1>3, ChargeStep
<1>5. Types' /\ OneToken' /\ TokensOK' /\ RunsOK'
  BY <1>0, <1>1, <1>2, <1>3, <1>4, ExecutionStep
<1> QED BY <1>4, <1>5 DEF Spawning

\* The commit: the run is there, not yet published, and was paid for.
LEMMA CommitOK ==
  ASSUME Inv, NEW w \in Workers, CommitRun(w)
  PROVE  Spawning'
<1>0. /\ Busy(w) /\ work[w].pc = "commit" /\ Insert(w)
      /\ UNCHANGED <<fires, queue, charged, stranded, unsure>>
  BY DEF CommitRun, At, Busy, schedule, histories
<1>1. PICK k \in RunId : k = work[w].task
  BY <1>0, WorkTyped
<1>2. PICK x : x = [work[w] EXCEPT !.pc = "publish"]
  OBVIOUS
<1>3. x \in Local(Len(fires)) /\ x.pc = "publish" /\ x.task = k /\ work' = [work EXCEPT ![w] = x]
  BY <1>1, <1>2, WorkTyped DEF Local, CommitRun, Goto, Become
<1>4. RunWritten(k) /\ (\E q \in runs' : q.id = k) /\ \A q \in runs' : q.id = k => ~q.published
  BY <1>0, <1>1, InsertOK
<1>5. k \in charged
  BY <1>0, <1>1, ChargesUnfolded
<1>6. Charges' /\ charged' \subseteq RunId
  BY <1>0, <1>1, <1>3, <1>4, <1>5, ChargeStep
<1>7. Types' /\ OneToken' /\ TokensOK' /\ RunsOK'
  BY <1>0, <1>1, <1>3, <1>4, <1>6, ExecutionStep
<1> QED BY <1>6, <1>7 DEF Spawning

\* Publishing changes no run but the one with the id.
LEMMA PublishedIs ==
  ASSUME Inv, NEW id
  PROVE  /\ \A q \in Published(id) :
              \E r \in runs : /\ q \in Run /\ q.id = r.id
                              /\ q = r \/ (r.id = id /\ q.published = TRUE)
         /\ \A r \in runs : r.id # id => r \in Published(id)
         /\ \A r \in runs : \E q \in Published(id) : q.id = r.id
         /\ \A p, q \in Published(id) : p.id = q.id => p = q
<1>1. ASSUME NEW r \in runs, NEW q, q = [r EXCEPT !.published = @ \/ r.id = id]
      PROVE  q \in Run /\ q.id = r.id /\ (r.id # id => q = r) /\ (r.id = id => q.published = TRUE)
  <2>1. PICK b \in BOOLEAN : b = (r.published \/ r.id = id)
    OBVIOUS
  <2>2. q = [r EXCEPT !.published = b]
    BY <1>1, <2>1
  <2>3. q \in Run /\ q.id = r.id /\ q.published = b
    BY <2>2, RunTyped DEF Run
  <2>4. r.id # id => q = r
    <3>1. r.id # id => b = r.published
      BY <2>1, RunTyped
    <3> QED BY <2>2, <3>1, RunTyped DEF Run
  <2> QED BY <2>1, <2>3, <2>4
<1>2. \A p, q \in Published(id) : p.id = q.id => p = q
  <2> SUFFICES ASSUME NEW p \in Published(id), NEW q \in Published(id), p.id = q.id PROVE p = q
    OBVIOUS
  <2>1. PICK r \in runs : p = [r EXCEPT !.published = @ \/ r.id = id]
    BY DEF Published
  <2>2. PICK s \in runs : q = [s EXCEPT !.published = @ \/ s.id = id]
    BY DEF Published
  <2>3. r.id = s.id
    BY <1>1, <2>1, <2>2
  <2>4. r = s
    BY <2>3 DEF Inv, RunsOK
  <2> QED BY <2>1, <2>2, <2>4
<1>3. ASSUME NEW r \in runs PROVE \E q \in Published(id) : q.id = r.id /\ (r.id # id => q = r)
  <2>1. PICK q : q = [r EXCEPT !.published = @ \/ r.id = id]
    OBVIOUS
  <2>2. q \in Published(id)
    BY <2>1 DEF Published
  <2>3. q.id = r.id /\ (r.id # id => q = r)
    BY <1>1, <2>1
  <2> QED BY <2>2, <2>3
<1>4. ASSUME NEW q \in Published(id)
      PROVE  \E r \in runs : /\ q \in Run /\ q.id = r.id
                             /\ q = r \/ (r.id = id /\ q.published = TRUE)
  <2>1. PICK r \in runs : q = [r EXCEPT !.published = @ \/ r.id = id]
    BY DEF Published
  <2> QED BY <1>1, <2>1
<1> QED BY <1>2, <1>3, <1>4

LEMMA PublishedWrites ==
  ASSUME Inv, NEW id, runs' = Published(id), unsure' = unsure \/ unsure' = unsure \cup {id},
         \E r \in runs : r.id = id
  PROVE  RunWritten(id)
<1>1. PICK P : P = Published(id)
  OBVIOUS
<1>2. /\ \A q \in P : \E r \in runs : /\ q \in Run /\ q.id = r.id
                                      /\ q = r \/ (r.id = id /\ q.published = TRUE)
      /\ \A r \in runs : \E q \in P : q.id = r.id
      /\ \A p, q \in P : p.id = q.id => p = q
  BY <1>1, PublishedIs
<1>3. \A q \in P : q \in Run /\ (q \in runs \/ q.id = id)
  BY <1>2
<1>4. \A i \in unsure' : \E q \in P : q.id = i
  BY <1>2, ChargesUnfolded
<1> QED BY <1>1, <1>2, <1>3, <1>4 DEF RunWritten

\* The run is published, and the token goes, or is kept for a retry when the broker raised.
LEMMA PublishStep ==
  ASSUME Inv, NEW w \in Workers, work[w].pc = "publish", NEW x \in Local(Len(fires)),
         work' = [work EXCEPT ![w] = x], runs' = Published(Spawned(w)),
         \/ x.pc = "idle" /\ unsure' = unsure
         \/ x.pc = "retry" /\ x.task = work[w].task /\ unsure' = unsure \cup {Spawned(w)},
         UNCHANGED <<fires, queue, charged, stranded>>
  PROVE  Spawning'
<1>0. Busy(w)
  BY DEF Busy
<1>1. PICK k \in RunId : k = work[w].task
  BY <1>0, WorkTyped
<1>2. \E r \in runs : r.id = k
  BY <1>1 DEF Inv, TokensOK, RunIds
<1>3. RunWritten(k) /\ k \in charged
  BY <1>1, <1>2, ChargesUnfolded, PublishedWrites DEF Spawned
<1>4. \E q \in runs' : q.id = k
  BY <1>2, <1>3 DEF RunWritten
<1>5. Charges' /\ charged' \subseteq RunId
  BY <1>0, <1>1, <1>3, <1>4, ChargeStep
<1>6. Types' /\ OneToken' /\ TokensOK' /\ RunsOK'
  BY <1>0, <1>1, <1>3, <1>5, ExecutionStep DEF Spawned
<1> QED BY <1>5, <1>6 DEF Spawning

LEMMA PublishOK ==
  ASSUME Inv, NEW w \in Workers, Publish(w)
  PROVE  Spawning'
BY IdleOK, PublishStep DEF Publish, At, Become, schedule, histories

\* The task is taken from the broker, and its token with it, or it ends there.
LEMMA TakeOK ==
  ASSUME Inv, NEW w \in Workers, NEW k \in queue, TakeMonitor(w, k)
  PROVE  Spawning'
<1>1. k \in Task(Len(fires)) /\ Open(runs, unsure, k) /\ Fresh(runs, k)
  BY DEF Inv, Types, TokensOK
<1>2. /\ queue' = queue \ {k} /\ ~Busy(w)
      /\ UNCHANGED <<fires, runs, charged, stranded, unsure>>
  BY DEF TakeMonitor, At, Busy, schedule, histories
<1>3. CASE UNCHANGED work
  <2>1. Types' /\ OneToken'
    BY <1>2, <1>3 DEF Inv, Types, OneToken, Busy, RunIds
  <2>2. TokensOK'
    BY <1>2, <1>3 DEF Inv, TokensOK, Busy
  <2>3. TriggerIds' = TriggerIds
    BY <1>2 DEF TriggerIds, RunIds
  <2>4. RunsOK'
    BY <1>2, <2>3 DEF Inv, RunsOK
  <2>5. Charges'
    BY <1>2, <1>3, ChargesUnfolded, ChargesFolded
  <2> QED BY <2>1, <2>2, <2>4, <2>5 DEF Spawning
<1>4. CASE Become(w, [Idle EXCEPT !.pc = "spawn", !.task = k])
  <2>1. PICK x : x = [Idle EXCEPT !.pc = "spawn", !.task = k]
    OBVIOUS
  <2>2. x \in Local(Len(fires)) /\ x.pc = "spawn" /\ x.task = k
    BY <1>1, <2>1 DEF Idle, Local
  <2>3. work' = [work EXCEPT ![w] = x]
    BY <1>4, <2>1 DEF Become
  <2>4. work'[w] = x /\ \A v \in Workers : v # w => work'[v] = work[v]
    BY <2>3 DEF Inv, Types
  <2>5. work' \in [Workers -> Local(Len(fires))]
    BY <2>2, <2>3 DEF Inv, Types
  <2>6. \A v \in Workers : work'[v].pc # "idle" =>
          (v = w /\ work'[v].task = k) \/ (v # w /\ Busy(v) /\ work'[v] = work[v])
    BY <2>2, <2>4 DEF Busy
  <2>7. Types'
    BY <1>1, <1>2, <2>5, <2>6 DEF Inv, Types, Busy, RunIds
  <2>8. OneToken'
    BY <1>2, <2>6 DEF Inv, OneToken, Busy
  <2>9. TokensOK'
    BY <1>1, <1>2, <2>2, <2>4, <2>6 DEF Inv, TokensOK, Busy
  <2>10. TriggerIds' = TriggerIds
    BY <1>2 DEF TriggerIds, RunIds
  <2>11. RunsOK'
    BY <1>2, <2>10 DEF Inv, RunsOK
  <2>12. \A v \in Workers : work'[v].pc \in {"commit", "publish"} \/ work[v].pc = "commit" => work'[v] = work[v]
    BY <1>2, <2>2, <2>4 DEF Busy
  <2>13. Charges'
    BY <1>2, <2>12, ChargesUnfolded, ChargesFolded
  <2> QED BY <2>7, <2>8, <2>9, <2>11, <2>13 DEF Spawning
<1> QED BY <1>3, <1>4 DEF TakeMonitor

\* The units of the attempt are counted; its run is not committed yet.
LEMMA SpawnOK ==
  ASSUME Inv, NEW w \in Workers, SpawnRun(w)
  PROVE  Spawning'
<1>0. Busy(w) /\ work[w].pc = "spawn" /\ UNCHANGED <<fires, queue, runs, stranded, unsure>>
  BY DEF SpawnRun, At, Busy, schedule, histories
<1>1. CASE Goto(w, "retry") /\ UNCHANGED charged
  <2>1. PICK x : x = [work[w] EXCEPT !.pc = "retry"]
    OBVIOUS
  <2>2. x \in Local(Len(fires)) /\ x.pc = "retry" /\ x.task = work[w].task
    BY <2>1, WorkTyped DEF Local
  <2> QED BY <1>0, <1>1, <2>1, <2>2, UnchargedStep DEF Goto, Become
<1>2. CASE /\ Become(w, [work[w] EXCEPT !.pc = "commit", !.targets = Arrived])
           /\ charged' = charged \cup {Spawned(w)}
  <2>0. PICK k \in RunId : k = work[w].task
    BY <1>0, WorkTyped
  <2>1. PICK x : x = [work[w] EXCEPT !.pc = "commit", !.targets = Arrived]
    OBVIOUS
  <2>2. x \in Local(Len(fires)) /\ x.pc = "commit" /\ x.task = k
    <3>1. Arrived \in SUBSET Traces
      BY DEF Arrived
    <3> QED BY <2>0, <2>1, <3>1, WorkTyped DEF Local
  <2>3. work' = [work EXCEPT ![w] = x] /\ charged' = charged \cup {k}
    BY <1>2, <2>0, <2>1 DEF Become, Spawned
  <2>4. RunWritten(k) /\ \A q \in runs' : q.id # k
    BY <1>0, <2>0, RunUnwritten, NoRunYet
  <2>5. Charges' /\ charged' \subseteq RunId
    BY <1>0, <2>0, <2>2, <2>3, <2>4, ChargeStep
  <2>6. Types' /\ OneToken' /\ TokensOK' /\ RunsOK'
    BY <1>0, <2>0, <2>2, <2>3, <2>4, <2>5, ExecutionStep
  <2> QED BY <2>5, <2>6 DEF Spawning
<1> QED BY <1>1, <1>2 DEF SpawnRun

\* What happens to a worker that neither commits, publishes nor retries.
LEMMA FailsOK ==
  ASSUME Inv, NEW w \in Workers, Fails(w)
  PROVE  Spawning'
<1>0. PICK x : x = [work[w] EXCEPT !.pc = "retry"]
  OBVIOUS
<1>1. x \in Local(Len(fires)) /\ x.pc = "retry" /\ x.task = work[w].task
  BY <1>0, WorkTyped DEF Local
<1>2. CASE QuotaExceeded(w)
  BY <1>2, IdleOK, UnchargedStep DEF QuotaExceeded, At, Busy, Become, schedule, histories
<1>3. CASE CommitFails(w)
  BY <1>0, <1>1, <1>3, AbortOK DEF CommitFails, At, Goto, Become, schedule
<1>4. CASE ProcessFails(w)
  <2>0. work' = [work EXCEPT ![w] = x] /\ UNCHANGED <<fires, queue, charged, stranded>>
    BY <1>0, <1>4 DEF ProcessFails, Goto, Become, schedule
  <2>1. CASE work[w].pc \in {"spawn", "publish"} /\ UNCHANGED <<runs, unsure>>
    BY <1>1, <2>0, <2>1, UnchargedStep DEF Busy
  <2>2. CASE /\ work[w].pc = "publish" /\ runs' = Published(Spawned(w))
             /\ unsure' = unsure \cup {Spawned(w)}
    BY <1>1, <2>0, <2>2, PublishStep
  <2> QED BY <1>4, <2>1, <2>2 DEF ProcessFails, At
<1>5. CASE TimeLimit(w)
  <2>0. work' = [work EXCEPT ![w] = Idle] /\ UNCHANGED <<fires, queue, unsure>>
    BY <1>5 DEF TimeLimit, Become, schedule
  <2>1. CASE work[w].pc \in {"spawn", "publish"} /\ UNCHANGED <<runs, monitor, charged, stranded>>
    BY <2>0, <2>1, IdleOK, UnchargedStep DEF Busy
  <2>2. CASE /\ work[w].pc = "commit" /\ InsertUnsure(w)
             /\ RollbackIncrement(Spawned(w)) \/ Strand(Spawned(w))
    BY <2>0, <2>2, IdleOK, AbortOK
  <2> QED BY <1>5, <2>1, <2>2 DEF TimeLimit, At
<1>6. CASE WorkerDies(w)
  <2>0. /\ Busy(w) /\ work' = [work EXCEPT ![w] = Idle]
        /\ UNCHANGED <<fires, queue, runs, charged, unsure, monitor>>
    BY <1>6 DEF WorkerDies, At, Busy, Become, schedule
  <2>1. CASE work[w].pc = "commit"
    <3>1. Strand(Spawned(w)) /\ InsertUnsure(w)
      BY <1>6, <2>0, <2>1 DEF WorkerDies, At, Strand, InsertUnsure
    <3> QED BY <2>0, <2>1, <3>1, IdleOK, AbortOK
  <2>2. CASE work[w].pc # "commit"
    BY <1>6, <2>0, <2>2, IdleOK, UnchargedStep DEF WorkerDies, At
  <2> QED BY <2>1, <2>2
<1> QED BY <1>2, <1>3, <1>4, <1>5, <1>6 DEF Fails

\* self.retry: the token goes back to the broker with one more try.
LEMMA RetryOK ==
  ASSUME Inv, NEW w \in Workers, Retry(w)
  PROVE  Spawning'
<1>0. /\ Busy(w) /\ work[w].pc = "retry" /\ work' = [work EXCEPT ![w] = Idle]
      /\ UNCHANGED <<fires, runs, charged, stranded, unsure>>
  BY DEF Retry, At, Busy, Become, schedule, histories
<1>1. PICK k \in Task(Len(fires)) : k = work[w].task
  BY <1>0, WorkTyped
<1>2. CASE ~(k.try < MaxRetries)
  BY <1>0, <1>1, <1>2, IdleOK, UnchargedStep DEF Retry
<1>3. CASE k.try < MaxRetries
  <2>1. PICK l : l = [k EXCEPT !.try = @ + 1]
    OBVIOUS
  <2>2. l \in Task(Len(fires)) /\ l.no = k.no /\ l.try = k.try + 1 /\ k.try \in Nat
    BY <1>3, <2>1, MonitorAssumption DEF Task
  <2>3. queue' = queue \cup {l}
    BY <1>1, <1>3, <2>1 DEF Retry
  <2>4. work'[w] = Idle /\ \A v \in Workers : v # w => work'[v] = work[v]
    BY <1>0 DEF Inv, Types
  <2>5. \A v \in Workers : work'[v].pc # "idle" => v # w /\ Busy(v) /\ work'[v] = work[v]
    BY <2>4, IdleOK DEF Busy
  <2>6. Types'
    <3>1. queue' \subseteq Task(Len(fires')) /\ work' \in [Workers -> Local(Len(fires'))]
      BY <1>0, <2>2, <2>3, IdleOK DEF Inv, Types
    <3> QED BY <1>0, <2>5, <3>1 DEF Inv, Types, Busy, RunIds
  <2>7. OneToken'
    <3>1. \A j \in queue : j.no # l.no
      BY <1>0, <1>1, <2>2 DEF Inv, OneToken
    <3>2. \A v \in Workers : work'[v].pc # "idle" => work'[v].task.no # l.no
      BY <1>0, <1>1, <2>2, <2>5 DEF Inv, OneToken
    <3> QED BY <2>3, <2>5, <3>1, <3>2 DEF Inv, OneToken, Busy
  <2>8. Open(runs, unsure, l) /\ Fresh(runs, l)
    <3>1. Open(runs, unsure, k)
      BY <1>0, <1>1 DEF Inv, TokensOK
    <3>2. \A r \in runs : r.id.try \in Nat
      BY RunTyped
    <3> QED BY <2>2, <3>1, <3>2 DEF Open, Fresh
  <2>9. TokensOK'
    BY <1>0, <2>3, <2>4, <2>5, <2>8, IdleOK DEF Inv, TokensOK, Busy
  <2>10. TriggerIds' = TriggerIds
    BY <1>0 DEF TriggerIds, RunIds
  <2>11. RunsOK'
    BY <1>0, <2>10 DEF Inv, RunsOK
  <2>12. \A v \in Workers : work'[v].pc \in {"commit", "publish"} \/ work[v].pc = "commit" => work'[v] = work[v]
    BY <1>0, <2>4, IdleOK
  <2>13. Charges'
    BY <1>0, <2>12, ChargesUnfolded, ChargesFolded
  <2> QED BY <2>6, <2>7, <2>9, <2>11, <2>13 DEF Spawning
<1> QED BY <1>2, <1>3

-----------------------------------------------------------------------------
(* Triggered runs, and new deliveries.                                     *)

LEMMA CountsAreNat ==
  ASSUME Inv
  PROVE  Cardinality(TriggerIds) \in Nat /\ IsFiniteSet(TriggerIds)
BY FS_CardinalityType DEF Inv, RunsOK

\* A new trigger has an id of its own.
LEMMA NewTrigger ==
  ASSUME Inv
  PROVE  /\ NextTrigger \in RunId /\ NextTrigger.no = 0 /\ NextTrigger \notin TriggerIds
         /\ IsFiniteSet(TriggerIds \cup {NextTrigger})
         /\ \A id \in TriggerIds \cup {NextTrigger} :
              id.try <= Cardinality(TriggerIds \cup {NextTrigger})
<1>1. PICK n \in Nat : n = Cardinality(TriggerIds)
  BY CountsAreNat
<1>2. PICK i : i = NextTrigger
  OBVIOUS
<1>3. i \in RunId /\ i.no = 0 /\ i.try = n + 1
  BY <1>1, <1>2 DEF NextTrigger, RunId
<1>4. \A id \in TriggerIds : id.try <= n /\ id.try \in Nat
  <2>1. TriggerIds \subseteq RunId
    BY RunTyped, ChargesUnfolded DEF TriggerIds, RunIds
  <2> QED BY <1>1, <2>1 DEF Inv, RunsOK, RunId
<1>5. i \notin TriggerIds
  BY <1>3, <1>4
<1>6. IsFiniteSet(TriggerIds \cup {i}) /\ Cardinality(TriggerIds \cup {i}) = n + 1
  BY <1>1, <1>5, CountsAreNat, FS_AddElement
<1>7. \A id \in TriggerIds \cup {i} : id.try <= n + 1
  BY <1>3, <1>4
<1> QED BY <1>2, <1>3, <1>5, <1>6, <1>7

\* Steps of the users leave the tokens alone.
LEMMA UserTokens ==
  ASSUME Inv, NEW k, k.no = 0, RunWritten(k), UNCHANGED <<fires, queue, work>>,
         charged' \subseteq RunId, stranded' \subseteq RunId
  PROVE  Types' /\ OneToken' /\ TokensOK'
<1>1. Len(fires) \in Nat
  BY DEF Inv, Schedule
<1>2. \A q \in runs' : q.id.no \in 0..Len(fires') /\ q \in Run
  BY <1>1 DEF Inv, Types, RunWritten
<1>3. Types'
  <2>1. unsure' \subseteq RunIds'
    BY DEF RunWritten, RunIds
  <2> QED BY <1>2, <2>1 DEF Inv, Types, Busy
<1>4. OneToken'
  BY DEF Inv, OneToken, Busy
<1>5. ASSUME NEW l \in Task(Len(fires))
      PROVE  /\ Open(runs, unsure, l) => Open(runs', unsure', l)
             /\ Fresh(runs, l) => Fresh(runs', l)
  <2>1. l.no # 0
    BY <1>1 DEF Task
  <2>2. \A q \in runs' : q.id.no = l.no => q \in runs
    BY <2>1 DEF RunWritten
  <2> QED BY <2>2 DEF Open, Fresh, RunWritten
<1>6. \A l \in queue : l \in Task(Len(fires))
  BY DEF Inv, Types
<1>7. \A w \in Workers : work[w].pc # "idle" => work[w].task \in Task(Len(fires))
  BY DEF Inv, Types, Busy
<1>8. \A l \in queue' : Open(runs', unsure', l) /\ Fresh(runs', l)
  BY <1>5, <1>6 DEF Inv, TokensOK
<1>9. \A w \in Workers : work'[w].pc # "idle" => Open(runs', unsure', work'[w].task)
  BY <1>5, <1>7 DEF Inv, TokensOK, Busy
<1>10. \A w \in Workers : work'[w].pc \in {"spawn", "commit"} => Fresh(runs', work'[w].task)
  <2> TAKE w \in Workers
  <2> HAVE work'[w].pc \in {"spawn", "commit"}
  <2>1. work[w].task \in Task(Len(fires)) /\ Fresh(runs, work[w].task)
    BY <1>7 DEF Inv, TokensOK
  <2> QED BY <1>5, <2>1
<1>11. \A w \in Workers : work'[w].pc = "publish" => \E r \in runs' : r.id = work'[w].task
  BY DEF Inv, TokensOK, RunWritten
<1>12. TokensOK'
  BY <1>8, <1>9, <1>10, <1>11 DEF TokensOK, Busy
<1> QED BY <1>3, <1>4, <1>12

\* A step of a user that writes the run k, and counts or gives back units of no other.
LEMMA UserStep ==
  ASSUME Inv, NEW k \in RunId, k.no = 0, RunWritten(k), UNCHANGED <<fires, queue, work>>,
         stranded \subseteq stranded', stranded' \subseteq RunId,
         IsFiniteSet(TriggerIds'), \A id \in TriggerIds' : id.try <= Cardinality(TriggerIds'),
         \A id : id # k => (id \in charged' <=> id \in charged),
         k \in charged' => (\E q \in runs' : q.id = k) \/ k \in stranded',
         \A q \in runs' : q.id = k /\ q.published => k \in charged' \/ k \in unsure'
  PROVE  Spawning'
<1>1. charged' \subseteq RunId
  BY ChargesUnfolded
<1>2. Types' /\ OneToken' /\ TokensOK'
  BY <1>1, UserTokens
<1>3. RunsOK'
  <2>1. \A q \in runs' : q.id.no > 0 => q \in runs
    BY DEF RunWritten
  <2>2. \A r, q \in runs' :
          r.id.no > 0 /\ r.id.no = q.id.no /\ r.published /\ q.published =>
            r = q \/ r.id \in unsure' \/ q.id \in unsure'
    BY <2>1 DEF Inv, RunsOK, RunWritten
  <2> QED BY <2>2 DEF RunsOK, RunWritten
<1>4. \A w \in Workers : work[w].pc \in {"commit", "publish"} => work[w].task # k
  BY WorkTyped DEF Busy
<1>5. \A w \in Workers : work'[w].pc \in {"commit", "publish"} => work'[w].task \in charged'
  BY <1>4, ChargesUnfolded
<1>6. ASSUME NEW x \in charged'
      PROVE  \/ \E q \in runs' : q.id = x
             \/ x \in stranded'
             \/ \E w \in Workers : work'[w].pc = "commit" /\ work'[w].task = x
  <2>1. CASE x = k
    BY <1>6, <2>1
  <2>2. CASE x # k
    BY <1>6, <2>2, ChargesUnfolded DEF RunWritten
  <2> QED BY <2>1, <2>2
<1>7. ASSUME NEW r \in runs', r.published
      PROVE  r.id \in charged' \/ (r.id.no = 0 /\ r.id \in unsure')
  <2>1. CASE r.id = k
    BY <1>7, <2>1
  <2>2. CASE r.id # k
    BY <1>7, <2>2, ChargesUnfolded DEF RunWritten
  <2> QED BY <2>1, <2>2
<1>8. Charges'
  BY <1>5, <1>6, <1>7, ChargesFolded
<1> QED BY <1>2, <1>3, <1>8 DEF Spawning

LEMMA TriggerOK ==
  ASSUME Inv, NEW m \in Monitors, Trigger(m) \/ TriggerFails(m)
  PROVE  Spawning'
<1>1. PICK id \in RunId : /\ id = NextTrigger /\ id.no = 0 /\ id \notin TriggerIds
                          /\ IsFiniteSet(TriggerIds \cup {id})
                          /\ \A i \in TriggerIds \cup {id} :
                               i.try <= Cardinality(TriggerIds \cup {id})
  BY NewTrigger
<1>2. /\ charged' = charged \cup {id} /\ UNCHANGED <<fires, queue, work, unsure>>
  BY <1>1 DEF Trigger, TriggerFails, schedule, histories
<1>3. CASE Trigger(m)
  <2>1. PICK r : r = [id |-> id, monitor |-> m, targets |-> Arrived, published |-> FALSE]
    OBVIOUS
  <2>2. r \in Run /\ r.id = id /\ r.published = FALSE
    <3>1. Arrived \in SUBSET Traces
      BY DEF Arrived
    <3> QED BY <2>1, <3>1 DEF Run
  <2>3. runs' = runs \cup {r} /\ stranded' = stranded
    BY <1>1, <1>3, <2>1 DEF Trigger, histories
  <2>4. \A q \in runs : q.id # id /\ q \in Run
    BY <1>1, RunTyped DEF TriggerIds, RunIds
  <2>5. \A p, q \in runs' : p.id = q.id => p = q
    BY <2>2, <2>3, <2>4 DEF Inv, RunsOK
  <2>6. RunWritten(id)
    BY <1>2, <2>2, <2>3, <2>4, <2>5, ChargesUnfolded DEF RunWritten
  <2>7. TriggerIds' = TriggerIds \cup {id}
    BY <1>1, <2>2, <2>3 DEF TriggerIds, RunIds
  <2> QED BY <1>1, <1>2, <2>2, <2>3, <2>4, <2>6, <2>7, ChargesUnfolded, UserStep
<1>4. CASE TriggerFails(m)
  <2>1. runs' = runs /\ stranded' = stranded \cup {id}
    BY <1>1, <1>4 DEF TriggerFails
  <2>2. RunWritten(id) /\ \A q \in runs : q.id # id
    BY <1>1, <1>2, <2>1, RunUnwritten DEF TriggerIds, RunIds
  <2>3. TriggerIds' = TriggerIds \cup {id}
    BY <1>1, <2>1 DEF TriggerIds, RunIds
  <2> QED BY <1>1, <1>2, <2>1, <2>2, <2>3, ChargesUnfolded, UserStep
<1> QED BY <1>3, <1>4

\* The request of the user publishes the run or gives its units back.
LEMMA TriggerEndsOK ==
  ASSUME Inv, NEW r \in Triggered, TriggerEnds(r)
  PROVE  Spawning'
<1>0. PICK k \in RunId : k = r.id /\ k.no = 0 /\ r \in runs /\ ~r.published /\ k \in charged
  BY RunTyped DEF TriggerEnds, Triggered
<1>1. UNCHANGED <<fires, queue, work, stranded>>
  BY DEF TriggerEnds, schedule
<1>2. \/ runs' = Published(k) /\ charged' = charged /\ unsure' = unsure
      \/ charged' = charged \ {k} /\ UNCHANGED <<runs, unsure>>
      \/ charged' = charged \ {k} /\ runs' = Published(k) /\ unsure' = unsure \cup {k}
  BY <1>0 DEF TriggerEnds
<1>3. RunWritten(k)
  <2>1. CASE runs' = Published(k)
    BY <1>0, <1>2, <2>1, PublishedWrites
  <2>2. CASE UNCHANGED <<runs, unsure>>
    BY <2>2, RunUnwritten
  <2> QED BY <1>2, <2>1, <2>2
<1>4. TriggerIds' = TriggerIds
  <2>1. \A id : (\E q \in runs' : q.id = id) <=> (\E q \in runs : q.id = id)
    BY <1>0, <1>3 DEF RunWritten
  <2> QED BY <1>1, <2>1 DEF TriggerIds, RunIds
<1>5. \E q \in runs' : q.id = k
  BY <1>0, <1>3 DEF RunWritten
<1>6. \A q \in runs' : q.id = k /\ q.published => k \in charged' \/ k \in unsure'
  <2>1. \A q \in runs : q.id = k => ~q.published
    BY <1>0 DEF Inv, RunsOK
  <2> QED BY <1>0, <1>2, <2>1
<1>7. IsFiniteSet(TriggerIds) /\ \A id \in TriggerIds : id.try <= Cardinality(TriggerIds)
  BY DEF Inv, RunsOK
<1>8. stranded' \subseteq RunId /\ \A id : id # k => (id \in charged' <=> id \in charged)
  BY <1>1, <1>2, ChargesUnfolded
<1> QED BY <1>0, <1>1, <1>3, <1>4, <1>5, <1>6, <1>7, <1>8, UserStep

\* A new delivery has a token of its own.
LEMMA NewTokenOK ==
  ASSUME Inv, NEW f \in Firing, fires' = Append(fires, f), NEW t \in 0..MaxRetries,
         queue' = queue \cup {[no |-> Len(fires) + 1, try |-> t]},
         UNCHANGED <<work, runs, charged, stranded, unsure>>
  PROVE  Spawning'
<1>2. PICK n \in Nat : n = Len(fires) /\ Len(fires') = n + 1
  BY FiredOK
<1>3. PICK k : k = [no |-> n + 1, try |-> t]
  OBVIOUS
<1>4. k \in Task(n + 1) /\ k.no = n + 1 /\ k.try = t
  BY <1>3, MonitorAssumption DEF Task
<1>5. queue' = queue \cup {k} /\ UNCHANGED <<work, runs, charged, stranded, unsure>>
  BY <1>2, <1>3
<1>6. Task(n) \subseteq Task(n + 1) /\ \A l \in Task(n) : l.no # n + 1
  BY DEF Task
<1>7. Local(n) \subseteq Local(n + 1)
  BY <1>6 DEF Local
<1>8. \A w \in Workers : work[w].pc # "idle" => work[w].task \in Task(n)
  BY <1>2 DEF Inv, Types, Busy
<1>9. Types'
  <2>1. queue' \subseteq Task(Len(fires')) /\ work' \in [Workers -> Local(Len(fires'))]
    BY <1>2, <1>4, <1>5, <1>6, <1>7 DEF Inv, Types
  <2>2. \A r \in runs' : r.id.no \in 0..Len(fires')
    BY <1>2, <1>5 DEF Inv, Types
  <2>3. \A w \in Workers : work'[w].pc # "idle" => work'[w].task \in Task(Len(fires'))
    BY <1>2, <1>5, <1>6, <1>8
  <2> QED BY <1>5, <2>1, <2>2, <2>3 DEF Inv, Types, Busy, RunIds
<1>10. OneToken'
  <2>1. \A l \in queue : l.no # k.no
    BY <1>2, <1>4, <1>6 DEF Inv, Types
  <2>2. \A w \in Workers : work[w].pc # "idle" => work[w].task.no # k.no
    BY <1>4, <1>6, <1>8
  <2> QED BY <1>5, <2>1, <2>2 DEF Inv, OneToken, Busy
<1>11. TokensOK'
  <2>1. Open(runs, unsure, k) /\ Fresh(runs, k)
    BY <1>2, <1>4 DEF Inv, Types, Open, Fresh
  <2> QED BY <1>5, <2>1 DEF Inv, TokensOK, Busy
<1>12. RunsOK'
  <2>1. TriggerIds' = TriggerIds
    BY <1>5 DEF TriggerIds, RunIds
  <2> QED BY <1>5, <2>1 DEF Inv, RunsOK
<1>13. Charges'
  BY <1>5, ChargesUnfolded, ChargesFolded
<1> QED BY <1>9, <1>10, <1>11, <1>12, <1>13 DEF Spawning

LEMMA DeliveryOK ==
  ASSUME Inv, (\E b \in Beats : BeatDispatch(b)) \/ (\E k \in queue : Redeliver(k))
  PROVE  Spawning'
<1>1. ASSUME NEW b \in Beats, BeatDispatch(b) PROVE Spawning'
  <2>1. PICK f \in Firing : fires' = Append(fires, f)
    BY <1>1, Dispatched
  <2>2. /\ queue' = queue \cup {[no |-> Len(fires) + 1, try |-> 0]} /\ 0 \in 0..MaxRetries
        /\ UNCHANGED <<work, runs, charged, stranded, unsure>>
    BY <1>1, MonitorAssumption DEF BeatDispatch, spawning, histories
  <2> QED BY <2>1, <2>2, NewTokenOK
<1>2. ASSUME NEW k \in queue, Redeliver(k) PROVE Spawning'
  <2>1. PICK f \in Firing : fires' = Append(fires, f)
    BY <1>2, Redelivered
  <2>2. PICK t \in 0..MaxRetries : t = k.try
    BY DEF Inv, Types, Task
  <2>3. /\ queue' = queue \cup {[no |-> Len(fires) + 1, try |-> t]}
        /\ UNCHANGED <<work, runs, charged, stranded, unsure>>
    BY <1>2, <2>2 DEF Redeliver, spawning, histories
  <2> QED BY <2>1, <2>2, <2>3, NewTokenOK
<1> QED BY <1>1, <1>2

-----------------------------------------------------------------------------
(* The theorems.                                                           *)

\* The invariant holds initially.
LEMMA InitInv == Init => Inv
<1> SUFFICES ASSUME Init PROVE Inv
  OBVIOUS
<1>1. Schedule
  <2>1. PICK row \in Row : row = NoRow("NEW") /\ row.next = None
    BY NoRowOK
  <2>2. monitor = [m \in Monitors |-> row]
    BY <2>1 DEF Init
  <2>3. beat = [b \in Beats |-> Quiet] /\ clock = 0 /\ fires = <<>>
    BY DEF Init
  <2> QED BY <2>1, <2>2, <2>3, QuietOK, TimeIsNat DEF Init, Schedule, TickOK
<1>2. work = [w \in Workers |-> Idle] /\ \A w \in Workers : work[w].pc = "idle"
  BY IdleOK DEF Init
<1>3. Types /\ OneToken /\ TokensOK
  BY <1>2, IdleOK DEF Init, Types, OneToken, TokensOK, Busy
<1>4. TriggerIds = {}
  BY DEF Init, TriggerIds, RunIds
<1>5. RunsOK
  BY <1>4, FS_EmptySet DEF Init, RunsOK
<1>6. Charges
  BY <1>2 DEF Init, Charges, At
<1> QED BY <1>1, <1>3, <1>5, <1>6 DEF Inv

\* A commit advances the monitor, if it takes place.
LEMMA AdvanceWrites ==
  ASSUME Inv, NEW w \in Workers, CommitRun(w) \/ CommitFails(w) \/ TimeLimit(w)
  PROVE  monitor' = monitor \/ \E m \in Monitors, row \in Row : RowWritten(m, row)
<1>1. CASE Busy(w) /\ Insert(w)
  <2>1. PICK m \in Monitors : m = MonitorOf(w)
    BY <1>1, MonitorOfOK
  <2>2. monitor' = [monitor EXCEPT ![m].last = clock]
    BY <1>1, <2>1 DEF Insert
  <2> QED BY <2>1, <2>2, TaskWrites
<1>2. (Busy(w) /\ Insert(w)) \/ monitor' = monitor
  BY DEF CommitRun, CommitFails, TimeLimit, InsertUnsure, At, Busy
<1> QED BY <1>1, <1>2

\* Every step keeps the invariant.
LEMMA NextInv == Inv /\ [Next]_vars => Inv'
<1> SUFFICES ASSUME Inv, [Next]_vars PROVE Schedule' /\ Spawning'
  BY DEF Inv, Spawning
<1>1. CASE Tock \/ \E t \in Traces : Arrive(t)
  BY <1>1, ClockStep, SpawningFrame DEF Tock, Arrive, schedule, spawning, histories
<1>2. CASE LockExpires
  <2>1. UNCHANGED <<clock, monitor, started, beat, fires, queue, spawning>> /\ lock' = None
    BY <1>2 DEF LockExpires
  <2>2. Schedule'
    BY <2>1 DEF Inv, Schedule, Exists, TickOK
  <2> QED BY <2>1, <2>2, SpawningFrame DEF spawning, histories
<1>3. ASSUME NEW m \in Monitors, Create(m) \/ Update(m) \/ Pause(m) \/ Resume(m) \/ Delete(m)
      PROVE  Schedule' /\ Spawning'
  BY <1>3, UserWrites, WrittenOK, SpawningFrame DEF schedule, spawning, histories
<1>4. ASSUME NEW m \in Monitors, Trigger(m) PROVE Schedule' /\ Spawning'
  <2>1. UNCHANGED <<clock, started, lock, beat, fires>>
    BY <1>4 DEF Trigger, schedule
  <2> QED BY <1>4, <2>1, TriggerWrites, WrittenOK, TriggerOK
<1>5. ASSUME (\E r \in Triggered : TriggerEnds(r)) \/ (\E m \in Monitors : TriggerFails(m))
      PROVE  Schedule' /\ Spawning'
  <2>1. UNCHANGED <<clock, monitor, started, lock, beat, fires>>
    BY <1>5 DEF TriggerEnds, TriggerFails, schedule
  <2> QED BY <1>5, <2>1, TriggerEndsOK, TriggerOK, ScheduleFrame
<1>6. ASSUME NEW b \in Beats, BeatBegin(b) \/ BeatCommit(b) \/ BeatFails(b) \/ BeatDies(b)
      PROVE  Schedule' /\ Spawning'
  <2>1. UNCHANGED <<fires, queue, work, runs, charged, stranded, unsure>>
    BY <1>6 DEF BeatBegin, BeatCommit, BeatFails, BeatDies, spawning, histories
  <2> QED BY <1>6, <2>1, BeatOK, SpawningFrame
<1>7. CASE (\E b \in Beats : BeatDispatch(b)) \/ (\E k \in queue : Redeliver(k))
  BY <1>7, DispatchOK, RedeliverOK, DeliveryOK
<1>8. ASSUME NEW w \in Workers, CommitRun(w) \/ CommitFails(w) \/ TimeLimit(w)
      PROVE  Schedule' /\ Spawning'
  <2>1. UNCHANGED <<clock, started, lock, beat, fires>>
    BY <1>8 DEF CommitRun, CommitFails, TimeLimit, schedule
  <2>2. Schedule'
    BY <1>8, <2>1, AdvanceWrites, WrittenOK, ScheduleFrame
  <2> QED BY <1>8, <2>2, CommitOK, FailsOK DEF Fails
<1>9. ASSUME NEW w \in Workers,
             \/ SpawnRun(w) \/ Publish(w) \/ Retry(w)
             \/ QuotaExceeded(w) \/ ProcessFails(w) \/ WorkerDies(w)
             \/ \E k \in queue : TakeMonitor(w, k)
      PROVE  Schedule' /\ Spawning'
  <2>1. UNCHANGED <<clock, monitor, started, lock, beat, fires>>
    BY <1>9 DEF SpawnRun, Publish, Retry, TakeMonitor, QuotaExceeded, ProcessFails,
                WorkerDies, schedule
  <2> QED BY <1>9, <2>1, ScheduleFrame, SpawnOK, PublishOK, RetryOK, FailsOK, TakeOK DEF Fails
<1>10. CASE UNCHANGED vars
  BY <1>10, ScheduleFrame, SpawningFrame DEF vars
<1> QED BY <1>1, <1>2, <1>3, <1>4, <1>5, <1>6, <1>7, <1>8, <1>9, <1>10
        DEF Next, Users, Beat, Process, Fails

\* No tick holds the lock initially.
LEMMA InitExclusive == Init => Exclusive
<1> SUFFICES ASSUME Init PROVE Exclusive
  OBVIOUS
<1>1. \A b \in Beats : beat[b].pc = "idle"
  BY QuietOK DEF Init
<1>2. \A m \in Monitors : monitor[m].next = None
  BY NoRowOK DEF Init
<1> QED BY <1>1, <1>2 DEF Init, Exclusive, Taken, Locked

\* Every step keeps the lock exclusive, if no tick outlives it.
LEMMA NextExclusive == ASSUME "slow" \notin Enabled, Inv, Exclusive, [Next]_vars PROVE Exclusive'
<1>1. CASE Tock \/ \E t \in Traces : Arrive(t)
  BY <1>1, ExclusiveFrame DEF Tock, Arrive, schedule
<1>2. CASE LockExpires
  BY <1>2, ExclusiveExpires
<1>3. ASSUME NEW m \in Monitors, Create(m) \/ Update(m) \/ Pause(m) \/ Resume(m) \/ Delete(m)
      PROVE  Exclusive'
  BY <1>3, UserWrites, ExclusiveWritten DEF schedule
<1>4. ASSUME NEW m \in Monitors, Trigger(m) PROVE Exclusive'
  BY <1>4, TriggerWrites, ExclusiveWritten DEF Trigger, schedule
<1>5. CASE (\E r \in Triggered : TriggerEnds(r)) \/ (\E m \in Monitors : TriggerFails(m))
  <2>1. UNCHANGED <<monitor, lock, beat, fires>>
    BY <1>5 DEF TriggerEnds, TriggerFails, schedule
  <2> QED BY <2>1, ExclusiveFrame
<1>6. ASSUME NEW b \in Beats, Beat(b) \/ BeatFails(b) \/ BeatDies(b) PROVE Exclusive'
  <2>1. CASE BeatFails(b) \/ BeatDies(b)
    BY <2>1, ExclusiveQuiet DEF BeatFails, BeatDies, Watch
  <2> QED BY <1>6, <2>1, ExclusiveBegin, ExclusiveCommit, ExclusiveDispatch DEF Beat
<1>7. ASSUME NEW w \in Workers, CommitRun(w) \/ CommitFails(w) \/ TimeLimit(w) PROVE Exclusive'
  <2>1. UNCHANGED <<lock, beat, fires>>
    BY <1>7 DEF CommitRun, CommitFails, TimeLimit, schedule
  <2> QED BY <1>7, <2>1, AdvanceWrites, ExclusiveWritten, ExclusiveFrame
<1>8. ASSUME NEW w \in Workers,
             \/ SpawnRun(w) \/ Publish(w) \/ Retry(w)
             \/ QuotaExceeded(w) \/ ProcessFails(w) \/ WorkerDies(w)
             \/ \E k \in queue : TakeMonitor(w, k)
      PROVE  Exclusive'
  <2>1. UNCHANGED <<monitor, lock, beat, fires>>
    BY <1>8 DEF SpawnRun, Publish, Retry, TakeMonitor, QuotaExceeded, ProcessFails,
                WorkerDies, schedule
  <2> QED BY <2>1, ExclusiveFrame
<1>9. CASE UNCHANGED vars
  BY <1>9, ExclusiveFrame DEF vars
<1>10. ASSUME NEW k \in queue, Redeliver(k) PROVE Exclusive'
  BY <1>10, ExclusiveRedeliver
<1> QED BY <1>1, <1>2, <1>3, <1>4, <1>5, <1>6, <1>7, <1>8, <1>9, <1>10
        DEF Next, Users, Process, Fails

\* The invariant of tokens, runs and charges holds in every reachable state.
THEOREM Invariance == Spec => []Inv
BY InitInv, NextInv, PTL DEF Spec

\* Units are counted for the runs there are or that are about to be committed, or were
\* left behind where a worker died or was cancelled at the commit or a refund was lost;
\* and every published run is paid for, but a triggered one that went out though
\* publishing it raised: through quota errors, failed commits, lost answers, retries,
\* redelivered tasks, time limits and crashes of process_single_monitor and of the
\* triggers of users.
THEOREM RunsArePaidFor == Spec => []ChargesMatchRuns
<1>1. Inv => ChargesMatchRuns
  <2> SUFFICES ASSUME Inv PROVE ChargesMatchRuns
    OBVIOUS
  <2>1. /\ \A b \in Beats : beat[b].pc \in {"idle", "commit", "dispatch"}
        /\ \A w \in Workers : work[w].pc \in {"idle", "spawn", "commit", "publish", "retry"}
    BY TickTyped, WorkTyped DEF Tick, Local
  <2>2. TypeOK
    BY <2>1 DEF Inv, Schedule, Types, Task, TypeOK
  <2> QED BY <2>2 DEF Inv, Charges, ChargesMatchRuns
<1> QED BY <1>1, Invariance, PTL

\* A monitor is evaluated once for a due time, but for tasks delivered again and publishes
\* that raised though the message went out: for any number of ticks, workers and users, as
\* long as the lock of check_eval_monitors (timeout=60) does not run out under a tick that
\* has not committed.
THEOREM DueTimesRunOnce == ASSUME "slow" \notin Enabled PROVE Spec => []OncePerDueTime
<1>1. Inv /\ Exclusive => OncePerDueTime
  <2> SUFFICES ASSUME Inv, Exclusive, NEW r \in runs, NEW q \in runs,
                      r.id.no > 0, q.id.no > 0, r.published, q.published, SameDue(r, q)
               PROVE  \/ r = q
                      \/ r.id.no = q.id.no /\ (r.id \in unsure \/ q.id \in unsure)
                      \/ r.id.no # q.id.no /\ (fires[r.id.no].again \/ fires[q.id.no].again)
    BY DEF OncePerDueTime
  <2>1. r.id.no \in 1..Len(fires) /\ q.id.no \in 1..Len(fires)
    BY DEF Inv, Types
  <2>2. CASE r.id.no = q.id.no
    BY <2>2 DEF Inv, RunsOK
  <2>3. CASE r.id.no # q.id.no
    BY <2>1, <2>3 DEF Exclusive, Taken, FiredTwice, SameDue
  <2> QED BY <2>2, <2>3
<1>2. Inv /\ Exclusive /\ [Next]_vars => Exclusive'
  BY NextExclusive
<1>3. Spec => []Exclusive
  BY <1>2, InitExclusive, Invariance, PTL DEF Spec
<1> QED BY <1>1, <1>3, Invariance, PTL
===============================================================================
