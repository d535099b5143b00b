------------------------------ MODULE Monitors ------------------------------
(***************************************************************************)
(* Evaluation monitors: the beat task that finds the due ones under a      *)
(* Redis lock and reschedules them, the task that spawns, charges and      *)
(* publishes a run for each, and the users who create, change, pause,      *)
(* trigger and delete monitors meanwhile.                                  *)
(*                                                                         *)
(* The monitors evaluate every trace: no filters, a sampling rate of 1.    *)
(* What becomes of a published run is the subject of EvalRun, what a       *)
(* charge does to a quota that of UsageMetering.                           *)
(***************************************************************************)
EXTENDS Integers, Sequences, FiniteSets

CONSTANTS Monitors,     \* monitor ids
          Traces,       \* trace ids of the project
          Beats,        \* worker children that run check_eval_monitors
          Workers,      \* worker children that run process_single_monitor
          None,         \* NULL; no owner
          Cadences,     \* the cadences users choose from
          MaxRetries,   \* max_retries of process_single_monitor
          MaxTime,      \* bound: the clock
          MaxTriggers,  \* bound: runs triggered by users
          MaxFaults,    \* bound: faults, and operations of users on an existing monitor
          Enabled       \* bound: the faults and user operations of this instance

Time == 0..MaxTime

ASSUME MonitorAssumption ==
  /\ MaxRetries \in Nat /\ MaxTime \in Nat /\ MaxTriggers \in Nat
  /\ MaxFaults \in Nat
  /\ None \notin Nat \cup Beats
  /\ Cadences \subseteq [cron : BOOLEAN, every : Nat \ {0}] /\ Cadences # {}
  /\ Enabled \subseteq {"error", "limit", "quota", "broker", "crash", "slow", "lost",
                        "redeliver", "update", "pause", "delete"}

VARIABLES
  clock,     \* now
  monitor,   \* the eval_monitors rows
  started,   \* started_at of the traces that have arrived
  lock,      \* who holds the Redis lock check_eval_monitors
  beat,      \* what each execution of check_eval_monitors remembers
  fires,     \* history: the deliveries of the due times the scheduler took, in order
  queue,     \* process_single_monitor tasks in the broker
  work,      \* what each execution of process_single_monitor remembers
  runs,      \* the eval_runs rows the monitors have
  charged,   \* the runs whose units are counted
  stranded,  \* history: runs whose units an execution left counted, not knowing of a commit
  unsure,    \* history: runs whose publishing raised though the message went out
  faults     \* faults and user operations so far

schedule == <<lock, beat, fires>>
histories == <<stranded, unsure>>
spawning == <<work, runs, charged, histories>>
vars == <<clock, monitor, started, lock, beat, fires, queue, work, runs, charged,
          stranded, unsure, faults>>

-----------------------------------------------------------------------------
(* State.                                                                  *)

Row == [status : {"NEW", "ACTIVE", "PAUSED", "DELETED"}, cadence : Cadences,
        skip : BOOLEAN, next : Nat \cup {None}, last : Time \cup {None}]

\* A run is named by the execution that spawned it: the firing and the attempt, or
\* 0 and the number of the user's trigger.
RunId == [no : Nat, try : Nat]
Run == [id : RunId, monitor : Monitors, targets : SUBSET Traces, published : BOOLEAN]

Exists(m) == monitor[m].status \in {"ACTIVE", "PAUSED"}
Arrived == {t \in Traces : started[t] # None}
RunIds == {r.id : r \in runs}

\* A monitor that is not in the table.
NoRow(status) == [status |-> status, cadence |-> CHOOSE c \in Cadences : TRUE,
                  skip |-> TRUE, next |-> None, last |-> None]

Quiet == [pc |-> "idle", now |-> 0, due |-> {}]
Idle == [pc |-> "idle", task |-> None, targets |-> {}]

Init ==
  /\ clock = 0
  /\ monitor = [m \in Monitors |-> NoRow("NEW")]
  /\ started = [t \in Traces |-> None]
  /\ lock = None /\ beat = [b \in Beats |-> Quiet] /\ fires = <<>>
  /\ queue = {} /\ work = [w \in Workers |-> Idle]
  /\ runs = {} /\ charged = {}
  /\ stranded = {} /\ unsure = {} /\ faults = 0

\* One of the faults or user operations of the instance.
Fault(what) ==
  /\ what \in Enabled /\ faults < MaxFaults
  /\ faults' = faults + 1

\* compute_next_run: an interval from now, or the next instant a cron expression
\* matches.
NextRun(cadence, now) ==
  IF cadence.cron THEN (now \div cadence.every + 1) * cadence.every
                  ELSE now + cadence.every

\* should_skip_monitor.
ShouldSkip(m) ==
  /\ monitor[m].skip /\ monitor[m].last # None
  /\ \A t \in Arrived : started[t] <= monitor[m].last

-----------------------------------------------------------------------------
(* Time passes and traces arrive; their clients say when they started.     *)

Tock ==
  /\ clock < MaxTime
  /\ clock' = clock + 1
  /\ UNCHANGED <<monitor, started, schedule, queue, spawning, faults>>

Arrive(t) ==
  /\ started[t] = None
  /\ \E s \in 0..clock : started' = [started EXCEPT ![t] = s]
  /\ UNCHANGED <<clock, monitor, schedule, queue, spawning, faults>>

-----------------------------------------------------------------------------
(* check_eval_monitors.                                                    *)

Watch(b, local) == beat' = [beat EXCEPT ![b] = local]

Release(b) == lock' = IF lock = b THEN None ELSE lock

\* get_due_monitors.
Due(now) == {m \in Monitors : /\ monitor[m].status = "ACTIVE"
                              /\ monitor[m].next # None /\ monitor[m].next <= now}

Found == [pc |-> "commit", now |-> clock,
          due |-> {[monitor |-> m, due |-> monitor[m].next,
                    cadence |-> monitor[m].cadence] : m \in Due(clock)}]

\* Mutant: no lock.
BeatBeginUnlocked(b) ==
  /\ beat[b].pc = "idle"
  /\ Watch(b, Found)
  /\ UNCHANGED <<clock, monitor, started, lock, fires, queue, spawning, faults>>

\* The lock is acquired without waiting, and the due monitors are read.
BeatBegin(b) ==
  /\ beat[b].pc = "idle" /\ lock = None
  /\ lock' = b
  /\ Watch(b, Found)
  /\ UNCHANGED <<clock, monitor, started, fires, queue, spawning, faults>>

\* reschedule_monitor for each of them, commit, release.  The rows may have been
\* changed, paused or deleted since they were read.
BeatCommit(b) ==
  /\ beat[b].pc = "commit"
  /\ monitor' = [m \in Monitors |->
       IF Exists(m) /\ \E d \in beat[b].due : d.monitor = m
       THEN LET d == CHOOSE x \in beat[b].due : x.monitor = m
            IN [monitor[m] EXCEPT !.next = NextRun(d.cadence, beat[b].now)]
       ELSE monitor[m]]
  /\ Release(b)
  /\ Watch(b, IF beat[b].due = {} THEN Quiet ELSE [beat[b] EXCEPT !.pc = "dispatch"])
  /\ UNCHANGED <<clock, started, fires, queue, spawning, faults>>

\* One process_single_monitor.delay.
BeatDispatch(b) ==
  /\ beat[b].pc = "dispatch"
  /\ \E d \in beat[b].due :
       /\ fires' = Append(fires, [monitor |-> d.monitor, due |-> d.due, again |-> FALSE])
       /\ Watch(b, IF beat[b].due = {d} THEN Quiet ELSE [beat[b] EXCEPT !.due = @ \ {d}])
  /\ queue' = queue \cup {[no |-> Len(fires) + 1, try |-> 0]}
  /\ UNCHANGED <<clock, monitor, started, lock, spawning, faults>>

\* The database raises before the commit, or the broker while dispatching: what is
\* left of the list is dropped.
BeatFails(b) ==
  /\ \/ Fault("error") /\ beat[b].pc = "commit"
     \/ Fault("broker") /\ beat[b].pc = "dispatch"
  /\ Release(b)
  /\ Watch(b, Quiet)
  /\ UNCHANGED <<clock, monitor, started, fires, queue, spawning>>

BeatDies(b) ==
  /\ Fault("crash") /\ beat[b].pc # "idle"
  /\ Watch(b, Quiet)
  /\ UNCHANGED <<clock, monitor, started, lock, fires, queue, spawning>>

\* Mutant: the lock is taken without a timeout.
LockExpiresNever ==
  /\ FALSE
  /\ UNCHANGED vars

\* timeout=60: a lock left behind runs out, and so does one under a slow task.
LockExpires ==
  /\ lock # None
  /\ beat[lock].pc = "commit" => "slow" \in Enabled
  /\ lock' = None
  /\ UNCHANGED <<clock, monitor, started, beat, fires, queue, spawning, faults>>

-----------------------------------------------------------------------------
(* process_single_monitor.                                                 *)

Become(w, local) == work' = [work EXCEPT ![w] = local]
At(w, pc) == work[w].pc = pc
Goto(w, pc) == Become(w, [work[w] EXCEPT !.pc = pc])
MonitorOf(w) == fires[work[w].task.no].monitor
Spawned(w) == work[w].task           \* the id of the run this execution spawns

\* The broker's visibility timeout runs out over a task that waits, fetched, behind one
\* that takes an hour: it is delivered once more, a delivery with retries of its own.
Redeliver(k) ==
  /\ Fault("redeliver")
  /\ fires' = Append(fires, [fires[k.no] EXCEPT !.again = TRUE])
  /\ queue' = queue \cup {[no |-> Len(fires) + 1, try |-> k.try]}
  /\ UNCHANGED <<clock, monitor, started, lock, beat, spawning>>

\* The monitor is gone, or has nothing new, or goes on.  Its status is not read.
TakeMonitor(w, k) ==
  LET m == fires[k.no].monitor IN
  /\ At(w, "idle")
  /\ queue' = queue \ {k}
  /\ IF Exists(m) /\ ~ShouldSkip(m)
     THEN Become(w, [Idle EXCEPT !.pc = "spawn", !.task = k])
     ELSE UNCHANGED work
  /\ UNCHANGED <<clock, monitor, started, schedule, runs, charged, histories, faults>>

\* _spawn_run_for_monitor: the targets are read and the run is inserted, not yet
\* committed; it raises without targets, and when the monitor is gone.  Then
\* check_and_increment counts its units.
SpawnRun(w) ==
  /\ At(w, "spawn")
  /\ IF Exists(MonitorOf(w)) /\ Arrived # {}
     THEN /\ Become(w, [work[w] EXCEPT !.pc = "commit", !.targets = Arrived])
          /\ charged' = charged \cup {Spawned(w)}
     ELSE Goto(w, "retry") /\ UNCHANGED charged
  /\ UNCHANGED <<clock, monitor, started, schedule, queue, runs, histories, faults>>

\* QuotaExceededError: nothing is committed, nothing is retried.
QuotaExceeded(w) ==
  /\ Fault("quota") /\ At(w, "spawn")
  /\ Become(w, Idle)
  /\ UNCHANGED <<clock, monitor, started, schedule, queue, runs, charged, histories>>

\* advance_monitor and the commit.
Insert(w) ==
  /\ runs' = runs \cup {[id |-> Spawned(w), monitor |-> MonitorOf(w),
                         targets |-> work[w].targets, published |-> FALSE]}
  /\ monitor' = [monitor EXCEPT ![MonitorOf(w)].last = clock]

CommitRun(w) ==
  /\ At(w, "commit")
  /\ Insert(w)
  /\ Goto(w, "publish")
  /\ UNCHANGED <<clock, started, schedule, queue, charged, histories, faults>>

\* A commit that raises did not take place, or did and its answer was lost.
InsertUnsure(w) == UNCHANGED <<runs, monitor>> \/ ("lost" \in Enabled /\ Insert(w))

Strand(id) == stranded' = stranded \cup {id} /\ UNCHANGED charged

\* rollback_increment is best effort: what it raises is logged.
RollbackIncrement(id) ==
  \/ charged' = charged \ {id} /\ UNCHANGED stranded
  \/ "lost" \in Enabled /\ Strand(id)

\* Mutant: the units are not given back when the commit fails.
CommitFailsUnrefunded(w) ==
  /\ Fault("error") /\ At(w, "commit")
  /\ InsertUnsure(w)
  /\ Goto(w, "retry")
  /\ UNCHANGED <<clock, started, schedule, queue, charged, histories>>

\* The commit raises and the units are given back.  A charge whose answer is lost ends
\* like a charge whose refund is.
CommitFails(w) ==
  /\ Fault("error") /\ At(w, "commit")
  /\ InsertUnsure(w)
  /\ RollbackIncrement(Spawned(w))
  /\ Goto(w, "retry")
  /\ UNCHANGED <<clock, started, schedule, queue, unsure>>

Published(id) == {[r EXCEPT !.published = @ \/ r.id = id] : r \in runs}

\* _dispatch_monitor_run.
Publish(w) ==
  /\ At(w, "publish")
  /\ runs' = Published(Spawned(w))
  /\ Become(w, Idle)
  /\ UNCHANGED <<clock, monitor, started, schedule, queue, charged, histories, faults>>

\* An exception of the database or Redis before the charge, or of the broker after
\* the commit, which may have the message all the same.
ProcessFails(w) ==
  /\ \/ Fault("error") /\ At(w, "spawn") /\ UNCHANGED <<runs, unsure>>
     \/ Fault("broker") /\ At(w, "publish") /\ UNCHANGED <<runs, unsure>>
     \/ /\ Fault("broker") /\ "lost" \in Enabled /\ At(w, "publish")
        /\ runs' = Published(Spawned(w)) /\ unsure' = unsure \cup {Spawned(w)}
  /\ Goto(w, "retry")
  /\ UNCHANGED <<clock, monitor, started, schedule, queue, charged, stranded>>

\* self.retry.
Retry(w) ==
  LET k == work[w].task IN
  /\ At(w, "retry")
  /\ queue' = IF k.try < MaxRetries THEN queue \cup {[k EXCEPT !.try = @ + 1]} ELSE queue
  /\ Become(w, Idle)
  /\ UNCHANGED <<clock, monitor, started, schedule, runs, charged, histories, faults>>

\* SoftTimeLimitExceeded, after which nothing is retried.  Raised in the coroutine at
\* the commit it gives the units back; raised in the event loop it cancels the commit,
\* and CancelledError passes the handler by.
TimeLimit(w) ==
  /\ Fault("limit")
  /\ \/ work[w].pc \in {"spawn", "publish"} /\ UNCHANGED <<runs, monitor, charged, stranded>>
     \/ At(w, "commit") /\ InsertUnsure(w) /\ RollbackIncrement(Spawned(w))
     \/ At(w, "commit") /\ InsertUnsure(w) /\ Strand(Spawned(w))
  /\ Become(w, Idle)
  /\ UNCHANGED <<clock, started, schedule, queue, unsure>>

\* A worker dies; its task was acknowledged and is gone, a charge stays.
WorkerDies(w) ==
  /\ Fault("crash") /\ ~At(w, "idle")
  /\ stranded' = IF At(w, "commit") THEN stranded \cup {Spawned(w)} ELSE stranded
  /\ Become(w, Idle)
  /\ UNCHANGED <<clock, monitor, started, schedule, queue, runs, charged, unsure>>

-----------------------------------------------------------------------------
(* The users of the API.                                                   *)

Store(m, row) ==
  /\ monitor' = [monitor EXCEPT ![m] = row]
  /\ UNCHANGED <<clock, started, schedule, queue, spawning>>

Create(m) ==
  /\ monitor[m].status = "NEW" /\ UNCHANGED faults
  /\ \E c \in Cadences, skip \in BOOLEAN :
       Store(m, [status |-> "ACTIVE", cadence |-> c, skip |-> skip,
                 next |-> NextRun(c, clock), last |-> None])

\* A new cadence sets the next run anew, of a paused monitor too.
Update(m) ==
  /\ Fault("update") /\ Exists(m)
  /\ \/ \E c \in Cadences :
          Store(m, [monitor[m] EXCEPT !.cadence = c, !.next = NextRun(c, clock)])
     \/ Store(m, [monitor[m] EXCEPT !.skip = ~@])

Pause(m) ==
  /\ Fault("pause") /\ monitor[m].status = "ACTIVE"
  /\ Store(m, [monitor[m] EXCEPT !.status = "PAUSED", !.next = None])

Resume(m) ==
  /\ monitor[m].status = "PAUSED" /\ UNCHANGED faults
  /\ Store(m, [monitor[m] EXCEPT !.status = "ACTIVE",
                                 !.next = NextRun(monitor[m].cadence, clock)])

\* The insert of a run that is not committed yet holds a lock on the monitor's key.
Delete(m) ==
  /\ Fault("delete") /\ Exists(m)
  /\ \A w \in Workers : At(w, "commit") => MonitorOf(w) # m
  /\ Store(m, NoRow("DELETED"))

Triggered == {r \in runs : r.id.no = 0}

TriggerIds == {id \in RunIds \cup stranded : id.no = 0}
NextTrigger == [no |-> 0, try |-> Cardinality(TriggerIds) + 1]

CanTrigger(m) == Cardinality(TriggerIds) < MaxTriggers /\ Exists(m) /\ Arrived # {}

\* trigger_monitor: spawn, advance, charge and commit; the row stays locked from the
\* advance to the commit.
Trigger(m) ==
  /\ CanTrigger(m)
  /\ runs' = runs \cup {[id |-> NextTrigger, monitor |-> m, targets |-> Arrived,
                         published |-> FALSE]}
  /\ charged' = charged \cup {NextTrigger}
  /\ monitor' = [monitor EXCEPT ![m].last = clock,
                                ![m].next = NextRun(monitor[m].cadence, clock)]
  /\ UNCHANGED <<clock, started, schedule, queue, work, histories, faults>>

\* The commit fails and the refund with it, or the server dies between the charge and
\* the commit: the units stay counted.
TriggerFails(m) ==
  /\ Fault("error") /\ "lost" \in Enabled /\ CanTrigger(m)
  /\ charged' = charged \cup {NextTrigger} /\ stranded' = stranded \cup {NextTrigger}
  /\ UNCHANGED <<clock, monitor, started, schedule, queue, work, runs, unsure>>

\* The request publishes the run, or fails to and gives the units back, though the
\* broker may have the message.  A refund that is lost leaves the run as it is.
TriggerEnds(r) ==
  /\ ~r.published /\ r.id \in charged
  /\ \/ runs' = Published(r.id) /\ UNCHANGED <<charged, unsure, faults>>
     \/ Fault("broker") /\ charged' = charged \ {r.id} /\ UNCHANGED <<runs, unsure>>
     \/ /\ Fault("broker") /\ "lost" \in Enabled /\ charged' = charged \ {r.id}
        /\ runs' = Published(r.id) /\ unsure' = unsure \cup {r.id}
  /\ UNCHANGED <<clock, monitor, started, schedule, queue, work, stranded>>

-----------------------------------------------------------------------------

Beat(b) ==
  BeatBegin(b) \/ BeatCommit(b) \/ BeatDispatch(b)

Process(w) ==
  \/ SpawnRun(w) \/ CommitRun(w) \/ Publish(w) \/ Retry(w)
  \/ \E k \in queue : TakeMonitor(w, k)

Fails(w) ==
  QuotaExceeded(w) \/ CommitFails(w) \/ ProcessFails(w) \/ TimeLimit(w) \/ WorkerDies(w)

Users ==
  \/ \E m \in Monitors :
       Create(m) \/ Update(m) \/ Pause(m) \/ Resume(m) \/ Delete(m)
       \/ Trigger(m) \/ TriggerFails(m)
  \/ \E r \in Triggered : TriggerEnds(r)

Next ==
  \/ Tock \/ LockExpires \/ Users
  \/ \E t \in Traces : Arrive(t)
  \/ \E k \in queue : Redeliver(k)
  \/ \E b \in Beats : Beat(b) \/ BeatFails(b) \/ BeatDies(b)
  \/ \E w \in Workers : Process(w) \/ Fails(w)

Spec == Init /\ [][Next]_vars

-----------------------------------------------------------------------------
(* Properties.                                                             *)

\* Types; a task is tried at most max_retries times after the first.
TypeOK ==
  /\ clock \in Time
  /\ monitor \in [Monitors -> Row]
  /\ started \in [Traces -> Time \cup {None}]
  /\ lock \in Beats \cup {None}
  /\ \A b \in Beats : beat[b].pc \in {"idle", "commit", "dispatch"}
  /\ queue \subseteq [no : 1..Len(fires), try : 0..MaxRetries]
  /\ \A w \in Workers :
       work[w].pc \in {"idle", "spawn", "commit", "publish", "retry"}
  /\ runs \subseteq Run
  /\ charged \subseteq RunId /\ stranded \subseteq RunId /\ unsure \subseteq RunIds

SameDue(r, q) ==
  LET f == fires[r.id.no]  g == fires[q.id.no]
  IN f.monitor = g.monitor /\ f.due = g.due

\* A monitor is evaluated once for each due time, however ticks overlap, publishing
\* fails, tasks are retried and users reschedule it: a second evaluation is that of a
\* task the broker delivered again, or follows a publish that raised though the
\* message went out.
OncePerDueTime ==
  \A r, q \in runs :
    r.id.no > 0 /\ q.id.no > 0 /\ r.published /\ q.published /\ SameDue(r, q) =>
      \/ r = q
      \/ r.id.no = q.id.no /\ (r.id \in unsure \/ q.id \in unsure)
      \/ r.id.no # q.id.no /\ (fires[r.id.no].again \/ fires[q.id.no].again)

\* The types hold, and units are counted for runs that exist or are about to be
\* committed, or were left behind by a worker that died or was cancelled there or whose
\* refund was lost; and every published run is paid for, except a triggered one that
\* went out though publishing it raised.
ChargesMatchRuns ==
  /\ TypeOK
  /\ \A id \in charged :
       id \in RunIds \cup stranded \/ \E w \in Workers : At(w, "commit") /\ Spawned(w) = id
  /\ \A r \in runs : r.published => r.id \in charged \/ (r.id.no = 0 /\ r.id \in unsure)

\* A due monitor does not stay due: ticks that die, fail or run into each other's
\* lock do not stop the schedule.
DueIsTaken ==
  \A m \in Monitors : (m \in Due(clock)) ~> (m \notin Due(clock))

\* Fairness: the beat fires every five minutes, its task goes on, a lock left behind
\* expires; failures do not go on for ever.
FairSpec ==
  /\ Spec
  /\ WF_vars(LockExpires)
  /\ WF_vars(\E b \in Beats : BeatBegin(b))
  /\ \A b \in Beats : WF_vars(BeatCommit(b) \/ BeatDispatch(b))
  /\ <>[][\A b \in Beats : ~BeatFails(b) /\ ~BeatDies(b)]_vars
=============================================================================
