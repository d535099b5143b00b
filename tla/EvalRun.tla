------------------------------- MODULE EvalRun -------------------------------
(***************************************************************************)
(* The life of trace evaluation runs: an API request commits the run row   *)
(* and publishes a Celery task (EvalService.dispatch_run); a worker        *)
(* executes it trace by trace, retries it after an error and is cut off by *)
(* time limits (execute_eval_run).                                         *)
(*                                                                         *)
(* A database transaction is one step, except where READ COMMITTED lets    *)
(* its statements see different states: the DELETE that opens an execution *)
(* removes the scores committed when it ran, the commit comes later.       *)
(***************************************************************************)
EXTENDS Integers, FiniteSets

CONSTANTS Runs,         \* eval run ids
          Traces,       \* trace ids of the project
          Metrics,      \* registered metric names
          Workers,      \* Celery worker children
          None,         \* no row
          MaxRetries,   \* max_retries of the task
          MaxCopies,    \* bound: redeliveries by the broker
          MaxFaults,    \* bound: faults and operations of users
          Enabled       \* bound: the faults and user operations of this instance

ASSUME EvalAssumption ==
  /\ MaxRetries \in Nat /\ MaxCopies \in Nat /\ MaxFaults \in Nat
  /\ None \notin Runs
  /\ IsFiniteSet(Traces) /\ IsFiniteSet(Metrics)
  /\ Enabled \subseteq {"retry_failed", "error", "limits", "crash", "broker",
                         "outage", "delete_run", "delete_trace", "score", "redeliver"}

VARIABLES
  api,      \* progress of the request that creates each run
  plan,     \* target_ids and trace_metric_map: the pairs a run evaluates
  runs,     \* the eval_runs rows
  traces,   \* the traces that exist
  scores,   \* the trace_scores rows
  queue,    \* the tasks in the broker
  work,     \* what each worker is doing
  copies,   \* redeliveries so far
  faults,   \* faults and user operations so far
  lost,     \* history: runs whose request or execution was cut off
  touched   \* history: users have deleted or edited something

vars == <<api, plan, runs, traces, scores, queue, work, copies, faults, lost, touched>>

-----------------------------------------------------------------------------
(* State.                                                                  *)

Pairs == Traces \X Metrics
Targets(p) == {x[1] : x \in p}

Status == {"PENDING", "RUNNING", "COMPLETED", "FAILED"}
Row == [status : Status, evaluated : Nat, failed : Nat]
\* A task is executed once; the score rows it writes are told apart by it.
Task == [run : Runs, try : 0..MaxRetries, copy : Nat]
Score == [run : Runs \cup {None}, pair : Pairs, status : {"SUCCESS", "FAILED"}, by : Task]

Idle == [pc |-> "idle", task |-> None, todo |-> {}, doomed |-> {},
         trace |-> None, soft |-> FALSE]

Init ==
  /\ api = [r \in Runs |-> "new"]
  /\ plan = [r \in Runs |-> {}]
  /\ runs = [r \in Runs |-> None]
  /\ traces = Traces
  /\ scores = {}
  /\ queue = {}
  /\ work = [w \in Workers |-> Idle]
  /\ copies = 0 /\ faults = 0
  /\ lost = {} /\ touched = FALSE

\* A fault or an operation of a user.
Happens(what) ==
  /\ what \in Enabled /\ faults < MaxFaults
  /\ faults' = faults + 1

ScoresOf(r) == {s \in scores : s.run = r}
FailedOf(r) == {s \in ScoresOf(r) : s.status = "FAILED"}

-----------------------------------------------------------------------------
(* The API request: prepare, count, commit, publish.                       *)

Count(r, pairs) ==
  /\ api[r] = "new"
  /\ plan' = [plan EXCEPT ![r] = pairs]
  /\ api' = [api EXCEPT ![r] = "counted"]
  /\ UNCHANGED <<runs, traces, scores, queue, work, copies, faults, lost, touched>>

\* prepare_eval_run: every metric on a sample of the traces found (none at all when
\* sampling_rate is 0); prepare_batch_eval_run: on the traces named, which need not
\* exist.
PrepareRun(r) ==
  \E ts \in SUBSET Traces, ms \in SUBSET Metrics \ {{}} : Count(r, ts \X ms)

\* prepare_retry_failed_run: exactly the pairs that failed.
PrepareRetry(r, q) ==
  /\ "retry_failed" \in Enabled /\ runs[q] # None /\ FailedOf(q) # {}
  /\ Count(r, {s.pair : s \in FailedOf(q)})

CommitRun(r) ==
  /\ api[r] = "counted"
  /\ runs' = [runs EXCEPT ![r] = [status |-> "PENDING", evaluated |-> 0, failed |-> 0]]
  /\ api' = [api EXCEPT ![r] = "committed"]
  /\ UNCHANGED <<plan, traces, scores, queue, work, copies, faults, lost, touched>>

PublishRun(r) ==
  /\ api[r] = "committed"
  /\ queue' = queue \cup {[run |-> r, try |-> 0, copy |-> 0]}
  /\ api' = [api EXCEPT ![r] = "done"]
  /\ UNCHANGED <<plan, runs, traces, scores, work, copies, faults, lost, touched>>

\* dispatch_run raises in its commit or in .delay(): the units are refunded, a
\* committed row stays.  The broker may have the task although .delay() raised.
DispatchFails(r) ==
  /\ Happens("broker") /\ api[r] \in {"counted", "committed"}
  /\ \/ UNCHANGED queue
     \/ api[r] = "committed" /\ queue' = queue \cup {[run |-> r, try |-> 0, copy |-> 0]}
  /\ api' = [api EXCEPT ![r] = "failed"]
  /\ lost' = lost \cup {r}
  /\ UNCHANGED <<plan, runs, traces, scores, work, copies, touched>>

\* The API process dies: nothing is refunded.
ApiDies(r) ==
  /\ Happens("crash") /\ api[r] \in {"counted", "committed"}
  /\ api' = [api EXCEPT ![r] = "dead"]
  /\ lost' = lost \cup {r}
  /\ UNCHANGED <<plan, runs, traces, scores, queue, work, copies, touched>>

-----------------------------------------------------------------------------
(* execute_eval_run.                                                       *)

Become(w, local) == work' = [work EXCEPT ![w] = local]
At(w, pc) == work[w].pc = pc
RunOf(w) == work[w].task.run

\* update(EvalRunModel).where(id == run_id): no row, no effect.
Update(r, row) ==
  runs' = IF runs[r] = None THEN runs ELSE [runs EXCEPT ![r] = row]

\* A worker receives the task (it is acknowledged now) and executes the DELETE of
\* earlier scores.
TakeRun(w, m) ==
  /\ At(w, "idle")
  /\ queue' = queue \ {m}
  /\ Become(w, [Idle EXCEPT !.pc = "start", !.task = m, !.doomed = ScoresOf(m.run)])
  /\ UNCHANGED <<api, plan, runs, traces, scores, copies, faults, lost, touched>>

\* Mutant: the scores of an earlier attempt are kept.
StartRunKeepsScores(w) ==
  /\ At(w, "start")
  /\ Update(RunOf(w), [status |-> "RUNNING", evaluated |-> 0, failed |-> 0])
  /\ Become(w, [work[w] EXCEPT !.pc = IF runs[RunOf(w)] = None THEN "failing" ELSE "eval",
                               !.todo = Targets(plan[RunOf(w)]), !.doomed = {}])
  /\ UNCHANGED <<api, plan, traces, scores, queue, copies, faults, lost, touched>>

\* Scores deleted, counters reset, RUNNING: committed.  A missing run raises.
StartRun(w) ==
  /\ At(w, "start")
  /\ scores' = scores \ work[w].doomed
  /\ Update(RunOf(w), [status |-> "RUNNING", evaluated |-> 0, failed |-> 0])
  /\ Become(w, [work[w] EXCEPT !.pc = IF runs[RunOf(w)] = None THEN "failing" ELSE "eval",
                               !.todo = Targets(plan[RunOf(w)]), !.doomed = {}])
  /\ UNCHANGED <<api, plan, traces, queue, copies, faults, lost, touched>>

\* Mutant: a trace that is gone is skipped without being counted.
LoadTraceUncounted(w, t) ==
  /\ At(w, "eval") /\ t \in work[w].todo
  /\ Become(w, IF t \in traces THEN [work[w] EXCEPT !.pc = "metrics", !.trace = t]
                                ELSE [work[w] EXCEPT !.todo = @ \ {t}])
  /\ UNCHANGED <<api, plan, runs, traces, scores, queue, copies, faults, lost, touched>>

\* The next trace is loaded, or is gone and counts as evaluated.
LoadTrace(w, t) ==
  /\ At(w, "eval") /\ t \in work[w].todo
  /\ IF t \in traces
     THEN /\ Become(w, [work[w] EXCEPT !.pc = "metrics", !.trace = t])
          /\ UNCHANGED runs
     ELSE /\ Become(w, [work[w] EXCEPT !.todo = @ \ {t}])
          /\ Update(RunOf(w), [runs[RunOf(w)] EXCEPT !.evaluated = @ + 1])
  /\ UNCHANGED <<api, plan, traces, scores, queue, copies, faults, lost, touched>>

\* The pairs of the plan that are about trace t.
PairsAt(r, t) == {x \in plan[r] : x[1] = t}

\* Every metric of the trace has run, each with a score or a FAILED score; the
\* scores and the progress commit together.
StoreScores(w) ==
  LET r == RunOf(w)  t == work[w].trace  mine == PairsAt(r, t) IN
  /\ At(w, "metrics")
  /\ runs[r] # None /\ t \in traces
  /\ \E bad \in SUBSET mine :
       /\ scores' = scores \cup
            {[run |-> r, pair |-> x, by |-> work[w].task,
              status |-> IF x \in bad THEN "FAILED" ELSE "SUCCESS"] : x \in mine}
       /\ Update(r, [runs[r] EXCEPT !.evaluated = @ + 1, !.failed = @ + Cardinality(bad)])
  /\ Become(w, [work[w] EXCEPT !.pc = "eval", !.todo = @ \ {t}, !.trace = None])
  /\ UNCHANGED <<api, plan, traces, queue, copies, faults, lost, touched>>

\* The run or the trace was deleted under the scores: a foreign key fails, and so
\* does the FAILED score that is tried next in the same transaction.
StoreRejected(w) ==
  /\ At(w, "metrics")
  /\ runs[RunOf(w)] = None \/ work[w].trace \notin traces
  /\ Become(w, [work[w] EXCEPT !.pc = "failing"])
  /\ UNCHANGED <<api, plan, runs, traces, scores, queue, copies, faults, lost, touched>>

CompleteRun(w) ==
  /\ At(w, "eval") /\ work[w].todo = {}
  /\ Update(RunOf(w), [runs[RunOf(w)] EXCEPT !.status = "COMPLETED"])
  /\ Become(w, Idle)
  /\ UNCHANGED <<api, plan, traces, scores, queue, copies, faults, lost, touched>>

\* The database or the LLM engine raises outside a metric.
RunError(w) ==
  /\ Happens("error")
  /\ work[w].pc \in {"start", "eval", "metrics"}
  /\ Become(w, [work[w] EXCEPT !.pc = "failing", !.doomed = {}])
  /\ UNCHANGED <<api, plan, runs, traces, scores, queue, copies, lost, touched>>

\* Mutant: the exception is only logged and retried.
FailRunUnmarked(w) ==
  /\ work[w].pc \in {"failing", "timeout"}
  /\ Become(w, IF At(w, "failing") THEN [work[w] EXCEPT !.pc = "retry"] ELSE Idle)
  /\ UNCHANGED <<api, plan, runs, traces, scores, queue, copies, faults, lost, touched>>

\* _fail_eval_run; a timeout is not retried.
FailRun(w) ==
  /\ work[w].pc \in {"failing", "timeout"}
  /\ Update(RunOf(w), [runs[RunOf(w)] EXCEPT !.status = "FAILED"])
  /\ Become(w, IF At(w, "failing") THEN [work[w] EXCEPT !.pc = "retry"] ELSE Idle)
  /\ UNCHANGED <<api, plan, traces, scores, queue, copies, faults, lost, touched>>

\* The database is still away: _fail_eval_run swallows the exception.
FailLost(w) ==
  /\ Happens("outage") /\ work[w].pc \in {"failing", "timeout"}
  /\ Become(w, IF At(w, "failing") THEN [work[w] EXCEPT !.pc = "retry"] ELSE Idle)
  /\ lost' = lost \cup {RunOf(w)}
  /\ UNCHANGED <<api, plan, runs, traces, scores, queue, copies, touched>>

\* self.retry: the task goes back to the broker, or gives up.
RetryRun(w) ==
  LET m == work[w].task IN
  /\ At(w, "retry")
  /\ queue' = IF m.try < MaxRetries THEN queue \cup {[m EXCEPT !.try = @ + 1]} ELSE queue
  /\ Become(w, Idle)
  /\ UNCHANGED <<api, plan, runs, traces, scores, copies, faults, lost, touched>>

\* SoftTimeLimitExceeded: raised inside a metric it is caught as a failed metric,
\* anywhere else it ends the execution.
SoftLimit(w) ==
  /\ Happens("limits") /\ ~work[w].soft
  /\ \/ /\ At(w, "metrics")
        /\ Become(w, [work[w] EXCEPT !.soft = TRUE])
     \/ /\ work[w].pc \in {"start", "eval", "metrics"}
        /\ Become(w, [work[w] EXCEPT !.pc = "timeout", !.doomed = {}])
  /\ UNCHANGED <<api, plan, runs, traces, scores, queue, copies, lost, touched>>

\* The hard limit kills the child.
HardLimit(w) ==
  /\ work[w].soft /\ ~At(w, "idle")
  /\ Become(w, Idle)
  /\ lost' = lost \cup {RunOf(w)}
  /\ UNCHANGED <<api, plan, runs, traces, scores, queue, copies, faults, touched>>

\* A worker dies; the task was acknowledged and is gone.
WorkerDies(w) ==
  /\ Happens("crash") /\ ~At(w, "idle")
  /\ Become(w, Idle)
  /\ lost' = lost \cup {RunOf(w)}
  /\ UNCHANGED <<api, plan, runs, traces, scores, queue, copies, touched>>

\* A task reserved by a worker but not started within the broker's visibility
\* timeout is delivered to another one too.
Redeliver(m) ==
  /\ Happens("redeliver") /\ copies < MaxCopies
  /\ copies' = copies + 1
  /\ queue' = queue \cup {[m EXCEPT !.copy = copies + 1]}
  /\ UNCHANGED <<api, plan, runs, traces, scores, work, lost, touched>>

-----------------------------------------------------------------------------
(* The users of the API meanwhile.                                         *)

\* delete_eval_run, with its scores or leaving them without a run.  A DELETE that an
\* execution has not committed holds the locks of the rows it removes.
DeleteRun(r) ==
  /\ Happens("delete_run") /\ runs[r] # None
  /\ \A w \in Workers : work[w].doomed \cap ScoresOf(r) = {}
  /\ runs' = [runs EXCEPT ![r] = None]
  /\ scores' \in {scores \ ScoresOf(r),
                  (scores \ ScoresOf(r)) \cup {[s EXCEPT !.run = None] : s \in ScoresOf(r)}}
  /\ touched' = TRUE
  /\ UNCHANGED <<api, plan, traces, queue, work, copies, lost>>

DeleteTrace(t) ==
  /\ Happens("delete_trace")
  /\ traces' = traces \ {t}
  /\ scores' = {s \in scores : s.pair[1] # t}
  /\ touched' = TRUE
  /\ UNCHANGED <<api, plan, runs, queue, work, copies, lost>>

\* update_score makes the score a successful annotation; delete_score removes it.
ChangeScore(s) ==
  /\ Happens("score")
  /\ \A w \in Workers : s \notin work[w].doomed   \* the DELETE holds the row's lock
  /\ scores' \in {scores \ {s}, (scores \ {s}) \cup {[s EXCEPT !.status = "SUCCESS"]}}
  /\ touched' = TRUE
  /\ UNCHANGED <<api, plan, runs, traces, queue, work, copies, lost>>

-----------------------------------------------------------------------------

Request(r) ==
  \/ PrepareRun(r) \/ CommitRun(r) \/ PublishRun(r) \/ DispatchFails(r) \/ ApiDies(r)
  \/ \E q \in Runs : PrepareRetry(r, q)

Execute(w) ==
  \/ StartRun(w) \/ StoreScores(w) \/ StoreRejected(w) \/ CompleteRun(w)
  \/ FailRun(w) \/ RetryRun(w)
  \/ \E t \in Traces : LoadTrace(w, t)

Fault(w) == RunError(w) \/ SoftLimit(w) \/ HardLimit(w) \/ WorkerDies(w) \/ FailLost(w)

Users ==
  \/ \E r \in Runs : DeleteRun(r)
  \/ \E t \in traces : DeleteTrace(t)
  \/ \E s \in scores : ChangeScore(s)

Next ==
  \/ \E r \in Runs : Request(r)
  \/ \E w \in Workers : Execute(w) \/ Fault(w)
  \/ \E m \in queue : Redeliver(m) \/ \E w \in Workers : TakeRun(w, m)
  \/ Users

Spec == Init /\ [][Next]_vars

-----------------------------------------------------------------------------
(* Properties.                                                             *)

\* Types of the rows, the tasks and the local state of the workers; a task is
\* retried at most max_retries times and an execution only visits its targets.
TypeOK ==
  /\ api \in [Runs -> {"new", "counted", "committed", "done", "failed", "dead"}]
  /\ plan \in [Runs -> SUBSET Pairs]
  /\ runs \in [Runs -> Row \cup {None}]
  /\ traces \subseteq Traces
  /\ scores \subseteq Score
  /\ queue \subseteq Task
  /\ \A w \in Workers :
       /\ work[w].pc \in {"idle", "start", "eval", "metrics", "failing", "timeout", "retry"}
       /\ ~At(w, "idle") => work[w].task \in Task /\ work[w].todo \subseteq Targets(plan[RunOf(w)])
  /\ copies \in 0..MaxCopies

\* The types hold, and a retried execution replaces what the failed one stored and
\* counted: a run holds at most one score for a trace and a metric, its progress never
\* exceeds its targets nor failed_count the evaluations asked for; or that once per
\* delivery, where the broker delivers the task again and executions run side by side.
AttemptsReplace ==
  /\ TypeOK
  /\ \A s \in scores : s.run # None =>
       Cardinality({q \in ScoresOf(s.run) : q.pair = s.pair}) <= copies + 1
  /\ \A r \in Runs : runs[r] # None =>
       /\ runs[r].evaluated <= (copies + 1) * Cardinality(Targets(plan[r]))
       /\ runs[r].failed <= (copies + 1) * Cardinality(plan[r])

\* When a run becomes COMPLETED every target has been counted exactly once, every
\* pair whose trace still exists has a score, and failed_count is the number of
\* FAILED scores, whatever earlier attempts left behind (and unless the task was
\* delivered twice).
CompletedIsComplete ==
  [][\A r \in Runs :
       (/\ copies = 0 /\ runs[r] # None /\ runs'[r] # None
        /\ runs'[r].status = "COMPLETED" /\ runs[r] # runs'[r]) =>
         /\ runs'[r].evaluated = Cardinality(Targets(plan[r]))
         /\ ~touched =>
              /\ {s.pair : s \in ScoresOf(r)} = plan[r]
              /\ runs'[r].failed = Cardinality(FailedOf(r))]_vars

\* Every committed run ends up COMPLETED or FAILED for good, or is deleted, unless its
\* request or one of its executions was cut off.
EventuallyEnds ==
  \A r \in Runs :
    (runs[r] # None) ~>
      (r \in lost \/ [](runs[r] = None \/ runs[r].status \in {"COMPLETED", "FAILED"}))

\* "Runs progress from `PENDING` to `RUNNING`, then `COMPLETED` or `FAILED`" (run-eval-cli).
EveryRunEnds ==
  \A r \in Runs :
    (runs[r] # None) ~> [](runs[r] = None \/ runs[r].status \in {"COMPLETED", "FAILED"})

\* Fairness: a request that is being served goes on, workers take tasks from the
\* broker, and an execution goes on until it ends.
FairSpec ==
  /\ Spec
  /\ \A r \in Runs : WF_vars(CommitRun(r) \/ PublishRun(r))
  /\ WF_vars(\E m \in queue, w \in Workers : TakeRun(w, m))
  /\ \A w \in Workers : WF_vars(Execute(w))
=============================================================================
