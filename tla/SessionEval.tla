------------------------------ MODULE SessionEval ------------------------------
(***************************************************************************)
(* Session evaluation runs (execute_session_eval_run).  For each session   *)
(* of a run a worker reads the session's traces, takes every signal of     *)
(* every trace from a score that is already there or computes and stores   *)
(* it as a trace score, commits these, and aggregates them into one score  *)
(* per session metric.  Signals are shared: with other runs and with what  *)
(* users annotate, edit, move and delete meanwhile.                        *)
(*                                                                         *)
(* The request that creates a run commits and publishes it in one step;    *)
(* EvalRun, whose life cycle these runs follow, has the faults in between, *)
(* lost workers and redelivered tasks.  Score values are 0..Scale, but the *)
(* text of a CATEGORICAL score may spell any number; weights are in tenths *)
(* and may be negative.                                                    *)
(***************************************************************************)
EXTENDS Integers, FiniteSets, FiniteSetsExt, Functions

CONSTANTS Runs, Sessions, Traces, Workers,
          Home,        \* session of each trace in the beginning
          Signals,     \* SIGNAL_METRICS
          Metrics,     \* the session metrics that runs are created with
          Weighed,     \* these and further signals that metrics weigh
          Weightings,  \* the weights of runs: the defaults, with what a request overrides
          DefaultWeights, \* DEFAULT_SIGNAL_WEIGHTS
          Spelled,     \* numbers that texts spell
          TopK,        \* TOP_K_PERCENTILE
          Scale,       \* a score of 1.0
          MaxRetries,  \* max_retries of the task
          MaxEdits,    \* bound: operations of users
          Outcomes,    \* bound: what computing a signal gives: values, or None, a failure
          Asked,       \* bound: the sessions and weights that runs are created with
          Enabled,     \* bound: the faults and operations of this instance
          None, Text   \* no row, no value; a value that is not a number

VARIABLES
  home,     \* session_id of the traces rows
  runs,     \* the eval_runs rows
  plan,     \* sessions, metrics and signal_weights of each run
  tscores,  \* the trace_scores rows
  sscores,  \* the session_scores rows
  queue,    \* the tasks in the broker
  work,     \* what each worker is doing
  edits     \* operations of users so far

vars == <<home, runs, plan, tscores, sscores, queue, work, edits>>

-----------------------------------------------------------------------------
(* State.                                                                  *)

Values == 0..Scale
\* float() of a value.
Readings == Values \cup Spelled
MetricNames == {"agent_reliability", "agent_consistency"}
Pairs == Traces \X Signals
Row == [status : {"PENDING", "RUNNING", "COMPLETED", "FAILED"}, evaluated : Nat, failed : Nat]
\* at: place in the order of created_at among the scores of the pair.
TraceScore == [pair : Pairs, type : {"NUMERIC", "CATEGORICAL"}, value : Readings \cup {None, Text},
               status : {"SUCCESS", "FAILED"}, run : Runs \cup {None}, manual : BOOLEAN, at : Nat]
\* basis: per_trace_signals of the metadata.
SessionScore == [session : Sessions, metric : Metrics, value : Nat \cup {None},
                 status : {"SUCCESS", "FAILED"}, run : Runs \cup {None}, at : Nat,
                 basis : SUBSET (Pairs \X Readings)]

ASSUME SessionEvalAssumption ==
  /\ \A S \in {Traces, Sessions, Workers, Signals, Weighed} : IsFiniteSet(S)
  /\ "confidence" \in Signals
  /\ Asked \subseteq [sessions : SUBSET Sessions, weights : Weightings]
  /\ Outcomes \subseteq Values \cup {None}
  /\ Home \in [Traces -> Sessions] /\ Signals \subseteq Weighed
  /\ \A wt \in Weightings : DOMAIN wt = Weighed /\ \A g \in Weighed : wt[g] \in Int
  /\ DefaultWeights \in Weightings /\ Spelled \subseteq Int /\ IsFiniteSet(Spelled)
  /\ Metrics \subseteq MetricNames /\ Metrics # {}
  /\ TopK \in 1..100 /\ Scale \in Nat \ {0} /\ MaxRetries \in Nat /\ MaxEdits \in Nat
  /\ Enabled \subseteq {"error", "limit", "annotate", "edit", "delete", "move"}
  /\ None \notin Runs \cup Sessions \cup Readings \cup Row \cup TraceScore
  /\ Text \notin Readings \cup {None}

NoPlan == [sessions |-> {}, metrics |-> {}, weights |-> DefaultWeights]
Idle == [pc |-> "idle", task |-> None, todo |-> {}, session |-> None, pairs |-> {},
         signals |-> {}, rows |-> {}]

Init ==
  /\ home = Home
  /\ runs = [r \in Runs |-> None]
  /\ plan = [r \in Runs |-> NoPlan]
  /\ tscores = {} /\ sscores = {} /\ queue = {}
  /\ work = [w \in Workers |-> Idle]
  /\ edits = 0

TracesOf(s) == {t \in Traces : home[t] = s}
FailedScores(r) == {x \in sscores : x.run = r /\ x.status = "FAILED"}

-----------------------------------------------------------------------------
(* Aggregation, with the weights wt.  A basis is a set of <<pair, value>>. *)

SignalsOf(basis, t) == {<<b[1][2], b[2]>> : b \in {x \in basis : x[1][1] = t}}
\* Mutant: the signal itself is taken for the risk.
RiskInverted(wt, g) == wt[g[1]] * g[2]
Risk(wt, g) == wt[g[1]] * (Scale - g[2])

\* Traces that take part in a metric.
Evaluable(metric, basis) ==
  {b[1][1] : b \in {x \in basis : metric = "agent_reliability" \/ x[1][2] = "confidence"}}

\* agent_reliability, in thousandths: the worst signal of a trace, the mean of the k
\* traces at highest risk, and a tenth of the highest.
StepRisk(wt, basis, t) == Max({Risk(wt, g) : g \in SignalsOf(basis, t)})
TailSize(n) == Max({1, (n * TopK + 99) \div 100})
Penalty(risk, k) ==
  LET top == Max({SumFunctionOnSet(risk, S) : S \in kSubset(k, DOMAIN risk)}) IN
  ((9 * top + k * Max(Range(risk))) * 10) \div (k * Scale)
Reliability(wt, basis) ==
  LET T == Evaluable("agent_reliability", basis)
      risk == [t \in T |-> StepRisk(wt, basis, t)] IN
  IF T = {} THEN 1000
  ELSE Max({0, Min({1000, 1000 - Penalty(risk, TailSize(Cardinality(T)))})})

\* agent_consistency, in thousandths: confidence risk amplified by the other risks, as a
\* root mean square, at most one.
Confidence(basis, t) == CHOOSE g \in SignalsOf(basis, t) : g[1] = "confidence"
Amplifiers(basis, t) == {g \in SignalsOf(basis, t) : g[1] # "confidence"}
Uncertainty(wt, basis, t) ==
  (10 * Scale + SumFunction([g \in Amplifiers(basis, t) |-> Risk(wt, g)]))
    * Risk(wt, Confidence(basis, t))
One == 100 * Scale * Scale
RootMean(total, n) == Max({x \in 0..One : x * x * n <= total})
Consistency(wt, basis) ==
  LET T == Evaluable("agent_consistency", basis)
      square == [t \in T |-> Uncertainty(wt, basis, t) * Uncertainty(wt, basis, t)] IN
  IF T = {} THEN 1000 ELSE ((One - RootMean(SumFunction(square), Cardinality(T))) * 1000) \div One

\* precomputed_signals: at most one value for a signal of a trace.
Bases == {B \in SUBSET ((Traces \X Weighed) \X Readings) :
            \A b, c \in B : b[1] = c[1] => b = c}
Aggregate(metric, wt, basis) ==
  IF metric = "agent_reliability" THEN Reliability(wt, basis) ELSE Consistency(wt, basis)

-----------------------------------------------------------------------------
(* The requests that create runs.                                          *)

Dispatch(r, p) ==
  /\ plan[r] = NoPlan
  /\ plan' = [plan EXCEPT ![r] = p]
  /\ runs' = [runs EXCEPT ![r] = [status |-> "PENDING", evaluated |-> 0, failed |-> 0]]
  /\ queue' = queue \cup {[run |-> r, try |-> 0]}
  /\ UNCHANGED <<home, tscores, sscores, work, edits>>

\* A sample of the sessions that match the filters.
CreateRun(r, S, ms, wt) ==
  /\ S \subseteq {home[t] : t \in Traces} \ {None}
  /\ Dispatch(r, [sessions |-> S, metrics |-> ms, weights |-> wt])
\* The sessions named, whether they exist or not.
CreateBatchRun(r, S, ms, wt) ==
  /\ S # {}
  /\ Dispatch(r, [sessions |-> S, metrics |-> ms, weights |-> wt])
\* Sessions and metrics of the FAILED session scores, in every combination, weighed as before.
RetryFailed(r, q) ==
  LET failed == FailedScores(q) IN
  /\ runs[q] # None /\ failed # {}
  /\ Dispatch(r, [sessions |-> {x.session : x \in failed}, metrics |-> {x.metric : x \in failed},
                 weights |-> plan[q].weights])

-----------------------------------------------------------------------------
(* execute_session_eval_run.                                               *)

Become(w, local) == work' = [work EXCEPT ![w] = local]
RunOf(w) == work[w].task.run
Update(r, row) == runs' = IF runs[r] = None THEN runs ELSE [runs EXCEPT ![r] = row]
Failing(w) == [work[w] EXCEPT !.pc = "failing", !.pairs = {}, !.signals = {}, !.rows = {}]

Take(w, m) ==
  /\ work[w].pc = "idle"
  /\ queue' = queue \ {m}
  /\ Become(w, [Idle EXCEPT !.pc = "start", !.task = m])
  /\ UNCHANGED <<home, runs, plan, tscores, sscores, edits>>

\* Mutant: the session scores of an earlier attempt stay.
StartKeeps(w) ==
  LET r == RunOf(w) IN
  /\ work[w].pc = "start"
  /\ tscores' = {x \in tscores : x.run # r}
  /\ Update(r, [status |-> "RUNNING", evaluated |-> 0, failed |-> 0])
  /\ Become(w, IF runs[r] = None THEN Failing(w)
               ELSE [work[w] EXCEPT !.pc = "next", !.todo = plan[r].sessions])
  /\ UNCHANGED <<home, plan, sscores, queue, edits>>
\* Phase 0: what an earlier attempt stored goes, signals included.
Start(w) ==
  LET r == RunOf(w) IN
  /\ work[w].pc = "start"
  /\ tscores' = {x \in tscores : x.run # r}
  /\ sscores' = {x \in sscores : x.run # r}
  /\ Update(r, [status |-> "RUNNING", evaluated |-> 0, failed |-> 0])
  /\ Become(w, IF runs[r] = None THEN Failing(w)
               ELSE [work[w] EXCEPT !.pc = "next", !.todo = plan[r].sessions])
  /\ UNCHANGED <<home, plan, queue, edits>>

\* Mutant: a session without traces is skipped without being counted.
LoadUncounted(w, s) ==
  /\ work[w].pc = "next" /\ s \in work[w].todo
  /\ Become(w, IF TracesOf(s) = {} THEN [work[w] EXCEPT !.todo = @ \ {s}]
               ELSE [work[w] EXCEPT !.pc = "signals", !.session = s,
                                    !.pairs = TracesOf(s) \X Signals])
  /\ UNCHANGED <<home, runs, plan, tscores, sscores, queue, edits>>
\* Steps A and B.  A session without traces is counted and skipped.
LoadSession(w, s) ==
  /\ work[w].pc = "next" /\ s \in work[w].todo
  /\ IF TracesOf(s) = {}
     THEN /\ Update(RunOf(w), [runs[RunOf(w)] EXCEPT !.evaluated = @ + 1])
          /\ Become(w, [work[w] EXCEPT !.todo = @ \ {s}])
     ELSE /\ Become(w, [work[w] EXCEPT !.pc = "signals", !.session = s,
                                       !.pairs = TracesOf(s) \X Signals])
          /\ UNCHANGED runs
  /\ UNCHANGED <<home, plan, tscores, sscores, queue, edits>>

\* find_existing_trace_score: the latest successful one, of this run or another.
Existing(w, x) ==
  LET found == {c \in tscores \cup work[w].rows : c.pair = x /\ c.status = "SUCCESS"} IN
  IF found = {} THEN None ELSE CHOOSE c \in found : \A d \in found : d.at <= c.at

\* created_at of a new row: after those of the rows there are.
After(S) == IF S = {} THEN 1 ELSE 1 + Max({c.at : c \in S})
RowsOf(x) == {c \in tscores \cup UNION {work[w].rows : w \in Workers} : c.pair = x}

\* Step C for one pair, in the order of the loops: the existing value is used, whatever the
\* type of the score.  A value that is not a number raises where nothing catches it.
ReuseSignal(w) ==
  LET x == CHOOSE y \in work[w].pairs : TRUE
      found == Existing(w, x) IN
  /\ work[w].pc = "signals" /\ work[w].pairs # {}
  /\ found # None /\ found.value # None
  /\ Become(w, IF found.value = Text THEN Failing(w)
               ELSE [work[w] EXCEPT !.pairs = @ \ {x}, !.signals = @ \cup {<<x, found.value>>}])
  /\ UNCHANGED <<home, runs, plan, tscores, sscores, queue, edits>>

\* Or it is computed, or fails, and a row is inserted.  Without its trace or its run the
\* foreign key refuses both rows.
ComputeSignal(w, v) ==
  LET x == CHOOSE y \in work[w].pairs : TRUE
      found == Existing(w, x)
      row == [pair |-> x, type |-> "NUMERIC", value |-> v,
              status |-> IF v = None THEN "FAILED" ELSE "SUCCESS",
              run |-> RunOf(w), manual |-> FALSE, at |-> After(RowsOf(x))] IN
  /\ work[w].pc = "signals" /\ work[w].pairs # {}
  /\ found # None => found.value = None
  /\ Become(w, IF home[x[1]] = None \/ runs[RunOf(w)] = None THEN Failing(w)
               ELSE [work[w] EXCEPT !.pairs = @ \ {x}, !.rows = @ \cup {row},
                                    !.signals = IF v = None THEN @ ELSE @ \cup {<<x, v>>}])
  /\ UNCHANGED <<home, runs, plan, tscores, sscores, queue, edits>>

CommitSignals(w) ==
  /\ work[w].pc = "signals" /\ work[w].pairs = {}
  /\ tscores' = tscores \cup work[w].rows
  /\ Become(w, [work[w] EXCEPT !.pc = "metrics", !.rows = {}])
  /\ UNCHANGED <<home, runs, plan, sscores, queue, edits>>

\* Steps D and E: every metric of the run, each with a score or a FAILED score.
StoreSessionScores(w) ==
  LET r == RunOf(w)
      s == work[w].session
      place(m) == After({x \in sscores : x.session = s /\ x.metric = m}) IN
  /\ work[w].pc = "metrics"
  /\ IF runs[r] = None
     THEN Become(w, Failing(w)) /\ UNCHANGED <<runs, sscores>>
     ELSE /\ \E bad \in SUBSET plan[r].metrics :
               /\ sscores' = sscores \cup
                    {[session |-> s, metric |-> m, run |-> r, at |-> place(m),
                      value |-> IF m \in bad THEN None ELSE Aggregate(m, plan[r].weights, work[w].signals),
                      status |-> IF m \in bad THEN "FAILED" ELSE "SUCCESS",
                      basis |-> IF m \in bad THEN {} ELSE work[w].signals] : m \in plan[r].metrics}
               /\ Update(r, [runs[r] EXCEPT !.evaluated = @ + 1, !.failed = @ + Cardinality(bad)])
          /\ Become(w, [work[w] EXCEPT !.pc = "next", !.todo = @ \ {s}, !.session = None,
                                       !.signals = {}])
  /\ UNCHANGED <<home, plan, tscores, queue, edits>>

CompleteRun(w) ==
  /\ work[w].pc = "next" /\ work[w].todo = {}
  /\ Update(RunOf(w), [runs[RunOf(w)] EXCEPT !.status = "COMPLETED"])
  /\ Become(w, Idle)
  /\ UNCHANGED <<home, plan, tscores, sscores, queue, edits>>

\* The database raises, or the soft time limit outside a signal or a metric.
RunError(w) ==
  /\ work[w].pc \in {"start", "next", "signals", "metrics"}
  /\ \/ "error" \in Enabled /\ Become(w, Failing(w))
     \/ "limit" \in Enabled /\ Become(w, [Failing(w) EXCEPT !.pc = "timeout"])
  /\ UNCHANGED <<home, runs, plan, tscores, sscores, queue, edits>>

\* _fail_eval_run, and the retry of anything but a timeout.
FailRun(w) ==
  LET m == work[w].task IN
  /\ work[w].pc \in {"failing", "timeout"}
  /\ Update(RunOf(w), [runs[RunOf(w)] EXCEPT !.status = "FAILED"])
  /\ queue' = IF work[w].pc = "failing" /\ m.try < MaxRetries
              THEN queue \cup {[m EXCEPT !.try = @ + 1]} ELSE queue
  /\ Become(w, Idle)
  /\ UNCHANGED <<home, plan, tscores, sscores, edits>>

-----------------------------------------------------------------------------
(* The users meanwhile.  An inserted row that is not committed holds the   *)
(* locks of its trace and its run.                                         *)

Edit(what) ==
  /\ what \in Enabled /\ edits < MaxEdits
  /\ edits' = edits + 1
  /\ UNCHANGED <<plan, queue, work>>
Uncommitted == UNION {work[w].rows : w \in Workers}

\* validate_score_value.  BOOLEAN scores are among the CATEGORICAL ones, as texts.
Accepted(type) == IF type = "NUMERIC" THEN Values ELSE Readings \cup {Text}

\* create_score: a score of any type, with any name.
CreateScore(x, type, v) ==
  /\ Edit("annotate") /\ home[x[1]] # None
  /\ v \in Accepted(type)
  /\ tscores' = tscores \cup {[pair |-> x, type |-> type, value |-> v, status |-> "SUCCESS",
                               run |-> None, manual |-> TRUE, at |-> After(RowsOf(x))]}
  /\ UNCHANGED <<home, runs, sscores>>
\* update_score: SUCCESS, with a new value of its type or the one it has; the run stays.
UpdateScore(c, v) ==
  /\ Edit("edit") /\ v \in Accepted(c.type) \cup {c.value}
  /\ tscores' = (tscores \ {c}) \cup {[c EXCEPT !.value = v, !.status = "SUCCESS", !.manual = TRUE]}
  /\ UNCHANGED <<home, runs, sscores>>
DeleteScore(c) ==
  /\ Edit("delete")
  /\ tscores' = tscores \ {c}
  /\ UNCHANGED <<home, runs, sscores>>
\* delete_session_score.
DeleteSessionScore(c) ==
  /\ Edit("delete")
  /\ sscores' = sscores \ {c}
  /\ UNCHANGED <<home, runs, tscores>>
\* delete_eval_run, with its scores or leaving them without a run.
DeleteRun(r, all) ==
  /\ Edit("delete") /\ runs[r] # None
  /\ \A c \in Uncommitted : c.run # r
  /\ runs' = [runs EXCEPT ![r] = None]
  /\ IF all
     THEN tscores' = {c \in tscores : c.run # r} /\ sscores' = {c \in sscores : c.run # r}
     ELSE /\ tscores' = {[c EXCEPT !.run = IF @ = r THEN None ELSE @] : c \in tscores}
          /\ sscores' = {[c EXCEPT !.run = IF @ = r THEN None ELSE @] : c \in sscores}
  /\ UNCHANGED home
\* The trace is deleted, or moved to another session by a PATCH.
ChangeTrace(t, s) ==
  /\ Edit(IF s = None THEN "delete" ELSE "move") /\ home[t] \notin {None, s}
  /\ s = None => \A c \in Uncommitted : c.pair[1] # t
  /\ home' = [home EXCEPT ![t] = s]
  /\ tscores' = {c \in tscores : s = None => c.pair[1] # t}
  /\ UNCHANGED <<runs, sscores>>

-----------------------------------------------------------------------------
(* What the score routes report, over all time.                            *)

Named(m) == {c \in sscores : c.metric = m}
TraceNamed(g) == {c \in tscores : c.pair[2] = g}
Succeeded(S) == {c \in S : c.status = "SUCCESS"}
Counts(S) == [success_count |-> Cardinality(Succeeded(S)),
              failed_count |-> Cardinality({c \in S : c.status = "FAILED"})]
\* get_session_score_summary, get_score_summary.
ScoreSummary(m) == Counts(Named(m))
TraceSummary(g) == Counts(TraceNamed(g))
\* width_bucket puts 1.0 past the last bucket.
WidthBucket(v, n) == IF v >= 1000 THEN n + 1 ELSE (v * n) \div 1000 + 1
\* Mutant: the buckets end at 1.0.
DistributionCut(m, n) ==
  [b \in 1..n |-> Cardinality({c \in Succeeded(Named(m)) : WidthBucket(c.value, n) = b})]
\* get_session_score_distribution.
ScoreDistribution(m, n) ==
  [b \in 1..(n + 1) |-> Cardinality({c \in Succeeded(Named(m)) : WidthBucket(c.value, n) = b})]
\* get_score_distribution: a successful score without a value has no bucket, and the route
\* raises.
TraceDistribution(g, n) ==
  LET numeric == {c \in Succeeded(TraceNamed(g)) : c.type = "NUMERIC"} IN
  IF \E c \in numeric : c.value = None THEN None
  ELSE [b \in 1..(n + 1) |->
          Cardinality({c \in numeric : WidthBucket((c.value * 1000) \div Scale, n) = b})]
\* get_session_score_history.
ScoreHistory(s, m) == {c \in Named(m) : c.session = s}
\* get_session_score_comparison: the latest successful score of each session.
Comparison(m) ==
  LET S == Succeeded(Named(m)) IN
  {c \in S : \A d \in S : d.session = c.session => d.at <= c.at}

-----------------------------------------------------------------------------

Request(r) ==
  \E a \in Asked : \/ CreateRun(r, a.sessions, Metrics, a.weights)
                  \/ CreateBatchRun(r, a.sessions, Metrics, a.weights)

Execute(w) ==
  \/ Start(w) \/ ReuseSignal(w) \/ CommitSignals(w) \/ StoreSessionScores(w)
  \/ CompleteRun(w) \/ FailRun(w)
  \/ \E s \in Sessions : LoadSession(w, s)
  \/ \E v \in Outcomes : ComputeSignal(w, v)

Users ==
  \/ \E x \in Pairs, type \in {"NUMERIC", "CATEGORICAL"}, v \in Readings \cup {Text} :
       CreateScore(x, type, v)
  \/ \E c \in tscores :
       DeleteScore(c) \/ \E v \in Readings \cup {Text, c.value} : UpdateScore(c, v)
  \/ \E c \in sscores : DeleteSessionScore(c)
  \/ \E r \in Runs, all \in BOOLEAN : DeleteRun(r, all)
  \/ \E t \in Traces, s \in Sessions \cup {None} : ChangeTrace(t, s)

Next ==
  \/ \E r \in Runs : Request(r) \/ \E q \in Runs : RetryFailed(r, q)
  \/ \E w \in Workers : Execute(w) \/ RunError(w) \/ \E m \in queue : Take(w, m)
  \/ Users

Spec == Init /\ [][Next]_vars

-----------------------------------------------------------------------------
(* Properties.                                                             *)

\* The rows keep their types, and every session score is a number between 0 and 1.0.
TypeOK ==
  /\ home \in [Traces -> Sessions \cup {None}]
  /\ runs \in [Runs -> Row \cup {None}]
  /\ plan \in [Runs -> [sessions : SUBSET Sessions, metrics : SUBSET Metrics, weights : Weightings]]
  /\ tscores \subseteq TraceScore
  /\ \A c \in sscores : c \in SessionScore /\ (c.value # None => c.value <= 1000)
  /\ queue \subseteq [run : Runs, try : 0..MaxRetries]
  /\ edits \in 0..MaxEdits

\* The types hold, and a retried execution replaces what the failed one stored, whatever
\* users move, edit or delete meanwhile: a run holds one score for a session and a metric,
\* and for a signal of a trace no more than one per session the trace was found in.
OneScorePerTarget ==
  /\ TypeOK
  /\ \A c, d \in sscores : (c.run # None /\ c.run = d.run /\ c.session = d.session
                           /\ c.metric = d.metric) => c = d
  /\ \A c \in tscores : c.run # None =>
       Cardinality({d \in tscores : d.run = c.run /\ d.pair = c.pair})
         <= Cardinality(plan[c.run].sessions)

\* A run that becomes COMPLETED has counted each of its sessions once; if users left the
\* data alone every session with traces has a score for every metric, and failed_count is
\* the number of FAILED session scores, also after attempts that failed half way.
CompletedIsComplete ==
  [][\A r \in Runs :
       (runs[r] # None /\ runs'[r] # None /\ runs'[r].status = "COMPLETED" /\ runs[r] # runs'[r]) =>
         /\ runs'[r].evaluated = Cardinality(plan[r].sessions)
         /\ edits = 0 =>
              /\ {<<c.session, c.metric>> : c \in {x \in sscores : x.run = r}}
                   = {s \in plan[r].sessions : TracesOf(s) # {}} \X plan[r].metrics
              /\ runs'[r].failed = Cardinality(FailedScores(r))]_vars

\* Better signals never give a lower score: of two inputs of a metric about the same
\* traces, the one whose signals are some of the other's, each at least as good, scores at
\* least as high.  Better is higher, or lower for a weight that is negative.  A signal that
\* is missing is skipped and does not count against a trace.  For agent_reliability this
\* holds for all inputs and weights; agent_consistency squares, so a risk below zero, from a
\* negative weight or a text that spells more than 1.0, would count like one above it, and
\* the inputs compared have none.  As the inputs do not depend on the state it is enough to
\* look at them in the beginning.
BetterSignalsScoreHigher ==
  (edits = 0 /\ \A r \in Runs : plan[r] = NoPlan) =>
    \A m \in MetricNames, wt \in Weightings, c, d \in Bases :
      (/\ Evaluable(m, c) = Evaluable(m, d)
       /\ \A g \in d : \E h \in c : h[1] = g[1] /\ wt[g[1][2]] * h[2] <= wt[g[1][2]] * g[2]
       /\ m = "agent_consistency" => \A b \in c \cup d : Risk(wt, <<b[1][2], b[2]>>) >= 0)
        => Aggregate(m, wt, c) <= Aggregate(m, wt, d)

\* The score routes agree: the buckets of a distribution and the successes of the summary
\* (annotations of another type than NUMERIC apart), the histories of the sessions and the summary,
\* the comparison and the sessions that have a successful score.
ReportsAgree ==
  LET n == 2 IN
  /\ \A m \in Metrics :
       /\ SumFunction(ScoreDistribution(m, n)) = ScoreSummary(m).success_count
       /\ SumFunction([s \in Sessions |-> Cardinality(ScoreHistory(s, m))])
            = ScoreSummary(m).success_count + ScoreSummary(m).failed_count
       /\ Cardinality(Comparison(m)) = Cardinality({c.session : c \in Succeeded(Named(m))})
  /\ \A g \in Signals :
       TraceDistribution(g, n) # None =>
         SumFunction(TraceDistribution(g, n)) + Cardinality({c \in TraceNamed(g) : c.type # "NUMERIC"})
           = TraceSummary(g).success_count
================================================================================
