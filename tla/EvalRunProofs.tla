---------------------------- MODULE EvalRunProofs ----------------------------
(***************************************************************************)
(* For any number of runs, traces, metrics, workers and retries: an        *)
(* execution replaces what earlier attempts of its task stored and         *)
(* counted, and a run that becomes COMPLETED is complete.                  *)
(*                                                                         *)
(* The tasks of a run form chains: the one that was published and one for  *)
(* each redelivery, told apart by copy; a retry stays in its chain.  A     *)
(* chain has one token, its task in the broker or the worker that executes *)
(* it, and so its executions follow each other: the DELETE that opens one  *)
(* sees all scores of the ones before, which leaves a score for each pair  *)
(* and chain.  The counters are bounded by a history that the invariant    *)
(* only says to exist: the targets each chain has counted since the row    *)
(* was reset.                                                              *)
(***************************************************************************)
EXTENDS EvalRun, FiniteSetTheorems, TLAPS

-----------------------------------------------------------------------------
(* The inductive invariant.                                                *)

Local == [pc : {"idle", "start", "eval", "metrics", "failing", "timeout", "retry"},
          task : Task \cup {None}, todo : SUBSET Traces, doomed : SUBSET Score,
          trace : Traces \cup {None}, soft : BOOLEAN]
Busy(q) == q.pc # "idle"
Evaluating(q) == q.pc \in {"eval", "metrics"}

\* An execution has a task and visits targets of its run; it deletes scores of its run.
WorkOK(q, planned, n) ==
  /\ Busy(q) => q.task \in Task /\ q.task.copy <= n /\ q.todo \subseteq Targets(planned[q.task.run])
  /\ q.pc = "start" => \A s \in q.doomed : s.run = q.task.run
  /\ q.pc = "metrics" => q.trace \in q.todo

Types ==
  /\ TypeOK /\ touched \in BOOLEAN
  /\ work \in [Workers -> Local]
  /\ \A w \in Workers : WorkOK(work[w], plan, copies)
  /\ \A k \in queue : k.copy <= copies
  /\ \A s \in scores : s.by.copy <= copies
  /\ \A r \in Runs : api[r] \in {"new", "counted"} => runs[r] = None

\* Tasks of one chain.
Same(k, l) == k.run = l.run /\ k.copy = l.copy

\* A chain has one token, and a run none before it is published.
OneToken ==
  /\ \A k, l \in queue : Same(k, l) => k = l
  /\ \A k \in queue, w \in Workers : Busy(work[w]) => ~Same(k, work[w].task)
  /\ \A v, w \in Workers : Busy(work[v]) /\ Busy(work[w]) /\ Same(work[v].task, work[w].task) => v = w
  /\ \A r \in Runs : api[r] \in {"new", "counted", "committed"} =>
       /\ \A k \in queue : k.run # r
       /\ \A w \in Workers : Busy(work[w]) => work[w].task.run # r

\* The score s was stored by the chain of task k.
Stored(s, k) == s.run = k.run /\ s.by.copy = k.copy

\* A chain has one score for a pair.  The scores of its earlier executions are doomed when
\* an execution starts, and its own are about traces that are done.
ScoresOK ==
  /\ \A s, q \in scores : s.run # None /\ s.run = q.run /\ s.pair = q.pair /\ s.by.copy = q.by.copy => s = q
  /\ \A w \in Workers, s \in scores : Busy(work[w]) /\ Stored(s, work[w].task) =>
       /\ work[w].pc = "start" => s \in work[w].doomed
       /\ Evaluating(work[w]) => s.pair[1] \notin work[w].todo

\* G is the targets the chains have counted since the row was reset, F the failed pairs.
History(n, pairs, G, F) ==
  /\ G \in SUBSET ((0..n) \X Targets(pairs)) /\ F \in SUBSET ((0..n) \X pairs)
  /\ \A y \in F : <<y[1], y[2][1]>> \in G
Pending(q, r, G) ==
  Evaluating(q) /\ q.task.run = r => \A t \in q.todo : <<q.task.copy, t>> \notin G
Counted(r) ==
  \E G \in SUBSET ((0..copies) \X Targets(plan[r])), F \in SUBSET ((0..copies) \X plan[r]) :
    /\ History(copies, plan[r], G, F)
    /\ runs[r].evaluated = Cardinality(G) /\ runs[r].failed = Cardinality(F)
    /\ \A w \in Workers : Pending(work[w], r, G)

Inv ==
  /\ Types /\ OneToken /\ ScoresOK
  /\ \A r \in Runs : runs[r] # None => Counted(r)

\* Where nothing is delivered twice the execution q knows what its row and its scores say:
\* the targets it is done with are counted and scored.
Exact(q, row, pairs, stored, edited) ==
  Evaluating(q) /\ row # None =>
    /\ row.status = "RUNNING"
    /\ row.evaluated = Cardinality(Targets(pairs) \ q.todo)
    /\ ~edited =>
         /\ {s.pair : s \in stored} = {x \in pairs : x[1] \notin q.todo}
         /\ row.failed = Cardinality({s \in stored : s.status = "FAILED"})
ExactInv ==
  /\ ~touched => traces = Traces /\ IsFiniteSet(scores)
  /\ copies = 0 => \A w \in Workers :
       Exact(work[w], runs[RunOf(w)], plan[RunOf(w)], ScoresOf(RunOf(w)), touched)

-----------------------------------------------------------------------------
(* The invariant for the next state, part by part.                         *)

ApiState == {"new", "counted", "committed", "done", "failed", "dead"}

LEMMA TypesFolded ==
  ASSUME api' \in [Runs -> ApiState], plan' \in [Runs -> SUBSET Pairs],
         runs' \in [Runs -> Row \cup {None}], traces' \subseteq Traces, scores' \subseteq Score,
         queue' \subseteq Task, copies' \in 0..MaxCopies, touched' \in BOOLEAN,
         work' \in [Workers -> Local], \A w \in Workers : WorkOK(work'[w], plan', copies'),
         \A k \in queue' : k.copy <= copies', \A s \in scores' : s.by.copy <= copies',
         \A r \in Runs : api'[r] \in {"new", "counted"} => runs'[r] = None
  PROVE  Types'
<1>1. \A w \in Workers : work'[w].pc \in {"idle", "start", "eval", "metrics", "failing", "timeout", "retry"}
  BY DEF Local
<1>2. \A w \in Workers : work'[w].pc # "idle" =>
        work'[w].task \in Task /\ work'[w].todo \subseteq Targets(plan'[work'[w].task.run])
  BY DEF WorkOK, Busy
<1>3. TypeOK'
  BY <1>1, <1>2 DEF TypeOK, ApiState, At, RunOf, Targets
<1> QED BY <1>3 DEF Types, WorkOK, Busy, Targets

LEMMA TypesUnfolded ==
  ASSUME Inv
  PROVE  /\ api \in [Runs -> ApiState] /\ plan \in [Runs -> SUBSET Pairs]
         /\ runs \in [Runs -> Row \cup {None}] /\ traces \subseteq Traces /\ scores \subseteq Score
         /\ queue \subseteq Task /\ copies \in 0..MaxCopies /\ touched \in BOOLEAN
         /\ work \in [Workers -> Local] /\ \A w \in Workers : WorkOK(work[w], plan, copies)
         /\ \A k \in queue : k.copy <= copies
         /\ \A s \in scores : s.by.copy <= copies
         /\ \A r \in Runs : api[r] \in {"new", "counted"} => runs[r] = None
         /\ copies \in Nat /\ MaxRetries \in Nat /\ None \notin Runs
BY EvalAssumption DEF Inv, Types, TypeOK, ApiState

\* The next state x of a worker that was in state q: it goes on, or drops its task.
Continues(x, q) ==
  Busy(x) => /\ Busy(q) /\ x.task = q.task
             /\ x.pc = "start" => q.pc = "start" /\ x.doomed = q.doomed
             /\ Evaluating(x) => Evaluating(q) /\ x.todo \subseteq q.todo

LEMMA TokensKept ==
  ASSUME Inv, queue' \subseteq queue,
         \A w \in Workers : Busy(work'[w]) => Busy(work[w]) /\ work'[w].task = work[w].task,
         \A r \in Runs : api'[r] \in {"new", "counted", "committed"} =>
                         api[r] \in {"new", "counted", "committed"}
  PROVE  OneToken'
<1>1. /\ \A k, l \in queue' : Same(k, l) => k = l
      /\ \A k \in queue', w \in Workers : Busy(work'[w]) => ~Same(k, work'[w].task)
      /\ \A v, w \in Workers : Busy(work'[v]) /\ Busy(work'[w]) /\ Same(work'[v].task, work'[w].task) => v = w
  BY DEF Inv, OneToken
<1>2. \A r \in Runs : api'[r] \in {"new", "counted", "committed"} =>
        /\ \A k \in queue' : k.run # r
        /\ \A w \in Workers : Busy(work'[w]) => work'[w].task.run # r
  BY DEF Inv, OneToken
<1> QED BY <1>1, <1>2 DEF OneToken, Busy, Same

\* Scores that were there already.
LEMMA ScoresKept ==
  ASSUME Inv, scores' \subseteq scores, \A w \in Workers : Continues(work'[w], work[w])
  PROVE  ScoresOK'
<1>1. \A s, q \in scores' : s.run # None /\ s.run = q.run /\ s.pair = q.pair /\ s.by.copy = q.by.copy => s = q
  BY DEF Inv, ScoresOK
<1>2. ASSUME NEW w \in Workers, NEW s \in scores', Busy(work'[w]), Stored(s, work'[w].task)
      PROVE  /\ work'[w].pc = "start" => s \in work'[w].doomed
             /\ Evaluating(work'[w]) => s.pair[1] \notin work'[w].todo
  <2>1. Continues(work'[w], work[w])
    OBVIOUS
  <2> QED BY <1>2, <2>1 DEF Inv, ScoresOK, Continues
<1> QED BY <1>1, <1>2 DEF ScoresOK, Busy, Stored, Evaluating

LEMMA ScoresFolded ==
  ASSUME \A s, q \in scores' : s.run # None /\ s.run = q.run /\ s.pair = q.pair /\ s.by.copy = q.by.copy => s = q,
         \A w \in Workers, s \in scores' : Busy(work'[w]) /\ Stored(s, work'[w].task) =>
           /\ work'[w].pc = "start" => s \in work'[w].doomed
           /\ Evaluating(work'[w]) => s.pair[1] \notin work'[w].todo
  PROVE  ScoresOK'
BY DEF ScoresOK, Busy, Stored, Evaluating

\* A row whose counters stay as they are.
LEMMA CountedKept ==
  ASSUME Inv, NEW r \in Runs, runs[r] # None,
         runs'[r].evaluated = runs[r].evaluated, runs'[r].failed = runs[r].failed,
         plan'[r] = plan[r], copies' \in Nat, copies <= copies',
         \A w \in Workers : Evaluating(work'[w]) /\ work'[w].task.run = r =>
           Evaluating(work[w]) /\ work'[w].task = work[w].task /\ work'[w].todo \subseteq work[w].todo
  PROVE  Counted(r)'
<1>1. PICK G \in SUBSET ((0..copies) \X Targets(plan[r])), F \in SUBSET ((0..copies) \X plan[r]) :
        /\ History(copies, plan[r], G, F)
        /\ runs[r].evaluated = Cardinality(G) /\ runs[r].failed = Cardinality(F)
        /\ \A w \in Workers : Pending(work[w], r, G)
  BY DEF Inv, Counted
<1>2. copies \in Nat /\ 0..copies \subseteq 0..copies'
  BY TypesUnfolded
<1>3. /\ G \in SUBSET ((0..copies') \X Targets(plan'[r])) /\ F \in SUBSET ((0..copies') \X plan'[r])
      /\ \A y \in F : <<y[1], y[2][1]>> \in G
  BY <1>1, <1>2 DEF History
<1>4. \A w \in Workers : Evaluating(work'[w]) /\ work'[w].task.run = r =>
        \A t \in work'[w].todo : <<work'[w].task.copy, t>> \notin G
  BY <1>1 DEF Pending
<1> QED BY <1>1, <1>3, <1>4 DEF Counted, History, Pending, Evaluating, Targets

\* A worker goes on or drops its task; the rows keep their counters.
LEMMA WorkerMoves ==
  ASSUME Inv, NEW w \in Workers, NEW x \in Local, Continues(x, work[w]),
         x.todo \subseteq work[w].todo, x.pc = "metrics" => x.trace \in x.todo,
         work' = [work EXCEPT ![w] = x],
         runs' \in [Runs -> Row \cup {None}],
         \A r \in Runs : /\ runs[r] = None => runs'[r] = None
                         /\ runs'[r] # None => /\ runs'[r].evaluated = runs[r].evaluated
                                               /\ runs'[r].failed = runs[r].failed,
         UNCHANGED <<api, plan, traces, scores, queue, copies, touched>>
  PROVE  Inv'
<1>1. work' \in [Workers -> Local] /\ work'[w] = x /\ \A v \in Workers : v # w => work'[v] = work[v]
  BY TypesUnfolded
<1>2. \A v \in Workers : Continues(work'[v], work[v])
  BY <1>1 DEF Continues
<1>3. \A v \in Workers : WorkOK(work'[v], plan', copies')
  <2> TAKE v \in Workers
  <2>1. WorkOK(work[v], plan, copies) /\ Continues(work'[v], work[v])
    BY <1>2, TypesUnfolded
  <2>2. CASE v = w
    <3>1. Busy(x) => Busy(work[w]) /\ x.task = work[w].task
      BY DEF Continues
    <3>2. x.pc = "start" => work[w].pc = "start" /\ x.task = work[w].task /\ x.doomed = work[w].doomed
      BY DEF Continues, Busy
    <3>3. WorkOK(x, plan, copies)
      BY <2>1, <2>2, <3>1, <3>2 DEF WorkOK
    <3> QED BY <1>1, <2>2, <3>3
  <2>3. CASE v # w
    BY <1>1, <2>1, <2>3
  <2> QED BY <2>2, <2>3
<1>4. Types'
  <2>1. \A r \in Runs : api'[r] \in {"new", "counted"} => runs'[r] = None
    BY TypesUnfolded
  <2> QED BY <1>1, <1>3, <2>1, TypesUnfolded, TypesFolded
<1>5. OneToken'
  BY <1>2, TokensKept DEF Continues
<1>6. ScoresOK'
  BY <1>2, ScoresKept
<1>7. ASSUME NEW r \in Runs, runs'[r] # None PROVE Counted(r)'
  <2>1. \A v \in Workers : Evaluating(work'[v]) /\ work'[v].task.run = r =>
          Evaluating(work[v]) /\ work'[v].task = work[v].task /\ work'[v].todo \subseteq work[v].todo
    BY <1>2 DEF Continues, Evaluating, Busy
  <2>2. copies' \in Nat /\ copies <= copies'
    BY TypesUnfolded
  <2> QED BY <1>7, <2>1, <2>2, CountedKept
<1> QED BY <1>4, <1>5, <1>6, <1>7 DEF Inv

-----------------------------------------------------------------------------
(* Executions that end, and steps that store nothing.                      *)

LEMMA IdleOK == Idle \in Local /\ Idle.pc = "idle" /\ Idle.todo = {}
BY DEF Idle, Local

LEMMA WorkTyped ==
  ASSUME Inv, NEW w \in Workers
  PROVE  /\ work[w] \in Local /\ WorkOK(work[w], plan, copies)
         /\ Busy(work[w]) => RunOf(w) \in Runs /\ work[w].task \in Task /\ work[w].task.copy \in 0..copies
<1>1. work[w] \in Local /\ WorkOK(work[w], plan, copies) /\ copies \in Nat
  BY TypesUnfolded
<1> QED BY <1>1 DEF WorkOK, Task, RunOf

LEMMA RowsSame ==
  ASSUME Inv, runs' = runs
  PROVE  /\ runs' \in [Runs -> Row \cup {None}]
         /\ \A r \in Runs : /\ runs[r] = None => runs'[r] = None
                            /\ runs'[r] # None => /\ runs'[r].evaluated = runs[r].evaluated
                                                  /\ runs'[r].failed = runs[r].failed
BY TypesUnfolded

\* update_status: the counters stay.
LEMMA StatusWritten ==
  ASSUME Inv, NEW r \in Runs, NEW st \in Status, Update(r, [runs[r] EXCEPT !.status = st])
  PROVE  /\ runs' \in [Runs -> Row \cup {None}]
         /\ \A q \in Runs : /\ runs[q] = None => runs'[q] = None
                            /\ runs'[q] # None => /\ runs'[q].evaluated = runs[q].evaluated
                                                  /\ runs'[q].failed = runs[q].failed
         /\ \A q \in Runs : q # r => runs'[q] = runs[q]
<1>1. CASE runs[r] = None
  BY <1>1, RowsSame DEF Update
<1>2. CASE runs[r] # None
  <2>1. runs[r] \in Row
    BY <1>2, TypesUnfolded
  <2>2. PICK row : row = [runs[r] EXCEPT !.status = st]
    OBVIOUS
  <2>3. row \in Row /\ row.evaluated = runs[r].evaluated /\ row.failed = runs[r].failed
    BY <2>1, <2>2 DEF Row
  <2>4. runs' = [runs EXCEPT ![r] = row]
    BY <1>2, <2>2 DEF Update
  <2> QED BY <1>2, <2>3, <2>4, TypesUnfolded
<1> QED BY <1>1, <1>2

\* The execution is dropped, and the row keeps its counters.
LEMMA DropOK ==
  ASSUME Inv, NEW w \in Workers, work' = [work EXCEPT ![w] = Idle],
         runs' \in [Runs -> Row \cup {None}],
         \A r \in Runs : /\ runs[r] = None => runs'[r] = None
                         /\ runs'[r] # None => /\ runs'[r].evaluated = runs[r].evaluated
                                               /\ runs'[r].failed = runs[r].failed,
         UNCHANGED <<api, plan, traces, scores, queue, copies, touched>>
  PROVE  Inv'
<1>1. Idle \in Local /\ Continues(Idle, work[w]) /\ Idle.todo \subseteq work[w].todo /\ Idle.pc # "metrics"
  BY IdleOK DEF Continues, Busy
<1> QED BY <1>1, WorkerMoves

LEMMA CutOffOK ==
  ASSUME Inv, NEW w \in Workers, HardLimit(w) \/ WorkerDies(w)
  PROVE  Inv'
<1>1. /\ work' = [work EXCEPT ![w] = Idle]
      /\ UNCHANGED <<api, plan, runs, traces, scores, queue, copies, touched>>
  BY DEF HardLimit, WorkerDies, Become
<1> QED BY <1>1, RowsSame, DropOK

LEMMA CompleteOK ==
  ASSUME Inv, NEW w \in Workers, CompleteRun(w)
  PROVE  Inv'
<1>1. /\ work' = [work EXCEPT ![w] = Idle] /\ Busy(work[w])
      /\ UNCHANGED <<api, plan, traces, scores, queue, copies, touched>>
  BY DEF CompleteRun, Become, At, Busy
<1>2. RunOf(w) \in Runs /\ "COMPLETED" \in Status
  BY <1>1, WorkTyped DEF Status
<1>3. Update(RunOf(w), [runs[RunOf(w)] EXCEPT !.status = "COMPLETED"])
  BY DEF CompleteRun
<1> QED BY <1>1, <1>2, <1>3, StatusWritten, DropOK

\* An execution that is not evaluating any more.
LEMMA StopOK ==
  ASSUME Inv, NEW w \in Workers, Busy(work[w]), NEW x \in Local,
         x.pc \in {"failing", "timeout", "retry"}, x.task = work[w].task, x.todo = work[w].todo,
         work' = [work EXCEPT ![w] = x],
         runs' \in [Runs -> Row \cup {None}],
         \A r \in Runs : /\ runs[r] = None => runs'[r] = None
                         /\ runs'[r] # None => /\ runs'[r].evaluated = runs[r].evaluated
                                               /\ runs'[r].failed = runs[r].failed,
         UNCHANGED <<api, plan, traces, scores, queue, copies, touched>>
  PROVE  Inv'
<1>1. Continues(x, work[w]) /\ x.todo \subseteq work[w].todo /\ x.pc # "metrics"
  BY DEF Continues, Evaluating
<1> QED BY <1>1, WorkerMoves

LEMMA StopsOK ==
  ASSUME Inv, NEW w \in Workers,
         StoreRejected(w) \/ RunError(w) \/ SoftLimit(w) \/ FailRun(w) \/ FailLost(w)
  PROVE  Inv'
<1>0. work[w] \in Local
  BY WorkTyped
<1>1. CASE StoreRejected(w)
  <2>1. PICK x : x = [work[w] EXCEPT !.pc = "failing"]
    OBVIOUS
  <2>2. x \in Local /\ x.pc = "failing" /\ x.task = work[w].task /\ x.todo = work[w].todo
    BY <1>0, <2>1 DEF Local
  <2>3. /\ Busy(work[w]) /\ work' = [work EXCEPT ![w] = x]
        /\ UNCHANGED <<api, plan, runs, traces, scores, queue, copies, touched>>
    BY <1>1, <2>1 DEF StoreRejected, At, Busy, Become
  <2> QED BY <2>2, <2>3, RowsSame, StopOK
<1>2. ASSUME NEW pc \in {"failing", "timeout"}, work[w].pc \in {"start", "eval", "metrics"},
             Become(w, [work[w] EXCEPT !.pc = pc, !.doomed = {}]),
             UNCHANGED <<api, plan, runs, traces, scores, queue, copies, touched>>
      PROVE  Inv'
  <2>1. PICK x : x = [work[w] EXCEPT !.pc = pc, !.doomed = {}]
    OBVIOUS
  <2>2. x \in Local /\ x.pc = pc /\ x.task = work[w].task /\ x.todo = work[w].todo
    BY <1>0, <2>1 DEF Local
  <2>3. Busy(work[w]) /\ work' = [work EXCEPT ![w] = x]
    BY <1>2, <2>1 DEF Busy, Become
  <2> QED BY <1>2, <2>2, <2>3, RowsSame, StopOK
<1>3. CASE RunError(w)
  BY <1>2, <1>3 DEF RunError
<1>4. CASE SoftLimit(w)
  <2>1. CASE At(w, "metrics") /\ Become(w, [work[w] EXCEPT !.soft = TRUE])
    <3>1. PICK x : x = [work[w] EXCEPT !.soft = TRUE]
      OBVIOUS
    <3>2. /\ x \in Local /\ x.pc = work[w].pc /\ x.task = work[w].task /\ x.todo = work[w].todo
          /\ x.trace = work[w].trace /\ x.doomed = work[w].doomed
      BY <1>0, <3>1 DEF Local
    <3>3. Continues(x, work[w]) /\ (x.pc = "metrics" => x.trace \in x.todo)
      BY <3>2, WorkTyped DEF Continues, Busy, Evaluating, WorkOK
    <3>4. work' = [work EXCEPT ![w] = x]
      BY <2>1, <3>1 DEF Become
    <3>5. UNCHANGED <<api, plan, runs, traces, scores, queue, copies, touched>>
      BY <1>4 DEF SoftLimit
    <3> QED BY <3>2, <3>3, <3>4, <3>5, RowsSame, WorkerMoves
  <2>2. CASE /\ work[w].pc \in {"start", "eval", "metrics"}
             /\ Become(w, [work[w] EXCEPT !.pc = "timeout", !.doomed = {}])
    BY <1>2, <1>4, <2>2 DEF SoftLimit
  <2> QED BY <1>4, <2>1, <2>2 DEF SoftLimit
<1>5. CASE FailRun(w) \/ FailLost(w)
  <2>1. /\ Busy(work[w]) /\ UNCHANGED <<api, plan, traces, scores, queue, copies, touched>>
        /\ Become(w, IF At(w, "failing") THEN [work[w] EXCEPT !.pc = "retry"] ELSE Idle)
    BY <1>5 DEF FailRun, FailLost, Busy
  <2>2. /\ runs' \in [Runs -> Row \cup {None}]
        /\ \A r \in Runs : /\ runs[r] = None => runs'[r] = None
                           /\ runs'[r] # None => /\ runs'[r].evaluated = runs[r].evaluated
                                                 /\ runs'[r].failed = runs[r].failed
    <3>1. CASE FailRun(w)
      <4>1. RunOf(w) \in Runs /\ "FAILED" \in Status
        BY <2>1, WorkTyped DEF Status
      <4> QED BY <3>1, <4>1, StatusWritten DEF FailRun
    <3>2. CASE FailLost(w)
      BY <3>2, RowsSame DEF FailLost
    <3> QED BY <1>5, <3>1, <3>2
  <2>3. CASE At(w, "failing")
    <3>1. PICK x : x = [work[w] EXCEPT !.pc = "retry"]
      OBVIOUS
    <3>2. x \in Local /\ x.pc = "retry" /\ x.task = work[w].task /\ x.todo = work[w].todo
      BY <1>0, <3>1 DEF Local
    <3>3. work' = [work EXCEPT ![w] = x]
      BY <2>1, <2>3, <3>1 DEF Become
    <3> QED BY <2>1, <2>2, <3>2, <3>3, StopOK
  <2>4. CASE ~At(w, "failing")
    <3>1. work' = [work EXCEPT ![w] = Idle]
      BY <2>1, <2>4 DEF Become
    <3> QED BY <2>1, <2>2, <3>1, DropOK
  <2> QED BY <2>3, <2>4
<1> QED BY <1>1, <1>3, <1>4, <1>5

-----------------------------------------------------------------------------
(* The API request.                                                        *)

LEMMA WorkSame ==
  ASSUME work' = work
  PROVE  \A w \in Workers : Continues(work'[w], work[w])
BY DEF Continues

\* Steps of the request that change no row that is there.
LEMMA RequestStep ==
  ASSUME Inv, NEW r \in Runs, NEW a \in ApiState, api' = [api EXCEPT ![r] = a],
         a \in {"new", "counted"} => api[r] = "new",
         a = "committed" => api[r] = "counted",
         plan' \in [Runs -> SUBSET Pairs], \A q \in Runs : plan'[q] = plan[q] \/ (q = r /\ api[r] = "new"),
         UNCHANGED <<runs, traces, scores, queue, work, copies, touched>>
  PROVE  Inv'
<1>1. api' \in [Runs -> ApiState] /\ api'[r] = a /\ \A q \in Runs : q # r => api'[q] = api[q]
  BY TypesUnfolded
<1>2. \A w \in Workers : Busy(work[w]) => plan'[work[w].task.run] = plan[work[w].task.run]
  <2>1. \A w \in Workers : Busy(work[w]) => RunOf(w) \in Runs
    BY WorkTyped
  <2> QED BY <2>1 DEF RunOf, Inv, OneToken
<1>3. \A w \in Workers : WorkOK(work'[w], plan', copies')
  BY <1>2, TypesUnfolded DEF WorkOK
<1>4. \A q \in Runs : api'[q] \in {"new", "counted"} => runs'[q] = None
  BY <1>1, TypesUnfolded
<1>5. Types'
  BY <1>1, <1>3, <1>4, TypesUnfolded, TypesFolded
<1>6. OneToken'
  <2>1. \A q \in Runs : api'[q] \in {"new", "counted", "committed"} =>
                        api[q] \in {"new", "counted", "committed"}
    BY <1>1
  <2> QED BY <2>1, TokensKept
<1>7. ScoresOK'
  BY WorkSame, ScoresKept
<1>8. ASSUME NEW q \in Runs, runs'[q] # None PROVE Counted(q)'
  <2>1. plan'[q] = plan[q]
    BY <1>8, TypesUnfolded
  <2>2. copies' \in Nat /\ copies <= copies'
    BY TypesUnfolded
  <2> QED BY <1>8, <2>1, <2>2, CountedKept
<1> QED BY <1>5, <1>6, <1>7, <1>8 DEF Inv

LEMMA CountOK ==
  ASSUME Inv, NEW r \in Runs, NEW pairs \in SUBSET Pairs, Count(r, pairs)
  PROVE  Inv'
<1>1. /\ api' = [api EXCEPT ![r] = "counted"] /\ api[r] = "new"
      /\ plan' = [plan EXCEPT ![r] = pairs]
      /\ UNCHANGED <<runs, traces, scores, queue, work, copies, touched>>
  BY DEF Count
<1>2. plan' \in [Runs -> SUBSET Pairs] /\ \A q \in Runs : plan'[q] = plan[q] \/ (q = r /\ api[r] = "new")
  BY <1>1, TypesUnfolded
<1>3. "counted" \in ApiState
  BY DEF ApiState
<1> QED BY <1>1, <1>2, <1>3, RequestStep

LEMMA PrepareOK ==
  ASSUME Inv, NEW r \in Runs, PrepareRun(r) \/ \E q \in Runs : PrepareRetry(r, q)
  PROVE  Inv'
<1>1. ASSUME NEW ts \in SUBSET Traces, NEW ms \in SUBSET Metrics, Count(r, ts \X ms) PROVE Inv'
  <2>1. ts \X ms \in SUBSET Pairs
    BY DEF Pairs
  <2> QED BY <1>1, <2>1, CountOK
<1>2. ASSUME NEW q \in Runs, Count(r, {s.pair : s \in FailedOf(q)}) PROVE Inv'
  <2>1. {s.pair : s \in FailedOf(q)} \in SUBSET Pairs
    <3>1. \A s \in FailedOf(q) : s \in Score
      BY TypesUnfolded DEF FailedOf, ScoresOf
    <3> QED BY <3>1 DEF Score
  <2> QED BY <1>2, <2>1, CountOK
<1> QED BY <1>1, <1>2 DEF PrepareRun, PrepareRetry

\* A row whose counters are 0.
LEMMA CountedFromZero ==
  ASSUME NEW r \in Runs, runs'[r].evaluated = 0, runs'[r].failed = 0
  PROVE  Counted(r)'
<1>1. Cardinality({}) = 0
  BY FS_EmptySet
<1>2. /\ {} \in SUBSET ((0..copies') \X Targets(plan'[r])) /\ {} \in SUBSET ((0..copies') \X plan'[r])
      /\ History(copies', plan'[r], {}, {})
      /\ \A w \in Workers : Pending(work'[w], r, {})
  BY DEF History, Pending
<1>3. \E G \in SUBSET ((0..copies') \X Targets(plan'[r])), F \in SUBSET ((0..copies') \X plan'[r]) :
        /\ History(copies', plan'[r], G, F)
        /\ runs'[r].evaluated = Cardinality(G) /\ runs'[r].failed = Cardinality(F)
        /\ \A w \in Workers : Pending(work'[w], r, G)
  BY <1>1, <1>2
<1> QED BY <1>3 DEF Counted, History, Pending, Evaluating, Targets

LEMMA CommitOK ==
  ASSUME Inv, NEW r \in Runs, CommitRun(r)
  PROVE  Inv'
<1>1. PICK row : row = [status |-> "PENDING", evaluated |-> 0, failed |-> 0]
  OBVIOUS
<1>2. row \in Row /\ row.evaluated = 0 /\ row.failed = 0
  BY <1>1 DEF Row, Status
<1>3. /\ runs' = [runs EXCEPT ![r] = row] /\ api' = [api EXCEPT ![r] = "committed"] /\ api[r] = "counted"
      /\ UNCHANGED <<plan, traces, scores, queue, work, copies, touched>>
  BY <1>1 DEF CommitRun
<1>4. /\ runs' \in [Runs -> Row \cup {None}] /\ runs'[r] = row
      /\ \A q \in Runs : q # r => runs'[q] = runs[q] /\ api'[q] = api[q]
      /\ api' \in [Runs -> ApiState] /\ api'[r] = "committed"
  BY <1>2, <1>3, TypesUnfolded DEF ApiState
<1>5. Types'
  <2>1. \A q \in Runs : api'[q] \in {"new", "counted"} => runs'[q] = None
    BY <1>4, TypesUnfolded
  <2>2. \A w \in Workers : WorkOK(work'[w], plan', copies')
    BY <1>3, TypesUnfolded
  <2> QED BY <1>3, <1>4, <2>1, <2>2, TypesUnfolded, TypesFolded
<1>6. OneToken'
  <2>1. \A q \in Runs : api'[q] \in {"new", "counted", "committed"} =>
                        api[q] \in {"new", "counted", "committed"}
    BY <1>3, <1>4
  <2> QED BY <1>3, <2>1, TokensKept
<1>7. ScoresOK'
  BY <1>3, WorkSame, ScoresKept
<1>8. ASSUME NEW q \in Runs, runs'[q] # None PROVE Counted(q)'
  <2>1. CASE q = r
    BY <1>2, <1>4, <2>1, CountedFromZero
  <2>2. CASE q # r
    BY <1>3, <1>4, <1>8, <2>2, TypesUnfolded, CountedKept
  <2> QED BY <2>1, <2>2
<1> QED BY <1>5, <1>6, <1>7, <1>8 DEF Inv

\* A task enters the broker: of a new chain, or of one whose token is gone.
LEMMA EnqueueStep ==
  ASSUME Inv, NEW k \in Task, queue' = queue \cup {k},
         copies' \in 0..MaxCopies, copies <= copies', k.copy <= copies',
         \A l \in queue : ~Same(k, l),
         \A w \in Workers : Busy(work'[w]) => ~Same(k, work'[w].task),
         api' \in [Runs -> ApiState], api'[k.run] \notin {"new", "counted", "committed"},
         \A r \in Runs : api'[r] = api[r] \/ api'[r] \notin {"new", "counted", "committed"},
         work' \in [Workers -> Local],
         \A w \in Workers : work'[w] = work[w] \/ work'[w] = Idle,
         UNCHANGED <<plan, runs, traces, scores, touched>>
  PROVE  Inv'
<1>0. \A w \in Workers : Continues(work'[w], work[w])
  BY IdleOK DEF Continues, Busy
<1>1. copies' \in Nat /\ copies \in Nat
  BY TypesUnfolded
<1>2. Types'
  <2>1. \A w \in Workers : WorkOK(work'[w], plan', copies')
    <3> TAKE w \in Workers
    <3>1. WorkOK(work[w], plan, copies) /\ (Busy(work[w]) => work[w].task.copy \in 0..copies)
      BY WorkTyped
    <3> QED BY <1>1, <3>1, IdleOK DEF WorkOK, Busy, Task
  <2>2. \A l \in queue' : l.copy <= copies'
    <3>1. \A l \in queue : l.copy \in Nat /\ l.copy <= copies
      BY TypesUnfolded DEF Task
    <3> QED BY <1>1, <3>1
  <2>3. \A s \in scores' : s.by.copy <= copies'
    <3>1. \A s \in scores : s.by \in Task /\ s.by.copy <= copies
      BY TypesUnfolded DEF Score
    <3> QED BY <1>1, <3>1 DEF Task
  <2>4. queue' \subseteq Task /\ \A r \in Runs : api'[r] \in {"new", "counted"} => runs'[r] = None
    BY TypesUnfolded
  <2> QED BY <2>1, <2>2, <2>3, <2>4, TypesUnfolded, TypesFolded
<1>3. OneToken'
  <2>1. \A w \in Workers : Busy(work'[w]) => Busy(work[w]) /\ work'[w].task = work[w].task
    BY <1>0 DEF Continues
  <2>2. /\ \A j, l \in queue' : Same(j, l) => j = l
        /\ \A j \in queue', w \in Workers : Busy(work'[w]) => ~Same(j, work'[w].task)
        /\ \A v, w \in Workers : Busy(work'[v]) /\ Busy(work'[w]) /\ Same(work'[v].task, work'[w].task) => v = w
    BY <2>1 DEF Inv, OneToken, Same
  <2>3. \A r \in Runs : api'[r] \in {"new", "counted", "committed"} =>
          /\ \A j \in queue' : j.run # r
          /\ \A w \in Workers : Busy(work'[w]) => work'[w].task.run # r
    BY <2>1 DEF Inv, OneToken
  <2> QED BY <2>2, <2>3 DEF OneToken, Busy, Same
<1>4. ScoresOK'
  BY <1>0, ScoresKept
<1>5. ASSUME NEW r \in Runs, runs'[r] # None PROVE Counted(r)'
  <2>1. \A w \in Workers : Evaluating(work'[w]) /\ work'[w].task.run = r =>
          Evaluating(work[w]) /\ work'[w].task = work[w].task /\ work'[w].todo \subseteq work[w].todo
    BY <1>0 DEF Continues, Evaluating, Busy
  <2> QED BY <1>1, <1>5, <2>1, CountedKept
<1> QED BY <1>2, <1>3, <1>4, <1>5 DEF Inv

LEMMA PublishOK ==
  ASSUME Inv, NEW r \in Runs, PublishRun(r) \/ DispatchFails(r) \/ ApiDies(r)
  PROVE  Inv'
<1>1. ASSUME api[r] = "committed", queue' = queue \cup {[run |-> r, try |-> 0, copy |-> 0]},
             NEW a \in {"done", "failed"}, api' = [api EXCEPT ![r] = a],
             UNCHANGED <<plan, runs, traces, scores, work, copies, touched>>
      PROVE  Inv'
  <2>1. PICK k : k = [run |-> r, try |-> 0, copy |-> 0]
    OBVIOUS
  <2>2. k \in Task /\ k.run = r /\ k.copy = 0
    BY <2>1, EvalAssumption DEF Task
  <2>3. /\ \A l \in queue : ~Same(k, l)
        /\ \A w \in Workers : Busy(work'[w]) => ~Same(k, work'[w].task)
    BY <1>1, <2>2 DEF Inv, OneToken, Same
  <2>4. /\ api' \in [Runs -> ApiState] /\ api'[k.run] \notin {"new", "counted", "committed"}
        /\ \A q \in Runs : api'[q] = api[q] \/ api'[q] \notin {"new", "counted", "committed"}
    BY <1>1, <2>2, TypesUnfolded DEF ApiState
  <2>5. copies' \in 0..MaxCopies /\ copies <= copies' /\ k.copy <= copies' /\ work' \in [Workers -> Local]
    BY <1>1, <2>2, TypesUnfolded
  <2>6. queue' = queue \cup {k}
    BY <1>1, <2>1
  <2> QED BY <1>1, <2>2, <2>3, <2>4, <2>5, <2>6, EnqueueStep
<1>2. ASSUME NEW a \in {"failed", "dead"}, api' = [api EXCEPT ![r] = a],
             UNCHANGED <<plan, runs, traces, scores, queue, work, copies, touched>>
      PROVE  Inv'
  <2>1. a \in ApiState /\ a \notin {"new", "counted", "committed"}
    BY DEF ApiState
  <2>2. plan' \in [Runs -> SUBSET Pairs] /\ \A q \in Runs : plan'[q] = plan[q]
    BY <1>2, TypesUnfolded
  <2> QED BY <1>2, <2>1, <2>2, RequestStep
<1>3. CASE PublishRun(r)
  BY <1>1, <1>3 DEF PublishRun
<1>4. CASE DispatchFails(r)
  BY <1>1, <1>2, <1>4 DEF DispatchFails
<1>5. CASE ApiDies(r)
  BY <1>2, <1>5 DEF ApiDies
<1> QED BY <1>3, <1>4, <1>5

-----------------------------------------------------------------------------
(* Tasks.                                                                  *)

LEMMA RetryOK ==
  ASSUME Inv, NEW w \in Workers, RetryRun(w)
  PROVE  Inv'
<1>0. /\ Busy(work[w]) /\ work' = [work EXCEPT ![w] = Idle]
      /\ UNCHANGED <<api, plan, runs, traces, scores, copies, touched>>
  BY DEF RetryRun, At, Busy, Become
<1>1. PICK m \in Task : m = work[w].task /\ m.copy \in 0..copies /\ m.run \in Runs
  BY <1>0, WorkTyped DEF Task
<1>2. CASE ~(m.try < MaxRetries)
  <2>1. queue' = queue
    BY <1>1, <1>2 DEF RetryRun
  <2> QED BY <1>0, <2>1, RowsSame, DropOK
<1>3. CASE m.try < MaxRetries
  <2>1. PICK k : k = [m EXCEPT !.try = @ + 1]
    OBVIOUS
  <2>2. k \in Task /\ k.run = m.run /\ k.copy = m.copy
    BY <1>3, <2>1, EvalAssumption DEF Task
  <2>3. queue' = queue \cup {k}
    BY <1>1, <1>3, <2>1 DEF RetryRun
  <2>4. work' \in [Workers -> Local] /\ work'[w] = Idle /\ \A v \in Workers : v # w => work'[v] = work[v]
    BY <1>0, IdleOK, TypesUnfolded
  <2>5. /\ \A l \in queue : ~Same(k, l)
        /\ \A v \in Workers : Busy(work'[v]) => ~Same(k, work'[v].task)
    BY <1>0, <1>1, <2>2, <2>4, IdleOK DEF Inv, OneToken, Same, Busy
  <2>6. \A v \in Workers : work'[v] = work[v] \/ work'[v] = Idle
    BY <2>4
  <2>7. /\ api' \in [Runs -> ApiState] /\ api'[k.run] \notin {"new", "counted", "committed"}
        /\ \A q \in Runs : api'[q] = api[q] \/ api'[q] \notin {"new", "counted", "committed"}
    <3>1. api[m.run] \notin {"new", "counted", "committed"}
      BY <1>0, <1>1 DEF Inv, OneToken
    <3> QED BY <1>0, <2>2, <3>1, TypesUnfolded
  <2>8. copies' \in 0..MaxCopies /\ copies <= copies' /\ k.copy <= copies'
    BY <1>0, <1>1, <2>2, TypesUnfolded
  <2> QED BY <1>0, <2>2, <2>3, <2>4, <2>5, <2>6, <2>7, <2>8, EnqueueStep
<1> QED BY <1>2, <1>3

\* A redelivery starts a chain of its own.
LEMMA RedeliverOK ==
  ASSUME Inv, NEW m \in queue, Redeliver(m)
  PROVE  Inv'
<1>0. /\ copies < MaxCopies /\ copies' = copies + 1 /\ copies \in Nat /\ m \in Task
      /\ UNCHANGED <<api, plan, runs, traces, scores, work, touched>>
  BY TypesUnfolded DEF Redeliver
<1>1. PICK k : k = [m EXCEPT !.copy = copies + 1]
  OBVIOUS
<1>2. k \in Task /\ k.run = m.run /\ k.copy = copies + 1 /\ k.run \in Runs
  BY <1>0, <1>1 DEF Task
<1>3. queue' = queue \cup {k}
  BY <1>1 DEF Redeliver
<1>4. \A l \in queue : ~Same(k, l)
  <2>1. \A l \in queue : l.copy <= copies
    BY TypesUnfolded
  <2> QED BY <1>0, <1>2, <2>1 DEF Same
<1>5. \A w \in Workers : Busy(work'[w]) => ~Same(k, work'[w].task)
  <2>1. \A w \in Workers : Busy(work[w]) => work[w].task.copy \in 0..copies
    BY WorkTyped
  <2> QED BY <1>0, <1>2, <2>1 DEF Same
<1>6. /\ api' \in [Runs -> ApiState] /\ api'[k.run] \notin {"new", "counted", "committed"}
      /\ \A q \in Runs : api'[q] = api[q] \/ api'[q] \notin {"new", "counted", "committed"}
  <2>1. api[m.run] \notin {"new", "counted", "committed"}
    BY <1>2 DEF Inv, OneToken
  <2> QED BY <1>0, <1>2, <2>1, TypesUnfolded
<1>7. copies' \in 0..MaxCopies /\ copies <= copies' /\ k.copy <= copies' /\ work' \in [Workers -> Local]
  BY <1>0, <1>2, EvalAssumption, TypesUnfolded
<1> QED BY <1>0, <1>2, <1>3, <1>4, <1>5, <1>6, <1>7, EnqueueStep

\* The task is taken; the DELETE sees every score of its run.
LEMMA TakeOK ==
  ASSUME Inv, NEW w \in Workers, NEW m \in queue, TakeRun(w, m)
  PROVE  Inv'
<1>0. /\ ~Busy(work[w]) /\ queue' = queue \ {m} /\ m \in Task /\ m.copy <= copies
      /\ UNCHANGED <<api, plan, runs, traces, scores, copies, touched>>
  BY TypesUnfolded DEF TakeRun, At, Busy
<1>1. PICK x : x = [Idle EXCEPT !.pc = "start", !.task = m, !.doomed = ScoresOf(m.run)]
  OBVIOUS
<1>2. x \in Local /\ x.pc = "start" /\ x.task = m /\ x.todo = {} /\ x.doomed = ScoresOf(m.run)
  <2>1. ScoresOf(m.run) \in SUBSET Score
    BY TypesUnfolded DEF ScoresOf
  <2> QED BY <1>0, <1>1, <2>1 DEF Idle, Local
<1>3. work' = [work EXCEPT ![w] = x]
  BY <1>1 DEF TakeRun, Become
<1>4. work' \in [Workers -> Local] /\ work'[w] = x /\ \A v \in Workers : v # w => work'[v] = work[v]
  BY <1>2, <1>3, TypesUnfolded
<1>5. Types'
  <2>1. \A v \in Workers : WorkOK(work'[v], plan', copies')
    <3>1. WorkOK(x, plan, copies)
      BY <1>0, <1>2 DEF WorkOK, ScoresOf
    <3> QED BY <1>0, <1>4, <3>1, TypesUnfolded
  <2> QED BY <1>0, <1>4, <2>1, TypesUnfolded, TypesFolded
<1>6. OneToken'
  <2>1. \A v \in Workers : Busy(work'[v]) =>
          (v = w /\ work'[v].task = m) \/ (v # w /\ Busy(work[v]) /\ work'[v] = work[v])
    BY <1>2, <1>4 DEF Busy
  <2>2. /\ \A j, l \in queue' : Same(j, l) => j = l
        /\ \A j \in queue', v \in Workers : Busy(work'[v]) => ~Same(j, work'[v].task)
        /\ \A v, u \in Workers : Busy(work'[v]) /\ Busy(work'[u]) /\ Same(work'[v].task, work'[u].task) => v = u
    BY <1>0, <2>1 DEF Inv, OneToken, Same
  <2>3. \A r \in Runs : api'[r] \in {"new", "counted", "committed"} =>
          /\ \A j \in queue' : j.run # r
          /\ \A v \in Workers : Busy(work'[v]) => work'[v].task.run # r
    BY <1>0, <2>1 DEF Inv, OneToken
  <2> QED BY <2>2, <2>3 DEF OneToken, Busy, Same
<1>7. ScoresOK'
  <2>1. ASSUME NEW v \in Workers, NEW s \in scores', Busy(work'[v]), Stored(s, work'[v].task)
        PROVE  /\ work'[v].pc = "start" => s \in work'[v].doomed
               /\ Evaluating(work'[v]) => s.pair[1] \notin work'[v].todo
    <3>1. CASE v = w
      BY <1>0, <1>2, <1>4, <2>1, <3>1 DEF Stored, ScoresOf, Evaluating
    <3>2. CASE v # w
      BY <1>0, <1>4, <2>1, <3>2 DEF Inv, ScoresOK
    <3> QED BY <3>1, <3>2
  <2>2. \A s, q \in scores' : s.run # None /\ s.run = q.run /\ s.pair = q.pair /\ s.by.copy = q.by.copy => s = q
    BY <1>0 DEF Inv, ScoresOK
  <2> QED BY <2>1, <2>2, ScoresFolded
<1>8. ASSUME NEW r \in Runs, runs'[r] # None PROVE Counted(r)'
  <2>1. \A v \in Workers : Evaluating(work'[v]) => work'[v] = work[v]
    BY <1>2, <1>4 DEF Evaluating
  <2>2. copies' \in Nat /\ copies <= copies'
    BY <1>0, TypesUnfolded
  <2> QED BY <1>0, <1>8, <2>1, <2>2, CountedKept
<1> QED BY <1>5, <1>6, <1>7, <1>8 DEF Inv

\* The scores of the chain's earlier executions go, and the counters restart.
LEMMA StartOK ==
  ASSUME Inv, NEW w \in Workers, StartRun(w)
  PROVE  Inv'
<1>0. /\ Busy(work[w]) /\ work[w].pc = "start" /\ scores' = scores \ work[w].doomed
      /\ UNCHANGED <<api, plan, traces, queue, copies, touched>>
  BY DEF StartRun, At, Busy
<1>1. PICK r \in Runs : r = RunOf(w) /\ r = work[w].task.run
  BY <1>0, WorkTyped DEF RunOf
<1>2. PICK pc \in {"failing", "eval"} : pc = IF runs[r] = None THEN "failing" ELSE "eval"
  OBVIOUS
<1>3. PICK x : x = [work[w] EXCEPT !.pc = pc, !.todo = Targets(plan[r]), !.doomed = {}]
  OBVIOUS
<1>4. /\ x \in Local /\ x.pc = pc /\ x.task = work[w].task /\ x.todo = Targets(plan[r])
  <2>1. work[w] \in Local
    BY WorkTyped
  <2>2. Targets(plan[r]) \in SUBSET Traces
    <3>1. plan[r] \in SUBSET Pairs
      BY TypesUnfolded
    <3> QED BY <3>1 DEF Targets, Pairs
  <2> QED BY <1>3, <2>1, <2>2 DEF Local
<1>5. work' = [work EXCEPT ![w] = x] /\ Update(r, [status |-> "RUNNING", evaluated |-> 0, failed |-> 0])
  BY <1>1, <1>2, <1>3 DEF StartRun, Become
<1>6. work' \in [Workers -> Local] /\ work'[w] = x /\ \A v \in Workers : v # w => work'[v] = work[v]
  BY <1>4, <1>5, TypesUnfolded
<1>7. PICK row : row = [status |-> "RUNNING", evaluated |-> 0, failed |-> 0]
  OBVIOUS
<1>8. row \in Row /\ row.evaluated = 0 /\ row.failed = 0
  BY <1>7 DEF Row, Status
<1>9. /\ runs' \in [Runs -> Row \cup {None}]
      /\ \A q \in Runs : (runs[q] = None => runs'[q] = None) /\ (q # r => runs'[q] = runs[q])
      /\ runs'[r] # None => runs'[r] = row
  <2>1. runs' = IF runs[r] = None THEN runs ELSE [runs EXCEPT ![r] = row]
    BY <1>5, <1>7 DEF Update
  <2> QED BY <1>8, <2>1, TypesUnfolded
<1>10. Types'
  <2>1. \A v \in Workers : WorkOK(work'[v], plan', copies')
    <3>1. WorkOK(x, plan, copies)
      <4>1. work[w].task \in Task /\ work[w].task.copy <= copies
        BY <1>0, WorkTyped DEF WorkOK
      <4> QED BY <1>1, <1>2, <1>4, <4>1 DEF WorkOK
    <3> QED BY <1>0, <1>6, <3>1, TypesUnfolded
  <2>2. \A q \in Runs : api'[q] \in {"new", "counted"} => runs'[q] = None
    BY <1>0, <1>9, TypesUnfolded
  <2>3. scores' \subseteq scores
    BY <1>0
  <2> QED BY <1>0, <1>6, <1>9, <2>1, <2>2, <2>3, TypesUnfolded, TypesFolded
<1>11. OneToken'
  <2>1. \A v \in Workers : Busy(work'[v]) => Busy(work[v]) /\ work'[v].task = work[v].task
    BY <1>0, <1>4, <1>6
  <2> QED BY <1>0, <2>1, TokensKept
<1>12. ScoresOK'
  <2>1. ASSUME NEW v \in Workers, NEW s \in scores', Busy(work'[v]), Stored(s, work'[v].task)
        PROVE  /\ work'[v].pc = "start" => s \in work'[v].doomed
               /\ Evaluating(work'[v]) => s.pair[1] \notin work'[v].todo
    <3>1. CASE v = w
      <4>1. s \in scores /\ s \notin work[w].doomed /\ Stored(s, work[w].task)
        BY <1>0, <1>4, <1>6, <2>1, <3>1
      <4> QED BY <1>0, <4>1 DEF Inv, ScoresOK
    <3>2. CASE v # w
      BY <1>0, <1>6, <2>1, <3>2 DEF Inv, ScoresOK
    <3> QED BY <3>1, <3>2
  <2>2. \A s, q \in scores' : s.run # None /\ s.run = q.run /\ s.pair = q.pair /\ s.by.copy = q.by.copy => s = q
    BY <1>0 DEF Inv, ScoresOK
  <2> QED BY <2>1, <2>2, ScoresFolded
<1>13. ASSUME NEW q \in Runs, runs'[q] # None PROVE Counted(q)'
  <2>1. CASE q = r
    BY <1>8, <1>9, <1>13, <2>1, CountedFromZero
  <2>2. CASE q # r
    <3>1. \A v \in Workers : Evaluating(work'[v]) /\ work'[v].task.run = q => work'[v] = work[v]
      BY <1>1, <1>4, <1>6, <2>2
    <3>2. copies' \in Nat /\ copies <= copies' /\ plan'[q] = plan[q]
      BY <1>0, TypesUnfolded
    <3>3. runs[q] # None /\ runs'[q] = runs[q]
      BY <1>9, <1>13, <2>2
    <3> QED BY <3>1, <3>2, <3>3, CountedKept
  <2> QED BY <2>1, <2>2
<1> QED BY <1>10, <1>11, <1>12, <1>13 DEF Inv

-----------------------------------------------------------------------------
(* A trace is done.                                                        *)

LEMMA PlanFinite ==
  ASSUME Inv, NEW r \in Runs
  PROVE  /\ IsFiniteSet(plan[r]) /\ plan[r] \subseteq Pairs
         /\ IsFiniteSet(Targets(plan[r])) /\ Targets(plan[r]) \subseteq Traces
<1>1. plan[r] \subseteq Pairs
  BY TypesUnfolded
<1>2. IsFiniteSet(Pairs)
  BY EvalAssumption, FS_Product DEF Pairs
<1>3. Targets(plan[r]) \subseteq Traces
  BY <1>1 DEF Targets, Pairs
<1> QED BY <1>1, <1>2, <1>3, EvalAssumption, FS_Subset

\* The history gains the target t and its failed pairs.
LEMMA CountStep ==
  ASSUME Inv, NEW w \in Workers, Evaluating(work[w]), NEW r \in Runs, r = work[w].task.run, runs[r] # None,
         NEW t \in work[w].todo, NEW bad \in SUBSET PairsAt(r, t),
         runs'[r].evaluated = runs[r].evaluated + 1,
         runs'[r].failed = runs[r].failed + Cardinality(bad),
         work'[w].task = work[w].task, work'[w].todo = work[w].todo \ {t},
         \A v \in Workers : v # w => work'[v] = work[v],
         plan' = plan, copies' = copies
  PROVE  Counted(r)'
<1>1. PICK G \in SUBSET ((0..copies) \X Targets(plan[r])), F \in SUBSET ((0..copies) \X plan[r]) :
        /\ History(copies, plan[r], G, F)
        /\ runs[r].evaluated = Cardinality(G) /\ runs[r].failed = Cardinality(F)
        /\ \A v \in Workers : Pending(work[v], r, G)
  BY DEF Inv, Counted
<1>2. PICK c \in 0..copies : c = work[w].task.copy
  BY WorkTyped DEF Evaluating, Busy
<1>3. t \in Targets(plan[r]) /\ copies \in Nat
  BY WorkTyped, TypesUnfolded DEF WorkOK, Evaluating, Busy
<1>4. PICK H : H = G \cup {<<c, t>>}
  OBVIOUS
<1>5. PICK E : E = F \cup ({c} \X bad)
  OBVIOUS
<1>6. <<c, t>> \notin G
  BY <1>1, <1>2 DEF Pending
<1>7. IsFiniteSet(G) /\ IsFiniteSet(F) /\ IsFiniteSet(bad)
  <2>1. IsFiniteSet(0..copies)
    BY <1>3, FS_Interval
  <2>2. bad \subseteq plan[r]
    BY DEF PairsAt
  <2> QED BY <2>1, <2>2, PlanFinite, FS_Product, FS_Subset
<1>8. Cardinality(H) = Cardinality(G) + 1
  BY <1>4, <1>6, <1>7, FS_AddElement
<1>9. Cardinality(E) = Cardinality(F) + Cardinality(bad)
  <2>1. F \cap ({c} \X bad) = {}
    <3> SUFFICES ASSUME NEW y \in F, y \in {c} \X bad PROVE FALSE
      OBVIOUS
    <3>1. y[1] = c /\ y[2] \in bad
      OBVIOUS
    <3>2. y[2][1] = t
      BY <3>1 DEF PairsAt
    <3> QED BY <1>1, <1>6, <3>1, <3>2 DEF History
  <2>2. IsFiniteSet({c}) /\ Cardinality({c}) = 1
    BY FS_Singleton
  <2>3. IsFiniteSet({c} \X bad) /\ Cardinality({c} \X bad) = Cardinality({c}) * Cardinality(bad)
    BY <1>7, <2>2, FS_Product
  <2>4. Cardinality(bad) \in Nat /\ Cardinality(F) \in Nat
    BY <1>7, FS_CardinalityType
  <2>5. Cardinality({}) = 0
    BY FS_EmptySet
  <2>6. Cardinality(E) = Cardinality(F) + Cardinality({c} \X bad) - Cardinality(F \cap ({c} \X bad))
    BY <1>5, <1>7, <2>3, FS_Union
  <2>7. Cardinality({c} \X bad) = Cardinality(bad)
    BY <2>2, <2>3, <2>4
  <2>8. Cardinality(F \cap ({c} \X bad)) = 0
    BY <2>1, <2>5
  <2> QED BY <2>4, <2>6, <2>7, <2>8
<1>10. /\ H \in SUBSET ((0..copies') \X Targets(plan'[r])) /\ E \in SUBSET ((0..copies') \X plan'[r])
       /\ History(copies', plan'[r], H, E)
  <2>1. bad \subseteq plan[r] /\ \A y \in bad : y[1] = t
    BY DEF PairsAt
  <2>2. H \in SUBSET ((0..copies) \X Targets(plan[r])) /\ E \in SUBSET ((0..copies) \X plan[r])
    BY <1>3, <1>4, <1>5, <2>1
  <2>3. \A y \in E : <<y[1], y[2][1]>> \in H
    <3> TAKE y \in E
    <3>1. CASE y \in F
      BY <1>1, <1>4, <3>1 DEF History
    <3>2. CASE y \in {c} \X bad
      BY <1>4, <2>1, <3>2
    <3> QED BY <1>5, <3>1, <3>2
  <2> QED BY <2>2, <2>3 DEF History
<1>11. \A v \in Workers : Pending(work'[v], r, H)
  <2> TAKE v \in Workers
  <2>1. CASE v = w
    BY <1>1, <1>2, <1>4, <2>1 DEF Pending, Evaluating
  <2>2. CASE v # w
    <3>1. Evaluating(work[v]) /\ work[v].task.run = r => work[v].task.copy # c
      BY <1>2, <2>2 DEF Inv, OneToken, Same, Evaluating, Busy
    <3> QED BY <1>1, <1>4, <2>2, <3>1 DEF Pending
  <2> QED BY <2>1, <2>2
<1>12. \E G1 \in SUBSET ((0..copies') \X Targets(plan'[r])), F1 \in SUBSET ((0..copies') \X plan'[r]) :
        /\ History(copies', plan'[r], G1, F1)
        /\ runs'[r].evaluated = Cardinality(G1) /\ runs'[r].failed = Cardinality(F1)
        /\ \A v \in Workers : Pending(work'[v], r, G1)
  BY <1>1, <1>8, <1>9, <1>10, <1>11
<1> QED BY <1>12 DEF Counted, History, Pending, Evaluating, Targets

\* The worker goes on to its next trace; what it stored keeps ScoresOK.
LEMMA TraceDone ==
  ASSUME Inv, NEW w \in Workers, Evaluating(work[w]), NEW r \in Runs, r = work[w].task.run, runs[r] # None,
         NEW t \in work[w].todo, NEW bad \in SUBSET PairsAt(r, t),
         NEW row \in Row, row.evaluated = runs[r].evaluated + 1, row.failed = runs[r].failed + Cardinality(bad),
         runs' = [runs EXCEPT ![r] = row],
         NEW x \in Local, x.pc = "eval", x.task = work[w].task, x.todo = work[w].todo \ {t},
         work' = [work EXCEPT ![w] = x],
         scores' \subseteq Score, \A s \in scores' : s.by.copy <= copies, ScoresOK',
         UNCHANGED <<api, plan, traces, queue, copies, touched>>
  PROVE  Inv'
<1>1. /\ work' \in [Workers -> Local] /\ work'[w] = x /\ \A v \in Workers : v # w => work'[v] = work[v]
      /\ runs' \in [Runs -> Row \cup {None}] /\ runs'[r] = row /\ \A q \in Runs : q # r => runs'[q] = runs[q]
  BY TypesUnfolded
<1>2. Busy(work[w]) /\ Continues(x, work[w])
  BY DEF Evaluating, Busy, Continues
<1>3. Types'
  <2>1. \A v \in Workers : WorkOK(work'[v], plan', copies')
    <3>1. WorkOK(x, plan, copies)
      BY <1>2, WorkTyped DEF WorkOK
    <3> QED BY <1>1, <3>1, TypesUnfolded
  <2>2. \A q \in Runs : api'[q] \in {"new", "counted"} => runs'[q] = None
    BY <1>1, TypesUnfolded
  <2>3. /\ api' \in [Runs -> ApiState] /\ plan' \in [Runs -> SUBSET Pairs] /\ traces' \subseteq Traces
        /\ queue' \subseteq Task /\ copies' \in 0..MaxCopies /\ touched' \in BOOLEAN
        /\ (\A k \in queue' : k.copy <= copies') /\ \A s \in scores' : s.by.copy <= copies'
    BY TypesUnfolded
  <2> QED BY <1>1, <2>1, <2>2, <2>3, TypesFolded
<1>4. OneToken'
  <2>1. \A v \in Workers : Busy(work'[v]) => Busy(work[v]) /\ work'[v].task = work[v].task
    BY <1>1, <1>2
  <2> QED BY <2>1, TokensKept
<1>5. ASSUME NEW q \in Runs, runs'[q] # None PROVE Counted(q)'
  <2>1. CASE q = r
    <3>1. /\ runs'[r].evaluated = runs[r].evaluated + 1 /\ runs'[r].failed = runs[r].failed + Cardinality(bad)
          /\ work'[w].task = work[w].task /\ work'[w].todo = work[w].todo \ {t}
      BY <1>1
    <3> QED BY <1>1, <2>1, <3>1, CountStep
  <2>2. CASE q # r
    <3>1. \A v \in Workers : Evaluating(work'[v]) /\ work'[v].task.run = q => work'[v] = work[v]
      BY <1>1, <2>2
    <3>2. copies' \in Nat /\ copies <= copies' /\ plan'[q] = plan[q]
      BY TypesUnfolded
    <3>3. runs[q] # None /\ runs'[q] = runs[q]
      BY <1>1, <1>5, <2>2
    <3> QED BY <3>1, <3>2, <3>3, CountedKept
  <2> QED BY <2>1, <2>2
<1> QED BY <1>3, <1>4, <1>5 DEF Inv

LEMMA LoadOK ==
  ASSUME Inv, NEW w \in Workers, NEW t \in Traces, LoadTrace(w, t)
  PROVE  Inv'
<1>0. /\ work[w].pc = "eval" /\ Busy(work[w]) /\ Evaluating(work[w]) /\ t \in work[w].todo
      /\ UNCHANGED <<api, plan, traces, scores, queue, copies, touched>>
  BY DEF LoadTrace, At, Busy, Evaluating
<1>1. PICK r \in Runs : r = RunOf(w) /\ r = work[w].task.run
  BY <1>0, WorkTyped DEF RunOf
<1>2. work[w] \in Local
  BY WorkTyped
<1>3. CASE t \in traces
  <2>1. PICK x : x = [work[w] EXCEPT !.pc = "metrics", !.trace = t]
    OBVIOUS
  <2>2. x \in Local /\ x.pc = "metrics" /\ x.task = work[w].task /\ x.todo = work[w].todo /\ x.trace = t
    BY <1>2, <2>1 DEF Local
  <2>3. Continues(x, work[w])
    BY <1>0, <2>2 DEF Continues, Evaluating
  <2>4. work' = [work EXCEPT ![w] = x] /\ runs' = runs
    BY <1>3, <2>1 DEF LoadTrace, Become
  <2> QED BY <1>0, <2>2, <2>3, <2>4, RowsSame, WorkerMoves
<1>4. CASE t \notin traces
  <2>1. PICK x : x = [work[w] EXCEPT !.todo = @ \ {t}]
    OBVIOUS
  <2>2. x \in Local /\ x.pc = "eval" /\ x.task = work[w].task /\ x.todo = work[w].todo \ {t}
    BY <1>0, <1>2, <2>1 DEF Local
  <2>3. Continues(x, work[w])
    BY <1>0, <2>2 DEF Continues, Evaluating
  <2>4. work' = [work EXCEPT ![w] = x] /\ Update(r, [runs[r] EXCEPT !.evaluated = @ + 1])
    BY <1>1, <1>4, <2>1 DEF LoadTrace, Become
  <2>5. CASE runs[r] = None
    <3>1. runs' = runs
      BY <2>4, <2>5 DEF Update
    <3> QED BY <1>0, <2>2, <2>3, <2>4, <3>1, RowsSame, WorkerMoves
  <2>6. CASE runs[r] # None
    <3>1. runs[r] \in Row
      BY <2>6, TypesUnfolded
    <3>2. PICK row : row = [runs[r] EXCEPT !.evaluated = @ + 1]
      OBVIOUS
    <3>3. Cardinality({}) = 0 /\ {} \in SUBSET PairsAt(r, t)
      BY FS_EmptySet
    <3>4. row \in Row /\ row.evaluated = runs[r].evaluated + 1 /\ row.failed = runs[r].failed + Cardinality({})
      BY <3>1, <3>2, <3>3 DEF Row
    <3>5. runs' = [runs EXCEPT ![r] = row]
      BY <2>4, <2>6, <3>2 DEF Update
    <3>6. ScoresOK'
      <4>1. work' \in [Workers -> Local] /\ work'[w] = x /\ \A v \in Workers : v # w => work'[v] = work[v]
        BY <2>2, <2>4, TypesUnfolded
      <4>2. \A v \in Workers : Continues(work'[v], work[v])
        BY <2>3, <4>1 DEF Continues
      <4> QED BY <1>0, <4>2, ScoresKept
    <3>7. scores' \subseteq Score /\ \A s \in scores' : s.by.copy <= copies
      BY <1>0, TypesUnfolded
    <3> QED BY <1>0, <1>1, <2>2, <2>4, <2>6, <3>3, <3>4, <3>5, <3>6, <3>7, TraceDone
  <2> QED BY <2>5, <2>6
<1> QED BY <1>3, <1>4

\* The scores of a trace are new ones of the chain, one for each pair.
LEMMA StoreOK ==
  ASSUME Inv, NEW w \in Workers, StoreScores(w)
  PROVE  Inv'
<1>0. /\ work[w].pc = "metrics" /\ Busy(work[w]) /\ Evaluating(work[w])
      /\ UNCHANGED <<api, plan, traces, queue, copies, touched>>
  BY DEF StoreScores, At, Busy, Evaluating
<1>1. PICK r \in Runs : r = RunOf(w) /\ r = work[w].task.run
  BY <1>0, WorkTyped DEF RunOf
<1>2. /\ work[w] \in Local /\ work[w].task \in Task /\ work[w].task.copy <= copies
      /\ work[w].trace \in work[w].todo /\ work[w].todo \subseteq Traces
  BY <1>0, WorkTyped DEF WorkOK, Local
<1>3. PICK t \in work[w].todo : t = work[w].trace
  BY <1>2
<1>4. PICK x : x = [work[w] EXCEPT !.pc = "eval", !.todo = @ \ {t}, !.trace = None]
  OBVIOUS
<1>5. x \in Local /\ x.pc = "eval" /\ x.task = work[w].task /\ x.todo = work[w].todo \ {t}
  BY <1>2, <1>4 DEF Local
<1>6. work' = [work EXCEPT ![w] = x] /\ runs[r] # None /\ runs[r] \in Row
  BY <1>1, <1>3, <1>4, TypesUnfolded DEF StoreScores, Become
<1>7. PICK bad \in SUBSET PairsAt(RunOf(w), work[w].trace) :
        /\ scores' = scores \cup
             {[run |-> RunOf(w), pair |-> x1, by |-> work[w].task,
               status |-> IF x1 \in bad THEN "FAILED" ELSE "SUCCESS"] : x1 \in PairsAt(RunOf(w), work[w].trace)}
        /\ Update(RunOf(w), [runs[RunOf(w)] EXCEPT !.evaluated = @ + 1, !.failed = @ + Cardinality(bad)])
  BY Zenon DEF StoreScores
<1>17. bad \in SUBSET PairsAt(r, t)
  BY <1>1, <1>3
<1>8. PICK row : row = [runs[r] EXCEPT !.evaluated = @ + 1, !.failed = @ + Cardinality(bad)]
  OBVIOUS
<1>9. row \in Row /\ row.evaluated = runs[r].evaluated + 1 /\ row.failed = runs[r].failed + Cardinality(bad)
  <2>1. Cardinality(bad) \in Nat
    <3>1. bad \subseteq plan[r]
      BY <1>17 DEF PairsAt
    <3> QED BY <3>1, PlanFinite, FS_Subset, FS_CardinalityType
  <2>2. PICK n \in Nat : n = Cardinality(bad)
    BY <2>1
  <2>3. PICK old \in Row : old = runs[r]
    BY <1>6
  <2>4. PICK e \in Nat, f \in Nat : e = old.evaluated + 1 /\ f = old.failed + n
    BY DEF Row
  <2>5. row = [old EXCEPT !.evaluated = e, !.failed = f]
    BY <1>8, <2>2, <2>3, <2>4
  <2>6. row \in Row /\ row.evaluated = e /\ row.failed = f
    BY <2>5 DEF Row
  <2> QED BY <2>2, <2>3, <2>4, <2>6
<1>10. runs' = [runs EXCEPT ![r] = row]
  BY <1>1, <1>6, <1>7, <1>8 DEF Update
<1>11. PICK N : N = {[run |-> r, pair |-> x1, by |-> work[w].task,
                     status |-> IF x1 \in bad THEN "FAILED" ELSE "SUCCESS"] : x1 \in PairsAt(r, t)}
  OBVIOUS
<1>12. \A s \in N : s \in Score /\ s.run = r /\ s.by = work[w].task /\ s.pair \in PairsAt(r, t) /\ s.pair[1] = t
  <2>1. PairsAt(r, t) \subseteq Pairs /\ \A y \in PairsAt(r, t) : y[1] = t
    BY PlanFinite DEF PairsAt
  <2> QED BY <1>2, <1>11, <2>1 DEF Score
<1>13. \A s, q \in N : s.pair = q.pair => s = q
  BY <1>11
<1>14. scores' = scores \cup N
  BY <1>1, <1>3, <1>7, <1>11
<1>15. scores' \subseteq Score /\ \A s \in scores' : s.by.copy <= copies
  BY <1>2, <1>12, <1>14, TypesUnfolded
<1>16. ScoresOK'
  <2>0. work' \in [Workers -> Local] /\ work'[w] = x /\ \A v \in Workers : v # w => work'[v] = work[v]
    BY <1>5, <1>6, TypesUnfolded
  <2>1. \A s \in scores : Stored(s, work[w].task) => s.pair[1] # t
    BY <1>0, <1>3 DEF Inv, ScoresOK
  <2>2. \A s, q \in scores' : s.run # None /\ s.run = q.run /\ s.pair = q.pair /\ s.by.copy = q.by.copy => s = q
    <3> SUFFICES ASSUME NEW s \in scores', NEW q \in scores', s.run # None, s.run = q.run, s.pair = q.pair,
                        s.by.copy = q.by.copy
                 PROVE  s = q
      OBVIOUS
    <3>1. CASE s \in scores /\ q \in scores
      BY <3>1 DEF Inv, ScoresOK
    <3>2. CASE s \in N /\ q \in N
      BY <1>13, <3>2
    <3>3. CASE s \in N /\ q \in scores
      BY <1>1, <1>12, <2>1, <3>3 DEF Stored
    <3>4. CASE s \in scores /\ q \in N
      BY <1>1, <1>12, <2>1, <3>4 DEF Stored
    <3> QED BY <1>14, <3>1, <3>2, <3>3, <3>4
  <2>3. ASSUME NEW v \in Workers, NEW s \in scores', Busy(work'[v]), Stored(s, work'[v].task)
        PROVE  /\ work'[v].pc = "start" => s \in work'[v].doomed
               /\ Evaluating(work'[v]) => s.pair[1] \notin work'[v].todo
    <3>1. CASE v = w
      <4>1. CASE s \in N
        BY <1>5, <1>12, <2>0, <3>1, <4>1
      <4>2. CASE s \in scores
        BY <1>0, <1>5, <2>0, <2>3, <3>1, <4>2 DEF Inv, ScoresOK
      <4> QED BY <1>14, <4>1, <4>2
    <3>2. CASE v # w
      <4>1. s \notin N
        <5>1. ~Same(work[v].task, work[w].task) /\ work'[v] = work[v]
          BY <1>0, <2>0, <2>3, <3>2 DEF Inv, OneToken
        <5> QED BY <1>1, <1>12, <2>3, <5>1 DEF Same, Stored
      <4> QED BY <1>14, <2>0, <2>3, <3>2, <4>1 DEF Inv, ScoresOK
    <3> QED BY <3>1, <3>2
  <2> QED BY <2>2, <2>3, ScoresFolded
<1> QED BY <1>0, <1>1, <1>3, <1>5, <1>6, <1>9, <1>10, <1>15, <1>16, <1>17, TraceDone

-----------------------------------------------------------------------------
(* The users.                                                              *)

\* Users change scores, remove traces and rows.
LEMMA UserStep ==
  ASSUME Inv, runs' \in [Runs -> Row \cup {None}], traces' \subseteq Traces, touched' \in BOOLEAN,
         \A r \in Runs : runs'[r] = runs[r] \/ runs'[r] = None,
         scores' \subseteq Score, \A s \in scores' : s.by.copy <= copies, ScoresOK',
         UNCHANGED <<api, plan, queue, work, copies>>
  PROVE  Inv'
<1>1. Types'
  <2>1. \A r \in Runs : api'[r] \in {"new", "counted"} => runs'[r] = None
    BY TypesUnfolded
  <2>2. /\ api' \in [Runs -> ApiState] /\ plan' \in [Runs -> SUBSET Pairs]
        /\ queue' \subseteq Task /\ copies' \in 0..MaxCopies
        /\ work' \in [Workers -> Local]
        /\ (\A k \in queue' : k.copy <= copies') /\ \A s \in scores' : s.by.copy <= copies'
    BY TypesUnfolded
  <2>3. \A w \in Workers : WorkOK(work'[w], plan', copies')
    BY TypesUnfolded
  <2> QED BY <2>1, <2>2, <2>3, TypesFolded
<1>2. OneToken'
  <2>1. /\ queue' \subseteq queue
        /\ \A w \in Workers : Busy(work'[w]) => Busy(work[w]) /\ work'[w].task = work[w].task
        /\ \A r \in Runs : api'[r] \in {"new", "counted", "committed"} =>
                           api[r] \in {"new", "counted", "committed"}
    OBVIOUS
  <2> QED BY <2>1, TokensKept
<1>3. ASSUME NEW r \in Runs, runs'[r] # None PROVE Counted(r)'
  <2>1. copies' \in Nat /\ copies <= copies' /\ plan'[r] = plan[r]
    BY TypesUnfolded
  <2>2. runs[r] # None /\ runs'[r] = runs[r]
    BY <1>3
  <2> QED BY <2>1, <2>2, CountedKept
<1> QED BY <1>1, <1>2, <1>3 DEF Inv

LEMMA DeleteRunOK ==
  ASSUME Inv, NEW r \in Runs, DeleteRun(r)
  PROVE  Inv'
<1>0. /\ runs' = [runs EXCEPT ![r] = None] /\ touched' = TRUE
      /\ UNCHANGED <<api, plan, traces, queue, work, copies>>
      /\ scores' \in {scores \ ScoresOf(r),
                      (scores \ ScoresOf(r)) \cup {[s EXCEPT !.run = None] : s \in ScoresOf(r)}}
  BY DEF DeleteRun
<1>1. /\ runs' \in [Runs -> Row \cup {None}] /\ \A q \in Runs : runs'[q] = runs[q] \/ runs'[q] = None
      /\ traces' \subseteq Traces /\ touched' \in BOOLEAN /\ None \notin Runs
  BY <1>0, TypesUnfolded
<1>2. \A s \in scores' : s \in Score /\ s.by.copy <= copies /\ (s.run # None => s \in scores)
  <2> TAKE s \in scores'
  <2>1. CASE s \in scores
    BY <2>1, TypesUnfolded
  <2>2. CASE s \notin scores
    <3>1. PICK q \in scores : s = [q EXCEPT !.run = None]
      BY <1>0, <2>2 DEF ScoresOf
    <3>2. q \in Score /\ q.by.copy <= copies
      BY TypesUnfolded
    <3>3. s \in Score /\ s.run = None /\ s.by = q.by
      BY <3>1, <3>2 DEF Score
    <3> QED BY <3>2, <3>3
  <2> QED BY <2>1, <2>2
<1>3. ScoresOK'
  <2>1. \A s, q \in scores' : s.run # None /\ s.run = q.run /\ s.pair = q.pair /\ s.by.copy = q.by.copy => s = q
    BY <1>2 DEF Inv, ScoresOK
  <2>2. ASSUME NEW w \in Workers, NEW s \in scores', Busy(work'[w]), Stored(s, work'[w].task)
        PROVE  /\ work'[w].pc = "start" => s \in work'[w].doomed
               /\ Evaluating(work'[w]) => s.pair[1] \notin work'[w].todo
    <3>1. work'[w] = work[w] /\ RunOf(w) \in Runs
      BY <1>0, <2>2, WorkTyped
    <3>2. s \in scores
      BY <1>1, <1>2, <2>2, <3>1 DEF Stored, RunOf
    <3> QED BY <2>2, <3>1, <3>2 DEF Inv, ScoresOK
  <2> QED BY <2>1, <2>2, ScoresFolded
<1> QED BY <1>0, <1>1, <1>2, <1>3, UserStep

LEMMA DeleteTraceOK ==
  ASSUME Inv, NEW t \in traces, DeleteTrace(t)
  PROVE  Inv'
<1>0. /\ traces' \subseteq traces /\ scores' \subseteq scores /\ touched' = TRUE
      /\ UNCHANGED <<api, plan, runs, queue, work, copies>>
  BY DEF DeleteTrace
<1>1. ScoresOK'
  BY <1>0, WorkSame, ScoresKept
<1>2. /\ runs' \in [Runs -> Row \cup {None}] /\ \A q \in Runs : runs'[q] = runs[q]
      /\ traces' \subseteq Traces /\ touched' \in BOOLEAN
      /\ scores' \subseteq Score /\ \A s \in scores' : s.by.copy <= copies
  BY <1>0, TypesUnfolded
<1> QED BY <1>0, <1>1, <1>2, UserStep

LEMMA ChangeScoreOK ==
  ASSUME Inv, NEW s \in scores, ChangeScore(s)
  PROVE  Inv'
<1>0. /\ touched' = TRUE /\ UNCHANGED <<api, plan, runs, traces, queue, work, copies>>
      /\ \A w \in Workers : s \notin work[w].doomed
      /\ scores' \in {scores \ {s}, (scores \ {s}) \cup {[s EXCEPT !.status = "SUCCESS"]}}
  BY DEF ChangeScore
<1>1. s \in Score /\ s.by.copy <= copies
  BY TypesUnfolded
<1>2. PICK z : z = [s EXCEPT !.status = "SUCCESS"]
  OBVIOUS
<1>3. z \in Score /\ z.run = s.run /\ z.pair = s.pair /\ z.by = s.by
  BY <1>1, <1>2 DEF Score
<1>4. \A q \in scores' : (q \in scores /\ q # s) \/ q = z
  BY <1>0, <1>2
<1>5. scores' \subseteq Score /\ \A q \in scores' : q.by.copy <= copies
  BY <1>1, <1>3, <1>4, TypesUnfolded
<1>6. ScoresOK'
  <2>1. \A p, q \in scores' : p.run # None /\ p.run = q.run /\ p.pair = q.pair /\ p.by.copy = q.by.copy => p = q
    BY <1>3, <1>4 DEF Inv, ScoresOK
  <2>2. ASSUME NEW w \in Workers, NEW q \in scores', Busy(work'[w]), Stored(q, work'[w].task)
        PROVE  /\ work'[w].pc = "start" => q \in work'[w].doomed
               /\ Evaluating(work'[w]) => q.pair[1] \notin work'[w].todo
    <3>1. work'[w] = work[w]
      BY <1>0
    <3>2. CASE q \in scores
      BY <2>2, <3>1, <3>2 DEF Inv, ScoresOK
    <3>3. CASE q = z
      BY <1>0, <1>3, <2>2, <3>1, <3>3 DEF Inv, ScoresOK, Stored
    <3> QED BY <1>4, <3>2, <3>3
  <2> QED BY <2>1, <2>2, ScoresFolded
<1>7. /\ runs' \in [Runs -> Row \cup {None}] /\ \A q \in Runs : runs'[q] = runs[q]
      /\ traces' \subseteq Traces /\ touched' \in BOOLEAN
  BY <1>0, TypesUnfolded
<1> QED BY <1>0, <1>5, <1>6, <1>7, UserStep

-----------------------------------------------------------------------------
(* The theorem.                                                            *)

\* The invariant holds initially.
LEMMA InitInv == Init => Inv
<1> SUFFICES ASSUME Init PROVE Inv
  OBVIOUS
<1>1. /\ \A w \in Workers : work[w] = Idle /\ ~Busy(work[w]) /\ ~Evaluating(work[w])
      /\ work \in [Workers -> Local]
  BY IdleOK DEF Init, Busy, Evaluating
<1>2. \A w \in Workers : work[w].pc = "idle"
  BY <1>1, IdleOK
<1>3. Types
  <2>1. TypeOK
    BY <1>2, EvalAssumption DEF Init, TypeOK, At, Status
  <2> QED BY <1>1, <1>2, <2>1 DEF Types, WorkOK, Init, Busy
<1>4. OneToken /\ ScoresOK
  BY <1>1 DEF OneToken, ScoresOK, Init
<1> QED BY <1>3, <1>4 DEF Inv, Init

\* Every step keeps the invariant.
LEMMA NextInv == Inv /\ [Next]_vars => Inv'
<1> SUFFICES ASSUME Inv, [Next]_vars PROVE Inv'
  OBVIOUS
<1>1. ASSUME NEW r \in Runs, Request(r) PROVE Inv'
  BY <1>1, PrepareOK, CommitOK, PublishOK DEF Request
<1>2. ASSUME NEW w \in Workers, Execute(w) PROVE Inv'
  BY <1>2, StartOK, StoreOK, StopsOK, CompleteOK, RetryOK, LoadOK DEF Execute
<1>3. ASSUME NEW w \in Workers, Fault(w) PROVE Inv'
  BY <1>3, StopsOK, CutOffOK DEF Fault
<1>4. ASSUME NEW m \in queue, Redeliver(m) \/ \E w \in Workers : TakeRun(w, m) PROVE Inv'
  BY <1>4, RedeliverOK, TakeOK
<1>5. CASE Users
  BY <1>5, DeleteRunOK, DeleteTraceOK, ChangeScoreOK DEF Users
<1>6. CASE UNCHANGED vars
  <2>1. UNCHANGED <<api, plan, runs, traces, scores, queue, work, copies, touched>>
    BY <1>6 DEF vars
  <2>2. ScoresOK'
    BY <2>1, WorkSame, ScoresKept
  <2>3. /\ runs' \in [Runs -> Row \cup {None}] /\ \A q \in Runs : runs'[q] = runs[q]
        /\ traces' \subseteq Traces /\ touched' \in BOOLEAN
        /\ scores' \subseteq Score /\ \A s \in scores' : s.by.copy <= copies
    BY <2>1, TypesUnfolded
  <2> QED BY <2>1, <2>2, <2>3, UserStep
<1> QED BY <1>1, <1>2, <1>3, <1>4, <1>5, <1>6 DEF Next

\* The types, the chains of tasks, the scores and the counters of execute_eval_run agree,
\* whatever is retried, redelivered, cut off or deleted meanwhile.
THEOREM Invariance == Spec => []Inv
BY InitInv, NextInv, PTL DEF Spec

LEMMA InvAttemptsReplace ==
  ASSUME Inv
  PROVE  AttemptsReplace
<1>0. TypeOK /\ copies \in Nat
  BY TypesUnfolded DEF Inv, Types
<1>1. IsFiniteSet(0..copies) /\ Cardinality(0..copies) = copies + 1
  BY <1>0, FS_Interval
<1>2. ASSUME NEW s \in scores, s.run # None
      PROVE  Cardinality({q \in ScoresOf(s.run) : q.pair = s.pair}) <= copies + 1
  <2>1. PICK S : S = {q \in ScoresOf(s.run) : q.pair = s.pair}
    OBVIOUS
  <2>2. \A q \in S : q \in scores /\ q.run = s.run /\ q.pair = s.pair /\ q.by.copy \in 0..copies
    <3>1. \A q \in scores : q.by.copy \in Nat /\ q.by.copy <= copies
      BY TypesUnfolded DEF Score, Task
    <3> QED BY <1>0, <2>1, <3>1 DEF ScoresOf
  <2>3. PICK f : f = [q \in S |-> q.by.copy]
    OBVIOUS
  <2>4. f \in [S -> 0..copies] /\ \A q \in S : f[q] = q.by.copy
    BY <2>2, <2>3
  <2>5. \A p, q \in S : f[p] = f[q] => p = q
    BY <1>2, <2>2, <2>4 DEF Inv, ScoresOK
  <2>6. f \in Injection(S, 0..copies)
    BY <2>4, <2>5 DEF Injection, IsInjective
  <2> QED BY <1>1, <2>1, <2>6, FS_Injection
<1>3. ASSUME NEW r \in Runs, runs[r] # None
      PROVE  /\ runs[r].evaluated <= (copies + 1) * Cardinality(Targets(plan[r]))
             /\ runs[r].failed <= (copies + 1) * Cardinality(plan[r])
  <2>1. PICK G \in SUBSET ((0..copies) \X Targets(plan[r])), F \in SUBSET ((0..copies) \X plan[r]) :
          runs[r].evaluated = Cardinality(G) /\ runs[r].failed = Cardinality(F)
    BY <1>3 DEF Inv, Counted
  <2>2. /\ IsFiniteSet((0..copies) \X Targets(plan[r])) /\ IsFiniteSet((0..copies) \X plan[r])
        /\ Cardinality((0..copies) \X Targets(plan[r])) = (copies + 1) * Cardinality(Targets(plan[r]))
        /\ Cardinality((0..copies) \X plan[r]) = (copies + 1) * Cardinality(plan[r])
    BY <1>1, PlanFinite, FS_Product
  <2>3. Cardinality(G) <= Cardinality((0..copies) \X Targets(plan[r]))
    BY <2>2, FS_Subset
  <2>4. Cardinality(F) <= Cardinality((0..copies) \X plan[r])
    BY <2>2, FS_Subset
  <2> QED BY <2>1, <2>2, <2>3, <2>4
<1> QED BY <1>0, <1>2, <1>3 DEF AttemptsReplace

\* A retried execution of execute_eval_run replaces what the failed one stored and counted:
\* a run holds at most one score for a trace and a metric, its progress never exceeds its
\* targets nor failed_count the evaluations asked for; or that once per delivery.
THEOREM RetriesReplace == Spec => []AttemptsReplace
BY Invariance, InvAttemptsReplace, PTL

-----------------------------------------------------------------------------
(* Without redeliveries.                                                   *)

LEMMA ExactUnfolded ==
  ASSUME Inv, ExactInv, copies = 0, NEW w \in Workers
  PROVE  Exact(work[w], runs[work[w].task.run], plan[work[w].task.run],
               {s \in scores : s.run = work[w].task.run}, touched)
BY DEF ExactInv, RunOf, ScoresOf

LEMMA ExactFolded ==
  ASSUME ~touched' => traces' = Traces /\ IsFiniteSet(scores'),
         copies' = 0 => \A w \in Workers :
           Exact(work'[w], runs'[work'[w].task.run], plan'[work'[w].task.run],
                 {s \in scores' : s.run = work'[w].task.run}, touched')
  PROVE  ExactInv'
BY DEF ExactInv, RunOf, ScoresOf, Exact, Evaluating, Targets

\* A run has one execution at a time.
LEMMA Alone ==
  ASSUME Inv, copies = 0, NEW v \in Workers, NEW w \in Workers,
         Busy(work[v]), Busy(work[w]), work[v].task.run = work[w].task.run
  PROVE  v = w
<1>1. work[v].task.copy \in 0..copies /\ work[w].task.copy \in 0..copies
  BY WorkTyped
<1>2. work[v].task.copy = 0 /\ work[w].task.copy = 0
  BY <1>1
<1> QED BY <1>2 DEF Inv, OneToken, Same

\* Steps that leave the scores, and the row, plan and targets of every execution that goes on.
LEMMA ExactKept ==
  ASSUME Inv, ExactInv, copies' \in Nat, copies <= copies',
         UNCHANGED <<traces, scores, touched>>,
         copies = 0 => \A v \in Workers : Evaluating(work'[v]) =>
           /\ Evaluating(work[v]) /\ work'[v].task = work[v].task /\ work'[v].todo = work[v].todo
           /\ plan'[work[v].task.run] = plan[work[v].task.run]
           /\ runs'[work[v].task.run] = runs[work[v].task.run]
  PROVE  ExactInv'
<1>1. ASSUME copies' = 0, NEW w \in Workers
      PROVE  Exact(work'[w], runs'[work'[w].task.run], plan'[work'[w].task.run],
                   {s \in scores' : s.run = work'[w].task.run}, touched')
  <2>1. copies = 0
    BY <1>1, TypesUnfolded
  <2>2. CASE ~Evaluating(work'[w])
    BY <2>2 DEF Exact
  <2>3. CASE Evaluating(work'[w])
    <3>1. /\ Evaluating(work[w]) /\ work'[w].task = work[w].task /\ work'[w].todo = work[w].todo
          /\ plan'[work[w].task.run] = plan[work[w].task.run]
          /\ runs'[work[w].task.run] = runs[work[w].task.run]
      BY <2>1, <2>3
    <3>2. Exact(work[w], runs[work[w].task.run], plan[work[w].task.run],
                {s \in scores : s.run = work[w].task.run}, touched)
      BY <2>1, ExactUnfolded
    <3> QED BY <3>1, <3>2 DEF Exact
  <2> QED BY <2>2, <2>3
<1>2. ~touched' => traces' = Traces /\ IsFiniteSet(scores')
  BY DEF ExactInv
<1> QED BY <1>1, <1>2, ExactFolded

\* The step of one execution, which leaves the rows and the scores of other runs.
LEMMA ExactStep ==
  ASSUME Inv, ExactInv, NEW w \in Workers, Busy(work[w]), NEW r \in Runs, r = work[w].task.run,
         NEW x, work' = [work EXCEPT ![w] = x], x.task = work[w].task,
         \A q \in Runs : q # r => runs'[q] = runs[q],
         \A q \in Runs : q # r => {s \in scores' : s.run = q} = {s \in scores : s.run = q},
         copies = 0 => Exact(x, runs'[r], plan[r], {s \in scores' : s.run = r}, touched),
         ~touched => IsFiniteSet(scores'),
         UNCHANGED <<plan, traces, copies, touched>>
  PROVE  ExactInv'
<1>1. work'[w] = x /\ \A v \in Workers : v # w => work'[v] = work[v]
  BY TypesUnfolded
<1>2. ASSUME copies' = 0, NEW v \in Workers
      PROVE  Exact(work'[v], runs'[work'[v].task.run], plan'[work'[v].task.run],
                   {s \in scores' : s.run = work'[v].task.run}, touched')
  <2>1. CASE v = w
    BY <1>1, <1>2, <2>1
  <2>2. CASE v # w /\ ~Evaluating(work[v])
    BY <1>1, <2>2 DEF Exact
  <2>3. CASE v # w /\ Evaluating(work[v])
    <3>1. PICK q : q = work[v].task.run
      OBVIOUS
    <3>2. q \in Runs /\ q # r
      BY <1>2, <2>3, <3>1, Alone, WorkTyped DEF Evaluating, Busy, RunOf
    <3>3. Exact(work[v], runs[q], plan[q], {s \in scores : s.run = q}, touched)
      BY <1>2, <3>1, ExactUnfolded
    <3> QED BY <1>1, <2>3, <3>1, <3>2, <3>3
  <2> QED BY <2>1, <2>2, <2>3
<1>3. ~touched' => traces' = Traces /\ IsFiniteSet(scores')
  BY DEF ExactInv
<1> QED BY <1>2, <1>3, ExactFolded

LEMMA ExactUsers ==
  ASSUME Inv, ExactInv, Users
  PROVE  ExactInv'
<1>1. /\ touched' = TRUE /\ UNCHANGED <<plan, work, copies>>
      /\ \A r \in Runs : runs'[r] = runs[r] \/ runs'[r] = None
  BY TypesUnfolded DEF Users, DeleteRun, DeleteTrace, ChangeScore
<1>2. ASSUME copies' = 0, NEW w \in Workers
      PROVE  Exact(work'[w], runs'[work'[w].task.run], plan'[work'[w].task.run],
                   {s \in scores' : s.run = work'[w].task.run}, touched')
  <2>1. CASE ~Evaluating(work[w])
    BY <1>1, <2>1 DEF Exact
  <2>2. CASE Evaluating(work[w])
    <3>1. RunOf(w) \in Runs
      BY <2>2, WorkTyped DEF Evaluating, Busy
    <3>2. Exact(work[w], runs[work[w].task.run], plan[work[w].task.run],
                {s \in scores : s.run = work[w].task.run}, touched)
      BY <1>1, <1>2, ExactUnfolded
    <3> QED BY <1>1, <3>1, <3>2 DEF Exact, RunOf
  <2> QED BY <2>1, <2>2
<1> QED BY <1>1, <1>2, ExactFolded

LEMMA ExactRequest ==
  ASSUME Inv, ExactInv, NEW r \in Runs, Request(r)
  PROVE  ExactInv'
<1>1. /\ api[r] \in {"new", "counted", "committed"}
      /\ UNCHANGED <<traces, scores, work, copies, touched>>
      /\ \A q \in Runs : q # r => plan'[q] = plan[q] /\ runs'[q] = runs[q]
  BY TypesUnfolded DEF Request, PrepareRun, PrepareRetry, Count, CommitRun, PublishRun, DispatchFails, ApiDies
<1>2. \A v \in Workers : Evaluating(work[v]) => work[v].task.run \in Runs /\ work[v].task.run # r
  BY <1>1, WorkTyped DEF Inv, OneToken, Evaluating, Busy, RunOf
<1>3. copies' \in Nat /\ copies <= copies'
  BY <1>1, TypesUnfolded
<1> QED BY <1>1, <1>2, <1>3, ExactKept

\* Steps that take an execution away from evaluating, or change only that.
LEMMA ExactStops ==
  ASSUME Inv, ExactInv, NEW w \in Workers, NEW x, work' = [work EXCEPT ![w] = x], ~Evaluating(x),
         \A q \in Runs : runs'[q] = runs[q] \/ (Busy(work[w]) /\ q = work[w].task.run),
         UNCHANGED <<plan, traces, scores, copies, touched>>
  PROVE  ExactInv'
<1>1. work'[w] = x /\ \A v \in Workers : v # w => work'[v] = work[v]
  BY TypesUnfolded
<1>2. ASSUME copies = 0, NEW v \in Workers, Evaluating(work'[v])
      PROVE  /\ Evaluating(work[v]) /\ work'[v] = work[v]
             /\ runs'[work[v].task.run] = runs[work[v].task.run]
  <2>1. v # w /\ work'[v] = work[v] /\ Busy(work[v])
    BY <1>1, <1>2 DEF Evaluating, Busy
  <2>2. work[v].task.run \in Runs
    BY <2>1, WorkTyped DEF RunOf
  <2> QED BY <1>2, <2>1, <2>2, Alone
<1>3. copies' \in Nat /\ copies <= copies'
  BY TypesUnfolded
<1> QED BY <1>2, <1>3, ExactKept

LEMMA NotEvaluating ==
  ASSUME NEW q \in Local
  PROVE  /\ ~Evaluating(Idle)
         /\ \A pc \in {"failing", "timeout", "retry"} :
              ~Evaluating([q EXCEPT !.pc = pc]) /\ ~Evaluating([q EXCEPT !.pc = pc, !.doomed = {}])
BY DEF Evaluating, Idle, Local

LEMMA OneRowWritten ==
  ASSUME Inv, NEW r \in Runs, NEW row, Update(r, row)
  PROVE  \A q \in Runs : q # r => runs'[q] = runs[q]
BY TypesUnfolded DEF Update

LEMMA ExactEnds ==
  ASSUME Inv, ExactInv, NEW w \in Workers,
         \/ StoreRejected(w) \/ CompleteRun(w) \/ FailRun(w) \/ RetryRun(w)
         \/ RunError(w) \/ HardLimit(w) \/ WorkerDies(w) \/ FailLost(w)
  PROVE  ExactInv'
<1>0. work[w] \in Local
  BY WorkTyped
<1>1. UNCHANGED <<plan, traces, scores, copies, touched>>
  BY DEF StoreRejected, CompleteRun, FailRun, RetryRun, RunError, HardLimit, WorkerDies, FailLost
<1>2. PICK x : work' = [work EXCEPT ![w] = x] /\ ~Evaluating(x)
  <2>1. CASE CompleteRun(w) \/ RetryRun(w) \/ HardLimit(w) \/ WorkerDies(w)
    BY <1>0, <2>1, NotEvaluating DEF CompleteRun, RetryRun, HardLimit, WorkerDies, Become
  <2>2. CASE StoreRejected(w) \/ RunError(w)
    BY <1>0, <2>2, NotEvaluating DEF StoreRejected, RunError, Become
  <2>3. CASE FailRun(w) \/ FailLost(w)
    <3>1. Become(w, IF At(w, "failing") THEN [work[w] EXCEPT !.pc = "retry"] ELSE Idle)
      BY <2>3 DEF FailRun, FailLost
    <3> QED BY <1>0, <3>1, NotEvaluating DEF Become
  <2> QED BY <2>1, <2>2, <2>3
<1>3. \A q \in Runs : runs'[q] = runs[q] \/ (Busy(work[w]) /\ q = work[w].task.run)
  <2>1. CASE CompleteRun(w) \/ FailRun(w)
    <3>1. Busy(work[w]) /\ \E row : Update(RunOf(w), row)
      BY <2>1 DEF CompleteRun, FailRun, Busy, At
    <3>2. RunOf(w) \in Runs
      BY <3>1, WorkTyped
    <3> QED BY <3>1, <3>2, OneRowWritten DEF RunOf
  <2>2. CASE ~(CompleteRun(w) \/ FailRun(w))
    BY <2>2 DEF StoreRejected, RetryRun, RunError, HardLimit, WorkerDies, FailLost
  <2> QED BY <2>1, <2>2
<1> QED BY <1>1, <1>2, <1>3, ExactStops

LEMMA ExactSoft ==
  ASSUME Inv, ExactInv, NEW w \in Workers, SoftLimit(w)
  PROVE  ExactInv'
<1>0. work[w] \in Local /\ UNCHANGED <<plan, runs, traces, scores, copies, touched>>
  BY WorkTyped DEF SoftLimit
<1>1. CASE At(w, "metrics") /\ Become(w, [work[w] EXCEPT !.soft = TRUE])
  <2>1. PICK x : x = [work[w] EXCEPT !.soft = TRUE]
    OBVIOUS
  <2>2. x.pc = work[w].pc /\ x.task = work[w].task /\ x.todo = work[w].todo
    BY <1>0, <2>1 DEF Local
  <2>3. work'[w] = x /\ \A v \in Workers : v # w => work'[v] = work[v]
    BY <1>1, <2>1, TypesUnfolded DEF Become
  <2>4. copies' \in Nat /\ copies <= copies'
    BY <1>0, TypesUnfolded
  <2>5. \A v \in Workers : Evaluating(work'[v]) =>
          Evaluating(work[v]) /\ work'[v].task = work[v].task /\ work'[v].todo = work[v].todo
    BY <2>2, <2>3 DEF Evaluating
  <2> QED BY <1>0, <2>4, <2>5, ExactKept
<1>2. CASE Become(w, [work[w] EXCEPT !.pc = "timeout", !.doomed = {}])
  BY <1>0, <1>2, NotEvaluating, ExactStops DEF Become
<1> QED BY <1>1, <1>2 DEF SoftLimit

LEMMA ExactBroker ==
  ASSUME Inv, ExactInv, NEW m \in queue, Redeliver(m) \/ \E w \in Workers : TakeRun(w, m)
  PROVE  ExactInv'
<1>1. CASE Redeliver(m)
  <2>1. copies' = copies + 1 /\ UNCHANGED <<plan, runs, traces, scores, work, touched>>
    BY <1>1 DEF Redeliver
  <2> QED BY <2>1, TypesUnfolded, ExactKept
<1>2. ASSUME NEW w \in Workers, TakeRun(w, m) PROVE ExactInv'
  <2>1. PICK x : x = [Idle EXCEPT !.pc = "start", !.task = m, !.doomed = ScoresOf(m.run)]
    OBVIOUS
  <2>2. ~Evaluating(x)
    BY <2>1 DEF Idle, Evaluating
  <2>3. work' = [work EXCEPT ![w] = x] /\ UNCHANGED <<plan, runs, traces, scores, copies, touched>>
    BY <1>2, <2>1 DEF TakeRun, Become
  <2> QED BY <2>2, <2>3, ExactStops
<1> QED BY <1>1, <1>2

\* No score of an earlier attempt is left.
LEMMA ExactStart ==
  ASSUME Inv, ExactInv, NEW w \in Workers, StartRun(w)
  PROVE  ExactInv'
<1>0. /\ Busy(work[w]) /\ work[w].pc = "start" /\ scores' = scores \ work[w].doomed
      /\ UNCHANGED <<plan, traces, copies, touched>>
  BY DEF StartRun, At, Busy
<1>1. PICK r \in Runs : r = RunOf(w) /\ r = work[w].task.run
  BY <1>0, WorkTyped DEF RunOf
<1>2. PICK pc : pc = IF runs[r] = None THEN "failing" ELSE "eval"
  OBVIOUS
<1>3. PICK x : x = [work[w] EXCEPT !.pc = pc, !.todo = Targets(plan[r]), !.doomed = {}]
  OBVIOUS
<1>4. x.task = work[w].task /\ x.todo = Targets(plan[r])
  BY <1>3, WorkTyped DEF Local
<1>5. work' = [work EXCEPT ![w] = x] /\ Update(r, [status |-> "RUNNING", evaluated |-> 0, failed |-> 0])
  BY <1>1, <1>2, <1>3 DEF StartRun, Become
<1>6. runs'[r] # None => runs'[r].status = "RUNNING" /\ runs'[r].evaluated = 0 /\ runs'[r].failed = 0
  BY <1>5, TypesUnfolded DEF Update
<1>7. copies = 0 => {s \in scores' : s.run = r} = {}
  <2> SUFFICES ASSUME copies = 0, NEW s \in scores', s.run = r PROVE FALSE
    OBVIOUS
  <2>1. s \in scores /\ s \notin work[w].doomed /\ s.by.copy = 0
    <3>1. s \in scores /\ s \notin work[w].doomed
      BY <1>0
    <3>2. s.by.copy \in Nat /\ s.by.copy <= 0
      BY <3>1, TypesUnfolded DEF Score, Task
    <3> QED BY <3>1, <3>2
  <2>2. work[w].task.copy = 0
    BY <1>0, WorkTyped
  <2> QED BY <1>0, <1>1, <2>1, <2>2 DEF Inv, ScoresOK, Stored
<1>8. \A q \in Runs : q # r => {s \in scores' : s.run = q} = {s \in scores : s.run = q}
  <2> SUFFICES ASSUME NEW s \in work[w].doomed, s \in scores PROVE s.run = r
    BY <1>0
  <2> QED BY <1>0, <1>1, WorkTyped DEF WorkOK
<1>9. copies = 0 => Exact(x, runs'[r], plan[r], {s \in scores' : s.run = r}, touched)
  <2>1. /\ Targets(plan[r]) \ Targets(plan[r]) = {}
        /\ {y \in plan[r] : y[1] \notin Targets(plan[r])} = {}
    BY DEF Targets
  <2>2. Cardinality({}) = 0
    BY FS_EmptySet
  <2> QED BY <1>4, <1>6, <1>7, <2>1, <2>2 DEF Exact
<1>10. ~touched => IsFiniteSet(scores')
  BY <1>0, FS_Subset DEF ExactInv
<1>11. \A q \in Runs : q # r => runs'[q] = runs[q]
  BY <1>5, OneRowWritten
<1> QED BY <1>0, <1>1, <1>4, <1>5, <1>8, <1>9, <1>10, <1>11, ExactStep

\* One more target is counted.
LEMMA OneMoreTarget ==
  ASSUME NEW T, IsFiniteSet(T), NEW todo, NEW t \in todo, t \in T
  PROVE  Cardinality(T \ (todo \ {t})) = Cardinality(T \ todo) + 1
<1>1. IsFiniteSet(T \ todo) /\ t \notin T \ todo /\ T \ (todo \ {t}) = (T \ todo) \cup {t}
  BY FS_Difference
<1> QED BY <1>1, FS_AddElement

LEMMA ExactLoad ==
  ASSUME Inv, ExactInv, NEW w \in Workers, NEW t \in Traces, LoadTrace(w, t)
  PROVE  ExactInv'
<1>0. /\ work[w].pc = "eval" /\ Busy(work[w]) /\ Evaluating(work[w]) /\ t \in work[w].todo
      /\ UNCHANGED <<plan, traces, scores, copies, touched>>
  BY DEF LoadTrace, At, Busy, Evaluating
<1>1. PICK r \in Runs : r = RunOf(w) /\ r = work[w].task.run
  BY <1>0, WorkTyped DEF RunOf
<1>2. work[w] \in Local /\ t \in Targets(plan[r])
  BY <1>0, <1>1, WorkTyped DEF WorkOK
<1>3. ~touched => IsFiniteSet(scores')
  BY <1>0 DEF ExactInv
<1>4. CASE t \in traces
  <2>1. PICK x : x = [work[w] EXCEPT !.pc = "metrics", !.trace = t]
    OBVIOUS
  <2>2. x.task = work[w].task /\ x.todo = work[w].todo
    BY <1>2, <2>1 DEF Local
  <2>3. work' = [work EXCEPT ![w] = x] /\ runs' = runs
    BY <1>4, <2>1 DEF LoadTrace, Become
  <2>4. copies = 0 => Exact(x, runs'[r], plan[r], {s \in scores' : s.run = r}, touched)
    <3> SUFFICES ASSUME copies = 0 PROVE Exact(x, runs'[r], plan[r], {s \in scores' : s.run = r}, touched)
      OBVIOUS
    <3>1. Exact(work[w], runs[r], plan[r], {s \in scores : s.run = r}, touched)
      BY <1>1, ExactUnfolded
    <3> QED BY <1>0, <2>2, <2>3, <3>1 DEF Exact
  <2>5. \A q \in Runs : {s \in scores' : s.run = q} = {s \in scores : s.run = q}
    BY <1>0
  <2> QED BY <1>0, <1>1, <1>3, <2>2, <2>3, <2>4, <2>5, ExactStep
<1>5. CASE t \notin traces
  <2>1. PICK x : x = [work[w] EXCEPT !.todo = @ \ {t}]
    OBVIOUS
  <2>2. x.task = work[w].task /\ x.todo = work[w].todo \ {t}
    BY <1>2, <2>1 DEF Local
  <2>3. work' = [work EXCEPT ![w] = x] /\ Update(r, [runs[r] EXCEPT !.evaluated = @ + 1])
    BY <1>1, <1>5, <2>1 DEF LoadTrace, Become
  <2>4. \A q \in Runs : q # r => runs'[q] = runs[q]
    BY <2>3, OneRowWritten
  <2>5. touched = TRUE
    BY <1>5, TypesUnfolded DEF ExactInv
  <2>6. ASSUME copies = 0 PROVE Exact(x, runs'[r], plan[r], {s \in scores' : s.run = r}, touched)
    <3>1. CASE runs[r] = None
      BY <2>3, <3>1 DEF Update, Exact
    <3>2. CASE runs[r] # None
      <4>1. runs[r] \in Row
        BY <3>2, TypesUnfolded
      <4>2. runs'[r].status = runs[r].status /\ runs'[r].evaluated = runs[r].evaluated + 1
        BY <2>3, <3>2, <4>1, TypesUnfolded DEF Update, Row
      <4>3. /\ runs[r].status = "RUNNING"
            /\ runs[r].evaluated = Cardinality(Targets(plan[r]) \ work[w].todo)
        BY <1>0, <1>1, <2>6, <3>2, ExactUnfolded DEF Exact
      <4>4. Cardinality(Targets(plan[r]) \ x.todo) = Cardinality(Targets(plan[r]) \ work[w].todo) + 1
        BY <1>0, <1>2, <2>2, PlanFinite, OneMoreTarget
      <4> QED BY <2>5, <4>2, <4>3, <4>4 DEF Exact
    <3> QED BY <3>1, <3>2
  <2>7. \A q \in Runs : {s \in scores' : s.run = q} = {s \in scores : s.run = q}
    BY <1>0
  <2> QED BY <1>0, <1>1, <1>3, <2>2, <2>3, <2>4, <2>6, <2>7, ExactStep
<1> QED BY <1>4, <1>5

\* A function that is injective on a set A has as many values there.
LEMMA ImageSize ==
  ASSUME NEW A, IsFiniteSet(A), NEW f, f = [y \in A |-> f[y]], NEW B, B = {f[y] : y \in A},
         \A y, z \in A : f[y] = f[z] => y = z
  PROVE  IsFiniteSet(B) /\ Cardinality(B) = Cardinality(A)
<1>1. f \in [A -> B]
  OBVIOUS
<1>2. f \in Bijection(A, B)
  BY <1>1 DEF Bijection, Injection, IsInjective, Surjection
<1>3. ExistsBijection(A, B)
  BY <1>2 DEF ExistsBijection
<1> QED BY <1>3, FS_Bijection

LEMMA ExactStore ==
  ASSUME Inv, ExactInv, NEW w \in Workers, StoreScores(w)
  PROVE  ExactInv'
<1>0. /\ work[w].pc = "metrics" /\ Busy(work[w]) /\ Evaluating(work[w])
      /\ UNCHANGED <<plan, traces, copies, touched>>
  BY DEF StoreScores, At, Busy, Evaluating
<1>1. PICK r \in Runs : r = RunOf(w) /\ r = work[w].task.run
  BY <1>0, WorkTyped DEF RunOf
<1>2. /\ work[w] \in Local /\ work[w].trace \in work[w].todo /\ work[w].todo \subseteq Targets(plan[r])
  BY <1>0, <1>1, WorkTyped DEF WorkOK
<1>3. PICK t \in work[w].todo : t = work[w].trace /\ t \in Targets(plan[r])
  BY <1>2
<1>4. PICK x : x = [work[w] EXCEPT !.pc = "eval", !.todo = @ \ {t}, !.trace = None]
  OBVIOUS
<1>5. x.task = work[w].task /\ x.todo = work[w].todo \ {t}
  BY <1>2, <1>4 DEF Local
<1>6. work' = [work EXCEPT ![w] = x] /\ runs[r] # None /\ runs[r] \in Row
  BY <1>1, <1>3, <1>4, TypesUnfolded DEF StoreScores, Become
<1>7. PICK bad \in SUBSET PairsAt(RunOf(w), work[w].trace) :
        /\ scores' = scores \cup
             {[run |-> RunOf(w), pair |-> x1, by |-> work[w].task,
               status |-> IF x1 \in bad THEN "FAILED" ELSE "SUCCESS"] : x1 \in PairsAt(RunOf(w), work[w].trace)}
        /\ Update(RunOf(w), [runs[RunOf(w)] EXCEPT !.evaluated = @ + 1, !.failed = @ + Cardinality(bad)])
  BY Zenon DEF StoreScores
<1>8. PICK mine : mine = PairsAt(r, t)
  OBVIOUS
<1>9. bad \subseteq mine /\ mine = {y \in plan[r] : y[1] = t} /\ IsFiniteSet(mine) /\ IsFiniteSet(bad)
  <2>1. bad \subseteq mine /\ mine = {y \in plan[r] : y[1] = t}
    BY <1>1, <1>3, <1>8 DEF PairsAt
  <2> QED BY <2>1, PlanFinite, FS_Subset
<1>10. PICK f : f = [y \in mine |-> [run |-> r, pair |-> y, by |-> work[w].task,
                                   status |-> IF y \in bad THEN "FAILED" ELSE "SUCCESS"]]
  OBVIOUS
<1>11. PICK N : N = {f[y] : y \in mine}
  OBVIOUS
<1>12. \A y \in mine : /\ f[y].run = r /\ f[y].pair = y
                       /\ f[y].status = "FAILED" <=> y \in bad
  BY <1>10
<1>13. scores' = scores \cup N
  <2>1. N = {[run |-> r, pair |-> y, by |-> work[w].task,
              status |-> IF y \in bad THEN "FAILED" ELSE "SUCCESS"] : y \in mine}
    BY <1>10, <1>11
  <2> QED BY <1>1, <1>3, <1>7, <1>8, <2>1
<1>14. IsFiniteSet(N)
  <2>1. f = [y \in mine |-> f[y]]
    BY <1>10
  <2>2. \A y, z \in mine : f[y] = f[z] => y = z
    BY <1>12
  <2> QED BY <1>9, <1>11, <2>1, <2>2, ImageSize
<1>15. \A q \in Runs : q # r => {s \in scores' : s.run = q} = {s \in scores : s.run = q}
  BY <1>11, <1>12, <1>13
<1>16. ~touched => IsFiniteSet(scores')
  BY <1>13, <1>14, FS_Union DEF ExactInv
<1>17. PICK n \in Nat : n = Cardinality(bad)
  BY <1>9, FS_CardinalityType
<1>18. /\ Update(r, [runs[r] EXCEPT !.evaluated = @ + 1, !.failed = @ + n])
       /\ runs'[r].status = runs[r].status /\ runs'[r].evaluated = runs[r].evaluated + 1
       /\ runs'[r].failed = runs[r].failed + n
  <2>1. Update(r, [runs[r] EXCEPT !.evaluated = @ + 1, !.failed = @ + n])
    BY <1>1, <1>7, <1>17
  <2>2. PICK old \in Row : old = runs[r]
    BY <1>6
  <2>3. PICK e \in Nat, m \in Nat : e = old.evaluated + 1 /\ m = old.failed + n
    BY DEF Row
  <2>4. runs'[r] = [old EXCEPT !.evaluated = e, !.failed = m]
    BY <1>6, <2>1, <2>2, <2>3, TypesUnfolded DEF Update
  <2> QED BY <2>1, <2>2, <2>3, <2>4 DEF Row
<1>19. ASSUME copies = 0 PROVE Exact(x, runs'[r], plan[r], {s \in scores' : s.run = r}, touched)
  <2>1. Exact(work[w], runs[r], plan[r], {s \in scores : s.run = r}, touched)
    BY <1>1, <1>19, ExactUnfolded
  <2>2. PICK S : S = {s \in scores : s.run = r}
    OBVIOUS
  <2>3. {s \in scores' : s.run = r} = S \cup N
    BY <1>11, <1>12, <1>13, <2>2
  <2>4. /\ runs[r].status = "RUNNING"
        /\ runs[r].evaluated = Cardinality(Targets(plan[r]) \ work[w].todo)
        /\ ~touched => /\ {s.pair : s \in S} = {y \in plan[r] : y[1] \notin work[w].todo}
                       /\ runs[r].failed = Cardinality({s \in S : s.status = "FAILED"})
    BY <1>0, <1>6, <2>1, <2>2 DEF Exact
  <2>5. Cardinality(Targets(plan[r]) \ x.todo) = Cardinality(Targets(plan[r]) \ work[w].todo) + 1
    BY <1>3, <1>5, PlanFinite, OneMoreTarget
  <2>6. ASSUME ~touched
        PROVE  /\ {s.pair : s \in S \cup N} = {y \in plan[r] : y[1] \notin x.todo}
               /\ runs'[r].failed = Cardinality({s \in S \cup N : s.status = "FAILED"})
    <3>1. {s.pair : s \in N} = mine
      BY <1>11, <1>12
    <3>2. {s.pair : s \in S \cup N} = {s.pair : s \in S} \cup mine
      BY <3>1
    <3>3. {s.pair : s \in S \cup N} = {y \in plan[r] : y[1] \notin x.todo}
      BY <1>5, <1>9, <2>4, <2>6, <3>2
    <3>4. PICK A : A = {s \in S : s.status = "FAILED"}
      OBVIOUS
    <3>5. PICK B : B = {s \in N : s.status = "FAILED"}
      OBVIOUS
    <3>6. IsFiniteSet(A)
      BY <2>2, <2>6, <3>4, FS_Subset DEF ExactInv
    <3>7. PICK g : g = [y \in bad |-> f[y]]
      OBVIOUS
    <3>8. B = {g[y] : y \in bad}
      BY <1>9, <1>11, <1>12, <3>5, <3>7
    <3>9. \A y, z \in bad : g[y] = g[z] => y = z
      BY <1>9, <1>12, <3>7
    <3>10. IsFiniteSet(B) /\ Cardinality(B) = n
      <4>1. g = [y \in bad |-> g[y]]
        BY <3>7
      <4> QED BY <1>9, <1>17, <3>8, <3>9, <4>1, ImageSize
    <3>11. A \cap B = {}
      <4> SUFFICES ASSUME NEW s \in S, s \in N PROVE FALSE
        BY <3>4, <3>5
      <4>1. s.pair \in {y \in plan[r] : y[1] \notin work[w].todo}
        BY <2>4, <2>6
      <4>2. s.pair \in mine
        BY <3>1
      <4> QED BY <1>3, <1>9, <4>1, <4>2
    <3>12. {s \in S \cup N : s.status = "FAILED"} = A \cup B
      BY <3>4, <3>5
    <3>13. Cardinality(A \cup B) = Cardinality(A) + n
      <4>1. Cardinality({}) = 0 /\ Cardinality(A) \in Nat
        BY <3>6, FS_EmptySet, FS_CardinalityType
      <4>2. Cardinality(A \cup B) = Cardinality(A) + Cardinality(B) - Cardinality(A \cap B)
        BY <3>6, <3>10, FS_Union
      <4>3. Cardinality(A \cap B) = 0
        BY <3>11, <4>1
      <4> QED BY <3>10, <4>1, <4>2, <4>3
    <3> QED BY <1>18, <2>4, <2>6, <3>3, <3>4, <3>12, <3>13
  <2> QED BY <1>18, <2>3, <2>4, <2>5, <2>6 DEF Exact
<1>20. \A q \in Runs : q # r => runs'[q] = runs[q]
  BY <1>18, OneRowWritten
<1> QED BY <1>0, <1>1, <1>5, <1>6, <1>15, <1>16, <1>19, <1>20, ExactStep

LEMMA ExactInit == Init => ExactInv
<1> SUFFICES ASSUME Init PROVE ExactInv
  OBVIOUS
<1>1. \A w \in Workers : ~Evaluating(work[w])
  BY IdleOK DEF Init, Evaluating
<1>2. IsFiniteSet(scores)
  BY FS_EmptySet DEF Init
<1> QED BY <1>1, <1>2 DEF ExactInv, Exact, Init

LEMMA ExactNext == Inv /\ ExactInv /\ [Next]_vars => ExactInv'
<1> SUFFICES ASSUME Inv, ExactInv, [Next]_vars PROVE ExactInv'
  OBVIOUS
<1>1. ASSUME NEW w \in Workers, Execute(w) PROVE ExactInv'
  BY <1>1, ExactStart, ExactStore, ExactLoad, ExactEnds DEF Execute
<1>2. ASSUME NEW w \in Workers, Fault(w) PROVE ExactInv'
  BY <1>2, ExactEnds, ExactSoft DEF Fault
<1>3. CASE UNCHANGED vars
  <2>1. UNCHANGED <<plan, runs, traces, scores, work, copies, touched>>
    BY <1>3 DEF vars
  <2> QED BY <2>1, TypesUnfolded, ExactKept
<1> QED BY <1>1, <1>2, <1>3, ExactRequest, ExactBroker, ExactUsers DEF Next

\* What the property says of a step that makes the row of r COMPLETED.
Completes(r) == /\ copies = 0 /\ runs[r] # None /\ runs'[r] # None
                /\ runs'[r].status = "COMPLETED" /\ runs[r] # runs'[r]
CompleteNow(r) == /\ runs'[r].evaluated = Cardinality(Targets(plan[r]))
                  /\ ~touched => /\ {s.pair : s \in ScoresOf(r)} = plan[r]
                                 /\ runs'[r].failed = Cardinality(FailedOf(r))

\* Only CompleteRun makes a row COMPLETED.
LEMMA OnlyCompleteRun ==
  ASSUME Inv, ExactInv, [Next]_vars, NEW r \in Runs, Completes(r)
  PROVE  \E w \in Workers : CompleteRun(w) /\ RunOf(w) = r
<1>0. runs[r] \in Row /\ runs'[r] # runs[r] /\ runs'[r] # None /\ runs'[r].status = "COMPLETED"
  BY TypesUnfolded DEF Completes
<1>1. ASSUME NEW q \in Runs, Request(q) PROVE FALSE
  <2>1. CASE CommitRun(q)
    <3>1. runs' = [runs EXCEPT ![q] = [status |-> "PENDING", evaluated |-> 0, failed |-> 0]]
      BY <2>1 DEF CommitRun
    <3>2. runs'[r].status = "PENDING"
      BY <1>0, <3>1, TypesUnfolded
    <3> QED BY <1>0, <3>2
  <2>2. CASE ~CommitRun(q)
    BY <1>0, <1>1, <2>2 DEF Request, PrepareRun, PrepareRetry, Count, PublishRun, DispatchFails, ApiDies
  <2> QED BY <2>1, <2>2
<1>2. ASSUME NEW w \in Workers, Execute(w) \/ Fault(w) PROVE CompleteRun(w) /\ RunOf(w) = r
  <2>1. CASE UNCHANGED runs
    BY <1>0, <2>1
  <2>2. ASSUME NEW row, Busy(work[w]), Update(RunOf(w), row)
        PROVE  RunOf(w) = r /\ row.status = "COMPLETED"
    <3>1. RunOf(w) \in Runs
      BY <2>2, WorkTyped
    <3>2. RunOf(w) = r
      BY <1>0, <2>2, <3>1, OneRowWritten
    <3> QED BY <1>0, <2>2, <3>1, <3>2, TypesUnfolded DEF Update
  <2>3. CASE StartRun(w)
    BY <2>2, <2>3 DEF StartRun, At, Busy
  <2>4. CASE FailRun(w)
    <3>1. Busy(work[w]) /\ Update(RunOf(w), [runs[RunOf(w)] EXCEPT !.status = "FAILED"])
      BY <2>4 DEF FailRun, Busy
    <3>2. RunOf(w) = r /\ [runs[RunOf(w)] EXCEPT !.status = "FAILED"].status = "COMPLETED"
      BY <2>2, <3>1
    <3> QED BY <1>0, <3>2 DEF Row
  <2>5. CASE Evaluating(work[w]) /\ (StoreScores(w) \/ \E t \in Traces : LoadTrace(w, t))
    <3>1. Busy(work[w])
      BY <2>5 DEF Evaluating, Busy
    <3>2. PICK row : /\ Update(RunOf(w), row)
                     /\ \/ row = [runs[RunOf(w)] EXCEPT !.evaluated = @ + 1]
                        \/ \E n : row = [runs[RunOf(w)] EXCEPT !.evaluated = @ + 1, !.failed = @ + n]
      BY <1>0, <2>5 DEF StoreScores, LoadTrace
    <3>3. RunOf(w) = r /\ row.status = "COMPLETED"
      BY <2>2, <3>1, <3>2
    <3>4. row.status = runs[r].status
      BY <1>0, <3>2, <3>3 DEF Row
    <3>5. Exact(work[w], runs[r], plan[r], {s \in scores : s.run = r}, touched)
      BY <3>3, ExactUnfolded DEF Completes, RunOf
    <3>6. runs[r].status = "RUNNING"
      BY <2>5, <3>5 DEF Exact, Completes
    <3> QED BY <3>3, <3>4, <3>6
  <2>6. CASE CompleteRun(w)
    <3>1. Busy(work[w]) /\ Update(RunOf(w), [runs[RunOf(w)] EXCEPT !.status = "COMPLETED"])
      BY <2>6 DEF CompleteRun, At, Busy
    <3> QED BY <2>2, <2>6, <3>1
  <2>7. CASE StoreScores(w) \/ \E t \in Traces : LoadTrace(w, t)
    BY <2>5, <2>7 DEF StoreScores, LoadTrace, At, Evaluating
  <2>8. CASE StoreRejected(w) \/ RetryRun(w) \/ Fault(w)
    BY <2>1, <2>8 DEF StoreRejected, RetryRun, Fault, RunError, SoftLimit, HardLimit, WorkerDies, FailLost
  <2> QED BY <1>2, <2>3, <2>4, <2>6, <2>7, <2>8 DEF Execute
<1>3. ASSUME NEW m \in queue, Redeliver(m) \/ \E w \in Workers : TakeRun(w, m) PROVE FALSE
  BY <1>0, <1>3 DEF Redeliver, TakeRun
<1>4. CASE Users
  <2>1. runs'[r] = runs[r] \/ runs'[r] = None
    BY <1>4, TypesUnfolded DEF Users, DeleteRun, DeleteTrace, ChangeScore
  <2> QED BY <1>0, <2>1
<1>5. CASE UNCHANGED vars
  BY <1>0, <1>5 DEF vars
<1> QED BY <1>1, <1>2, <1>3, <1>4, <1>5 DEF Next

LEMMA CompletedStep ==
  ASSUME Inv, ExactInv, [Next]_vars, NEW r \in Runs, Completes(r)
  PROVE  CompleteNow(r)
<1>1. PICK w \in Workers : CompleteRun(w) /\ RunOf(w) = r
  BY OnlyCompleteRun
<1>2. Evaluating(work[w]) /\ work[w].todo = {} /\ work[w].task.run = r
  BY <1>1 DEF CompleteRun, At, Evaluating, RunOf
<1>3. runs[r] \in Row /\ runs' = [runs EXCEPT ![r] = [runs[r] EXCEPT !.status = "COMPLETED"]]
  BY <1>1, TypesUnfolded DEF CompleteRun, Update, Completes
<1>4. runs'[r].evaluated = runs[r].evaluated /\ runs'[r].failed = runs[r].failed
  BY <1>3, TypesUnfolded DEF Row
<1>5. Exact(work[w], runs[r], plan[r], {s \in scores : s.run = r}, touched)
  BY <1>2, ExactUnfolded DEF Completes
<1>6. Targets(plan[r]) \ {} = Targets(plan[r]) /\ {x \in plan[r] : x[1] \notin {}} = plan[r]
  OBVIOUS
<1>7. /\ runs[r].evaluated = Cardinality(Targets(plan[r]))
      /\ ~touched => /\ {s.pair : s \in {s \in scores : s.run = r}} = plan[r]
                     /\ runs[r].failed = Cardinality({s \in {s \in scores : s.run = r} : s.status = "FAILED"})
  BY <1>2, <1>5, <1>6 DEF Exact, Completes
<1> QED BY <1>4, <1>7 DEF CompleteNow, ScoresOf, FailedOf

\* When execute_eval_run makes a run COMPLETED every target has been counted exactly once,
\* every pair whose trace still exists has a score and failed_count is the number of FAILED
\* scores, whatever earlier attempts left behind, unless the task was delivered twice.
THEOREM CompletionIsComplete == Spec => CompletedIsComplete
<1>1. Inv /\ ExactInv /\ [Next]_vars =>
        [\A r \in Runs : Completes(r) => CompleteNow(r)]_vars
  BY CompletedStep
<1>2. Spec => []ExactInv
  BY ExactInit, ExactNext, Invariance, PTL DEF Spec
<1>3. [\A r \in Runs : Completes(r) => CompleteNow(r)]_vars =>
        [\A r \in Runs :
           (/\ copies = 0 /\ runs[r] # None /\ runs'[r] # None
            /\ runs'[r].status = "COMPLETED" /\ runs[r] # runs'[r]) =>
             /\ runs'[r].evaluated = Cardinality(Targets(plan[r]))
             /\ ~touched =>
                  /\ {s.pair : s \in ScoresOf(r)} = plan[r]
                  /\ runs'[r].failed = Cardinality(FailedOf(r))]_vars
  BY DEF Completes, CompleteNow
<1> QED BY <1>1, <1>2, <1>3, Invariance, PTL DEF Spec, CompletedIsComplete
===============================================================================
