----------------------------- MODULE TraceIngest -----------------------------
(***************************************************************************)
(* Traces and spans of one project: asynchronous ingestion, the edits of   *)
(* the data-plane routes, and the numbers the read routes report.          *)
(*                                                                         *)
(* POST /traces only enqueues; process_trace merges the payload into the   *)
(* row, in any order, again after an error, at most MaxRetries times.  An  *)
(* upsert, a delete and a tag update are one statement on the row and one  *)
(* step here.  PATCH reads the row in one statement and writes the columns *)
(* it changed in another.                                                  *)
(*                                                                         *)
(* Of the columns, each kind of merge has one or more: status and          *)
(* started_at are overwritten; ended_at, session_id and user_id are        *)
(* coalesced; output is JSON, and its None is the JSON null, which         *)
(* COALESCE takes for a value; tags and metadata (its keys) are united.    *)
(* Times are small numbers.  A trace id is used by one project.            *)
(***************************************************************************)
EXTENDS Integers, FiniteSets, FiniteSetsExt, Functions

CONSTANTS Traces, Spans, Sessions, EndUsers, Models, Tags, MetaKeys,
          Times,       \* the values of started_at
          Payloads,    \* the bodies of POST /traces
          SpanBodies,  \* the bodies of POST /traces/{id}/spans, one span each
          Patches,     \* the bodies of PATCH /traces/{id}
          SpanTokens,  \* token counts PATCH .../spans/{span_id} sets
          TagEdits,    \* the add_tags and remove_tags of POST /traces/batch/tags
          Tasks,       \* bound: payloads accepted
          Requests,    \* PATCH and span requests that may be in flight together
          MaxRetries,  \* max_retries of process_trace
          Granularity, \* length of a bucket
          None         \* no row; NULL

VARIABLES
  project,  \* whether the projects row exists
  traces,   \* the traces rows
  spans,    \* the spans rows
  tasks,    \* the process_trace tasks
  req,      \* the requests in flight
  sent,     \* history: tags and optional columns each row was sent
  gone      \* history: those a request asked to remove since

vars == <<project, traces, spans, tasks, req, sent, gone>>

-----------------------------------------------------------------------------
(* State.                                                                  *)

Status == {"PENDING", "RUNNING", "COMPLETED", "ERROR"}
Coalesced == {"ended", "session", "user"}
NotNull == {"status", "tags"}
Row == [status : Status, started : Times, ended : {TRUE, None}, session : Sessions \cup {None},
        user : EndUsers \cup {None}, output : {TRUE, None}, tags : SUBSET Tags,
        meta : SUBSET MetaKeys]
Columns == {"status", "started", "ended", "session", "user", "output", "tags", "meta"}
SpanRow == [trace : Traces, started : Times, model : Models \cup {None}, tokens : Nat \cup {None}]

Task == [state : {"free", "queued", "done", "dropped"}, payload : Payloads \cup {None},
         retries : 0..MaxRetries]

ASSUME IngestAssumption ==
  /\ MaxRetries \in Nat /\ Granularity \in Nat \ {0} /\ Times \subseteq Nat
  /\ \A p \in Payloads : /\ p.trace \in Traces /\ p.row \in Row
                         /\ \A s \in DOMAIN p.spans : /\ s \in Spans /\ p.spans[s] \in SpanRow
                                                     /\ p.spans[s].trace = p.trace
  /\ \A b \in SpanBodies : b.span \in Spans /\ b.row \in SpanRow
  /\ SpanTokens \subseteq Nat
  /\ \A e \in TagEdits : e.add \subseteq Tags /\ e.remove \subseteq Tags
  \* A value is one that the column may have, or null.
  /\ \A p \in Patches : /\ p.set \subseteq Columns \ {"started"}
                        /\ \E row \in Row : \A f \in p.set :
                             p.val[f] = row[f] \/ (f \in NotNull /\ p.val[f] = None)
  /\ None \notin Row \cup SpanRow \cup Status \cup Sessions \cup EndUsers
  /\ \A S \in {Traces, Spans, Sessions, EndUsers, Models, Times} : IsFiniteSet(S)

Idle == [pc |-> "idle"]
Ended(state) == [state |-> state, payload |-> None, retries |-> 0]
Init ==
  /\ project = TRUE
  /\ traces = [t \in Traces |-> None]
  /\ spans = [s \in Spans |-> None]
  /\ tasks = [k \in Tasks |-> Ended("free")]
  /\ req = [r \in Requests |-> Idle]
  /\ sent = [t \in Traces |-> {}]
  /\ gone = [t \in Traces |-> {}]

Live == {t \in Traces : traces[t] # None}
LiveSpans == {s \in Spans : spans[s] # None}
Coalesce(x, y) == IF x = None THEN y ELSE x
\* What a row says: its tags and the optional columns that have a value.
Facts(row) == row.tags \cup {f \in Coalesced : row[f] # None}

-----------------------------------------------------------------------------
(* Ingestion.                                                              *)

\* ON CONFLICT (trace_id) DO UPDATE.
Merged(old, new) ==
  [f \in Columns |-> IF f \in Coalesced THEN Coalesce(new[f], old[f])
                     ELSE IF f \in {"tags", "meta"} THEN old[f] \cup new[f]
                     ELSE new[f]]
Upserted(old, new) == IF old = None THEN new ELSE Merged(old, new)

\* ON CONFLICT (span_id): the span stays with its first trace; token_usage is JSON.
UpsertedSpan(old, new) ==
  IF old = None THEN new
  ELSE [new EXCEPT !.trace = old.trace, !.model = Coalesce(new.model, old.model)]

\* POST /traces: the payload is counted (UsageMetering) and enqueued.
IngestTrace(k, p) ==
  /\ project /\ tasks[k].state = "free"
  /\ tasks' = [tasks EXCEPT ![k] = [state |-> "queued", payload |-> p, retries |-> 0]]
  /\ UNCHANGED <<project, traces, spans, req, sent, gone>>

\* _persist_trace.  Without the project the foreign key refuses the row: ProcessFails.
Persist(k) ==
  LET p == tasks[k].payload
      t == p.trace IN
  /\ tasks[k].state = "queued" /\ project
  /\ traces' = [traces EXCEPT ![t] = Upserted(@, p.row)]
  /\ spans' = [s \in Spans |-> IF s \in DOMAIN p.spans THEN UpsertedSpan(spans[s], p.spans[s])
                               ELSE spans[s]]
  /\ tasks' = [tasks EXCEPT ![k] = Ended("done")]
  /\ sent' = [sent EXCEPT ![t] = @ \cup Facts(p.row)]
  /\ gone' = [gone EXCEPT ![t] = @ \ Facts(p.row)]
  /\ UNCHANGED <<project, req>>

\* Mutant: a payload that fails is enqueued anew.
RetryAnew(k) ==
  [tasks[k] EXCEPT !.retries = IF @ < MaxRetries THEN @ + 1 ELSE 0]
\* self.retry: the task again, or the error when the retries are used up.
Retry(k) ==
  IF tasks[k].retries < MaxRetries THEN [tasks[k] EXCEPT !.retries = @ + 1]
  ELSE Ended("dropped")
ProcessFails(k) ==
  /\ tasks[k].state = "queued"
  /\ tasks' = [tasks EXCEPT ![k] = Retry(k)]
  /\ UNCHANGED <<project, traces, spans, req, sent, gone>>

\* SoftTimeLimitExceeded is not retried; a worker that is killed has acknowledged.
ProcessTimesOut(k) ==
  /\ tasks[k].state = "queued"
  /\ tasks' = [tasks EXCEPT ![k] = Ended("dropped")]
  /\ UNCHANGED <<project, traces, spans, req, sent, gone>>

-----------------------------------------------------------------------------
(* PATCH, and the spans added to a trace.                                  *)

\* The attributes after the loop of update_trace.
Patched(snap, p) ==
  [f \in Columns |->
     IF f \notin p.set \/ (f \in NotNull /\ p.val[f] = None) THEN snap[f]
     ELSE IF f = "meta" THEN snap[f] \cup p.val[f] ELSE p.val[f]]
\* Mutant: every column is written back.
WrittenWhole(row, snap, new) == new
\* flush writes the attributes that differ from what was loaded.
Written(row, snap, new) == [f \in Columns |-> IF new[f] = snap[f] THEN row[f] ELSE new[f]]
\* What the body asks to remove.
Drops(p) ==
  (IF "tags" \in p.set /\ p.val["tags"] # None THEN Tags \ p.val["tags"] ELSE {})
  \cup {f \in Coalesced \cap p.set : p.val[f] = None}

UpdateTrace(r, t, p) ==
  /\ req[r].pc = "idle" /\ t \in Live
  /\ req' = [req EXCEPT ![r] = [pc |-> "patch", trace |-> t, patch |-> p, snap |-> traces[t]]]
  /\ UNCHANGED <<project, traces, spans, tasks, sent, gone>>
\* A row that is gone by now is a StaleDataError: Rollback.
UpdateCommit(r) ==
  /\ req[r].pc = "patch" /\ req[r].trace \in Live
  /\ LET t == req[r].trace IN
     /\ traces' = [traces EXCEPT ![t] = Written(@, req[r].snap, Patched(req[r].snap, req[r].patch))]
     /\ gone' = [gone EXCEPT ![t] = @ \cup Drops(req[r].patch)]
  /\ req' = [req EXCEPT ![r] = Idle]
  /\ UNCHANGED <<project, spans, tasks, sent>>

\* POST /traces/{trace_id}/spans: the trace is looked up, then the span upserted.
AddSpans(r, b) ==
  /\ req[r].pc = "idle" /\ b.row.trace \in Live
  /\ req' = [req EXCEPT ![r] = [pc |-> "spans", body |-> b]]
  /\ UNCHANGED <<project, traces, spans, tasks, sent, gone>>
\* Mutant: the foreign key is not there.
AddUnchecked(r) ==
  /\ req[r].pc = "spans"
  /\ spans' = [spans EXCEPT ![req[r].body.span] = UpsertedSpan(@, req[r].body.row)]
  /\ req' = [req EXCEPT ![r] = Idle]
  /\ UNCHANGED <<project, traces, tasks, sent, gone>>
\* The foreign key refuses a span of a trace that is gone by now: Rollback.
AddCommit(r) ==
  /\ req[r].pc = "spans"
  /\ spans[req[r].body.span] # None \/ req[r].body.row.trace \in Live
  /\ spans' = [spans EXCEPT ![req[r].body.span] = UpsertedSpan(@, req[r].body.row)]
  /\ req' = [req EXCEPT ![r] = Idle]
  /\ UNCHANGED <<project, traces, tasks, sent, gone>>

\* PATCH /traces/{trace_id}/spans/{span_id}: the columns that change are written.
UpdateSpan(r, s, n) ==
  /\ req[r].pc = "idle" /\ s \in LiveSpans
  /\ req' = [req EXCEPT ![r] = [pc |-> "span", span |-> s, tokens |-> n,
                                changed |-> spans[s].tokens # n]]
  /\ UNCHANGED <<project, traces, spans, tasks, sent, gone>>
UpdateSpanCommit(r) ==
  /\ req[r].pc = "span" /\ req[r].span \in LiveSpans
  /\ spans' = [spans EXCEPT ![req[r].span].tokens = IF req[r].changed THEN req[r].tokens ELSE @]
  /\ req' = [req EXCEPT ![r] = Idle]
  /\ UNCHANGED <<project, traces, tasks, sent, gone>>

Rollback(r) ==
  /\ req[r].pc # "idle"
  /\ req' = [req EXCEPT ![r] = Idle]
  /\ UNCHANGED <<project, traces, spans, tasks, sent, gone>>

-----------------------------------------------------------------------------
(* Single statements: batches and deletions.                               *)

\* Rows and, by ON DELETE CASCADE, their spans.
Removed(T) ==
  /\ traces' = [t \in Traces |-> IF t \in T THEN None ELSE traces[t]]
  /\ spans' = [s \in Spans |-> IF s \in LiveSpans /\ spans[s].trace \in T THEN None ELSE spans[s]]
  /\ sent' = [t \in Traces |-> IF t \in T THEN {} ELSE sent[t]]
  /\ gone' = [t \in Traces |-> IF t \in T THEN {} ELSE gone[t]]

\* DELETE /traces/{trace_id} and POST /traces/batch/delete.
BatchDelete(T) ==
  /\ T \cap Live # {}
  /\ Removed(T)
  /\ UNCHANGED <<project, tasks, req>>

\* DELETE /sessions/{session_id}.
DeleteSession(s) ==
  /\ \E t \in Live : traces[t].session = s
  /\ Removed({t \in Live : traces[t].session = s})
  /\ UNCHANGED <<project, tasks, req>>

\* The project goes with everything in it (Credentials: DeleteProjectCommit).
ProjectDeleted ==
  /\ project
  /\ project' = FALSE
  /\ Removed(Traces)
  /\ UNCHANGED <<tasks, req>>

\* POST /traces/batch/tags: removed first, then added, in one UPDATE.
BatchTags(T, add, remove) ==
  /\ add # {} \/ remove # {}
  /\ T \cap Live # {}
  /\ traces' = [t \in Traces |-> IF t \in T \cap Live
                                 THEN [traces[t] EXCEPT !.tags = (@ \ remove) \cup add]
                                 ELSE traces[t]]
  /\ gone' = [t \in Traces |-> IF t \in T \cap Live THEN (gone[t] \cup remove) \ add ELSE gone[t]]
  /\ UNCHANGED <<project, spans, tasks, req, sent>>

-----------------------------------------------------------------------------
(* What the read routes report.  Averages, percentiles, costs, order and   *)
(* limits are left out.                                                    *)

Windows == {w \in Times \X {x + 1 : x \in Times} : w[1] < w[2]}
InWindow(x, w) == w[1] <= x /\ x < w[2]
Bucket(x) == x \div Granularity
Buckets == {Bucket(x) : x \in Times}
Tokens == [s \in LiveSpans |-> Coalesce(spans[s].tokens, 0)]

\* list_traces with started_after, started_before and status.
ListTraces(w, status) ==
  {t \in Live : InWindow(traces[t].started, w) /\ (status # None => traces[t].status = status)}
\* _span_stats_subquery, as list_traces and get_trace report it.
SpanStats(t) ==
  LET own == {s \in LiveSpans : spans[s].trace = t} IN
  [span_count |-> Cardinality(own), total_tokens |-> SumFunctionOnSet(Tokens, own)]
\* list_sessions with a window.
ListSessions(w) == {traces[t].session : t \in ListTraces(w, None)} \ {None}
\* get_session_summary.
SessionSummary(s) ==
  LET own == {t \in Live : traces[t].session = s} IN
  [trace_count |-> Cardinality(own), has_error |-> \E t \in own : traces[t].status = "ERROR",
   total_span_count |-> SumFunction([t \in own |-> SpanStats(t).span_count]),
   total_tokens |-> SumFunction([t \in own |-> SpanStats(t).total_tokens])]
\* get_trace_analytics.
TraceAnalytics(w) ==
  [b \in Buckets |->
     LET own == {t \in ListTraces(w, None) : Bucket(traces[t].started) = b} IN
     [trace_count |-> Cardinality(own),
      error_count |-> Cardinality({t \in own : traces[t].status = "ERROR"})]]
\* The first trace of a session in the window.
FirstTraceAt(s, w) == Min({traces[t].started : t \in {x \in ListTraces(w, None) : traces[x].session = s}})
\* Mutant: a session counts in the bucket of each of its traces.
SessionsByTrace(w) ==
  [b \in Buckets |-> Cardinality({s \in ListSessions(w) :
     \E t \in ListTraces(w, None) : traces[t].session = s /\ Bucket(traces[t].started) = b})]
\* get_session_analytics: a session counts in the bucket of its first trace.
SessionAnalytics(w) ==
  [b \in Buckets |-> Cardinality({s \in ListSessions(w) : Bucket(FirstTraceAt(s, w)) = b})]
\* get_token_cost_analytics.
TokenAnalytics(w) ==
  [b \in Buckets |-> SumFunctionOnSet(Tokens, {s \in LiveSpans : InWindow(spans[s].started, w)
                                                    /\ Bucket(spans[s].started) = b})]
\* get_top_models.
TopModels(w) ==
  [m \in Models |->
     LET own == {s \in LiveSpans : InWindow(spans[s].started, w) /\ spans[s].model = m} IN
     [call_count |-> Cardinality(own), total_tokens |-> SumFunctionOnSet(Tokens, own)]]
\* list_trace_users.
TraceUsers ==
  [u \in EndUsers |->
     LET own == {t \in Live : traces[t].user = u} IN
     [trace_count |-> Cardinality(own),
      error_count |-> Cardinality({t \in own : traces[t].status = "ERROR"})]]

-----------------------------------------------------------------------------

RunTask(k) == Persist(k) \/ ProcessFails(k) \/ ProcessTimesOut(k)

Edit(r) ==
  \/ \E t \in Traces, p \in Patches : UpdateTrace(r, t, p)
  \/ \E b \in SpanBodies : AddSpans(r, b)
  \/ \E s \in Spans, n \in SpanTokens : UpdateSpan(r, s, n)

Finish(r) == UpdateCommit(r) \/ AddCommit(r) \/ UpdateSpanCommit(r) \/ Rollback(r)

Next ==
  \/ \E k \in Tasks : (\E p \in Payloads : IngestTrace(k, p)) \/ RunTask(k)
  \/ \E r \in Requests : Edit(r) \/ Finish(r)
  \/ \E T \in SUBSET Traces \ {{}} :
       \/ BatchDelete(T)
       \/ \E e \in TagEdits : BatchTags(T, e.add, e.remove)
  \/ \E s \in Sessions : DeleteSession(s)
  \/ ProjectDeleted

\* Workers take the tasks that are queued.
Spec == Init /\ [][Next]_vars /\ \A k \in Tasks : WF_vars(RunTask(k))

-----------------------------------------------------------------------------
(* Properties.                                                             *)

\* The rows and the tasks keep their types; the columns of a row are all there.
TypeOK ==
  /\ project \in BOOLEAN
  /\ \A t \in Live : traces[t] \in Row
  /\ \A s \in LiveSpans : spans[s] \in SpanRow
  /\ tasks \in [Tasks -> Task]
  /\ \A t \in Traces : sent[t] \cup gone[t] \subseteq Tags \cup Coalesced

\* What an ingested payload says about a trace stays on the row until somebody asks to
\* remove it: later, earlier and repeated payloads, PATCH requests that read the row
\* before a payload was merged and write it after, and tag updates in between lose no
\* tag, session, user or end.
NothingForgotten == \A t \in Live : sent[t] \ gone[t] \subseteq Facts(traces[t])

\* The types hold, and a span belongs to a trace that exists, although add_spans looks
\* the trace up before it inserts and the trace, its session or its project may be
\* deleted in between.
SpansHaveTraces == TypeOK /\ \A s \in LiveSpans : spans[s].trace \in Live

\* Endpoints that report the same thing agree: the buckets of a window add up to the
\* traces, errors and sessions the lists return for it, and the tokens by session, by
\* model and by bucket add up to the tokens of the spans.
TotalsAgree ==
  /\ \A w \in Windows :
       /\ SumFunction([b \in Buckets |-> TraceAnalytics(w)[b].trace_count])
            = Cardinality(ListTraces(w, None))
       /\ SumFunction([b \in Buckets |-> TraceAnalytics(w)[b].error_count])
            = Cardinality(ListTraces(w, "ERROR"))
       /\ SumFunction(SessionAnalytics(w)) = Cardinality(ListSessions(w))
       /\ SumFunction([m \in Models |-> TopModels(w)[m].total_tokens]) <= SumFunction(TokenAnalytics(w))
  /\ SumFunction([s \in Sessions |-> SessionSummary(s).total_tokens])
       + SumFunction([t \in {x \in Live : traces[x].session = None} |-> SpanStats(t).total_tokens])
         = SumFunction(Tokens)
  /\ SumFunction([u \in EndUsers |-> TraceUsers[u].trace_count])
       + Cardinality({t \in Live : traces[t].user = None}) = Cardinality(Live)

\* A payload answered 202 does not stay in the queue: process_trace ends after at most
\* MaxRetries retries, also when the project it is for is gone.
Settles == \A k \in Tasks : tasks[k].state = "queued" ~> tasks[k].state \in {"done", "dropped"}
===============================================================================
