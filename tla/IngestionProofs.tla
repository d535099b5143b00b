-------------------------- MODULE IngestionProofs --------------------------
(***************************************************************************)
(* For any payloads, bodies and number of tasks and requests: a row keeps  *)
(* what ingested payloads said of its trace until somebody asks to remove  *)
(* it, a span belongs to a trace that exists, and the analytics totals     *)
(* agree.  The last section is about UsageMetering, which decides whether  *)
(* a payload is taken in at all.                                           *)
(*                                                                         *)
(* A PATCH writes what it read some time ago: that it loses nothing of     *)
(* what was merged meanwhile follows from its writing only the columns it  *)
(* changed (PatchKeeps), not from the age of what it read.  The invariant  *)
(* says what a task and a request carry, and that a trace without a row    *)
(* has been sent nothing since the row was deleted.                        *)
(***************************************************************************)
EXTENDS TraceIngest, UsageMetering, Sums

-----------------------------------------------------------------------------
(* The inductive invariant.                                                *)

RequestOK(q) ==
  /\ q.pc \in {"idle", "patch", "spans", "span"}
  /\ q.pc = "patch" => q.trace \in Traces /\ q.patch \in Patches /\ q.snap \in Row
  /\ q.pc = "spans" => q.body \in SpanBodies
  /\ q.pc = "span" => q.span \in Spans /\ q.tokens \in SpanTokens

\* The tables as functions, and what is in the queue.
Tables ==
  /\ traces \in [Traces -> Row \cup {None}]
  /\ spans \in [Spans -> SpanRow \cup {None}]
  /\ DOMAIN req = Requests /\ \A r \in Requests : RequestOK(req[r])
  /\ sent \in [Traces -> SUBSET (Tags \cup Coalesced)]
  /\ gone \in [Traces -> SUBSET (Tags \cup Coalesced)]
  /\ \A k \in Tasks : tasks[k].state = "queued" => tasks[k].payload \in Payloads

Inv ==
  /\ TypeOK /\ Tables
  /\ \A t \in Traces : traces[t] = None => sent[t] = {}
  /\ NothingForgotten
  /\ \A s \in LiveSpans : spans[s].trace \in Live

-----------------------------------------------------------------------------
(* Rows.                                                                   *)

\* A function on the columns with a value for each of them is a row.
LEMMA RowIs ==
  ASSUME NEW x, x = [f \in Columns |-> x[f]],
         x["status"] \in Status, x["started"] \in Times, x["ended"] \in {TRUE, None},
         x["session"] \in Sessions \cup {None}, x["user"] \in EndUsers \cup {None},
         x["output"] \in {TRUE, None}, x["tags"] \in SUBSET Tags, x["meta"] \in SUBSET MetaKeys
  PROVE  x \in Row
BY DEF Row, Columns

LEMMA RowHas ==
  ASSUME NEW x \in Row
  PROVE  /\ x["status"] \in Status /\ x["started"] \in Times /\ x["ended"] \in {TRUE, None}
         /\ x["session"] \in Sessions \cup {None} /\ x["user"] \in EndUsers \cup {None}
         /\ x["output"] \in {TRUE, None} /\ x["tags"] \in SUBSET Tags /\ x["meta"] \in SUBSET MetaKeys
         /\ x.tags = x["tags"]
BY DEF Row

LEMMA NoneIsNoRow == None \notin Row /\ None \notin SpanRow
BY IngestAssumption

\* ON CONFLICT (trace_id) DO UPDATE loses no tag and no value of either row.
LEMMA MergedOK ==
  ASSUME NEW old \in Row, NEW new \in Row
  PROVE  /\ Merged(old, new) \in Row
         /\ Facts(old) \cup Facts(new) \subseteq Facts(Merged(old, new))
<1>1. PICK x : x = Merged(old, new)
  OBVIOUS
<1>2. x = [f \in Columns |-> x[f]]
  BY <1>1 DEF Merged
<1>3. /\ x["status"] = new["status"] /\ x["started"] = new["started"] /\ x["output"] = new["output"]
      /\ x["ended"] = Coalesce(new["ended"], old["ended"])
      /\ x["session"] = Coalesce(new["session"], old["session"])
      /\ x["user"] = Coalesce(new["user"], old["user"])
      /\ x["tags"] = old["tags"] \cup new["tags"] /\ x["meta"] = old["meta"] \cup new["meta"]
  BY <1>1 DEF Merged, Columns, Coalesced
<1>4. x \in Row
  BY <1>2, <1>3, RowIs, RowHas DEF Coalesce
<1>5. old.tags \cup new.tags \subseteq x.tags
  BY <1>3, <1>4, RowHas
<1>6. \A f \in Coalesced : old[f] # None \/ new[f] # None => x[f] # None
  BY <1>3 DEF Coalesce, Coalesced
<1> QED BY <1>1, <1>4, <1>5, <1>6 DEF Facts

\* The columns that a PATCH writes: what it asked for, where that differs from what it read.
LEMMA PatchedColumns ==
  ASSUME NEW snap \in Row, NEW p \in Patches, NEW v \in Row,
         \A f \in p.set : p.val[f] = v[f] \/ (f \in NotNull /\ p.val[f] = None),
         NEW f \in Columns
  PROVE  \/ Patched(snap, p)[f] = snap[f]
         \/ /\ f \in p.set /\ f # "meta" /\ Patched(snap, p)[f] = p.val[f]
            /\ p.val[f] = v[f] /\ (f \in NotNull => p.val[f] # None)
         \/ f = "meta" /\ Patched(snap, p)[f] = snap[f] \cup v[f]
<1>1. Patched(snap, p)[f] = IF f \notin p.set \/ (f \in NotNull /\ p.val[f] = None) THEN snap[f]
                            ELSE IF f = "meta" THEN snap[f] \cup p.val[f] ELSE p.val[f]
  BY DEF Patched
<1>2. CASE f \notin p.set \/ (f \in NotNull /\ p.val[f] = None)
  BY <1>1, <1>2
<1>3. CASE f \in p.set /\ ~(f \in NotNull /\ p.val[f] = None)
  <2>1. p.val[f] = v[f]
    BY <1>3
  <2> QED BY <1>1, <1>3, <2>1
<1> QED BY <1>2, <1>3

\* The write of a PATCH keeps what the row has by then, but for what the body drops.
LEMMA PatchKeeps ==
  ASSUME NEW row \in Row, NEW snap \in Row, NEW p \in Patches
  PROVE  /\ Written(row, snap, Patched(snap, p)) \in Row
         /\ Facts(row) \ Drops(p) \subseteq Facts(Written(row, snap, Patched(snap, p)))
<1>1. PICK v \in Row : \A f \in p.set : p.val[f] = v[f] \/ (f \in NotNull /\ p.val[f] = None)
  BY IngestAssumption
<1>2. PICK new, w : new = Patched(snap, p) /\ w = Written(row, snap, new)
  OBVIOUS
<1>3. ASSUME NEW f \in Columns
      PROVE  \/ w[f] = row[f]
             \/ /\ f \in p.set /\ f # "meta" /\ w[f] = p.val[f] /\ p.val[f] = v[f]
                /\ f \in NotNull => p.val[f] # None
             \/ f = "meta" /\ w[f] = snap[f] \cup v[f]
  <2>1. w[f] = IF new[f] = snap[f] THEN row[f] ELSE new[f]
    BY <1>2 DEF Written
  <2> QED BY <1>1, <1>2, <2>1, PatchedColumns
<1>4. w = [f \in Columns |-> w[f]]
  BY <1>2 DEF Written
<1>5. w \in Row
  <2>1. /\ \A f \in Columns \ {"meta"} : w[f] = row[f] \/ w[f] = v[f]
        /\ w["meta"] = row["meta"] \/ w["meta"] = snap["meta"] \cup v["meta"]
    BY <1>3 DEF Columns
  <2> QED BY <1>4, <2>1, RowIs, RowHas DEF Columns
<1>6. ASSUME NEW x \in row.tags, x \notin Drops(p) PROVE x \in w.tags
  <2>1. x \in Tags /\ row.tags = row["tags"] /\ w.tags = w["tags"]
    BY <1>5, RowHas
  <2>2. \/ w["tags"] = row["tags"]
        \/ "tags" \in p.set /\ w["tags"] = p.val["tags"] /\ p.val["tags"] # None
    BY <1>3 DEF Columns, NotNull
  <2> QED BY <1>6, <2>1, <2>2 DEF Drops
<1>7. ASSUME NEW f \in Coalesced, row[f] # None, f \notin Drops(p) PROVE w[f] # None
  <2>1. f \in Columns /\ f # "meta"
    BY DEF Coalesced, Columns
  <2>2. w[f] = row[f] \/ (f \in p.set /\ w[f] = p.val[f])
    BY <1>3, <2>1
  <2> QED BY <1>7, <2>2 DEF Drops
<1> QED BY <1>2, <1>5, <1>6, <1>7 DEF Facts

LEMMA FactsType ==
  ASSUME NEW x \in Row
  PROVE  Facts(x) \in SUBSET (Tags \cup Coalesced)
BY RowHas DEF Facts

LEMMA DropsType ==
  ASSUME NEW p \in Patches
  PROVE  Drops(p) \in SUBSET (Tags \cup Coalesced)
BY DEF Drops

\* A span that is in the table stays with its trace.
LEMMA UpsertedSpanOK ==
  ASSUME NEW old \in SpanRow \cup {None}, NEW new \in SpanRow
  PROVE  /\ UpsertedSpan(old, new) \in SpanRow
         /\ UpsertedSpan(old, new).trace = IF old = None THEN new.trace ELSE old.trace
<1>1. CASE old = None
  BY <1>1 DEF UpsertedSpan
<1>2. CASE old # None
  <2>1. PICK m \in Models \cup {None} : m = Coalesce(new.model, old.model)
    BY <1>2 DEF Coalesce, SpanRow
  <2>2. UpsertedSpan(old, new) = [new EXCEPT !.trace = old.trace, !.model = m]
    BY <1>2, <2>1 DEF UpsertedSpan
  <2> QED BY <1>2, <2>1, <2>2 DEF SpanRow
<1> QED BY <1>1, <1>2

-----------------------------------------------------------------------------
(* Steps.                                                                  *)

\* The invariant, spelled out for the next state.
LEMMA Folded ==
  ASSUME project' \in BOOLEAN,
         traces' \in [Traces -> Row \cup {None}], spans' \in [Spans -> SpanRow \cup {None}],
         sent' \in [Traces -> SUBSET (Tags \cup Coalesced)],
         gone' \in [Traces -> SUBSET (Tags \cup Coalesced)],
         tasks' \in [Tasks -> Task],
         \A k \in Tasks : tasks'[k].state = "queued" => tasks'[k].payload \in Payloads,
         DOMAIN req' = Requests, \A r \in Requests : RequestOK(req'[r]),
         \A t \in Traces : traces'[t] = None => sent'[t] = {},
         \A t \in Traces : traces'[t] # None => sent'[t] \ gone'[t] \subseteq Facts(traces'[t]),
         \A s \in Spans : spans'[s] # None => traces'[spans'[s].trace] # None
  PROVE  Inv'
<1>1. TypeOK'
  BY DEF TypeOK, Live, LiveSpans
<1>2. \A r \in Requests : RequestOK(req[r])'
  BY DEF RequestOK
<1>3. Tables'
  BY <1>2 DEF Tables
<1>4. NothingForgotten'
  <2>1. ASSUME NEW t \in Traces, traces'[t] # None PROVE (sent[t] \ gone[t] \subseteq Facts(traces[t]))'
    BY <2>1 DEF Facts
  <2> QED BY <2>1 DEF NothingForgotten, Live
<1>5. (\A s \in LiveSpans : spans[s].trace \in Live)'
  <2>1. \A s \in Spans : spans'[s] # None => spans'[s].trace \in Traces
    BY DEF SpanRow
  <2> QED BY <2>1 DEF LiveSpans, Live
<1> QED BY <1>1, <1>3, <1>4, <1>5 DEF Inv

\* The invariant, spelled out.
LEMMA Unfolded ==
  ASSUME Inv
  PROVE  /\ project \in BOOLEAN
         /\ traces \in [Traces -> Row \cup {None}] /\ spans \in [Spans -> SpanRow \cup {None}]
         /\ sent \in [Traces -> SUBSET (Tags \cup Coalesced)]
         /\ gone \in [Traces -> SUBSET (Tags \cup Coalesced)]
         /\ tasks \in [Tasks -> Task]
         /\ \A k \in Tasks : tasks[k].state = "queued" => tasks[k].payload \in Payloads
         /\ DOMAIN req = Requests /\ \A r \in Requests : RequestOK(req[r])
         /\ \A t \in Traces : traces[t] = None => sent[t] = {}
         /\ \A t \in Traces : traces[t] # None => sent[t] \ gone[t] \subseteq Facts(traces[t])
         /\ \A s \in Spans : spans[s] # None => spans[s].trace \in Traces /\ traces[spans[s].trace] # None
<1>1. \A s \in Spans : spans[s] # None => spans[s].trace \in Live
  BY DEF Inv, LiveSpans
<1> QED BY <1>1 DEF Inv, TypeOK, Tables, NothingForgotten, Live

\* Steps of the queue.
LEMMA TaskStep ==
  ASSUME Inv, NEW k \in Tasks, NEW x \in Task, x.state = "queued" => x.payload \in Payloads,
         tasks' = [tasks EXCEPT ![k] = x], UNCHANGED <<project, traces, spans, req, sent, gone>>
  PROVE  Inv'
<1>1. /\ tasks' \in [Tasks -> Task]
      /\ \A l \in Tasks : tasks'[l].state = "queued" => tasks'[l].payload \in Payloads
  BY Unfolded
<1>2. /\ DOMAIN req' = Requests /\ \A r \in Requests : RequestOK(req'[r])
      /\ \A t \in Traces : traces'[t] # None => sent'[t] \ gone'[t] \subseteq Facts(traces'[t])
      /\ \A s \in Spans : spans'[s] # None => traces'[spans'[s].trace] # None
  BY Unfolded
<1> QED BY <1>1, <1>2, Unfolded, Folded

LEMMA EndedOK ==
  ASSUME NEW x \in {"free", "done", "dropped"}
  PROVE  Ended(x) \in Task /\ Ended(x).state # "queued"
BY IngestAssumption DEF Ended, Task

LEMMA QueueOK ==
  ASSUME Inv, NEW k \in Tasks,
         (\E p \in Payloads : IngestTrace(k, p)) \/ ProcessFails(k) \/ ProcessTimesOut(k)
  PROVE  Inv'
<1>1. ASSUME NEW p \in Payloads, IngestTrace(k, p) PROVE Inv'
  <2>1. PICK x : x = [state |-> "queued", payload |-> p, retries |-> 0]
    OBVIOUS
  <2>2. x \in Task /\ x.payload \in Payloads
    BY <2>1, IngestAssumption DEF Task
  <2> QED BY <1>1, <2>1, <2>2, TaskStep DEF IngestTrace
<1>2. CASE ProcessFails(k)
  <2>1. PICK x : x = Retry(k)
    OBVIOUS
  <2>2. tasks[k] \in Task /\ tasks[k].payload \in Payloads
    BY <1>2, Unfolded DEF ProcessFails
  <2>3. x \in Task /\ (x.state = "queued" => x.payload \in Payloads)
    <3>1. CASE tasks[k].retries < MaxRetries
      BY <2>1, <2>2, <3>1, IngestAssumption DEF Retry, Task
    <3>2. CASE ~(tasks[k].retries < MaxRetries)
      BY <2>1, <3>2, EndedOK DEF Retry
    <3> QED BY <3>1, <3>2
  <2> QED BY <1>2, <2>1, <2>3, TaskStep DEF ProcessFails
<1>3. CASE ProcessTimesOut(k)
  BY <1>3, EndedOK, TaskStep DEF ProcessTimesOut
<1> QED BY <1>1, <1>2, <1>3

\* Steps of requests that change no row.
LEMMA RequestStep ==
  ASSUME Inv, NEW r \in Requests, NEW q, RequestOK(q),
         req' = [req EXCEPT ![r] = q], UNCHANGED <<project, traces, spans, tasks, sent, gone>>
  PROVE  Inv'
<1>1. DOMAIN req' = Requests /\ \A s \in Requests : RequestOK(req'[s])
  BY Unfolded
<1>2. /\ \A t \in Traces : traces'[t] # None => sent'[t] \ gone'[t] \subseteq Facts(traces'[t])
      /\ \A s \in Spans : spans'[s] # None => traces'[spans'[s].trace] # None
  BY Unfolded
<1> QED BY <1>1, <1>2, Unfolded, Folded

LEMMA IdleOK == RequestOK(Idle)
BY DEF RequestOK, Idle

LEMMA EditOK ==
  ASSUME Inv, NEW r \in Requests, Edit(r) \/ Rollback(r)
  PROVE  Inv'
<1>1. ASSUME NEW t \in Traces, NEW p \in Patches, UpdateTrace(r, t, p) PROVE Inv'
  <2>1. PICK q : q = [pc |-> "patch", trace |-> t, patch |-> p, snap |-> traces[t]]
    OBVIOUS
  <2>2. traces[t] \in Row
    BY <1>1, Unfolded DEF UpdateTrace, Live
  <2>3. RequestOK(q)
    BY <2>1, <2>2 DEF RequestOK
  <2> QED BY <1>1, <2>1, <2>3, RequestStep DEF UpdateTrace
<1>2. ASSUME NEW b \in SpanBodies, AddSpans(r, b) PROVE Inv'
  <2>1. PICK q : q = [pc |-> "spans", body |-> b]
    OBVIOUS
  <2>2. RequestOK(q)
    BY <2>1 DEF RequestOK
  <2> QED BY <1>2, <2>1, <2>2, RequestStep DEF AddSpans
<1>3. ASSUME NEW s \in Spans, NEW n \in SpanTokens, UpdateSpan(r, s, n) PROVE Inv'
  <2>1. PICK q : q = [pc |-> "span", span |-> s, tokens |-> n, changed |-> spans[s].tokens # n]
    OBVIOUS
  <2>2. RequestOK(q)
    BY <2>1 DEF RequestOK
  <2> QED BY <1>3, <2>1, <2>2, RequestStep DEF UpdateSpan
<1>4. CASE Rollback(r)
  BY <1>4, IdleOK, RequestStep DEF Rollback
<1> QED BY <1>1, <1>2, <1>3, <1>4 DEF Edit

\* process_trace: one upsert of the row and one of each span, in one transaction.
LEMMA PersistOK ==
  ASSUME Inv, NEW k \in Tasks, Persist(k)
  PROVE  Inv'
<1>1. PICK p \in Payloads : p = tasks[k].payload
  BY Unfolded DEF Persist
<1>2. PICK t \in Traces : t = p.trace
  BY IngestAssumption
<1>3. /\ p.row \in Row
      /\ \A s \in DOMAIN p.spans : s \in Spans /\ p.spans[s] \in SpanRow /\ p.spans[s].trace = t
  BY <1>2, IngestAssumption
<1>4. PICK new, F : new = Upserted(traces[t], p.row) /\ F = Facts(p.row)
  OBVIOUS
<1>5. new \in Row /\ (sent[t] \ gone[t]) \cup F \subseteq Facts(new)
  <2>1. CASE traces[t] = None
    BY <1>3, <1>4, <2>1, Unfolded DEF Upserted
  <2>2. CASE traces[t] # None
    <3>1. traces[t] \in Row /\ sent[t] \ gone[t] \subseteq Facts(traces[t])
      BY <2>2, Unfolded
    <3>2. new = Merged(traces[t], p.row)
      BY <1>4, <2>2 DEF Upserted
    <3> QED BY <1>3, <1>4, <3>1, <3>2, MergedOK
  <2> QED BY <2>1, <2>2
<1>6. F \in SUBSET (Tags \cup Coalesced)
  BY <1>3, <1>4, FactsType
<1>7. PICK x : x = Ended("done")
  OBVIOUS
<1>8. /\ traces' = [traces EXCEPT ![t] = new]
      /\ tasks' = [tasks EXCEPT ![k] = x]
      /\ sent' = [sent EXCEPT ![t] = sent[t] \cup F]
      /\ gone' = [gone EXCEPT ![t] = gone[t] \ F]
      /\ UNCHANGED <<project, req>>
  <2>1. traces' = [traces EXCEPT ![t] = Upserted(traces[t], p.row)]
    BY <1>1, <1>2, Unfolded DEF Persist
  <2> QED BY <1>1, <1>2, <1>4, <1>7, <2>1, Unfolded DEF Persist
<1>9. /\ tasks' \in [Tasks -> Task]
      /\ \A l \in Tasks : tasks'[l].state = "queued" => tasks'[l].payload \in Payloads
  BY <1>7, <1>8, EndedOK, Unfolded
<1>10. /\ traces' \in [Traces -> Row \cup {None}]
       /\ sent' \in [Traces -> SUBSET (Tags \cup Coalesced)]
       /\ gone' \in [Traces -> SUBSET (Tags \cup Coalesced)]
  BY <1>5, <1>6, <1>8, Unfolded
<1>11. traces'[t] # None /\ \A u \in Traces : traces[u] # None => traces'[u] # None
  BY <1>5, <1>8, NoneIsNoRow, Unfolded
<1>12. \A u \in Traces : traces'[u] = None => sent'[u] = {}
  BY <1>8, <1>11, Unfolded
<1>13. ASSUME NEW u \in Traces, traces'[u] # None PROVE sent'[u] \ gone'[u] \subseteq Facts(traces'[u])
  <2>1. CASE u = t
    <3>1. sent'[u] \ gone'[u] \subseteq (sent[t] \ gone[t]) \cup F
      BY <1>8, <2>1, Unfolded
    <3>2. traces'[u] = new
      BY <1>8, <2>1, Unfolded
    <3> QED BY <1>5, <3>1, <3>2
  <2>2. CASE u # t
    BY <1>8, <1>13, <2>2, Unfolded
  <2> QED BY <2>1, <2>2
<1>14. ASSUME NEW s \in Spans
       PROVE  /\ spans'[s] \in SpanRow \cup {None}
              /\ spans'[s] # None => traces'[spans'[s].trace] # None
  <2>1. CASE s \in DOMAIN p.spans
    <3>1. PICK y : y = UpsertedSpan(spans[s], p.spans[s])
      OBVIOUS
    <3>2. spans'[s] = y
      BY <1>1, <2>1, <3>1 DEF Persist
    <3>3. y \in SpanRow /\ y.trace = IF spans[s] = None THEN t ELSE spans[s].trace
      BY <1>3, <2>1, <3>1, UpsertedSpanOK, Unfolded
    <3> QED BY <1>11, <3>2, <3>3, Unfolded
  <2>2. CASE s \notin DOMAIN p.spans
    <3>1. spans'[s] = spans[s]
      BY <1>1, <2>2 DEF Persist
    <3> QED BY <1>11, <3>1, Unfolded
  <2> QED BY <2>1, <2>2
<1>15. spans' \in [Spans -> SpanRow \cup {None}]
  <2>1. spans' = [s \in Spans |-> spans'[s]]
    BY DEF Persist
  <2> QED BY <1>14, <2>1
<1>16. /\ project' \in BOOLEAN
       /\ DOMAIN req' = Requests /\ \A r \in Requests : RequestOK(req'[r])
  BY <1>8, Unfolded
<1> QED BY <1>9, <1>10, <1>12, <1>13, <1>14, <1>15, <1>16, Folded

-----------------------------------------------------------------------------
(* The writes of requests.                                                 *)

\* The write of PATCH /traces/{trace_id}.
LEMMA UpdateCommitOK ==
  ASSUME Inv, NEW r \in Requests, UpdateCommit(r)
  PROVE  Inv'
<1>1. PICK t \in Traces, p \in Patches, snap \in Row :
         t = req[r].trace /\ p = req[r].patch /\ snap = req[r].snap
  BY Unfolded DEF UpdateCommit, RequestOK
<1>2. traces[t] \in Row
  BY <1>1, Unfolded DEF UpdateCommit, Live
<1>3. PICK new, D : new = Written(traces[t], snap, Patched(snap, p)) /\ D = Drops(p)
  OBVIOUS
<1>4. new \in Row /\ Facts(traces[t]) \ D \subseteq Facts(new) /\ D \in SUBSET (Tags \cup Coalesced)
  BY <1>2, <1>3, PatchKeeps, DropsType
<1>5. /\ traces' = [traces EXCEPT ![t] = new]
      /\ gone' = [gone EXCEPT ![t] = gone[t] \cup D]
      /\ req' = [req EXCEPT ![r] = Idle]
      /\ UNCHANGED <<project, spans, tasks, sent>>
  <2>1. traces' = [traces EXCEPT ![t] = Written(traces[t], snap, Patched(snap, p))]
    BY <1>1, Unfolded DEF UpdateCommit
  <2> QED BY <1>1, <1>3, <2>1, Unfolded DEF UpdateCommit
<1>6. /\ traces' \in [Traces -> Row \cup {None}]
      /\ gone' \in [Traces -> SUBSET (Tags \cup Coalesced)]
      /\ DOMAIN req' = Requests /\ \A q \in Requests : RequestOK(req'[q])
  BY <1>4, <1>5, IdleOK, Unfolded
<1>7. \A u \in Traces : traces'[u] = None <=> traces[u] = None
  BY <1>2, <1>4, <1>5, NoneIsNoRow, Unfolded
<1>8. ASSUME NEW u \in Traces, traces'[u] # None PROVE sent'[u] \ gone'[u] \subseteq Facts(traces'[u])
  <2>1. sent[u] \ gone[u] \subseteq Facts(traces[u])
    BY <1>7, <1>8, Unfolded
  <2>2. CASE u = t
    <3>1. traces'[u] = new /\ sent'[u] = sent[t] /\ gone'[u] = gone[t] \cup D
      BY <1>5, <2>2, Unfolded
    <3> QED BY <1>4, <2>1, <2>2, <3>1
  <2>3. CASE u # t
    <3>1. traces'[u] = traces[u] /\ sent'[u] = sent[u] /\ gone'[u] = gone[u]
      BY <1>5, <2>3, Unfolded
    <3> QED BY <2>1, <3>1
  <2> QED BY <2>2, <2>3
<1>9. /\ \A u \in Traces : traces'[u] = None => sent'[u] = {}
      /\ \A s \in Spans : spans'[s] # None => traces'[spans'[s].trace] # None
  BY <1>5, <1>7, Unfolded
<1> QED BY <1>5, <1>6, <1>8, <1>9, Unfolded, Folded

\* A request that writes one span of a trace that exists.
LEMMA SpanStep ==
  ASSUME Inv, NEW r \in Requests, NEW s \in Spans, NEW y \in SpanRow, traces[y.trace] # None,
         spans' = [spans EXCEPT ![s] = y], req' = [req EXCEPT ![r] = Idle],
         UNCHANGED <<project, traces, tasks, sent, gone>>
  PROVE  Inv'
<1>1. DOMAIN req' = Requests /\ \A q \in Requests : RequestOK(req'[q])
  BY IdleOK, Unfolded
<1>2. /\ \A t \in Traces : traces'[t] # None => sent'[t] \ gone'[t] \subseteq Facts(traces'[t])
      /\ spans' \in [Spans -> SpanRow \cup {None}]
      /\ \A u \in Spans : spans'[u] # None => traces'[spans'[u].trace] # None
  BY Unfolded
<1> QED BY <1>1, <1>2, Unfolded, Folded

\* The insert of POST /traces/{trace_id}/spans, and the write of PATCH .../spans/{span_id}.
LEMMA SpanCommitOK ==
  ASSUME Inv, NEW r \in Requests, AddCommit(r) \/ UpdateSpanCommit(r)
  PROVE  Inv'
<1>1. CASE AddCommit(r)
  <2>1. PICK b \in SpanBodies : b = req[r].body
    BY <1>1, Unfolded DEF AddCommit, RequestOK
  <2>2. PICK s \in Spans, n \in SpanRow : s = b.span /\ n = b.row
    BY IngestAssumption
  <2>3. PICK y : y = UpsertedSpan(spans[s], n)
    OBVIOUS
  <2>4. y \in SpanRow /\ y.trace = IF spans[s] = None THEN n.trace ELSE spans[s].trace
    BY <2>3, UpsertedSpanOK, Unfolded
  <2>5. traces[y.trace] # None
    BY <1>1, <2>1, <2>2, <2>4, Unfolded DEF AddCommit, Live
  <2>6. /\ spans' = [spans EXCEPT ![s] = y] /\ req' = [req EXCEPT ![r] = Idle]
        /\ UNCHANGED <<project, traces, tasks, sent, gone>>
    BY <1>1, <2>1, <2>2, <2>3, Unfolded DEF AddCommit
  <2> QED BY <2>4, <2>5, <2>6, SpanStep
<1>2. CASE UpdateSpanCommit(r)
  <2>1. PICK s \in Spans, n \in SpanTokens : s = req[r].span /\ n = req[r].tokens
    BY <1>2, Unfolded DEF UpdateSpanCommit, RequestOK
  <2>2. spans[s] \in SpanRow /\ traces[spans[s].trace] # None
    BY <1>2, <2>1, Unfolded DEF UpdateSpanCommit, LiveSpans
  <2>3. PICK m \in Nat \cup {None} : m = IF req[r].changed THEN n ELSE spans[s].tokens
    BY <2>2, IngestAssumption DEF SpanRow
  <2>4. PICK y : y = [spans[s] EXCEPT !.tokens = m]
    OBVIOUS
  <2>5. y \in SpanRow /\ y.trace = spans[s].trace
    BY <2>2, <2>4 DEF SpanRow
  <2>6. /\ spans' = [spans EXCEPT ![s] = y] /\ req' = [req EXCEPT ![r] = Idle]
        /\ UNCHANGED <<project, traces, tasks, sent, gone>>
    BY <1>2, <2>1, <2>3, <2>4, Unfolded DEF UpdateSpanCommit
  <2> QED BY <2>2, <2>5, <2>6, SpanStep
<1> QED BY <1>1, <1>2

-----------------------------------------------------------------------------
(* Deletions and tags.                                                     *)

\* Rows that are deleted take their spans with them.
LEMMA RemovedOK ==
  ASSUME Inv, NEW T, Removed(T), project' \in BOOLEAN, UNCHANGED <<tasks, req>>
  PROVE  Inv'
<1>1. /\ traces' \in [Traces -> Row \cup {None}]
      /\ sent' \in [Traces -> SUBSET (Tags \cup Coalesced)]
      /\ gone' \in [Traces -> SUBSET (Tags \cup Coalesced)]
      /\ spans' \in [Spans -> SpanRow \cup {None}]
  BY Unfolded DEF Removed
<1>2. \A t \in Traces : IF t \in T THEN traces'[t] = None /\ sent'[t] = {}
                        ELSE traces'[t] = traces[t] /\ sent'[t] = sent[t] /\ gone'[t] = gone[t]
  BY DEF Removed
<1>3. /\ \A t \in Traces : traces'[t] = None => sent'[t] = {}
      /\ \A t \in Traces : traces'[t] # None => sent'[t] \ gone'[t] \subseteq Facts(traces'[t])
  BY <1>2, Unfolded
<1>4. ASSUME NEW s \in Spans, spans'[s] # None PROVE traces'[spans'[s].trace] # None
  <2>1. spans'[s] = spans[s] /\ ~(s \in LiveSpans /\ spans[s].trace \in T)
    BY <1>4 DEF Removed
  <2>2. s \in LiveSpans
    BY <1>4, <2>1 DEF LiveSpans
  <2> QED BY <1>2, <2>1, <2>2, Unfolded DEF LiveSpans
<1>5. DOMAIN req' = Requests /\ \A r \in Requests : RequestOK(req'[r])
  BY Unfolded
<1> QED BY <1>1, <1>3, <1>4, <1>5, Unfolded, Folded

LEMMA DeletionOK ==
  ASSUME Inv, (\E T \in SUBSET Traces : BatchDelete(T)) \/ (\E s \in Sessions : DeleteSession(s))
              \/ ProjectDeleted
  PROVE  Inv'
<1>1. project \in BOOLEAN
  BY Unfolded
<1>2. ASSUME NEW T \in SUBSET Traces, BatchDelete(T) PROVE Inv'
  BY <1>1, <1>2, RemovedOK DEF BatchDelete
<1>3. ASSUME NEW s \in Sessions, DeleteSession(s) PROVE Inv'
  <2>1. PICK T : T = {t \in Live : traces[t].session = s}
    OBVIOUS
  <2>2. Removed(T) /\ UNCHANGED <<project, tasks, req>>
    BY <1>3, <2>1 DEF DeleteSession
  <2> QED BY <1>1, <2>2, RemovedOK
<1>4. CASE ProjectDeleted
  BY <1>1, <1>4, RemovedOK DEF ProjectDeleted
<1> QED BY <1>2, <1>3, <1>4

\* One row of POST /traces/batch/tags.
LEMMA RetaggedOK ==
  ASSUME NEW row \in Row, NEW add \in SUBSET Tags, NEW remove \in SUBSET Tags
  PROVE  LET new == [row EXCEPT !.tags = (@ \ remove) \cup add] IN
         new \in Row /\ \A f \in Facts(row) : f \in Facts(new) \/ f \in remove
<1>1. PICK T \in SUBSET Tags : T = (row.tags \ remove) \cup add
  BY DEF Row
<1>2. PICK new : new = [row EXCEPT !.tags = T]
  OBVIOUS
<1>3. new \in Row /\ new.tags = T /\ \A f \in Coalesced : new[f] = row[f]
  BY <1>2 DEF Row, Coalesced
<1> QED BY <1>1, <1>2, <1>3 DEF Facts

\* Tags that were sent stay, unless they are the ones to remove.
LEMMA BatchTagsOK ==
  ASSUME Inv, NEW T \in SUBSET Traces, NEW e \in TagEdits, BatchTags(T, e.add, e.remove)
  PROVE  Inv'
<1>1. PICK add \in SUBSET Tags, remove \in SUBSET Tags : add = e.add /\ remove = e.remove
  BY IngestAssumption
<1>2. ASSUME NEW t \in Traces, t \notin T \cap Live
      PROVE  traces'[t] = traces[t] /\ gone'[t] = gone[t] /\ sent'[t] = sent[t]
  BY <1>2 DEF BatchTags
<1>3. ASSUME NEW t \in Traces, t \in T \cap Live
      PROVE  /\ traces'[t] \in Row
             /\ gone'[t] = (gone[t] \cup remove) \ add
             /\ sent'[t] \ gone'[t] \subseteq Facts(traces'[t])
  <2>1. traces[t] \in Row /\ sent[t] \ gone[t] \subseteq Facts(traces[t])
    BY <1>3, Unfolded DEF Live
  <2>2. PICK new : new = [traces[t] EXCEPT !.tags = (@ \ remove) \cup add]
    OBVIOUS
  <2>3. new \in Row /\ \A f \in Facts(traces[t]) : f \in Facts(new) \/ f \in remove
    BY <2>1, <2>2, RetaggedOK
  <2>4. add \subseteq Facts(new)
    <3>1. PICK N \in SUBSET Tags : N = (traces[t].tags \ remove) \cup add
      BY <2>1 DEF Row
    <3>2. new = [traces[t] EXCEPT !.tags = N]
      BY <2>2, <3>1
    <3>3. new.tags = N
      BY <2>1, <3>2 DEF Row
    <3> QED BY <3>1, <3>3 DEF Facts
  <2>5. traces'[t] = new /\ gone'[t] = (gone[t] \cup remove) \ add /\ sent'[t] = sent[t]
    BY <1>1, <1>3, <2>2 DEF BatchTags
  <2> QED BY <2>1, <2>3, <2>4, <2>5
<1>4. /\ traces' \in [Traces -> Row \cup {None}]
      /\ gone' \in [Traces -> SUBSET (Tags \cup Coalesced)]
  <2>1. traces' = [t \in Traces |-> traces'[t]] /\ gone' = [t \in Traces |-> gone'[t]]
    BY DEF BatchTags
  <2>2. ASSUME NEW t \in Traces
        PROVE  traces'[t] \in Row \cup {None} /\ gone'[t] \in SUBSET (Tags \cup Coalesced)
    <3>1. CASE t \in T \cap Live
      BY <1>3, <3>1, Unfolded
    <3>2. CASE t \notin T \cap Live
      BY <1>2, <3>2, Unfolded
    <3> QED BY <3>1, <3>2
  <2> QED BY <2>1, <2>2
<1>5. \A t \in Traces : traces'[t] = None <=> traces[t] = None
  <2> TAKE t \in Traces
  <2>1. CASE t \in T \cap Live
    BY <1>3, <2>1, NoneIsNoRow DEF Live
  <2>2. CASE t \notin T \cap Live
    BY <1>2, <2>2
  <2> QED BY <2>1, <2>2
<1>6. ASSUME NEW t \in Traces, traces'[t] # None PROVE sent'[t] \ gone'[t] \subseteq Facts(traces'[t])
  <2>1. CASE t \in T \cap Live
    BY <1>3, <2>1
  <2>2. CASE t \notin T \cap Live
    BY <1>2, <1>6, <2>2, Unfolded
  <2> QED BY <2>1, <2>2
<1>7. UNCHANGED <<project, spans, tasks, req, sent>>
  BY DEF BatchTags
<1>8. /\ \A t \in Traces : traces'[t] = None => sent'[t] = {}
      /\ \A s \in Spans : spans'[s] # None => traces'[spans'[s].trace] # None
      /\ DOMAIN req' = Requests /\ \A r \in Requests : RequestOK(req'[r])
  BY <1>5, <1>7, Unfolded
<1> QED BY <1>4, <1>6, <1>7, <1>8, Unfolded, Folded

-----------------------------------------------------------------------------
(* The theorems.                                                           *)

\* The invariant holds initially.
LEMMA InitInv == Init => Inv
<1> SUFFICES ASSUME Init PROVE Inv
  OBVIOUS
<1>1. Live = {} /\ LiveSpans = {}
  BY DEF Init, Live, LiveSpans
<1>2. tasks \in [Tasks -> Task] /\ \A k \in Tasks : tasks[k].state # "queued"
  <2>1. PICK x : x = Ended("free")
    OBVIOUS
  <2> QED BY <2>1, EndedOK DEF Init
<1>3. DOMAIN req = Requests /\ \A r \in Requests : RequestOK(req[r])
  BY IdleOK DEF Init
<1>4. TypeOK /\ Tables
  BY <1>1, <1>2, <1>3 DEF Init, TypeOK, Tables
<1> QED BY <1>1, <1>4 DEF Init, Inv, NothingForgotten

\* Every step keeps the invariant.
LEMMA NextInv == Inv /\ [Next]_vars => Inv'
<1> SUFFICES ASSUME Inv, [Next]_vars PROVE Inv'
  OBVIOUS
<1>1. ASSUME NEW k \in Tasks, (\E p \in Payloads : IngestTrace(k, p)) \/ RunTask(k) PROVE Inv'
  BY <1>1, QueueOK, PersistOK DEF RunTask
<1>2. ASSUME NEW r \in Requests, Edit(r) \/ Finish(r) PROVE Inv'
  BY <1>2, EditOK, UpdateCommitOK, SpanCommitOK DEF Finish
<1>3. ASSUME NEW T \in SUBSET Traces \ {{}},
             BatchDelete(T) \/ (\E e \in TagEdits : BatchTags(T, e.add, e.remove))
      PROVE  Inv'
  BY <1>3, DeletionOK, BatchTagsOK
<1>4. ASSUME (\E s \in Sessions : DeleteSession(s)) \/ ProjectDeleted PROVE Inv'
  BY <1>4, DeletionOK
<1>5. CASE UNCHANGED vars
  <2>1. /\ DOMAIN req' = Requests /\ \A r \in Requests : RequestOK(req'[r])
        /\ \A t \in Traces : traces'[t] # None => sent'[t] \ gone'[t] \subseteq Facts(traces'[t])
        /\ \A s \in Spans : spans'[s] # None => traces'[spans'[s].trace] # None
    BY <1>5, Unfolded DEF vars
  <2> QED BY <1>5, <2>1, Unfolded, Folded DEF vars
<1> QED BY <1>1, <1>2, <1>3, <1>4, <1>5 DEF Next

\* The invariant holds in every reachable state, for any payloads and any number of tasks.
THEOREM Invariance == Spec => []Inv
BY InitInv, NextInv, PTL DEF Spec

\* What process_trace merged into a row stays on it until a request asks to remove it: no
\* payload, early, late or repeated, no PATCH whose read is older than the merge and no
\* tag update in between loses a tag, a session, a user or an end.
THEOREM IngestedIsKept == Spec => []NothingForgotten
<1>1. Inv => NothingForgotten
  BY DEF Inv
<1> QED BY <1>1, Invariance, PTL

\* The tables keep their types and no span outlives its trace: add_spans looks the trace
\* up before it inserts, and trace, session or project may be deleted in between.
THEOREM SpansBelongToTraces == Spec => []SpansHaveTraces
<1>1. Inv => SpansHaveTraces
  BY DEF Inv, SpansHaveTraces
<1> QED BY <1>1, Invariance, PTL

-----------------------------------------------------------------------------
(* The totals.  Each is a sum, over kinds, of what there is of the kind.   *)

LEMMA Finite ==
  /\ IsFiniteSet(Live) /\ IsFiniteSet(LiveSpans) /\ IsFiniteSet(Buckets)
  /\ IsFiniteSet(Sessions) /\ IsFiniteSet(EndUsers) /\ IsFiniteSet(Models)
<1>1. IsFiniteSet(Times)
  BY IngestAssumption
<1>2. IsFiniteSet(Buckets)
  <2> DEFINE h == [x \in Times |-> Bucket(x)]
  <2>1. \A y \in Buckets : \E x \in Times : y = h[x]
    BY DEF Buckets
  <2> HIDE DEF h
  <2> QED BY <1>1, <2>1, FiniteImage
<1> QED BY <1>2, IngestAssumption, FS_Subset DEF Live, LiveSpans

LEMMA Listed ==
  ASSUME Inv, NEW w \in Windows, NEW x
  PROVE  /\ ListTraces(w, x) \subseteq Live /\ IsFiniteSet(ListTraces(w, x))
         /\ \A t \in ListTraces(w, x) : traces[t].started \in Times
<1>1. ListTraces(w, x) \subseteq Live
  BY DEF ListTraces
<1>2. \A t \in Live : traces[t] \in Row
  BY Unfolded DEF Live
<1> QED BY <1>1, <1>2, Finite, FS_Subset DEF Row

\* A value per bucket, of traces or spans that started at one of the times.
LEMMA BucketIn == \A x \in Times : Bucket(x) \in Buckets
BY DEF Buckets

\* get_trace_analytics against list_traces.
LEMMA TracesAgree ==
  ASSUME Inv, NEW w \in Windows
  PROVE  /\ SumFunction([b \in Buckets |-> TraceAnalytics(w)[b].trace_count])
              = Cardinality(ListTraces(w, None))
         /\ SumFunction([b \in Buckets |-> TraceAnalytics(w)[b].error_count])
              = Cardinality(ListTraces(w, "ERROR"))
<1> DEFINE kind == [t \in Live |-> Bucket(traces[t].started)]
<1>1. ASSUME NEW x, NEW S, S = ListTraces(w, x)
      PROVE  IsFiniteSet(S) /\ \A t \in S : kind[t] = Bucket(traces[t].started) /\ kind[t] \in Buckets
  <2>1. S \subseteq Live /\ IsFiniteSet(S) /\ \A t \in S : traces[t].started \in Times
    BY <1>1, Listed
  <2>2. \A t \in Live : kind[t] = Bucket(traces[t].started)
    OBVIOUS
  <2> HIDE DEF kind
  <2> QED BY <2>1, <2>2, BucketIn
<1> HIDE DEF kind
<1>2. PICK A, E : A = ListTraces(w, None) /\ E = ListTraces(w, "ERROR")
  OBVIOUS
<1>3. E = {t \in A : traces[t].status = "ERROR"}
  <2>1. None # "ERROR"
    BY IngestAssumption DEF Status
  <2> QED BY <1>2, <2>1 DEF ListTraces
<1>4. PICK c, e : c = [b \in Buckets |-> TraceAnalytics(w)[b].trace_count]
               /\ e = [b \in Buckets |-> TraceAnalytics(w)[b].error_count]
  OBVIOUS
<1>5. ASSUME NEW b \in Buckets
      PROVE  c[b] = Cardinality(Class(kind, A, b)) /\ e[b] = Cardinality(Class(kind, E, b))
  <2>1. Class(kind, A, b) = {t \in A : Bucket(traces[t].started) = b}
    BY <1>1, <1>2 DEF Class
  <2>2. Class(kind, E, b) = {t \in Class(kind, A, b) : traces[t].status = "ERROR"}
    BY <1>3 DEF Class
  <2> QED BY <1>2, <1>4, <2>1, <2>2 DEF TraceAnalytics
<1>6. DOMAIN c = Buckets /\ DOMAIN e = Buckets
  BY <1>4
<1>7. SumFunctionOnSet(c, Buckets) = Cardinality(A)
  BY <1>1, <1>2, <1>5, Finite, CountAll
<1>8. SumFunctionOnSet(e, Buckets) = Cardinality(E)
  BY <1>1, <1>2, <1>5, Finite, CountAll
<1> QED BY <1>2, <1>4, <1>6, <1>7, <1>8, SumWritten

\* get_session_analytics against list_sessions: each session has one first trace.
LEMMA SessionsAgree ==
  ASSUME Inv, NEW w \in Windows
  PROVE  SumFunction(SessionAnalytics(w)) = Cardinality(ListSessions(w))
<1>1. PICK S : S = ListSessions(w)
  OBVIOUS
<1> DEFINE kind == [s \in S |-> Bucket(FirstTraceAt(s, w))]
<1>2. IsFiniteSet(S)
  <2>1. \A t \in Live : traces[t] \in Row
    BY Unfolded DEF Live
  <2>2. S \subseteq Sessions
    BY <1>1, <2>1, Listed DEF ListSessions, Row
  <2> QED BY <2>2, Finite, FS_Subset
<1>3. ASSUME NEW s \in S PROVE FirstTraceAt(s, w) \in Times
  <2>1. PICK T : T = {traces[t].started : t \in {x \in ListTraces(w, None) : traces[x].session = s}}
    OBVIOUS
  <2>2. T # {}
    BY <1>1, <2>1 DEF ListSessions
  <2>3. T \subseteq Times
    BY <2>1, Listed
  <2>4. IsFiniteSet(Times) /\ Times \subseteq Nat
    BY IngestAssumption
  <2>5. \E m \in T : \A y \in T : m <= y
    <3>1. IsFiniteSet(T)
      BY <2>3, <2>4, FS_Subset
    <3>2. T \subseteq Int
      BY <2>3, <2>4
    <3> QED BY <2>2, <3>1, <3>2, MinExists
  <2>6. Min(T) \in T
    BY <2>5 DEF Min
  <2> QED BY <2>1, <2>3, <2>6 DEF FirstTraceAt
<1>4. \A s \in S : kind[s] = Bucket(FirstTraceAt(s, w)) /\ kind[s] \in Buckets
  BY <1>3, BucketIn
<1> HIDE DEF kind
<1>5. PICK c : c = SessionAnalytics(w)
  OBVIOUS
<1>6. DOMAIN c = Buckets /\ \A b \in Buckets : c[b] = Cardinality(Class(kind, S, b))
  <2>1. \A b : Class(kind, S, b) = {s \in S : Bucket(FirstTraceAt(s, w)) = b}
    BY <1>4 DEF Class
  <2> QED BY <1>1, <1>5, <2>1 DEF SessionAnalytics
<1>7. SumFunctionOnSet(c, Buckets) = Cardinality(S)
  BY <1>2, <1>4, <1>6, Finite, CountAll
<1> QED BY <1>1, <1>5, <1>6, <1>7, SumWritten

LEMMA TokensType ==
  ASSUME Inv
  PROVE  /\ DOMAIN Tokens = LiveSpans /\ \A s \in LiveSpans : Tokens[s] \in Nat
         /\ \A s \in LiveSpans : spans[s].started \in Times /\ spans[s].trace \in Live
<1>1. ASSUME NEW s \in LiveSpans PROVE spans[s] \in SpanRow
  BY Unfolded DEF LiveSpans
<1>2. ASSUME NEW s \in LiveSpans PROVE Tokens[s] \in Nat /\ spans[s].started \in Times
  BY <1>1 DEF Tokens, Coalesce, SpanRow
<1>3. ASSUME NEW s \in LiveSpans PROVE spans[s].trace \in Live
  BY Unfolded DEF LiveSpans, Live
<1> QED BY <1>2, <1>3 DEF Tokens

\* get_top_models against get_token_cost_analytics: spans without a model are not called.
LEMMA ModelsAgree ==
  ASSUME Inv, NEW w \in Windows
  PROVE  SumFunction([m \in Models |-> TopModels(w)[m].total_tokens]) <= SumFunction(TokenAnalytics(w))
<1>1. PICK S : S = {s \in LiveSpans : InWindow(spans[s].started, w)}
  OBVIOUS
<1>2. S \subseteq LiveSpans /\ IsFiniteSet(S) /\ \A s \in S : Tokens[s] \in Nat
  BY <1>1, Finite, FS_Subset, TokensType
<1> DEFINE model == [s \in LiveSpans |-> spans[s].model]
           bucket == [s \in LiveSpans |-> Bucket(spans[s].started)]
<1>3. \A s \in S : model[s] = spans[s].model /\ bucket[s] = Bucket(spans[s].started)
                   /\ bucket[s] \in Buckets
  BY <1>2, TokensType, BucketIn
<1> HIDE DEF model, bucket
<1>4. PICK c, d : c = [m \in Models |-> TopModels(w)[m].total_tokens] /\ d = TokenAnalytics(w)
  OBVIOUS
<1>5. DOMAIN c = Models /\ \A m \in Models : c[m] = SumFunctionOnSet(Tokens, Class(model, S, m))
  <2>1. \A m : Class(model, S, m) = {s \in LiveSpans : InWindow(spans[s].started, w) /\ spans[s].model = m}
    BY <1>1, <1>3 DEF Class
  <2> QED BY <1>4, <2>1 DEF TopModels
<1>6. DOMAIN d = Buckets /\ \A b \in Buckets : d[b] = SumFunctionOnSet(Tokens, Class(bucket, S, b))
  <2>1. \A b : Class(bucket, S, b) = {s \in LiveSpans : InWindow(spans[s].started, w)
                                                         /\ Bucket(spans[s].started) = b}
    BY <1>1, <1>3 DEF Class
  <2> QED BY <1>4, <2>1 DEF TokenAnalytics
<1>7. PICK M : M = Within(model, S, Models)
  OBVIOUS
<1>8. SumFunctionOnSet(c, Models) = SumFunctionOnSet(Tokens, M)
  BY <1>2, <1>5, <1>7, Finite, SumByKind
<1>9. SumFunctionOnSet(d, Buckets) = SumFunctionOnSet(Tokens, S)
  BY <1>2, <1>3, <1>6, Finite, SumAll
<1>10. M \in SUBSET S
  BY <1>7 DEF Within
<1>11. SumFunctionOnSet(Tokens, M) <= SumFunctionOnSet(Tokens, S)
  BY <1>2, <1>10, SumPart
<1> QED BY <1>4, <1>5, <1>6, <1>8, <1>9, <1>11, SumWritten

\* The tokens of some traces are those of their spans.
LEMMA TokensOfTraces ==
  ASSUME Inv, NEW T \in SUBSET Live
  PROVE  SumFunction([t \in T |-> SpanStats(t).total_tokens])
           = SumFunctionOnSet(Tokens, {s \in LiveSpans : spans[s].trace \in T})
<1> DEFINE trace == [s \in LiveSpans |-> spans[s].trace]
<1>1. \A s \in LiveSpans : trace[s] = spans[s].trace
  OBVIOUS
<1> HIDE DEF trace
<1>2. PICK c : c = [t \in T |-> SpanStats(t).total_tokens]
  OBVIOUS
<1>3. DOMAIN c = T /\ \A t \in T : c[t] = SumFunctionOnSet(Tokens, Class(trace, LiveSpans, t))
  <2>1. \A t : Class(trace, LiveSpans, t) = {s \in LiveSpans : spans[s].trace = t}
    BY <1>1 DEF Class
  <2> QED BY <1>2, <2>1 DEF SpanStats
<1>4. IsFiniteSet(T) /\ IsFiniteSet(LiveSpans)
  BY Finite, FS_Subset
<1>5. SumFunctionOnSet(c, T) = SumFunctionOnSet(Tokens, Within(trace, LiveSpans, T))
  BY <1>3, <1>4, TokensType, SumByKind
<1>6. Within(trace, LiveSpans, T) = {s \in LiveSpans : spans[s].trace \in T}
  BY <1>1 DEF Within
<1> QED BY <1>2, <1>3, <1>5, <1>6, SumWritten

\* get_session_summary over the sessions, and the traces of no session, against the spans.
LEMMA TokensAgree ==
  ASSUME Inv
  PROVE  SumFunction([s \in Sessions |-> SessionSummary(s).total_tokens])
           + SumFunction([t \in {x \in Live : traces[x].session = None} |-> SpanStats(t).total_tokens])
             = SumFunction(Tokens)
<1> DEFINE ses == [s \in LiveSpans |-> traces[spans[s].trace].session]
           alone == {x \in Live : traces[x].session = None}
<1>1. \A s \in LiveSpans : ses[s] = traces[spans[s].trace].session
  OBVIOUS
<1> HIDE DEF ses
<1>2. \A t \in Live : traces[t].session \in Sessions \cup {None}
  BY Unfolded DEF Live, Row
<1>3. PICK c : c = [s \in Sessions |-> SessionSummary(s).total_tokens]
  OBVIOUS
<1>4. DOMAIN c = Sessions
  BY <1>3
<1>5. ASSUME NEW s \in Sessions PROVE c[s] = SumFunctionOnSet(Tokens, Class(ses, LiveSpans, s))
  <2>1. PICK T \in SUBSET Live : T = {t \in Live : traces[t].session = s}
    OBVIOUS
  <2>2. c[s] = SumFunction([t \in T |-> SpanStats(t).total_tokens])
    BY <1>3, <2>1 DEF SessionSummary
  <2>3. Class(ses, LiveSpans, s) = {x \in LiveSpans : spans[x].trace \in T}
    BY <1>1, <2>1, TokensType DEF Class
  <2> QED BY <2>2, <2>3, TokensOfTraces
<1>6. PICK A, B : A = Within(ses, LiveSpans, Sessions) /\ B = {s \in LiveSpans : spans[s].trace \in alone}
  OBVIOUS
<1>7. SumFunctionOnSet(c, Sessions) = SumFunctionOnSet(Tokens, A)
  BY <1>5, <1>6, Finite, TokensType, SumByKind
<1>8. SumFunction([t \in alone |-> SpanStats(t).total_tokens]) = SumFunctionOnSet(Tokens, B)
  <2>1. alone \in SUBSET Live
    OBVIOUS
  <2> HIDE DEF alone
  <2> QED BY <1>6, <2>1, TokensOfTraces
<1>9. A \cup B = LiveSpans /\ A \cap B = {} /\ A \subseteq LiveSpans /\ B \subseteq LiveSpans
  <2>1. None \notin Sessions
    BY IngestAssumption
  <2> QED BY <1>1, <1>2, <1>6, <2>1, TokensType DEF Within
<1>10. SumFunctionOnSet(Tokens, LiveSpans) = SumFunctionOnSet(Tokens, A) + SumFunctionOnSet(Tokens, B)
  <2>1. IsFiniteSet(A) /\ IsFiniteSet(B) /\ \A s \in A \cup B : Tokens[s] \in Nat
    BY <1>9, Finite, FS_Subset, TokensType
  <2> QED BY <1>9, <2>1, SumUnion
<1>11. SumFunction(Tokens) = SumFunctionOnSet(Tokens, LiveSpans) /\ SumFunction(c) = SumFunctionOnSet(c, Sessions)
  BY <1>4, TokensType, SumWritten
<1> QED BY <1>3, <1>7, <1>8, <1>10, <1>11

\* list_trace_users against the traces.
LEMMA UsersAgree ==
  ASSUME Inv
  PROVE  SumFunction([u \in EndUsers |-> TraceUsers[u].trace_count])
           + Cardinality({t \in Live : traces[t].user = None}) = Cardinality(Live)
<1> DEFINE user == [t \in Live |-> traces[t].user]
<1>1. \A t \in Live : user[t] = traces[t].user /\ traces[t].user \in EndUsers \cup {None}
  BY Unfolded DEF Live, Row
<1> HIDE DEF user
<1>2. PICK c : c = [u \in EndUsers |-> TraceUsers[u].trace_count]
  OBVIOUS
<1>3. DOMAIN c = EndUsers /\ \A u \in EndUsers : c[u] = Cardinality(Class(user, Live, u))
  <2>1. \A u : Class(user, Live, u) = {t \in Live : traces[t].user = u}
    BY <1>1 DEF Class
  <2> QED BY <1>2, <2>1 DEF TraceUsers
<1>4. PICK A, B : A = Within(user, Live, EndUsers) /\ B = {t \in Live : traces[t].user = None}
  OBVIOUS
<1>5. SumFunctionOnSet(c, EndUsers) = Cardinality(A)
  BY <1>3, <1>4, Finite, CountByKind
<1>6. A \cup B = Live /\ A \cap B = {} /\ A \subseteq Live /\ B \subseteq Live
  <2>1. None \notin EndUsers
    BY IngestAssumption
  <2> QED BY <1>1, <1>4, <2>1 DEF Within
<1>7. IsFiniteSet(A) /\ IsFiniteSet(B)
  BY <1>6, Finite, FS_Subset
<1>8. Cardinality(A \cup B) = Cardinality(A) + Cardinality(B) - Cardinality(A \cap B)
  BY <1>7, FS_Union
<1>9. Cardinality(A \cap B) = 0 /\ Cardinality(A) \in Nat /\ Cardinality(B) \in Nat
  BY <1>6, <1>7, FS_EmptySet, FS_CardinalityType
<1>10. SumFunction(c) = SumFunctionOnSet(c, EndUsers)
  BY <1>3, SumWritten
<1>11. Cardinality(Live) = Cardinality(A) + Cardinality(B)
  <2>1. Cardinality(A \cup B) = Cardinality(Live)
    BY <1>6
  <2> QED BY <1>8, <1>9, <2>1
<1>12. SumFunction(c) + Cardinality(B) = Cardinality(Live)
  BY <1>5, <1>10, <1>11
<1> QED BY <1>2, <1>4, <1>12

\* Endpoints that report the same thing agree, whatever is ingested, patched and deleted.
THEOREM TotalsAddUp == Spec => []TotalsAgree
<1>1. Inv => TotalsAgree
  BY TracesAgree, SessionsAgree, ModelsAgree, TokensAgree, UsersAgree DEF TotalsAgree
<1> QED BY <1>1, Invariance, PTL

-----------------------------------------------------------------------------
(* Usage metering (UsageMetering), for any limit and any number of          *)
(* concurrent requests, webhooks and reset tasks: a HOBBY organization is   *)
(* not served beyond its limit, and the counter in Redis lies between the   *)
(* units in use and the units granted.                                      *)
(*                                                                          *)
(* The counter is never exact: an answer may be lost after the script ran,  *)
(* a rollback given up.  Balance bounds it by two sets of requests, the     *)
(* ones whose unit must still be counted and the ones that ever got one.    *)
(* It needs that every copy of the subscription, in the cache or in the     *)
(* hands of a request or writer, is of a period that has begun (Seen), and  *)
(* that only the counter of a period that has ended is deleted (WriterOK).  *)

-----------------------------------------------------------------------------
(* The inductive invariant.                                                *)

\* A copy of the subscription, or none.
Seen(x) ==
  x # Absent => /\ x \in Sub /\ x.period <= sub.period
                /\ x.period = 1 => x.plan = "HOBBY"

LocalOK(q) ==
  /\ q.pc \in {"fill", "count", "refund"} => q.sub # Absent
  /\ q.pc \in {"serve", "served"} => q.unit # Absent
  /\ q.pc \in {"lookup", "fetch", "fill"} /\ q.back = "refund" => q.unit # Absent
  /\ q.pc \in {"lookup", "fetch", "fill"} /\ q.back = "count" => q.unit = Absent /\ ~q.ran
  /\ q.pc \in {"count", "refund"} => q.back = q.pc
  /\ q.pc = "count" /\ ~q.ran => q.unit = Absent
  /\ q.pc = "refund" => q.unit # Absent

WritePc == {"idle", "read", "set", "queued", "advance", "delete", "invalidate", "done"}

WriterOK(x) ==
  /\ x.pc \in {"set", "advance", "delete", "invalidate"} => x.sub # Absent
  /\ x.pc = "advance" => x.sub.period < MaxPeriod
  /\ x.pc \in {"delete", "invalidate"} => x.sub.period < sub.period

\* The unit of the request is used, or still to be given back.
Owes(q) ==
  /\ q.unit # Absent
  /\ \/ q.pc \in {"count", "serve", "served"}
     \/ q.pc \in {"lookup", "fetch", "fill"} /\ q.back = "refund"
     \/ q.pc = "refund" /\ ~q.ran

Owing == {r \in Callers : Owes(call[r])}
Granted == {r \in Callers : call[r].unit # Absent}

Balance ==
  FirstPeriod =>
    /\ Cardinality(Owing) <= counter[1] /\ counter[1] <= Cardinality(Granted)
    /\ counter[1] <= Limit

MeterInv ==
  /\ MeterTypeOK /\ write \in [Writers -> [pc : WritePc, sub : Sub \cup {Absent}]]
  /\ Seen(sub) /\ Seen(cache)
  /\ \A r \in Callers : LocalOK(call[r]) /\ Seen(call[r].sub) /\ Seen(call[r].unit)
  /\ \A w \in Writers : WriterOK(write[w]) /\ Seen(write[w].sub)
  /\ Balance

-----------------------------------------------------------------------------
(* Facts about the copies and the sets.                                    *)

LEMMA Bounds ==
  Limit \in Nat /\ MaxPeriod \in Nat /\ MaxPeriod >= 1 /\ Absent \notin Sub /\ 1 \in Periods
BY UsageAssumption DEF Periods

\* In the first period every copy is of that period and plan.
LEMMA SeenFirst ==
  ASSUME MeterTypeOK, FirstPeriod, NEW x, x # Absent, Seen(x)
  PROVE  x \in Sub /\ x.period = 1 /\ x.plan = "HOBBY"
BY Bounds DEF MeterTypeOK, FirstPeriod, Seen, Sub, Periods

\* Copies stay copies when the period goes on.
LEMMA SeenKept ==
  ASSUME MeterTypeOK, NEW x, Seen(x), sub' \in Sub, sub'.period >= sub.period
  PROVE  Seen(x)'
BY Bounds DEF MeterTypeOK, Seen, Sub, Periods

LEMMA RequestSets ==
  ASSUME NEW S \in SUBSET Callers
  PROVE  IsFiniteSet(S) /\ Cardinality(S) \in Nat
BY UsageAssumption, FS_Subset, FS_CardinalityType

LEMMA SubsetCard ==
  ASSUME NEW S \in SUBSET Callers, NEW T \in SUBSET S
  PROVE  Cardinality(T) <= Cardinality(S) /\ Cardinality(T) \in Nat /\ Cardinality(S) \in Nat
<1>1. IsFiniteSet(S) /\ T \in SUBSET Callers
  BY RequestSets
<1> QED BY <1>1, RequestSets, FS_Subset

LEMMA OneMore ==
  ASSUME NEW S \in SUBSET Callers, NEW r \in Callers
  PROVE  /\ Cardinality(S \cup {r}) \in Nat /\ Cardinality(S) \in Nat /\ Cardinality(S \ {r}) \in Nat
         /\ Cardinality(S \cup {r}) <= Cardinality(S) + 1
         /\ r \notin S => Cardinality(S \cup {r}) = Cardinality(S) + 1
         /\ r \in S => Cardinality(S \ {r}) = Cardinality(S) - 1
<1>1. IsFiniteSet(S) /\ Cardinality(S) \in Nat
  BY RequestSets
<1>2. S \cup {r} \in SUBSET Callers /\ S \ {r} \in SUBSET Callers
  OBVIOUS
<1>3. Cardinality(S \cup {r}) \in Nat /\ Cardinality(S \ {r}) \in Nat
  BY <1>2, RequestSets
<1>4. Cardinality(S \cup {r}) = IF r \in S THEN Cardinality(S) ELSE Cardinality(S) + 1
  BY <1>1, FS_AddElement
<1>5. Cardinality(S \ {r}) = IF r \in S THEN Cardinality(S) - 1 ELSE Cardinality(S)
  BY <1>1, FS_RemoveElement
<1> QED BY <1>1, <1>3, <1>4, <1>5

-----------------------------------------------------------------------------
(* Steps of requests.                                                      *)

\* What a step of one request does to the counter of the first period: nothing, a unit
\* for a request that had none, or the unit of one that owed it.
Accounts(r, q) ==
  \/ /\ counter'[1] = counter[1]
     /\ Owes(q) => Owes(call[r])
     /\ call[r].unit # Absent => q.unit # Absent
  \/ /\ counter'[1] = counter[1] + 1 /\ counter[1] + 1 <= Limit
     /\ call[r].unit = Absent /\ q.unit # Absent
  \/ /\ counter'[1] = counter[1] - 1
     /\ Owes(call[r]) /\ ~Owes(q) /\ q.unit # Absent

LEMMA BalanceKept ==
  ASSUME MeterInv, NEW r \in Callers, NEW q \in Local, call' = [call EXCEPT ![r] = q],
         UNCHANGED sub, FirstPeriod => Accounts(r, q)
  PROVE  Balance'
<1> SUFFICES ASSUME FirstPeriod'
             PROVE  /\ Cardinality(Owing') <= counter'[1] /\ counter'[1] <= Cardinality(Granted')
                    /\ counter'[1] <= Limit
  BY DEF Balance
<1>1. FirstPeriod /\ Accounts(r, q)
  BY DEF FirstPeriod
<1>2. /\ Cardinality(Owing) <= counter[1] /\ counter[1] <= Cardinality(Granted)
      /\ counter[1] <= Limit /\ counter[1] \in Int
  BY <1>1, Bounds DEF MeterInv, Balance, MeterTypeOK
<1>3. /\ Owing \in SUBSET Callers /\ Granted \in SUBSET Callers
      /\ Owing' \in SUBSET Callers /\ Granted' \in SUBSET Callers
  BY DEF Owing, Granted
<1>4. /\ call'[r] = q /\ \A s \in Callers \ {r} : call'[s] = call[s]
  BY DEF MeterInv, MeterTypeOK
<1>5. Owing' = {s \in Callers : Owes(call'[s])}
  BY DEF Owing, Owes
<1>6. Granted' = {s \in Callers : call'[s].unit # Absent}
  BY DEF Granted
<1>7. /\ Cardinality(Owing) \in Nat /\ Cardinality(Granted) \in Nat
      /\ Cardinality(Owing') \in Nat /\ Cardinality(Granted') \in Nat
  BY <1>3, RequestSets
<1>8. CASE /\ counter'[1] = counter[1]
           /\ Owes(q) => Owes(call[r])
           /\ call[r].unit # Absent => q.unit # Absent
  <2>1. Owing' \in SUBSET Owing
    BY <1>4, <1>5, <1>8 DEF Owing
  <2>2. Granted \in SUBSET Granted'
    BY <1>4, <1>6, <1>8 DEF Granted
  <2>3. Cardinality(Owing') <= Cardinality(Owing) /\ Cardinality(Granted) <= Cardinality(Granted')
    BY <1>3, <2>1, <2>2, SubsetCard
  <2> QED BY <1>2, <1>7, <1>8, <2>3
<1>9. CASE /\ counter'[1] = counter[1] + 1 /\ counter[1] + 1 <= Limit
           /\ call[r].unit = Absent /\ q.unit # Absent
  <2>1. Owing' \in SUBSET (Owing \cup {r})
    BY <1>4, <1>5 DEF Owing
  <2>2. Granted' = Granted \cup {r} /\ r \notin Granted
    BY <1>4, <1>6, <1>9 DEF Granted
  <2>3. Cardinality(Owing') <= Cardinality(Owing \cup {r}) /\ Cardinality(Owing \cup {r}) \in Nat
    <3>1. Owing \cup {r} \in SUBSET Callers
      BY <1>3
    <3> QED BY <2>1, <3>1, SubsetCard
  <2>4. Cardinality(Owing \cup {r}) <= Cardinality(Owing) + 1
    BY <1>3, OneMore
  <2>5. Cardinality(Granted') = Cardinality(Granted) + 1
    BY <1>3, <2>2, OneMore
  <2> QED BY <1>2, <1>7, <1>9, <2>3, <2>4, <2>5
<1>10. CASE /\ counter'[1] = counter[1] - 1
            /\ Owes(call[r]) /\ ~Owes(q) /\ q.unit # Absent
  <2>1. Owing' = Owing \ {r} /\ r \in Owing
    BY <1>4, <1>5, <1>10 DEF Owing
  <2>2. Granted \in SUBSET Granted'
    BY <1>4, <1>6, <1>10 DEF Granted
  <2>3. Cardinality(Owing') = Cardinality(Owing) - 1 /\ Cardinality(Granted) <= Cardinality(Granted')
    BY <1>3, <2>1, <2>2, OneMore, SubsetCard
  <2> QED BY <1>2, <1>7, <1>10, <2>3, Bounds
<1> QED BY <1>1, <1>8, <1>9, <1>10 DEF Accounts

LEMMA CallStep ==
  ASSUME MeterInv, NEW r \in Callers, NEW q \in Local, call' = [call EXCEPT ![r] = q],
         UNCHANGED <<sub, write>>, LocalOK(q), Seen(q.sub), Seen(q.unit),
         cache' \in Sub \cup {Absent}, Seen(cache'), counter' \in [Periods -> Int],
         FirstPeriod => Accounts(r, q)
  PROVE  MeterInv'
<1>1. MeterTypeOK' /\ (write \in [Writers -> [pc : WritePc, sub : Sub \cup {Absent}]])'
  BY DEF MeterInv, MeterTypeOK
<1>2. \A x : Seen(x)' <=> Seen(x)
  BY DEF Seen
<1>3. ASSUME NEW s \in Callers PROVE LocalOK(call'[s]) /\ Seen(call'[s].sub) /\ Seen(call'[s].unit)
  BY DEF MeterInv, MeterTypeOK
<1>4. ASSUME NEW w \in Writers PROVE WriterOK(write[w])'
  BY DEF MeterInv, WriterOK
<1>5. Balance'
  BY BalanceKept
<1>6. Seen(sub)' /\ Seen(cache)' /\ \A w \in Writers : Seen(write[w].sub)'
  BY DEF MeterInv, Seen
<1>7. \A s \in Callers : (LocalOK(call[s]) /\ Seen(call[s].sub) /\ Seen(call[s].unit))'
  BY <1>3 DEF LocalOK, Seen
<1> QED BY <1>1, <1>4, <1>5, <1>6, <1>7 DEF MeterInv

\* A request, with the types of its fields.
LEMMA LocalIs ==
  ASSUME MeterInv, NEW r \in Callers
  PROVE  /\ call[r] \in Local /\ LocalOK(call[r]) /\ Seen(call[r].sub) /\ Seen(call[r].unit)
         /\ cache \in Sub \cup {Absent} /\ Seen(cache) /\ counter \in [Periods -> Int]
         /\ sub \in Sub /\ Seen(sub)
BY DEF MeterInv, MeterTypeOK

\* Steps that leave the counters and the cache alone and the unit where it is.
LEMMA Walks ==
  ASSUME MeterInv, NEW r \in Callers, NEW q \in Local, call' = [call EXCEPT ![r] = q],
         UNCHANGED <<sub, write, counter>>, cache' \in Sub \cup {Absent}, Seen(cache'),
         LocalOK(q), Seen(q.sub), q.unit = call[r].unit, Owes(q) => Owes(call[r])
  PROVE  MeterInv'
<1>1. Accounts(r, q)
  BY DEF Accounts
<1> QED BY <1>1, LocalIs, CallStep

LEMMA LookupOK ==
  ASSUME MeterInv, NEW r \in Callers, Lookup(r)
  PROVE  MeterInv'
<1>1. PICK q : q = IF cache = Absent THEN [call[r] EXCEPT !.pc = "fetch"]
                   ELSE [call[r] EXCEPT !.pc = call[r].back, !.sub = cache]
  OBVIOUS
<1>2. call[r].pc = "lookup" /\ call' = [call EXCEPT ![r] = q] /\ UNCHANGED <<sub, cache, counter, write>>
  BY <1>1 DEF Lookup, At, Go
<1>3. CASE cache = Absent
  <2>1. /\ q \in Local /\ q.pc = "fetch" /\ q.back = call[r].back /\ q.sub = call[r].sub
        /\ q.unit = call[r].unit /\ q.ran = call[r].ran
    BY <1>1, <1>3, LocalIs DEF Local
  <2>2. LocalOK(q) /\ (Owes(q) => Owes(call[r]))
    BY <1>2, <2>1, LocalIs DEF LocalOK, Owes
  <2> QED BY <1>2, <2>1, <2>2, LocalIs, Walks
<1>4. CASE cache # Absent
  <2>1. /\ q \in Local /\ q.pc = call[r].back /\ q.back = call[r].back /\ q.sub = cache
        /\ q.unit = call[r].unit /\ q.ran = call[r].ran /\ q.back \in {"count", "refund"}
    BY <1>1, <1>4, LocalIs DEF Local
  <2>2. LocalOK(q) /\ (Owes(q) => Owes(call[r]))
    BY <1>2, <1>4, <2>1, LocalIs DEF LocalOK, Owes
  <2> QED BY <1>2, <2>1, <2>2, LocalIs, Walks
<1> QED BY <1>3, <1>4

LEMMA FetchOK ==
  ASSUME MeterInv, NEW r \in Callers, Fetch(r)
  PROVE  MeterInv'
<1>1. PICK q : q = [call[r] EXCEPT !.pc = "fill", !.sub = sub]
  OBVIOUS
<1>2. call[r].pc = "fetch" /\ call' = [call EXCEPT ![r] = q] /\ UNCHANGED <<sub, cache, counter, write>>
  BY <1>1 DEF Fetch, At, Go
<1>3. /\ q \in Local /\ q.pc = "fill" /\ q.back = call[r].back /\ q.sub = sub
      /\ q.unit = call[r].unit /\ q.ran = call[r].ran
  BY <1>1, LocalIs DEF Local
<1>4. LocalOK(q) /\ (Owes(q) => Owes(call[r]))
  BY <1>2, <1>3, LocalIs, Bounds DEF LocalOK, Owes
<1> QED BY <1>2, <1>3, <1>4, LocalIs, Walks

LEMMA FillOK ==
  ASSUME MeterInv, NEW r \in Callers, Fill(r)
  PROVE  MeterInv'
<1>1. PICK q : q = [call[r] EXCEPT !.pc = call[r].back]
  OBVIOUS
<1>2. /\ call[r].pc = "fill" /\ call' = [call EXCEPT ![r] = q] /\ cache' = call[r].sub
      /\ UNCHANGED <<sub, counter, write>>
  BY <1>1 DEF Fill, At, Go
<1>3. /\ q \in Local /\ q.pc = call[r].back /\ q.back = call[r].back /\ q.sub = call[r].sub
      /\ q.unit = call[r].unit /\ q.ran = call[r].ran /\ q.back \in {"count", "refund"}
  BY <1>1, LocalIs DEF Local
<1>4. LocalOK(q) /\ (Owes(q) => Owes(call[r]))
  BY <1>2, <1>3, LocalIs DEF LocalOK, Owes
<1>5. cache' \in Sub \cup {Absent} /\ Seen(cache') /\ Seen(q.sub)
  BY <1>2, <1>3, LocalIs DEF Local
<1> QED BY <1>2, <1>3, <1>4, <1>5, Walks

\* The request only changes its place.
LEMMA MovesTo ==
  ASSUME MeterInv, NEW r \in Callers, NEW pc \in {"refused", "served", "failed"},
         call' = [call EXCEPT ![r] = [call[r] EXCEPT !.pc = pc]],
         UNCHANGED <<sub, cache, counter, write>>, pc = "served" => call[r].pc = "serve"
  PROVE  MeterInv'
<1>1. PICK q : q = [call[r] EXCEPT !.pc = pc]
  OBVIOUS
<1>2. /\ q \in Local /\ q.pc = pc /\ q.back = call[r].back /\ q.sub = call[r].sub
      /\ q.unit = call[r].unit /\ q.ran = call[r].ran
  BY <1>1, LocalIs DEF Local
<1>3. LocalOK(q) /\ (Owes(q) => Owes(call[r]))
  BY <1>2, LocalIs DEF LocalOK, Owes
<1> QED BY <1>1, <1>2, <1>3, LocalIs, Walks

LEMMA PlainOK ==
  ASSUME MeterInv, NEW r \in Callers, Refuse(r) \/ Serve(r) \/ RedisDown(r)
  PROVE  MeterInv'
BY MovesTo DEF Refuse, Serve, RedisDown, At, Go

LEMMA ServeFailsOK ==
  ASSUME MeterInv, NEW r \in Callers, ServeFails(r)
  PROVE  MeterInv'
<1>1. PICK q : q = [call[r] EXCEPT !.pc = "lookup", !.back = "refund"]
  OBVIOUS
<1>2. call[r].pc = "serve" /\ call' = [call EXCEPT ![r] = q] /\ UNCHANGED <<sub, cache, counter, write>>
  BY <1>1 DEF ServeFails, At, Go
<1>3. /\ q \in Local /\ q.pc = "lookup" /\ q.back = "refund" /\ q.sub = call[r].sub
      /\ q.unit = call[r].unit /\ q.ran = call[r].ran
  BY <1>1, LocalIs DEF Local
<1>4. LocalOK(q) /\ (Owes(q) => Owes(call[r]))
  BY <1>2, <1>3, LocalIs DEF LocalOK, Owes
<1> QED BY <1>2, <1>3, <1>4, LocalIs, Walks

\* What the script leaves, the first time and when it is sent again.
LEMMA CountScriptIs ==
  ASSUME MeterInv, NEW r \in Callers, call[r].pc = "count", NEW d, d = CountScript(r)
  PROVE  /\ d.counter \in [Periods -> Int] /\ d.unit \in Sub \cup {Absent} /\ Seen(d.unit)
         /\ call[r].ran => d.counter = counter /\ d.unit = call[r].unit
         /\ ~call[r].ran => call[r].unit = Absent
         /\ FirstPeriod =>
              \/ d.counter = counter /\ d.unit = call[r].unit
              \/ /\ d.counter[1] = counter[1] + 1 /\ counter[1] + 1 <= Limit
                 /\ call[r].unit = Absent /\ d.unit # Absent
<1>1. PICK s \in Sub : s = call[r].sub
  BY LocalIs DEF LocalOK, Local
<1>2. call[r].unit \in Sub \cup {Absent} /\ (~call[r].ran => call[r].unit = Absent) /\ s # Absent
  BY <1>1, LocalIs, Bounds DEF LocalOK, Local
<1>3. CASE call[r].ran
  BY <1>2, <1>3, LocalIs DEF CountScript
<1>4. CASE ~call[r].ran /\ ~Admits(s)
  <2>1. d = [counter |-> counter, unit |-> Absent]
    BY <1>1, <1>4 DEF CountScript
  <2> QED BY <1>2, <1>4, <2>1, LocalIs DEF Seen
<1>5. CASE ~call[r].ran /\ Admits(s)
  <2>1. d = [counter |-> [counter EXCEPT ![s.period] = @ + 1], unit |-> s]
    BY <1>1, <1>5 DEF CountScript
  <2>2. s.period \in Periods /\ Seen(s) /\ counter \in [Periods -> Int]
    BY <1>1, LocalIs DEF Sub
  <2>3. FirstPeriod => s.period = 1 /\ s.plan = "HOBBY"
    BY <1>2, <2>2, SeenFirst DEF MeterInv
  <2>4. FirstPeriod => counter[1] + 1 <= Limit
    BY <1>5, <2>3 DEF Admits
  <2> QED BY <1>2, <1>5, <2>1, <2>2, <2>3, <2>4, Bounds
<1> QED BY <1>3, <1>4, <1>5

LEMMA CountOK ==
  ASSUME MeterInv, NEW r \in Callers, Count(r)
  PROVE  MeterInv'
<1>1. PICK d : d = CountScript(r)
  OBVIOUS
<1>2. PICK q : q = [call[r] EXCEPT !.unit = d.unit, !.ran = FALSE,
                                  !.pc = IF d.unit = Absent THEN "refused" ELSE "serve"]
  OBVIOUS
<1>3. /\ call[r].pc = "count" /\ counter' = d.counter /\ call' = [call EXCEPT ![r] = q]
      /\ UNCHANGED <<sub, cache, write>>
  BY <1>1, <1>2 DEF Count, At, Go
<1>4. /\ d.counter \in [Periods -> Int] /\ d.unit \in Sub \cup {Absent} /\ Seen(d.unit)
      /\ FirstPeriod =>
           \/ d.counter = counter /\ d.unit = call[r].unit
           \/ /\ d.counter[1] = counter[1] + 1 /\ counter[1] + 1 <= Limit
              /\ call[r].unit = Absent /\ d.unit # Absent
  BY <1>1, <1>3, CountScriptIs
<1>5. /\ q \in Local /\ q.pc = (IF d.unit = Absent THEN "refused" ELSE "serve") /\ q.sub = call[r].sub
      /\ q.unit = d.unit /\ q.ran = FALSE
  BY <1>2, <1>4, LocalIs DEF Local
<1>6. LocalOK(q) /\ Seen(q.sub)
  BY <1>5, LocalIs DEF LocalOK
<1>7. FirstPeriod => Accounts(r, q)
  BY <1>3, <1>4, <1>5 DEF Accounts, Owes
<1> QED BY <1>3, <1>4, <1>5, <1>6, <1>7, LocalIs, CallStep

\* The unit goes back to the counter of the period the request knows, once.
LEMMA RefundScriptIs ==
  ASSUME MeterInv, NEW r \in Callers, call[r].pc = "refund"
  PROVE  /\ RefundScript(r) \in [Periods -> Int] /\ call[r].unit # Absent
         /\ call[r].ran => RefundScript(r) = counter
         /\ FirstPeriod /\ ~call[r].ran => RefundScript(r)[1] = counter[1] - 1
<1>1. PICK s \in Sub : s = call[r].sub
  BY LocalIs DEF LocalOK, Local
<1>2. s.period \in Periods /\ Seen(s) /\ counter \in [Periods -> Int] /\ s # Absent /\ call[r].unit # Absent
  BY <1>1, LocalIs, Bounds DEF Sub, LocalOK
<1>3. FirstPeriod => s.period = 1
  BY <1>2, SeenFirst DEF MeterInv
<1> QED BY <1>1, <1>2, <1>3, Bounds DEF RefundScript

\* A refund whose answer came, or was lost for the first or the second time.
LEMMA Refunds ==
  ASSUME MeterInv, NEW r \in Callers, call[r].pc = "refund", counter' = RefundScript(r),
         NEW pc \in {"refund", "failed"}, NEW ran \in BOOLEAN, pc = "refund" => ran,
         call' = [call EXCEPT ![r] = [call[r] EXCEPT !.pc = pc, !.ran = ran]],
         UNCHANGED <<sub, cache, write>>
  PROVE  MeterInv'
<1>1. PICK q : q = [call[r] EXCEPT !.pc = pc, !.ran = ran]
  OBVIOUS
<1>2. /\ q \in Local /\ q.pc = pc /\ q.back = call[r].back /\ q.sub = call[r].sub
      /\ q.unit = call[r].unit /\ q.ran = ran
  BY <1>1, LocalIs DEF Local
<1>3. LocalOK(q) /\ Seen(q.sub) /\ Seen(q.unit)
  BY <1>2, LocalIs DEF LocalOK
<1>4. FirstPeriod => Accounts(r, q)
  <2>1. ~Owes(q) /\ q.unit # Absent
    BY <1>2, RefundScriptIs DEF Owes
  <2>2. CASE call[r].ran
    BY <1>2, <2>1, <2>2, RefundScriptIs DEF Accounts
  <2>3. CASE ~call[r].ran
    BY <1>2, <2>1, <2>3, RefundScriptIs DEF Accounts, Owes
  <2> QED BY <2>2, <2>3
<1> QED BY <1>1, <1>2, <1>3, <1>4, RefundScriptIs, LocalIs, CallStep

LEMMA RefundOK ==
  ASSUME MeterInv, NEW r \in Callers, Refund(r)
  PROVE  MeterInv'
BY Refunds DEF Refund, At, Go

LEMMA ReplyLostOK ==
  ASSUME MeterInv, NEW r \in Callers, ReplyLost(r)
  PROVE  MeterInv'
<1>1. PICK d : d = CountScript(r)
  OBVIOUS
<1>2. UNCHANGED <<sub, cache, write>>
  BY DEF ReplyLost
<1>3. PICK pc : pc = IF call[r].ran THEN "failed" ELSE call[r].pc
  OBVIOUS
<1>4. CASE /\ call[r].pc = "count" /\ counter' = d.counter
           /\ call' = [call EXCEPT ![r] = [call[r] EXCEPT !.unit = d.unit, !.ran = TRUE, !.pc = pc]]
  <2>1. PICK q : q = [call[r] EXCEPT !.unit = d.unit, !.ran = TRUE, !.pc = pc]
    OBVIOUS
  <2>2. /\ d.counter \in [Periods -> Int] /\ d.unit \in Sub \cup {Absent} /\ Seen(d.unit)
        /\ call[r].ran => d.counter = counter /\ d.unit = call[r].unit
        /\ FirstPeriod =>
             \/ d.counter = counter /\ d.unit = call[r].unit
             \/ /\ d.counter[1] = counter[1] + 1 /\ counter[1] + 1 <= Limit
                /\ call[r].unit = Absent /\ d.unit # Absent
    BY <1>1, <1>4, CountScriptIs
  <2>3. pc \in {"count", "failed"}
    BY <1>3, <1>4
  <2>4. /\ q \in Local /\ q.pc = pc /\ q.sub = call[r].sub /\ q.back = call[r].back
        /\ q.unit = d.unit /\ q.ran = TRUE
    BY <2>1, <2>2, <2>3, LocalIs DEF Local
  <2>5. LocalOK(q) /\ Seen(q.sub)
    BY <1>4, <2>3, <2>4, LocalIs DEF LocalOK
  <2>6. FirstPeriod => Accounts(r, q)
    BY <1>4, <2>2, <2>3, <2>4 DEF Accounts, Owes
  <2> QED BY <1>2, <1>4, <2>1, <2>2, <2>4, <2>5, <2>6, LocalIs, CallStep
<1>5. CASE /\ call[r].pc = "refund" /\ counter' = RefundScript(r)
           /\ call' = [call EXCEPT ![r] = [call[r] EXCEPT !.ran = TRUE, !.pc = pc]]
  <2>1. pc \in {"refund", "failed"}
    BY <1>3, <1>5
  <2>2. [call[r] EXCEPT !.ran = TRUE, !.pc = pc] = [call[r] EXCEPT !.pc = pc, !.ran = TRUE]
    BY LocalIs DEF Local
  <2> QED BY <1>2, <1>5, <2>1, <2>2, Refunds
<1> QED BY <1>1, <1>3, <1>4, <1>5 DEF ReplyLost, At, Go

-----------------------------------------------------------------------------
(* Steps of the writers, and of time.                                      *)

\* The row may change and a copy of it may be cached; only a period that has ended may
\* lose its counter.
LEMMA WriterStep ==
  ASSUME MeterInv, NEW w \in Writers, NEW x \in [pc : WritePc, sub : Sub \cup {Absent}],
         write' = [write EXCEPT ![w] = x], UNCHANGED call,
         sub' \in Sub, sub'.period >= sub.period,
         sub'.period = sub.period => sub'.plan = sub.plan,
         cache' \in Sub \cup {Absent}, cache' = cache \/ Seen(cache'),
         counter' \in [Periods -> Int],
         FirstPeriod => counter'[1] = counter[1],
         Seen(x.sub), WriterOK(x)'
  PROVE  MeterInv'
<1>1. MeterTypeOK' /\ (write \in [Writers -> [pc : WritePc, sub : Sub \cup {Absent}]])'
  BY DEF MeterInv, MeterTypeOK, WritePc
<1>2. \A y : Seen(y) => Seen(y)'
  BY SeenKept DEF MeterInv
<1>3. Seen(sub)'
  BY Bounds DEF MeterInv, Seen, MeterTypeOK, Sub, Periods
<1>4. Seen(cache)'
  <2>1. PICK y : y = cache'
    OBVIOUS
  <2>2. Seen(y)'
    BY <1>2, <2>1 DEF MeterInv
  <2> QED BY <2>1, <2>2 DEF Seen
<1>5. ASSUME NEW r \in Callers PROVE (LocalOK(call[r]) /\ Seen(call[r].sub) /\ Seen(call[r].unit))'
  <2>1. PICK q : q = call[r]
    OBVIOUS
  <2>2. LocalOK(q)' /\ Seen(q.sub)' /\ Seen(q.unit)'
    BY <1>2, <2>1 DEF MeterInv, LocalOK
  <2> QED BY <2>1, <2>2 DEF Seen, LocalOK
<1>6. ASSUME NEW v \in Writers PROVE (WriterOK(write[v]) /\ Seen(write[v].sub))'
  <2>1. PICK y \in [pc : WritePc, sub : Sub \cup {Absent}] : y = write'[v]
    BY <1>1
  <2>2. Seen(y.sub)'
    BY <1>2, <2>1 DEF MeterInv
  <2>3. WriterOK(y)'
    <3>1. CASE v = w
      BY <2>1, <3>1 DEF MeterInv
    <3>2. CASE v # w
      <4>1. WriterOK(y) /\ sub.period \in Nat /\ sub'.period \in Nat
        BY <2>1, <3>2 DEF MeterInv, MeterTypeOK, Sub, Periods
      <4>2. y.sub # Absent => y.sub.period \in Nat
        BY DEF Sub, Periods
      <4> QED BY <4>1, <4>2 DEF WriterOK
    <3> QED BY <3>1, <3>2
  <2> QED BY <2>1, <2>2, <2>3 DEF Seen, WriterOK
<1>7. Balance'
  <2>1. FirstPeriod' => FirstPeriod
    BY DEF FirstPeriod, MeterInv, MeterTypeOK, Sub, Periods
  <2>2. Owing' = Owing /\ Granted' = Granted
    BY DEF Owing, Granted, Owes
  <2> QED BY <2>1, <2>2 DEF MeterInv, Balance
<1> QED BY <1>1, <1>3, <1>4, <1>5, <1>6, <1>7 DEF MeterInv

LEMMA WriterIs ==
  ASSUME MeterInv, NEW w \in Writers
  PROVE  /\ write[w] \in [pc : WritePc, sub : Sub \cup {Absent}] /\ WriterOK(write[w])
         /\ Seen(write[w].sub) /\ Seen(Absent)
         /\ cache \in Sub \cup {Absent} /\ counter \in [Periods -> Int] /\ sub \in Sub /\ Seen(sub)
         /\ sub.period \in Nat /\ sub.period >= 1 /\ sub.period <= MaxPeriod /\ sub # Absent
BY Bounds DEF MeterInv, MeterTypeOK, Seen, Sub, Periods

\* A step that only changes where the writer is.
LEMMA WriterWalks ==
  ASSUME MeterInv, NEW w \in Writers, NEW pc \in WritePc, NEW s \in Sub \cup {Absent},
         Write(w, pc, s), UNCHANGED <<sub, counter, call>>,
         cache' \in Sub \cup {Absent}, cache' = cache \/ Seen(cache'), Seen(s),
         pc \in {"set", "advance", "delete", "invalidate"} => s # Absent,
         pc = "advance" => s.period < MaxPeriod,
         pc \in {"delete", "invalidate"} => s.period < sub.period
  PROVE  MeterInv'
<1>1. PICK x \in [pc : WritePc, sub : Sub \cup {Absent}] : x = [pc |-> pc, sub |-> s]
  OBVIOUS
<1>2. WriterOK(x)' /\ x.sub = s /\ write' = [write EXCEPT ![w] = x]
  BY <1>1 DEF WriterOK, Write
<1>3. /\ sub' \in Sub /\ sub'.period >= sub.period
      /\ sub'.period = sub.period => sub'.plan = sub.plan
      /\ counter' \in [Periods -> Int] /\ UNCHANGED call
      /\ FirstPeriod => counter'[1] = counter[1]
  BY WriterIs
<1> QED BY <1>2, <1>3, WriterStep

LEMMA ChangeSubOK ==
  ASSUME MeterInv, NEW w \in Writers, ChangeSub(w)
  PROVE  MeterInv'
<1>1. PICK x \in [pc : WritePc, sub : Sub \cup {Absent}] : x = [pc |-> "read", sub |-> Absent]
  BY DEF WritePc
<1>2. write' = [write EXCEPT ![w] = x] /\ UNCHANGED <<cache, counter, call>> /\ WriterOK(x)' /\ x.sub = Absent
  BY <1>1 DEF ChangeSub, Write, WriterOK
<1>3. /\ sub' \in Sub /\ sub'.period >= sub.period
      /\ sub'.period = sub.period => sub'.plan = sub.plan
  <2>1. CASE /\ sub.period < MaxPeriod
             /\ \E p \in {"HOBBY", "PAID"} :
                  sub' = [plan |-> p, active |-> TRUE, period |-> sub.period + 1]
    BY <2>1, WriterIs, Bounds DEF Sub, Periods
  <2>2. CASE sub' = [sub EXCEPT !.active = ~@]
    <3>1. PICK b \in BOOLEAN : b = ~sub.active
      OBVIOUS
    <3>2. sub \in Sub /\ sub' = [sub EXCEPT !.active = b]
      BY <2>2, <3>1, WriterIs
    <3>3. sub' \in Sub /\ sub'.period = sub.period /\ sub'.plan = sub.plan
      BY <3>2 DEF Sub
    <3> QED BY <3>3, WriterIs
  <2> QED BY <2>1, <2>2 DEF ChangeSub
<1> QED BY <1>2, <1>3, WriterIs, WriterStep

LEMMA ResetCommitOK ==
  ASSUME MeterInv, NEW w \in Writers, ResetCommit(w)
  PROVE  MeterInv'
<1>1. PICK old \in Sub : old = write[w].sub
  BY WriterIs DEF ResetCommit, WriterOK
<1>2. /\ write[w].pc = "advance" /\ UNCHANGED <<cache, counter, call>>
      /\ old # Absent /\ Seen(old) /\ old.period <= sub.period /\ old.period < MaxPeriod
      /\ old.period \in Nat
  BY <1>1, WriterIs, Bounds DEF ResetCommit, WriterOK, Seen, Sub, Periods
<1>3. CASE sub.period = old.period /\ sub' = [sub EXCEPT !.period = @ + 1] /\ Write(w, "delete", old)
  <2>1. sub' \in Sub /\ sub'.period = sub.period + 1
    BY <1>2, <1>3, WriterIs, Bounds DEF Sub, Periods
  <2>2. PICK x \in [pc : WritePc, sub : Sub \cup {Absent}] : x = [pc |-> "delete", sub |-> old]
    BY DEF WritePc
  <2>3. WriterOK(x)' /\ x.sub = old
    BY <1>2, <1>3, <2>1, <2>2, WriterIs DEF WriterOK
  <2>4. sub'.period >= sub.period /\ sub'.period # sub.period
    BY <2>1, WriterIs
  <2> QED BY <1>2, <1>3, <2>1, <2>2, <2>3, <2>4, WriterIs, WriterStep DEF Write
<1>4. CASE sub.period # old.period /\ UNCHANGED sub /\ Write(w, "delete", old)
  <2>1. old.period < sub.period
    BY <1>2, <1>4, WriterIs
  <2> QED BY <1>2, <1>4, <2>1, WriterIs, WriterWalks DEF WritePc
<1>5. CASE UNCHANGED sub /\ Write(w, "queued", Absent)
  BY <1>2, <1>5, WriterIs, WriterWalks DEF WritePc
<1> QED BY <1>1, <1>3, <1>4, <1>5 DEF ResetCommit

LEMMA ResetDeleteOK ==
  ASSUME MeterInv, NEW w \in Writers, ResetDelete(w)
  PROVE  MeterInv'
<1>1. PICK old \in Sub : old = write[w].sub
  BY WriterIs DEF ResetDelete, WriterOK
<1>2. /\ counter' = [counter EXCEPT ![old.period] = 0] /\ UNCHANGED <<sub, cache, call>>
      /\ Write(w, "invalidate", old) /\ write[w].pc = "delete"
  BY <1>1 DEF ResetDelete
<1>3. old.period < sub.period /\ old.period \in Periods /\ old.period >= 1 /\ Seen(old) /\ old # Absent
  BY <1>1, <1>2, WriterIs, Bounds DEF WriterOK, Sub, Periods
<1>4. counter' \in [Periods -> Int] /\ (FirstPeriod => counter'[1] = counter[1])
  BY <1>2, <1>3, WriterIs, Bounds DEF FirstPeriod, Periods
<1>5. PICK x \in [pc : WritePc, sub : Sub \cup {Absent}] : x = [pc |-> "invalidate", sub |-> old]
  BY DEF WritePc
<1>6. WriterOK(x)' /\ x.sub = old /\ write' = [write EXCEPT ![w] = x]
  BY <1>2, <1>3, <1>5 DEF WriterOK, Write
<1>7. /\ sub' \in Sub /\ sub'.period >= sub.period
      /\ sub'.period = sub.period => sub'.plan = sub.plan
      /\ cache' \in Sub \cup {Absent} /\ cache' = cache /\ UNCHANGED call
  BY <1>2, WriterIs
<1> QED BY <1>3, <1>4, <1>6, <1>7, WriterStep

LEMMA WritersWalk ==
  ASSUME MeterInv, NEW w \in Writers,
         \/ WarmRead(w) \/ WarmSet(w) \/ WarmFails(w) \/ ResetDispatch(w) \/ ResetRead(w)
         \/ ResetInvalidate(w) \/ ResetFails(w)
  PROVE  MeterInv'
<1>1. CASE WarmRead(w)
  BY <1>1, WriterIs, WriterWalks DEF WarmRead, WritePc
<1>2. CASE WarmSet(w)
  BY <1>2, WriterIs, WriterWalks DEF WarmSet, WritePc
<1>3. CASE WarmFails(w)
  BY <1>3, WriterIs, WriterWalks DEF WarmFails, WritePc
<1>4. CASE ResetDispatch(w)
  BY <1>4, WriterIs, WriterWalks DEF ResetDispatch, WritePc
<1>5. CASE ResetRead(w)
  BY <1>5, WriterIs, WriterWalks DEF ResetRead, WritePc
<1>6. CASE ResetInvalidate(w)
  BY <1>6, WriterIs, WriterWalks DEF ResetInvalidate, WritePc
<1>7. CASE ResetFails(w)
  BY <1>7, WriterIs, WriterWalks DEF ResetFails, WritePc
<1> QED BY <1>1, <1>2, <1>3, <1>4, <1>5, <1>6, <1>7

LEMMA StillOK ==
  ASSUME MeterInv, UNCHANGED <<sub, counter, call, write>>, cache' \in {cache, Absent}
  PROVE  MeterInv'
<1>1. \A x : Seen(x)' <=> Seen(x)
  BY DEF Seen
<1>2. Seen(cache)' /\ Seen(sub)' /\ cache' \in Sub \cup {Absent}
  BY DEF MeterInv, Seen, MeterTypeOK
<1>3. MeterTypeOK' /\ (write \in [Writers -> [pc : WritePc, sub : Sub \cup {Absent}]])'
  BY <1>2 DEF MeterInv, MeterTypeOK
<1>4. Balance'
  BY DEF MeterInv, Balance, FirstPeriod, Owing, Granted, Owes
<1>5. \A r \in Callers : (LocalOK(call[r]) /\ Seen(call[r].sub) /\ Seen(call[r].unit))'
  BY DEF MeterInv, LocalOK, Seen
<1>6. \A w \in Writers : (WriterOK(write[w]) /\ Seen(write[w].sub))'
  BY DEF MeterInv, WriterOK, Seen
<1> QED BY <1>2, <1>3, <1>4, <1>5, <1>6 DEF MeterInv

-----------------------------------------------------------------------------
(* The theorems.                                                           *)

LEMMA InitMeterInv == MeterInit => MeterInv
<1> SUFFICES ASSUME MeterInit PROVE MeterInv
  OBVIOUS
<1>1. sub \in Sub /\ sub.period = 1 /\ sub.plan = "HOBBY"
  BY Bounds DEF MeterInit, Sub
<1>2. \A r \in Callers : /\ call[r] \in Local /\ call[r].pc = "lookup" /\ call[r].back = "count"
                         /\ call[r].sub = Absent /\ call[r].unit = Absent /\ ~call[r].ran
  BY DEF MeterInit, Local
<1>3. \A w \in Writers : /\ write[w] \in [pc : WritePc, sub : Sub \cup {Absent}]
                         /\ write[w].pc = "idle" /\ write[w].sub = Absent
  BY DEF MeterInit, WritePc
<1>4. MeterTypeOK /\ write \in [Writers -> [pc : WritePc, sub : Sub \cup {Absent}]]
  <2>1. /\ call \in [Callers -> Local]
        /\ write \in [Writers -> [pc : WritePc, sub : Sub \cup {Absent}]]
    BY <1>2, <1>3 DEF MeterInit
  <2>2. counter \in [Periods -> Int] /\ cache \in Sub \cup {Absent}
    BY DEF MeterInit
  <2> QED BY <1>1, <1>3, <2>1, <2>2 DEF MeterTypeOK, WritePc
<1>5. Seen(sub) /\ Seen(Absent) /\ cache = Absent
  BY <1>1 DEF Seen, MeterInit
<1>6. Balance
  <2>1. Owing = {} /\ Granted = {}
    BY <1>2 DEF Owing, Granted, Owes
  <2>2. counter[1] = 0
    BY Bounds DEF MeterInit
  <2> QED BY <2>1, <2>2, FS_EmptySet, Bounds DEF Balance
<1> QED BY <1>2, <1>3, <1>4, <1>5, <1>6 DEF MeterInv, LocalOK, WriterOK

LEMMA NextMeterInv == MeterInv /\ [MeterNext]_meterVars => MeterInv'
<1> SUFFICES ASSUME MeterInv, [MeterNext]_meterVars PROVE MeterInv'
  OBVIOUS
<1>1. CASE Expire
  BY <1>1, StillOK DEF Expire
<1>2. ASSUME NEW r \in Callers, Handle(r) \/ ServeFails(r) \/ ReplyLost(r) \/ RedisDown(r)
      PROVE  MeterInv'
  BY <1>2, LookupOK, FetchOK, FillOK, PlainOK, CountOK, RefundOK, ServeFailsOK, ReplyLostOK DEF Handle
<1>3. ASSUME NEW w \in Writers,
             Maintain(w) \/ ChangeSub(w) \/ ResetDispatch(w) \/ WarmFails(w) \/ ResetFails(w)
      PROVE  MeterInv'
  BY <1>3, WritersWalk, ResetCommitOK, ResetDeleteOK, ChangeSubOK DEF Maintain
<1>4. CASE UNCHANGED meterVars
  BY <1>4, StillOK DEF meterVars
<1> QED BY <1>1, <1>2, <1>3, <1>4 DEF MeterNext

\* The counter is bounded by the requests that owe a unit and the ones that got one.
THEOREM MeterInvariance == MeterSpec => []MeterInv
BY InitMeterInv, NextMeterInv, PTL DEF MeterSpec

\* QuotaHolds (check_and_increment): until the period changes no more requests of a HOBBY
\* organization are served than its limit allows, whatever was retried, given back or lost.
THEOREM QuotaIsKept == MeterSpec => []QuotaHolds
<1>1. MeterInv => QuotaHolds
  <2> SUFFICES ASSUME MeterInv, FirstPeriod
               PROVE  Cardinality({r \in ServedIn(1) : call[r].unit.plan = "HOBBY"}) <= Limit
    BY DEF QuotaHolds
  <2>1. {r \in ServedIn(1) : call[r].unit.plan = "HOBBY"} \in SUBSET Owing /\ Owing \in SUBSET Callers
    BY DEF ServedIn, Owing, Owes, MeterInv, LocalOK, At
  <2>2. Cardinality({r \in ServedIn(1) : call[r].unit.plan = "HOBBY"}) <= Cardinality(Owing)
        /\ Cardinality({r \in ServedIn(1) : call[r].unit.plan = "HOBBY"}) \in Nat
        /\ Cardinality(Owing) \in Nat
    BY <2>1, SubsetCard
  <2>3. Cardinality(Owing) <= counter[1] /\ counter[1] <= Limit /\ counter[1] \in Int
    BY Bounds DEF MeterInv, Balance, MeterTypeOK
  <2> QED BY <2>2, <2>3, Bounds
<1> QED BY <1>1, MeterInvariance, PTL

\* CounterMatches (check_and_increment, rollback_increment): until the period changes every
\* unit in use is counted, and no request is charged twice.
THEOREM CounterIsBounded == MeterSpec => []CounterMatches
<1>1. MeterInv => CounterMatches
  <2> SUFFICES ASSUME MeterInv, FirstPeriod
               PROVE  /\ counter[1] >= Cardinality({r \in Callers : call[r].pc \in {"serve", "served"}})
                      /\ counter[1] <= Cardinality({r \in Callers : call[r].unit # Absent})
    BY DEF CounterMatches, MeterInv
  <2>1. {r \in Callers : call[r].pc \in {"serve", "served"}} \in SUBSET Owing
        /\ Owing \in SUBSET Callers
    BY DEF Owing, Owes, MeterInv, LocalOK
  <2>2. /\ Cardinality({r \in Callers : call[r].pc \in {"serve", "served"}}) <= Cardinality(Owing)
        /\ Cardinality({r \in Callers : call[r].pc \in {"serve", "served"}}) \in Nat
        /\ Cardinality(Owing) \in Nat
    BY <2>1, SubsetCard
  <2>3. /\ Cardinality(Owing) <= counter[1] /\ counter[1] \in Int
        /\ counter[1] <= Cardinality({r \in Callers : call[r].unit # Absent})
    BY Bounds DEF MeterInv, Balance, MeterTypeOK, Granted
  <2> QED BY <2>2, <2>3
<1> QED BY <1>1, MeterInvariance, PTL
===============================================================================
