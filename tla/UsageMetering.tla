---------------------------- MODULE UsageMetering ----------------------------
(***************************************************************************)
(* Quota enforcement on the hot path (UsageService): one organization, one *)
(* usage category.  Requests read the subscription through a Redis cache,  *)
(* count a unit with an atomic script, and give it back when the work they *)
(* were counted for fails; webhooks and the HOBBY reset change the         *)
(* subscription underneath.                                                *)
(*                                                                         *)
(* Every Redis command and every database transaction is one step.  The    *)
(* Redis client sends a command again once when its answer is lost.        *)
(***************************************************************************)
EXTENDS Integers, FiniteSets

CONSTANTS Callers,     \* API requests that use one unit each
          Writers,     \* webhook requests and reset tasks
          Absent,      \* no cache entry, no unit
          Limit,       \* the HOBBY plan's hard limit
          MaxPeriod,   \* bound: billing periods
          Enabled      \* bound: the faults and changes of this instance

VARIABLES
  sub,        \* the subscriptions row
  cache,      \* its copy in Redis
  counter,    \* the usage hashes, one per period
  call,       \* what each request is doing
  write       \* what each writer is doing

meterVars == <<sub, cache, counter, call, write>>

Periods == 1..MaxPeriod
Sub == [plan : {"HOBBY", "PAID"}, active : BOOLEAN, period : Periods]

ASSUME UsageAssumption ==
  /\ Limit \in Nat /\ MaxPeriod \in Nat \ {0}
  /\ Enabled \subseteq {"redis", "fail", "status", "plan", "reset"}
  /\ IsFiniteSet(Callers) /\ Absent \notin Sub

\* The subscription is looked up twice: before a unit is counted (back = "count") and
\* before it is given back (back = "refund").  unit is the subscription the unit was
\* counted for; ran says that the script has been executed and its answer lost.
Local == [pc : {"lookup", "fetch", "fill", "count", "serve", "refund",
                "served", "refused", "failed"},
          back : {"count", "refund"}, sub : Sub \cup {Absent},
          unit : Sub \cup {Absent}, ran : BOOLEAN]

MeterInit ==
  /\ sub = [plan |-> "HOBBY", active |-> TRUE, period |-> 1]
  /\ cache = Absent
  /\ counter = [p \in Periods |-> 0]
  /\ call = [r \in Callers |-> [pc |-> "lookup", back |-> "count", sub |-> Absent,
                                unit |-> Absent, ran |-> FALSE]]
  /\ write = [w \in Writers |-> [pc |-> "idle", sub |-> Absent]]

At(r, pc) == call[r].pc = pc
Go(r, local) == call' = [call EXCEPT ![r] = local]
Write(w, pc, s) == write' = [write EXCEPT ![w] = [pc |-> pc, sub |-> s]]

-----------------------------------------------------------------------------
(* _get_subscription_cached.                                               *)

Lookup(r) ==
  /\ At(r, "lookup")
  /\ Go(r, IF cache = Absent THEN [call[r] EXCEPT !.pc = "fetch"]
                             ELSE [call[r] EXCEPT !.pc = call[r].back, !.sub = cache])
  /\ UNCHANGED <<sub, cache, counter, write>>

\* The row is read, and stored in the cache later: it may change in between.
Fetch(r) ==
  /\ At(r, "fetch")
  /\ Go(r, [call[r] EXCEPT !.pc = "fill", !.sub = sub])
  /\ UNCHANGED <<sub, cache, counter, write>>

Fill(r) ==
  /\ At(r, "fill")
  /\ cache' = call[r].sub
  /\ Go(r, [call[r] EXCEPT !.pc = call[r].back])
  /\ UNCHANGED <<sub, counter, write>>

\* Mutant: the copy is stored without a TTL.
ExpireNever ==
  /\ FALSE
  /\ UNCHANGED meterVars

\* SUB_CACHE_TTL.
Expire ==
  /\ cache # Absent
  /\ cache' = Absent
  /\ UNCHANGED <<sub, counter, call, write>>

-----------------------------------------------------------------------------
(* check_and_increment and rollback_increment.                             *)

\* Mutant: the limit is compared before the increment.
AdmitsOneMore(s) == s.plan = "PAID" \/ counter[s.period] <= Limit

\* _CHECK_AND_INCREMENT_LUA: a unit of the period, if the plan has one left.
Admits(s) == s.plan = "PAID" \/ counter[s.period] + 1 <= Limit

\* The counters and the unit granted after the script ran, once more or first.
CountScript(r) ==
  LET s == call[r].sub IN
  IF call[r].ran
  THEN [counter |-> counter, unit |-> call[r].unit]
  ELSE IF Admits(s)
  THEN [counter |-> [counter EXCEPT ![s.period] = @ + 1], unit |-> s]
  ELSE [counter |-> counter, unit |-> Absent]

\* An inactive subscription is refused before the script.
Refuse(r) ==
  /\ At(r, "count") /\ ~call[r].sub.active
  /\ Go(r, [call[r] EXCEPT !.pc = "refused"])
  /\ UNCHANGED <<sub, cache, counter, write>>

Count(r) ==
  LET done == CountScript(r) IN
  /\ At(r, "count") /\ call[r].sub.active
  /\ counter' = done.counter
  /\ Go(r, [call[r] EXCEPT !.unit = done.unit, !.ran = FALSE,
                           !.pc = IF done.unit = Absent THEN "refused" ELSE "serve"])
  /\ UNCHANGED <<sub, cache, write>>

Serve(r) ==
  /\ At(r, "serve")
  /\ Go(r, [call[r] EXCEPT !.pc = "served"])
  /\ UNCHANGED <<sub, cache, counter, write>>

\* The caller's work fails: rollback_increment looks the subscription up again.
ServeFails(r) ==
  /\ "fail" \in Enabled /\ At(r, "serve")
  /\ Go(r, [call[r] EXCEPT !.pc = "lookup", !.back = "refund"])
  /\ UNCHANGED <<sub, cache, counter, write>>

\* Mutant: a repeated rollback takes a second unit.
RefundScriptAlways(r) == [counter EXCEPT ![call[r].sub.period] = @ - 1]

\* _ROLLBACK_INCREMENT_LUA: of the period the subscription has now.
RefundScript(r) ==
  IF call[r].ran THEN counter ELSE [counter EXCEPT ![call[r].sub.period] = @ - 1]

Refund(r) ==
  /\ At(r, "refund")
  /\ counter' = RefundScript(r)
  /\ Go(r, [call[r] EXCEPT !.pc = "failed", !.ran = FALSE])
  /\ UNCHANGED <<sub, cache, write>>

\* A script's answer is lost: it is sent again, then the call raises.
ReplyLost(r) ==
  LET done == CountScript(r) IN
  /\ "redis" \in Enabled
  /\ \/ /\ At(r, "count") /\ call[r].sub.active
        /\ counter' = done.counter
        /\ Go(r, [call[r] EXCEPT !.unit = done.unit, !.ran = TRUE,
                                 !.pc = IF call[r].ran THEN "failed" ELSE @])
     \/ /\ At(r, "refund")
        /\ counter' = RefundScript(r)
        /\ Go(r, [call[r] EXCEPT !.ran = TRUE, !.pc = IF call[r].ran THEN "failed" ELSE @])
  /\ UNCHANGED <<sub, cache, write>>

\* Redis is not reached: the request fails; a rollback is given up.
RedisDown(r) ==
  /\ "redis" \in Enabled
  /\ call[r].pc \in {"lookup", "fill", "count", "refund"}
  /\ Go(r, [call[r] EXCEPT !.pc = "failed"])
  /\ UNCHANGED <<sub, cache, counter, write>>

-----------------------------------------------------------------------------
(* The handlers that change the subscription.                              *)

\* A webhook's transaction: the plan changes, with a new period, or the status does.
ChangeSub(w) ==
  /\ write[w].pc = "idle"
  /\ \/ /\ "plan" \in Enabled /\ sub.period < MaxPeriod
        /\ \E p \in {"HOBBY", "PAID"} :
             sub' = [plan |-> p, active |-> TRUE, period |-> sub.period + 1]
     \/ /\ "status" \in Enabled
        /\ sub' = [sub EXCEPT !.active = ~@]
  /\ Write(w, "read", Absent)
  /\ UNCHANGED <<cache, counter, call>>

\* _warm_sub_cache: read the row again, store it.
WarmRead(w) ==
  /\ write[w].pc = "read"
  /\ Write(w, "set", sub)
  /\ UNCHANGED <<sub, cache, counter, call>>

WarmSet(w) ==
  /\ write[w].pc = "set"
  /\ cache' = write[w].sub
  /\ Write(w, "done", Absent)
  /\ UNCHANGED <<sub, counter, call>>

WarmFails(w) ==
  /\ "redis" \in Enabled /\ write[w].pc \in {"read", "set"}
  /\ Write(w, "done", Absent)
  /\ UNCHANGED <<sub, cache, counter, call>>

\* dispatch_hobby_reset finds the subscription due.
ResetDispatch(w) ==
  /\ "reset" \in Enabled /\ write[w].pc = "idle"
  /\ sub.plan = "HOBBY" /\ sub.active
  /\ Write(w, "queued", Absent)
  /\ UNCHANGED <<sub, cache, counter, call>>

\* _reset_single_hobby_org: read the row, whatever it is by now, advance the period
\* and commit, delete the old period's counters, drop the cached copy.
ResetRead(w) ==
  /\ write[w].pc = "queued" /\ sub.period < MaxPeriod
  /\ Write(w, "advance", sub)
  /\ UNCHANGED <<sub, cache, counter, call>>

\* When the period has changed since it was read, by a checkout there is nothing to
\* advance; by another reset the new usage record exists, and the task is retried.
ResetCommit(w) ==
  LET old == write[w].sub IN
  /\ write[w].pc = "advance"
  /\ \/ /\ sub.period = old.period
        /\ sub' = [sub EXCEPT !.period = @ + 1]
        /\ Write(w, "delete", old)
     \/ /\ sub.period # old.period /\ UNCHANGED sub
        /\ Write(w, "delete", old) \/ Write(w, "queued", Absent)
  /\ UNCHANGED <<cache, counter, call>>

ResetDelete(w) ==
  /\ write[w].pc = "delete"
  /\ counter' = [counter EXCEPT ![write[w].sub.period] = 0]
  /\ Write(w, "invalidate", write[w].sub)
  /\ UNCHANGED <<sub, cache, call>>

ResetInvalidate(w) ==
  /\ write[w].pc = "invalidate"
  /\ cache' = Absent
  /\ Write(w, "done", Absent)
  /\ UNCHANGED <<sub, counter, call>>

\* Redis is not reached: the task is retried from the start.
ResetFails(w) ==
  /\ "redis" \in Enabled /\ write[w].pc \in {"delete", "invalidate"}
  /\ Write(w, "queued", Absent)
  /\ UNCHANGED <<sub, cache, counter, call>>

-----------------------------------------------------------------------------

Handle(r) ==
  Lookup(r) \/ Fetch(r) \/ Fill(r) \/ Refuse(r) \/ Count(r) \/ Serve(r) \/ Refund(r)

Maintain(w) ==
  WarmRead(w) \/ WarmSet(w) \/ ResetRead(w) \/ ResetCommit(w) \/ ResetDelete(w) \/ ResetInvalidate(w)

MeterNext ==
  \/ Expire
  \/ \E r \in Callers : Handle(r) \/ ServeFails(r) \/ ReplyLost(r) \/ RedisDown(r)
  \/ \E w \in Writers :
       Maintain(w) \/ ChangeSub(w) \/ ResetDispatch(w) \/ WarmFails(w) \/ ResetFails(w)

MeterSpec == MeterInit /\ [][MeterNext]_meterVars

-----------------------------------------------------------------------------
(* Properties.                                                             *)

\* Types of the row, its copy, the counters and the requests.
MeterTypeOK ==
  /\ sub \in Sub
  /\ cache \in Sub \cup {Absent}
  /\ counter \in [Periods -> Int]
  /\ call \in [Callers -> Local]
  /\ \A w \in Writers :
       /\ write[w].pc \in {"idle", "read", "set", "queued", "advance", "delete", "invalidate", "done"}
       /\ write[w].sub \in Sub \cup {Absent}

ServedIn(p) == {r \in Callers : At(r, "served") /\ call[r].unit.period = p}

\* The period everything starts in, until a webhook or a reset ends it: a change of
\* period deletes counters and misdirects refunds, by design.
FirstPeriod == sub.period = 1

\* A HOBBY organization is never served beyond its limit in a period.
QuotaHolds ==
  FirstPeriod => Cardinality({r \in ServedIn(1) : call[r].unit.plan = "HOBBY"}) <= Limit

\* The types hold, and the counter is what was granted: every unit that is or will be
\* used is counted, and a request is charged one unit at most, however often its scripts
\* are sent, whatever is given back and whichever answers are lost.
CounterMatches ==
  /\ MeterTypeOK
  /\ FirstPeriod =>
       /\ counter[1] >= Cardinality({r \in Callers : call[r].pc \in {"serve", "served"}})
       /\ counter[1] <= Cardinality({r \in Callers : call[r].unit # Absent})

\* When the changes have ended, metering sees the current subscription for good, even
\* if the cache was filled with an older row or could not be refreshed.
CacheCatchesUp == <>[](cache \in {Absent, sub})

\* Fairness: requests and handlers go on, and keys expire.
FairMeterSpec ==
  /\ MeterSpec
  /\ WF_meterVars(Expire)
  /\ \A r \in Callers : WF_meterVars(Handle(r))
  /\ \A w \in Writers : WF_meterVars(Maintain(w))
==============================================================================
