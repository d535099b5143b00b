---------------------------- MODULE MCTraceIngest ----------------------------
EXTENDS TraceIngest
CONSTANTS t1, t2, s1, s2, ses, usr, mod

Body(status, started, ended, session, user, output, tags, meta) ==
  [status |-> status, started |-> started, ended |-> ended, session |-> session,
   user |-> user, output |-> output, tags |-> tags, meta |-> meta]
NoSpans == [s \in {} |-> None]
OneSpan(s, t, started, model, tokens) ==
  [x \in {s} |-> [trace |-> t, started |-> started, model |-> model, tokens |-> tokens]]

\* A trace is announced and completed by two payloads; another one fails.
SdkPayloads ==
  { [trace |-> t1, row |-> Body("RUNNING", 0, None, ses, None, None, {"a"}, {"x"}),
     spans |-> NoSpans],
    [trace |-> t1, row |-> Body("COMPLETED", 0, TRUE, None, usr, TRUE, {"b"}, {"y"}),
     spans |-> OneSpan(s1, t1, 0, mod, 1)],
    [trace |-> t2, row |-> Body("ERROR", 1, TRUE, ses, None, None, {}, {}),
     spans |-> OneSpan(s2, t2, 1, None, 2)] }
LateSpan == { [span |-> s2, row |-> [trace |-> t1, started |-> 1, model |-> mod, tokens |-> None]] }
Edits ==
  { [set |-> {"meta", "status"}, val |-> [f \in Columns \ {"started"} |->
       IF f = "meta" THEN {"z"} ELSE IF f = "status" THEN "ERROR" ELSE None]],
    [set |-> {"session", "tags", "status"}, val |-> [f \in Columns \ {"started"} |->
       IF f = "tags" THEN {"b"} ELSE None]] }
SwapTags == { [add |-> {"a"}, remove |-> {"b"}], [add |-> {}, remove |-> {"a"}] }
===============================================================================
