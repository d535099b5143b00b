----------------------------- MODULE MCSessionEval -----------------------------
(* SessionEval with two sessions of one trace each.  TopK is the           *)
(* repository's, so of two traces the tail is one.                         *)
EXTENDS SessionEval, TLC
CONSTANTS t1, t2, s1, s2

Homes == (t1 :> s1) @@ (t2 :> s2)
Names == {"confidence", "tool_correctness"}
Defaults == [confidence |-> 10, tool_correctness |-> 8]
Overridden == [confidence |-> -5, tool_correctness |-> 8]
GivenWeights == {Defaults, Overridden, [confidence |-> 10, tool_correctness |-> -8]}
FirstSession == {[sessions |-> {s1}, weights |-> Overridden]}
Symmetric == Permutations(Workers) \cup Permutations(Runs)
================================================================================
