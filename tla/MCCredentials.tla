---------------------------- MODULE MCCredentials ----------------------------
EXTENDS Credentials, TLC
CONSTANTS o1, o2, u1, p0, k0
\* u1 created the first organization; the second is another tenant with a key and a
\* project of its own.
OneCreator == (o1 :> u1) @@ (o2 :> None)
OtherKey == [k \in Keys |-> IF k = k0 THEN o2 ELSE None]
OtherProject == [p \in Projects |-> IF p = p0 THEN o2 ELSE None]
Symmetry == Permutations(Keys \ {k0}) \cup Permutations(Projects \ {p0})
            \cup Permutations(Codes) \cup Permutations(Requests)
===============================================================================
