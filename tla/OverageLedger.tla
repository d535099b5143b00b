---------------------------- MODULE OverageLedger ----------------------------
(***************************************************************************)
(* What overage billing promises: units of overage are reserved once,      *)
(* become charges, and every charge becomes at most one invoice line.      *)
(***************************************************************************)
EXTENDS Integers

CONSTANT Categories

VARIABLES due,       \* units reserved so far, per category
          owed,      \* charges reserved and not yet invoiced
          invoiced   \* invoice lines: the charge each one is for, and its own id

vars == <<due, owed, invoiced>>

Zero == [c \in Categories |-> 0]

Init == due = Zero /\ owed = {} /\ invoiced = {}

\* A batch of new charges, none of them invoiced before: exactly one for each category
\* with new overage, for exactly the new units.
Reserve ==
  LET new == owed' \ owed IN
  /\ owed \subseteq owed'
  /\ \A o \in new : o.units > 0 /\ o.units = due'[o.cat] - due[o.cat]
  /\ \A o, p \in new : o.cat = p.cat => o = p
  /\ \A o \in new : \A l \in invoiced : l.charge # o
  /\ \A c \in Categories : due'[c] # due[c] => \E o \in new : o.cat = c
  /\ UNCHANGED invoiced

\* One new line for a charge that is owed, which is then settled for good.
Invoice(o) ==
  /\ owed' = owed \ {o}
  /\ \E l \in invoiced' : /\ l \notin invoiced /\ l.charge = o
                         /\ invoiced' = invoiced \cup {l}
  /\ UNCHANGED due

Next == Reserve \/ \E o \in owed : Invoice(o)

Spec == Init /\ [][Next]_vars
==============================================================================
