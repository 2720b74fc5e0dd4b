------------------------------ MODULE HardLatch ------------------------------
(***************************************************************************)
(* What the hard modes promise: trading is shut by any hard incident, and  *)
(* opened again only by an approval that began after the last of them.     *)
(***************************************************************************)
CONSTANT Approval

VARIABLES
  open,    \* may the mode allow new risk?
  current  \* approvals under way that no incident has overtaken

lvars == <<open, current>>

Init == open \in BOOLEAN /\ current = {}

Incident == open' = FALSE /\ current' = {}

Begin(a) == ~open /\ current' = current \union {a} /\ UNCHANGED open

Release(a) == a \in current /\ open' = TRUE /\ current' = current \ {a}

\* An approval that is withdrawn, expires or dies with its process.
Withdraw(S) == current' = current \ S /\ UNCHANGED open

Next ==
  \/ Incident
  \/ \E a \in Approval : Begin(a) \/ Release(a)
  \/ \E S \in SUBSET Approval : Withdraw(S)

Spec == Init /\ [][Next]_lvars

=============================================================================
