------------------------------ MODULE MCOrders ------------------------------
(* OrderExecution on small sets of intents and instruments.                *)
EXTENDS OrderExecution, TLC

CONSTANTS b1, b2, b3, s1, x, y

\* Two BUYs compete for one instrument, a third one for cash and slots alone.
MCPair == [i \in Intent |-> IF i = b3 THEN y ELSE x]

\* The two are alike.
MCSymmetry == Permutations({b1, b2})

\* Every intent competes for one instrument.
MCOneInst == [i \in Intent |-> x]

=============================================================================
