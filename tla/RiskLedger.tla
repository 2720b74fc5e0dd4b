----------------------------- MODULE RiskLedger -----------------------------
(***************************************************************************)
(* What order handling promises, whatever is lost, delayed or restarted:   *)
(* an order is in the book before the exchange can see it, it is handed    *)
(* over at most once, and it leaves the book only when it can no longer    *)
(* fill.                                                                   *)
(***************************************************************************)
CONSTANT Order

VARIABLES
  book,     \* what the durable journal says of each order
  exposed,  \* orders that may fill now or later
  spent     \* orders that were handed to the transport

lvars == <<book, exposed, spent>>

Init ==
  /\ book = [o \in Order |-> "new"]
  /\ exposed = {} /\ spent = {}

Book(o) ==
  /\ book[o] = "new"
  /\ book' = [book EXCEPT ![o] = "booked"]
  /\ UNCHANGED <<exposed, spent>>

Send(o) ==
  /\ book[o] = "booked" /\ o \notin spent
  /\ exposed' = exposed \union {o}
  /\ spent' = spent \union {o}
  /\ UNCHANGED book

\* Filled, canceled, refused or lost on the way.
Close(o) ==
  /\ o \in exposed
  /\ exposed' = exposed \ {o}
  /\ UNCHANGED <<book, spent>>

Settle(o) ==
  /\ book[o] = "booked" /\ o \notin exposed
  /\ book' = [book EXCEPT ![o] = "settled"]
  /\ UNCHANGED <<exposed, spent>>

Next == \E o \in Order : Book(o) \/ Send(o) \/ Close(o) \/ Settle(o)

Spec == Init /\ [][Next]_lvars

=============================================================================
