------------------------------- MODULE Orders -------------------------------
(***************************************************************************)
(* The order vocabulary of okx_quant/domain/orders.py: the states an       *)
(* OrderIntent moves through, which of them are terminal, and the table    *)
(* of transitions that OrderIntent.transition accepts.                     *)
(***************************************************************************)
EXTENDS Naturals

Terminal == {"filled", "canceled", "rejected"}

\* States an intent can have once it is a row of order_intents.
DurableState ==
  {"persisted", "submitting", "acknowledged", "live", "partially_filled",
   "unknown", "manual_review"} \union Terminal

\* "created" is the state of an intent the database has never seen.
OrderState == {"created"} \union DurableState

\* What the exchange may report from any state that a request can be in.
Settled == {"partially_filled", "filled", "canceled"}
Reported == {"acknowledged", "live", "rejected"} \union Settled

AllowedTransitions ==
  [s \in OrderState |->
    CASE s = "created"          -> {"persisted"}
      [] s = "persisted"        -> {"submitting", "rejected"}
      [] s = "submitting"       -> Reported \union {"unknown"}
      [] s = "acknowledged"     -> Settled \union {"live", "unknown"}
      [] s = "live"             -> Settled \union {"unknown"}
      [] s = "partially_filled" -> Settled \union {"unknown"}
      [] s = "unknown"          -> Reported \union {"manual_review"}
      [] s = "manual_review"    -> Reported \union {"unknown"}
      [] OTHER                  -> {}]

\* Mutant: what a human is to review, no report may change.
CanTransition_ReviewIsFinal(from, to) ==
  \/ from = to
  \/ from # "manual_review" /\ to \in AllowedTransitions[from]

\* OrderIntent.transition: staying put is always accepted.
CanTransition(from, to) == from = to \/ to \in AllowedTransitions[from]

=============================================================================
