---------------------------- MODULE Protections ----------------------------
(***************************************************************************)
(* The vocabulary of protective orders in okx_quant/domain/orders.py: the  *)
(* states of a ProtectionOrder, the table ProtectionOrder.transition       *)
(* accepts, and the sets that the journal's queries select.                *)
(***************************************************************************)

ProtectionState ==
  {"required", "submitting", "active", "amending", "unknown", "failed",
   "triggered", "canceled", "emergency_exit"}

\* What map_exchange_algo_state can make of an order that the exchange has.
AlgoFact == {"active", "triggered", "canceled", "failed"}

\* list_protections(active_only=True).
Outstanding == {"required", "submitting", "active", "amending", "unknown"}

LOCAL Ended == {"triggered", "canceled"}

\* _ALLOWED_PROTECTION_TRANSITIONS, as pairs.
AllowedProtectionTransitions ==
  ({"required"} \X {"submitting", "failed"})
    \union ({"submitting"} \X ({"active", "unknown", "failed"} \union Ended))
    \union ({"active"} \X ({"amending", "unknown"} \union Ended))
    \union ({"amending"} \X ({"active", "unknown", "failed"} \union Ended))
    \union ({"unknown"} \X ({"active", "failed", "emergency_exit"} \union Ended))
    \union ({"failed"} \X ({"emergency_exit"} \union Ended))

\* ProtectionOrder.transition: staying put is always accepted.
CanMove(from, to) == from = to \/ <<from, to>> \in AllowedProtectionTransitions

=============================================================================
