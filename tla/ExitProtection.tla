--------------------------- MODULE ExitProtection ---------------------------
(***************************************************************************)
(* One instrument's position, the exchange-held OCO that protects it, and  *)
(* the exits that sell it: okx_quant/application/protection.py with the    *)
(* journal's rows, the reconciler's protection pass, and the watchdog of   *)
(* the runtime.                                                            *)
(*                                                                         *)
(* Whoever works on the position holds operation_lock; `op` is that        *)
(* thread, one step per call to the exchange and one per answer. The       *)
(* exchange and the watchdog take no lock. Quantities are lots; prices,    *)
(* dust and lot remainders are left out, and a price that                  *)
(* ensure_for_position refuses is a choice.                                *)
(***************************************************************************)
EXTENDS Protections, Naturals, FiniteSets, FiniteSetsExt

CONSTANTS
  MaxUnits,    \* lots all BUYs together may ask for
  MaxAsked,    \* bound: so many lots asked for, and there is no other BUY
  MaxProts,    \* rows of protective_orders
  MaxSells,    \* SELL orders, those of triggered protections included
  MaxFaults    \* lost and wrong answers, refusals, unasked cancellations and crashes

ASSUME ExitConstants ==
  /\ MaxUnits \in Nat \ {0} /\ MaxAsked \in Nat /\ MaxProts \in Nat \ {0} /\ MaxSells \in Nat \ {0}
  /\ MaxFaults \in Nat

Prots == 1..MaxProts
Sells == 1..MaxSells
Units == 0..MaxUnits

VARIABLES
  mode, position, buy, prot, sell, lease,  \* the journal
  base, xbuy, algo, xsell,                 \* the exchange
  op,                                      \* the holder of operation_lock
  watch, faults

journal == <<mode, position, buy, prot, sell, lease>>
exchange == <<base, xbuy, algo, xsell>>
vars == <<journal, exchange, op, watch, faults>>

-----------------------------------------------------------------------------
(* The thread. `pc` is what it does next, `ret` where a fill handler or    *)
(* cancel_all returns to, `ctx` who called ensure_for_position, `ans` how  *)
(* the last request was answered.                                          *)

Idle ==
  [pc |-> "idle", ret |-> "idle", ctx |-> "buy", k |-> 1, want |-> 0,
   ans |-> "ok", todo |-> {}, left |-> {}, ok |-> TRUE, free |-> FALSE, safe |-> TRUE,
   by |-> "strategy", result |-> "none"]

\* Every way things go wrong draws on one budget.
Fault == faults < MaxFaults /\ faults' = faults + 1

Go(p) == op' = [op EXCEPT !.pc = p]

\* Back to the caller; an operation that has none gives the lock back.
BackTo(o, r) == IF r = "idle" THEN Idle ELSE [o EXCEPT !.pc = r, !.k = 1, !.want = 0, !.ans = "ok"]

Return == op' = BackTo(op, op.ret)

At(p) == op.pc = p

\* set_mode(DEGRADED) leaves a hard mode alone.
Degrade == mode' = IF mode = "emergency" THEN mode ELSE "degraded"

Emergency == mode' = "emergency"

-----------------------------------------------------------------------------
(* What the journal and the exchange know.                                 *)

ActiveOnly == {k \in Prots : prot[k].state \in Outstanding}

Actives == {k \in Prots : prot[k].state = "active"}

FreeProts == {k \in Prots : prot[k].state = "none"}

FreeSells == {s \in Sells : sell[s].state = "none" /\ xsell[s].state = "none"}

PendingSells == {s \in Sells : sell[s].state \in {"submitting", "unknown", "live"}}

\* _position_fully_protected_from_journal.
FullyProtected ==
  /\ Cardinality(ActiveOnly) = 1
  /\ \A k \in ActiveOnly : prot[k].state = "active" /\ prot[k].qty = position

LiveAlgos == {k \in Prots : algo[k].state \in {"live", "canceling"}}

LiveSells == {s \in Sells : xsell[s].state = "live"}

\* The lots that open orders of the exchange have frozen: of each OCO and each SELL,
\* the numbers of the lots it has still to sell.
AlgoLots == {u \in LiveAlgos \X (1..MaxUnits) : u[2] <= algo[u[1]].qty}

SellLots ==
  {u \in LiveSells \X (1..MaxUnits) : xsell[u[1]].acc < u[2] /\ u[2] <= xsell[u[1]].qty}

Claimed == Cardinality(AlgoLots) + Cardinality(SellLots)

Available == IF Claimed < base THEN base - Claimed ELSE 0

\* get_algo_order: a cancellation that has only been accepted still reads as live.
AlgoView(k) ==
  IF algo[k].state \in {"live", "canceling"} THEN "active" ELSE algo[k].state

\* update_protection with everything the exchange says of k.
Store(k) == [state |-> AlgoView(k), qty |-> algo[k].qty, id |-> TRUE]

SetState(k, s) == prot' = [prot EXCEPT ![k].state = s]

-----------------------------------------------------------------------------
(* The exchange moves on by itself.                                        *)

XBuyFill ==
  /\ xbuy.live /\ xbuy.acc < xbuy.qty
  /\ xbuy' = [xbuy EXCEPT !.acc = @ + 1, !.live = xbuy.acc + 1 < xbuy.qty]
  /\ base' = base + 1
  /\ UNCHANGED <<journal, algo, xsell, op, watch, faults>>

XBuyEnds ==
  /\ xbuy.live /\ xbuy' = [xbuy EXCEPT !.live = FALSE] /\ Fault
  /\ UNCHANGED <<journal, base, algo, xsell, op, watch>>

\* A trigger price is reached: an ordinary SELL takes the place of the OCO.
XTrigger ==
  \E k \in LiveAlgos :
    /\ FreeSells # {}
    /\ algo' = [algo EXCEPT ![k].state = "triggered", ![k].child = Min(FreeSells)]
    /\ xsell' = [xsell EXCEPT
         ![Min(FreeSells)] = [state |-> "live", qty |-> algo[k].qty, acc |-> 0]]
    /\ UNCHANGED <<journal, base, xbuy, op, watch, faults>>

\* The OCO is canceled, on request or by the exchange, or fails to turn into an order.
XAlgoEnds ==
  \E k \in LiveAlgos :
    /\ \/ algo[k].state = "canceling" /\ algo' = [algo EXCEPT ![k].state = "canceled"]
          /\ UNCHANGED faults
       \/ Fault /\ \E s \in {"canceled", "failed"} : algo' = [algo EXCEPT ![k].state = s]
    /\ UNCHANGED <<journal, base, xbuy, xsell, op, watch>>

XSellFill ==
  \E s \in LiveSells :
    /\ xsell' = [xsell EXCEPT ![s].acc = @ + 1,
                   ![s].state = IF xsell[s].acc + 1 = xsell[s].qty THEN "filled" ELSE "live"]
    /\ base' = base - 1
    /\ UNCHANGED <<journal, xbuy, algo, op, watch, faults>>

XSellEnds ==
  \E s \in LiveSells :
    /\ xsell' = [xsell EXCEPT ![s].state = "canceled"]
    /\ Fault /\ UNCHANGED <<journal, base, xbuy, algo, op, watch>>

-----------------------------------------------------------------------------
(* ensure_for_position, for the lots in op.want.                           *)

\* The caller's `except`: a BUY's fill sells at once, a SELL's fill only stops
\* the system, a reconciliation notes the failure.
Raised ==
  /\ mode' = IF op.ctx = "rec" THEN mode ELSE "emergency"
  /\ IF op.ctx = "buy" THEN Go("esell") ELSE Return

EnsureRefused ==
  /\ At("ensure") /\ Raised /\ Fault
  /\ UNCHANGED <<position, buy, prot, sell, lease, exchange, watch>>

StartAmend(k) == op' = [op EXCEPT !.pc = "amend", !.k = k]

\* There is an ACTIVE row. A better stop is a reason to amend as well.
EnsureActive ==
  /\ At("ensure") /\ Actives # {}
  /\ LET k == Min(Actives) IN
       \/ prot[k].qty = op.want /\ Return /\ UNCHANGED prot
       \/ /\ prot[k].qty # op.want \/ op.ctx = "buy"
          /\ StartAmend(k) /\ SetState(k, "amending")
  /\ UNCHANGED <<mode, position, buy, sell, lease, exchange, watch, faults>>

\* Rows that must be settled before a second protection may be placed.
Unsettled == {k \in Prots : prot[k].state \in (Outstanding \ {"active"}) \union {"triggered"}}

EnsureBlocked ==
  /\ At("ensure") /\ Actives = {} /\ Unsettled # {}
  /\ LET k == Min(Unsettled)
         known == algo[k].state # "none" /\ CanMove(prot[k].state, AlgoView(k))
         asked == prot[k].state # "triggered" /\ known
     IN \/ Raised /\ UNCHANGED prot /\ IF asked THEN Fault ELSE UNCHANGED faults
        \/ /\ asked /\ UNCHANGED faults
           /\ IF AlgoView(k) = "active"
              THEN /\ prot' = [prot EXCEPT ![k] =
                                 [Store(k) EXCEPT !.state =
                                    IF algo[k].qty = op.want THEN "active" ELSE "amending"]]
                   /\ IF algo[k].qty = op.want THEN Return ELSE StartAmend(k)
                   /\ UNCHANGED mode
              ELSE prot' = [prot EXCEPT ![k] = Store(k)] /\ Raised
  /\ UNCHANGED <<position, buy, sell, lease, exchange, watch>>

\* A new row; without one left (MaxProts) the protection counts as refused.
EnsureNew ==
  /\ At("ensure") /\ Actives = {} /\ Unsettled = {}
  /\ IF FreeProts = {}
     THEN Emergency /\ Go("esell") /\ UNCHANGED prot
     ELSE LET k == Min(FreeProts) IN
          /\ prot' = [prot EXCEPT ![k] = [state |-> "required", qty |-> op.want, id |-> FALSE]]
          /\ op' = [op EXCEPT !.pc = "submit", !.k = k]
          /\ UNCHANGED mode
  /\ UNCHANGED <<position, buy, sell, lease, exchange, watch, faults>>

MarkSubmitting ==
  /\ At("submit") /\ SetState(op.k, "submitting") /\ Go("place")
  /\ UNCHANGED <<mode, position, buy, sell, lease, exchange, watch, faults>>

\* A request about k is answered a where `due` was the answer to expect.
AnswerFor(k, p, a, due) ==
  /\ op' = [op EXCEPT !.pc = p, !.k = k, !.ans = a]
  /\ IF a = due THEN UNCHANGED faults ELSE Fault

Answer(p, a, due) == AnswerFor(op.k, p, a, due)

\* How a write that took effect may be answered, and one that did not. "lost" is
\* what is_ambiguous_write_error calls ambiguous, "no" what it takes for a refusal:
\* the query that follows a write may fail with a business error of its own.
Answered == {"ok", "lost", "no"}
Unanswered == {"lost", "no"}

\* The exchange reports a state that map_exchange_algo_state has no name for.
Unmapped(k) == CanMove(prot[k].state, "unknown") /\ Fault

Place ==
  /\ At("place")
  /\ LET fits == op.want <= Available IN
       \/ /\ fits
          /\ \E a \in Answered :
               /\ Answer("placed", a, "ok")
               /\ algo' = [algo EXCEPT ![op.k] = [state |-> "live", qty |-> op.want,
                             past |-> {op.want}, child |-> 0, misread |-> a = "no"]]
       \/ /\ UNCHANGED algo
          /\ \E a \in Unanswered : Answer("placed", a, IF fits THEN "ok" ELSE "no")
  /\ UNCHANGED <<journal, base, xbuy, xsell, watch>>

\* _emergency: the row ends in EMERGENCY_EXIT, the lots are sold.
GiveUp ==
  /\ prot' = [prot EXCEPT ![op.k].state = "emergency_exit"]
  /\ Emergency /\ Go("esell")

PlacedSeen ==
  /\ At("placed") /\ op.ans # "no" /\ algo[op.k].state # "none"
  /\ \/ /\ AlgoView(op.k) \in {"active", "triggered"}
        /\ prot' = [prot EXCEPT ![op.k] = Store(op.k)]
        /\ IF AlgoView(op.k) = "triggered" /\ op.ans = "ok" THEN Degrade ELSE UNCHANGED mode
        /\ Return
     \/ /\ AlgoView(op.k) = "canceled" /\ prot' = [prot EXCEPT ![op.k] = Store(op.k)]
        \* _emergency_exit, or a transition that _emergency is refused
        /\ IF op.ans = "ok" THEN Emergency /\ Go("esell") ELSE Raised
     \/ AlgoView(op.k) = "failed" /\ GiveUp
  /\ UNCHANGED <<position, buy, sell, lease, exchange, watch, faults>>

\* Mutant: an OCO nobody can find was never placed.
PlacedUnresolved_Failed ==
  /\ At("placed") /\ op.ans = "lost"
  /\ SetState(op.k, "failed") /\ Emergency /\ Return
  /\ UNCHANGED <<position, buy, sell, lease, exchange, watch, faults>>

PlacedUnresolved ==
  /\ At("placed") /\ op.ans = "lost"
  /\ SetState(op.k, "unknown") /\ Emergency /\ Return
  /\ UNCHANGED <<position, buy, sell, lease, exchange, watch, faults>>

\* Taken for a refusal, or for an order in a state that has no name here, of which
\* the row then has the id.
PlacedRefused ==
  /\ At("placed") /\ op.ans = "no"
  /\ \E id \in {FALSE, algo[op.k].misread} :
       prot' = [prot EXCEPT ![op.k].state = "emergency_exit", ![op.k].id = id]
  /\ Emergency /\ Go("esell")
  /\ UNCHANGED <<position, buy, sell, lease, exchange, watch, faults>>

-----------------------------------------------------------------------------
(* _amend and _abort_amend_and_exit; the row op.k is AMENDING already.     *)

Amend ==
  /\ At("amend")
  /\ LET fits == algo[op.k].state = "live" /\ op.want <= algo[op.k].qty + Available IN
       \/ /\ fits
          /\ algo' = [algo EXCEPT ![op.k].qty = op.want, ![op.k].past = @ \union {op.want}]
          /\ \E a \in Answered : Answer("amended", a, "ok")
       \/ /\ UNCHANGED algo
          /\ \E a \in Unanswered : Answer("amended", a, IF fits THEN "ok" ELSE "no")
  /\ UNCHANGED <<journal, base, xbuy, xsell, watch>>

AmendSeen ==
  /\ At("amended") /\ op.ans # "no"
  /\ prot' = [prot EXCEPT ![op.k] = Store(op.k)]
  /\ IF AlgoView(op.k) = "triggered" THEN Degrade ELSE UNCHANGED mode
  /\ IF \/ AlgoView(op.k) = "triggered"
        \/ AlgoView(op.k) = "active" /\ algo[op.k].qty = op.want
     THEN Return ELSE Go("abort")
  /\ UNCHANGED <<position, buy, sell, lease, exchange, watch, faults>>

\* Refused, or unknown and not to be seen, or in a state that has no name here.
AmendFailed ==
  /\ At("amended") /\ Go("abort")
  /\ \/ op.ans = "lost" /\ SetState(op.k, "unknown") /\ UNCHANGED faults
     \/ op.ans = "no" /\ UNCHANGED <<prot, faults>>
     \/ /\ op.ans = "ok" /\ Unmapped(op.k)
        /\ prot' = [prot EXCEPT ![op.k] = [Store(op.k) EXCEPT !.state = "unknown"]]
  /\ UNCHANGED <<mode, position, buy, sell, lease, exchange, watch>>

CancelAlgo(k, p) ==
  LET fits == k \in LiveAlgos IN
    \/ /\ fits /\ algo' = [algo EXCEPT ![k].state = "canceling"]
       /\ \E a \in Answered : AnswerFor(k, p, a, "ok")
    \/ /\ UNCHANGED algo
       /\ \E a \in Unanswered : AnswerFor(k, p, a, IF fits THEN "ok" ELSE "no")

Abort ==
  /\ At("abort") /\ CancelAlgo(op.k, "aborted")
  /\ UNCHANGED <<journal, base, xbuy, xsell, watch>>

\* Only an OCO that is known to be canceled is followed by a SELL.
AbortSeen ==
  /\ At("aborted") /\ op.ans = "ok"
  /\ LET seen == AlgoView(op.k) IN
       IF ~CanMove(prot[op.k].state, seen) THEN Raised /\ UNCHANGED prot
       ELSE /\ prot' = [prot EXCEPT ![op.k] = Store(op.k)]
            /\ IF seen = "triggered" THEN Degrade ELSE Emergency
            /\ IF seen = "canceled" THEN Go("esell") ELSE Return
  /\ UNCHANGED <<position, buy, sell, lease, exchange, watch, faults>>

AbortFailed ==
  /\ At("aborted") /\ Emergency /\ Return
  /\ \/ op.ans # "ok" /\ ~CanMove(prot[op.k].state, "unknown") /\ UNCHANGED <<prot, faults>>
     \/ /\ SetState(op.k, "unknown")
        /\ IF op.ans = "ok" THEN Unmapped(op.k)
           ELSE CanMove(prot[op.k].state, "unknown") /\ UNCHANGED faults
  /\ UNCHANGED <<position, buy, sell, lease, exchange, watch>>

-----------------------------------------------------------------------------
(* SELLs. OrderExecution has the whole of ExecutionCoordinator.submit; here*)
(* a SELL is refused, taken (the ACK reports no fill), or unanswered, and  *)
(* then it is at the exchange or not.                                      *)

SubmitSell(s) ==
  \/ /\ op.want <= Available
     /\ xsell' = [xsell EXCEPT ![s] = [state |-> "live", qty |-> op.want, acc |-> 0]]
     /\ \/ sell' = [sell EXCEPT ![s].state = "live"] /\ UNCHANGED faults
        \/ sell' = [sell EXCEPT ![s].state = "unknown"] /\ Fault
  \/ UNCHANGED xsell /\ sell' = [sell EXCEPT ![s].state = "unknown"] /\ Fault

\* _submit_emergency_sell: sells the lots it was given, whatever else is open.
EmergencySell ==
  /\ At("esell") /\ Return
  /\ \/ UNCHANGED <<mode, sell, xsell, faults>>
     \/ /\ FreeSells # {} /\ SubmitSell(Min(FreeSells))
        /\ IF sell'[Min(FreeSells)].state = "unknown" THEN Degrade ELSE UNCHANGED mode
  /\ UNCHANGED <<position, buy, prot, lease, base, xbuy, algo, watch>>

\* Mutant: the fill is taken off whatever the position is.
SyncSell_NoFloor(s) ==
  /\ sell' = [sell EXCEPT ![s] = [state |-> xsell[s].state, acc |-> xsell[s].acc]]
  /\ position' = position - (xsell[s].acc - sell[s].acc)

\* apply_exchange_order of what the exchange says of s now.
SyncSell(s) ==
  /\ sell' = [sell EXCEPT ![s] = [state |-> xsell[s].state, acc |-> xsell[s].acc]]
  /\ LET sold == xsell[s].acc - sell[s].acc IN
       position' = IF sold < position THEN position - sold ELSE 0

\* The thread after on_fill for a SELL that leaves p lots, which returns to r.
AfterSell(o, p, r) ==
  IF p = 0 THEN [o EXCEPT !.pc = "cancel", !.left = ActiveOnly, !.ok = TRUE, !.ret = r]
  ELSE IF Actives # {}
  THEN [o EXCEPT !.pc = "ensure", !.ctx = "sell", !.want = p, !.ret = r]
  ELSE BackTo(o, r)

\* on_fill for a BUY.
AfterBuy(o, p, r) ==
  [o EXCEPT !.pc = "ensure", !.ctx = "buy", !.want = p, !.ret = r]

SyncBuy ==
  /\ buy' = [open |-> xbuy.live, acc |-> xbuy.acc]
  /\ position' = position + (xbuy.acc - buy.acc)

-----------------------------------------------------------------------------
(* cancel_all, over the rows in op.left.                                   *)

CancelNext ==
  /\ At("cancel")
  /\ IF op.left = {} THEN Return /\ UNCHANGED <<algo, faults>>
     ELSE IF prot[Min(op.left)].id THEN CancelAlgo(Min(op.left), "canceled")
     ELSE /\ op' = [op EXCEPT !.left = @ \ {Min(op.left)}, !.ok = FALSE]
          /\ UNCHANGED <<algo, faults>>
  /\ UNCHANGED <<journal, base, xbuy, xsell, watch>>

CancelAnswered ==
  /\ At("canceled")
  /\ LET k == op.k
         seen == AlgoView(k)
         Then(good) == op' = [op EXCEPT !.pc = "cancel", !.left = @ \ {k}, !.ok = @ /\ good]
     IN \/ /\ op.ans = "ok" /\ CanMove(prot[k].state, seen)
           /\ SetState(k, seen) /\ Then(seen # "triggered") /\ UNCHANGED faults
        \/ /\ op.ans = "ok" /\ Unmapped(k)
           /\ SetState(k, "unknown") /\ Then(TRUE)
        \/ /\ op.ans = "no" \/ ~CanMove(prot[k].state, seen)
           /\ SetState(k, "unknown") /\ Then(FALSE) /\ UNCHANGED faults
        \/ /\ op.ans = "lost" /\ UNCHANGED faults
           /\ \/ SetState(k, "unknown") /\ Then(FALSE)
              \/ prot' = [prot EXCEPT ![k] = Store(k)] /\ Then(seen = "canceled")
  /\ UNCHANGED <<mode, position, buy, sell, lease, exchange, watch>>

-----------------------------------------------------------------------------
(* exit_position. Its lease stays behind ("left") when the outcome is open.*)

Leave(r) == op' = [op EXCEPT !.pc = "xreturn", !.result = r]

\* A second exit of the watchdog is refused by a lease that is left, and tries later.
ExitBegin ==
  /\ At("idle")
  /\ \/ /\ lease = "free" /\ lease' = "mine"
        /\ \/ position > 0 /\ op' = [Idle EXCEPT !.pc = "xbuys"]
           \/ watch.task /\ op' = [Idle EXCEPT !.pc = "xbuys", !.by = "task"]
        /\ UNCHANGED watch
     \/ /\ lease # "free" /\ watch.task
        /\ watch' = [watch EXCEPT !.task = FALSE, !.reported = FALSE]
        /\ UNCHANGED <<lease, op>>
  /\ UNCHANGED <<mode, position, buy, prot, sell, exchange, faults>>

ExitResolvesBuy ==
  /\ At("xbuys")
  /\ \/ ~buy.open /\ Go("xsells") /\ UNCHANGED <<buy, position, faults>>
     \/ buy.open /\ Go("xopen") /\ Fault /\ UNCHANGED <<buy, position>>
     \/ /\ buy.open /\ SyncBuy /\ Go(IF xbuy.live THEN "xbuycancel" ELSE "xsells")
        /\ UNCHANGED faults
  /\ UNCHANGED <<mode, prot, sell, lease, exchange, watch>>

ExitCancelsBuy ==
  /\ At("xbuycancel")
  /\ xbuy' \in {xbuy, [xbuy EXCEPT !.live = FALSE]}
  /\ \E a \in {"ok", "lost"} : Answer("xbuyanswer", a, "ok")
  /\ UNCHANGED <<journal, base, algo, xsell, watch>>

ExitBuyAnswered ==
  /\ At("xbuyanswer")
  /\ IF op.ans = "lost" THEN Go("xopen") /\ UNCHANGED <<buy, position>>
     ELSE LET next == IF xbuy.live THEN "xopen" ELSE "xsells" IN
          /\ SyncBuy
          /\ IF xbuy.acc > buy.acc THEN op' = AfterBuy(op, position', next) ELSE Go(next)
  /\ UNCHANGED <<mode, prot, sell, lease, exchange, watch, faults>>

Rows == {k \in Prots : prot[k].state # "none"}

Settle(o, p) == [o EXCEPT !.pc = p, !.todo = Rows]

\* The first pending SELL; a FILLED one is the answer to this exit.
ExitResolvesSells ==
  /\ At("xsells")
  /\ \/ PendingSells = {} /\ op' = Settle(op, "xt1") /\ UNCHANGED <<sell, position, faults>>
     \/ /\ PendingSells # {}
        /\ LET s == Min(PendingSells) IN
             \/ /\ Go("xopen") /\ UNCHANGED <<sell, position>>
                /\ IF xsell[s].state = "none" THEN UNCHANGED faults ELSE Fault
             \/ /\ xsell[s].state # "none" /\ SyncSell(s) /\ UNCHANGED faults
                /\ \/ xsell[s].state = "live" /\ Go("xopen")
                   \/ xsell[s].state = "filled" /\ Leave("filled")
                   \/ xsell[s].state = "canceled" /\ UNCHANGED op
  /\ UNCHANGED <<mode, buy, prot, lease, exchange, watch>>

\* _settle_triggered_protection, a row at a time: a row without a trigger, or one
\* whose query fails, is skipped.
ExitSkipsRow ==
  /\ op.pc \in {"xt1", "xt2"} /\ op.todo # {}
  /\ LET k == Min(op.todo) IN
       /\ prot[k].state # "triggered"
       /\ IF prot[k].id /\ algo[k].state = "triggered" THEN Fault ELSE UNCHANGED faults
  /\ op' = [op EXCEPT !.todo = @ \ {Min(op.todo)}]
  /\ UNCHANGED <<journal, exchange, watch>>

ExitSeesTrigger ==
  /\ op.pc \in {"xt1", "xt2"} /\ op.todo # {}
  /\ LET k == Min(op.todo) IN
       /\ prot[k].state # "triggered" /\ prot[k].id /\ algo[k].state = "triggered"
       /\ IF CanMove(prot[k].state, "triggered")
          THEN SetState(k, "triggered") /\ Degrade /\ UNCHANGED op
          ELSE Leave("raised") /\ UNCHANGED <<mode, prot>>
  /\ UNCHANGED <<position, buy, sell, lease, exchange, watch, faults>>

\* Mutant: only a FILLED trigger stands in the way of another SELL.
ExitSettlesTrigger_LiveGoesOn ==
  /\ op.pc \in {"xt1", "xt2"} /\ op.todo # {}
  /\ prot[Min(op.todo)].state = "triggered"
  /\ \/ Go("xopen") /\ Fault /\ UNCHANGED <<mode, sell, position>>
     \/ LET s == algo[Min(op.todo)].child
            on == [op EXCEPT !.todo = @ \ {Min(op.todo)},
                             !.result = IF xsell[s].state = "filled" THEN "filled" ELSE "none"]
            next == IF xsell[s].state = "filled" THEN "xreturn" ELSE op.pc
        IN /\ SyncSell(s) /\ Degrade /\ UNCHANGED faults
           /\ op' = IF xsell[s].acc > sell[s].acc THEN AfterSell(on, position', next)
                    ELSE [on EXCEPT !.pc = next]
  /\ UNCHANGED <<buy, prot, lease, exchange, watch>>

\* The SELL that the trigger made is imported like any fill.
ExitSettlesTrigger ==
  /\ op.pc \in {"xt1", "xt2"} /\ op.todo # {}
  /\ prot[Min(op.todo)].state = "triggered"
  /\ \/ Go("xopen") /\ Fault /\ UNCHANGED <<mode, sell, position>>
     \/ LET s == algo[Min(op.todo)].child
            on == [op EXCEPT !.todo = @ \ {Min(op.todo)},
                             !.result = IF xsell[s].state = "filled" THEN "filled" ELSE "none"]
            next == IF xsell[s].state = "live" THEN "xopen"
                    ELSE IF xsell[s].state = "filled" THEN "xreturn" ELSE op.pc
        IN /\ SyncSell(s) /\ Degrade /\ UNCHANGED faults
           /\ op' = IF xsell[s].acc > sell[s].acc THEN AfterSell(on, position', next)
                    ELSE [on EXCEPT !.pc = next]
  /\ UNCHANGED <<buy, prot, lease, exchange, watch>>

ExitCancelsAll ==
  /\ At("xt1") /\ op.todo = {}
  /\ op' = [op EXCEPT !.pc = "cancel", !.left = ActiveOnly, !.ok = TRUE, !.ret = "xcanceled"]
  /\ UNCHANGED <<journal, exchange, watch, faults>>

ExitCanceled ==
  /\ At("xcanceled") /\ op' = [Settle(op, "xt2") EXCEPT !.free = op.ok]
  /\ UNCHANGED <<journal, exchange, watch, faults>>

\* What is left of the position, and of it what no order claims.
ExitCounts ==
  /\ At("xt2") /\ op.todo = {}
  /\ IF ~op.free THEN Degrade /\ Leave("raised")
     ELSE IF position = 0 THEN Leave("other") /\ UNCHANGED mode
     ELSE IF Available = 0 THEN Degrade /\ Leave("raised")
     ELSE /\ op' = [op EXCEPT !.pc = "xsell",
                      !.want = IF position < Available THEN position ELSE Available]
          /\ UNCHANGED mode
  /\ UNCHANGED <<position, buy, prot, sell, lease, exchange, watch, faults>>

\* No SELL is FILLED when submit returns: the ACK says nothing of fills.
ExitSell ==
  /\ At("xsell") /\ Emergency
  /\ \/ Leave("other") /\ UNCHANGED <<sell, xsell, faults>>
     \/ /\ FreeSells # {} /\ SubmitSell(Min(FreeSells))
        /\ Leave(IF sell'[Min(FreeSells)].state = "unknown" THEN "open" ELSE "other")
  /\ UNCHANGED <<position, buy, prot, lease, base, xbuy, algo, watch>>

\* The watchdog's task takes FILLED for done, and for nothing else stops trying.
ExitReturn ==
  /\ op.pc \in {"xreturn", "xopen"} /\ op' = Idle
  /\ LET result == IF At("xopen") THEN "open" ELSE op.result IN
       /\ IF At("xopen") THEN Degrade ELSE UNCHANGED mode
       /\ lease' = IF lease # "mine" THEN lease ELSE IF result = "open" THEN "left" ELSE "free"
       /\ watch' = IF op.by = "task"
                   THEN [watch EXCEPT !.task = FALSE, !.reported = result = "filled" /\ @]
                   ELSE watch
  /\ UNCHANGED <<position, buy, prot, sell, exchange, faults>>

\* acquire_exit_lease deletes a lease of 30 seconds ago. That one goes
\* while its holder works is left out: who could take it waits for the holder's lock.
LeaseExpires ==
  /\ lease = "left" /\ lease' = "free"
  /\ UNCHANGED <<mode, position, buy, prot, sell, exchange, op, watch, faults>>

\* _page_exit_deadline, a timer of its own: the exit still holds its lease.
ExitDeadline ==
  /\ lease = "mine" /\ mode = "ready" /\ Degrade
  /\ UNCHANGED <<position, buy, prot, sell, lease, exchange, op, watch, faults>>

-----------------------------------------------------------------------------
(* Reconciler.run, up to its verdict. `want` is the balance it read first, *)
(* `todo` the pending OCOs it read, `left` the rows still to look at.      *)

RecBegin ==
  /\ op.pc \in {"idle", "restarted"}
  /\ op' = [Idle EXCEPT !.pc = "rorders", !.ctx = "rec", !.want = base]
  /\ UNCHANGED <<journal, exchange, watch, faults>>

\* Orders the lists of pending orders and of fills show, and those the journal
\* still asks for.
Visible ==
  {s \in Sells : xsell[s].state # "none" /\
     (xsell[s].state = "live" \/ xsell[s].acc > 0 \/ sell[s].state # "none")}

Children == {algo[k].child : k \in Prots} \ {0}

\* The detail of an order that is no longer pending may be out of reach. The
\* position becomes what the balance said. A triggered SELL met for the first
\* time, or still open, is not safe; one of its own that is open is.
RecOrders ==
  /\ At("rorders")
  /\ \E M \in SUBSET {s \in Visible : xsell[s].state # "live"}, seen \in {TRUE, xbuy.live} :
       /\ sell' = [s \in Sells |-> IF s \in Visible \ M
                     THEN [state |-> xsell[s].state, acc |-> xsell[s].acc] ELSE sell[s]]
       /\ IF M = {} /\ seen THEN UNCHANGED faults ELSE Fault
       /\ buy' = IF seen THEN [open |-> xbuy.live, acc |-> xbuy.acc] ELSE buy
       /\ op' = [op EXCEPT !.pc = "ralgos", !.want = 0, !.safe =
            /\ M = {} /\ seen
            /\ PendingSells \subseteq Visible
            /\ \A s \in Children \intersect Visible :
                 sell[s].state # "none" /\ xsell[s].state # "live"]
  /\ position' = op.want
  /\ UNCHANGED <<mode, prot, lease, exchange, watch>>

\* ProtectionManager.reconcile: what is pending at the exchange,
RecAlgos ==
  /\ At("ralgos")
  /\ op' = [op EXCEPT !.pc = "rremote", !.ret = "rremote", !.left = LiveAlgos,
              !.todo = LiveAlgos, !.safe = @ /\ Cardinality(LiveAlgos) <= 1]
  /\ UNCHANGED <<journal, exchange, watch, faults>>

Looked(good) == op' = [op EXCEPT !.left = @ \ {Min(op.left)}, !.safe = @ /\ good]

RecRemote ==
  /\ At("rremote") /\ op.left # {}
  /\ LET k == Min(op.left)
         legal == CanMove(prot[k].state, "active")
     IN \/ position = 0 /\ CancelAlgo(k, "rcanceled") /\ UNCHANGED prot
        \/ /\ position > 0 /\ Looked(TRUE) /\ Unmapped(k) /\ UNCHANGED algo
           /\ prot' = [prot EXCEPT ![k] = [state |-> "unknown", qty |-> algo[k].qty, id |-> TRUE]]
        \/ /\ position > 0 /\ Looked(legal) /\ UNCHANGED <<algo, faults>>
           /\ prot' = IF legal
                      THEN [prot EXCEPT ![k] = [state |-> "active", qty |-> algo[k].qty, id |-> TRUE]]
                      ELSE prot
  /\ UNCHANGED <<mode, position, buy, sell, lease, base, xbuy, xsell, watch>>

\* An orphan's cancellation.
RecCanceled ==
  /\ At("rcanceled")
  /\ LET good == op.ans = "ok" /\ CanMove(prot[op.k].state, AlgoView(op.k))
         Then(safe) == op' = [op EXCEPT !.pc = op.ret, !.left = @ \ {op.k}, !.safe = @ /\ safe]
     IN \/ /\ IF good THEN SetState(op.k, AlgoView(op.k)) ELSE UNCHANGED prot
           /\ Then(good) /\ UNCHANGED faults
        \/ op.ans = "ok" /\ Unmapped(op.k) /\ SetState(op.k, "unknown") /\ Then(TRUE)
  /\ UNCHANGED <<mode, position, buy, sell, lease, exchange, watch>>

RecRemoteDone ==
  /\ At("rremote") /\ op.left = {}
  /\ op' = [op EXCEPT !.pc = "rlocal", !.ret = "rlocal", !.left = Rows,
              !.safe = @ /\ Cardinality(ActiveOnly) <= 1]
  /\ UNCHANGED <<journal, exchange, watch, faults>>

\* and what the journal has.
RecLocal ==
  /\ At("rlocal") /\ op.left # {}
  /\ LET k == Min(op.left)
         s == prot[k].state
         open == s \in Outstanding \ {"required"}
         known == algo[k].state # "none" /\ CanMove(s, AlgoView(k))
     IN \/ /\ open /\ position = 0 /\ UNCHANGED prot
           /\ IF prot[k].id THEN CancelAlgo(k, "rcanceled")
              ELSE Looked(FALSE) /\ UNCHANGED <<algo, faults>>
        \/ /\ open /\ position > 0 /\ k \notin op.todo /\ UNCHANGED algo
           /\ \/ Looked(FALSE) /\ UNCHANGED prot /\ IF known THEN Fault ELSE UNCHANGED faults
              \/ /\ known /\ Looked(AlgoView(k) = "active") /\ UNCHANGED faults
                 /\ prot' = [prot EXCEPT ![k] = Store(k)]
        \/ /\ ~open \/ (position > 0 /\ k \in op.todo)
           /\ Looked(s = "triggered" => position = 0)
           /\ IF s = "required" THEN SetState(k, "failed") ELSE UNCHANGED prot
           /\ UNCHANGED <<algo, faults>>
  /\ UNCHANGED <<mode, position, buy, sell, lease, base, xbuy, xsell, watch>>

\* A position without its protection is given one, when there is a fresh price.
RecLocalDone ==
  /\ At("rlocal") /\ op.left = {}
  /\ LET repair == [op EXCEPT !.pc = "ensure", !.want = position, !.ret = "rend"]
         end == [op EXCEPT !.pc = "rend"]
     IN op' \in IF position > 0 /\ ~FullyProtected THEN {repair, end} ELSE {end}
  /\ UNCHANGED <<journal, exchange, watch, faults>>

\* Mutant: the verdict leaves out the position the repair did not protect.
RecEnd_NoPosition ==
  /\ At("rend") /\ op' = Idle
  /\ mode' = IF mode = "emergency" THEN mode ELSE IF op.safe THEN "ready" ELSE "degraded"
  /\ UNCHANGED <<position, buy, prot, sell, lease, exchange, watch, faults>>

RecEnd ==
  /\ At("rend") /\ op' = Idle
  /\ mode' = IF mode = "emergency" THEN mode
             ELSE IF op.safe /\ (position > 0 => FullyProtected) THEN "ready" ELSE "degraded"
  /\ UNCHANGED <<position, buy, prot, sell, lease, exchange, watch, faults>>

-----------------------------------------------------------------------------
(* The private streams, one message under the lock. An order's message may *)
(* be older than what REST has answered; it then changes nothing.          *)

BuyNews ==
  /\ At("idle")
  /\ \E a \in buy.acc..xbuy.acc, ended \in {FALSE, ~xbuy.live} :
       /\ ended => a = xbuy.acc
       /\ buy.open /\ (ended \/ a > buy.acc)
       /\ buy' = [open |-> ~ended, acc |-> a]
       /\ position' = position + (a - buy.acc)
       /\ op' = IF a > buy.acc THEN AfterBuy(Idle, position', "idle") ELSE op
  /\ UNCHANGED <<mode, prot, sell, lease, exchange, watch, faults>>

\* The SELL of a triggered OCO is nobody's at first: import_external_update.
SellNews ==
  /\ At("idle")
  /\ \E s \in Sells :
       /\ xsell[s].state # "none"
       /\ sell[s].state # xsell[s].state \/ sell[s].acc # xsell[s].acc
       /\ SyncSell(s)
       /\ IF sell[s].state = "none" THEN Degrade ELSE UNCHANGED mode
       /\ op' = IF xsell[s].acc > sell[s].acc THEN AfterSell(Idle, position', "idle") ELSE op
  /\ UNCHANGED <<buy, prot, lease, exchange, watch, faults>>

\* process_algo_events: a state the row cannot take stops new risk; losing an
\* ACTIVE protection is an emergency. ACTIVE to FAILED goes by way of UNKNOWN.
AlgoNews ==
  /\ At("idle")
  /\ \E k \in Prots :
     \E n \in ({"active"} \X algo[k].past) \union ({AlgoView(k), "unknown"} \X {algo[k].qty}) :
       /\ AlgoView(k) # "none"
       /\ IF n[1] = "unknown" THEN Fault ELSE UNCHANGED faults
       /\ LET was == prot[k].state
              lost == was = "active" /\ n[1] \in {"canceled", "failed", "unknown"}
          IN IF CanMove(was, n[1]) \/ lost
             THEN /\ prot' = [prot EXCEPT ![k] = [state |-> n[1], qty |-> n[2], id |-> TRUE]]
                  /\ IF lost /\ position > 0
                     THEN Emergency /\ watch' = [watch EXCEPT !.since = TRUE]
                     ELSE UNCHANGED <<mode, watch>>
             ELSE Degrade /\ UNCHANGED <<prot, watch>>
  /\ UNCHANGED <<position, buy, sell, lease, exchange, op>>

-----------------------------------------------------------------------------
(* _enforce_unprotected_deadline, in a thread that takes no lock.          *)

Unprotected == position > 0 /\ ~FullyProtected

WatchDetects ==
  /\ Unprotected /\ ~watch.since
  /\ watch' = [watch EXCEPT !.since = TRUE] /\ Emergency
  /\ UNCHANGED <<position, buy, prot, sell, lease, exchange, op, faults>>

WatchDeadline ==
  /\ Unprotected /\ watch.since /\ ~watch.reported
  /\ watch' = [watch EXCEPT !.reported = TRUE, !.task = TRUE] /\ Emergency
  /\ UNCHANGED <<position, buy, prot, sell, lease, exchange, op, faults>>

WatchClears ==
  /\ ~Unprotected /\ watch.since
  /\ watch' = [watch EXCEPT !.since = FALSE, !.reported = FALSE]
  /\ UNCHANGED <<journal, exchange, op, faults>>

-----------------------------------------------------------------------------
(* The strategy, the operator, and the machine.                            *)

NewBuy ==
  /\ At("idle") /\ mode = "ready" /\ ~buy.open /\ PendingSells = {}
  /\ xbuy.asked < MaxAsked
  /\ \E q \in 1..(MaxUnits - xbuy.asked) :
       /\ buy' = [open |-> TRUE, acc |-> 0]
       /\ xbuy' = [qty |-> q, acc |-> 0, live |-> TRUE, asked |-> xbuy.asked + q]
  /\ UNCHANGED <<mode, position, prot, sell, lease, base, algo, xsell, op, watch, faults>>

\* _flatten_and_cancel, then an operator's resume, whose last step is RecEnd's.
Flatten ==
  /\ At("idle") /\ mode = "emergency"
  /\ base = 0 /\ ~xbuy.live /\ LiveSells = {} /\ LiveAlgos = {}
  /\ mode' = "degraded" /\ position' = 0
  /\ UNCHANGED <<buy, prot, sell, lease, exchange, op, watch, faults>>

\* Killed between any two steps, and started again: the first reconciliation.
Crash ==
  /\ Fault
  /\ op' = [Idle EXCEPT !.pc = "restarted"]
  /\ watch' = [since |-> FALSE, reported |-> FALSE, task |-> FALSE]
  /\ lease' = IF lease = "free" THEN lease ELSE "left"
  /\ Degrade
  /\ UNCHANGED <<position, buy, prot, sell, exchange>>

-----------------------------------------------------------------------------
Init ==
  /\ mode = "ready" /\ position = 0 /\ base = 0 /\ lease = "free" /\ faults = 0
  /\ buy = [open |-> FALSE, acc |-> 0]
  /\ xbuy = [qty |-> 0, acc |-> 0, live |-> FALSE, asked |-> 0]
  /\ prot = [k \in Prots |-> [state |-> "none", qty |-> 0, id |-> FALSE]]
  /\ algo = [k \in Prots |-> [state |-> "none", qty |-> 0, past |-> {}, child |-> 0, misread |-> FALSE]]
  /\ sell = [s \in Sells |-> [state |-> "none", acc |-> 0]]
  /\ xsell = [s \in Sells |-> [state |-> "none", qty |-> 0, acc |-> 0]]
  /\ op = Idle
  /\ watch = [since |-> FALSE, reported |-> FALSE, task |-> FALSE]

Exchange == XBuyFill \/ XBuyEnds \/ XTrigger \/ XAlgoEnds \/ XSellFill \/ XSellEnds

Protect ==
  \/ EnsureRefused \/ EnsureActive \/ EnsureBlocked \/ EnsureNew \/ MarkSubmitting
  \/ Place \/ PlacedSeen \/ PlacedUnresolved \/ PlacedRefused
  \/ Amend \/ AmendSeen \/ AmendFailed \/ Abort \/ AbortSeen \/ AbortFailed
  \/ EmergencySell \/ CancelNext \/ CancelAnswered

Exit ==
  \/ ExitResolvesBuy \/ ExitCancelsBuy \/ ExitBuyAnswered
  \/ ExitResolvesSells \/ ExitSkipsRow \/ ExitSeesTrigger \/ ExitSettlesTrigger
  \/ ExitCancelsAll \/ ExitCanceled \/ ExitCounts \/ ExitSell \/ ExitReturn

Reconcile ==
  \/ RecOrders \/ RecAlgos \/ RecRemote \/ RecCanceled \/ RecRemoteDone
  \/ RecLocal \/ RecLocalDone \/ RecEnd

Watchdog == WatchDetects \/ WatchDeadline \/ WatchClears

Next ==
  \/ Exchange \/ Protect \/ Exit \/ Reconcile \/ Watchdog
  \/ ExitBegin \/ RecBegin \/ BuyNews \/ SellNews \/ AlgoNews \/ NewBuy \/ Flatten
  \/ LeaseExpires \/ ExitDeadline \/ Crash

Spec == Init /\ [][Next]_vars

-----------------------------------------------------------------------------
PC ==
  {"idle", "restarted", "ensure", "submit", "place", "placed", "amend", "amended",
   "abort", "aborted", "esell", "cancel", "canceled", "xopen", "xbuys", "xbuycancel",
   "xbuyanswer", "xsells", "xt1", "xt2", "xcanceled", "xsell", "xreturn", "rorders",
   "ralgos", "rremote", "rcanceled", "rlocal", "rend"}

\* Every variable stays in its type: the states of domain/orders.py, quantities
\* that no rounding or subtraction makes negative, and a thread somewhere.
TypeOK ==
  /\ mode \in {"ready", "degraded", "emergency"}
  /\ lease \in {"free", "mine", "left"}
  /\ position \in Nat /\ base \in Nat /\ faults \in 0..MaxFaults
  /\ buy \in [open : BOOLEAN, acc : Nat]
  /\ xbuy \in [qty : Nat, acc : Nat, live : BOOLEAN, asked : Nat]
  /\ prot \in [Prots -> [state : ProtectionState \union {"none"}, qty : Nat, id : BOOLEAN]]
  /\ algo \in [Prots -> [state : {"none", "live", "canceling", "triggered", "canceled", "failed"},
                         qty : Nat, past : SUBSET Nat, child : Sells \union {0},
                         misread : BOOLEAN]]
  /\ sell \in [Sells -> [state : {"none", "unknown", "live", "filled", "canceled"}, acc : Nat]]
  /\ xsell \in [Sells -> [state : {"none", "live", "filled", "canceled"}, qty : Nat, acc : Nat]]
  /\ op \in [pc : PC, ret : PC, ctx : {"buy", "sell", "rec"}, k : Prots, want : Nat,
             ans : {"ok", "lost", "no"}, todo : SUBSET Prots, left : SUBSET Prots,
             ok : BOOLEAN, free : BOOLEAN, safe : BOOLEAN, by : {"strategy", "task"},
             result : {"none", "open", "filled", "raised", "other"}]
  /\ watch \in [since : BOOLEAN, reported : BOOLEAN, task : BOOLEAN]

\* OCOs given up though they were placed: the detail query after the POST failed with
\* a business error, or showed a state without a name.
Forgotten == {k \in LiveAlgos : algo[k].misread /\ prot[k].state = "emergency_exit"}

\* Whatever answers are lost or wrong, an OCO that is live at the exchange has its row
\* among those that the next restart, exit or fill looks at, and there is one such OCO
\* at most. The one way past that is a placement whose detail query goes wrong; while
\* an OCO forgotten that way is live, nobody declares the system READY.
\* (list_protections(active_only=True), ensure_for_position, place_protection_order.)
LiveAlgosTracked ==
  /\ Cardinality(LiveAlgos \ Forgotten) <= 1
  /\ \A k \in LiveAlgos \ Forgotten : prot[k].state \in Outstanding
  /\ Forgotten # {} => mode # "ready"

\* When an exit submits its SELL no earlier SELL of the instrument is undecided,
\* every trigger it knows has come to nothing, and it asks for no lot that an open
\* order has claimed: the lease plays no part in it.
ExitSellsAlone ==
  At("xsell") =>
    /\ PendingSells = {} /\ op.want <= Available /\ op.want <= position
    /\ \A k \in Prots : prot[k].state = "triggered" => sell[algo[k].child].state = "canceled"

\* A row given up whose OCO has fired since: no exit gets past it, for
\* _settle_triggered_protection raises where it would note the trigger, and leaves
\* the mode as it was.
Jams(k) == prot[k].state = "emergency_exit" /\ prot[k].id /\ algo[k].state = "triggered"

\* READY with a position, and nobody at work on it: exactly one outstanding
\* protection, and it is ACTIVE, or a trigger whose SELL the journal has not seen end.
\* Only an exit that a jammed row has ended may leave less. Whether the OCO covers
\* every lot is not said here: that the watchdog sees to.
ReadyIsGuarded ==
  At("idle") /\ mode = "ready" /\ position > 0 =>
    \/ Cardinality(ActiveOnly) = 1 /\ ActiveOnly = Actives
    \/ \E k \in Prots : prot[k].state = "triggered"
                          /\ sell[algo[k].child].state \notin {"filled", "canceled"}
    \/ \E k \in Prots : Jams(k)

\* What _exit_postcondition says: a FILLED order does not prove that all was sold.
\* The watchdog's task stops trying only when the position it was started for is
\* gone. (_run_emergency_exit, runtime.py; exit_position, protection.py.)
StopsTryingWhenFlat ==
  [][op.by = "task" /\ op'.by # "task" /\ watch'.reported => position = 0]_vars

=============================================================================
