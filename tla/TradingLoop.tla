---------------------------- MODULE TradingLoop ----------------------------
(***************************************************************************)
(* The strategy worker of one instrument (trading/executor.py), the        *)
(* position view it decides on (risk/manager.py) and the two writers of    *)
(* that view besides the worker: the fill handler that runs under the      *)
(* operation lock, and the pass over all positions that follows every      *)
(* reconciliation without it (runtime.py:1154-1205).                       *)
(*                                                                         *)
(* What the coordinators do with an order is in OrderExecution and         *)
(* ExitProtection; here an order is what it may leave behind for the       *)
(* worker.  Prices, stops, cooldowns and the drawdown only decide whether  *)
(* a step is taken, and the model leaves that open.                        *)
(***************************************************************************)
EXTENDS Integers

CONSTANTS
    Lots,   \* bound: the lots held or ordered at a time
    None,   \* no position, handler or pass
    Due     \* a handler that has not read the position yet

ASSUME LotsAssumption == Lots \in Nat \ {0}

VARIABLES
    held,   \* positions.base_qty of the journal, in lots
    rest,   \* what the open BUY of the instrument may still fill
    view,   \* RiskManager._positions: the size, 0 for a reservation
    pc,     \* where the worker, and with it the process, is
    fill,   \* the fill handler: None, Due, or the quantity it has read
    pass,   \* _sync_all_risk_managers: None, or the quantity it has read
    lag,    \* the newest complete candle, seen from the durable watermark
    wild,   \* the newest candle exceeds max_candle_range_ratio
    tick,   \* how many candles older than the newest the one at work is
    last    \* the same of the one the strategy saw last (2: two or more)

memory  == <<view, fill, pass>>
orders  == <<held, rest>>
candles == <<lag, wild, tick, last>>
vars    == <<memory, orders, candles, pc>>

Quantities == 0 .. Lots

Up == pc \notin {"down", "built"}

\* Inside submit and exit_position the worker holds the operation lock.
WorkerLocks == pc \in {"posting", "filling", "selling"}

----------------------------------------------------------------------------
Init ==
    /\ held \in Quantities /\ rest = 0
    /\ view = None /\ fill = None /\ pass = None /\ pc = "down"
    /\ lag = "unset" /\ wild = FALSE /\ tick = 0 /\ last = 2

Die ==
    /\ view' = None /\ fill' = None /\ pass' = None
    /\ pc' = "down" /\ tick' = 0
    /\ UNCHANGED <<orders, lag, wild, last>>

\* The runtime starts, and then the workers are built with an empty view.
Start ==
    /\ pc = "down"
    /\ pc' = "built"
    /\ UNCHANGED <<memory, orders, candles>>

\* restore_to_risk(strict=True): a position the view lacks ends the process.
Refused ==
    /\ pc = "built" /\ held > 0 /\ view = None
    /\ Die

Restored ==
    /\ pc = "built" /\ (held = 0 \/ view # None)
    /\ pc' = "idle"
    /\ UNCHANGED <<memory, orders, candles>>

Crash ==
    /\ pc # "down"
    /\ Die

\* A tick ends before the second candle after the one it works on.
NewCandle ==
    /\ tick = 0
    /\ lag' = CASE lag = "done" -> "next"
                [] lag = "next" -> "gap"
                [] OTHER        -> lag
    /\ wild' \in BOOLEAN
    /\ tick' = IF pc \in {"down", "built", "idle"} THEN 0 ELSE 1
    /\ last' = IF last = 2 THEN 2 ELSE last + 1
    /\ UNCHANGED <<memory, orders, pc>>

----------------------------------------------------------------------------
(* Facts of the exchange reach the journal, and the journal the view. *)

\* The transaction of apply_exchange_order.  process_exchange_update calls
\* the handlers after it; the resolver and the reconciler do not.
Projected(h, r) ==
    /\ fill = None /\ ~WorkerLocks
    /\ held' = h /\ rest' = r
    /\ fill' \in IF pc = "down" THEN {None} ELSE {None, Due}
    /\ UNCHANGED <<view, pass, pc, candles>>

BuyFilled == \E n \in 1 .. rest : \E r \in {0, rest - n} : Projected(held + n, r)

BuyEnded == rest > 0 /\ Projected(held, 0)

\* An OCO, the watchdog's exit or an exit's open SELL fills.
SellFilled == \E h \in 0 .. held - 1 : Projected(h, rest)

Shown(q) == IF q = 0 THEN None ELSE q

HandlerReads ==
    /\ fill = Due
    /\ fill' = held
    /\ UNCHANGED <<view, pass, pc, orders, candles>>

HandlerWrites ==
    /\ fill \in Quantities
    /\ view' = Shown(fill)
    /\ fill' = None
    /\ pc' = CASE pc = "filling" -> "filled"
               [] pc = "selling" -> "sold"
               [] OTHER          -> pc
    /\ UNCHANGED <<pass, orders, candles>>

\* Mutant: it visits the positions of the journal only.
Visited_Journal == held > 0

\* The pass visits what the journal holds and what the view shows.
Visited == held > 0 \/ view # None

PassReads ==
    /\ pc # "down" /\ pass = None /\ Visited
    /\ pass' = held
    /\ UNCHANGED <<view, fill, pc, orders, candles>>

PassWrites ==
    /\ pass \in Quantities
    /\ view' = Shown(pass)
    /\ pass' = None
    /\ UNCHANGED <<fill, pc, orders, candles>>

----------------------------------------------------------------------------
(* The tick of the worker *)

Goto(next) ==
    /\ pc' = next
    /\ tick' = IF next = "idle" THEN 0 ELSE tick
    /\ UNCHANGED <<lag, wild, last>>

Quiet == UNCHANGED <<memory, orders>>

\* Mutant: the watermark is left for after the strategy.
Claim_Late ==
    /\ pc = "idle"
    /\ lag \in {"unset", "next"} /\ ~wild
    /\ pc' = "claimed"
    /\ UNCHANGED <<memory, orders, candles>>

\* validate_candle and mark_candle_processed.  A candle that is known, too
\* wild or beyond a gap ends the tick here.
Claim ==
    /\ pc = "idle"
    /\ lag \in {"unset", "next"} /\ ~wild
    /\ lag' = "done"
    /\ pc' = "claimed"
    /\ UNCHANGED <<memory, orders, wild, tick, last>>

\* Mutant: a halt ends the tick before the stops are checked.
Check_AfterHalt ==
    /\ pc = "claimed"
    /\ \/ Goto("idle")
       \/ view = None /\ Goto("blind")
       \/ view # None /\ (Goto("watched") \/ Goto("stopping"))
    /\ Quiet

\* PositionMonitor.check: a stop may be hit where the view has a position.
Check ==
    /\ pc = "claimed"
    /\ \/ view = None /\ Goto("blind")
       \/ view # None /\ (Goto("watched") \/ Goto("stopping"))
    /\ Quiet

\* A drawdown halt without a position asks no strategy.
Halt ==
    /\ pc \in {"watched", "blind"} /\ view = None
    /\ Goto("idle")
    /\ Quiet

Consult ==
    /\ pc \in {"watched", "blind"}
    /\ pc' = "signal"
    /\ last' = tick
    /\ UNCHANGED <<memory, orders, lag, wild, tick>>

\* HOLD, a cooldown, a refusal of the risk manager, or nothing to sell.
Hold ==
    /\ pc = "signal"
    /\ Goto("idle")
    /\ Quiet

\* try_reserve_buy takes the slot of the instrument.
Reserve ==
    /\ pc = "signal" /\ view = None
    /\ view' = 0
    /\ Goto("reserved")
    /\ UNCHANGED <<fill, pass, orders>>

SignalSell ==
    /\ pc = "signal" /\ view # None
    /\ Goto("exiting")
    /\ Quiet

\* buy() returns before an order leaves: the quantity, the mode, a guard.
NotSent ==
    /\ pc = "reserved"
    /\ Goto("refused")
    /\ Quiet

Post ==
    /\ pc = "reserved" /\ fill = None /\ rest = 0
    /\ rest' \in 1 .. Lots - held
    /\ Goto("posting")
    /\ UNCHANGED <<memory, held>>

\* An ACK or no answer: the reservation stays with the order.
Acked ==
    /\ pc = "posting"
    /\ Goto("idle")
    /\ Quiet

\* Mutant: the fills of an answer are not taken off the open quantity.
AnsweredFilled_Kept ==
    /\ pc = "posting"
    /\ \E n \in 1 .. rest : held' = held + n
    /\ fill' = Due
    /\ Goto("filling")
    /\ UNCHANGED <<view, pass, rest>>

AnsweredFilled ==
    /\ pc = "posting"
    /\ \E n \in 1 .. rest :
          /\ held' = held + n
          /\ rest' \in {0, rest - n}
    /\ fill' = Due
    /\ Goto("filling")
    /\ UNCHANGED <<view, pass>>

Rejected ==
    /\ pc = "posting"
    /\ rest' = 0
    /\ Goto("refused")
    /\ UNCHANGED <<memory, held>>

\* The exchange took the order and its projection failed: submit raises.
Raised ==
    /\ pc = "posting"
    /\ Goto("refused")
    /\ Quiet

\* buy() reads the position again after its fill.
Booked ==
    /\ pc = "filled"
    /\ Goto(IF held = 0 THEN "refused" ELSE "idle")
    /\ Quiet

\* remove_position of an order that was not placed, and of a sold position.
Forget ==
    /\ pc \in {"refused", "sold"}
    /\ view' = None
    /\ Goto("idle")
    /\ UNCHANGED <<fill, pass, orders>>

\* exit_position ends the open BUY first.  It answers FILLED for its own
\* SELL, whose handlers run, or for an older one the resolver has found.
ExitFilled ==
    /\ pc \in {"stopping", "exiting"} /\ view # None /\ fill = None
    /\ held' \in 0 .. held + rest - 1
    /\ rest' = 0
    /\ \/ fill' = Due /\ Goto("selling")
       \/ fill' = None /\ Goto("sold")
    /\ UNCHANGED <<view, pass>>

\* Anything else: the monitor's tick goes on to the strategy.
ExitOpen ==
    /\ pc \in {"stopping", "exiting"}
    /\ Goto(IF pc = "stopping" THEN "watched" ELSE "idle")
    /\ Quiet

----------------------------------------------------------------------------
Work ==
    \/ Check \/ Halt \/ Consult \/ Hold \/ Reserve \/ SignalSell
    \/ NotSent \/ Post \/ Acked \/ AnsweredFilled \/ Rejected \/ Raised
    \/ Booked \/ Forget \/ ExitFilled \/ ExitOpen

Sync == HandlerReads \/ HandlerWrites \/ PassReads \/ PassWrites

Next ==
    \/ Start \/ Refused \/ Restored \/ Crash
    \/ NewCandle \/ BuyFilled \/ BuyEnded \/ SellFilled
    \/ Sync
    \/ Claim \/ Work

Spec == Init /\ [][Next]_vars

\* The worker sleeps between two ticks for longer than a pass takes.
Fairness ==
    /\ WF_vars(Start) /\ WF_vars(Refused \/ Restored)
    /\ WF_vars(NewCandle) /\ WF_vars(Claim) /\ WF_vars(Work)
    /\ WF_vars(HandlerReads \/ HandlerWrites)
    /\ SF_vars(pc = "idle" /\ PassReads)
    /\ SF_vars(pc = "idle" /\ PassWrites)

FairSpec == Spec /\ Fairness

----------------------------------------------------------------------------
\* The values the variables take; an order never asks for more than the bound
\* leaves, and its fills are taken off what it may still fill.
TypeOK ==
    /\ held \in Quantities /\ rest \in 0 .. Lots - held
    /\ view \in Quantities \cup {None}
    /\ pass \in Quantities \cup {None}
    /\ fill \in Quantities \cup {None, Due}
    /\ pc \in {"down", "built", "idle", "claimed", "watched", "blind",
               "signal", "reserved", "posting", "filling", "filled",
               "refused", "stopping", "exiting", "selling", "sold"}
    /\ lag \in {"unset", "done", "next", "gap"} /\ wild \in BOOLEAN
    /\ tick \in 0 .. 1 /\ last \in 0 .. 2

\* A strategy sees a candle once, and so at most one order comes of it,
\* however often the process dies and starts during the tick
\* (executor.py:507 claims it before any side effect).
OncePerCandle == [][Consult => last # tick]_vars

\* Once the position stays as it is and the process stays up, the view comes
\* to show it, whatever stale reads, refused orders and exits have left there:
\* a position nobody watches, or a slot taken by an order that has ended.
ViewSettles == <>[]Up /\ <>[][FALSE]_held => []<>(view = Shown(held))

\* A worker that is up and has missed no candle checks the stops of what is
\* held again and again, whether or not the risk manager has halted trading.
WatchedWhileUp ==
    <>[](Up /\ lag \in {"done", "next"})
        => []<>(held = 0 \/ pc \in {"watched", "stopping"})

=============================================================================
