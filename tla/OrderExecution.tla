--------------------------- MODULE OrderExecution ---------------------------
(***************************************************************************)
(* One trading process, its SQLite journal and the exchange: how an order  *)
(* intent is persisted, sent, acknowledged, lost, resolved and recovered.  *)
(*                                                                         *)
(* ExecutionCoordinator.submit, process_exchange_update and Reconciler.run *)
(* hold the same operation lock, so at most one of them is between its     *)
(* first and last step; the exchange, the network and a crash move at any  *)
(* time.  Every database transaction is one step.                          *)
(*                                                                         *)
(* An intent's side, instrument and quantity never change, so they are     *)
(* constants here.  Every order is for Qty units at a worst price of 1,    *)
(* so a BUY reserves Qty of quote currency.                                *)
(***************************************************************************)
EXTENDS Orders, Integers, FiniteSets

CONSTANTS
  Buys, Sells,      \* intents, by side
  Inst,             \* instruments
  InstOf,           \* the instrument of each intent
  Qty,              \* units an order asks for
  InitialCash,      \* the quote currency there may be at first start
  MaxOpenPositions, \* IntentRiskGuard.max_open_positions
  MalformedAcks,    \* may the exchange accept an order and answer garbage?
  MaxFaults,        \* bound on crashes and failed reconciler runs
  NoIntent          \* not an intent

Intent == Buys \union Sells

ASSUME OrderConstants ==
  /\ Buys \intersect Sells = {}
  /\ InstOf \in [Intent -> Inst]
  /\ Qty \in Nat \ {0}
  /\ InitialCash \subseteq Nat
  /\ MaxOpenPositions \in Nat
  /\ MalformedAcks \in BOOLEAN
  /\ MaxFaults \in Nat
  /\ NoIntent \notin Intent

VARIABLES
  \* Durable: order_intents, risk_reservations, positions, system_state.
  state, acc, reserved, position, mode,
  \* The process and the thread inside ExecutionCoordinator.submit.
  proc, healthy, pc, cur, cash,
  \* The Reconciler run in progress.
  rec,
  \* The exchange and the network between it and the process.
  wire, refused, xstate, xacc, xheld, xcash,
  \* History: intents ever handed to the transport; crashes and failed runs so far.
  sent, faults

journal  == <<state, acc, reserved, position>>
submit   == <<pc, cur, cash>>
exchange == <<refused, xstate, xacc, xheld, xcash>>
vars == <<journal, mode, proc, healthy, submit, rec, wire, exchange, sent,
          faults>>

-----------------------------------------------------------------------------
(* Orders as the exchange reports them.                                    *)

View == [state : {"none", "acknowledged", "live", "partially_filled",
                  "filled", "canceled"},
         acc : 0 .. Qty]

NoView == [state |-> "none", acc |-> 0]

\* GET /trade/order now.
Detail(i) == [state |-> xstate[i], acc |-> xacc[i]]

\* Every order message the exchange has ever pushed for i.  Any of them may
\* be delivered now: pushes are lost, repeated and overtaken by REST answers.
Pushed(i) ==
  IF xstate[i] = "none" THEN {}
  ELSE {Detail(i), [state |-> "live", acc |-> 0]} \union
       {[state |-> "partially_filled", acc |-> k] :
          k \in {n \in 1 .. Qty - 1 : n <= xacc[i]}}

OpenAtExchange(i) == i \in wire \/ xstate[i] \in {"live", "partially_filled"}

-----------------------------------------------------------------------------
(* The journal.                                                            *)

Unsettled(i) == state[i] \notin Terminal \union {"created"}

\* Mutant: an order without an answer no longer counts as open.
UnsettledOn_Answered(inst) ==
  {i \in Intent : InstOf[i] = inst /\ Unsettled(i) /\ state[i] # "unknown"}

UnsettledOn(inst) == {i \in Intent : InstOf[i] = inst /\ Unsettled(i)}

\* Mutant: the reservation goes when the answer is lost.
Release_Early(i, s) ==
  IF s \in Terminal \union {"unknown"} THEN reserved \ {i} ELSE reserved

\* SqliteJournal.update_intent for a change of state only: the reservation
\* goes with the last nonterminal state, in the same transaction.
Release(i, s) == IF s \in Terminal THEN reserved \ {i} ELSE reserved

MoveTo(i, s) ==
  /\ CanTransition(state[i], s)
  /\ state' = [state EXCEPT ![i] = s]
  /\ reserved' = Release(i, s)
  /\ UNCHANGED <<acc, position>>

\* Mutant: a SELL is subtracted from whatever the position is.
Projected_NoFloor(i, delta) ==
  position[InstOf[i]] + (IF i \in Buys THEN delta ELSE -delta)

\* _project_fill_values: a BUY adds, a SELL never takes more than is there.
Projected(i, delta) ==
  LET held == position[InstOf[i]] IN
  IF i \in Buys THEN held + delta
  ELSE IF held >= delta THEN held - delta ELSE 0

\* Mutant: the cumulative fill of an overtaken report is taken at face value.
Stale_Backwards(i, view) == state[i] \in Terminal /\ view.acc = acc[i]

\* apply_exchange_order drops a report that is behind the journal, and one
\* that tells a settled order nothing new.
Stale(i, view) ==
  \/ view.acc < acc[i]
  \/ state[i] \in Terminal /\ view.acc = acc[i]

\* A settled order keeps its state; a later fill of it is still projected.
Target(i, view) == IF state[i] \in Terminal THEN state[i] ELSE view.state

Illegal(i, view) ==
  ~Stale(i, view) /\ ~CanTransition(state[i], Target(i, view))

\* apply_exchange_order: state, reservation, fill and position commit together.
ApplyExchangeOrder(i, view) ==
  \/ /\ Stale(i, view)
     /\ UNCHANGED journal
  \/ /\ ~Stale(i, view)
     /\ CanTransition(state[i], Target(i, view))
     /\ state' = [state EXCEPT ![i] = Target(i, view)]
     /\ acc' = [acc EXCEPT ![i] = view.acc]
     /\ reserved' = Release(i, Target(i, view))
     /\ position' = [position EXCEPT
          ![InstOf[i]] = Projected(i, view.acc - acc[i])]

\* set_mode(DEGRADED) only tightens: it never loosens a hard mode.
Degraded == IF mode = "halted" THEN mode ELSE "degraded"

-----------------------------------------------------------------------------
(* Risk checks of a BUY.                                                   *)

Reserved(S) == Qty * Cardinality(S)

\* Mutant: an instrument whose first fill is still out holds no slot.
Occupied_Positions == {p \in Inst : position[p] > 0}

Occupied ==
  {InstOf[i] : i \in reserved} \union {p \in Inst : position[p] > 0}

NoPendingIntent(i) == UnsettledOn(InstOf[i]) = {}

\* Against a cash snapshot: what is reserved already, and this order.
CashCovers(available) == Reserved(reserved) + Qty <= available

SlotFree(i) ==
  InstOf[i] \in Occupied \/ Cardinality(Occupied) < MaxOpenPositions

\* _assert_buy_risk_guard_conn, inside the inserting transaction.
RiskGuardHolds(i) ==
  mode = "ready" /\ NoPendingIntent(i) /\ CashCovers(cash) /\ SlotFree(i)

-----------------------------------------------------------------------------
(* ExecutionCoordinator.submit, step by step.                              *)

NoRun == [phase |-> "idle", bal |-> [p \in Inst |-> 0],
          pend |-> [i \in Intent |-> NoView],
          todo |-> [i \in Intent |-> "done"],
          safe |-> TRUE, quiet |-> TRUE, resume |-> FALSE]

\* A run gives the lock back before its caller acts on its verdict.
LockFree == pc = "idle" /\ rec.phase \in {"idle", "verdict"}

Serving == proc \in {"joining", "running"}

\* The entry guard, and every check before it, wants READY for a BUY.
EntryOpen(i) == i \in Buys => mode = "ready" /\ healthy

Leave == pc' = "idle" /\ cur' = NoIntent /\ cash' = 0

\* What submit and ProductionRiskService._check ask before the balance.
BuyEligible(i) ==
  /\ Serving /\ LockFree
  /\ i \in Buys /\ state[i] = "created"
  /\ EntryOpen(i) /\ NoPendingIntent(i)

\* The balance read by _check shows every position the journal shows, so the
\* BUY goes on, and the cash it shows is bound to the inserting transaction.
CheckBuy(i) ==
  /\ BuyEligible(i)
  /\ position = xheld
  /\ CashCovers(xcash) /\ SlotFree(i)
  /\ pc' = "checked" /\ cur' = i /\ cash' = xcash
  /\ UNCHANGED <<journal, mode, proc, healthy, rec, wire, exchange, sent, faults>>

\* The same read disagrees with the journal: no BUY, and the mode tightens.
PreTradeMismatch(i) ==
  /\ BuyEligible(i)
  /\ position # xheld
  /\ mode' = "degraded"
  /\ UNCHANGED <<journal, proc, healthy, submit, rec, wire, exchange, sent, faults>>

\* A SELL is refused neither by mode nor by risk.  Its callers, the exit paths,
\* ask for what the journal holds; an emergency exit does not look for open
\* orders first.
CheckSell(i) ==
  /\ Serving /\ LockFree
  /\ i \in Sells /\ state[i] = "created"
  /\ position[InstOf[i]] >= Qty
  /\ pc' = "checked" /\ cur' = i /\ cash' = 0
  /\ UNCHANGED <<journal, mode, proc, healthy, rec, wire, exchange, sent, faults>>

\* SqliteJournal.create_order_intent: the intent and its reservation.
CreateIntent ==
  /\ pc = "checked"
  /\ cur \in Buys => RiskGuardHolds(cur)
  /\ state' = [state EXCEPT ![cur] = "persisted"]
  /\ reserved' = reserved \union ({cur} \intersect Buys)
  /\ pc' = "persisted"
  /\ UNCHANGED <<acc, position, mode, proc, healthy, cur, cash, rec, wire,
                 exchange, sent, faults>>

\* The guard inside the transaction, or the entry guard before it, refuses:
\* nothing was written.
RefuseIntent ==
  /\ pc = "checked" /\ cur \in Buys
  /\ Leave
  /\ UNCHANGED <<journal, mode, proc, healthy, rec, wire, exchange, sent, faults>>

MarkSubmitting ==
  /\ pc = "persisted" /\ EntryOpen(cur)
  /\ MoveTo(cur, "submitting")
  /\ pc' = "submitting"
  /\ UNCHANGED <<mode, proc, healthy, cur, cash, rec, wire, exchange, sent, faults>>

\* The entry guard moved (a WebSocket event, a mode change, a lost lease):
\* the BUY is closed before anything is sent.
EntryGuardChanged ==
  /\ cur \in Buys
  /\ \/ pc = "persisted" /\ MoveTo(cur, "rejected")
     \/ pc = "submitting" /\ MoveTo(cur, "canceled")
  /\ Leave
  /\ UNCHANGED <<mode, proc, healthy, rec, wire, exchange, sent, faults>>

\* place_market_order fails before the socket write: pre_send_guard for a BUY,
\* local validation or the lease write guard for either side.
FailBeforeSend ==
  /\ pc = "submitting"
  /\ MoveTo(cur, "rejected")
  /\ Leave
  /\ UNCHANGED <<mode, proc, healthy, rec, wire, exchange, sent, faults>>

\* pre_send_guard passes.  Nothing holds the mode still until the socket write.
PassPreSend ==
  /\ pc = "submitting" /\ EntryOpen(cur)
  /\ pc' = "cleared"
  /\ UNCHANGED <<journal, mode, proc, healthy, cur, cash, rec, wire, exchange,
                 sent, faults>>

Transmit ==
  /\ pc = "cleared"
  /\ wire' = wire \union {cur}
  /\ sent' = sent \union {cur}
  /\ pc' = "awaiting"
  /\ UNCHANGED <<journal, mode, proc, healthy, cur, cash, rec, exchange, faults>>

\* The ACK carries an ordId and no state: it is applied as "acknowledged".
RespondAck ==
  /\ pc = "awaiting" /\ xstate[cur] # "none"
  /\ ApplyExchangeOrder(cur, [state |-> "acknowledged", acc |-> 0])
  /\ Leave
  /\ UNCHANGED <<mode, proc, healthy, rec, wire, exchange, sent, faults>>

\* The ACK arrives but its durable projection fails; a run whose verdict is
\* still out belongs to an older hard epoch from here on.
ProjectionFails ==
  /\ pc = "awaiting" /\ xstate[cur] # "none"
  /\ healthy' = FALSE
  /\ mode' = "halted"
  /\ rec' = [rec EXCEPT !.quiet = FALSE]
  /\ Leave
  /\ UNCHANGED <<journal, proc, wire, exchange, sent, faults>>

RespondRefused ==
  /\ pc = "awaiting" /\ cur \in refused
  /\ MoveTo(cur, "rejected")
  /\ Leave
  /\ UNCHANGED <<mode, proc, healthy, rec, wire, exchange, sent, faults>>

\* The exchange accepted the order, but the answer is an empty list, lacks an
\* ordId or carries an error code: a RuntimeError, hence "definite".
RespondMalformed ==
  /\ MalformedAcks
  /\ pc = "awaiting" /\ xstate[cur] # "none"
  /\ MoveTo(cur, "rejected")
  /\ Leave
  /\ UNCHANGED <<mode, proc, healthy, rec, wire, exchange, sent, faults>>

\* Mutant: a timeout is taken for a refusal.
RespondAmbiguous_Rejects ==
  /\ pc = "awaiting"
  /\ MoveTo(cur, "rejected")
  /\ Leave
  /\ UNCHANGED <<mode, proc, healthy, rec, wire, exchange, sent, faults>>

\* A timeout or a lost connection: is_ambiguous_write_error.  The request may
\* be lost, at the exchange, or still on its way there.
RespondAmbiguous ==
  /\ pc = "awaiting"
  /\ MoveTo(cur, "unknown")
  /\ pc' = "unknown"
  /\ UNCHANGED <<mode, proc, healthy, cur, cash, rec, wire, exchange, sent, faults>>

DegradeAfterUnknown ==
  /\ pc = "unknown"
  /\ mode' = Degraded
  /\ Leave
  /\ UNCHANGED <<journal, proc, healthy, rec, wire, exchange, sent, faults>>

-----------------------------------------------------------------------------
(* The exchange and the network.                                           *)

Accept(i) ==
  /\ i \in wire
  /\ i \in Sells => xheld[InstOf[i]] >= Qty
  /\ wire' = wire \ {i}
  /\ xstate' = [xstate EXCEPT ![i] = "live"]
  /\ UNCHANGED <<journal, mode, proc, healthy, submit, rec, refused, xacc,
                 xheld, xcash, sent, faults>>

Refuse(i) ==
  /\ i \in wire
  /\ wire' = wire \ {i}
  /\ refused' = refused \union {i}
  /\ UNCHANGED <<journal, mode, proc, healthy, submit, rec, xstate, xacc,
                 xheld, xcash, sent, faults>>

LoseRequest(i) ==
  /\ i \in wire
  /\ wire' = wire \ {i}
  /\ UNCHANGED <<journal, mode, proc, healthy, submit, rec, exchange, sent, faults>>

Fill(i) ==
  LET p == InstOf[i]
      bought == IF i \in Buys THEN 1 ELSE -1
  IN
  /\ xstate[i] \in {"live", "partially_filled"} /\ xacc[i] < Qty
  /\ xheld[p] + bought >= 0
  /\ xacc' = [xacc EXCEPT ![i] = @ + 1]
  /\ xstate' = [xstate EXCEPT
       ![i] = IF xacc[i] + 1 = Qty THEN "filled" ELSE "partially_filled"]
  /\ xheld' = [xheld EXCEPT ![p] = @ + bought]
  /\ xcash' = xcash - bought
  /\ UNCHANGED <<journal, mode, proc, healthy, submit, rec, wire, refused,
                 sent, faults>>

\* A market order the book cannot fill, or an operator's cancel.
CancelRest(i) ==
  /\ xstate[i] \in {"live", "partially_filled"}
  /\ xstate' = [xstate EXCEPT ![i] = "canceled"]
  /\ UNCHANGED <<journal, mode, proc, healthy, submit, rec, wire, refused,
                 xacc, xheld, xcash, sent, faults>>

-----------------------------------------------------------------------------
(* Threads that need no lock, or hold it for one step.                     *)

\* PrivateStreamService._project_orders: one pushed order message.  Its
\* sequence number voids the REST baseline of a run whose verdict is still out.
OrderPush(i) ==
  /\ Serving /\ LockFree
  /\ \E view \in Pushed(i) : ApplyExchangeOrder(i, view)
  /\ rec' = [rec EXCEPT !.quiet = FALSE]
  /\ UNCHANGED <<mode, proc, healthy, submit, wire, exchange, sent, faults>>

\* ProductionRuntime._on_ws_state, or an invalid pushed fact: no lock is held.
ChangeModeElsewhere ==
  /\ Serving
  /\ mode' \in {Degraded, "halted"}
  /\ mode' # mode
  /\ rec' = [rec EXCEPT !.quiet = FALSE]
  /\ UNCHANGED <<journal, proc, healthy, submit, wire, exchange, sent, faults>>

-----------------------------------------------------------------------------
(* Reconciler.run.  Each REST call and each transaction is a step.         *)

InRun(p) == rec.phase = p

RecUnchanged == UNCHANGED <<proc, healthy, submit, wire, exchange, sent, faults>>

Ask(S) == [i \in Intent |-> IF i \in S THEN "ask" ELSE "done"]

AllDone == \A i \in Intent : rec.todo[i] = "done"

\* ProductionRuntime.start: a new process object; a hard mode stays latched.
Restart ==
  /\ proc = "down"
  /\ proc' = "recovering"
  /\ healthy' = TRUE
  /\ mode' = IF mode = "halted" THEN mode ELSE "starting"
  /\ UNCHANGED <<journal, submit, rec, wire, exchange, sent, faults>>

\* A run takes the lock and reads the balance.  The operator's resume command
\* starts one of its own when the mode is HALTED.
RecBegin ==
  /\ proc # "down" /\ pc = "idle" /\ InRun("idle")
  /\ \E r \in BOOLEAN :
       /\ r => proc = "running" /\ mode = "halted"
       /\ rec' = [NoRun EXCEPT !.phase = "balance", !.bal = xheld, !.resume = r]
  /\ UNCHANGED <<journal, mode>> /\ RecUnchanged

RecPending ==
  /\ InRun("balance")
  /\ rec' = [rec EXCEPT
       !.phase = "pending",
       !.pend = [i \in Intent |->
         IF xstate[i] \in {"live", "partially_filled"} THEN Detail(i) ELSE NoView]]
  /\ UNCHANGED <<journal, mode>> /\ RecUnchanged

RecFills ==
  /\ InRun("pending")
  /\ rec' = [rec EXCEPT !.phase = "fills",
                        !.todo = Ask({i \in Intent : xacc[i] > 0})]
  /\ UNCHANGED <<journal, mode>> /\ RecUnchanged

\* _reconcile_fills: a fill only says which order detail to fetch.
RecFill(i) ==
  /\ InRun("fills") /\ rec.todo[i] = "ask"
  /\ \/ /\ xstate[i] # "none" /\ ApplyExchangeOrder(i, Detail(i))
        /\ rec' = [rec EXCEPT !.todo[i] = "done"]
     \/ /\ UNCHANGED journal
        /\ rec' = [rec EXCEPT !.todo[i] = "done", !.safe = FALSE]
  /\ UNCHANGED mode /\ RecUnchanged

RecOrders ==
  /\ InRun("fills") /\ AllDone
  /\ rec' = [rec EXCEPT !.phase = "orders",
                        !.todo = Ask({i \in Intent : rec.pend[i] # NoView})]
  /\ UNCHANGED <<journal, mode>> /\ RecUnchanged

\* _reconcile_orders: the order as it was when the list was fetched.
RecOrder(i) ==
  /\ InRun("orders") /\ rec.todo[i] = "ask" /\ rec.pend[i].state # "none"
  /\ ApplyExchangeOrder(i, rec.pend[i])
  /\ rec' = [rec EXCEPT !.todo[i] = "done"]
  /\ UNCHANGED mode /\ RecUnchanged

\* Mutant: only intents without an answer are looked up.
RecIntents_UnknownOnly ==
  /\ InRun("orders") /\ AllDone
  /\ rec' = [rec EXCEPT !.phase = "intents",
                        !.todo = Ask({i \in Intent : state[i] = "unknown"})]
  /\ UNCHANGED <<journal, mode>> /\ RecUnchanged

RecIntents ==
  /\ InRun("orders") /\ AllDone
  /\ rec' = [rec EXCEPT !.phase = "intents",
                        !.todo = Ask({i \in Intent : Unsettled(i)})]
  /\ UNCHANGED <<journal, mode>> /\ RecUnchanged

\* Mutant: SUBMITTING, too, is taken for "not sent" after a restart.
RecNotSubmitted_Eager(i) ==
  /\ InRun("intents") /\ rec.todo[i] = "ask"
  /\ state[i] \in {"persisted", "submitting"}
  /\ MoveTo(i, "rejected")
  /\ rec' = [rec EXCEPT !.todo[i] = "done"]
  /\ UNCHANGED mode /\ RecUnchanged

\* Never sent, by the order of the transactions in submit.
RecNotSubmitted(i) ==
  /\ InRun("intents") /\ rec.todo[i] = "ask" /\ state[i] = "persisted"
  /\ MoveTo(i, "rejected")
  /\ rec' = [rec EXCEPT !.todo[i] = "done"]
  /\ UNCHANGED mode /\ RecUnchanged

\* Perhaps sent: UNKNOWN first, and only then resolved.
RecAmbiguous(i) ==
  /\ InRun("intents") /\ rec.todo[i] = "ask" /\ state[i] = "submitting"
  /\ MoveTo(i, "unknown")
  /\ rec' = [rec EXCEPT !.todo[i] = "fresh"]
  /\ UNCHANGED mode /\ RecUnchanged

Resolvable(i) ==
  /\ InRun("intents") /\ rec.todo[i] \in {"ask", "fresh"}
  /\ state[i] \notin {"persisted", "submitting"}

\* OrderResolver.resolve finds the order.
RecResolve(i) ==
  /\ Resolvable(i) /\ xstate[i] # "none"
  /\ ApplyExchangeOrder(i, Detail(i))
  /\ rec' = [rec EXCEPT !.todo[i] = "done"]
  /\ UNCHANGED mode /\ RecUnchanged

\* Mutant: an order that cannot be found is sent again.
RecUnresolved_Resends(i) ==
  /\ Resolvable(i)
  /\ wire' = wire \union {i}
  /\ rec' = [rec EXCEPT !.todo[i] = "done", !.safe = FALSE]
  /\ UNCHANGED <<journal, mode, proc, healthy, submit, exchange, sent, faults>>

\* The order is not there, or neither query was answered; it is too young to
\* give up on, or given up on already.
RecUnresolved(i) ==
  /\ Resolvable(i)
  /\ rec' = [rec EXCEPT !.todo[i] = "done", !.safe = FALSE]
  /\ UNCHANGED <<journal, mode>> /\ RecUnchanged

\* Unresolved for unknown_manual_after_s.  One made UNKNOWN by this very run
\* is younger; any other state passes through UNKNOWN in its own transaction.
RecExpire(i) ==
  /\ \/ /\ Resolvable(i) /\ rec.todo[i] = "ask"
        /\ state[i] \notin {"unknown", "manual_review"}
        /\ MoveTo(i, "unknown")
        /\ rec' = [rec EXCEPT !.todo[i] = "late"]
     \/ /\ InRun("intents") /\ state[i] = "unknown"
        /\ rec.todo[i] \in {"ask", "late"}
        /\ MoveTo(i, "manual_review")
        /\ rec' = [rec EXCEPT !.todo[i] = "done", !.safe = FALSE]
  /\ UNCHANGED mode /\ RecUnchanged

RecBalances ==
  /\ InRun("intents") /\ AllDone
  /\ rec' = [rec EXCEPT !.phase = "positions"]
  /\ UNCHANGED <<journal, mode>> /\ RecUnchanged

\* _reconcile_balances: the balance read at the start of the run decides.
RecPosition(p) ==
  /\ InRun("positions") /\ position[p] # rec.bal[p]
  /\ position' = [position EXCEPT ![p] = rec.bal[p]]
  /\ UNCHANGED <<state, acc, reserved, mode, rec>> /\ RecUnchanged

RecFinish ==
  /\ InRun("positions") /\ position = rec.bal
  /\ rec' = [rec EXCEPT !.phase = "verdict"]
  /\ UNCHANGED <<journal, mode>> /\ RecUnchanged

\* A REST call or a transaction of the run raises: HALTED, and start() gives
\* the process up.
RecAbort ==
  /\ rec.phase \notin {"idle", "verdict"} /\ faults < MaxFaults
  /\ faults' = faults + 1
  /\ mode' = "halted"
  /\ rec' = NoRun
  /\ proc' = IF proc = "running" THEN proc ELSE "down"
  /\ UNCHANGED <<journal, healthy, submit, wire, exchange, sent>>

-----------------------------------------------------------------------------
(* What the caller of a run makes of it.                                   *)

Verdict(p) == InRun("verdict") /\ proc = p /\ rec' = NoRun

\* RecoveryGate.recover, and start() until the streams are subscribed.
Recovered ==
  /\ Verdict("recovering") /\ rec.safe
  /\ proc' = "joining"
  /\ mode' = Degraded
  /\ UNCHANGED <<journal, healthy, submit, wire, exchange, sent, faults>>

\* Unsafe, or the baseline was overtaken: start() raises.
StartFails ==
  /\ \/ Verdict("recovering") /\ ~rec.safe
     \/ Verdict("joining") /\ pc = "idle"
  /\ proc' = "down"
  /\ mode' = "halted"
  /\ UNCHANGED <<journal, healthy, submit, wire, exchange, sent, faults>>

\* mark_baseline_complete, with the promotion inside the event fence.
\* _promote_ready_if_safe may have reasons of its own to leave the mode alone.
Promoted == IF mode = "halted" THEN {mode} ELSE {mode, "ready"}

Joined ==
  /\ Verdict("joining") /\ rec.safe /\ rec.quiet
  /\ proc' = "running"
  /\ mode' \in Promoted
  /\ UNCHANGED <<journal, healthy, submit, wire, exchange, sent, faults>>

PeriodicDone ==
  /\ Verdict("running") /\ ~rec.resume
  /\ \/ rec.safe /\ rec.quiet /\ mode' \in Promoted
     \/ mode' = Degraded
  /\ UNCHANGED <<journal, proc, healthy, submit, wire, exchange, sent, faults>>

\* _resume_entries: the hard mode is released only if no newer hard incident
\* and no event came between.
ResumeDone ==
  /\ Verdict("running") /\ rec.resume
  /\ mode' = IF rec.safe /\ rec.quiet /\ healthy THEN "ready" ELSE mode
  /\ UNCHANGED <<journal, proc, healthy, submit, wire, exchange, sent, faults>>

Crash ==
  /\ proc # "down" /\ faults < MaxFaults
  /\ proc' = "down"
  /\ faults' = faults + 1
  /\ rec' = NoRun
  /\ Leave
  /\ UNCHANGED <<journal, mode, healthy, wire, exchange, sent>>

-----------------------------------------------------------------------------

Init ==
  /\ state = [i \in Intent |-> "created"]
  /\ acc = [i \in Intent |-> 0]
  /\ reserved = {}
  /\ position = [p \in Inst |-> 0]
  /\ mode = "starting"
  /\ proc = "down" /\ healthy = TRUE
  /\ pc = "idle" /\ cur = NoIntent /\ cash = 0
  /\ rec = NoRun
  /\ wire = {} /\ refused = {}
  /\ xstate = [i \in Intent |-> "none"]
  /\ xacc = [i \in Intent |-> 0]
  /\ xheld = [p \in Inst |-> 0]
  /\ xcash \in InitialCash
  /\ sent = {} /\ faults = 0

Submit ==
  \/ \E i \in Buys : CheckBuy(i) \/ PreTradeMismatch(i)
  \/ \E i \in Sells : CheckSell(i)
  \/ CreateIntent \/ RefuseIntent \/ MarkSubmitting \/ EntryGuardChanged
  \/ FailBeforeSend \/ PassPreSend \/ Transmit

Respond ==
  \/ RespondAck \/ ProjectionFails \/ RespondRefused \/ RespondMalformed
  \/ RespondAmbiguous \/ DegradeAfterUnknown

Exchange ==
  \E i \in Intent :
    Accept(i) \/ Refuse(i) \/ LoseRequest(i) \/ Fill(i) \/ CancelRest(i)

Elsewhere == ChangeModeElsewhere \/ \E i \in Intent : OrderPush(i)

RunStep ==
  \/ RecPending \/ RecFills \/ RecOrders \/ RecIntents \/ RecBalances \/ RecFinish
  \/ \E i \in Intent :
       \/ RecFill(i) \/ RecOrder(i) \/ RecNotSubmitted(i) \/ RecAmbiguous(i)
       \/ RecResolve(i) \/ RecUnresolved(i) \/ RecExpire(i)
  \/ \E p \in Inst : RecPosition(p)

Reconcile == RecBegin \/ RunStep \/ RecAbort

Conclude ==
  Recovered \/ StartFails \/ Joined \/ PeriodicDone \/ ResumeDone

Next ==
  \/ Submit \/ Respond \/ Exchange \/ Elsewhere
  \/ Restart \/ Reconcile \/ Conclude \/ Crash

Spec == Init /\ [][Next]_vars

\* A thread that holds the lock goes on, and the lock is free often enough for
\* the periodic reconciler to get it.  A stopped process is restarted.  A query
\* for an order that exists is answered some time, and an unresolved order
\* ages.  A request on the wire is accepted, refused or lost; nothing makes a
\* resting order fill, and no push is guaranteed.
InFlight == pc # "idle" /\ (Submit \/ Respond)

Fairness ==
  /\ WF_vars(InFlight) /\ WF_vars(Restart) /\ WF_vars(Conclude)
  /\ SF_vars(RecBegin) /\ WF_vars(RunStep)
  /\ \A i \in Intent :
       /\ WF_vars(Accept(i) \/ Refuse(i) \/ LoseRequest(i))
       /\ SF_vars(RecResolve(i)) /\ SF_vars(RecExpire(i))

FairSpec == Spec /\ Fairness

-----------------------------------------------------------------------------
(* Properties.                                                             *)

Steps == {"done", "ask", "fresh", "late"}

Phases == {"idle", "balance", "pending", "fills", "orders", "intents",
           "positions", "verdict"}

JournalType ==
  /\ state \in [Intent -> OrderState]
  /\ acc \in [Intent -> 0 .. Qty]
  /\ reserved \subseteq Buys
  /\ position \in [Inst -> Nat]
  /\ mode \in {"starting", "ready", "degraded", "halted"}

ProcessType ==
  /\ proc \in {"down", "recovering", "joining", "running"}
  /\ healthy \in BOOLEAN
  /\ pc \in {"idle", "checked", "persisted", "submitting", "cleared",
             "awaiting", "unknown"}
  /\ IF pc = "idle" THEN cur = NoIntent ELSE cur \in Intent
  /\ cash \in Int
  /\ sent \subseteq Intent
  /\ faults \in 0 .. MaxFaults

RunRecord == [phase : Phases, bal : [Inst -> Nat], pend : [Intent -> View],
              todo : [Intent -> Steps], safe : BOOLEAN, quiet : BOOLEAN,
              resume : BOOLEAN]

RunType == rec \in RunRecord

ExchangeType ==
  /\ wire \subseteq Intent /\ refused \subseteq Intent
  /\ xstate \in [Intent -> {"none", "live", "partially_filled", "filled",
                            "canceled"}]
  /\ xacc \in [Intent -> 0 .. Qty]
  /\ xheld \in [Inst -> Nat]
  /\ xcash \in Int

\* The values every variable may take.
TypeOK == JournalType /\ ProcessType /\ RunType /\ ExchangeType

\* PRODUCTION_PLAN 1.1 #1 and 13.3 "submitted_order => persisted_intent":
\* whatever was ever handed to the transport, a crash at any point leaves a
\* row that the next start takes for "perhaps sent".
NothingSentUnrecorded ==
  \A i \in sent : state[i] \notin {"created", "persisted"}

\* While an order can still fill, no timeout, crash, resolution or recovery
\* lets its intent settle, and a BUY keeps its reservation.
OpenOrdersTracked ==
  \A i \in Intent : OpenAtExchange(i) => Unsettled(i) /\ (i \in Buys => i \in reserved)

\* A settled intent has accounted for all that was ever filled, and nothing
\* more can be: late, stale or repeated reports cannot settle it early.
SettledIsAccounted ==
  \A i \in Intent : state[i] \in Terminal =>
    /\ i \notin wire /\ xstate[i] \in {"none", "filled", "canceled"}
    /\ acc[i] = xacc[i]

(* The inductive invariant behind the two, part by part.                   *)

\* No run is in progress while a thread is inside submit.
OneThread == pc # "idle" => rec.phase \in {"idle", "verdict"}

\* Where the thread is, its own intent has got exactly as far.
ThreadAt ==
  /\ pc = "checked" => state[cur] = "created"
  /\ pc = "persisted" => state[cur] = "persisted"
  /\ pc \in {"submitting", "cleared"} => state[cur] = "submitting" /\ cur \notin sent
  /\ pc = "awaiting" => state[cur] = "submitting" /\ cur \in sent

\* What was never sent is nowhere, and what is somewhere is in one place.
Traced(i) ==
  /\ i \notin sent => i \notin wire /\ i \notin refused /\ xstate[i] = "none"
  /\ state[i] \in {"created", "persisted"} => i \notin sent
  /\ i \in wire => i \notin refused /\ xstate[i] = "none"
  /\ i \in refused => xstate[i] = "none"

\* The journal is never ahead of the exchange, a BUY holds its reservation
\* from the first row to the last state, and that state came last.
Counted(i) ==
  /\ xstate[i] = "none" => xacc[i] = 0
  /\ acc[i] <= xacc[i]
  /\ i \in Buys => (i \in reserved <=> Unsettled(i))
  /\ state[i] \in Terminal /\ ~MalformedAcks =>
       ~OpenAtExchange(i) /\ acc[i] = xacc[i]

\* The list of open orders a run holds is old, but it was true.
Remembered(i) ==
  LET view == rec.pend[i] IN
  /\ view.state \in {"none", "live", "partially_filled"}
  /\ view.acc <= xacc[i]
  /\ view.state # "none" => xstate[i] # "none"

\* With TypeOK, preserved by every step whatever MalformedAcks is.
JournalInv ==
  /\ OneThread /\ ThreadAt
  /\ \A i \in Intent : Traced(i) /\ Counted(i) /\ Remembered(i)

\* 13.3 "unknown_buy => no_new_buy_same_instrument", seen from the exchange: a
\* lost answer never lets a second BUY of the same instrument out.
OneOpenBuyPerInstrument ==
  \A i, j \in Buys :
    /\ OpenAtExchange(i) /\ OpenAtExchange(j)
    /\ InstOf[i] = InstOf[j]
    => i = j

OpenBuys == {i \in Buys : OpenAtExchange(i)}

\* The units that BUYs among S may still take; each costs 1.
UnitsLeft(S) == {u \in S \X (1 .. Qty) : xacc[u[1]] < u[2]}

\* The reservations kept for unanswered orders cover the cash they may still
\* take: filling every open BUY in full never overdraws the account.
CashNeverOverdrawn == Cardinality(UnitsLeft(OpenBuys)) <= xcash

\* max_open_positions holds on the account, not only in the journal: held
\* instruments and those with an open BUY never exceed it.
SlotsNeverExceeded ==
  Cardinality({p \in Inst : xheld[p] > 0} \union {InstOf[i] : i \in OpenBuys})
    <= MaxOpenPositions

(* What the three rest on, part by part; it needs well-formed ACKs.        *)

\* The journal has no two BUYs of an instrument under way.
OneUnsettledBuy ==
  \A i, j \in Buys :
    Unsettled(i) /\ Unsettled(j) /\ InstOf[i] = InstOf[j] => i = j

CheckedBuy == pc = "checked" /\ cur \in Buys

\* What reserved BUYs may take is there, and the snapshot that a checked BUY
\* goes by is older only by what reserved BUYs have taken since.
CashBooked ==
  /\ IsFiniteSet(reserved)
  /\ Cardinality(UnitsLeft(reserved)) <= xcash
  /\ CheckedBuy =>
       Cardinality(UnitsLeft(reserved)) + cash <= Reserved(reserved) + xcash

\* The slots in use on the account or promised in the journal.
Taken == {InstOf[i] : i \in reserved} \union {p \in Inst : xheld[p] > 0}

\* They are within the limit, and those a checked BUY has counted include them.
SlotsBooked ==
  /\ IsFiniteSet(Taken) /\ Cardinality(Taken) <= MaxOpenPositions
  /\ CheckedBuy =>
       /\ Taken \subseteq Occupied
       /\ IsFiniteSet(Occupied) /\ Cardinality(Occupied) <= MaxOpenPositions

BudgetInv == OneUnsettledBuy /\ CashBooked /\ SlotsBooked

\* An order without a fill is not partially filled, at the exchange, in the
\* journal, and in the list that a run holds.
PartsFilled ==
  \A i \in Intent :
    /\ xstate[i] = "live" => xacc[i] = 0
    /\ xstate[i] = "partially_filled" => xacc[i] > 0
    /\ state[i] = "partially_filled" => acc[i] > 0
    /\ rec.pend[i].state = "partially_filled" => rec.pend[i].acc > 0

\* OrderIntent.transition accepts every report that can arrive, whatever the
\* journal made of the order meanwhile: none is refused as illegal, which
\* would abort a run in resolve.
ReportsAccepted ==
  \A i \in sent : \A view \in Pushed(i) : ~Illegal(i, view)

\* PRODUCTION_PLAN 1.1 #3: no timeout, restart or resolution ever puts an
\* intent on the wire again.
NeverResent == [][\A i \in sent : i \in wire' => i \in wire]_vars

Closed(i) == xstate[i] \in {"filled", "canceled"}

Undecided == {"persisted", "submitting", "unknown"}

\* Every push and any answer may be lost, and a run may overwrite a position
\* with a balance older than the fills it has just projected; still positions
\* come to equal the holdings for good, and every order the exchange has
\* closed is settled in the journal with the same fills.  No intent stays
\* UNKNOWN, nor SUBMITTING after a crash: it is found, or given up for review.
JournalConverges ==
  /\ <>[](/\ position = xheld
          /\ \A i \in Intent :
               Closed(i) => state[i] \in Terminal /\ acc[i] = xacc[i])
  /\ \A i \in Intent : []<>(state[i] \notin Undecided)

\* What the module RiskLedger promises, with the book read off the journal
\* and exposure off the network and the exchange.
Standing(i) ==
  CASE state[i] = "created" -> "new"
    [] state[i] \in Terminal -> "settled"
    [] OTHER -> "booked"

Ledger == INSTANCE RiskLedger WITH
  Order <- Intent,
  book <- [i \in Intent |-> Standing(i)],
  exposed <- {i \in Intent : OpenAtExchange(i)},
  spent <- sent

\* Whatever is lost, late or restarted, an order is booked before it is sent,
\* sent once, and struck off only when it can no longer fill.
KeepsLedger == Ledger!Spec

=============================================================================
