------------------------------ MODULE ProbeSaga ------------------------------
(***************************************************************************)
(* The durable saga of the demo probe: a small BUY, its protection, its    *)
(* exit, and one row of probe_runs that says how far it got               *)
(* (okx_quant/application/demo_probe.py, with the journal's probe rows and *)
(* the runtime's commands, start and periodic pass).                       *)
(*                                                                         *)
(* `op` is the thread inside DemoProbeSaga.advance; it holds               *)
(* operation_lock throughout, so there is at most one. OrderExecution has  *)
(* the submission of an order in full and ExitProtection the protection    *)
(* and the exit; here a request takes effect or not, and the OCO is one    *)
(* state. Quantities are lots of one instrument.                           *)
(***************************************************************************)
EXTENDS Integers, FiniteSets

CONSTANTS
  MaxProbes,  \* probes that are prepared, one after another
  Qty,        \* lots a probe buys
  MaxFaults   \* bound: crashes, refusals, lost answers, failed queries, slow steps, triggers

ASSUME ProbeConstants ==
  MaxProbes \in Nat \ {0} /\ Qty \in Nat \ {0} /\ MaxFaults \in Nat

Probes == 1..MaxProbes

TERMINAL_PROBE_STATES == {"DONE", "REJECTED", "MANUAL_REVIEW"}

\* What create_probe_run counts as resolved; nobody moves a row out of MANUAL_REVIEW.
Resolved == {"none", "DONE", "REJECTED"}

\* exit_intent_id: NULL, the empty string, the probe's own SELL, or the order an OCO
\* turned into.
Null == -1
Blank == 0
OwnSell(p) == p
OrderOf(q) == MaxProbes + q

VARIABLES
  row, exitId, lease, paged,         \* probe_runs, and the pages of the outbox
  intent, acc, sell, sold, prot,     \* orders, fills and the OCO as the journal has them
  mode,
  xbuy, xacc, xsell, xsold, posts,   \* orders and fills at the exchange
  op, tick, up, pending,             \* the process
  aged, faults

orders == <<intent, acc, sell, sold, prot>>
exchange == <<xbuy, xacc, xsell, xsold, posts>>
control == <<lease, mode, op, tick, up, pending>>
vars == <<row, exitId, lease, paged, orders, mode, exchange, op, tick, up, pending, aged, faults>>

Fault == faults < MaxFaults /\ faults' = faults + 1

Pos(p) == acc[p] - sold[p]
Held(p) == xacc[p] - xsold[p]

-----------------------------------------------------------------------------
(* How a step of advance ends. mode is "ready", "degraded", or "hard" for  *)
(* HALTED and EMERGENCY_EXIT, which only an operator lifts.                *)

Free == [pc |-> "idle", p |-> 1, by |-> "command", exit |-> Null, then |-> "step"]
Still == [at |-> "none", safe |-> TRUE]

At(pc) == op.pc = pc

Step(s) == At("step") /\ row[op.p] \in s

Proceed(pc) == op' = [op EXCEPT !.pc = pc] /\ UNCHANGED <<lease, mode, tick, up, pending>>

Degraded == IF mode = "hard" THEN "hard" ELSE "degraded"

\* release_probe_lease in advance's `finally`: the lease may have been another's.
Release == lease' = [lease EXCEPT ![op.p] = IF op.pc = "acquire" THEN @ ELSE "free"]

\* advance returns the row, and its caller looks whether the probe still needs it.
Return ==
  LET live == row[op.p] \notin TERMINAL_PROBE_STATES IN
  /\ Release /\ op' = Free
  /\ pending' = live
  /\ mode' = IF live THEN Degraded ELSE mode
  /\ tick' = IF op.by = "periodic" THEN [tick EXCEPT !.at = "promote"]
             ELSE IF op.by = "startup" THEN Still ELSE tick
  /\ up' = IF op.by = "startup" THEN "up" ELSE up

\* advance raises: a command latches HALTED, a start fails, a periodic pass ends.
Raise ==
  /\ Release /\ op' = Free
  /\ mode' = IF op.by = "periodic" THEN Degraded ELSE "hard"
  /\ tick' = IF op.by = "command" THEN tick ELSE Still
  /\ up' = IF op.by = "startup" THEN "down" ELSE up
  /\ pending' = (op.by # "startup" /\ pending)

\* transition_probe_run: only with the lease, and then what comes next.
Move(s, pc) ==
  IF lease[op.p] = "held"
  THEN row' = [row EXCEPT ![op.p] = s] /\ Proceed(pc)
  ELSE UNCHANGED row /\ Raise

-----------------------------------------------------------------------------
(* The exchange and the clock.                                             *)

BuySeen(p) == xbuy[p] \in {"live", "filled", "canceled"}
BuyView(p) == IF xbuy[p] = "live" THEN "open" ELSE xbuy[p]
SellSeen(p) == xsell[p] # "none"
SellView(p) == IF xsell[p] = "live" THEN "open" ELSE xsell[p]

XBuyArrives ==
  \E p \in Probes :
    /\ xbuy[p] = "wire" /\ xbuy' = [xbuy EXCEPT ![p] = "live"]
    /\ UNCHANGED <<row, exitId, paged, orders, control, xacc, xsell, xsold, posts, aged, faults>>

XBuyFill ==
  \E p \in Probes :
    /\ xbuy[p] = "live"
    /\ xacc' = [xacc EXCEPT ![p] = @ + 1]
    /\ xbuy' = [xbuy EXCEPT ![p] = IF xacc[p] + 1 = Qty THEN "filled" ELSE "live"]
    /\ UNCHANGED <<row, exitId, paged, orders, control, xsell, xsold, posts, aged, faults>>

XBuyEnds ==
  \E p \in Probes :
    /\ xbuy[p] = "live" /\ xbuy' = [xbuy EXCEPT ![p] = "canceled"] /\ Fault
    /\ UNCHANGED <<row, exitId, paged, orders, control, xacc, xsell, xsold, posts, aged>>

XSellFill ==
  \E p \in Probes :
    /\ xsell[p] = "live" /\ Held(p) > 0
    /\ xsold' = [xsold EXCEPT ![p] = @ + 1]
    /\ xsell' = [xsell EXCEPT ![p] = IF Held(p) = 1 THEN "filled" ELSE "live"]
    /\ UNCHANGED <<row, exitId, paged, orders, control, xbuy, xacc, posts, aged, faults>>

XSellEnds ==
  \E p \in Probes :
    /\ xsell[p] = "live" /\ xsell' = [xsell EXCEPT ![p] = "canceled"] /\ Fault
    /\ UNCHANGED <<row, exitId, paged, orders, control, xbuy, xacc, xsold, posts, aged>>

\* prot: the probe's own row, or "other" and "replaced" where reconciliation placed one
\* of another name, before there was a row of its own or after that one ended.
Covering == {"active", "other", "replaced"}

Triggered == {q \in Probes : prot[q] = "triggered"}

Lost(p) == IF prot[p] = "other" THEN "none" ELSE "failed"

\* Protection pushes: the OCO is triggered, or lost.
OCOEnds ==
  \E p \in Probes :
    /\ prot[p] \in Covering \union {"unknown"} /\ Fault
    /\ \E s \in {"triggered", Lost(p)} : prot' = [prot EXCEPT ![p] = s]
    /\ UNCHANGED <<row, exitId, paged, intent, acc, sell, sold, control, exchange, aged>>

\* A triggered OCO sells; so does the watchdog what nothing protects or sells.
SoldElsewhere ==
  \E p \in Probes :
    /\ Held(p) > 0 /\ xsell[p] # "live" /\ xbuy[p] # "live"
    /\ \/ prot[p] = "triggered" /\ UNCHANGED mode
       \/ prot[p] \in {"none", "failed", "off"} /\ Pos(p) > 0 /\ At("idle") /\ up # "down" /\ mode' = "hard"
    /\ xsold' = [xsold EXCEPT ![p] = xacc[p]]
    /\ UNCHANGED <<row, exitId, lease, paged, orders, xbuy, xacc, xsell, posts,
                   op, tick, up, pending, aged, faults>>

\* 30 s since the BUY's intent.
Age ==
  \E p \in Probes \ aged :
    /\ intent[p] # "none" /\ aged' = aged \union {p}
    /\ UNCHANGED <<row, exitId, paged, orders, control, exchange, faults>>

\* A lease ends 30 s after it was taken; while its owner works, that is a slow step.
LeaseLapses(p) ==
  /\ lease[p] = "held" /\ lease' = [lease EXCEPT ![p] = "lapsed"]
  /\ IF op.pc \in {"idle", "acquire"} \/ op.p # p THEN UNCHANGED faults ELSE Fault
  /\ UNCHANGED <<row, exitId, paged, orders, mode, exchange, op, tick, up, pending, aged>>

-----------------------------------------------------------------------------
(* The operator's command, and the steps of advance.                       *)

Active == {p \in Probes : row[p] \notin Resolved \union TERMINAL_PROBE_STATES}

NextProbe == {p \in Probes : row[p] = "none" /\ \A q \in 1..(p - 1) : row[q] # "none"}

\* prepare and create_probe_run: nothing open, nothing held, no probe unresolved.
MayPrepare ==
  /\ mode = "ready" /\ NextProbe # {}
  /\ \A q \in Probes :
       /\ row[q] \in Resolved
       /\ Held(q) = 0 /\ xbuy[q] # "live" /\ xsell[q] # "live" /\ prot[q] \notin Covering
       /\ intent[q] \in {"none", "filled", "canceled", "rejected"}
       /\ sell[q] \in {"none", "filled", "canceled", "rejected"} /\ Pos(q) <= 0

Begin(p, by) == op' = [pc |-> "acquire", p |-> p, by |-> by, exit |-> Null, then |-> "step"]

Prepare ==
  /\ up = "up" /\ At("idle") /\ MayPrepare
  /\ \E p \in NextProbe : row' = [row EXCEPT ![p] = "PREPARED"] /\ Begin(p, "command")
  /\ UNCHANGED <<exitId, lease, paged, orders, mode, exchange, tick, up, pending, aged, faults>>

\* A command that fails latches HALTED.
PrepareRefused ==
  /\ up = "up" /\ At("idle") /\ ~MayPrepare /\ mode # "hard" /\ mode' = "hard" /\ Fault
  /\ UNCHANGED <<row, exitId, lease, paged, orders, exchange, op, tick, up, pending, aged>>

\* The command may name a probe that exists.
AdvanceCommand ==
  /\ up = "up" /\ At("idle") /\ \E p \in Active : Begin(p, "command")
  /\ UNCHANGED <<row, exitId, lease, paged, orders, mode, exchange, tick, up, pending, aged, faults>>

\* Mutant: the lease is looked at and not taken.
Acquire_Unleased ==
  /\ At("acquire")
  /\ IF row[op.p] \in Resolved \/ lease[op.p] = "held" THEN Return ELSE Proceed("step")
  /\ UNCHANGED <<row, exitId, paged, orders, exchange, aged, faults>>

Acquire ==
  /\ At("acquire")
  /\ IF row[op.p] \in Resolved \/ lease[op.p] = "held" THEN Return
     ELSE /\ lease' = [lease EXCEPT ![op.p] = "held"]
          /\ op' = [op EXCEPT !.pc = "step"]
          /\ UNCHANGED <<mode, tick, up, pending>>
  /\ UNCHANGED <<row, exitId, paged, orders, exchange, aged, faults>>

Finished ==
  /\ Step(TERMINAL_PROBE_STATES) /\ Return
  /\ UNCHANGED <<row, exitId, paged, orders, exchange, aged, faults>>

-----------------------------------------------------------------------------
(* _submit_buy.                                                            *)

\* The row says BUY_SUBMITTING before anything else happens.
SubmitBuy ==
  /\ Step({"PREPARED"}) /\ Move("BUY_SUBMITTING", "create")
  /\ UNCHANGED <<exitId, paged, orders, exchange, aged, faults>>

\* The price, the risk check, the mode or the capability refuses: an exception.
RefuseBuy ==
  /\ At("create") /\ Proceed("review")
  /\ IF mode # "ready" \/ lease[op.p] # "held" THEN UNCHANGED faults ELSE Fault
  /\ UNCHANGED <<row, exitId, paged, orders, exchange, aged>>

CreateIntent ==
  /\ At("create") /\ mode = "ready" /\ lease[op.p] = "held" /\ intent[op.p] = "none"
  /\ intent' = [intent EXCEPT ![op.p] = "persisted"] /\ Proceed("mark")
  /\ UNCHANGED <<row, exitId, paged, acc, sell, sold, prot, exchange, aged, faults>>

\* SUBMITTING is treated as UNKNOWN by all who find it later.
MarkSubmitting ==
  /\ At("mark") /\ intent' = [intent EXCEPT ![op.p] = "unknown"] /\ Proceed("send")
  /\ UNCHANGED <<row, exitId, paged, acc, sell, sold, prot, exchange, aged, faults>>

\* The checks before the socket: at the socket a refusal, before it an exception.
GuardFails ==
  /\ At("send")
  /\ \/ intent' = [intent EXCEPT ![op.p] = "rejected"] /\ Proceed("answered")
     \/ intent' = [intent EXCEPT ![op.p] = "canceled"] /\ Proceed("review")
  /\ IF mode # "ready" \/ lease[op.p] # "held" THEN UNCHANGED faults ELSE Fault
  /\ UNCHANGED <<row, exitId, paged, acc, sell, sold, prot, exchange, aged>>

\* The one POST: taken, or late, lost or refused.
Post ==
  /\ At("send") /\ mode = "ready" /\ lease[op.p] = "held"
  /\ posts' = [posts EXCEPT ![op.p] = @ + 1]
  /\ \/ xbuy' = [xbuy EXCEPT ![op.p] = "live"] /\ UNCHANGED faults
     \/ \E s \in {"wire", "lost", "refused"} : xbuy' = [xbuy EXCEPT ![op.p] = s] /\ Fault
  /\ Proceed("reply")
  /\ UNCHANGED <<row, exitId, paged, orders, xacc, xsell, xsold, aged>>

\* Mutant: a request without an answer is sent again.
Reply_Retries ==
  /\ At("reply")
  /\ \/ /\ BuySeen(op.p) /\ intent' = [intent EXCEPT ![op.p] = "open"] /\ UNCHANGED faults
        /\ Proceed("answered")
     \/ /\ UNCHANGED intent /\ Proceed("send")
        /\ IF xbuy[op.p] \in {"wire", "lost"} THEN UNCHANGED faults ELSE Fault
  /\ UNCHANGED <<row, exitId, paged, acc, sell, sold, prot, exchange, aged>>

\* The ACK says nothing of fills; without an answer the BUY is UNKNOWN.
Reply ==
  /\ At("reply") /\ op' = [op EXCEPT !.pc = "answered"]
  /\ \/ /\ BuySeen(op.p) /\ intent' = [intent EXCEPT ![op.p] = "open"] /\ UNCHANGED <<mode, faults>>
     \/ /\ xbuy[op.p] = "refused" /\ intent' = [intent EXCEPT ![op.p] = "rejected"]
        /\ UNCHANGED <<mode, faults>>
     \/ /\ UNCHANGED intent /\ mode' = Degraded
        /\ IF xbuy[op.p] \in {"wire", "lost"} THEN UNCHANGED faults ELSE Fault
  /\ UNCHANGED <<row, exitId, lease, paged, acc, sell, sold, prot, exchange, tick, up, pending, aged>>

StoreAnswer ==
  /\ At("answered")
  /\ Move(CASE intent[op.p] = "rejected" -> "REJECTED"
            [] intent[op.p] = "unknown" -> "BUY_UNKNOWN"
            [] OTHER -> "BUY_SUBMITTING", "step")
  /\ UNCHANGED <<exitId, paged, orders, exchange, aged, faults>>

-----------------------------------------------------------------------------
(* _resolve_buy.                                                           *)

\* No intent, so nothing was sent.
NothingSent ==
  /\ Step({"BUY_SUBMITTING", "BUY_UNKNOWN"}) /\ intent[op.p] = "none"
  /\ Move("REJECTED", "step")
  /\ UNCHANGED <<exitId, paged, orders, exchange, aged, faults>>

\* on_fill: the OCO is placed, or grows. A row that has ended keeps its name.
Cover(p) ==
  \/ /\ prot[p] \in Covering \union {"none"} /\ Triggered = {}
     /\ prot' = [prot EXCEPT ![p] = IF @ = "none" THEN "active" ELSE @]
     /\ UNCHANGED <<mode, faults>>
  \/ /\ prot[p] \in Covering \union {"none"} /\ Fault /\ mode' = "hard"
     /\ \E s \in {"unknown", Lost(p)} : prot' = [prot EXCEPT ![p] = s]
  \/ /\ prot[p] \notin Covering \union {"none"} \/ Triggered # {}
     /\ mode' = "hard" /\ UNCHANGED <<prot, faults>>

\* OrderResolver finds the order, or the query fails; new fills go to on_fill.
LearnBuy(p, then) ==
  \/ /\ BuySeen(p) /\ UNCHANGED faults
     /\ intent' = [intent EXCEPT ![p] = BuyView(p)]
     /\ acc' = [acc EXCEPT ![p] = xacc[p]]
     /\ op' = [op EXCEPT !.pc = IF xacc[p] > acc[p] THEN "cover" ELSE then, !.then = then]
  \/ /\ IF BuySeen(p) THEN Fault ELSE UNCHANGED faults
     /\ op' = [op EXCEPT !.pc = then]
     /\ UNCHANGED <<intent, acc>>

QueryBuy ==
  /\ Step({"BUY_SUBMITTING", "BUY_UNKNOWN"}) /\ intent[op.p] # "none" /\ LearnBuy(op.p, "queried")
  /\ UNCHANGED <<row, exitId, lease, paged, sell, sold, prot, mode, exchange, tick, up, pending, aged>>

OnFill ==
  /\ At("cover") /\ Cover(op.p) /\ op' = [op EXCEPT !.pc = op.then]
  /\ UNCHANGED <<row, exitId, lease, paged, intent, acc, sell, sold, exchange, tick, up, pending, aged>>

Ended == {"filled", "canceled", "rejected"}

\* Mutant: a BUY that has filled something counts as filled.
BuyFact_Open(p) ==
  IF acc[p] > 0 THEN "BUY_FILLED" ELSE IF intent[p] \in Ended THEN "REJECTED" ELSE "none"

\* _transition_from_buy_fact: a BUY that can still fill is no fact yet.
BuyFact(p) ==
  IF intent[p] \notin Ended THEN "none" ELSE IF acc[p] > 0 THEN "BUY_FILLED" ELSE "REJECTED"

BuyDecided ==
  /\ op.pc \in {"queried", "canceled"} /\ BuyFact(op.p) # "none"
  /\ Move(BuyFact(op.p), "step")
  /\ UNCHANGED <<exitId, paged, orders, exchange, aged, faults>>

\* An open BUY is canceled; the answer may be lost, the request with it.
CancelBuy ==
  /\ At("queried") /\ intent[op.p] = "open"
  /\ \/ /\ xbuy' = [xbuy EXCEPT ![op.p] = IF @ = "live" THEN "canceled" ELSE @]
        /\ UNCHANGED faults
     \/ UNCHANGED xbuy /\ Fault
  /\ Proceed("recheck")
  /\ UNCHANGED <<row, exitId, paged, orders, xacc, xsell, xsold, posts, aged>>

RecheckBuy ==
  /\ At("recheck") /\ LearnBuy(op.p, "canceled")
  /\ UNCHANGED <<row, exitId, lease, paged, sell, sold, prot, mode, exchange, tick, up, pending, aged>>

TooOld == op.p \in aged

\* Mutant: no limit of age.
BuyUndecided_Forever ==
  /\ \/ At("canceled") /\ intent[op.p] = "open"
     \/ At("queried") /\ intent[op.p] \in {"persisted", "unknown", "review"}
  /\ IF At("queried") /\ row[op.p] # "BUY_UNKNOWN" THEN Move("BUY_UNKNOWN", "step")
     ELSE Return /\ UNCHANGED row
  /\ UNCHANGED <<exitId, paged, orders, exchange, aged, faults>>

\* Still open after the cancellation, or without an answer: at most for 30 s.
BuyUndecided ==
  /\ \/ At("canceled") /\ intent[op.p] = "open"
     \/ At("queried") /\ intent[op.p] \in {"persisted", "unknown", "review"}
  /\ IF TooOld THEN Proceed("review") /\ UNCHANGED row
     ELSE IF At("queried") /\ row[op.p] # "BUY_UNKNOWN" THEN Move("BUY_UNKNOWN", "step")
     ELSE Return /\ UNCHANGED row
  /\ UNCHANGED <<exitId, paged, orders, exchange, aged, faults>>

-----------------------------------------------------------------------------
(* Protection.                                                             *)

StartProtecting ==
  /\ Step({"BUY_FILLED"}) /\ Move("PROTECTING", "step")
  /\ UNCHANGED <<exitId, paged, orders, exchange, aged, faults>>

\* ensure_for_position for a probe no fill handler covered.
EnsureProtection ==
  /\ Step({"PROTECTING"}) /\ prot[op.p] = "none"
  /\ \/ /\ Pos(op.p) > 0 /\ Triggered = {} /\ prot' = [prot EXCEPT ![op.p] = "active"]
        /\ UNCHANGED faults /\ Proceed("step")
     \/ /\ IF Pos(op.p) > 0 /\ Triggered = {} THEN Fault ELSE UNCHANGED faults
        /\ UNCHANGED prot /\ Proceed("review")
  /\ UNCHANGED <<row, exitId, paged, intent, acc, sell, sold, exchange, aged>>

ResolveProtection ==
  /\ Step({"PROTECTING"}) /\ prot[op.p] # "none"
  /\ IF prot[op.p] \in {"active", "other"} THEN Move("PROTECTED", "step")
     ELSE Proceed("review") /\ UNCHANGED row
  /\ UNCHANGED <<exitId, paged, orders, exchange, aged, faults>>

StartCleaning ==
  /\ Step({"PROTECTED"}) /\ Move("CLEANING", "exit")
  /\ UNCHANGED <<exitId, paged, orders, exchange, aged, faults>>

-----------------------------------------------------------------------------
(* _cleanup over exit_position.                                            *)

EnterCleanup ==
  /\ Step({"CLEANING"}) /\ Proceed("exit")
  /\ UNCHANGED <<row, exitId, paged, orders, exchange, aged, faults>>

ExitGives(pc, id) == op' = [op EXCEPT !.pc = pc, !.exit = id]

SellPending == sell[op.p] \in {"open", "unknown"}

\* A SELL of the instrument is pending. Unless it has ended, the row that was read
\* before the query is what the caller gets.
ExitMeetsSell ==
  /\ At("exit") /\ SellPending
  /\ LET known == SellSeen(op.p) /\ SellView(op.p) # "open" IN
     /\ IF SellSeen(op.p)
        THEN /\ sell' = [sell EXCEPT ![op.p] = SellView(op.p)]
             /\ sold' = [sold EXCEPT ![op.p] = xsold[op.p]]
        ELSE UNCHANGED <<sell, sold>>
     /\ mode' = IF known THEN mode ELSE Degraded
     /\ IF ~known THEN ExitGives(IF sell[op.p] = "unknown" THEN "review" ELSE "exited", OwnSell(op.p))
        ELSE IF SellView(op.p) = "filled" THEN ExitGives("exited", OwnSell(op.p))
        ELSE UNCHANGED op
  /\ UNCHANGED <<row, exitId, lease, paged, intent, acc, prot, exchange, tick, up, pending, aged, faults>>

\* The order an OCO of this instrument turned into, whichever probe's it was.
ExitMeetsTrigger ==
  /\ At("exit") /\ ~SellPending
  /\ \E q \in Triggered :
       /\ sold' = [sold EXCEPT ![q] = xsold[q]]
       /\ ExitGives("exited", OrderOf(q))
  /\ mode' = Degraded
  /\ UNCHANGED <<row, exitId, lease, paged, intent, acc, sell, prot, exchange, tick, up, pending, aged, faults>>

\* cancel_all fails, or the lots are not released: an exception.
ExitBlocked ==
  /\ At("exit") /\ ~SellPending /\ Triggered = {} /\ Raise /\ Fault
  /\ UNCHANGED <<row, exitId, paged, orders, exchange, aged>>

\* The OCO is gone and so are the lots, or they go to market.
ExitCancels ==
  /\ At("exit") /\ ~SellPending /\ Triggered = {}
  /\ prot' = [prot EXCEPT ![op.p] = IF @ = "none" THEN @ ELSE "off"]
  /\ ExitGives(IF Pos(op.p) <= 0 THEN "exited" ELSE "sell", Blank)
  /\ UNCHANGED <<row, exitId, lease, paged, intent, acc, sell, sold, mode, exchange, tick, up, pending,
                 aged, faults>>

\* cl_ord_id is unique: the probe has one SELL.
SellTwice ==
  /\ At("sell") /\ sell[op.p] # "none" /\ Raise
  /\ UNCHANGED <<row, exitId, paged, orders, exchange, aged, faults>>

SubmitSell ==
  /\ At("sell") /\ sell[op.p] = "none"
  /\ sell' = [sell EXCEPT ![op.p] = "unknown"]
  /\ \/ Held(op.p) > 0 /\ xsell' = [xsell EXCEPT ![op.p] = "live"] /\ UNCHANGED faults
     \/ UNCHANGED xsell /\ IF Held(op.p) > 0 THEN Fault ELSE UNCHANGED faults
  /\ Proceed("sold")
  /\ UNCHANGED <<row, exitId, paged, intent, acc, sold, prot, xbuy, xacc, xsold, posts, aged>>

\* Not FILLED, whatever the answer: EMERGENCY_EXIT.
SellAnswered ==
  /\ At("sold") /\ mode' = "hard"
  /\ \/ SellSeen(op.p) /\ sell' = [sell EXCEPT ![op.p] = "open"] /\ ExitGives("exited", OwnSell(op.p))
        /\ UNCHANGED faults
     \/ ~SellSeen(op.p) /\ sell' = [sell EXCEPT ![op.p] = "rejected"]
        /\ ExitGives("exited", OwnSell(op.p)) /\ UNCHANGED faults
     \/ Fault /\ UNCHANGED sell /\ ExitGives("review", OwnSell(op.p))
  /\ UNCHANGED <<row, exitId, lease, paged, intent, acc, sold, prot, exchange, tick, up, pending, aged>>

ExitUnfinished ==
  /\ At("exited")
  /\ IF Pos(op.p) > 0 THEN Return ELSE Held(op.p) # 0 /\ Proceed("review")
  /\ UNCHANGED <<row, exitId, paged, orders, exchange, aged, faults>>

\* exit_intent_id is unique, and the empty string is a value like any other.
IdTaken == \E q \in Probes \ {op.p} : exitId[q] = op.exit

Clean ==
  /\ At("exited") /\ Pos(op.p) <= 0 /\ Held(op.p) = 0
  /\ IF IdTaken THEN Raise /\ UNCHANGED <<row, exitId>>
     ELSE /\ Move("DONE", "step")
          /\ exitId' = IF lease[op.p] = "held" THEN [exitId EXCEPT ![op.p] = op.exit] ELSE exitId
  /\ UNCHANGED <<paged, orders, exchange, aged, faults>>

-----------------------------------------------------------------------------
(* _manual_review: three transactions.                                     *)

\* Mutant: entries stay as they are.
ReviewHalts_Skipped ==
  /\ At("review") /\ Proceed("page")
  /\ UNCHANGED <<row, exitId, paged, orders, exchange, aged, faults>>

ReviewHalts ==
  /\ At("review") /\ mode' = "hard" /\ op' = [op EXCEPT !.pc = "page"]
  /\ UNCHANGED <<row, exitId, lease, paged, orders, exchange, tick, up, pending, aged, faults>>

ReviewPages ==
  /\ At("page") /\ paged' = paged \union {op.p} /\ Proceed("note")
  /\ UNCHANGED <<row, exitId, orders, exchange, aged, faults>>

ReviewNoted ==
  /\ At("note") /\ Move("MANUAL_REVIEW", "step")
  /\ UNCHANGED <<exitId, paged, orders, exchange, aged, faults>>

-----------------------------------------------------------------------------
(* The process: start, reconciliation, the periodic pass, the operator.    *)

Crash ==
  /\ up # "down" /\ Fault
  /\ up' = "down" /\ op' = Free /\ tick' = Still /\ pending' = FALSE
  /\ UNCHANGED <<row, exitId, lease, paged, orders, mode, exchange, aged>>

Start ==
  /\ up = "down" /\ up' = "starting" /\ mode' = Degraded /\ tick' = [at |-> "run", safe |-> TRUE]
  /\ UNCHANGED <<row, exitId, lease, paged, orders, exchange, op, pending, aged, faults>>

TickDue ==
  /\ up = "up" /\ tick = Still /\ tick' = [at |-> "run", safe |-> TRUE]
  /\ UNCHANGED <<row, exitId, lease, paged, orders, mode, exchange, op, up, pending, aged, faults>>

\* Reconciler.run (OrderExecution has its steps): what was not sent is rejected,
\* what can be seen is taken in, an UNKNOWN order may be given up as old, and what
\* other orders sold is found. A position without its OCO gets one.
Runs ==
  /\ tick.at = "run" /\ At("idle")
  /\ \E old \in SUBSET {q \in aged : intent[q] = "unknown" /\ ~BuySeen(q)} :
       intent' = [q \in Probes |->
         IF BuySeen(q) THEN BuyView(q) ELSE IF intent[q] = "persisted" THEN "rejected"
         ELSE IF q \in old THEN "review" ELSE intent[q]]
  /\ acc' = [q \in Probes |-> IF BuySeen(q) THEN xacc[q] ELSE acc[q]]
  /\ sell' = [q \in Probes |-> IF SellSeen(q) THEN SellView(q) ELSE sell[q]]
  /\ sold' = xsold
  /\ LET bare == {q \in Probes : acc'[q] > sold'[q] /\ sell'[q] # "open" /\ Triggered = {}
                                   /\ prot[q] \in {"none", "failed", "off"}}
         open == {q \in Probes : intent'[q] \in {"unknown", "review"} \/ sell'[q] = "unknown"} IN
     /\ \/ /\ \E s \in {"unknown", "active"} :
                prot' = [q \in Probes |->
                  IF q \in bare THEN IF prot[q] = "none" THEN "other" ELSE "replaced"
                  ELSE IF prot[q] = "unknown" THEN s ELSE prot[q]]
           /\ UNCHANGED faults
        \/ bare # {} /\ UNCHANGED prot /\ Fault
     /\ LET safe == open = {} /\ \A q \in Probes : acc'[q] > sold'[q] => prot'[q] \in Covering IN
        IF up = "up" THEN tick' = [at |-> "reclaim", safe |-> safe] /\ UNCHANGED <<mode, up>>
        ELSE IF safe THEN /\ tick' = [tick EXCEPT !.at = "reclaim"] /\ UNCHANGED up
                          /\ mode' \in {mode, IF mode = "hard" THEN mode ELSE "ready"}
        ELSE tick' = Still /\ mode' = "hard" /\ up' = "down"
  /\ UNCHANGED <<row, exitId, lease, paged, exchange, op, pending, aged>>

\* The exchange does not answer the run.
RunFails ==
  /\ tick.at = "run" /\ At("idle") /\ Fault
  /\ tick' = Still
  /\ IF up = "up" THEN mode' = Degraded /\ UNCHANGED up ELSE mode' = "hard" /\ up' = "down"
  /\ UNCHANGED <<row, exitId, lease, paged, orders, exchange, op, pending, aged>>

\* reclaim_once: MANUAL_REVIEW is left alone.
Reclaim ==
  /\ tick.at = "reclaim" /\ At("idle")
  /\ LET by == IF up = "up" THEN "periodic" ELSE "startup" IN
     IF Active = {}
     THEN /\ pending' = FALSE /\ up' = "up" /\ UNCHANGED op
          /\ tick' = IF up = "up" THEN [tick EXCEPT !.at = "promote"] ELSE Still
     ELSE /\ tick' = [tick EXCEPT !.at = "reclaiming"]
          /\ \E p \in Active : Begin(p, by)
          /\ UNCHANGED <<pending, up>>
  /\ UNCHANGED <<row, exitId, lease, paged, orders, mode, exchange, aged, faults>>

\* The end of the pass takes no operation_lock.
PassEnds ==
  /\ tick.at = "promote" /\ tick' = Still
  /\ IF ~tick.safe THEN mode' = Degraded
     ELSE mode' \in {mode, IF pending \/ mode = "hard" THEN mode ELSE "ready"}
  /\ UNCHANGED <<row, exitId, lease, paged, orders, exchange, op, up, pending, aged, faults>>

\* Two people lift the latch after a run that is safe (resume-entries).
Resume ==
  /\ up = "up" /\ At("idle") /\ mode = "hard" /\ ~pending
  /\ \A q \in Probes : /\ intent[q] \notin {"unknown", "review", "persisted"} /\ sell[q] # "unknown"
                       /\ sold[q] = xsold[q] /\ acc[q] = xacc[q]
                       /\ Pos(q) > 0 => prot[q] \in Covering
  /\ mode' = "ready"
  /\ UNCHANGED <<row, exitId, lease, paged, orders, exchange, op, tick, up, pending, aged, faults>>

\* The private stream tells of an order; the handler waits for operation_lock.
OrderPush ==
  /\ up # "down" /\ At("idle")
  /\ \E p \in Probes :
       \/ /\ BuySeen(p) /\ intent[p] # "none" /\ (intent[p] # BuyView(p) \/ acc[p] # xacc[p])
          /\ intent' = [intent EXCEPT ![p] = BuyView(p)] /\ acc' = [acc EXCEPT ![p] = xacc[p]]
          /\ IF xacc[p] > acc[p] THEN Cover(p) ELSE UNCHANGED <<prot, mode, faults>>
          /\ UNCHANGED <<sell, sold>>
       \/ /\ SellSeen(p) /\ sell[p] \notin {SellView(p), "none"}
          /\ sell' = [sell EXCEPT ![p] = SellView(p)] /\ sold' = [sold EXCEPT ![p] = xsold[p]]
          /\ UNCHANGED <<intent, acc, prot, mode, faults>>
  /\ UNCHANGED <<row, exitId, lease, paged, exchange, op, tick, up, pending, aged>>

-----------------------------------------------------------------------------

Init ==
  /\ row = [p \in Probes |-> "none"] /\ exitId = [p \in Probes |-> Null]
  /\ lease = [p \in Probes |-> "free"] /\ paged = {}
  /\ intent = [p \in Probes |-> "none"] /\ acc = [p \in Probes |-> 0]
  /\ sell = [p \in Probes |-> "none"] /\ sold = [p \in Probes |-> 0]
  /\ prot = [p \in Probes |-> "none"] /\ mode = "ready"
  /\ xbuy = [p \in Probes |-> "none"] /\ xacc = [p \in Probes |-> 0]
  /\ xsell = [p \in Probes |-> "none"] /\ xsold = [p \in Probes |-> 0]
  /\ posts = [p \in Probes |-> 0]
  /\ op = Free /\ tick = Still /\ up = "up" /\ pending = FALSE
  /\ aged = {} /\ faults = 0

Exchange ==
  \/ XBuyArrives \/ XBuyFill \/ XBuyEnds \/ XSellFill \/ XSellEnds
  \/ OCOEnds \/ SoldElsewhere

Time == Age \/ \E p \in Probes : LeaseLapses(p)

Command == Prepare \/ PrepareRefused \/ AdvanceCommand \/ Resume

Advance ==
  \/ Acquire \/ Finished
  \/ SubmitBuy \/ RefuseBuy \/ CreateIntent \/ MarkSubmitting \/ GuardFails \/ Post \/ Reply
  \/ StoreAnswer \/ NothingSent \/ QueryBuy \/ OnFill \/ BuyDecided \/ CancelBuy \/ RecheckBuy \/ BuyUndecided
  \/ StartProtecting \/ EnsureProtection \/ ResolveProtection \/ StartCleaning
  \/ EnterCleanup \/ ExitMeetsSell \/ ExitMeetsTrigger \/ ExitBlocked \/ ExitCancels
  \/ SellTwice \/ SubmitSell \/ SellAnswered \/ ExitUnfinished \/ Clean
  \/ ReviewHalts \/ ReviewPages \/ ReviewNoted

Pass == TickDue \/ Runs \/ RunFails \/ Reclaim \/ PassEnds

Next ==
  \/ Exchange \/ Time \/ Command \/ Advance \/ Pass \/ Crash \/ Start \/ OrderPush

Spec == Init /\ [][Next]_vars

\* The thread goes on, the pass comes round and gets its turn at the lock, systemd
\* starts a process that has gone, time passes, and OKX deals with a market order.
Fairness ==
  /\ WF_vars(Advance) /\ SF_vars(Pass) /\ WF_vars(Start)
  /\ WF_vars(Age) /\ (\A p \in Probes : WF_vars(LeaseLapses(p)))
  /\ WF_vars(XSellFill)

FairSpec == Spec /\ Fairness

-----------------------------------------------------------------------------
(* Properties.                                                             *)

ProbeStates ==
  {"none", "PREPARED", "BUY_SUBMITTING", "BUY_UNKNOWN", "BUY_FILLED", "PROTECTING", "PROTECTED",
   "CLEANING"} \union TERMINAL_PROBE_STATES

\* Types; while the thread works on a probe nobody else has its lease.
TypeOK ==
  /\ row \in [Probes -> ProbeStates] /\ exitId \in [Probes -> Null..(2 * MaxProbes)]
  /\ lease \in [Probes -> {"free", "held", "lapsed"}] /\ paged \subseteq Probes
  /\ intent \in [Probes -> {"none", "persisted", "unknown", "open", "review"} \union Ended]
  /\ acc \in [Probes -> 0..Qty] /\ sold \in [Probes -> 0..Qty]
  /\ sell \in [Probes -> {"none", "unknown", "open"} \union Ended]
  /\ prot \in [Probes -> {"none", "unknown", "triggered", "failed", "off"} \union Covering]
  /\ mode \in {"ready", "degraded", "hard"}
  /\ up \in {"down", "starting", "up"} /\ pending \in BOOLEAN
  /\ op.pc \notin {"idle", "acquire"} => lease[op.p] # "free"

\* Crashes, lost answers and lapsed leases included, a probe's BUY is handed to the
\* transport once (buy_cl_ord_id, BUY_SUBMITTING before the POST, query-first).
BuyOnce == \A p \in Probes : posts[p] <= 1

\* When every probe is DONE or REJECTED, or has not asked for anything, the
\* account is flat and no order of theirs can change that: a BUY that could
\* still fill is never cleaned up behind, nor taken for one that was refused.
EndedIsFlat ==
  (\A p \in Probes : row[p] \in {"none", "PREPARED", "DONE", "REJECTED"}) =>
    \A p \in Probes : Held(p) = 0 /\ xbuy[p] \notin {"live", "wire"} /\ xsell[p] # "live"

\* Nobody has to look for a probe in MANUAL_REVIEW: it was paged and entries were
\* halted before the row says so, a crash between the three writes or not.
ReviewIsLoud ==
  [][\A p \in Probes : row[p] # "MANUAL_REVIEW" /\ row'[p] = "MANUAL_REVIEW" =>
       p \in paged /\ mode = "hard"]_vars

BuyStates == {"BUY_SUBMITTING", "BUY_UNKNOWN", "BUY_FILLED", "PROTECTING", "PROTECTED"}

\* However the BUY and its protection were answered, a process that is up does not
\* leave a probe hanging in between: it brings it to its cleanup or its end (30 s for
\* the BUY), or does not stay up.
BuySettles ==
  \A p \in Probes :
    (up = "up" /\ row[p] \in BuyStates) ~> (up # "up" \/ row[p] \notin BuyStates)

=============================================================================
