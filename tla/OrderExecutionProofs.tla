------------------------ MODULE OrderExecutionProofs ------------------------
(***************************************************************************)
(* What OrderExecution guarantees for all intents, instruments, quantities *)
(* and any number of faults, in five parts:                                *)
(*   - every variable keeps its type;                                      *)
(*   - JournalInv is inductive, so nothing is sent without a record or     *)
(*     twice, and the journal gives up no order that can fill;             *)
(*   - the ledger of RiskLedger is implemented;                            *)
(*   - no report that can arrive is refused by the transition table;       *)
(*   - the budgets of BUYs hold on the account.                            *)
(***************************************************************************)
EXTENDS OrderExecution, FiniteSetTheorems, TLAPS

LEMMA ApplyType ==
  ASSUME TypeOK, NEW i \in Intent, NEW view \in View, view.state # "none",
         ApplyExchangeOrder(i, view), UNCHANGED mode
  PROVE  JournalType'
<1> USE OrderConstants DEF TypeOK, JournalType
<1>1. CASE Stale(i, view)
  BY <1>1 DEF ApplyExchangeOrder, journal
<1>2. CASE ~Stale(i, view)
  <2>1. Target(i, view) \in OrderState
    BY DEF Target, View, OrderState, DurableState, Terminal
  <2>2. view.acc - acc[i] \in Nat
    BY <1>2 DEF Stale, View
  <2>3. position[InstOf[i]] \in Nat
    BY DEF Intent
  <2>4. Projected(i, view.acc - acc[i]) \in Nat
    BY <2>2, <2>3 DEF Projected
  <2>5. view.acc \in 0 .. Qty
    BY DEF View
  <2> QED
    BY <1>2, <2>1, <2>4, <2>5 DEF ApplyExchangeOrder, Release
<1> QED BY <1>1, <1>2

LEMMA MoveType ==
  ASSUME TypeOK, NEW i \in Intent, NEW s \in OrderState, MoveTo(i, s),
         UNCHANGED mode
  PROVE  JournalType'
BY DEF TypeOK, JournalType, MoveTo, Release

LEMMA PushedViews ==
  ASSUME TypeOK, NEW i \in Intent, NEW view \in Pushed(i)
  PROVE  /\ view \in View /\ view.state # "none"
         /\ view.acc <= xacc[i] /\ xstate[i] # "none"
         /\ view.state \in Terminal => view = Detail(i)
BY OrderConstants
DEF TypeOK, ExchangeType, Pushed, View, Detail, Terminal
\* What a run reads and notes down, whatever it does to the journal.
LEMMA RunNoted ==
  ASSUME TypeOK
  PROVE  /\ [rec EXCEPT !.quiet = FALSE] \in RunRecord
         /\ \A p \in Phases : [rec EXCEPT !.phase = p] \in RunRecord
         /\ \A p \in Phases, S \in SUBSET Intent :
              [rec EXCEPT !.phase = p, !.todo = Ask(S)] \in RunRecord
         /\ \A i \in Intent, t \in Steps :
              /\ [rec EXCEPT !.todo[i] = t] \in RunRecord
              /\ [rec EXCEPT !.todo[i] = t, !.safe = FALSE] \in RunRecord
<1> USE DEF TypeOK, RunType, RunRecord
<1>1. \A S \in SUBSET Intent : Ask(S) \in [Intent -> Steps]
  BY DEF Ask, Steps
<1>2. \A i \in Intent, t \in Steps :
        [rec.todo EXCEPT ![i] = t] \in [Intent -> Steps]
  OBVIOUS
<1>3. FALSE \in BOOLEAN
  OBVIOUS
<1> QED
  BY <1>1, <1>2, <1>3

-----------------------------------------------------------------------------
(* Every step keeps the types.                                             *)

LEMMA InitType == Init => TypeOK
BY OrderConstants
DEF Init, TypeOK, JournalType, ProcessType, RunType, RunRecord,
    ExchangeType, NoRun, NoView, View, Phases, Steps, OrderState, DurableState

\* Steps of submit touch the journal and the thread, and put on the wire.
LEMMA SubmitTypeStep == TypeOK /\ Submit => TypeOK'
<1> SUFFICES ASSUME TypeOK, Submit PROVE TypeOK'
  OBVIOUS
<1> USE OrderConstants DEF TypeOK
<1>1. ASSUME NEW i \in Buys, CheckBuy(i) PROVE TypeOK'
  BY <1>1 DEF CheckBuy, Intent, journal, exchange, JournalType, ProcessType, RunType, RunRecord,
              ExchangeType
<1>2. ASSUME NEW i \in Buys, PreTradeMismatch(i) PROVE TypeOK'
  BY <1>2 DEF PreTradeMismatch, journal, exchange, submit, JournalType,
              ProcessType, RunType, RunRecord, ExchangeType
<1>3. ASSUME NEW i \in Sells, CheckSell(i) PROVE TypeOK'
  BY <1>3 DEF CheckSell, Intent, journal, exchange, JournalType,
              ProcessType, RunType, RunRecord, ExchangeType
<1>4. ASSUME CreateIntent PROVE TypeOK'
  BY <1>4 DEF CreateIntent, exchange, JournalType, ProcessType,
              RunType, ExchangeType, OrderState, DurableState
<1>5. ASSUME RefuseIntent PROVE TypeOK'
  BY <1>5 DEF RefuseIntent, Leave, journal, exchange, JournalType,
              ProcessType, RunType, RunRecord, ExchangeType
<1>6. ASSUME MarkSubmitting PROVE TypeOK'
  <2>1. cur \in Intent /\ "submitting" \in OrderState
    BY <1>6 DEF MarkSubmitting, ProcessType, OrderState, DurableState
  <2>2. JournalType'
    BY <1>6, <2>1, MoveType DEF MarkSubmitting
  <2> QED
    BY <1>6, <2>2 DEF MarkSubmitting, exchange, ProcessType, RunType, RunRecord,
                      ExchangeType
<1>7. ASSUME EntryGuardChanged PROVE TypeOK'
  <2>1. /\ cur \in Intent
        /\ MoveTo(cur, "rejected") \/ MoveTo(cur, "canceled")
    BY <1>7 DEF EntryGuardChanged, Intent
  <2>2. JournalType'
    BY <1>7, <2>1, MoveType
    DEF EntryGuardChanged, OrderState, DurableState, Terminal
  <2> QED
    BY <1>7, <2>2 DEF EntryGuardChanged, Leave, exchange,
                      ProcessType, RunType, RunRecord, ExchangeType
<1>8. ASSUME FailBeforeSend PROVE TypeOK'
  <2>1. cur \in Intent /\ "rejected" \in OrderState
    BY <1>8 DEF FailBeforeSend, ProcessType, OrderState, DurableState, Terminal
  <2>2. JournalType'
    BY <1>8, <2>1, MoveType DEF FailBeforeSend
  <2> QED
    BY <1>8, <2>2 DEF FailBeforeSend, Leave, exchange, ProcessType,
                      RunType, ExchangeType
<1>9. ASSUME PassPreSend PROVE TypeOK'
  BY <1>9 DEF PassPreSend, journal, exchange, JournalType,
              ProcessType, RunType, RunRecord, ExchangeType
<1>10. ASSUME Transmit PROVE TypeOK'
  BY <1>10 DEF Transmit, journal, exchange, JournalType,
               ProcessType, RunType, RunRecord, ExchangeType
<1> QED
  BY <1>1, <1>2, <1>3, <1>4, <1>5, <1>6, <1>7, <1>8, <1>9, <1>10 DEF Submit

LEMMA RespondTypeStep == TypeOK /\ Respond => TypeOK'
<1> SUFFICES ASSUME TypeOK, Respond PROVE TypeOK'
  OBVIOUS
<1> USE OrderConstants DEF TypeOK
<1>0. "rejected" \in OrderState /\ "unknown" \in OrderState
  BY DEF OrderState, DurableState, Terminal
<1>1. ASSUME RespondAck PROVE TypeOK'
  <2>1. cur \in Intent /\ [state |-> "acknowledged", acc |-> 0] \in View
    BY <1>1 DEF RespondAck, ProcessType, View
  <2>2. JournalType'
    BY <1>1, <2>1, ApplyType DEF RespondAck
  <2> QED
    BY <1>1, <2>2 DEF RespondAck, Leave, exchange, ProcessType,
                      RunType, ExchangeType
<1>2. ASSUME ProjectionFails PROVE TypeOK'
  <2>1. RunType'
    BY <1>2, RunNoted DEF ProjectionFails, RunType
  <2>2. healthy' \in BOOLEAN
    BY <1>2 DEF ProjectionFails
  <2>3. ProcessType'
    BY <1>2, <2>2 DEF ProjectionFails, Leave, ProcessType
  <2> QED
    BY <1>2, <2>1, <2>3 DEF ProjectionFails, journal, exchange, JournalType,
                            ExchangeType
<1>3. ASSUME RespondRefused \/ RespondMalformed PROVE TypeOK'
  <2>1. cur \in Intent /\ MoveTo(cur, "rejected")
    BY <1>3 DEF RespondRefused, RespondMalformed, ProcessType
  <2>2. JournalType'
    BY <1>0, <1>3, <2>1, MoveType DEF RespondRefused, RespondMalformed
  <2> QED
    BY <1>3, <2>2 DEF RespondRefused, RespondMalformed, Leave, exchange,
                       ProcessType, RunType, RunRecord, ExchangeType
<1>4. ASSUME RespondAmbiguous PROVE TypeOK'
  <2>1. cur \in Intent /\ MoveTo(cur, "unknown")
    BY <1>4 DEF RespondAmbiguous, ProcessType
  <2>2. JournalType'
    BY <1>0, <1>4, <2>1, MoveType DEF RespondAmbiguous
  <2> QED
    BY <1>4, <2>2 DEF RespondAmbiguous, exchange, ProcessType,
                      RunType, ExchangeType
<1>5. ASSUME DegradeAfterUnknown PROVE TypeOK'
  BY <1>5 DEF DegradeAfterUnknown, Degraded, Leave, journal, exchange,
               JournalType, ProcessType, RunType, RunRecord, ExchangeType
<1> QED
  BY <1>1, <1>2, <1>3, <1>4, <1>5 DEF Respond

LEMMA ExchangeTypeStep == TypeOK /\ Exchange => TypeOK'
<1> SUFFICES ASSUME TypeOK, NEW i \in Intent,
                    Accept(i) \/ Refuse(i) \/ LoseRequest(i) \/ Fill(i) \/ CancelRest(i)
             PROVE  TypeOK'
  BY DEF Exchange
<1> USE OrderConstants DEF TypeOK
<1>1. JournalType' /\ ProcessType' /\ RunType'
  BY DEF Accept, Refuse, LoseRequest, Fill, CancelRest, journal, submit,
         JournalType, ProcessType, RunType
<1>2. ASSUME Accept(i) \/ Refuse(i) \/ LoseRequest(i) PROVE ExchangeType'
  BY <1>2 DEF Accept, Refuse, LoseRequest, exchange, ExchangeType
<1>3. ASSUME Fill(i) PROVE ExchangeType'
  <2>1. InstOf[i] \in Inst /\ xacc[i] \in 0 .. Qty /\ xacc[i] < Qty
    BY <1>3 DEF Fill, Intent, ExchangeType
  <2> QED
    BY <1>3, <2>1 DEF Fill, ExchangeType
<1>4. ASSUME CancelRest(i) PROVE ExchangeType'
  BY <1>4 DEF CancelRest, ExchangeType
<1> QED
  BY <1>1, <1>2, <1>3, <1>4

LEMMA ElsewhereTypeStep == TypeOK /\ Elsewhere => TypeOK'
<1> SUFFICES ASSUME TypeOK, Elsewhere PROVE TypeOK'
  OBVIOUS
<1> USE DEF TypeOK
<1>1. ASSUME ChangeModeElsewhere PROVE TypeOK'
  <2>1. RunType'
    BY <1>1, RunNoted DEF ChangeModeElsewhere, RunType
  <2> QED
    BY <1>1, <2>1 DEF ChangeModeElsewhere, Degraded, journal, submit, exchange,
                      JournalType, ProcessType, ExchangeType
<1>2. ASSUME NEW i \in Intent, OrderPush(i) PROVE TypeOK'
  <2>1. PICK view \in Pushed(i) : ApplyExchangeOrder(i, view)
    BY <1>2 DEF OrderPush
  <2>2. JournalType'
    BY <1>2, <2>1, PushedViews, ApplyType DEF OrderPush
  <2>3. RunType'
    BY <1>2, RunNoted DEF OrderPush, RunType
  <2> QED
    BY <1>2, <2>2, <2>3 DEF OrderPush, submit, exchange, ProcessType,
                            ExchangeType
<1> QED
  BY <1>1, <1>2 DEF Elsewhere

LEMMA RunTypeStep == TypeOK /\ RunStep => TypeOK'
<1> SUFFICES ASSUME TypeOK, RunStep PROVE TypeOK'
  OBVIOUS
<1> USE OrderConstants DEF TypeOK
<1>0. RecUnchanged
  BY DEF RunStep, RecPending, RecFills, RecOrders, RecIntents, RecBalances,
         RecFinish, RecFill, RecOrder, RecNotSubmitted, RecAmbiguous,
         RecResolve, RecUnresolved, RecExpire, RecPosition
<1>a. ProcessType' /\ ExchangeType'
  <2>1. ProcessType'
    BY <1>0 DEF RecUnchanged, submit, ProcessType
  <2>2. ExchangeType'
    BY <1>0 DEF RecUnchanged, exchange, ExchangeType
  <2> QED BY <2>1, <2>2
<1>c. \A i \in Intent : xstate[i] # "none" =>
        Detail(i) \in View /\ Detail(i).state # "none"
  BY DEF Detail, View, ExchangeType
<1>d. {"rejected", "unknown", "manual_review"} \subseteq OrderState
  BY DEF OrderState, DurableState, Terminal
<1>e. {"fills", "orders", "intents", "positions", "verdict", "pending"} \subseteq Phases
  BY DEF Phases
<1>f. {"done", "ask", "fresh", "late"} \subseteq Steps
  BY DEF Steps
<1>g. ASSUME NEW i \in Intent, NEW t \in Steps,
             \/ rec' = [rec EXCEPT !.todo[i] = t]
             \/ rec' = [rec EXCEPT !.todo[i] = t, !.safe = FALSE]
      PROVE  RunType'
  <2>1. /\ [rec EXCEPT !.todo[i] = t] \in RunRecord
        /\ [rec EXCEPT !.todo[i] = t, !.safe = FALSE] \in RunRecord
    BY RunNoted
  <2> QED
    BY <1>g, <2>1 DEF RunType
<1>1. ASSUME RecPending PROVE TypeOK'
  <2>1. NoView \in View
    BY DEF NoView, View
  <2> DEFINE pend == [i \in Intent |->
        IF xstate[i] \in {"live", "partially_filled"} THEN Detail(i) ELSE NoView]
  <2>2. pend \in [Intent -> View]
    BY <1>c, <2>1
  <2>3. rec' = [rec EXCEPT !.phase = "pending", !.pend = pend]
    BY <1>1 DEF RecPending
  <2>4. RunType'
    BY <1>e, <2>2, <2>3 DEF RunType, RunRecord
  <2> QED
    BY <1>1, <1>a, <2>4 DEF RecPending, journal, JournalType
<1>2. ASSUME RecFills \/ RecOrders \/ RecIntents \/ RecBalances \/ RecFinish PROVE TypeOK'
  <2>1. JournalType'
    BY <1>2 DEF RecFills, RecOrders, RecIntents, RecBalances, RecFinish,
                journal, JournalType
  <2>2. \A S : Ask(S) \in [Intent -> Steps]
    BY DEF Ask, Steps
  <2>3. CASE RecFills
    <3> DEFINE asked == {i \in Intent : xacc[i] > 0}
    <3>1. rec' = [rec EXCEPT !.phase = "fills", !.todo = Ask(asked)]
      BY <2>3 DEF RecFills
    <3>2. Ask(asked) \in [Intent -> Steps]
      BY <2>2
    <3> HIDE DEF asked
    <3> QED
      BY <1>a, <1>e, <2>1, <3>1, <3>2 DEF RunType, RunRecord
  <2>4. CASE RecOrders
    <3> DEFINE asked == {i \in Intent : rec.pend[i] # NoView}
    <3>1. rec' = [rec EXCEPT !.phase = "orders", !.todo = Ask(asked)]
      BY <2>4 DEF RecOrders
    <3>2. Ask(asked) \in [Intent -> Steps]
      BY <2>2
    <3> HIDE DEF asked
    <3> QED
      BY <1>a, <1>e, <2>1, <3>1, <3>2 DEF RunType, RunRecord
  <2>5. CASE RecIntents
    <3> DEFINE asked == {i \in Intent : Unsettled(i)}
    <3>1. rec' = [rec EXCEPT !.phase = "intents", !.todo = Ask(asked)]
      BY <2>5 DEF RecIntents
    <3>2. Ask(asked) \in [Intent -> Steps]
      BY <2>2
    <3> HIDE DEF asked
    <3> QED
      BY <1>a, <1>e, <2>1, <3>1, <3>2 DEF RunType, RunRecord
  <2>6. CASE RecBalances \/ RecFinish
    BY <1>a, <1>e, <2>1, <2>6 DEF RecBalances, RecFinish, RunType, RunRecord
  <2> QED
    BY <1>2, <2>3, <2>4, <2>5, <2>6
<1>3. ASSUME NEW i \in Intent, RecFill(i) PROVE TypeOK'
  <2>1. RunType'
    BY <1>3, <1>f, <1>g DEF RecFill
  <2>2. CASE xstate[i] # "none" /\ ApplyExchangeOrder(i, Detail(i))
    <3>1. JournalType'
      BY <1>3, <1>c, <2>2, ApplyType DEF RecFill
    <3> QED BY <1>a, <2>1, <3>1
  <2>3. CASE UNCHANGED journal
    <3>1. JournalType'
      BY <1>3, <2>3 DEF RecFill, journal, JournalType
    <3> QED BY <1>a, <2>1, <3>1
  <2> QED
    BY <1>3, <2>2, <2>3 DEF RecFill
<1>4. ASSUME NEW i \in Intent, RecOrder(i) PROVE TypeOK'
  <2>1. RunType'
    BY <1>4, <1>f, <1>g DEF RecOrder
  <2>2. rec.pend[i] \in View /\ rec.pend[i].state # "none"
    BY <1>4 DEF RecOrder, RunType, RunRecord
  <2>3. JournalType'
    BY <1>4, <2>2, ApplyType DEF RecOrder
  <2> QED BY <1>a, <2>1, <2>3
<1>5. ASSUME NEW i \in Intent, RecResolve(i) PROVE TypeOK'
  <2>1. RunType'
    BY <1>5, <1>f, <1>g DEF RecResolve
  <2>2. JournalType'
    BY <1>5, <1>c, ApplyType DEF RecResolve
  <2> QED BY <1>a, <2>1, <2>2
<1>6. ASSUME NEW i \in Intent,
             RecNotSubmitted(i) \/ RecAmbiguous(i) \/ RecExpire(i)
      PROVE  TypeOK'
  <2>1. RunType'
    BY <1>6, <1>f, <1>g DEF RecNotSubmitted, RecAmbiguous, RecExpire
  <2>2. /\ MoveTo(i, "rejected") \/ MoveTo(i, "unknown") \/ MoveTo(i, "manual_review")
        /\ UNCHANGED mode
    BY <1>6 DEF RecNotSubmitted, RecAmbiguous, RecExpire
  <2>3. JournalType'
    BY <1>d, <2>2, MoveType
  <2> QED BY <1>a, <2>1, <2>3
<1>7. ASSUME NEW i \in Intent, RecUnresolved(i) PROVE TypeOK'
  <2>1. RunType'
    BY <1>7, <1>f, <1>g DEF RecUnresolved
  <2>2. JournalType'
    BY <1>7 DEF RecUnresolved, journal, JournalType
  <2> QED BY <1>a, <2>1, <2>2
<1>8. ASSUME NEW p \in Inst, RecPosition(p) PROVE TypeOK'
  <2>1. rec.bal[p] \in Nat
    BY DEF RunType, RunRecord
  <2>2. JournalType' /\ RunType'
    BY <1>8, <2>1 DEF RecPosition, JournalType, RunType
  <2> QED BY <1>a, <2>2
<1> QED
  BY <1>1, <1>2, <1>3, <1>4, <1>5, <1>6, <1>7, <1>8 DEF RunStep

LEMMA TypeStep == TypeOK /\ [Next]_vars => TypeOK'
<1> SUFFICES ASSUME TypeOK, [Next]_vars PROVE TypeOK'
  OBVIOUS
<1> USE OrderConstants DEF TypeOK
<1>1. CASE Submit \/ Respond \/ Exchange \/ Elsewhere
  BY <1>1, SubmitTypeStep, RespondTypeStep, ExchangeTypeStep, ElsewhereTypeStep
<1>2. CASE Restart
  BY <1>2 DEF Restart, journal, submit, exchange, JournalType, ProcessType,
              RunType, ExchangeType
<1>3. NoRun \in RunRecord
  BY DEF NoRun, RunRecord, NoView, View, Phases, Steps
<1>4. CASE Reconcile
  <2>1. CASE RecBegin
    <3>1. PICK r \in BOOLEAN :
            rec' = [NoRun EXCEPT !.phase = "balance", !.bal = xheld, !.resume = r]
      BY <2>1 DEF RecBegin
    <3>2. "balance" \in Phases /\ xheld \in [Inst -> Nat]
      BY DEF Phases, ExchangeType
    <3>3. RunType'
      BY <1>3, <3>1, <3>2 DEF RunType, RunRecord
    <3> QED
      BY <2>1, <3>3 DEF RecBegin, RecUnchanged, journal, submit, exchange,
                        JournalType, ProcessType, ExchangeType
  <2>2. CASE RecAbort
    BY <1>3, <2>2 DEF RecAbort, journal, submit, exchange, JournalType,
                      ProcessType, RunType, ExchangeType
  <2> QED
    BY <1>4, <2>1, <2>2, RunTypeStep DEF Reconcile
<1>5. CASE Conclude
  <2>1. rec' = NoRun /\ UNCHANGED <<journal, healthy, submit, wire, exchange, sent, faults>>
    BY <1>5 DEF Conclude, Recovered, StartFails, Joined, PeriodicDone,
                ResumeDone, Verdict
  <2>2. /\ mode' \in {"starting", "ready", "degraded", "halted"}
        /\ proc' \in {"down", "recovering", "joining", "running"}
    BY <1>5 DEF Conclude, Recovered, StartFails, Joined, PeriodicDone,
                ResumeDone, Verdict, Degraded, Promoted, JournalType, ProcessType
  <2> QED
    BY <1>3, <2>1, <2>2 DEF journal, submit, exchange, JournalType, ProcessType,
                            RunType, ExchangeType
<1>6. CASE Crash
  BY <1>3, <1>6 DEF Crash, Leave, journal, exchange, JournalType, ProcessType,
                    RunType, ExchangeType
<1>7. CASE UNCHANGED vars
  BY <1>7 DEF vars, journal, submit, exchange, JournalType, ProcessType,
              RunType, ExchangeType
<1> QED
  BY <1>1, <1>2, <1>4, <1>5, <1>6, <1>7 DEF Next

\* Every variable keeps its type, for any number of intents, instruments,
\* units and faults, malformed ACKs included.
THEOREM TypeCorrect == Spec => []TypeOK
<1>1. Init => TypeOK
  BY InitType
<1>2. TypeOK /\ [Next]_vars => TypeOK'
  BY TypeStep
<1> QED
  BY <1>1, <1>2, PTL DEF Spec

-----------------------------------------------------------------------------
(* The journal.  What every step but those of the exchange leaves alone:    *)

Outside == <<refused, xstate, xacc, wire, sent>>

\* A report no older than what it says, applied whatever the state was.
LEMMA ApplyKeeps ==
  ASSUME TypeOK, JournalInv, NEW i \in Intent, NEW view \in View,
         view.state # "none", view.acc <= xacc[i], xstate[i] # "none",
         view.state \in Terminal => view = Detail(i),
         ApplyExchangeOrder(i, view), UNCHANGED Outside
  PROVE  \A j \in Intent : Traced(j)' /\ Counted(j)'
<1> SUFFICES ASSUME NEW j \in Intent PROVE Traced(j)' /\ Counted(j)'
  OBVIOUS
<1> USE DEF Outside
<1>1. Traced(j) /\ Counted(j) /\ Traced(i) /\ Counted(i)
  BY DEF JournalInv
<1>2. state[i] \notin {"created", "persisted"} /\ i \in sent
  BY <1>1 DEF Traced
<1>3. CASE Stale(i, view)
  <2>1. UNCHANGED journal
    BY <1>3 DEF ApplyExchangeOrder
  <2> QED
    BY <1>1, <2>1 DEF journal, Traced, Counted, Unsettled, OpenAtExchange
<1>4. CASE ~Stale(i, view)
  <2>1. /\ state' = [state EXCEPT ![i] = Target(i, view)]
        /\ acc' = [acc EXCEPT ![i] = view.acc]
        /\ reserved' = Release(i, Target(i, view))
    BY <1>4 DEF ApplyExchangeOrder
  <2>2. Target(i, view) \notin {"created", "persisted"}
    BY <1>2 DEF Target, View
  <2>3. state'[i] = Target(i, view) /\ acc'[i] = view.acc
    BY <2>1 DEF TypeOK, JournalType
  <2>4. CASE j # i
    <3>1. state'[j] = state[j] /\ acc'[j] = acc[j] /\ (j \in reserved' <=> j \in reserved)
      BY <2>1, <2>4 DEF TypeOK, JournalType, Release
    <3> QED
      BY <1>1, <3>1 DEF Traced, Counted, Unsettled, OpenAtExchange
  <2>5. CASE j = i
    <3>1. Traced(i)'
      BY <1>1, <1>2, <2>2, <2>3 DEF Traced
    <3>2. xacc'[i] = xacc[i] /\ xstate'[i] = xstate[i] /\ acc'[i] <= xacc'[i]
      BY <2>3
    <3>3. i \in Buys => (i \in reserved' <=> Unsettled(i)')
      BY <1>1, <1>2, <2>1, <2>2, <2>3 DEF Counted, Release, Unsettled, Target
    <3>4. state'[i] \in Terminal /\ ~MalformedAcks =>
            ~OpenAtExchange(i)' /\ acc'[i] = xacc'[i]
      <4>1. CASE state[i] \in Terminal
        \* Settled already: a report that is not stale would tell of more
        \* fills than the exchange has.
        <5> SUFFICES ASSUME ~MalformedAcks PROVE FALSE
          BY <4>1, <1>1, <2>3 DEF Counted
        <5>1. acc[i] = xacc[i] /\ acc[i] \in Nat /\ view.acc \in Nat
          BY <1>1, <4>1 DEF Counted, TypeOK, JournalType, View
        <5> QED
          BY <1>4, <4>1, <5>1 DEF Stale
      <4>2. CASE state[i] \notin Terminal /\ view.state \in Terminal
        <5>1. view = Detail(i)
          BY <4>2
        <5>2. view.acc = xacc[i] /\ xstate[i] \in Terminal
          BY <4>2, <5>1 DEF Detail
        <5>3. i \notin wire
          BY <1>1 DEF Traced
        <5> QED
          BY <2>3, <5>2, <5>3 DEF OpenAtExchange, Terminal
      <4>3. CASE state[i] \notin Terminal /\ view.state \notin Terminal
        BY <2>3, <4>3 DEF Target
      <4> QED
        BY <4>1, <4>2, <4>3
    <3> QED
      BY <1>1, <2>5, <3>1, <3>2, <3>3, <3>4 DEF Counted
  <2> QED
    BY <2>4, <2>5
<1> QED
  BY <1>3, <1>4

\* A change of state alone; to settle an order it must be nowhere.
LEMMA MoveKeeps ==
  ASSUME TypeOK, JournalInv, NEW i \in Intent,
         NEW s \in {"submitting", "rejected", "canceled", "unknown", "manual_review"},
         MoveTo(i, s), state[i] # "created", UNCHANGED Outside,
         s \in Terminal /\ ~MalformedAcks => i \notin wire /\ xstate[i] = "none"
  PROVE  \A j \in Intent : Traced(j)' /\ Counted(j)'
<1> SUFFICES ASSUME NEW j \in Intent PROVE Traced(j)' /\ Counted(j)'
  OBVIOUS
<1> USE DEF Outside
<1>1. Traced(j) /\ Counted(j) /\ Traced(i) /\ Counted(i)
  BY DEF JournalInv
<1>2. /\ state' = [state EXCEPT ![i] = s] /\ acc' = acc
      /\ reserved' = Release(i, s)
  BY DEF MoveTo
<1>3. CASE j # i
  <2>1. state'[j] = state[j] /\ (j \in reserved' <=> j \in reserved)
    BY <1>2, <1>3 DEF TypeOK, JournalType, Release
  <2> QED
    BY <1>1, <1>2, <2>1 DEF Traced, Counted, Unsettled, OpenAtExchange
<1>4. CASE j = i
  <2>1. state'[i] = s
    BY <1>2 DEF TypeOK, JournalType
  <2>2. Traced(i)'
    BY <1>1, <2>1 DEF Traced
  <2>3. i \in Buys => (i \in reserved' <=> Unsettled(i)')
    <3>1. state[i] \in Terminal => s \in Terminal
      BY DEF MoveTo, CanTransition, AllowedTransitions, TypeOK, JournalType,
             OrderState, Terminal
    <3> QED
      BY <1>1, <1>2, <2>1, <3>1 DEF Counted, Release, Unsettled
  <2>4. s \in Terminal /\ ~MalformedAcks =>
          ~OpenAtExchange(i)' /\ acc'[i] = xacc'[i]
    <3> SUFFICES ASSUME s \in Terminal, ~MalformedAcks
                 PROVE  ~OpenAtExchange(i)' /\ acc'[i] = xacc'[i]
      OBVIOUS
    <3>1. i \notin wire /\ xstate[i] = "none"
      OBVIOUS
    <3>2. acc[i] <= 0 /\ xacc[i] = 0 /\ acc[i] \in Nat
      BY <1>1, <3>1 DEF Counted, TypeOK, JournalType
    <3> QED
      BY <1>2, <3>1, <3>2 DEF OpenAtExchange
  <2> QED
    BY <1>1, <1>2, <1>4, <2>1, <2>2, <2>3, <2>4 DEF Counted
<1> QED
  BY <1>3, <1>4

LEMMA StillKeeps ==
  ASSUME JournalInv, UNCHANGED <<state, acc, reserved, Outside>>
  PROVE  \A j \in Intent : Traced(j)' /\ Counted(j)'
BY DEF JournalInv, Outside, Traced, Counted, Unsettled, OpenAtExchange

LEMMA MemoryKeeps ==
  ASSUME TypeOK, JournalInv, UNCHANGED <<xstate, xacc>>,
         rec'.pend = rec.pend \/ rec' = NoRun
  PROVE  \A j \in Intent : Remembered(j)'
<1> SUFFICES ASSUME NEW j \in Intent PROVE Remembered(j)'
  OBVIOUS
<1>1. CASE rec'.pend = rec.pend
  BY <1>1 DEF JournalInv, Remembered
<1>2. CASE rec' = NoRun
  <2>1. rec'.pend[j] = [state |-> "none", acc |-> 0]
    BY <1>2 DEF NoRun, NoView
  <2>2. 0 <= xacc'[j]
    BY DEF TypeOK, ExchangeType
  <2> QED
    BY <2>1, <2>2 DEF Remembered
<1> QED
  BY <1>1, <1>2

-----------------------------------------------------------------------------
(* Every step keeps the invariant.                                         *)

LEMMA SubmitStep == TypeOK /\ JournalInv /\ Submit => JournalInv'
<1> SUFFICES ASSUME TypeOK, JournalInv, Submit PROVE JournalInv'
  OBVIOUS
<1>1. /\ rec' = rec /\ UNCHANGED <<refused, xstate, xacc>>
      /\ \A j \in Intent : Remembered(j)'
  <2>1. rec' = rec /\ UNCHANGED <<refused, xstate, xacc>>
    BY DEF Submit, CheckBuy, PreTradeMismatch, CheckSell, CreateIntent,
           RefuseIntent, MarkSubmitting, EntryGuardChanged, FailBeforeSend,
           PassPreSend, Transmit, exchange
  <2> QED
    BY <2>1, MemoryKeeps
<1>2. pc # "idle" => cur \in Intent
  BY DEF TypeOK, ProcessType
<1>3. OneThread'
  <2>1. CASE pc # "idle"
    BY <1>1, <2>1 DEF JournalInv, OneThread
  <2>2. CASE pc = "idle"
    BY <1>1, <2>2 DEF Submit, CheckBuy, PreTradeMismatch, CheckSell, BuyEligible,
           LockFree, CreateIntent, RefuseIntent, MarkSubmitting,
           EntryGuardChanged, FailBeforeSend, PassPreSend, Transmit,
           OneThread, submit
  <2> QED
    BY <2>1, <2>2
<1>4. ASSUME NEW i \in Intent, CheckBuy(i) \/ PreTradeMismatch(i) \/ CheckSell(i)
      PROVE  JournalInv'
  <2>1. \A j \in Intent : Traced(j)' /\ Counted(j)'
    BY <1>4, StillKeeps DEF CheckBuy, PreTradeMismatch, CheckSell, journal,
                            exchange, Outside
  <2>2. ThreadAt'
    BY <1>4 DEF CheckBuy, PreTradeMismatch, CheckSell, BuyEligible, journal,
                submit, JournalInv, ThreadAt
  <2> QED
    BY <1>1, <1>3, <2>1, <2>2 DEF JournalInv
<1>5. ASSUME CreateIntent PROVE JournalInv'
  <2>1. state[cur] = "created" /\ cur \in Intent
    BY <1>2, <1>5 DEF CreateIntent, JournalInv, ThreadAt
  <2>2. ASSUME NEW j \in Intent PROVE Traced(j)' /\ Counted(j)'
    <3>1. Traced(j) /\ Counted(j)
      BY DEF JournalInv
    <3>2. UNCHANGED <<acc, wire, refused, xstate, xacc, sent>>
      BY <1>5 DEF CreateIntent, exchange
    <3>3. CASE j # cur
      <4>1. state'[j] = state[j] /\ (j \in reserved' <=> j \in reserved)
        BY <1>5, <3>3 DEF CreateIntent, TypeOK, JournalType
      <4> QED
        BY <3>1, <3>2, <4>1 DEF Traced, Counted, Unsettled, OpenAtExchange
    <3>4. CASE j = cur
      <4>1. state'[j] = "persisted" /\ (j \in Buys => j \in reserved')
        BY <1>5, <2>1, <3>4 DEF CreateIntent, TypeOK, JournalType
      <4> QED
        BY <2>1, <3>1, <3>2, <3>4, <4>1
        DEF Traced, Counted, Unsettled, Terminal
    <3> QED
      BY <3>3, <3>4
  <2>3. ThreadAt'
    BY <1>5, <2>1 DEF CreateIntent, ThreadAt, TypeOK, JournalType
  <2> QED
    BY <1>1, <1>3, <2>2, <2>3 DEF JournalInv
<1>6. ASSUME RefuseIntent \/ PassPreSend PROVE JournalInv'
  <2>1. \A j \in Intent : Traced(j)' /\ Counted(j)'
    BY <1>6, StillKeeps DEF RefuseIntent, PassPreSend, journal, exchange, Outside
  <2>2. ThreadAt'
    BY <1>6 DEF RefuseIntent, PassPreSend, Leave, journal, JournalInv, ThreadAt
  <2> QED
    BY <1>1, <1>3, <2>1, <2>2 DEF JournalInv
<1>7. ASSUME MarkSubmitting PROVE JournalInv'
  <2>1. cur \in Intent /\ state[cur] = "persisted" /\ cur \notin sent
    BY <1>2, <1>7 DEF MarkSubmitting, JournalInv, ThreadAt, Traced
  <2>2. "submitting" \notin Terminal
    BY DEF Terminal
  <2>3. \A j \in Intent : Traced(j)' /\ Counted(j)'
    BY <1>7, <2>1, <2>2, MoveKeeps DEF MarkSubmitting, exchange, Outside
  <2>4. ThreadAt'
    BY <1>7, <2>1 DEF MarkSubmitting, MoveTo, ThreadAt, TypeOK, JournalType
  <2> QED
    BY <1>1, <1>3, <2>3, <2>4 DEF JournalInv
<1>8. ASSUME EntryGuardChanged \/ FailBeforeSend PROVE JournalInv'
  <2>1. /\ cur \in Intent /\ state[cur] # "created"
        /\ cur \notin wire /\ xstate[cur] = "none"
    BY <1>2, <1>8 DEF EntryGuardChanged, FailBeforeSend, JournalInv, ThreadAt, Traced
  <2>2. MoveTo(cur, "rejected") \/ MoveTo(cur, "canceled")
    BY <1>8 DEF EntryGuardChanged, FailBeforeSend
  <2>3. UNCHANGED Outside
    BY <1>8 DEF EntryGuardChanged, FailBeforeSend, exchange, Outside
  <2>4. \A j \in Intent : Traced(j)' /\ Counted(j)'
    BY <2>1, <2>2, <2>3, MoveKeeps
  <2>5. ThreadAt'
    BY <1>8 DEF EntryGuardChanged, FailBeforeSend, Leave, ThreadAt
  <2> QED
    BY <1>1, <1>3, <2>4, <2>5 DEF JournalInv
<1>9. ASSUME Transmit PROVE JournalInv'
  <2>1. /\ cur \in Intent /\ state[cur] = "submitting" /\ cur \notin sent
        /\ wire' = wire \union {cur} /\ sent' = sent \union {cur}
        /\ UNCHANGED <<state, acc, reserved, refused, xstate, xacc>>
    BY <1>2, <1>9 DEF Transmit, JournalInv, ThreadAt, journal, exchange
  <2>2. ASSUME NEW j \in Intent PROVE Traced(j)' /\ Counted(j)'
    <3>1. Traced(j) /\ Counted(j)
      BY DEF JournalInv
    <3>2. CASE j = cur
      BY <2>1, <3>1, <3>2 DEF Traced, Counted, Unsettled, Terminal
    <3>3. CASE j # cur
      BY <2>1, <3>1, <3>3 DEF Traced, Counted, Unsettled, OpenAtExchange
    <3> QED
      BY <3>2, <3>3
  <2>3. ThreadAt'
    BY <1>9, <2>1 DEF Transmit, ThreadAt
  <2> QED
    BY <1>1, <1>3, <2>2, <2>3 DEF JournalInv
<1> QED
  BY <1>4, <1>5, <1>6, <1>7, <1>8, <1>9 DEF Submit, Intent

LEMMA RespondStep == TypeOK /\ JournalInv /\ Respond => JournalInv'
<1> SUFFICES ASSUME TypeOK, JournalInv, Respond PROVE JournalInv'
  OBVIOUS
<1>1. /\ cur \in Intent /\ rec.phase \in {"idle", "verdict"}
      /\ UNCHANGED Outside
  <2>1. pc # "idle" /\ UNCHANGED Outside
    BY DEF Respond, RespondAck, ProjectionFails, RespondRefused,
           RespondMalformed, RespondAmbiguous, DegradeAfterUnknown, exchange, Outside
  <2> QED
    BY <2>1 DEF TypeOK, ProcessType, JournalInv, OneThread
<1>2. rec'.pend = rec.pend /\ rec'.phase = rec.phase
  BY DEF Respond, RespondAck, ProjectionFails, RespondRefused,
         RespondMalformed, RespondAmbiguous, DegradeAfterUnknown,
         TypeOK, RunType, RunRecord
<1>3. OneThread' /\ \A j \in Intent : Remembered(j)'
  BY <1>1, <1>2, MemoryKeeps DEF OneThread, Outside
<1>4. ThreadAt'
  BY DEF Respond, RespondAck, ProjectionFails, RespondRefused,
         RespondMalformed, RespondAmbiguous, DegradeAfterUnknown, Leave, ThreadAt
<1>5. ASSUME pc = "awaiting"
      PROVE  state[cur] = "submitting" /\ Traced(cur) /\ Counted(cur)
  BY <1>1, <1>5 DEF JournalInv, ThreadAt
<1>6. CASE RespondAck
  <2> DEFINE view == [state |-> "acknowledged", acc |-> 0]
  <2>1. /\ view \in View /\ view.state # "none" /\ view.state \notin Terminal
        /\ view.acc <= xacc[cur] /\ xstate[cur] # "none"
    BY <1>1, <1>6, OrderConstants DEF RespondAck, View, Terminal, TypeOK, ExchangeType
  <2>2. ApplyExchangeOrder(cur, view)
    BY <1>6 DEF RespondAck
  <2> HIDE DEF view
  <2>3. \A j \in Intent : Traced(j)' /\ Counted(j)'
    BY <1>1, <2>1, <2>2, ApplyKeeps
  <2> QED
    BY <1>3, <1>4, <2>3 DEF JournalInv
<1>7. CASE RespondRefused
  <2>1. cur \notin wire /\ xstate[cur] = "none" /\ MoveTo(cur, "rejected")
    BY <1>5, <1>7 DEF RespondRefused, Traced
  <2>2. state[cur] # "created"
    BY <1>5, <1>7 DEF RespondRefused
  <2>3. \A j \in Intent : Traced(j)' /\ Counted(j)'
    BY <1>1, <2>1, <2>2, MoveKeeps
  <2> QED
    BY <1>3, <1>4, <2>3 DEF JournalInv
<1>8. CASE RespondMalformed
  <2>1. MalformedAcks /\ MoveTo(cur, "rejected") /\ state[cur] # "created"
    BY <1>5, <1>8 DEF RespondMalformed
  <2>2. \A j \in Intent : Traced(j)' /\ Counted(j)'
    BY <1>1, <2>1, MoveKeeps
  <2> QED
    BY <1>3, <1>4, <2>2 DEF JournalInv
<1>9. CASE RespondAmbiguous
  <2>1. MoveTo(cur, "unknown") /\ state[cur] # "created" /\ "unknown" \notin Terminal
    BY <1>5, <1>9 DEF RespondAmbiguous, Terminal
  <2>2. \A j \in Intent : Traced(j)' /\ Counted(j)'
    BY <1>1, <2>1, MoveKeeps
  <2> QED
    BY <1>3, <1>4, <2>2 DEF JournalInv
<1>10. CASE ProjectionFails \/ DegradeAfterUnknown
  <2>1. UNCHANGED journal
    BY <1>10 DEF ProjectionFails, DegradeAfterUnknown
  <2>2. \A j \in Intent : Traced(j)' /\ Counted(j)'
    BY <1>1, <2>1, StillKeeps DEF journal
  <2> QED
    BY <1>3, <1>4, <2>2 DEF JournalInv
<1> QED
  BY <1>6, <1>7, <1>8, <1>9, <1>10 DEF Respond

LEMMA ExchangeStep == TypeOK /\ JournalInv /\ Exchange => JournalInv'
<1> SUFFICES ASSUME TypeOK, JournalInv, NEW i \in Intent,
                    Accept(i) \/ Refuse(i) \/ LoseRequest(i) \/ Fill(i) \/ CancelRest(i)
             PROVE  JournalInv'
  BY DEF Exchange
<1>1. OneThread' /\ ThreadAt'
  BY DEF Accept, Refuse, LoseRequest, Fill, CancelRest, journal, submit,
         exchange, JournalInv, OneThread, ThreadAt
<1>2. UNCHANGED <<state, acc, reserved, rec, sent>>
  BY DEF Accept, Refuse, LoseRequest, Fill, CancelRest, journal
<1>3. ASSUME NEW j \in Intent
      PROVE  Traced(j)' /\ Counted(j)' /\ Remembered(j)'
  <2>1. /\ Traced(j) /\ Counted(j) /\ Remembered(j)
        /\ Traced(i) /\ Counted(i) /\ Remembered(i)
        /\ xacc[j] \in Nat /\ acc[j] \in Nat /\ rec.pend[j].acc \in Nat
    BY DEF JournalInv, TypeOK, JournalType, ExchangeType, RunType, RunRecord, View
  <2>2. CASE j # i
    <3>1. /\ j \in wire' <=> j \in wire
          /\ j \in refused' <=> j \in refused
          /\ xstate'[j] = xstate[j] /\ xacc'[j] = xacc[j]
      BY <2>2 DEF Accept, Refuse, LoseRequest, Fill, CancelRest, exchange,
                  TypeOK, ExchangeType
    <3> QED
      BY <1>2, <2>1, <3>1
      DEF Traced, Counted, Remembered, Unsettled, OpenAtExchange
  <2>3. CASE j = i /\ (Accept(i) \/ Refuse(i) \/ LoseRequest(i))
    BY <1>2, <2>1, <2>3
    DEF Accept, Refuse, LoseRequest, exchange, TypeOK, ExchangeType,
        Traced, Counted, Remembered, Unsettled, OpenAtExchange
  <2>4. CASE j = i /\ (Fill(i) \/ CancelRest(i))
    <3>1. /\ xstate[i] \in {"live", "partially_filled"}
          /\ xstate'[i] \notin {"none"} /\ xacc[i] <= xacc'[i]
          /\ i \in wire' <=> i \in wire
          /\ i \in refused' <=> i \in refused
      BY <2>1, <2>4 DEF Fill, CancelRest, TypeOK, ExchangeType
    <3>2. /\ i \in sent /\ i \notin wire /\ i \notin refused
          /\ state[i] \in Terminal => MalformedAcks
      BY <2>1, <3>1 DEF Traced, Counted, OpenAtExchange
    <3>3. acc[i] <= xacc'[i] /\ rec.pend[i].acc <= xacc'[i]
      <4>1. xacc'[i] \in Nat
        BY <2>1, <2>4 DEF Fill, CancelRest, TypeOK, ExchangeType
      <4> QED
        BY <2>1, <2>4, <3>1, <4>1 DEF Counted, Remembered
    <3> QED
      BY <1>2, <2>1, <2>4, <3>1, <3>2, <3>3
      DEF Traced, Counted, Remembered, Unsettled
  <2> QED
    BY <2>2, <2>3, <2>4
<1> QED
  BY <1>1, <1>3 DEF JournalInv

\* What pushes and runs have in common: the thread is outside submit.
LEMMA Quietly ==
  ASSUME TypeOK, JournalInv, UNCHANGED <<pc, cur>>,
         pc = "idle"
  PROVE  OneThread' /\ ThreadAt'
BY DEF OneThread, ThreadAt

LEMMA ElsewhereStep == TypeOK /\ JournalInv /\ Elsewhere => JournalInv'
<1> SUFFICES ASSUME TypeOK, JournalInv, Elsewhere PROVE JournalInv'
  OBVIOUS
<1>1. /\ UNCHANGED Outside /\ UNCHANGED <<pc, cur>>
      /\ rec'.pend = rec.pend /\ rec'.phase = rec.phase
  BY DEF Elsewhere, ChangeModeElsewhere, OrderPush, submit, exchange, Outside,
         TypeOK, RunType, RunRecord
<1>2. \A j \in Intent : Remembered(j)'
  BY <1>1, MemoryKeeps DEF Outside
<1>3. CASE ChangeModeElsewhere
  <2>1. \A j \in Intent : Traced(j)' /\ Counted(j)'
    BY <1>1, <1>3, StillKeeps DEF ChangeModeElsewhere, journal
  <2>2. OneThread' /\ ThreadAt'
    BY <1>1, <1>3 DEF ChangeModeElsewhere, journal, Outside, JournalInv,
                      OneThread, ThreadAt
  <2> QED
    BY <1>2, <2>1, <2>2 DEF JournalInv
<1>4. ASSUME NEW i \in Intent, OrderPush(i) PROVE JournalInv'
  <2>1. PICK view \in Pushed(i) : ApplyExchangeOrder(i, view)
    BY <1>4 DEF OrderPush
  <2>2. /\ view \in View /\ view.state # "none" /\ view.acc <= xacc[i]
        /\ xstate[i] # "none"
        /\ view.state \in Terminal => view = Detail(i)
    BY PushedViews
  <2>3. \A j \in Intent : Traced(j)' /\ Counted(j)'
    BY <1>1, <2>1, <2>2, ApplyKeeps
  <2>4. OneThread' /\ ThreadAt'
    BY <1>1, <1>4, Quietly DEF OrderPush, LockFree
  <2> QED
    BY <1>2, <2>3, <2>4 DEF JournalInv
<1> QED
  BY <1>3, <1>4 DEF Elsewhere

LEMMA RunStepKeeps == TypeOK /\ JournalInv /\ RunStep => JournalInv'
<1> SUFFICES ASSUME TypeOK, JournalInv, RunStep PROVE JournalInv'
  OBVIOUS
<1>1. RecUnchanged /\ rec.phase \notin {"idle", "verdict"}
  BY DEF RunStep, RecPending, RecFills, RecOrders, RecIntents, RecBalances,
         RecFinish, RecFill, RecOrder, RecNotSubmitted, RecAmbiguous, RecResolve,
         RecUnresolved, RecExpire, RecPosition, Resolvable, InRun
<1>2. UNCHANGED Outside /\ UNCHANGED <<pc, cur>> /\ pc = "idle"
  BY <1>1 DEF RecUnchanged, submit, exchange, Outside, JournalInv, OneThread
<1>3. OneThread' /\ ThreadAt'
  BY <1>2, Quietly
<1>4. ASSUME rec'.pend = rec.pend PROVE \A j \in Intent : Remembered(j)'
  BY <1>2, <1>4, MemoryKeeps DEF Outside
<1>5. ASSUME NEW i \in Intent, xstate[i] # "none"
      PROVE  /\ Detail(i) \in View /\ Detail(i).state # "none"
             /\ Detail(i).acc <= xacc[i]
  BY <1>5 DEF Detail, View, TypeOK, ExchangeType
<1>6. ASSUME UNCHANGED <<state, acc, reserved>>
      PROVE  \A j \in Intent : Traced(j)' /\ Counted(j)'
  BY <1>2, <1>6, StillKeeps
<1>7. CASE RecPending
  <2>1. \A j \in Intent : Traced(j)' /\ Counted(j)'
    BY <1>6, <1>7 DEF RecPending, journal
  <2>2. ASSUME NEW j \in Intent PROVE Remembered(j)'
    <3>1. rec'.pend[j] = IF xstate[j] \in {"live", "partially_filled"}
                         THEN Detail(j) ELSE NoView
      BY <1>7 DEF RecPending, TypeOK, RunType, RunRecord
    <3>2. xacc[j] \in Nat
      BY DEF TypeOK, ExchangeType
    <3> QED
      BY <1>2, <3>1, <3>2 DEF Detail, NoView, Remembered, Outside
  <2> QED
    BY <1>3, <2>1, <2>2 DEF JournalInv
<1>8. CASE RecFills \/ RecOrders \/ RecIntents \/ RecBalances \/ RecFinish
  <2>1. UNCHANGED journal /\ rec'.pend = rec.pend
    BY <1>8 DEF RecFills, RecOrders, RecIntents, RecBalances, RecFinish,
                TypeOK, RunType, RunRecord
  <2> QED
    BY <1>3, <1>4, <1>6, <2>1 DEF journal, JournalInv
<1>9. ASSUME NEW i \in Intent,
             RecFill(i) \/ RecOrder(i) \/ RecResolve(i) \/ RecUnresolved(i)
      PROVE  JournalInv'
  <2>1. rec'.pend = rec.pend
    BY <1>9 DEF RecFill, RecOrder, RecResolve, RecUnresolved, TypeOK, RunType,
                RunRecord
  <2>2. CASE UNCHANGED journal
    BY <1>3, <1>4, <1>6, <2>1, <2>2 DEF journal, JournalInv
  <2>3. CASE xstate[i] # "none" /\ ApplyExchangeOrder(i, Detail(i))
    <3>1. \A j \in Intent : Traced(j)' /\ Counted(j)'
      BY <1>2, <1>5, <2>3, ApplyKeeps
    <3> QED
      BY <1>3, <1>4, <2>1, <3>1 DEF JournalInv
  <2>4. CASE RecOrder(i)
    <3>1. /\ rec.pend[i] \in View /\ rec.pend[i].state \notin Terminal
          /\ rec.pend[i].state # "none" /\ rec.pend[i].acc <= xacc[i]
          /\ xstate[i] # "none" /\ ApplyExchangeOrder(i, rec.pend[i])
      BY <2>4 DEF RecOrder, JournalInv, Remembered, TypeOK, RunType, RunRecord,
                  Terminal
    <3>2. \A j \in Intent : Traced(j)' /\ Counted(j)'
      BY <1>2, <3>1, ApplyKeeps
    <3> QED
      BY <1>3, <1>4, <2>1, <3>2 DEF JournalInv
  <2> QED
    BY <1>9, <2>2, <2>3, <2>4 DEF RecFill, RecResolve, RecUnresolved
<1>10. ASSUME NEW i \in Intent,
              RecNotSubmitted(i) \/ RecAmbiguous(i) \/ RecExpire(i)
       PROVE  JournalInv'
  <2>1. rec'.pend = rec.pend
    BY <1>10 DEF RecNotSubmitted, RecAmbiguous, RecExpire, TypeOK, RunType,
                 RunRecord
  <2>2. Traced(i)
    BY DEF JournalInv
  <2>3. CASE RecNotSubmitted(i)
    <3>1. /\ MoveTo(i, "rejected") /\ state[i] # "created"
          /\ i \notin wire /\ xstate[i] = "none"
      BY <2>2, <2>3 DEF RecNotSubmitted, Traced
    <3> QED
      BY <1>2, <1>3, <1>4, <2>1, <3>1, MoveKeeps DEF JournalInv
  <2>4. CASE RecAmbiguous(i) \/ RecExpire(i)
    <3>1. PICK s \in {"unknown", "manual_review"} : MoveTo(i, s)
      BY <2>4 DEF RecAmbiguous, RecExpire
    <3>2. state[i] # "created" /\ s \notin Terminal
      BY <3>1 DEF MoveTo, CanTransition, AllowedTransitions, OrderState, Terminal
    <3> QED
      BY <1>2, <1>3, <1>4, <2>1, <3>1, <3>2, MoveKeeps DEF JournalInv
  <2> QED
    BY <1>10, <2>3, <2>4
<1>11. ASSUME NEW p \in Inst, RecPosition(p) PROVE JournalInv'
  BY <1>3, <1>4, <1>6, <1>11 DEF RecPosition, JournalInv
<1> QED
  BY <1>7, <1>8, <1>9, <1>10, <1>11 DEF RunStep

LEMMA InitJournal == Init => JournalInv
<1> SUFFICES ASSUME Init PROVE JournalInv
  OBVIOUS
<1>1. OneThread /\ ThreadAt
  BY DEF Init, OneThread, ThreadAt
<1>2. ASSUME NEW i \in Intent PROVE Traced(i) /\ Counted(i) /\ Remembered(i)
  <2>1. Traced(i) /\ Counted(i)
    BY DEF Init, Traced, Counted, Unsettled, Terminal
  <2>2. rec.pend[i] = [state |-> "none", acc |-> 0] /\ xacc[i] = 0
    BY DEF Init, NoRun, NoView
  <2> QED
    BY <2>1, <2>2 DEF Remembered
<1> QED
  BY <1>1, <1>2 DEF JournalInv

LEMMA JournalStep == TypeOK /\ JournalInv /\ [Next]_vars => JournalInv'
<1> SUFFICES ASSUME TypeOK, JournalInv, [Next]_vars PROVE JournalInv'
  OBVIOUS
<1>1. CASE Submit \/ Respond \/ Exchange \/ Elsewhere
  BY <1>1, SubmitStep, RespondStep, ExchangeStep, ElsewhereStep
<1>2. CASE RunStep
  BY <1>2, RunStepKeeps
<1>3. CASE Restart \/ RecBegin \/ RecAbort \/ Conclude \/ Crash \/ UNCHANGED vars
  <2>1. /\ UNCHANGED journal /\ UNCHANGED Outside
        /\ UNCHANGED <<pc, cur>> \/ pc' = "idle"
    BY <1>3 DEF Restart, RecBegin, RecUnchanged, RecAbort, Conclude, Recovered,
                StartFails, Joined, PeriodicDone, ResumeDone, Crash, Leave,
                vars, submit, exchange, Outside
  <2>2. \A j \in Intent : Traced(j)' /\ Counted(j)'
    BY <2>1, StillKeeps DEF journal
  <2>3. ThreadAt'
    BY <2>1 DEF journal, Outside, JournalInv, ThreadAt
  <2>4. rec' = rec \/ rec' = NoRun \/ RecBegin
    BY <1>3 DEF Restart, RecAbort, Conclude, Recovered, StartFails, Joined,
                PeriodicDone, ResumeDone, Verdict, Crash, vars
  <2>5. \/ rec' = rec \/ rec' = NoRun
        \/ pc' = "idle" /\ rec'.pend = NoRun.pend
    BY <2>4 DEF RecBegin, RecUnchanged, submit, NoRun
  <2>6. OneThread'
    BY <2>1, <2>5 DEF JournalInv, OneThread, NoRun
  <2>7. ASSUME NEW j \in Intent PROVE Remembered(j)'
    <3>1. CASE rec' = rec \/ rec' = NoRun
      BY <2>1, <3>1, MemoryKeeps DEF Outside
    <3>2. CASE rec'.pend = NoRun.pend
      <4>1. rec'.pend[j] = [state |-> "none", acc |-> 0]
        BY <3>2 DEF NoRun, NoView
      <4>2. 0 <= xacc'[j]
        BY <2>1 DEF Outside, TypeOK, ExchangeType
      <4> QED
        BY <4>1, <4>2 DEF Remembered
    <3> QED
      BY <2>5, <3>1, <3>2
  <2> QED
    BY <2>2, <2>3, <2>6, <2>7 DEF JournalInv
<1> QED
  BY <1>1, <1>2, <1>3 DEF Next, Reconcile

-----------------------------------------------------------------------------
(* The theorems.                                                           *)

\* In every reachable state, with or without malformed ACKs.
THEOREM JournalSound == Spec => []JournalInv
<1>1. Init => TypeOK /\ JournalInv
  BY InitType, InitJournal
<1>2. TypeOK /\ JournalInv /\ [Next]_vars => TypeOK' /\ JournalInv'
  BY TypeStep, JournalStep
<1> QED
  BY <1>1, <1>2, PTL DEF Spec

\* No order ever reaches the transport without a durable row that says it may
\* have: MarkSubmitting commits before Transmit, whatever crashes in between.
THEOREM SentIsRecorded == Spec => []NothingSentUnrecorded
<1>1. TypeOK /\ JournalInv => NothingSentUnrecorded
  BY DEF TypeOK, ProcessType, JournalInv, Traced, NothingSentUnrecorded
<1> QED
  BY <1>1, TypeCorrect, JournalSound, PTL

\* An order that can fill is one the journal still counts on.
LEMMA OpenIsBooked ==
  ASSUME ~MalformedAcks, TypeOK, JournalInv, NEW i \in Intent, OpenAtExchange(i)
  PROVE  Unsettled(i) /\ (i \in Buys => i \in reserved)
<1>1. Traced(i) /\ Counted(i)
  BY DEF JournalInv
<1>2. state[i] # "created" /\ state[i] \notin Terminal
  BY <1>1 DEF Traced, Counted, OpenAtExchange
<1> QED
  BY <1>1, <1>2 DEF Counted, Unsettled

\* As long as no ACK is malformed, an order that can still fill is unsettled
\* in the journal, and a BUY among them holds its reservation.
THEOREM OpenIsTracked ==
  ASSUME ~MalformedAcks
  PROVE  Spec => []OpenOrdersTracked
<1>1. TypeOK /\ JournalInv => OpenOrdersTracked
  BY OpenIsBooked DEF OpenOrdersTracked
<1> QED
  BY <1>1, TypeCorrect, JournalSound, PTL

\* As long as no ACK is malformed, a settled intent has been told of every
\* fill it will ever have: stale, repeated and overtaken reports included.
THEOREM SettledAccounts ==
  ASSUME ~MalformedAcks
  PROVE  Spec => []SettledIsAccounted
<1>1. TypeOK /\ JournalInv => SettledIsAccounted
  BY DEF TypeOK, ExchangeType, JournalInv, Counted, OpenAtExchange,
         SettledIsAccounted
<1> QED
  BY <1>1, TypeCorrect, JournalSound, PTL

\* No step of submit, of a run or of a recovery hands an intent to the
\* transport a second time.
THEOREM SentOnce == Spec => NeverResent
<1>1. TypeOK /\ JournalInv /\ [Next]_vars =>
        [\A i \in sent : i \in wire' => i \in wire]_vars
  <2> SUFFICES ASSUME JournalInv, Next, NEW i \in sent, i \in wire'
               PROVE  i \in wire
    OBVIOUS
  <2>1. CASE Transmit
    BY <2>1 DEF Transmit, JournalInv, ThreadAt
  <2>2. CASE Exchange
    BY <2>2 DEF Exchange, Accept, Refuse, LoseRequest, Fill, CancelRest, exchange
  <2>3. CASE ~Transmit /\ ~Exchange
    BY <2>3 DEF Next, Submit, CheckBuy, PreTradeMismatch, CheckSell, CreateIntent,
         RefuseIntent, MarkSubmitting, EntryGuardChanged, FailBeforeSend, PassPreSend,
         Respond, RespondAck, ProjectionFails, RespondRefused, RespondMalformed,
         RespondAmbiguous, DegradeAfterUnknown, Elsewhere, ChangeModeElsewhere,
         OrderPush, Restart, Reconcile, RecBegin, RecUnchanged, RecAbort, RunStep,
         RecPending, RecFills, RecOrders, RecIntents, RecBalances, RecFinish,
         RecFill, RecOrder, RecNotSubmitted, RecAmbiguous, RecResolve, RecUnresolved,
         RecExpire, RecPosition, Conclude, Recovered, StartFails, Joined,
         PeriodicDone, ResumeDone, Crash
  <2> QED
    BY <2>1, <2>2, <2>3
<1> QED
  BY <1>1, TypeCorrect, JournalSound, PTL DEF Spec, NeverResent

-----------------------------------------------------------------------------
(* OrderExecution implements RiskLedger: every step of the process, the     *)
(* network and the exchange books, sends, closes or settles one order of    *)
(* the ledger, or changes nothing in it.                                    *)

Exposed == {i \in Intent : OpenAtExchange(i)}

LedgerBook == [i \in Intent |-> Standing(i)]

LedgerStep == [Ledger!Next]_(Ledger!lvars)

\* A step on the journal of one intent alone is the ledger's, too.
LEMMA StandingMoves ==
  ASSUME TypeOK, NEW i \in Intent, NEW s \in OrderState,
         state' = [state EXCEPT ![i] = s],
         UNCHANGED <<wire, xstate, sent>>,
         \/ state[i] = "created" /\ s = "persisted"
         \/ state[i] = s
         \/ Unsettled(i) /\ s \notin Terminal \union {"created"}
         \/ Unsettled(i) /\ s \in Terminal /\ ~OpenAtExchange(i)
  PROVE  LedgerStep
<1>1. Exposed' = Exposed /\ sent' = sent
  BY DEF Exposed, OpenAtExchange
<1>2. \A j \in Intent : state'[j] = IF j = i THEN s ELSE state[j]
  BY DEF TypeOK, JournalType
<1>3. CASE Standing(i)' = Standing(i)
  <2>1. LedgerBook' = LedgerBook
    BY <1>2, <1>3 DEF LedgerBook, Standing
  <2> QED
    BY <1>1, <2>1 DEF LedgerStep, Ledger!lvars, LedgerBook, Exposed
<1>4. LedgerBook' = [LedgerBook EXCEPT ![i] = Standing(i)'] /\ LedgerBook[i] = Standing(i)
  <2>1. \A j \in Intent : Standing(j)' = IF j = i THEN Standing(i)' ELSE Standing(j)
    BY <1>2 DEF Standing
  <2> HIDE DEF Standing
  <2>2. LedgerBook' = [j \in Intent |-> IF j = i THEN Standing(i)' ELSE Standing(j)]
    BY <2>1 DEF LedgerBook
  <2> QED
    BY <2>2 DEF LedgerBook
<1>5. CASE state[i] = "created" /\ s = "persisted"
  <2>1. Standing(i) = "new" /\ Standing(i)' = "booked"
    BY <1>2, <1>5 DEF Standing, Terminal
  <2>2. Ledger!Book(i)
    BY <1>1, <1>4, <2>1 DEF Ledger!Book, LedgerBook, Exposed
  <2> QED
    BY <2>2 DEF LedgerStep, Ledger!Next
<1>6. CASE state[i] = s
  BY <1>2, <1>3, <1>6 DEF Standing
<1>7. CASE Unsettled(i) /\ s \notin Terminal \union {"created"}
  BY <1>2, <1>3, <1>7 DEF Standing, Unsettled
<1>8. CASE Unsettled(i) /\ s \in Terminal /\ ~OpenAtExchange(i)
  <2>1. Standing(i) = "booked" /\ Standing(i)' = "settled"
    BY <1>2, <1>8 DEF Standing, Unsettled, Terminal
  <2>2. i \notin Exposed
    BY <1>8 DEF Exposed
  <2>3. Ledger!Settle(i)
    BY <1>1, <1>4, <2>1, <2>2 DEF Ledger!Settle, LedgerBook, Exposed
  <2> QED
    BY <2>3 DEF LedgerStep, Ledger!Next
<1> QED
  BY <1>5, <1>6, <1>7, <1>8

LEMMA StandingRests ==
  ASSUME UNCHANGED <<state, wire, xstate, sent>>
  PROVE  LedgerStep
<1>1. LedgerBook' = LedgerBook /\ Exposed' = Exposed /\ sent' = sent
  BY DEF LedgerBook, Standing, Exposed, OpenAtExchange
<1> QED
  BY <1>1 DEF LedgerStep, Ledger!lvars, LedgerBook, Exposed

\* apply_exchange_order settles an intent only on a report that closes it.
LEMMA ApplyMoves ==
  ASSUME ~MalformedAcks, TypeOK, JournalInv, NEW i \in Intent,
         NEW view \in View, view.state # "none", view.acc <= xacc[i],
         xstate[i] # "none", view.state \in Terminal => view = Detail(i),
         ApplyExchangeOrder(i, view), UNCHANGED <<wire, xstate, sent>>
  PROVE  LedgerStep
<1>1. Traced(i)
  BY DEF JournalInv
<1>2. state[i] \notin {"created", "persisted"} /\ i \notin wire
  BY <1>1 DEF Traced
<1>3. CASE Stale(i, view)
  BY <1>3, StandingRests DEF ApplyExchangeOrder, journal
<1>4. CASE ~Stale(i, view)
  <2>1. state' = [state EXCEPT ![i] = Target(i, view)]
    BY <1>4 DEF ApplyExchangeOrder
  <2>2. Target(i, view) \in OrderState \ {"created"}
    BY <1>2 DEF Target, View, OrderState, DurableState, Terminal
  <2>3. view.state \in Terminal => ~OpenAtExchange(i)
    BY <1>2 DEF Detail, OpenAtExchange, Terminal
  <2>4. \/ state[i] = Target(i, view)
        \/ Unsettled(i) /\ Target(i, view) \notin Terminal \union {"created"}
        \/ Unsettled(i) /\ Target(i, view) \in Terminal /\ ~OpenAtExchange(i)
    BY <1>2, <2>2, <2>3 DEF Target, Unsettled
  <2> QED
    BY <2>1, <2>2, <2>4, StandingMoves
<1> QED
  BY <1>3, <1>4

\* A change of state alone settles an intent only when it is nowhere.
LEMMA MoveMoves ==
  ASSUME TypeOK, NEW i \in Intent,
         NEW s \in {"submitting", "rejected", "canceled", "unknown", "manual_review"},
         MoveTo(i, s), state[i] # "created", UNCHANGED <<wire, xstate, sent>>,
         s \in Terminal => ~OpenAtExchange(i)
  PROVE  LedgerStep
<1>1. s \in OrderState /\ s # "created"
  BY DEF OrderState, DurableState, Terminal
<1>2. state' = [state EXCEPT ![i] = s]
  BY DEF MoveTo
<1>3. state[i] = s \/ Unsettled(i)
  BY DEF MoveTo, CanTransition, AllowedTransitions, Unsettled, TypeOK,
         JournalType, OrderState, Terminal
<1> QED
  BY <1>1, <1>2, <1>3, StandingMoves

-----------------------------------------------------------------------------
(* Every step maps to a step of the ledger or to a stutter.                *)

LEMMA SubmitLedger ==
  ASSUME ~MalformedAcks, TypeOK, JournalInv, Submit PROVE LedgerStep
<1>1. pc # "idle" => cur \in Intent /\ Traced(cur)
  BY DEF TypeOK, ProcessType, JournalInv
<1>2. CASE CreateIntent
  <2>1. state[cur] = "created" /\ cur \in Intent
    BY <1>1, <1>2 DEF CreateIntent, JournalInv, ThreadAt
  <2>2. "persisted" \in OrderState
    BY DEF OrderState, DurableState
  <2>3. UNCHANGED <<wire, xstate, sent>>
    BY <1>2 DEF CreateIntent, exchange
  <2>4. state' = [state EXCEPT ![cur] = "persisted"]
    BY <1>2 DEF CreateIntent
  <2> QED
    BY <2>1, <2>2, <2>3, <2>4, StandingMoves
<1>3. CASE MarkSubmitting \/ EntryGuardChanged \/ FailBeforeSend
  <2>1. /\ cur \in Intent /\ state[cur] # "created" /\ ~OpenAtExchange(cur)
        /\ UNCHANGED <<wire, xstate, sent>>
    BY <1>1, <1>3 DEF MarkSubmitting, EntryGuardChanged, FailBeforeSend, exchange,
                      JournalInv, ThreadAt, Traced, OpenAtExchange
  <2>2. \/ MoveTo(cur, "submitting") \/ MoveTo(cur, "rejected")
        \/ MoveTo(cur, "canceled")
    BY <1>3 DEF MarkSubmitting, EntryGuardChanged, FailBeforeSend
  <2> QED
    BY <2>1, <2>2, MoveMoves
<1>4. CASE Transmit
  <2>1. /\ cur \in Intent /\ state[cur] = "submitting" /\ cur \notin sent
        /\ wire' = wire \union {cur} /\ sent' = sent \union {cur}
        /\ UNCHANGED <<state, xstate>>
    BY <1>1, <1>4 DEF Transmit, JournalInv, ThreadAt, journal, exchange
  <2>2. /\ Exposed' = Exposed \union {cur} /\ LedgerBook' = LedgerBook
        /\ LedgerBook[cur] = "booked"
    BY <2>1 DEF Exposed, OpenAtExchange, LedgerBook, Standing, Terminal
  <2>3. Ledger!Send(cur)
    BY <2>1, <2>2 DEF Ledger!Send, LedgerBook, Exposed
  <2> QED
    BY <2>1, <2>3 DEF LedgerStep, Ledger!Next
<1>5. CASE RefuseIntent \/ PassPreSend
  BY <1>5, StandingRests DEF RefuseIntent, PassPreSend, journal, exchange
<1>6. CASE \/ \E i \in Buys : CheckBuy(i) \/ PreTradeMismatch(i)
           \/ \E i \in Sells : CheckSell(i)
  BY <1>6, StandingRests DEF CheckBuy, PreTradeMismatch, CheckSell, journal, exchange
<1> QED
  BY <1>2, <1>3, <1>4, <1>5, <1>6 DEF Submit

LEMMA RespondLedger ==
  ASSUME ~MalformedAcks, TypeOK, JournalInv, Respond PROVE LedgerStep
<1>1. /\ pc # "idle" /\ UNCHANGED <<wire, xstate, sent>>
      /\ cur \in Intent /\ Traced(cur)
  <2>1. pc # "idle" /\ UNCHANGED <<wire, xstate, sent>>
    BY DEF Respond, RespondAck, ProjectionFails, RespondRefused,
           RespondMalformed, RespondAmbiguous, DegradeAfterUnknown, exchange
  <2> QED
    BY <2>1 DEF TypeOK, ProcessType, JournalInv
<1>2. CASE RespondAck
  <2> DEFINE view == [state |-> "acknowledged", acc |-> 0]
  <2>1. /\ view \in View /\ view.state # "none" /\ view.state \notin Terminal
        /\ view.acc <= xacc[cur] /\ xstate[cur] # "none"
    BY <1>1, <1>2, OrderConstants DEF RespondAck, View, Terminal, TypeOK, ExchangeType
  <2>2. ApplyExchangeOrder(cur, view)
    BY <1>2 DEF RespondAck
  <2> HIDE DEF view
  <2> QED
    BY <1>1, <2>1, <2>2, ApplyMoves
<1>3. CASE RespondRefused \/ RespondAmbiguous
  <2>1. /\ state[cur] = "submitting" /\ "unknown" \notin Terminal
        /\ \/ MoveTo(cur, "rejected") /\ ~OpenAtExchange(cur)
           \/ MoveTo(cur, "unknown")
    BY <1>1, <1>3 DEF RespondRefused, RespondAmbiguous, JournalInv, ThreadAt, Traced,
                      OpenAtExchange, Terminal
  <2> QED
    BY <1>1, <2>1, MoveMoves
<1>4. CASE ProjectionFails \/ DegradeAfterUnknown
  BY <1>1, <1>4, StandingRests DEF ProjectionFails, DegradeAfterUnknown, journal
<1> QED
  BY <1>2, <1>3, <1>4 DEF Respond, RespondMalformed

LEMMA ExchangeLedger ==
  ASSUME TypeOK, JournalInv, Exchange PROVE LedgerStep
<1>1. PICK i \in Intent :
        Accept(i) \/ Refuse(i) \/ LoseRequest(i) \/ Fill(i) \/ CancelRest(i)
  BY DEF Exchange
<1>2. UNCHANGED <<state, sent>> /\ LedgerBook' = LedgerBook
  BY <1>1 DEF Accept, Refuse, LoseRequest, Fill, CancelRest, journal,
              LedgerBook, Standing
<1>3. /\ OpenAtExchange(i)
      /\ \A j \in Intent \ {i} : OpenAtExchange(j)' <=> OpenAtExchange(j)
  BY <1>1 DEF Accept, Refuse, LoseRequest, Fill, CancelRest, exchange, OpenAtExchange,
              TypeOK, ExchangeType
<1>4. CASE OpenAtExchange(i)'
  <2>1. Exposed' = Exposed
    BY <1>3, <1>4 DEF Exposed
  <2> QED
    BY <1>2, <2>1 DEF LedgerStep, Ledger!lvars, LedgerBook, Exposed
<1>5. CASE ~OpenAtExchange(i)'
  <2>1. i \in Exposed /\ Exposed' = Exposed \ {i}
    BY <1>3, <1>5 DEF Exposed
  <2>2. Ledger!Close(i)
    BY <1>2, <2>1 DEF Ledger!Close, LedgerBook, Exposed
  <2> QED
    BY <2>2 DEF LedgerStep, Ledger!Next
<1> QED
  BY <1>4, <1>5

LEMMA RunLedger ==
  ASSUME ~MalformedAcks, TypeOK, JournalInv, RunStep PROVE LedgerStep
<1>1. UNCHANGED <<wire, xstate, sent>>
  BY DEF RunStep, RecPending, RecFills, RecOrders, RecIntents, RecBalances,
         RecFinish, RecFill, RecOrder, RecNotSubmitted, RecAmbiguous, RecResolve,
         RecUnresolved, RecExpire, RecPosition, RecUnchanged, exchange
<1>2. CASE UNCHANGED journal \/ UNCHANGED state
  BY <1>1, <1>2, StandingRests DEF journal
<1>3. CASE RecPending \/ RecFills \/ RecOrders \/ RecIntents \/ RecBalances \/ RecFinish
  BY <1>2, <1>3 DEF RecPending, RecFills, RecOrders, RecIntents, RecBalances, RecFinish
<1>4. ASSUME NEW i \in Intent,
             RecFill(i) \/ RecOrder(i) \/ RecResolve(i) \/ RecUnresolved(i)
      PROVE  LedgerStep
  <2>1. CASE xstate[i] # "none" /\ ApplyExchangeOrder(i, Detail(i))
    <3>1. /\ Detail(i) \in View /\ Detail(i).state # "none"
          /\ Detail(i).acc <= xacc[i]
      BY <2>1 DEF Detail, View, TypeOK, ExchangeType
    <3> QED
      BY <1>1, <2>1, <3>1, ApplyMoves
  <2>2. CASE RecOrder(i)
    <3>1. /\ rec.pend[i] \in View /\ rec.pend[i].state \notin Terminal
          /\ rec.pend[i].state # "none" /\ rec.pend[i].acc <= xacc[i]
          /\ xstate[i] # "none" /\ ApplyExchangeOrder(i, rec.pend[i])
      BY <2>2 DEF RecOrder, JournalInv, Remembered, TypeOK, RunType, RunRecord,
                  Terminal
    <3> QED
      BY <1>1, <3>1, ApplyMoves
  <2> QED
    BY <1>2, <1>4, <2>1, <2>2 DEF RecFill, RecResolve, RecUnresolved
<1>5. ASSUME NEW i \in Intent,
             RecNotSubmitted(i) \/ RecAmbiguous(i) \/ RecExpire(i)
      PROVE  LedgerStep
  <2>1. Traced(i)
    BY DEF JournalInv
  <2>2. CASE RecNotSubmitted(i)
    <3>1. MoveTo(i, "rejected") /\ state[i] # "created" /\ ~OpenAtExchange(i)
      BY <2>1, <2>2 DEF RecNotSubmitted, Traced, OpenAtExchange
    <3> QED
      BY <1>1, <3>1, MoveMoves
  <2>3. CASE RecAmbiguous(i) \/ RecExpire(i)
    <3>1. PICK s \in {"unknown", "manual_review"} : MoveTo(i, s)
      BY <2>3 DEF RecAmbiguous, RecExpire
    <3>2. state[i] # "created" /\ s \notin Terminal
      BY <3>1 DEF MoveTo, CanTransition, AllowedTransitions, OrderState, Terminal
    <3> QED
      BY <1>1, <3>1, <3>2, MoveMoves
  <2> QED
    BY <1>5, <2>2, <2>3
<1>6. ASSUME NEW p \in Inst, RecPosition(p) PROVE LedgerStep
  BY <1>2, <1>6 DEF RecPosition
<1> QED
  BY <1>3, <1>4, <1>5, <1>6 DEF RunStep

LEMMA NextLedger ==
  ASSUME ~MalformedAcks, TypeOK, JournalInv, [Next]_vars PROVE LedgerStep
<1>1. CASE Submit \/ Respond \/ Exchange \/ RunStep
  BY <1>1, SubmitLedger, RespondLedger, ExchangeLedger, RunLedger
<1>2. ASSUME NEW i \in Intent, OrderPush(i) PROVE LedgerStep
  <2>1. PICK view \in Pushed(i) : ApplyExchangeOrder(i, view)
    BY <1>2 DEF OrderPush
  <2>2. /\ view \in View /\ view.state # "none" /\ view.acc <= xacc[i]
        /\ xstate[i] # "none"
        /\ view.state \in Terminal => view = Detail(i)
    BY PushedViews
  <2>3. UNCHANGED <<wire, xstate, sent>>
    BY <1>2 DEF OrderPush, exchange
  <2> QED
    BY <2>1, <2>2, <2>3, ApplyMoves
<1>3. CASE \/ ChangeModeElsewhere \/ Restart \/ RecBegin \/ RecAbort \/ Conclude
           \/ Crash \/ UNCHANGED vars
  BY <1>3, StandingRests
  DEF ChangeModeElsewhere, Restart, RecBegin, RecUnchanged, RecAbort, Conclude,
      Recovered, StartFails, Joined, PeriodicDone, ResumeDone, Crash, vars,
      journal, exchange
<1> QED
  BY <1>1, <1>2, <1>3 DEF Next, Elsewhere, Reconcile

\* As long as no ACK is malformed, order handling keeps the ledger: booked
\* before it is sent, sent once, struck off only when it can no longer fill,
\* through every timeout, crash, restart and late or repeated report.
THEOREM LedgerKept ==
  ASSUME ~MalformedAcks
  PROVE  Spec => KeepsLedger
<1>1. Init => Ledger!Init
  <2> SUFFICES ASSUME Init PROVE Ledger!Init
    OBVIOUS
  <2>1. ASSUME NEW i \in Intent PROVE Standing(i) = "new" /\ ~OpenAtExchange(i)
    <3>1. state[i] = "created" /\ i \notin wire /\ xstate[i] = "none"
      BY DEF Init
    <3> QED
      BY <3>1 DEF Standing, OpenAtExchange, Terminal
  <2>2. sent = {}
    BY DEF Init
  <2> QED
    BY <2>1, <2>2 DEF Ledger!Init
<1>2. TypeOK /\ JournalInv /\ [Next]_vars => [Ledger!Next]_(Ledger!lvars)
  BY NextLedger DEF LedgerStep
<1> QED
  BY <1>1, <1>2, TypeCorrect, JournalSound, PTL DEF Spec, KeepsLedger, Ledger!Spec

-----------------------------------------------------------------------------
(* No partial fill is ever reported, noted or kept without a fill.         *)

LEMMA ApplyParts ==
  ASSUME TypeOK, PartsFilled, NEW i \in Intent, NEW view \in View,
         view.state = "partially_filled" => view.acc > 0,
         ApplyExchangeOrder(i, view),
         UNCHANGED <<xstate, xacc>>, rec'.pend = rec.pend
  PROVE  PartsFilled'
<1>1. CASE Stale(i, view)
  <2>1. UNCHANGED journal
    BY <1>1 DEF ApplyExchangeOrder
  <2> QED
    BY <2>1 DEF journal, PartsFilled
<1>2. CASE ~Stale(i, view)
  <2>1. /\ state' = [state EXCEPT ![i] = Target(i, view)]
        /\ acc' = [acc EXCEPT ![i] = view.acc]
    BY <1>2 DEF ApplyExchangeOrder
  <2>2. \A j \in Intent :
          /\ state'[j] = IF j = i THEN Target(i, view) ELSE state[j]
          /\ acc'[j] = IF j = i THEN view.acc ELSE acc[j]
    BY <2>1 DEF TypeOK, JournalType
  <2>3. Target(i, view) = "partially_filled" => view.acc > 0
    BY DEF Target, Terminal
  <2> QED
    BY <2>2, <2>3 DEF PartsFilled
<1> QED
  BY <1>1, <1>2

LEMMA MoveParts ==
  ASSUME TypeOK, PartsFilled, NEW i \in Intent,
         NEW s \in {"submitting", "rejected", "canceled", "unknown", "manual_review"},
         MoveTo(i, s), UNCHANGED <<xstate, xacc>>, rec'.pend = rec.pend
  PROVE  PartsFilled'
<1>1. acc' = acc /\ \A j \in Intent : state'[j] = IF j = i THEN s ELSE state[j]
  BY DEF MoveTo, TypeOK, JournalType
<1> QED
  BY <1>1 DEF PartsFilled

LEMMA StillParts ==
  ASSUME PartsFilled, UNCHANGED <<state, acc, xstate, xacc>>,
         rec'.pend = rec.pend \/ rec'.pend = NoRun.pend
  PROVE  PartsFilled'
BY DEF PartsFilled, NoRun, NoView

\* What the exchange shows and has pushed.
LEMMA ShownParts ==
  ASSUME TypeOK, PartsFilled, NEW i \in Intent
  PROVE  /\ Detail(i).state = "partially_filled" => Detail(i).acc > 0
         /\ \A view \in Pushed(i) :
              view.state = "partially_filled" => view.acc > 0
<1>1. Detail(i).state = "partially_filled" => Detail(i).acc > 0
  BY DEF Detail, PartsFilled
<1>2. ASSUME NEW view \in Pushed(i), view.state = "partially_filled"
      PROVE  view.acc > 0
  <2>1. \/ view = Detail(i) \/ view.state = "live"
        \/ \E k \in 1 .. Qty - 1 : view.acc = k
    BY <1>2 DEF Pushed
  <2> QED
    BY <1>1, <1>2, <2>1, OrderConstants
<1> QED
  BY <1>1, <1>2

LEMMA InitParts == Init => PartsFilled
BY DEF Init, PartsFilled, NoRun, NoView

LEMMA PartsStep == TypeOK /\ JournalInv /\ PartsFilled /\ [Next]_vars => PartsFilled'
<1> SUFFICES ASSUME TypeOK, JournalInv, PartsFilled, [Next]_vars PROVE PartsFilled'
  OBVIOUS
<1>0. pc # "idle" => cur \in Intent
  BY DEF TypeOK, ProcessType
<1>1. CASE Submit
  <2>1. rec' = rec /\ UNCHANGED <<xstate, xacc>>
    BY <1>1 DEF Submit, CheckBuy, PreTradeMismatch, CheckSell, CreateIntent,
           RefuseIntent, MarkSubmitting, EntryGuardChanged, FailBeforeSend,
           PassPreSend, Transmit, exchange
  <2>2. CASE CreateIntent
    <3>1. acc' = acc /\ \A j \in Intent :
            state'[j] = IF j = cur THEN "persisted" ELSE state[j]
      BY <2>2 DEF CreateIntent, TypeOK, JournalType
    <3> QED
      BY <2>1, <3>1 DEF PartsFilled
  <2>3. CASE MarkSubmitting \/ EntryGuardChanged \/ FailBeforeSend
    <3>1. /\ cur \in Intent
          /\ \/ MoveTo(cur, "submitting") \/ MoveTo(cur, "rejected")
             \/ MoveTo(cur, "canceled")
      BY <1>0, <2>3 DEF MarkSubmitting, EntryGuardChanged, FailBeforeSend
    <3> QED
      BY <2>1, <3>1, MoveParts
  <2>4. CASE UNCHANGED journal
    BY <2>1, <2>4, StillParts DEF journal
  <2> QED
    BY <1>1, <2>2, <2>3, <2>4
    DEF Submit, CheckBuy, PreTradeMismatch, CheckSell, RefuseIntent, PassPreSend,
        Transmit
<1>2. CASE Respond
  <2>1. pc # "idle" /\ rec'.pend = rec.pend /\ UNCHANGED <<xstate, xacc>>
    BY <1>2 DEF Respond, RespondAck, ProjectionFails, RespondRefused,
                RespondMalformed, RespondAmbiguous, DegradeAfterUnknown, exchange,
                TypeOK, RunType, RunRecord
  <2>2. CASE RespondAck
    <3> DEFINE view == [state |-> "acknowledged", acc |-> 0]
    <3>1. view \in View /\ view.state # "partially_filled"
      BY OrderConstants DEF View
    <3>2. ApplyExchangeOrder(cur, view)
      BY <2>2 DEF RespondAck
    <3> HIDE DEF view
    <3> QED
      BY <1>0, <2>1, <3>1, <3>2, ApplyParts
  <2>3. CASE RespondRefused \/ RespondMalformed \/ RespondAmbiguous
    <3>1. MoveTo(cur, "rejected") \/ MoveTo(cur, "unknown")
      BY <2>3 DEF RespondRefused, RespondMalformed, RespondAmbiguous
    <3> QED
      BY <1>0, <2>1, <3>1, MoveParts
  <2>4. CASE ProjectionFails \/ DegradeAfterUnknown
    BY <2>1, <2>4, StillParts DEF ProjectionFails, DegradeAfterUnknown, journal
  <2> QED
    BY <1>2, <2>2, <2>3, <2>4 DEF Respond
<1>3. CASE Exchange
  <2>1. PICK i \in Intent :
          Accept(i) \/ Refuse(i) \/ LoseRequest(i) \/ Fill(i) \/ CancelRest(i)
    BY <1>3 DEF Exchange
  <2>2. UNCHANGED <<state, acc, rec>>
    BY <2>1 DEF Accept, Refuse, LoseRequest, Fill, CancelRest, journal
  <2>3. ASSUME NEW j \in Intent
        PROVE  /\ xstate'[j] = "live" => xacc'[j] = 0
               /\ xstate'[j] = "partially_filled" => xacc'[j] > 0
    <3>1. CASE Accept(i)
      <4>1. xacc[i] = 0
        BY <3>1 DEF Accept, JournalInv, Traced, Counted
      <4> QED
        BY <3>1, <4>1 DEF Accept, PartsFilled, TypeOK, ExchangeType
    <3>2. CASE Refuse(i) \/ LoseRequest(i)
      BY <3>2 DEF Refuse, LoseRequest, exchange, PartsFilled
    <3>3. CASE Fill(i) \/ CancelRest(i)
      BY <3>3 DEF Fill, CancelRest, PartsFilled, TypeOK, ExchangeType
    <3> QED
      BY <2>1, <3>1, <3>2, <3>3
  <2> QED
    BY <2>2, <2>3 DEF PartsFilled
<1>4. ASSUME NEW i \in Intent, OrderPush(i) PROVE PartsFilled'
  <2>1. rec'.pend = rec.pend /\ UNCHANGED <<xstate, xacc>>
    BY <1>4 DEF OrderPush, exchange, TypeOK, RunType, RunRecord
  <2>2. PICK view \in Pushed(i) : ApplyExchangeOrder(i, view)
    BY <1>4 DEF OrderPush
  <2> QED
    BY <2>1, <2>2, PushedViews, ShownParts, ApplyParts
<1>5. CASE RunStep
  <2>1. UNCHANGED <<xstate, xacc>>
    BY <1>5 DEF RunStep, RecPending, RecFills, RecOrders, RecIntents, RecBalances,
         RecFinish, RecFill, RecOrder, RecNotSubmitted, RecAmbiguous, RecResolve,
         RecUnresolved, RecExpire, RecPosition, RecUnchanged, exchange
  <2>2. CASE RecPending
    <3>1. \A j \in Intent :
            rec'.pend[j] = IF xstate[j] \in {"live", "partially_filled"}
                           THEN Detail(j) ELSE NoView
      BY <2>2 DEF RecPending, TypeOK, RunType, RunRecord
    <3>2. UNCHANGED <<state, acc>>
      BY <2>2 DEF RecPending, journal
    <3> QED
      BY <2>1, <3>1, <3>2, ShownParts DEF PartsFilled, NoView
  <2>3. CASE RecFills \/ RecOrders \/ RecIntents \/ RecBalances \/ RecFinish
             \/ \E p \in Inst : RecPosition(p)
    <3>1. UNCHANGED <<state, acc>> /\ rec'.pend = rec.pend
      BY <2>3 DEF RecFills, RecOrders, RecIntents, RecBalances, RecFinish,
                  RecPosition, journal, TypeOK, RunType, RunRecord
    <3> QED
      BY <2>1, <3>1, StillParts
  <2>4. ASSUME NEW i \in Intent,
               \/ RecFill(i) \/ RecOrder(i) \/ RecNotSubmitted(i)
               \/ RecAmbiguous(i) \/ RecResolve(i) \/ RecUnresolved(i)
               \/ RecExpire(i)
        PROVE  PartsFilled'
    <3>1. rec'.pend = rec.pend
      BY <2>4 DEF RecFill, RecOrder, RecNotSubmitted, RecAmbiguous, RecResolve,
                  RecUnresolved, RecExpire, TypeOK, RunType, RunRecord
    <3>2. CASE UNCHANGED journal
      BY <2>1, <3>1, <3>2, StillParts DEF journal
    <3>3. CASE xstate[i] # "none" /\ ApplyExchangeOrder(i, Detail(i))
      <4>1. Detail(i) \in View
        BY DEF Detail, View, TypeOK, ExchangeType
      <4> QED
        BY <2>1, <3>1, <3>3, <4>1, ShownParts, ApplyParts
    <3>4. CASE RecOrder(i)
      <4>1. rec.pend[i] \in View /\ ApplyExchangeOrder(i, rec.pend[i])
        BY <3>4 DEF RecOrder, TypeOK, RunType, RunRecord
      <4> QED
        BY <2>1, <3>1, <4>1, ApplyParts DEF PartsFilled
    <3>5. CASE MoveTo(i, "rejected") \/ MoveTo(i, "unknown") \/ MoveTo(i, "manual_review")
      BY <2>1, <3>1, <3>5, MoveParts
    <3> QED
      BY <2>4, <3>2, <3>3, <3>4, <3>5
      DEF RecFill, RecNotSubmitted, RecAmbiguous, RecResolve, RecUnresolved, RecExpire
  <2> QED
    BY <1>5, <2>2, <2>3, <2>4 DEF RunStep
<1>6. CASE \/ ChangeModeElsewhere \/ Restart \/ RecBegin \/ RecAbort \/ Conclude
           \/ Crash \/ UNCHANGED vars
  <2>1. UNCHANGED <<journal, exchange>>
    BY <1>6 DEF ChangeModeElsewhere, Restart, RecBegin, RecUnchanged, RecAbort,
                Conclude, Recovered, StartFails, Joined, PeriodicDone, ResumeDone,
                Crash, vars
  <2>2. rec'.pend = rec.pend \/ rec'.pend = NoRun.pend
    BY <1>6 DEF ChangeModeElsewhere, Restart, RecBegin, RecAbort, Conclude,
                Recovered, StartFails, Joined, PeriodicDone, ResumeDone, Verdict,
                Crash, vars, NoRun, TypeOK, RunType, RunRecord
  <2> QED
    BY <2>1, <2>2, StillParts DEF journal, exchange
<1> QED
  BY <1>1, <1>2, <1>3, <1>4, <1>5, <1>6 DEF Next, Elsewhere, Reconcile

THEOREM PartsSound == Spec => []PartsFilled
<1>1. TypeOK /\ JournalInv /\ PartsFilled /\ [Next]_vars => PartsFilled'
  BY PartsStep
<1> QED
  BY <1>1, InitParts, TypeCorrect, JournalSound, PTL DEF Spec

\* In no reachable state does the transition table refuse a report that the
\* exchange may send, with malformed ACKs or without.
THEOREM ReportsLegal == Spec => []ReportsAccepted
<1>1. TypeOK /\ JournalInv /\ PartsFilled => ReportsAccepted
  <2> SUFFICES ASSUME TypeOK, JournalInv, PartsFilled, NEW i \in sent,
                      NEW view \in Pushed(i), ~Stale(i, view)
               PROVE  CanTransition(state[i], Target(i, view))
    BY DEF ReportsAccepted, Illegal
  <2>1. i \in Intent
    BY DEF TypeOK, ProcessType
  <2>2. state[i] \in OrderState \ {"created", "persisted"}
    BY <2>1 DEF JournalInv, Traced, TypeOK, JournalType
  <2>3. /\ view \in View
        /\ view.state \in {"live", "partially_filled", "filled", "canceled"}
    <3>1. view \in View /\ view.state # "none"
      BY <2>1, PushedViews
    <3>2. view.state # "acknowledged"
      BY <2>1 DEF Pushed, Detail, TypeOK, ExchangeType
    <3> QED
      BY <3>1, <3>2 DEF View
  <2>4. ~(view.acc < acc[i])
    BY DEF Stale
  <2>5. acc[i] \in Nat /\ view.acc \in Nat
    BY <2>1, <2>3 DEF View, TypeOK, JournalType
  <2>6. view.state = "live" => state[i] # "partially_filled"
    <3>1. view.state = "live" => view.acc = 0
      BY <2>1 DEF Pushed, Detail, PartsFilled
    <3> QED
      BY <2>1, <2>4, <2>5, <3>1 DEF PartsFilled
  <2>7. CASE state[i] \in Terminal
    BY <2>7 DEF Target, CanTransition
  <2>8. CASE state[i] \notin Terminal
    <3>1. Target(i, view) = view.state
      BY <2>8 DEF Target
    <3>2. state[i] \in {"submitting", "acknowledged", "live", "partially_filled",
                        "unknown", "manual_review"}
      BY <2>2, <2>8 DEF OrderState, DurableState
    <3> QED
      BY <2>2, <2>3, <2>6, <3>1, <3>2
      DEF CanTransition, AllowedTransitions, Reported, Settled, Terminal
  <2> QED
    BY <2>7, <2>8
<1> QED
  BY <1>1, TypeCorrect, JournalSound, PartsSound, PTL

-----------------------------------------------------------------------------
(* The budgets.  Three steps matter to them: a BUY is checked, a BUY is     *)
(* booked, a unit is filled.  Every other step at most gives back.          *)

\* No intent becomes unsettled, and a checked BUY sees the journal stand still.
GivesBack ==
  /\ reserved' \subseteq reserved
  /\ \A j \in Intent : Unsettled(j)' => Unsettled(j)
  /\ UNCHANGED <<xacc, xheld, xcash>>
  /\ ~CheckedBuy' \/ UNCHANGED <<pc, cur, cash, state, reserved, position>>

LEMMA ApplyGivesBack ==
  ASSUME TypeOK, JournalInv, NEW i \in Intent, NEW view \in View,
         xstate[i] # "none", ApplyExchangeOrder(i, view)
  PROVE  /\ reserved' \subseteq reserved
         /\ \A j \in Intent : Unsettled(j)' => Unsettled(j)
<1>1. state[i] # "created"
  BY DEF JournalInv, Traced
<1>2. CASE Stale(i, view)
  BY <1>2 DEF ApplyExchangeOrder, journal, Unsettled
<1>3. CASE ~Stale(i, view)
  <2>1. /\ reserved' = Release(i, Target(i, view))
        /\ \A j \in Intent :
             state'[j] = IF j = i THEN Target(i, view) ELSE state[j]
    BY <1>3 DEF ApplyExchangeOrder, TypeOK, JournalType
  <2> QED
    BY <1>1, <2>1 DEF Release, Target, Unsettled
<1> QED
  BY <1>2, <1>3

LEMMA MoveGivesBack ==
  ASSUME TypeOK, NEW i \in Intent,
         NEW s \in {"submitting", "rejected", "canceled", "unknown", "manual_review"},
         MoveTo(i, s)
  PROVE  /\ reserved' \subseteq reserved
         /\ \A j \in Intent : Unsettled(j)' => Unsettled(j)
<1>1. state[i] = s \/ Unsettled(i)
  BY DEF MoveTo, CanTransition, AllowedTransitions, Unsettled, TypeOK,
         JournalType, OrderState, DurableState, Terminal
<1>2. /\ reserved' = Release(i, s)
      /\ \A j \in Intent : state'[j] = IF j = i THEN s ELSE state[j]
  BY DEF MoveTo, TypeOK, JournalType
<1> QED
  BY <1>1, <1>2 DEF Release, Unsettled

LEMMA StillGivesBack ==
  ASSUME UNCHANGED journal, UNCHANGED <<xacc, xheld, xcash>>,
         ~CheckedBuy' \/ UNCHANGED <<pc, cur, cash>>
  PROVE  GivesBack
BY DEF GivesBack, journal, Unsettled

LEMMA SubmitKinds ==
  ASSUME TypeOK, JournalInv, Submit
  PROVE  (\E i \in Buys : CheckBuy(i)) \/ CreateIntent \/ GivesBack
<1>1. UNCHANGED exchange
  BY DEF Submit, CheckBuy, PreTradeMismatch, CheckSell, CreateIntent,
         RefuseIntent, MarkSubmitting, EntryGuardChanged, FailBeforeSend,
         PassPreSend, Transmit
<1>2. CASE MarkSubmitting \/ EntryGuardChanged \/ FailBeforeSend
  <2>1. /\ cur \in Intent /\ ~CheckedBuy'
        /\ \/ MoveTo(cur, "submitting") \/ MoveTo(cur, "rejected")
           \/ MoveTo(cur, "canceled")
    BY <1>2 DEF MarkSubmitting, EntryGuardChanged, FailBeforeSend, Leave, CheckedBuy,
                TypeOK, ProcessType
  <2> QED
    BY <1>1, <2>1, MoveGivesBack DEF GivesBack, exchange
<1>3. ASSUME NEW i \in Buys, PreTradeMismatch(i) PROVE GivesBack
  BY <1>1, <1>3, StillGivesBack DEF PreTradeMismatch, submit, exchange
<1>4. ASSUME NEW i \in Sells, CheckSell(i) PROVE GivesBack
  <2>1. ~CheckedBuy'
    BY <1>4, OrderConstants DEF CheckSell, CheckedBuy
  <2> QED
    BY <1>1, <1>4, <2>1, StillGivesBack DEF CheckSell, exchange
<1>5. CASE RefuseIntent \/ PassPreSend \/ Transmit
  <2>1. ~CheckedBuy' /\ UNCHANGED journal
    BY <1>5 DEF RefuseIntent, PassPreSend, Transmit, Leave, CheckedBuy
  <2> QED
    BY <1>1, <2>1, StillGivesBack DEF exchange
<1> QED
  BY <1>2, <1>3, <1>4, <1>5 DEF Submit

LEMMA RespondKinds ==
  ASSUME TypeOK, JournalInv, Respond PROVE GivesBack
<1>1. cur \in Intent /\ ~CheckedBuy' /\ UNCHANGED exchange
  BY DEF Respond, RespondAck, ProjectionFails, RespondRefused, RespondMalformed,
         RespondAmbiguous, DegradeAfterUnknown, Leave, CheckedBuy, TypeOK,
         ProcessType
<1>2. CASE RespondAck
  <2> DEFINE view == [state |-> "acknowledged", acc |-> 0]
  <2>1. view \in View
    BY OrderConstants DEF View
  <2>2. xstate[cur] # "none" /\ ApplyExchangeOrder(cur, view)
    BY <1>2 DEF RespondAck
  <2> HIDE DEF view
  <2> QED
    BY <1>1, <2>1, <2>2, ApplyGivesBack DEF GivesBack, exchange
<1>3. CASE RespondRefused \/ RespondMalformed \/ RespondAmbiguous
  <2>1. MoveTo(cur, "rejected") \/ MoveTo(cur, "unknown")
    BY <1>3 DEF RespondRefused, RespondMalformed, RespondAmbiguous
  <2> QED
    BY <1>1, <2>1, MoveGivesBack DEF GivesBack, exchange
<1>4. CASE ProjectionFails \/ DegradeAfterUnknown
  BY <1>1, <1>4, StillGivesBack DEF ProjectionFails, DegradeAfterUnknown, exchange
<1> QED
  BY <1>2, <1>3, <1>4 DEF Respond

LEMMA ExchangeKinds ==
  ASSUME Exchange PROVE (\E i \in Intent : Fill(i)) \/ GivesBack
<1>1. PICK i \in Intent :
        Accept(i) \/ Refuse(i) \/ LoseRequest(i) \/ Fill(i) \/ CancelRest(i)
  BY DEF Exchange
<1>2. CASE Accept(i) \/ Refuse(i) \/ LoseRequest(i) \/ CancelRest(i)
  BY <1>2, StillGivesBack
  DEF Accept, Refuse, LoseRequest, CancelRest, submit, exchange
<1> QED
  BY <1>1, <1>2

LEMMA RunKinds ==
  ASSUME TypeOK, JournalInv, RunStep PROVE GivesBack
<1>1. RecUnchanged /\ rec.phase \notin {"idle", "verdict"}
  BY DEF RunStep, RecPending, RecFills, RecOrders, RecIntents, RecBalances,
         RecFinish, RecFill, RecOrder, RecNotSubmitted, RecAmbiguous, RecResolve,
         RecUnresolved, RecExpire, RecPosition, Resolvable, InRun
<1>2. UNCHANGED <<xacc, xheld, xcash>> /\ ~CheckedBuy'
  BY <1>1 DEF RecUnchanged, submit, exchange, JournalInv, OneThread, CheckedBuy
<1>3. ASSUME UNCHANGED <<state, reserved>> PROVE GivesBack
  BY <1>2, <1>3 DEF GivesBack, Unsettled
<1>4. CASE RecPending \/ RecFills \/ RecOrders \/ RecIntents \/ RecBalances
           \/ RecFinish \/ \E p \in Inst : RecPosition(p)
  BY <1>3, <1>4 DEF RecPending, RecFills, RecOrders, RecIntents, RecBalances,
                    RecFinish, RecPosition, journal
<1>5. ASSUME NEW i \in Intent,
             \/ RecFill(i) \/ RecOrder(i) \/ RecNotSubmitted(i)
             \/ RecAmbiguous(i) \/ RecResolve(i) \/ RecUnresolved(i)
             \/ RecExpire(i)
      PROVE  GivesBack
  <2>1. CASE UNCHANGED journal
    BY <1>3, <2>1 DEF journal
  <2>2. CASE xstate[i] # "none" /\ ApplyExchangeOrder(i, Detail(i))
    <3>1. Detail(i) \in View
      BY DEF Detail, View, TypeOK, ExchangeType
    <3> QED
      BY <1>2, <2>2, <3>1, ApplyGivesBack DEF GivesBack
  <2>3. CASE RecOrder(i)
    <3>1. /\ rec.pend[i] \in View /\ xstate[i] # "none"
          /\ ApplyExchangeOrder(i, rec.pend[i])
      BY <2>3 DEF RecOrder, JournalInv, Remembered, TypeOK, RunType, RunRecord
    <3> QED
      BY <1>2, <3>1, ApplyGivesBack DEF GivesBack
  <2>4. CASE MoveTo(i, "rejected") \/ MoveTo(i, "unknown") \/ MoveTo(i, "manual_review")
    BY <1>2, <2>4, MoveGivesBack DEF GivesBack
  <2> QED
    BY <1>5, <2>1, <2>2, <2>3, <2>4
    DEF RecFill, RecNotSubmitted, RecAmbiguous, RecResolve, RecUnresolved, RecExpire
<1> QED
  BY <1>4, <1>5 DEF RunStep

LEMMA StepKinds ==
  ASSUME TypeOK, JournalInv, [Next]_vars
  PROVE  \/ \E i \in Buys : CheckBuy(i)
         \/ CreateIntent
         \/ \E i \in Intent : Fill(i)
         \/ GivesBack
<1>1. CASE Submit \/ Respond \/ Exchange \/ RunStep
  BY <1>1, SubmitKinds, RespondKinds, ExchangeKinds, RunKinds
<1>2. ASSUME NEW i \in Intent, OrderPush(i) PROVE GivesBack
  <2>1. PICK view \in Pushed(i) : ApplyExchangeOrder(i, view)
    BY <1>2 DEF OrderPush
  <2>2. ~CheckedBuy' /\ UNCHANGED exchange
    BY <1>2 DEF OrderPush, LockFree, submit, CheckedBuy
  <2> QED
    BY <2>1, <2>2, PushedViews, ApplyGivesBack DEF GivesBack, exchange
<1>3. CASE \/ ChangeModeElsewhere \/ Restart \/ RecBegin \/ RecAbort \/ Conclude
           \/ Crash \/ UNCHANGED vars
  <2>1. UNCHANGED <<journal, exchange>> /\ (UNCHANGED submit \/ pc' = "idle")
    BY <1>3 DEF ChangeModeElsewhere, Restart, RecBegin, RecUnchanged, RecAbort,
                Conclude, Recovered, StartFails, Joined, PeriodicDone, ResumeDone,
                Crash, Leave, vars
  <2> QED
    BY <2>1, StillGivesBack DEF exchange, submit, CheckedBuy
<1> QED
  BY <1>1, <1>2, <1>3 DEF Next, Elsewhere, Reconcile

-----------------------------------------------------------------------------
(* What may still be taken, counted.                                       *)

LEMMA UnitsFinite ==
  ASSUME NEW S, IsFiniteSet(S)
  PROVE  /\ IsFiniteSet(UnitsLeft(S))
         /\ Cardinality(UnitsLeft(S)) \in Nat
         /\ Cardinality(UnitsLeft(S)) <= Reserved(S)
         /\ Reserved(S) \in Nat
<1>1. /\ IsFiniteSet(1 .. Qty) /\ Cardinality(1 .. Qty) = Qty
      /\ Qty \in Nat
  BY OrderConstants, FS_Interval
<1>2. Cardinality(S) \in Nat
  BY FS_CardinalityType
<1>3. /\ IsFiniteSet(S \X (1 .. Qty))
      /\ Cardinality(S \X (1 .. Qty)) = Cardinality(S) * Cardinality(1 .. Qty)
  BY <1>1, FS_Product
<1>4. UnitsLeft(S) \in SUBSET (S \X (1 .. Qty))
  BY DEF UnitsLeft
<1>5. /\ IsFiniteSet(UnitsLeft(S))
      /\ Cardinality(UnitsLeft(S)) <= Cardinality(S \X (1 .. Qty))
  BY <1>3, <1>4, FS_Subset
<1>6. Reserved(S) = Cardinality(S \X (1 .. Qty)) /\ Reserved(S) \in Nat
  BY <1>1, <1>2, <1>3 DEF Reserved
<1> QED
  BY <1>5, <1>6, FS_CardinalityType

LEMMA UnitsMonotone ==
  ASSUME NEW S, IsFiniteSet(S), NEW T \in SUBSET S
  PROVE  Cardinality(UnitsLeft(T)) <= Cardinality(UnitsLeft(S))
<1>1. UnitsLeft(T) \in SUBSET UnitsLeft(S)
  BY DEF UnitsLeft
<1> QED
  BY <1>1, UnitsFinite, FS_Subset

\* One order more may take no more than it asks for.
LEMMA UnitsAdded ==
  ASSUME NEW S, IsFiniteSet(S), NEW i
  PROVE  Cardinality(UnitsLeft(S \union {i})) <= Cardinality(UnitsLeft(S)) + Qty
<1> DEFINE New == {i} \X (1 .. Qty)
<1>1. IsFiniteSet(New) /\ Cardinality(New) = Qty /\ Qty \in Nat
  <2>1. /\ IsFiniteSet(1 .. Qty) /\ Cardinality(1 .. Qty) = Qty
        /\ Qty \in Nat
    BY OrderConstants, FS_Interval
  <2>2. IsFiniteSet({i}) /\ Cardinality({i}) = 1
    BY FS_Singleton
  <2>3. IsFiniteSet(New) /\ Cardinality(New) = Cardinality({i}) * Cardinality(1 .. Qty)
    BY <2>1, <2>2, FS_Product
  <2>4. 1 * Qty = Qty
    BY <2>1
  <2> QED
    BY <2>1, <2>2, <2>3, <2>4
<1>2. UnitsLeft(S \union {i}) \in SUBSET (UnitsLeft(S) \union New)
  BY DEF UnitsLeft
<1> HIDE DEF New
<1>3. /\ IsFiniteSet(UnitsLeft(S)) /\ Cardinality(UnitsLeft(S)) \in Nat
  BY UnitsFinite
<1>4. /\ IsFiniteSet(UnitsLeft(S) \union New)
      /\ Cardinality(UnitsLeft(S) \union New) =
           Cardinality(UnitsLeft(S)) + Cardinality(New)
             - Cardinality(UnitsLeft(S) \cap New)
  BY <1>1, <1>3, FS_Union
<1>5. IsFiniteSet(UnitsLeft(S) \cap New) /\ Cardinality(UnitsLeft(S) \cap New) \in Nat
  BY <1>1, <1>3, FS_Intersection, FS_CardinalityType
<1>6. /\ Cardinality(UnitsLeft(S \union {i})) <= Cardinality(UnitsLeft(S) \union New)
      /\ Cardinality(UnitsLeft(S \union {i})) \in Nat
  BY <1>2, <1>4, FS_Subset, FS_CardinalityType
<1> QED
  BY <1>1, <1>3, <1>4, <1>5, <1>6

\* A fill takes one unit of what its order may still take.
LEMMA UnitsTaken ==
  ASSUME TypeOK, NEW S, S \subseteq Intent, IsFiniteSet(S), NEW i \in S, Fill(i)
  PROVE  Cardinality(UnitsLeft(S))' = Cardinality(UnitsLeft(S)) - 1
<1> DEFINE next == <<i, xacc[i] + 1>>
<1>1. /\ i \in Intent /\ xacc[i] \in 0 .. Qty /\ xacc[i] < Qty
      /\ \A j \in Intent : xacc'[j] = IF j = i THEN xacc[i] + 1 ELSE xacc[j]
  BY DEF Fill, TypeOK, ExchangeType
<1>2. Qty \in Nat
  BY OrderConstants
<1>3. next \in UnitsLeft(S)
  BY <1>1, <1>2 DEF UnitsLeft
<1>4. UnitsLeft(S)' = UnitsLeft(S) \ {next}
  <2>1. ASSUME NEW j \in S, NEW n \in 1 .. Qty
        PROVE  xacc'[j] < n <=> xacc[j] < n /\ <<j, n>> # next
    <3>1. xacc[j] \in Nat /\ n \in Nat
      BY DEF TypeOK, ExchangeType
    <3> QED
      BY <1>1, <3>1
  <2> HIDE DEF next
  <2> QED
    BY <2>1 DEF UnitsLeft
<1> HIDE DEF next
<1> QED
  BY <1>3, <1>4, UnitsFinite, FS_RemoveElement

-----------------------------------------------------------------------------
(* Every step keeps each budget.                                           *)

LEMMA BuyStep ==
  ASSUME TypeOK, JournalInv, OneUnsettledBuy, [Next]_vars
  PROVE  OneUnsettledBuy'
<1>1. CASE GivesBack
  BY <1>1 DEF GivesBack, OneUnsettledBuy, Intent
<1>2. CASE (\E i \in Buys : CheckBuy(i)) \/ (\E i \in Intent : Fill(i))
  BY <1>2 DEF CheckBuy, Fill, journal, OneUnsettledBuy, Unsettled
<1>3. CASE CreateIntent
  <2>1. /\ cur \in Intent
        /\ \A j \in Intent : j # cur => (Unsettled(j)' <=> Unsettled(j))
        /\ cur \in Buys => NoPendingIntent(cur)
    BY <1>3 DEF CreateIntent, RiskGuardHolds, TypeOK, ProcessType, JournalType, Unsettled
  <2>2. cur \in Buys => \A j \in Buys : InstOf[j] = InstOf[cur] => ~Unsettled(j)
    BY <2>1 DEF NoPendingIntent, UnsettledOn, Intent
  <2> QED
    BY <2>1, <2>2 DEF OneUnsettledBuy, Intent
<1> QED
  BY <1>1, <1>2, <1>3, StepKinds

LEMMA CashStep ==
  ASSUME ~MalformedAcks, TypeOK, JournalInv, CashBooked, [Next]_vars
  PROVE  CashBooked'
<1> DEFINE left == Cardinality(UnitsLeft(reserved))
<1>0. /\ IsFiniteSet(reserved) /\ reserved \subseteq Buys
      /\ left \in Nat /\ left <= Reserved(reserved) /\ Reserved(reserved) \in Nat
      /\ xcash \in Int /\ cash \in Int /\ Qty \in Nat
      /\ left <= xcash
      /\ CheckedBuy => left + cash <= Reserved(reserved) + xcash
  BY UnitsFinite, OrderConstants
  DEF CashBooked, TypeOK, JournalType, ProcessType, ExchangeType
<1>1. CASE GivesBack
  <2>1. reserved' \in SUBSET reserved /\ UNCHANGED <<xacc, xcash>>
    BY <1>1 DEF GivesBack
  <2>2. IsFiniteSet(reserved')
    BY <1>0, <2>1, FS_Subset
  <2>3. UnitsLeft(reserved)' = UnitsLeft(reserved')
    BY <2>1 DEF UnitsLeft
  <2>4. Cardinality(UnitsLeft(reserved')) <= left /\ Cardinality(UnitsLeft(reserved')) \in Nat
    BY <1>0, <2>1, <2>2, UnitsMonotone, UnitsFinite
  <2>5. CheckedBuy' => CheckedBuy /\ reserved' = reserved /\ cash' = cash
    BY <1>1 DEF GivesBack, CheckedBuy
  <2> QED
    BY <1>0, <2>1, <2>2, <2>3, <2>4, <2>5 DEF CashBooked, Reserved
<1>2. ASSUME NEW i \in Buys, CheckBuy(i) PROVE CashBooked'
  <2>1. UNCHANGED <<reserved, xacc, xcash>> /\ cash' = xcash
    BY <1>2 DEF CheckBuy, journal, exchange
  <2>2. UnitsLeft(reserved)' = UnitsLeft(reserved)
    BY <2>1 DEF UnitsLeft
  <2> QED
    BY <1>0, <2>1, <2>2 DEF CashBooked, Reserved
<1>3. CASE CreateIntent
  <2>1. /\ UNCHANGED <<xacc, xcash>> /\ ~CheckedBuy'
        /\ reserved' = reserved \union ({cur} \intersect Buys)
    BY <1>3 DEF CreateIntent, CheckedBuy, exchange
  <2>2. UnitsLeft(reserved)' = UnitsLeft(reserved')
    BY <2>1 DEF UnitsLeft
  <2>3. CASE cur \notin Buys
    <3>1. reserved' = reserved
      BY <2>1, <2>3
    <3> QED
      BY <1>0, <2>1, <2>2, <3>1 DEF CashBooked
  <2>4. CASE cur \in Buys
    <3>1. reserved' = reserved \union {cur}
      BY <2>1, <2>4
    <3>2. IsFiniteSet(reserved')
      BY <1>0, <3>1, FS_AddElement
    <3>3. /\ Cardinality(UnitsLeft(reserved')) <= left + Qty
          /\ Cardinality(UnitsLeft(reserved')) \in Nat
      BY <1>0, <3>1, <3>2, UnitsAdded, UnitsFinite
    <3>4. Reserved(reserved) + Qty <= cash /\ CheckedBuy
      BY <1>3, <2>4 DEF CreateIntent, RiskGuardHolds, CashCovers, CheckedBuy
    <3>5. left + Qty <= xcash
      BY <1>0, <3>4
    <3>6. Cardinality(UnitsLeft(reserved')) <= xcash'
      BY <1>0, <2>1, <3>3, <3>5
    <3> QED
      BY <2>1, <2>2, <3>2, <3>6 DEF CashBooked
  <2> QED
    BY <2>3, <2>4
<1>4. ASSUME NEW i \in Intent, Fill(i) PROVE CashBooked'
  <2>1. UNCHANGED <<reserved, pc, cur, cash>> /\ (CheckedBuy' <=> CheckedBuy)
    BY <1>4 DEF Fill, journal, submit, CheckedBuy
  <2>2. CASE i \in Buys
    <3>1. i \in reserved /\ xcash' = xcash - 1
      BY <1>4, <2>2, OpenIsBooked DEF Fill, OpenAtExchange
    <3>2. Cardinality(UnitsLeft(reserved))' = left - 1
      <4>1. UnitsLeft(reserved)' = {u \in reserved \X (1 .. Qty) : xacc'[u[1]] < u[2]}
        BY <2>1 DEF UnitsLeft
      <4>2. reserved \subseteq Intent
        BY <1>0 DEF Intent
      <4>3. \A S : S = reserved =>
              Cardinality({u \in S \X (1 .. Qty) : xacc'[u[1]] < u[2]}) = left - 1
        BY <1>0, <1>4, <3>1, <4>2, UnitsTaken DEF UnitsLeft
      <4> QED
        BY <4>1, <4>3
    <3> QED
      BY <1>0, <2>1, <3>1, <3>2 DEF CashBooked, Reserved
  <2>3. CASE i \notin Buys
    <3>1. xcash' = xcash + 1
      BY <1>0, <1>4, <2>3 DEF Fill
    <3>2. UnitsLeft(reserved)' = UnitsLeft(reserved)
      <4>1. \A j \in reserved : xacc'[j] = xacc[j]
        BY <1>0, <1>4, <2>3 DEF Fill, Intent, TypeOK, ExchangeType
      <4> QED
        BY <2>1, <4>1 DEF UnitsLeft
    <3> QED
      BY <1>0, <2>1, <3>1, <3>2 DEF CashBooked, Reserved
  <2> QED
    BY <2>2, <2>3
<1> QED
  BY <1>1, <1>2, <1>3, <1>4, StepKinds

LEMMA SlotStep ==
  ASSUME ~MalformedAcks, TypeOK, JournalInv, SlotsBooked, [Next]_vars
  PROVE  SlotsBooked'
<1>0. /\ IsFiniteSet(Taken) /\ Cardinality(Taken) <= MaxOpenPositions
      /\ Cardinality(Taken) \in Nat /\ MaxOpenPositions \in Nat
      /\ CheckedBuy =>
           /\ Taken \subseteq Occupied
           /\ IsFiniteSet(Occupied) /\ Cardinality(Occupied) <= MaxOpenPositions
  BY FS_CardinalityType, OrderConstants DEF SlotsBooked
<1>1. ASSUME Taken' \subseteq Taken, CheckedBuy' => CheckedBuy /\ Occupied' = Occupied
      PROVE  SlotsBooked'
  <2>1. /\ IsFiniteSet(Taken') /\ Cardinality(Taken') <= Cardinality(Taken)
        /\ Cardinality(Taken') \in Nat
    BY <1>0, <1>1, FS_Subset, FS_CardinalityType
  <2> QED
    BY <1>0, <1>1, <2>1 DEF SlotsBooked
<1>2. CASE GivesBack
  <2>1. Taken' \subseteq Taken
    BY <1>2 DEF GivesBack, Taken
  <2>2. CheckedBuy' => CheckedBuy /\ Occupied' = Occupied
    BY <1>2 DEF GivesBack, CheckedBuy, Occupied
  <2> QED
    BY <1>1, <2>1, <2>2
<1>3. ASSUME NEW i \in Buys, CheckBuy(i) PROVE SlotsBooked'
  <2>1. UNCHANGED <<reserved, position, xheld>> /\ position = xheld
    BY <1>3 DEF CheckBuy, journal, exchange
  <2>2. Taken' = Taken /\ Occupied' = Taken
    BY <2>1 DEF Taken, Occupied
  <2> QED
    BY <1>0, <2>2 DEF SlotsBooked
<1>4. CASE CreateIntent
  <2>1. /\ xheld' = xheld /\ ~CheckedBuy'
        /\ reserved' = reserved \union ({cur} \intersect Buys)
    BY <1>4 DEF CreateIntent, CheckedBuy, exchange
  <2>2. CASE cur \notin Buys
    <3>1. Taken' = Taken
      BY <2>1, <2>2 DEF Taken
    <3> QED
      BY <1>1, <2>1, <3>1
  <2>3. CASE cur \in Buys
    <3> DEFINE counted == Occupied \union {InstOf[cur]}
    <3>1. /\ Taken \subseteq Occupied /\ IsFiniteSet(Occupied)
          /\ Cardinality(Occupied) <= MaxOpenPositions /\ SlotFree(cur)
      BY <1>0, <1>4, <2>3 DEF CreateIntent, RiskGuardHolds, CheckedBuy
    <3>2. Taken' \in SUBSET counted
      BY <2>1, <2>3, <3>1 DEF Taken
    <3>3. /\ IsFiniteSet(counted) /\ Cardinality(counted) \in Nat
          /\ Cardinality(Occupied) \in Nat
          /\ Cardinality(counted) = IF InstOf[cur] \in Occupied
                                    THEN Cardinality(Occupied)
                                    ELSE Cardinality(Occupied) + 1
      BY <3>1, FS_AddElement, FS_CardinalityType
    <3>4. Cardinality(counted) <= MaxOpenPositions
      BY <1>0, <3>1, <3>3 DEF SlotFree
    <3> HIDE DEF counted
    <3>5. /\ IsFiniteSet(Taken') /\ Cardinality(Taken') <= Cardinality(counted)
          /\ Cardinality(Taken') \in Nat
      BY <3>2, <3>3, FS_Subset, FS_CardinalityType
    <3> QED
      BY <1>0, <2>1, <3>3, <3>4, <3>5 DEF SlotsBooked
  <2> QED
    BY <2>2, <2>3
<1>5. ASSUME NEW i \in Intent, Fill(i) PROVE SlotsBooked'
  <2>1. UNCHANGED <<reserved, position, pc, cur>>
    BY <1>5 DEF Fill, journal, submit
  <2>2. \A p \in Inst : xheld'[p] > 0 => xheld[p] > 0 \/ (p = InstOf[i] /\ i \in Buys)
    <3>1. /\ xheld \in [Inst -> Nat] /\ InstOf[i] \in Inst
          /\ xheld' = [xheld EXCEPT
               ![InstOf[i]] = @ + (IF i \in Buys THEN 1 ELSE -1)]
      BY <1>5, OrderConstants DEF Fill, TypeOK, ExchangeType
    <3> QED
      BY <3>1
  <2>3. i \in Buys => i \in reserved
    BY <1>5, OpenIsBooked DEF Fill, OpenAtExchange
  <2>4. Taken' \subseteq Taken
    BY <2>1, <2>2, <2>3 DEF Taken
  <2>5. (CheckedBuy' <=> CheckedBuy) /\ Occupied' = Occupied
    BY <2>1 DEF CheckedBuy, Occupied
  <2> QED
    BY <1>1, <2>4, <2>5
<1> QED
  BY <1>2, <1>3, <1>4, <1>5, StepKinds

LEMMA InitBudgets == Init => BudgetInv
<1> SUFFICES ASSUME Init PROVE BudgetInv
  OBVIOUS
<1>1. ~CheckedBuy /\ reserved = {} /\ xcash \in Nat
  BY OrderConstants DEF Init, CheckedBuy
<1>2. OneUnsettledBuy
  BY DEF Init, OneUnsettledBuy, Unsettled, Intent
<1>3. UnitsLeft(reserved) = {}
  BY <1>1 DEF UnitsLeft
<1>4. CashBooked
  BY <1>1, <1>3, FS_EmptySet DEF CashBooked
<1>5. Taken = {}
  BY <1>1 DEF Init, Taken
<1>6. SlotsBooked
  BY <1>1, <1>5, FS_EmptySet, OrderConstants DEF SlotsBooked
<1> QED
  BY <1>2, <1>4, <1>6 DEF BudgetInv

-----------------------------------------------------------------------------
(* The budgets of the account, seen from the exchange.                     *)

\* As long as no ACK is malformed: one BUY of an instrument under way, what is
\* booked is covered, and it keeps within the slots.
THEOREM BudgetsSound ==
  ASSUME ~MalformedAcks
  PROVE  Spec => []BudgetInv
<1>1. TypeOK /\ JournalInv /\ BudgetInv /\ [Next]_vars => BudgetInv'
  BY BuyStep, CashStep, SlotStep DEF BudgetInv
<1> QED
  BY <1>1, InitBudgets, TypeCorrect, JournalSound, PTL DEF Spec

\* A lost answer, a crash or a restart never lets two BUYs of one instrument
\* be open at the exchange together.
THEOREM OneOpenBuy ==
  ASSUME ~MalformedAcks
  PROVE  Spec => []OneOpenBuyPerInstrument
<1>1. TypeOK /\ JournalInv /\ BudgetInv => OneOpenBuyPerInstrument
  BY OpenIsBooked DEF BudgetInv, OneUnsettledBuy, OneOpenBuyPerInstrument, Intent
<1> QED
  BY <1>1, TypeCorrect, JournalSound, BudgetsSound, PTL

\* Filling every open BUY in full never overdraws the account, although each
\* was checked against an older balance.
THEOREM CashSuffices ==
  ASSUME ~MalformedAcks
  PROVE  Spec => []CashNeverOverdrawn
<1>1. TypeOK /\ JournalInv /\ BudgetInv => CashNeverOverdrawn
  <2> SUFFICES ASSUME TypeOK, JournalInv, BudgetInv PROVE CashNeverOverdrawn
    OBVIOUS
  <2>1. OpenBuys \in SUBSET reserved
    BY OpenIsBooked DEF OpenBuys, Intent
  <2>2. /\ IsFiniteSet(reserved) /\ Cardinality(UnitsLeft(reserved)) <= xcash
        /\ xcash \in Int
    BY DEF BudgetInv, CashBooked, TypeOK, ExchangeType
  <2>3. IsFiniteSet(OpenBuys)
    BY <2>1, <2>2, FS_Subset
  <2>4. /\ Cardinality(UnitsLeft(OpenBuys)) <= Cardinality(UnitsLeft(reserved))
        /\ Cardinality(UnitsLeft(OpenBuys)) \in Nat
        /\ Cardinality(UnitsLeft(reserved)) \in Nat
    BY <2>1, <2>2, <2>3, UnitsMonotone, UnitsFinite
  <2> QED
    BY <2>2, <2>4 DEF CashNeverOverdrawn
<1> QED
  BY <1>1, TypeCorrect, JournalSound, BudgetsSound, PTL

\* Instruments held on the account and those with an open BUY stay within
\* max_open_positions, even while the journal lags behind the fills.
THEOREM SlotsSuffice ==
  ASSUME ~MalformedAcks
  PROVE  Spec => []SlotsNeverExceeded
<1>1. TypeOK /\ JournalInv /\ BudgetInv => SlotsNeverExceeded
  <2> SUFFICES ASSUME TypeOK, JournalInv, BudgetInv PROVE SlotsNeverExceeded
    OBVIOUS
  <2> DEFINE used == {p \in Inst : xheld[p] > 0} \union {InstOf[i] : i \in OpenBuys}
  <2>1. OpenBuys \subseteq reserved
    BY OpenIsBooked DEF OpenBuys, Intent
  <2>2. used \in SUBSET Taken
    BY <2>1 DEF Taken
  <2>3. /\ IsFiniteSet(Taken) /\ Cardinality(Taken) <= MaxOpenPositions
        /\ MaxOpenPositions \in Nat
    BY OrderConstants DEF BudgetInv, SlotsBooked
  <2> HIDE DEF used
  <2>4. /\ Cardinality(used) <= Cardinality(Taken)
        /\ Cardinality(used) \in Nat /\ Cardinality(Taken) \in Nat
    BY <2>2, <2>3, FS_Subset, FS_CardinalityType
  <2>5. Cardinality(used) <= MaxOpenPositions
    BY <2>3, <2>4
  <2> QED
    BY <2>5 DEF SlotsNeverExceeded, used
<1> QED
  BY <1>1, TypeCorrect, JournalSound, BudgetsSound, PTL

=============================================================================
