--------------------------- MODULE ProbeSagaProofs ---------------------------
(***************************************************************************)
(* What holds of the probe saga for any number of probes and lots and with *)
(* any number of faults (MaxFaults only bounds TLC): its BUY goes out at   *)
(* most once, MANUAL_REVIEW is never silent, the types and the lease of    *)
(* the thread, and that a probe that has ended is flat.                    *)
(***************************************************************************)
EXTENDS ProbeSaga, TLAPS

Intents == {"none", "persisted", "unknown", "open", "review", "filled", "canceled", "rejected"}

Then == {"step", "queried", "canceled"}

Steps ==
  {"idle", "acquire", "create", "mark", "send", "reply", "answered", "cover", "recheck", "exit",
   "sell", "sold", "exited", "review", "page", "note"} \union Then

Callers == {"command", "periodic", "startup"}

Ops == [pc : Steps, p : Probes, by : Callers, exit : Int, then : Then]

\* Between its intent and the socket a BUY has not been sent; what was sent has an
\* intent, and no intent is ever forgotten.
OnceInv ==
  /\ posts \in [Probes -> 0..1] /\ intent \in [Probes -> Intents] /\ op \in Ops
  /\ \A q \in Probes : posts[q] = 1 => intent[q] # "none"
  /\ op.pc \in {"mark", "send"} => posts[op.p] = 0 /\ intent[op.p] # "none"

LEMMA FreeOp == Free \in Ops /\ Free.pc = "idle"
<1>1. 1 \in Probes
  BY ProbeConstants DEF Probes
<1> QED
  BY <1>1 DEF Free, Null, Ops, Steps, Then, Callers

LEMMA OnceInit == Init => OnceInv
<1> SUFFICES ASSUME Init PROVE OnceInv
  OBVIOUS
<1>1. op \in Ops /\ op.pc = "idle"
  BY FreeOp DEF Init
<1>2. posts = [p \in Probes |-> 0] /\ intent = [p \in Probes |-> "none"]
  BY DEF Init
<1> QED
  BY <1>1, <1>2 DEF OnceInv, Intents

\* A step that leaves posts and intents alone keeps the invariant, unless it goes
\* to the POST.
LEMMA OnceElsewhere ==
  ASSUME OnceInv, UNCHANGED <<posts, intent>>,
         op' \in Ops, op'.pc \notin {"mark", "send"} \/ UNCHANGED op
  PROVE  OnceInv'
BY DEF OnceInv

\* So does one that records what is known of orders while no BUY is being submitted.
LEMMA OnceRecorded ==
  ASSUME OnceInv, UNCHANGED posts, intent' \in [Probes -> Intents],
         \A q \in Probes : intent[q] # "none" => intent'[q] # "none",
         op' \in Ops, op'.pc \notin {"mark", "send"}
  PROVE  OnceInv'
BY DEF OnceInv

\* A view of the exchange is an intent, and never "none".
LEMMA ViewKnown ==
  ASSUME NEW p \in Probes, BuySeen(p)
  PROVE  BuyView(p) \in Intents \ {"none"}
BY DEF BuySeen, BuyView, Intents

\* Every way the thread goes on or stops yields an op.
LEMMA Goes ==
  ASSUME op \in Ops
  PROVE  /\ \A pc \in Steps : Proceed(pc) => op' \in Ops /\ op'.pc = pc
         /\ Return => op' \in Ops /\ op'.pc = "idle"
         /\ Raise => op' \in Ops /\ op'.pc = "idle"
         /\ \A s : \A pc \in Steps : Move(s, pc) => op' \in Ops /\ op'.pc \in {pc, "idle"}
<1>1. \A pc \in Steps : Proceed(pc) => op' \in Ops /\ op'.pc = pc
  BY DEF Proceed, Ops
<1>2. (Return => op' = Free) /\ (Raise => op' = Free)
  BY DEF Return, Raise
<1>3. \A s : \A pc \in Steps : Move(s, pc) => Proceed(pc) \/ Raise
  BY DEF Move
<1> QED
  BY <1>1, <1>2, <1>3, FreeOp

\* The exchange, the clock and the operator leave the BUY's request to the thread.
LEMMA OnceOutside ==
  ASSUME OnceInv, Exchange \/ Time \/ Command \/ Crash \/ Start
  PROVE  OnceInv'
<1>1. op \in Ops /\ Steps = Steps /\ "acquire" \in Steps
  BY DEF OnceInv, Steps
<1>2. ASSUME Exchange PROVE UNCHANGED <<posts, intent, op>>
  BY <1>2 DEF Exchange, XBuyArrives, XBuyFill, XBuyEnds, XSellFill, XSellEnds, OCOEnds,
     SoldElsewhere, orders, exchange, control
<1>3. ASSUME Time PROVE UNCHANGED <<posts, intent, op>>
  BY <1>3 DEF Time, Age, LeaseLapses, orders, exchange, control
<1>4. ASSUME NEW p \in Probes, NEW by \in Callers, Begin(p, by)
      PROVE  op' \in Ops /\ op'.pc = "acquire"
  BY <1>4 DEF Begin, Ops, Steps, Then, Null
<1>5. ASSUME Command
      PROVE  UNCHANGED <<posts, intent>> /\ op' \in Ops /\ (op'.pc = "acquire" \/ UNCHANGED op)
  <2>1. CASE Prepare
    <3>1. PICK p \in NextProbe : Begin(p, "command")
      BY <2>1 DEF Prepare
    <3> QED
      BY <2>1, <3>1, <1>4 DEF Prepare, NextProbe, Callers, orders, exchange
  <2>2. CASE AdvanceCommand
    <3>1. PICK p \in Active : Begin(p, "command")
      BY <2>2 DEF AdvanceCommand
    <3> QED
      BY <2>2, <3>1, <1>4 DEF AdvanceCommand, Active, Callers, orders, exchange
  <2>3. CASE PrepareRefused \/ Resume
    BY <2>3, <1>1 DEF PrepareRefused, Resume, orders, exchange
  <2> QED
    BY <1>5, <2>1, <2>2, <2>3 DEF Command
<1>6. ASSUME Crash \/ Start
      PROVE  UNCHANGED <<posts, intent>> /\ op' \in Ops /\ (op'.pc = "idle" \/ UNCHANGED op)
  BY <1>6, <1>1, FreeOp DEF Crash, Start, orders, exchange
<1> QED
  BY <1>1, <1>2, <1>3, <1>5, <1>6, OnceElsewhere

\* The steps of a submission, in the order of the code.
LEMMA OnceSubmitting ==
  ASSUME OnceInv,
         CreateIntent \/ MarkSubmitting \/ GuardFails \/ Post \/ Reply
  PROVE  OnceInv'
<1>1. op \in Ops /\ op.p \in Probes /\ posts \in [Probes -> 0..1] /\ intent \in [Probes -> Intents]
  BY DEF OnceInv, Ops
<1>2. CASE CreateIntent
  <2>1. posts[op.p] = 0
    BY <1>1, <1>2 DEF CreateIntent, OnceInv
  <2>2. intent' = [intent EXCEPT ![op.p] = "persisted"] /\ UNCHANGED posts
    BY <1>2 DEF CreateIntent, exchange
  <2>3. op' = [op EXCEPT !.pc = "mark"]
    BY <1>2 DEF CreateIntent, Proceed
  <2>4. op' \in Ops /\ op'.p = op.p
    BY <1>1, <2>3 DEF Ops, Steps
  <2> QED
    BY <1>1, <2>1, <2>2, <2>4 DEF OnceInv, Intents
<1>3. CASE MarkSubmitting
  <2>1. intent' = [intent EXCEPT ![op.p] = "unknown"] /\ UNCHANGED posts /\ op.pc = "mark"
    BY <1>3 DEF MarkSubmitting, exchange, At
  <2>2. op' = [op EXCEPT !.pc = "send"]
    BY <1>3 DEF MarkSubmitting, Proceed
  <2>3. op' \in Ops /\ op'.p = op.p
    BY <1>1, <2>2 DEF Ops, Steps
  <2> QED
    BY <1>1, <2>1, <2>3 DEF OnceInv, Intents
<1>4. CASE GuardFails
  <2>1. UNCHANGED posts /\ \E s \in {"rejected", "canceled"} : intent' = [intent EXCEPT ![op.p] = s]
    BY <1>4 DEF GuardFails, exchange
  <2>2. intent' \in [Probes -> Intents] /\ \A q \in Probes : intent[q] # "none" => intent'[q] # "none"
    BY <1>1, <2>1 DEF Intents
  <2>3. \E pc \in {"answered", "review"} : op' = [op EXCEPT !.pc = pc]
    BY <1>4 DEF GuardFails, Proceed
  <2>4. op' \in Ops /\ op'.pc \notin {"mark", "send"}
    BY <1>1, <2>3 DEF Ops, Steps
  <2> QED
    BY <2>1, <2>2, <2>4, OnceRecorded
<1>5. CASE Post
  <2>1. posts' = [posts EXCEPT ![op.p] = @ + 1] /\ UNCHANGED intent /\ op.pc = "send"
    BY <1>5 DEF Post, At, orders
  <2>2. posts[op.p] = 0 /\ intent[op.p] # "none"
    BY <2>1 DEF OnceInv
  <2>3. posts' \in [Probes -> 0..1] /\ \A q \in Probes : posts'[q] = 1 => q = op.p \/ posts[q] = 1
    BY <1>1, <2>1, <2>2
  <2>4. op' = [op EXCEPT !.pc = "reply"]
    BY <1>5 DEF Post, Proceed
  <2>5. op' \in Ops /\ op'.pc = "reply"
    BY <1>1, <2>4 DEF Ops, Steps
  <2> QED
    BY <2>1, <2>2, <2>3, <2>5 DEF OnceInv
<1>6. CASE Reply
  <2>1. UNCHANGED posts /\ op' = [op EXCEPT !.pc = "answered"]
    BY <1>6 DEF Reply, exchange
  <2>2. UNCHANGED intent \/ \E s \in {"open", "rejected"} : intent' = [intent EXCEPT ![op.p] = s]
    BY <1>6 DEF Reply
  <2>3. intent' \in [Probes -> Intents] /\ \A q \in Probes : intent[q] # "none" => intent'[q] # "none"
    BY <1>1, <2>2 DEF Intents
  <2>4. op' \in Ops /\ op'.pc = "answered"
    BY <1>1, <2>1 DEF Ops, Steps
  <2> QED
    BY <2>1, <2>3, <2>4, OnceRecorded
<1> QED
  BY <1>2, <1>3, <1>4, <1>5, <1>6

\* What a query, a run or a push learns of a BUY never makes it unknown again.
LEMMA OnceLearning ==
  ASSUME OnceInv, QueryBuy \/ RecheckBuy \/ OnFill
  PROVE  OnceInv'
<1>1. op \in Ops /\ op.p \in Probes /\ intent \in [Probes -> Intents]
  BY DEF OnceInv, Ops
<1>2. ASSUME NEW then \in {"queried", "canceled"}, LearnBuy(op.p, then), UNCHANGED posts
      PROVE  OnceInv'
  <2>1. intent' \in [Probes -> Intents] /\ \A q \in Probes : intent[q] # "none" => intent'[q] # "none"
    <3>1. CASE BuySeen(op.p) /\ intent' = [intent EXCEPT ![op.p] = BuyView(op.p)]
      BY <1>1, <3>1, ViewKnown DEF Intents
    <3> QED
      BY <1>1, <1>2, <3>1 DEF LearnBuy
  <2>2. \/ \E pc \in {"cover", "queried", "canceled"} : op' = [op EXCEPT !.pc = pc, !.then = then]
        \/ op' = [op EXCEPT !.pc = then]
    BY <1>2 DEF LearnBuy
  <2>3. op' \in Ops /\ op'.pc \notin {"mark", "send"}
    BY <1>1, <2>2 DEF Ops, Steps, Then
  <2> QED
    BY <1>2, <2>1, <2>3, OnceRecorded
<1>3. CASE QueryBuy
  BY <1>2, <1>3 DEF QueryBuy, exchange
<1>4. CASE RecheckBuy
  BY <1>2, <1>4 DEF RecheckBuy, exchange
<1>5. CASE OnFill
  <2>1. UNCHANGED <<posts, intent>> /\ op' = [op EXCEPT !.pc = op.then]
    BY <1>5 DEF OnFill, exchange
  <2>2. op' \in Ops /\ op'.pc \in Then
    BY <1>1, <2>1 DEF Ops, Steps
  <2> QED
    BY <2>1, <2>2, OnceElsewhere DEF Then
<1> QED
  BY <1>3, <1>4, <1>5

LEMMA OncePass ==
  ASSUME OnceInv, Pass \/ OrderPush
  PROVE  OnceInv'
<1>1. op \in Ops /\ intent \in [Probes -> Intents]
  BY DEF OnceInv
<1>2. CASE TickDue \/ RunFails \/ PassEnds
  BY <1>1, <1>2, OnceElsewhere DEF TickDue, RunFails, PassEnds, orders, exchange
<1>3. CASE Runs
  <2>1. PICK old \in SUBSET Probes :
          intent' = [q \in Probes |->
            IF BuySeen(q) THEN BuyView(q) ELSE IF intent[q] = "persisted" THEN "rejected"
            ELSE IF q \in old THEN "review" ELSE intent[q]]
    <3>1. PICK old \in SUBSET {q \in aged : intent[q] = "unknown" /\ ~BuySeen(q)} :
            intent' = [q \in Probes |->
              IF BuySeen(q) THEN BuyView(q) ELSE IF intent[q] = "persisted" THEN "rejected"
              ELSE IF q \in old THEN "review" ELSE intent[q]]
      BY <1>3 DEF Runs
    <3>2. intent' = [q \in Probes |->
            IF BuySeen(q) THEN BuyView(q) ELSE IF intent[q] = "persisted" THEN "rejected"
            ELSE IF q \in old \cap Probes THEN "review" ELSE intent[q]]
      BY <3>1
    <3> QED
      BY <3>2
  <2>2. intent' \in [Probes -> Intents] /\ \A q \in Probes : intent[q] # "none" => intent'[q] # "none"
    BY <1>1, <2>1, ViewKnown DEF Intents
  <2>3. UNCHANGED <<posts, op>> /\ op.pc = "idle"
    BY <1>3 DEF Runs, exchange, At
  <2> QED
    BY <1>1, <2>2, <2>3, OnceRecorded
<1>4. CASE Reclaim
  <2>1. UNCHANGED <<posts, intent>>
    BY <1>4 DEF Reclaim, orders, exchange
  <2>2. UNCHANGED op \/ \E p \in Probes, by \in {"periodic", "startup"} : Begin(p, by)
    BY <1>4 DEF Reclaim, Active
  <2>3. op' \in Ops /\ (op'.pc = "acquire" \/ UNCHANGED op)
    BY <1>1, <2>2 DEF Begin, Ops, Steps, Then, Callers, Null
  <2> QED
    BY <2>1, <2>3, OnceElsewhere
<1>5. CASE OrderPush
  <2>1. UNCHANGED <<posts, op>> /\ op.pc = "idle"
    BY <1>5 DEF OrderPush, exchange, At
  <2>2. UNCHANGED intent
        \/ \E p \in Probes : BuySeen(p) /\ intent' = [intent EXCEPT ![p] = BuyView(p)]
    BY <1>5 DEF OrderPush
  <2>3. intent' \in [Probes -> Intents] /\ \A q \in Probes : intent[q] # "none" => intent'[q] # "none"
    BY <1>1, <2>2, ViewKnown
  <2> QED
    BY <1>1, <2>1, <2>3, OnceRecorded
<1> QED
  BY <1>2, <1>3, <1>4, <1>5 DEF Pass

\* Every other step of the thread leaves the request alone and does not lead to it.
LEMMA OnceThread ==
  ASSUME OnceInv, Advance
  PROVE  OnceInv'
<1>1. op \in Ops
  BY DEF OnceInv
<1>2. "idle" \in Steps /\ {"step", "create", "review", "canceled", "recheck", "exit", "sell", "sold",
       "exited", "page", "note"} \subseteq Steps
  BY DEF Steps, Then
<1> DEFINE On == op' \in Ops /\ op'.pc \notin {"mark", "send"}
<1>3. ASSUME Return \/ Raise PROVE On
  BY <1>1, <1>3, Goes
<1>4. ASSUME NEW pc \in Steps \ {"mark", "send"}, Proceed(pc) \/ op' = [op EXCEPT !.pc = pc] PROVE On
  BY <1>1, <1>4 DEF Proceed, Ops
<1>5. ASSUME NEW s, NEW pc \in Steps \ {"mark", "send"}, Move(s, pc) PROVE On
  BY <1>3, <1>4, <1>5 DEF Move
<1>6. ASSUME NEW pc \in Steps \ {"mark", "send"}, NEW id \in Int, ExitGives(pc, id) PROVE On
  BY <1>1, <1>6 DEF ExitGives, Ops
<1>7. ASSUME UNCHANGED <<posts, intent>>, On \/ UNCHANGED op PROVE OnceInv'
  BY <1>1, <1>7, OnceElsewhere
<1> HIDE DEF On
<1>8. CASE Acquire \/ Finished
  BY <1>2, <1>3, <1>4, <1>7, <1>8 DEF Acquire, Finished, orders, exchange
<1>9. CASE SubmitBuy \/ StoreAnswer \/ NothingSent \/ BuyDecided \/ StartProtecting \/ StartCleaning
           \/ ReviewNoted
  <2>1. UNCHANGED <<posts, intent>>
    BY <1>9 DEF SubmitBuy, StoreAnswer, NothingSent, BuyDecided, StartProtecting, StartCleaning,
       ReviewNoted, orders, exchange
  <2>2. \E pc \in {"create", "step", "exit"} : \E st : Move(st, pc)
    BY <1>9 DEF SubmitBuy, StoreAnswer, NothingSent, BuyDecided, StartProtecting, StartCleaning,
       ReviewNoted
  <2> QED
    BY <1>2, <1>5, <1>7, <2>1, <2>2
<1>10. CASE RefuseBuy \/ CancelBuy \/ EnsureProtection \/ EnterCleanup \/ SubmitSell \/ ReviewPages
            \/ ReviewHalts
  <2>1. UNCHANGED <<posts, intent>>
    BY <1>10 DEF RefuseBuy, CancelBuy, EnsureProtection, EnterCleanup, SubmitSell, ReviewPages,
       ReviewHalts, orders, exchange
  <2>2. \E pc \in {"review", "recheck", "step", "exit", "sold", "note", "page"} :
          Proceed(pc) \/ op' = [op EXCEPT !.pc = pc]
    BY <1>10 DEF RefuseBuy, CancelBuy, EnsureProtection, EnterCleanup, SubmitSell, ReviewPages,
       ReviewHalts
  <2> QED
    BY <1>2, <1>4, <1>7, <2>1, <2>2
<1>11. CASE BuyUndecided
  <2>1. Proceed("review") \/ Move("BUY_UNKNOWN", "step") \/ Return
    BY <1>11 DEF BuyUndecided
  <2> QED
    BY <1>2, <1>3, <1>4, <1>5, <1>7, <1>11, <2>1 DEF BuyUndecided, orders, exchange
<1>12. CASE ResolveProtection
  <2>1. Proceed("review") \/ Move("PROTECTED", "step")
    BY <1>12 DEF ResolveProtection
  <2> QED
    BY <1>2, <1>4, <1>5, <1>7, <1>12, <2>1 DEF ResolveProtection, orders, exchange
<1>13. CASE ExitMeetsSell \/ ExitMeetsTrigger \/ ExitCancels \/ SellAnswered
  <2>1. op.p \in Probes /\ OwnSell(op.p) \in Int /\ Blank \in Int /\ \A q \in Probes : OrderOf(q) \in Int
    BY <1>1, ProbeConstants DEF Ops, Probes, OwnSell, Blank, OrderOf
  <2>2. UNCHANGED op \/ \E pc \in {"review", "exited", "sell"}, id \in Int : ExitGives(pc, id)
    <3>1. CASE ExitMeetsSell
      BY <2>1, <3>1, Zenon DEF ExitMeetsSell
    <3>2. CASE ExitMeetsTrigger
      BY <2>1, <3>2 DEF ExitMeetsTrigger, Triggered
    <3>3. CASE ExitCancels
      BY <2>1, <3>3 DEF ExitCancels
    <3>4. CASE SellAnswered
      BY <2>1, <3>4 DEF SellAnswered
    <3> QED
      BY <1>13, <3>1, <3>2, <3>3, <3>4
  <2>3. UNCHANGED <<posts, intent>>
    BY <1>13 DEF ExitMeetsSell, ExitMeetsTrigger, ExitCancels, SellAnswered, exchange
  <2> QED
    BY <1>2, <1>6, <1>7, <2>2, <2>3
<1>14. CASE ExitBlocked \/ SellTwice
  BY <1>3, <1>7, <1>14 DEF ExitBlocked, SellTwice, orders, exchange
<1>15. CASE ExitUnfinished
  <2>1. Return \/ Proceed("review")
    BY <1>15 DEF ExitUnfinished
  <2> QED
    BY <1>2, <1>3, <1>4, <1>7, <1>15, <2>1 DEF ExitUnfinished, orders, exchange
<1>16. CASE Clean
  <2>1. Raise \/ Move("DONE", "step")
    BY <1>16 DEF Clean
  <2> QED
    BY <1>2, <1>3, <1>5, <1>7, <1>16, <2>1 DEF Clean, orders, exchange
<1> QED
  BY <1>8, <1>9, <1>10, <1>11, <1>12, <1>13, <1>14, <1>15, <1>16, OnceSubmitting, OnceLearning
     DEF Advance

LEMMA OnceStep == OnceInv /\ [Next]_vars => OnceInv'
<1> SUFFICES ASSUME OnceInv, [Next]_vars PROVE OnceInv'
  OBVIOUS
<1>1. CASE UNCHANGED vars
  BY <1>1, OnceElsewhere DEF vars, orders, exchange, OnceInv
<1> QED
  BY <1>1, OnceOutside, OnceThread, OncePass DEF Next

\* However the process, the leases and the exchange behave, the BUY of a probe is
\* handed to the transport once: the intent is created once, and only the thread
\* that created it goes on to the POST (demo_probe.py, _submit_buy).
THEOREM BuyGoesOutOnce == Spec => []BuyOnce
<1>1. OnceInv => BuyOnce
  BY DEF OnceInv, BuyOnce
<1> QED
  BY <1>1, OnceInit, OnceStep, PTL DEF Spec

-----------------------------------------------------------------------------
(* MANUAL_REVIEW: halted and paged before the row says so.                 *)

LoudInv ==
  /\ op \in Ops /\ DOMAIN row = Probes
  /\ op.pc \in {"page", "note"} => mode = "hard"
  /\ op.pc = "note" => op.p \in paged

\* A step that does not touch op keeps what has been said: nobody but an idle
\* process leaves HALTED.
LEMMA LoudStays ==
  ASSUME LoudInv, UNCHANGED <<op, paged, row>>, mode = "hard" => mode' = "hard"
  PROVE  LoudInv'
BY DEF LoudInv

\* Outside advance, op stays what it was or a new advance begins.
LEMMA LoudOutside ==
  ASSUME LoudInv, Exchange \/ Time \/ Command \/ Pass \/ Crash \/ Start \/ OrderPush
  PROVE  LoudInv' /\ (UNCHANGED row \/ Prepare)
<1>1. op \in Ops
  BY DEF LoudInv
<1>2. CASE Exchange
  <2>1. UNCHANGED <<op, paged, row>> /\ (mode = "hard" => mode' = "hard")
    BY <1>2 DEF Exchange, XBuyArrives, XBuyFill, XBuyEnds, XSellFill, XSellEnds, OCOEnds,
       SoldElsewhere, control
  <2> QED
    BY <2>1, LoudStays
<1>3. CASE Time
  BY <1>3, LoudStays DEF Time, Age, LeaseLapses, control
<1>4. CASE Prepare
  <2>1. PICK p \in NextProbe : row' = [row EXCEPT ![p] = "PREPARED"] /\ Begin(p, "command")
    BY <1>4 DEF Prepare
  <2>2. op' \in Ops /\ op'.pc = "acquire"
    BY <2>1 DEF Begin, NextProbe, Ops, Steps, Then, Callers, Null
  <2> QED
    BY <1>4, <2>1, <2>2 DEF LoudInv
<1>5. CASE AdvanceCommand \/ Reclaim
  <2>1. UNCHANGED op \/ \E p \in Probes, by \in Callers : Begin(p, by)
    BY <1>5 DEF AdvanceCommand, Reclaim, Active, Callers
  <2>2. UNCHANGED op \/ (op' \in Ops /\ op'.pc = "acquire")
    BY <2>1 DEF Begin, Ops, Steps, Then, Callers, Null
  <2> QED
    BY <1>5, <2>2 DEF AdvanceCommand, Reclaim, LoudInv
<1>6. CASE PrepareRefused \/ TickDue \/ PassEnds
  BY <1>6, LoudStays DEF PrepareRefused, TickDue, PassEnds, Degraded
<1>7. CASE Resume \/ Runs \/ RunFails \/ OrderPush
  <2>1. op.pc = "idle" /\ UNCHANGED <<op, paged, row>>
    BY <1>7 DEF Resume, Runs, RunFails, OrderPush, At
  <2> QED
    BY <1>1, <2>1 DEF LoudInv
<1>8. CASE Crash
  BY <1>8, FreeOp DEF Crash, LoudInv
<1>9. CASE Start
  <2>1. UNCHANGED <<op, paged, row>> /\ (mode = "hard" => mode' = "hard")
    BY <1>9 DEF Start, Degraded
  <2> QED
    BY <2>1, LoudStays
<1> QED
  BY <1>2, <1>3, <1>4, <1>5, <1>6, <1>7, <1>8, <1>9 DEF Command, Pass

\* Of the steps of advance two lead to the page and its note, and only the last
\* writes MANUAL_REVIEW.
LEMMA LoudThread ==
  ASSUME LoudInv, Advance
  PROVE  LoudInv' /\ (~ReviewNoted => \A p \in Probes : row'[p] = "MANUAL_REVIEW" => row[p] = "MANUAL_REVIEW")
<1>1. op \in Ops /\ op.p \in Probes /\ DOMAIN row = Probes
  BY DEF LoudInv, Ops
<1>2. Then \subseteq Steps /\ {"idle", "step", "create", "mark", "send", "reply", "answered", "review",
       "canceled", "recheck", "cover", "exit", "sell", "sold", "exited", "page", "note"} \subseteq Steps
  BY DEF Steps, Then
<1> DEFINE On == op' \in Ops /\ op'.pc \notin {"page", "note"}
           Mute == DOMAIN row' = Probes
                   /\ \A p \in Probes : row'[p] = "MANUAL_REVIEW" => row[p] = "MANUAL_REVIEW"
<1>3. ASSUME Return \/ Raise PROVE On
  BY <1>1, <1>3, Goes
<1>4. ASSUME NEW pc \in Steps \ {"page", "note"}, Proceed(pc) \/ op' = [op EXCEPT !.pc = pc] PROVE On
  BY <1>1, <1>4 DEF Proceed, Ops
<1>5. ASSUME NEW s, NEW pc \in Steps \ {"page", "note"}, Move(s, pc)
      PROVE  On /\ DOMAIN row' = Probes /\ (s # "MANUAL_REVIEW" => Mute)
  <2>1. On
    BY <1>3, <1>4, <1>5 DEF Move
  <2>2. UNCHANGED row \/ row' = [row EXCEPT ![op.p] = s]
    BY <1>5 DEF Move
  <2> QED
    BY <1>1, <2>1, <2>2
<1>6. ASSUME NEW pc \in Steps \ {"page", "note"}, NEW id \in Int, ExitGives(pc, id) PROVE On
  BY <1>1, <1>6 DEF ExitGives, Ops
<1>7. ASSUME On, DOMAIN row' = Probes PROVE LoudInv'
  BY <1>7 DEF LoudInv
<1>8. ASSUME UNCHANGED row PROVE Mute
  BY <1>1, <1>8
<1> HIDE DEF On, Mute
<1>9. CASE Acquire \/ Finished \/ ExitBlocked \/ SellTwice
  <2>1. UNCHANGED row /\ (Return \/ Raise \/ op' = [op EXCEPT !.pc = "step"] \/ Proceed("step"))
    BY <1>9 DEF Acquire, Finished, ExitBlocked, SellTwice
  <2> QED
    BY <1>1, <1>2, <1>3, <1>4, <1>7, <1>8, <2>1 DEF Mute
<1>10. CASE SubmitBuy \/ NothingSent \/ StartProtecting \/ StartCleaning \/ StoreAnswer \/ BuyDecided
  <2>1. \E pc \in {"create", "step", "exit"} :
          \E s \in {"BUY_SUBMITTING", "REJECTED", "PROTECTING", "CLEANING", "BUY_UNKNOWN", "BUY_FILLED", "none"} :
            Move(s, pc)
    <3>1. CASE StoreAnswer
      BY <3>1 DEF StoreAnswer
    <3>2. CASE BuyDecided
      BY <3>2 DEF BuyDecided, BuyFact
    <3>3. CASE SubmitBuy \/ NothingSent \/ StartProtecting \/ StartCleaning
      BY <3>3 DEF SubmitBuy, NothingSent, StartProtecting, StartCleaning
    <3> QED
      BY <1>10, <3>1, <3>2, <3>3
  <2> QED
    BY <1>2, <1>5, <1>7, <2>1 DEF Mute
<1>11. CASE RefuseBuy \/ CreateIntent \/ MarkSubmitting \/ GuardFails \/ Post \/ Reply \/ CancelBuy
            \/ EnsureProtection \/ EnterCleanup \/ SubmitSell
  <2>1. UNCHANGED row
    BY <1>11 DEF RefuseBuy, CreateIntent, MarkSubmitting, GuardFails, Post, Reply, CancelBuy,
       EnsureProtection, EnterCleanup, SubmitSell
  <2>2. \E pc \in {"review", "mark", "send", "answered", "reply", "recheck", "step", "exit", "sold"} :
          Proceed(pc) \/ op' = [op EXCEPT !.pc = pc]
    BY <1>11 DEF RefuseBuy, CreateIntent, MarkSubmitting, GuardFails, Post, Reply, CancelBuy,
       EnsureProtection, EnterCleanup, SubmitSell
  <2> QED
    BY <1>1, <1>2, <1>4, <1>7, <1>8, <2>1, <2>2
<1>12. CASE QueryBuy \/ RecheckBuy \/ OnFill
  <2>1. UNCHANGED row
    BY <1>12 DEF QueryBuy, RecheckBuy, OnFill
  <2>2. \/ \E pc \in {"cover", "queried", "canceled"}, then \in {"queried", "canceled"} :
             op' = [op EXCEPT !.pc = pc, !.then = then]
        \/ \E pc \in {"queried", "canceled"} : op' = [op EXCEPT !.pc = pc]
        \/ op' = [op EXCEPT !.pc = op.then]
    BY <1>12 DEF QueryBuy, RecheckBuy, LearnBuy, OnFill
  <2>3. op' \in Ops /\ op'.pc \notin {"page", "note"}
    BY <1>1, <2>2 DEF Ops, Steps, Then
  <2> QED
    BY <1>1, <1>7, <1>8, <2>1, <2>3 DEF On
<1>13. CASE BuyUndecided
  <2>1. (Proceed("review") /\ UNCHANGED row) \/ Move("BUY_UNKNOWN", "step") \/ (Return /\ UNCHANGED row)
    BY <1>13 DEF BuyUndecided
  <2> QED
    BY <1>1, <1>2, <1>3, <1>4, <1>5, <1>7, <1>8, <2>1 DEF Mute
<1>14. CASE ResolveProtection
  <2>1. (Proceed("review") /\ UNCHANGED row) \/ Move("PROTECTED", "step")
    BY <1>14 DEF ResolveProtection
  <2> QED
    BY <1>1, <1>2, <1>4, <1>5, <1>7, <1>8, <2>1 DEF Mute
<1>15. CASE ExitMeetsSell \/ ExitMeetsTrigger \/ ExitCancels \/ SellAnswered
  <2>1. OwnSell(op.p) \in Int /\ Blank \in Int /\ \A q \in Probes : OrderOf(q) \in Int
    BY <1>1, ProbeConstants DEF Probes, OwnSell, Blank, OrderOf
  <2>2. (UNCHANGED op /\ op.pc = "exit")
        \/ \E pc \in {"review", "exited", "sell"}, id \in Int : ExitGives(pc, id)
    <3>1. CASE ExitMeetsSell
      BY <2>1, <3>1, Zenon DEF ExitMeetsSell, At
    <3>2. CASE ExitMeetsTrigger
      BY <2>1, <3>2 DEF ExitMeetsTrigger, Triggered
    <3>3. CASE ExitCancels
      BY <2>1, <3>3 DEF ExitCancels
    <3>4. CASE SellAnswered
      BY <2>1, <3>4 DEF SellAnswered
    <3> QED
      BY <1>15, <3>1, <3>2, <3>3, <3>4
  <2>3. UNCHANGED row
    BY <1>15 DEF ExitMeetsSell, ExitMeetsTrigger, ExitCancels, SellAnswered
  <2>4. On
    <3>1. CASE UNCHANGED op /\ op.pc = "exit"
      BY <1>1, <3>1 DEF On
    <3> QED
      BY <1>2, <1>6, <2>2, <3>1
  <2> QED
    BY <1>1, <1>7, <1>8, <2>3, <2>4
<1>16. CASE ExitUnfinished
  <2>1. (Return \/ Proceed("review")) /\ UNCHANGED row
    BY <1>16 DEF ExitUnfinished
  <2> QED
    BY <1>1, <1>2, <1>3, <1>4, <1>7, <1>8, <2>1
<1>17. CASE Clean
  <2>1. (Raise /\ UNCHANGED row) \/ Move("DONE", "step")
    BY <1>17 DEF Clean
  <2> QED
    BY <1>1, <1>2, <1>3, <1>5, <1>7, <1>8, <2>1 DEF Mute
<1>18. CASE ReviewHalts
  <2>1. op' = [op EXCEPT !.pc = "page"] /\ mode' = "hard" /\ UNCHANGED row
    BY <1>18 DEF ReviewHalts
  <2> QED
    BY <1>1, <1>2, <1>8, <2>1 DEF LoudInv, Ops
<1>19. CASE ReviewPages
  <2>1. op' = [op EXCEPT !.pc = "note"] /\ UNCHANGED <<mode, row>> /\ paged' = paged \union {op.p} /\ op.pc = "page"
    BY <1>19 DEF ReviewPages, Proceed, At
  <2> QED
    BY <1>1, <1>2, <1>8, <2>1 DEF LoudInv, Ops
<1>20. CASE ReviewNoted
  BY <1>2, <1>5, <1>7, <1>20 DEF ReviewNoted
<1> QED
  BY <1>9, <1>10, <1>11, <1>12, <1>13, <1>14, <1>15, <1>16, <1>17, <1>18, <1>19, <1>20 DEF Advance, Mute

LEMMA LoudStep ==
  ASSUME LoudInv, [Next]_vars
  PROVE  /\ LoudInv'
         /\ \A p \in Probes : row[p] # "MANUAL_REVIEW" /\ row'[p] = "MANUAL_REVIEW" => p \in paged /\ mode = "hard"
<1>1. CASE UNCHANGED vars
  BY <1>1 DEF vars, LoudInv
<1>2. CASE Advance
  <2>1. CASE ReviewNoted
    <3>1. op.pc = "note" /\ op.p \in Probes /\ DOMAIN row = Probes
      BY <2>1 DEF ReviewNoted, At, LoudInv, Ops
    <3>2. UNCHANGED row \/ row' = [row EXCEPT ![op.p] = "MANUAL_REVIEW"]
      BY <2>1 DEF ReviewNoted, Move
    <3>3. \A p \in Probes : row[p] # "MANUAL_REVIEW" /\ row'[p] = "MANUAL_REVIEW" => p = op.p
      BY <3>1, <3>2
    <3> QED
      BY <1>2, <3>1, <3>3, LoudThread DEF LoudInv
  <2> QED
    BY <1>2, <2>1, LoudThread
<1>3. CASE Exchange \/ Time \/ Command \/ Pass \/ Crash \/ Start \/ OrderPush
  <2>1. CASE Prepare
    <3>1. PICK p \in Probes : row' = [row EXCEPT ![p] = "PREPARED"]
      BY <2>1 DEF Prepare, NextProbe
    <3>2. DOMAIN row = Probes
      BY DEF LoudInv
    <3> QED
      BY <1>3, <3>1, <3>2, LoudOutside
  <2> QED
    BY <1>3, <2>1, LoudOutside
<1> QED
  BY <1>1, <1>2, <1>3 DEF Next

LEMMA LoudInit == Init => LoudInv
BY FreeOp DEF Init, LoudInv

\* Wherever a crash falls between the three writes of _manual_review, a row says
\* MANUAL_REVIEW only after entries were halted and the incident was recorded.
THEOREM ReviewNeverSilent == Spec => ReviewIsLoud
<1>1. LoudInv /\ [Next]_vars => LoudInv'
  BY LoudStep
<1>2. LoudInv /\ [Next]_vars =>
        [\A p \in Probes : row[p] # "MANUAL_REVIEW" /\ row'[p] = "MANUAL_REVIEW" =>
           p \in paged /\ mode = "hard"]_vars
  BY LoudStep
<1> QED
  BY <1>1, <1>2, LoudInit, PTL DEF Spec, ReviewIsLoud

-----------------------------------------------------------------------------
(* Types: first of what the saga keeps and of the thread that works on it. *)

Ids == Null..(2 * MaxProbes)

Modes == {"ready", "degraded", "hard"}

Leases == {"free", "held", "lapsed"}

SagaTypes ==
  /\ row \in [Probes -> ProbeStates] /\ exitId \in [Probes -> Ids]
  /\ lease \in [Probes -> Leases] /\ paged \subseteq Probes
  /\ mode \in Modes /\ up \in {"down", "starting", "up"} /\ pending \in BOOLEAN
  /\ op \in Ops /\ op.exit \in Ids
  /\ op.pc \notin {"idle", "acquire"} => lease[op.p] # "free"

LEMMA Identifiers ==
  /\ 1 \in Probes /\ Null \in Ids /\ Blank \in Ids
  /\ \A p \in Probes : OwnSell(p) \in Ids /\ OrderOf(p) \in Ids
BY ProbeConstants DEF Ids, Null, Blank, Probes, OwnSell, OrderOf

LEMMA FreeFits == Free \in Ops /\ Free.pc = "idle" /\ Free.exit \in Ids
BY FreeOp, Identifiers DEF Free

\* The thread goes on with the probe it has, whose lease it took.
LEMMA SagaOn ==
  ASSUME SagaTypes, op.pc \notin {"idle", "acquire"}, UNCHANGED <<lease, up, pending>>,
         op' \in Ops, op'.exit \in Ids, op'.p = op.p, mode' \in Modes,
         row' \in [Probes -> ProbeStates], exitId' \in [Probes -> Ids], paged' \subseteq Probes
  PROVE  SagaTypes'
BY DEF SagaTypes

\* Or it stops, and gives back what it holds.
LEMMA SagaOff ==
  ASSUME SagaTypes, Return \/ Raise,
         row' \in [Probes -> ProbeStates], exitId' \in [Probes -> Ids], paged' \subseteq Probes
  PROVE  SagaTypes'
<1>1. op' = Free
  BY DEF Return, Raise
<1>2. lease' \in [Probes -> Leases]
  BY DEF Return, Raise, Release, SagaTypes, Leases, Ops
<1>3. mode' \in Modes
  BY DEF Return, Raise, Degraded, SagaTypes, Modes
<1>4. up' \in {"down", "starting", "up"}
  BY DEF Return, Raise, SagaTypes
<1>5. pending' \in BOOLEAN
  BY DEF Return, Raise, SagaTypes
<1> QED
  BY <1>1, <1>2, <1>3, <1>4, <1>5, FreeFits DEF SagaTypes

LEMMA SagaProceeds ==
  ASSUME SagaTypes, op.pc \notin {"idle", "acquire"}, NEW pc \in Steps, Proceed(pc),
         row' \in [Probes -> ProbeStates], exitId' \in [Probes -> Ids], paged' \subseteq Probes
  PROVE  SagaTypes'
<1>1. op' = [op EXCEPT !.pc = pc] /\ UNCHANGED <<lease, mode, up, pending>>
  BY DEF Proceed
<1>2. op' \in Ops /\ op'.exit = op.exit /\ op'.p = op.p
  BY <1>1 DEF SagaTypes, Ops
<1> QED
  BY <1>1, <1>2, SagaOn DEF SagaTypes

LEMMA SagaMoves ==
  ASSUME SagaTypes, op.pc \notin {"idle", "acquire"}, NEW pc \in Steps, NEW s \in ProbeStates, Move(s, pc),
         exitId' \in [Probes -> Ids], UNCHANGED paged
  PROVE  SagaTypes'
<1>1. row' \in [Probes -> ProbeStates] /\ (Proceed(pc) \/ Raise)
  BY DEF Move, SagaTypes, Ops
<1> QED
  BY <1>1, SagaProceeds, SagaOff DEF SagaTypes

\* A step that leaves the saga's own state alone.
LEMMA SagaStays ==
  ASSUME SagaTypes, UNCHANGED <<row, exitId, lease, paged, up, pending, op>>, mode' \in Modes
  PROVE  SagaTypes'
BY DEF SagaTypes

LEMMA SagaBegins ==
  ASSUME SagaTypes, NEW p \in Probes, NEW by \in Callers, Begin(p, by),
         row' \in [Probes -> ProbeStates], UNCHANGED <<exitId, lease, paged, mode, up, pending>>
  PROVE  SagaTypes'
<1>1. op' \in Ops /\ op'.exit \in Ids /\ op'.pc = "acquire"
  BY Identifiers DEF Begin, Ops, Steps, Then, Null
<1> QED
  BY <1>1 DEF SagaTypes

LEMMA SagaOutside ==
  ASSUME SagaTypes, Exchange \/ Time \/ Command \/ Pass \/ Crash \/ Start \/ OrderPush
  PROVE  SagaTypes'
<1>1. mode \in Modes /\ row \in [Probes -> ProbeStates] /\ "hard" \in Modes
  BY DEF SagaTypes, Modes
<1>2. CASE Exchange
  <2>1. UNCHANGED <<row, exitId, lease, paged, up, pending, op>> /\ mode' \in {mode, "hard"}
    BY <1>2 DEF Exchange, XBuyArrives, XBuyFill, XBuyEnds, XSellFill, XSellEnds, OCOEnds,
       SoldElsewhere, control
  <2> QED
    BY <1>1, <2>1, SagaStays
<1>3. CASE Age
  BY <1>1, <1>3, SagaStays DEF Age, control
<1>4. CASE \E p \in Probes : LeaseLapses(p)
  <2>1. PICK p \in Probes : LeaseLapses(p)
    BY <1>4
  <2>2. lease' = [lease EXCEPT ![p] = "lapsed"]
        /\ UNCHANGED <<row, exitId, paged, mode, up, pending, op>>
    BY <2>1 DEF LeaseLapses
  <2> QED
    BY <2>2 DEF SagaTypes, Leases
<1>5. CASE Prepare
  <2>1. PICK p \in NextProbe : row' = [row EXCEPT ![p] = "PREPARED"] /\ Begin(p, "command")
    BY <1>5 DEF Prepare
  <2>2. p \in Probes /\ row' \in [Probes -> ProbeStates] /\ "command" \in Callers
    BY <1>1, <2>1 DEF NextProbe, ProbeStates, Callers
  <2> QED
    BY <1>5, <2>1, <2>2, SagaBegins DEF Prepare
<1>6. CASE AdvanceCommand
  <2>1. PICK p \in Probes : Begin(p, "command")
    BY <1>6 DEF AdvanceCommand, Active
  <2> QED
    BY <1>1, <1>6, <2>1, SagaBegins DEF AdvanceCommand, Callers
<1>7. CASE PrepareRefused \/ Resume
  BY <1>1, <1>7, SagaStays DEF PrepareRefused, Resume, Modes
<1>8. CASE TickDue \/ PassEnds
  <2>1. UNCHANGED <<row, exitId, lease, paged, up, pending, op>> /\ mode' \in Modes
    BY <1>1, <1>8 DEF TickDue, PassEnds, Degraded, Modes
  <2> QED
    BY <2>1, SagaStays
<1>9. CASE Runs \/ RunFails \/ Crash \/ Start
  <2>1. UNCHANGED <<row, exitId, lease, paged>> /\ op' \in {op, Free}
    BY <1>9 DEF Runs, RunFails, Crash, Start
  <2>2. up' \in {up, "down", "starting"}
    BY <1>9 DEF Runs, RunFails, Crash, Start
  <2>3. mode' \in Modes
    BY <1>1, <1>9 DEF Runs, RunFails, Crash, Start, Degraded, Modes
  <2>4. UNCHANGED pending \/ pending' = FALSE
    BY <1>9 DEF Runs, RunFails, Crash, Start
  <2>5. pending' \in BOOLEAN
    BY <2>4 DEF SagaTypes
  <2> QED
    BY <2>1, <2>2, <2>3, <2>5, FreeFits DEF SagaTypes
<1>10. CASE Reclaim
  <2>1. CASE Active = {}
    <3>1. UNCHANGED <<row, exitId, lease, paged, mode, op>> /\ pending' = FALSE /\ up' = "up"
      BY <1>10, <2>1 DEF Reclaim
    <3> QED
      BY <3>1 DEF SagaTypes
  <2>2. CASE Active # {}
    <3>1. PICK p \in Probes, by \in Callers : Begin(p, by)
      BY <1>10, <2>2 DEF Reclaim, Active, Callers
    <3>2. UNCHANGED <<row, exitId, lease, paged, mode, up, pending>>
      BY <1>10, <2>2 DEF Reclaim
    <3> QED
      BY <1>1, <3>1, <3>2, SagaBegins
  <2> QED
    BY <2>1, <2>2
<1>11. CASE OrderPush
  <2>1. UNCHANGED <<row, exitId, lease, paged, up, pending, op>> /\ mode' \in {mode, "hard"}
    BY <1>11 DEF OrderPush, Cover
  <2> QED
    BY <1>1, <2>1, SagaStays
<1> QED
  BY <1>2, <1>3, <1>4, <1>5, <1>6, <1>7, <1>8, <1>9, <1>10, <1>11 DEF Time, Command, Pass

LEMMA SagaThread ==
  ASSUME SagaTypes, Advance
  PROVE  SagaTypes'
<1>1. /\ op \in Ops /\ op.p \in Probes /\ op.exit \in Ids /\ mode \in Modes /\ "hard" \in Modes
      /\ row \in [Probes -> ProbeStates] /\ exitId \in [Probes -> Ids] /\ paged \subseteq Probes
  BY DEF SagaTypes, Ops, Modes
<1>2. Then \subseteq Steps /\ {"step", "create", "mark", "send", "reply", "answered", "review",
       "canceled", "recheck", "cover", "exit", "sell", "sold", "exited", "page", "note"} \subseteq Steps
  BY DEF Steps, Then
<1>3. {"BUY_SUBMITTING", "REJECTED", "BUY_UNKNOWN", "BUY_FILLED", "PROTECTING", "PROTECTED", "CLEANING",
       "DONE", "MANUAL_REVIEW"} \subseteq ProbeStates
  BY DEF ProbeStates, TERMINAL_PROBE_STATES
<1>4. CASE Acquire
  <2>1. CASE Return
    BY <1>1, <1>4, <2>1, SagaOff DEF Acquire
  <2>2. CASE ~Return
    <3>1. lease' = [lease EXCEPT ![op.p] = "held"] /\ op' = [op EXCEPT !.pc = "step"]
          /\ UNCHANGED <<row, exitId, paged, mode, up, pending>>
      BY <1>4, <2>2 DEF Acquire
    <3>2. op' \in Ops /\ op'.exit = op.exit /\ op'.p = op.p
      BY <1>1, <1>2, <3>1 DEF Ops
    <3> QED
      BY <1>1, <3>1, <3>2 DEF SagaTypes, Leases
  <2> QED
    BY <2>1, <2>2
<1>5. CASE Finished \/ ExitBlocked \/ SellTwice
  BY <1>1, <1>5, SagaOff DEF Finished, ExitBlocked, SellTwice
<1>6. CASE SubmitBuy \/ NothingSent \/ StartProtecting \/ StartCleaning \/ StoreAnswer \/ BuyDecided
           \/ ReviewNoted
  <2>1. \E pc \in {"create", "step", "exit"} :
          \E s \in {"BUY_SUBMITTING", "REJECTED", "PROTECTING", "CLEANING", "BUY_UNKNOWN", "BUY_FILLED",
                    "MANUAL_REVIEW"} :
            Move(s, pc)
    <3>1. CASE StoreAnswer
      BY <3>1 DEF StoreAnswer
    <3>2. CASE BuyDecided
      BY <3>2 DEF BuyDecided, BuyFact
    <3>3. CASE SubmitBuy \/ NothingSent \/ StartProtecting \/ StartCleaning \/ ReviewNoted
      BY <3>3 DEF SubmitBuy, NothingSent, StartProtecting, StartCleaning, ReviewNoted
    <3> QED
      BY <1>6, <3>1, <3>2, <3>3
  <2>2. op.pc \notin {"idle", "acquire"} /\ UNCHANGED <<exitId, paged>>
    BY <1>6 DEF SubmitBuy, NothingSent, StartProtecting, StartCleaning, StoreAnswer, BuyDecided, ReviewNoted,
       Step, At
  <2> QED
    BY <1>1, <1>2, <1>3, <2>1, <2>2, SagaMoves
<1>7. CASE RefuseBuy \/ CreateIntent \/ MarkSubmitting \/ GuardFails \/ Post \/ CancelBuy
           \/ EnsureProtection \/ EnterCleanup \/ SubmitSell \/ ReviewPages
  <2>1. op.pc \notin {"idle", "acquire"} /\ UNCHANGED <<row, exitId>> /\ paged' \in {paged, paged \union {op.p}}
    BY <1>7 DEF RefuseBuy, CreateIntent, MarkSubmitting, GuardFails, Post, CancelBuy,
       EnsureProtection, EnterCleanup, SubmitSell, ReviewPages, Step, At
  <2>2. \E pc \in {"review", "mark", "send", "answered", "reply", "recheck", "step", "exit", "sold", "note"} :
          Proceed(pc)
    BY <1>7 DEF RefuseBuy, CreateIntent, MarkSubmitting, GuardFails, Post, CancelBuy,
       EnsureProtection, EnterCleanup, SubmitSell, ReviewPages
  <2> QED
    BY <1>1, <1>2, <2>1, <2>2, SagaProceeds
<1>8. CASE QueryBuy \/ RecheckBuy \/ OnFill \/ Reply \/ ReviewHalts
  <2>1. op.pc \notin {"idle", "acquire"} /\ UNCHANGED <<row, exitId, paged, lease, up, pending>>
    BY <1>8 DEF QueryBuy, RecheckBuy, OnFill, Reply, ReviewHalts, Step, At
  <2>2. mode' \in Modes
    BY <1>1, <1>8 DEF QueryBuy, RecheckBuy, OnFill, Reply, ReviewHalts, Cover, Degraded, Modes
  <2>3. \/ \E pc \in {"cover", "queried", "canceled"}, then \in {"queried", "canceled"} :
             op' = [op EXCEPT !.pc = pc, !.then = then]
        \/ \E pc \in {"queried", "canceled", "answered", "page"} : op' = [op EXCEPT !.pc = pc]
        \/ op' = [op EXCEPT !.pc = op.then]
    BY <1>8 DEF QueryBuy, RecheckBuy, LearnBuy, OnFill, Reply, ReviewHalts
  <2>4. op' \in Ops /\ op'.exit = op.exit /\ op'.p = op.p
    BY <1>1, <2>3 DEF Ops, Steps, Then
  <2> QED
    BY <1>1, <2>1, <2>2, <2>4, SagaOn
<1>9. CASE BuyUndecided
  <2>1. op.pc \notin {"idle", "acquire"} /\ UNCHANGED <<exitId, paged>>
    BY <1>9 DEF BuyUndecided, At
  <2>2. (Proceed("review") /\ UNCHANGED row) \/ Move("BUY_UNKNOWN", "step") \/ (Return /\ UNCHANGED row)
    BY <1>9 DEF BuyUndecided
  <2> QED
    BY <1>1, <1>2, <1>3, <2>1, <2>2, SagaProceeds, SagaMoves, SagaOff
<1>10. CASE ResolveProtection
  <2>1. op.pc \notin {"idle", "acquire"} /\ UNCHANGED <<exitId, paged>>
    BY <1>10 DEF ResolveProtection, Step, At
  <2>2. (Proceed("review") /\ UNCHANGED row) \/ Move("PROTECTED", "step")
    BY <1>10 DEF ResolveProtection
  <2> QED
    BY <1>1, <1>2, <1>3, <2>1, <2>2, SagaProceeds, SagaMoves
<1>11. CASE ExitMeetsSell \/ ExitMeetsTrigger \/ ExitCancels \/ SellAnswered
  <2>1. op.pc \notin {"idle", "acquire"} /\ UNCHANGED <<row, exitId, paged, lease, up, pending>>
    BY <1>11 DEF ExitMeetsSell, ExitMeetsTrigger, ExitCancels, SellAnswered, At
  <2>2. mode' \in Modes
    BY <1>1, <1>11 DEF ExitMeetsSell, ExitMeetsTrigger, ExitCancels, SellAnswered, Degraded, Modes
  <2>3. UNCHANGED op \/ \E pc \in {"review", "exited", "sell"}, id \in Ids : ExitGives(pc, id)
    <3>1. CASE ExitMeetsSell
      BY <1>1, <3>1, Identifiers, Zenon DEF ExitMeetsSell
    <3>2. CASE ExitMeetsTrigger
      BY <3>2, Identifiers DEF ExitMeetsTrigger, Triggered
    <3>3. CASE ExitCancels
      BY <3>3, Identifiers DEF ExitCancels
    <3>4. CASE SellAnswered
      BY <1>1, <3>4, Identifiers DEF SellAnswered
    <3> QED
      BY <1>11, <3>1, <3>2, <3>3, <3>4
  <2>4. op' \in Ops /\ op'.exit \in Ids /\ op'.p = op.p
    <3>1. Ids \subseteq Int
      BY ProbeConstants DEF Ids, Null
    <3> QED
      BY <1>1, <1>2, <2>3, <3>1 DEF ExitGives, Ops
  <2> QED
    BY <1>1, <2>1, <2>2, <2>4, SagaOn
<1>12. CASE ExitUnfinished
  <2>1. op.pc \notin {"idle", "acquire"} /\ UNCHANGED <<row, exitId, paged>> /\ (Return \/ Proceed("review"))
    BY <1>12 DEF ExitUnfinished, At
  <2> QED
    BY <1>1, <1>2, <2>1, SagaProceeds, SagaOff
<1>13. CASE Clean
  <2>1. op.pc \notin {"idle", "acquire"} /\ UNCHANGED paged
    BY <1>13 DEF Clean, At
  <2>2. exitId' \in [Probes -> Ids]
    <3>1. UNCHANGED exitId \/ exitId' = [exitId EXCEPT ![op.p] = op.exit]
      BY <1>13 DEF Clean
    <3> QED
      BY <1>1, <3>1
  <2>3. (Raise /\ UNCHANGED row) \/ Move("DONE", "step")
    BY <1>13 DEF Clean
  <2> QED
    BY <1>1, <1>2, <1>3, <2>1, <2>2, <2>3, SagaMoves, SagaOff
<1> QED
  BY <1>4, <1>5, <1>6, <1>7, <1>8, <1>9, <1>10, <1>11, <1>12, <1>13 DEF Advance

-----------------------------------------------------------------------------
(* Then the orders: what the journal, the exchange and the row say of one  *)
(* probe agrees, and where the thread is in between says the rest.         *)

Buying == {"create", "mark", "send", "reply", "answered"}

Resolving == {"queried", "cover", "recheck", "canceled"}

Exiting == {"exit", "sell", "sold", "exited"}

BookTypes ==
  /\ intent \in [Probes -> Intents] /\ sell \in [Probes -> {"none", "unknown", "open"} \union Ended]
  /\ prot \in [Probes -> {"none", "unknown", "triggered", "failed", "off"} \union Covering]
  /\ xbuy \in [Probes -> {"none", "wire", "live", "filled", "canceled", "lost", "refused"}]
  /\ xsell \in [Probes -> {"none", "live", "filled", "canceled"}]
  /\ acc \in [Probes -> 0..Qty] /\ sold \in [Probes -> 0..Qty]
  /\ xacc \in [Probes -> 0..Qty] /\ xsold \in [Probes -> 0..Qty]

\* The journal is behind the exchange and never ahead of it, and has all of a BUY
\* that has ended; a row past the BUY means that it has; a row that ended means that
\* nothing is held. A SELL is only for a probe that is cleaned up, and lives on lots.
Book(p) ==
  /\ acc[p] <= xacc[p] /\ sold[p] <= xsold[p] /\ xsold[p] <= xacc[p]
  /\ xbuy[p] = "live" => xacc[p] < Qty
  /\ BuySeen(p) \/ xacc[p] = 0
  /\ row[p] \in {"none", "PREPARED"} => intent[p] = "none"
  /\ intent[p] \in {"none", "persisted"} => xbuy[p] = "none"
  /\ intent[p] \in Ended => xbuy[p] \notin {"live", "wire"} /\ acc[p] = xacc[p]
  /\ intent[p] = "rejected" => xbuy[p] \in {"none", "refused"}
  /\ row[p] \in {"BUY_FILLED", "PROTECTING", "PROTECTED", "CLEANING"} => intent[p] \in Ended
  /\ row[p] = "REJECTED" => intent[p] \in Ended \union {"none"} /\ xacc[p] = 0
  /\ row[p] = "DONE" => intent[p] \in Ended /\ Held(p) = 0
  /\ xsell[p] # "none" => row[p] \in {"CLEANING", "DONE", "MANUAL_REVIEW"}
  /\ xsell[p] = "live" => Held(p) > 0

ThreadAt ==
  /\ op.pc \in Buying => row[op.p] = "BUY_SUBMITTING"
  /\ op.pc \in Resolving => row[op.p] \in {"BUY_SUBMITTING", "BUY_UNKNOWN"}
  /\ op.pc \in Exiting => row[op.p] = "CLEANING"
  /\ op.pc = "mark" => intent[op.p] = "persisted"
  /\ op.pc \in {"send", "reply"} => intent[op.p] = "unknown"
  /\ op.pc \in {"mark", "send"} => xbuy[op.p] = "none"

FlatInv == BookTypes /\ ThreadAt /\ \A p \in Probes : Book(p)

\* Where nothing is half done.
Resting == {"idle", "acquire", "step", "review", "page", "note"}

LEMMA FlatInit == Init => FlatInv
<1> SUFFICES ASSUME Init PROVE FlatInv
  OBVIOUS
<1>1. op.pc = "idle"
  BY FreeOp DEF Init
<1>2. ThreadAt
  BY <1>1 DEF ThreadAt, Buying, Resolving, Exiting
<1>3. BookTypes
  BY ProbeConstants DEF Init, BookTypes, Intents
<1>4. ASSUME NEW p \in Probes PROVE Book(p)
  BY <1>4, ProbeConstants DEF Init, Book, Held, Ended
<1> QED
  BY <1>2, <1>3, <1>4 DEF FlatInv

\* Nothing but one probe's book is written.
LEMMA FlatOne ==
  ASSUME FlatInv, NEW p \in Probes, BookTypes', Book(p)', ThreadAt',
         \A q \in Probes \ {p} :
           /\ row'[q] = row[q] /\ intent'[q] = intent[q] /\ acc'[q] = acc[q] /\ sold'[q] = sold[q]
           /\ xbuy'[q] = xbuy[q] /\ xacc'[q] = xacc[q] /\ xsell'[q] = xsell[q] /\ xsold'[q] = xsold[q]
  PROVE  FlatInv'
<1>1. ASSUME NEW q \in Probes \ {p} PROVE Book(q)'
  BY <1>1 DEF FlatInv, Book, BuySeen, Held
<1> QED
  BY <1>1 DEF FlatInv

\* Or none is, and the thread has nothing half done.
LEMMA FlatRests ==
  ASSUME FlatInv, UNCHANGED <<orders, exchange, row>>, UNCHANGED op \/ op'.pc \in Resting
  PROVE  FlatInv'
<1>1. UNCHANGED <<intent, acc, sell, sold, prot, xbuy, xacc, xsell, xsold>>
  BY DEF orders, exchange
<1>2. BookTypes' /\ \A p \in Probes : Book(p)'
  BY <1>1 DEF FlatInv, BookTypes, Book, BuySeen, Held
<1>3. ThreadAt'
  BY <1>1 DEF FlatInv, ThreadAt, Resting, Buying, Resolving, Exiting
<1> QED
  BY <1>2, <1>3 DEF FlatInv

\* Protection is in nobody's book.
LEMMA FlatProtection ==
  ASSUME FlatInv, UNCHANGED <<row, intent, acc, sell, sold, exchange>>,
         prot' \in [Probes -> {"none", "unknown", "triggered", "failed", "off"} \union Covering], ThreadAt'
  PROVE  FlatInv'
BY DEF FlatInv, BookTypes, Book, BuySeen, Held, exchange

LEMMA FlatExchange ==
  ASSUME FlatInv, Exchange
  PROVE  FlatInv'
<1>1. BookTypes /\ ThreadAt /\ \A p \in Probes : Book(p)
  BY DEF FlatInv
<1>2. CASE XBuyArrives
  <2>1. PICK p \in Probes : xbuy[p] = "wire" /\ xbuy' = [xbuy EXCEPT ![p] = "live"]
    BY <1>2 DEF XBuyArrives
  <2>2. UNCHANGED <<row, intent, acc, sell, sold, prot, xacc, xsell, xsold, op>>
    BY <1>2 DEF XBuyArrives, orders, control
  <2>3. BookTypes'
    BY <1>1, <2>1, <2>2 DEF BookTypes
  <2>4. Book(p)'
    BY <1>1, <2>1, <2>2, ProbeConstants DEF Book, BookTypes, BuySeen, Held, Ended
  <2>5. ThreadAt'
    BY <1>1, <2>1, <2>2 DEF ThreadAt, BookTypes
  <2> QED
    BY <2>1, <2>2, <2>3, <2>4, <2>5, FlatOne DEF BookTypes
<1>3. CASE XBuyFill
  <2>1. PICK p \in Probes :
          /\ xbuy[p] = "live" /\ xacc' = [xacc EXCEPT ![p] = @ + 1]
          /\ xbuy' = [xbuy EXCEPT ![p] = IF xacc[p] + 1 = Qty THEN "filled" ELSE "live"]
    BY <1>3 DEF XBuyFill
  <2>2. UNCHANGED <<row, intent, acc, sell, sold, prot, xsell, xsold, op>>
    BY <1>3 DEF XBuyFill, orders, control
  <2>3. xacc[p] \in 0..Qty /\ xacc[p] < Qty /\ xsold[p] \in 0..Qty
    BY <1>1, <2>1 DEF Book, BookTypes
  <2>4. xacc'[p] = xacc[p] + 1 /\ xbuy'[p] = IF xacc[p] + 1 = Qty THEN "filled" ELSE "live"
    BY <1>1, <2>1 DEF BookTypes
  <2>5. BookTypes'
    BY <1>1, <2>1, <2>2, <2>3, ProbeConstants DEF BookTypes
  <2>6. Book(p)'
    BY <1>1, <2>1, <2>2, <2>3, <2>4, ProbeConstants DEF Book, BookTypes, BuySeen, Held, Ended
  <2>7. ThreadAt'
    BY <1>1, <2>1, <2>2 DEF ThreadAt, BookTypes
  <2> QED
    BY <1>1, <2>1, <2>2, <2>5, <2>6, <2>7, FlatOne DEF BookTypes
<1>4. CASE XBuyEnds
  <2>1. PICK p \in Probes : xbuy[p] = "live" /\ xbuy' = [xbuy EXCEPT ![p] = "canceled"]
    BY <1>4 DEF XBuyEnds
  <2>2. UNCHANGED <<row, intent, acc, sell, sold, prot, xacc, xsell, xsold, op>>
    BY <1>4 DEF XBuyEnds, orders, control
  <2>3. BookTypes'
    BY <1>1, <2>1, <2>2 DEF BookTypes
  <2>4. Book(p)'
    BY <1>1, <2>1, <2>2 DEF Book, BookTypes, BuySeen, Held, Ended
  <2>5. ThreadAt'
    BY <1>1, <2>1, <2>2 DEF ThreadAt, BookTypes
  <2> QED
    BY <2>1, <2>2, <2>3, <2>4, <2>5, FlatOne DEF BookTypes
<1>5. CASE XSellFill
  <2>1. PICK p \in Probes :
          /\ xsell[p] = "live" /\ Held(p) > 0 /\ xsold' = [xsold EXCEPT ![p] = @ + 1]
          /\ xsell' = [xsell EXCEPT ![p] = IF Held(p) = 1 THEN "filled" ELSE "live"]
    BY <1>5 DEF XSellFill
  <2>2. UNCHANGED <<row, intent, acc, sell, sold, prot, xbuy, xacc, op>>
    BY <1>5 DEF XSellFill, orders, control
  <2>3. xacc[p] \in 0..Qty /\ xsold[p] \in 0..Qty /\ xsold[p] < xacc[p] /\ sold[p] \in 0..Qty
    BY <1>1, <2>1, ProbeConstants DEF Held, BookTypes
  <2>4. xsold'[p] = xsold[p] + 1 /\ xsell'[p] = IF Held(p) = 1 THEN "filled" ELSE "live"
    BY <1>1, <2>1 DEF BookTypes
  <2>5. BookTypes'
    BY <1>1, <2>1, <2>2, <2>3, ProbeConstants DEF BookTypes
  <2>6. Book(p)'
    BY <1>1, <2>1, <2>2, <2>3, <2>4, ProbeConstants DEF Book, BuySeen, Held
  <2>7. ThreadAt'
    BY <1>1, <2>2 DEF ThreadAt
  <2> QED
    BY <1>1, <2>1, <2>2, <2>5, <2>6, <2>7, FlatOne DEF BookTypes
<1>6. CASE XSellEnds
  <2>1. PICK p \in Probes : xsell[p] = "live" /\ xsell' = [xsell EXCEPT ![p] = "canceled"]
    BY <1>6 DEF XSellEnds
  <2>2. UNCHANGED <<row, intent, acc, sell, sold, prot, xbuy, xacc, xsold, op>>
    BY <1>6 DEF XSellEnds, orders, control
  <2>3. BookTypes' /\ ThreadAt'
    BY <1>1, <2>1, <2>2 DEF BookTypes, ThreadAt
  <2>4. Book(p)'
    BY <1>1, <2>1, <2>2 DEF Book, BookTypes, BuySeen, Held
  <2> QED
    BY <2>1, <2>2, <2>3, <2>4, FlatOne DEF BookTypes
<1>7. CASE OCOEnds
  <2>1. \E p \in Probes : \E s \in {"triggered", "none", "failed"} : prot' = [prot EXCEPT ![p] = s]
    BY <1>7 DEF OCOEnds, Lost
  <2>2. UNCHANGED <<row, intent, acc, sell, sold, exchange, op>>
    BY <1>7 DEF OCOEnds, control
  <2>3. ThreadAt'
    BY <1>1, <2>2 DEF ThreadAt, exchange
  <2> QED
    BY <1>1, <2>1, <2>2, <2>3, FlatProtection DEF BookTypes
<1>8. CASE SoldElsewhere
  <2>1. PICK p \in Probes :
          Held(p) > 0 /\ xsell[p] # "live" /\ xsold' = [xsold EXCEPT ![p] = xacc[p]]
    BY <1>8 DEF SoldElsewhere
  <2>2. UNCHANGED <<row, intent, acc, sell, sold, prot, xbuy, xacc, xsell, op>>
    BY <1>8 DEF SoldElsewhere, orders
  <2>3. BookTypes' /\ ThreadAt'
    BY <1>1, <2>1, <2>2 DEF BookTypes, ThreadAt
  <2>4. xacc[p] \in 0..Qty /\ xsold[p] \in 0..Qty /\ sold[p] \in 0..Qty /\ xsold'[p] = xacc[p]
    BY <1>1, <2>1 DEF BookTypes
  <2>5. Book(p)'
    BY <1>1, <2>1, <2>2, <2>4, ProbeConstants DEF Book, BuySeen, Held
  <2> QED
    BY <2>1, <2>2, <2>3, <2>5, FlatOne DEF BookTypes
<1> QED
  BY <1>2, <1>3, <1>4, <1>5, <1>6, <1>7, <1>8 DEF Exchange

\* What reconciliation and a push take in: a view of the BUY with what it has filled.
LEMMA FlatViewed ==
  ASSUME FlatInv, NEW p \in Probes,
         UNCHANGED <<row, xbuy, xacc, xsell, xsold>>,
         \/ intent'[p] = intent[p] /\ acc'[p] = acc[p]
         \/ BuySeen(p) /\ intent'[p] = BuyView(p) /\ acc'[p] = xacc[p]
         \/ intent[p] \in {"persisted", "unknown"} /\ acc'[p] = acc[p]
            /\ intent'[p] = IF intent[p] = "persisted" THEN "rejected" ELSE "review",
         sold'[p] \in {sold[p], xsold[p]}
  PROVE  Book(p)'
<1>1. Book(p) /\ acc[p] \in 0..Qty /\ xacc[p] \in 0..Qty /\ sold[p] \in 0..Qty /\ xsold[p] \in 0..Qty
  BY DEF FlatInv, BookTypes
<1>2. CASE intent'[p] = intent[p] /\ acc'[p] = acc[p]
  BY <1>1, <1>2, ProbeConstants DEF Book, BuySeen, Held
<1>3. CASE BuySeen(p) /\ intent'[p] = BuyView(p) /\ acc'[p] = xacc[p]
  <2>1. intent[p] # "none" /\ intent[p] # "rejected"
    BY <1>1, <1>3 DEF Book, BuySeen
  <2>2. CASE xbuy[p] = "live"
    BY <1>1, <1>3, <2>1, <2>2, ProbeConstants DEF Book, BuySeen, BuyView, Held, Ended
  <2>3. CASE xbuy[p] \in {"filled", "canceled"}
    BY <1>1, <1>3, <2>1, <2>3, ProbeConstants DEF Book, BuySeen, BuyView, Held, Ended
  <2> QED
    BY <1>3, <2>2, <2>3 DEF BuySeen
<1>4. CASE intent[p] \in {"persisted", "unknown"} /\ acc'[p] = acc[p]
            /\ intent'[p] = IF intent[p] = "persisted" THEN "rejected" ELSE "review"
  BY <1>1, <1>4, ProbeConstants DEF Book, BuySeen, Held, Ended
<1> QED
  BY <1>2, <1>3, <1>4

LEMMA FlatOutside ==
  ASSUME FlatInv, SagaTypes, Time \/ Command \/ Pass \/ Crash \/ Start \/ OrderPush
  PROVE  FlatInv'
<1>1. BookTypes /\ ThreadAt /\ \A p \in Probes : Book(p)
  BY DEF FlatInv
<1>2. CASE Time
  BY <1>2, FlatRests DEF Time, Age, LeaseLapses, control
<1>3. CASE Prepare
  <2>1. PICK p \in NextProbe : row' = [row EXCEPT ![p] = "PREPARED"] /\ Begin(p, "command")
    BY <1>3 DEF Prepare
  <2>2. p \in Probes /\ row[p] = "none" /\ op'.pc = "acquire" /\ UNCHANGED <<orders, exchange>>
    BY <1>3, <2>1 DEF Prepare, NextProbe, Begin
  <2>3. UNCHANGED <<intent, acc, sell, sold, prot, xbuy, xacc, xsell, xsold>>
    BY <2>2 DEF orders, exchange
  <2>4. BookTypes' /\ ThreadAt'
    BY <1>1, <2>2, <2>3 DEF BookTypes, ThreadAt, Buying, Resolving, Exiting
  <2>5. row'[p] = "PREPARED"
    BY <2>1, <2>2 DEF SagaTypes
  <2>6. Book(p)'
    BY <1>1, <2>2, <2>3, <2>5 DEF Book, BuySeen, Held
  <2> QED
    BY <2>1, <2>2, <2>3, <2>4, <2>6, FlatOne DEF SagaTypes
<1>4. CASE AdvanceCommand \/ Reclaim
  <2>1. UNCHANGED <<orders, exchange, row>> /\ (UNCHANGED op \/ \E p \in Probes, by \in Callers : Begin(p, by))
    BY <1>4 DEF AdvanceCommand, Reclaim, Active, Callers
  <2>2. UNCHANGED op \/ op'.pc = "acquire"
    BY <2>1 DEF Begin
  <2> QED
    BY <2>1, <2>2, FlatRests DEF Resting
<1>5. CASE PrepareRefused \/ Resume \/ TickDue \/ RunFails \/ PassEnds \/ Start
  BY <1>5, FlatRests DEF PrepareRefused, Resume, TickDue, RunFails, PassEnds, Start
<1>6. CASE Crash
  BY <1>6, FreeOp, FlatRests DEF Crash, Resting
<1>7. CASE Runs
  <2>1. UNCHANGED <<row, op, xbuy, xacc, xsell, xsold>> /\ op.pc = "idle"
    BY <1>7 DEF Runs, exchange, At
  <2>2. PICK old : intent' = [q \in Probes |->
            IF BuySeen(q) THEN BuyView(q) ELSE IF intent[q] = "persisted" THEN "rejected"
            ELSE IF q \in old THEN "review" ELSE intent[q]]
          /\ \A q \in old : intent[q] = "unknown"
    BY <1>7 DEF Runs
  <2>3. /\ acc' = [q \in Probes |-> IF BuySeen(q) THEN xacc[q] ELSE acc[q]]
        /\ sell' = [q \in Probes |-> IF SellSeen(q) THEN SellView(q) ELSE sell[q]] /\ sold' = xsold
    BY <1>7 DEF Runs
  <2>4. \/ UNCHANGED prot
        \/ \E bare : \E s \in {"unknown", "active"} :
             prot' = [q \in Probes |->
               IF q \in bare THEN IF prot[q] = "none" THEN "other" ELSE "replaced"
               ELSE IF prot[q] = "unknown" THEN s ELSE prot[q]]
    BY <1>7 DEF Runs
  <2>5. prot' \in [Probes -> {"none", "unknown", "triggered", "failed", "off"} \union Covering]
    BY <1>1, <2>4 DEF BookTypes, Covering
  <2>6. sell' \in [Probes -> {"none", "unknown", "open"} \union Ended]
    BY <1>1, <2>3 DEF BookTypes, SellSeen, SellView, Ended
  <2>7. intent' \in [Probes -> Intents]
    BY <1>1, <2>2, ViewKnown DEF BookTypes, Intents
  <2>8. acc' \in [Probes -> 0..Qty] /\ sold' \in [Probes -> 0..Qty]
    BY <1>1, <2>3 DEF BookTypes
  <2>9. BookTypes'
    BY <1>1, <2>1, <2>5, <2>6, <2>7, <2>8 DEF BookTypes
  <2>10. ThreadAt'
    BY <2>1 DEF ThreadAt, Buying, Resolving, Exiting
  <2>11. ASSUME NEW p \in Probes PROVE Book(p)'
    BY <2>1, <2>2, <2>3, FlatViewed
  <2> QED
    BY <2>9, <2>10, <2>11 DEF FlatInv
<1>8. CASE OrderPush
  <2>1. UNCHANGED <<row, op, xbuy, xacc, xsell, xsold>> /\ op.pc = "idle"
    BY <1>8 DEF OrderPush, exchange, At
  <2>2. ThreadAt'
    BY <2>1 DEF ThreadAt, Buying, Resolving, Exiting
  <2>3. PICK p \in Probes :
          \/ /\ BuySeen(p) /\ intent' = [intent EXCEPT ![p] = BuyView(p)] /\ acc' = [acc EXCEPT ![p] = xacc[p]]
             /\ (Cover(p) \/ UNCHANGED prot) /\ UNCHANGED <<sell, sold>>
          \/ /\ SellSeen(p) /\ sell' = [sell EXCEPT ![p] = SellView(p)] /\ sold' = [sold EXCEPT ![p] = xsold[p]]
             /\ UNCHANGED <<intent, acc, prot>>
    BY <1>8 DEF OrderPush
  <2>4. UNCHANGED prot \/ \E s \in {"active", "unknown", "none", "failed"} : prot' = [prot EXCEPT ![p] = s]
    BY <1>1, <2>3 DEF Cover, Lost, BookTypes
  <2>5. prot' \in [Probes -> {"none", "unknown", "triggered", "failed", "off"} \union Covering]
    BY <1>1, <2>4 DEF BookTypes, Covering
  <2>6. intent' \in [Probes -> Intents] /\ acc' \in [Probes -> 0..Qty] /\ sold' \in [Probes -> 0..Qty]
    BY <1>1, <2>3, ViewKnown DEF BookTypes
  <2>7. sell' \in [Probes -> {"none", "unknown", "open"} \union Ended]
    BY <1>1, <2>3 DEF BookTypes, SellSeen, SellView, Ended
  <2>8. BookTypes'
    BY <1>1, <2>1, <2>5, <2>6, <2>7 DEF BookTypes
  <2>9. Book(p)'
    BY <1>1, <2>1, <2>3, FlatViewed DEF BookTypes
  <2> QED
    BY <1>1, <2>1, <2>2, <2>3, <2>8, <2>9, FlatOne DEF BookTypes
<1> QED
  BY <1>2, <1>3, <1>4, <1>5, <1>6, <1>7, <1>8 DEF Command, Pass

\* A row is moved on only where its book allows what the new state says.
LEMMA FlatMoves ==
  ASSUME FlatInv, SagaTypes, NEW s \in ProbeStates \ {"none", "PREPARED"},
         NEW pc \in Resting \union {"create", "exit"}, Move(s, pc), UNCHANGED <<orders, exchange>>,
         s \in {"BUY_FILLED", "PROTECTING", "PROTECTED", "CLEANING", "DONE"} => intent[op.p] \in Ended,
         s = "REJECTED" => intent[op.p] \in Ended \union {"none"} /\ xacc[op.p] = 0,
         s = "DONE" => Held(op.p) = 0,
         xsell[op.p] # "none" => s \in {"CLEANING", "DONE", "MANUAL_REVIEW"},
         pc = "create" => s = "BUY_SUBMITTING", pc = "exit" => s = "CLEANING"
  PROVE  FlatInv'
<1> PICK p \in Probes : p = op.p
  BY DEF SagaTypes, Ops
<1>1. BookTypes /\ ThreadAt /\ (\A q \in Probes : Book(q)) /\ op \in Ops
  BY DEF FlatInv, SagaTypes
<1>2. UNCHANGED <<intent, acc, sell, sold, prot, xbuy, xacc, xsell, xsold>>
  BY DEF orders, exchange
<1>3. CASE UNCHANGED row /\ Raise
  BY <1>3, FreeOp, FlatRests DEF Raise, Resting
<1>4. CASE row' = [row EXCEPT ![p] = s] /\ Proceed(pc)
  <2>1. op' = [op EXCEPT !.pc = pc]
    BY <1>4 DEF Proceed
  <2>2. op'.p = p /\ op'.pc = pc
    BY <1>1, <2>1 DEF Ops
  <2>3. row'[p] = s
    BY <1>1, <1>4 DEF SagaTypes
  <2>4. BookTypes'
    BY <1>1, <1>2 DEF BookTypes
  <2>5. ThreadAt'
    BY <2>2, <2>3 DEF ThreadAt, Resting, Buying, Resolving, Exiting
  <2>6. Book(p)'
    BY <1>1, <1>2, <2>3 DEF Book, BuySeen, Held
  <2> QED
    BY <1>1, <1>2, <1>4, <2>4, <2>5, <2>6, FlatOne DEF SagaTypes
<1> QED
  BY <1>3, <1>4 DEF Move

\* The steps that say in the row how far the probe has got.
LEMMA FlatRow ==
  ASSUME FlatInv, SagaTypes,
         \/ SubmitBuy \/ StoreAnswer \/ NothingSent \/ BuyDecided \/ BuyUndecided \/ StartProtecting
         \/ ResolveProtection \/ StartCleaning \/ Clean \/ ReviewNoted
  PROVE  FlatInv'
<1> DEFINE p == op.p
<1>1. BookTypes /\ ThreadAt /\ (\A q \in Probes : Book(q)) /\ op \in Ops /\ p \in Probes
  BY DEF FlatInv, SagaTypes, Ops
<1>2. Book(p) /\ xacc[p] \in 0..Qty /\ acc[p] \in 0..Qty
  BY <1>1 DEF BookTypes
<1>3. {"BUY_SUBMITTING", "REJECTED", "BUY_UNKNOWN", "BUY_FILLED", "PROTECTING", "PROTECTED", "CLEANING",
       "DONE", "MANUAL_REVIEW"} \subseteq ProbeStates \ {"none", "PREPARED"}
  BY DEF ProbeStates, TERMINAL_PROBE_STATES
<1>4. {"step", "review"} \subseteq Resting /\ Free.pc \in Resting
  BY FreeOp DEF Resting
<1>5. ASSUME Return \/ Proceed("review"), UNCHANGED <<orders, exchange, row>> PROVE FlatInv'
  BY <1>1, <1>4, <1>5, FlatRests DEF Return, Proceed, Ops
<1>6. CASE SubmitBuy
  <2>1. row[p] = "PREPARED" /\ Move("BUY_SUBMITTING", "create") /\ UNCHANGED <<orders, exchange>>
    BY <1>6 DEF SubmitBuy, Step
  <2> QED
    BY <1>2, <1>3, <2>1, FlatMoves DEF Book
<1>7. CASE StoreAnswer
  <2>1. row[p] = "BUY_SUBMITTING" /\ UNCHANGED <<orders, exchange>>
    BY <1>1, <1>7 DEF StoreAnswer, At, ThreadAt, Buying
  <2>2. xsell[p] = "none"
    BY <1>2, <2>1 DEF Book
  <2>3. CASE intent[p] = "rejected" /\ Move("REJECTED", "step")
    <3>1. xacc[p] = 0
      BY <1>2, <2>3 DEF Book, BuySeen
    <3> QED
      BY <1>3, <1>4, <2>1, <2>2, <2>3, <3>1, FlatMoves DEF Ended
  <2>4. CASE Move("BUY_UNKNOWN", "step") \/ Move("BUY_SUBMITTING", "step")
    BY <1>3, <1>4, <2>1, <2>2, <2>4, FlatMoves
  <2> QED
    BY <1>7, <2>3, <2>4 DEF StoreAnswer
<1>8. CASE NothingSent
  <2>1. row[p] \in {"BUY_SUBMITTING", "BUY_UNKNOWN"} /\ intent[p] = "none" /\ Move("REJECTED", "step")
        /\ UNCHANGED <<orders, exchange>>
    BY <1>8 DEF NothingSent, Step
  <2>2. xsell[p] = "none" /\ xacc[p] = 0
    BY <1>2, <2>1 DEF Book, BuySeen
  <2> QED
    BY <1>3, <1>4, <2>1, <2>2, FlatMoves
<1>9. CASE BuyDecided
  <2>1. row[p] \in {"BUY_SUBMITTING", "BUY_UNKNOWN"} /\ UNCHANGED <<orders, exchange>>
    BY <1>1, <1>9 DEF BuyDecided, ThreadAt, Resolving
  <2>2. xsell[p] = "none"
    BY <1>2, <2>1 DEF Book
  <2>3. intent[p] \in Ended /\ (BuyFact(p) = "BUY_FILLED" \/ (BuyFact(p) = "REJECTED" /\ acc[p] = 0))
    BY <1>2, <1>9 DEF BuyDecided, BuyFact
  <2>4. acc[p] = xacc[p]
    BY <1>2, <2>3 DEF Book
  <2> QED
    BY <1>3, <1>4, <1>9, <2>1, <2>2, <2>3, <2>4, FlatMoves DEF BuyDecided
<1>10. CASE BuyUndecided
  <2>1. UNCHANGED <<orders, exchange>>
    BY <1>10 DEF BuyUndecided
  <2>2. CASE At("queried") /\ Move("BUY_UNKNOWN", "step")
    <3>1. row[p] \in {"BUY_SUBMITTING", "BUY_UNKNOWN"}
      BY <1>1, <2>2 DEF At, ThreadAt, Resolving
    <3> QED
      BY <1>2, <1>3, <1>4, <2>1, <2>2, <3>1, FlatMoves DEF Book
  <2> QED
    BY <1>5, <1>10, <2>1, <2>2 DEF BuyUndecided
<1>11. CASE StartProtecting
  <2>1. row[p] = "BUY_FILLED" /\ Move("PROTECTING", "step") /\ UNCHANGED <<orders, exchange>>
    BY <1>11 DEF StartProtecting, Step
  <2> QED
    BY <1>2, <1>3, <1>4, <2>1, FlatMoves DEF Book
<1>12. CASE ResolveProtection
  <2>1. row[p] = "PROTECTING" /\ UNCHANGED <<orders, exchange>>
    BY <1>12 DEF ResolveProtection, Step
  <2>2. CASE Move("PROTECTED", "step")
    BY <1>2, <1>3, <1>4, <2>1, <2>2, FlatMoves DEF Book
  <2> QED
    BY <1>5, <1>12, <2>1, <2>2 DEF ResolveProtection
<1>13. CASE StartCleaning
  <2>1. row[p] = "PROTECTED" /\ Move("CLEANING", "exit") /\ UNCHANGED <<orders, exchange>>
    BY <1>13 DEF StartCleaning, Step
  <2> QED
    BY <1>2, <1>3, <2>1, FlatMoves DEF Book
<1>14. CASE Clean
  <2>1. row[p] = "CLEANING" /\ Held(p) = 0 /\ UNCHANGED <<orders, exchange>>
    BY <1>1, <1>14 DEF Clean, At, ThreadAt, Exiting
  <2>2. CASE Raise /\ UNCHANGED row
    BY <1>4, <2>1, <2>2, FlatRests DEF Raise
  <2>3. CASE Move("DONE", "step")
    BY <1>2, <1>3, <1>4, <2>1, <2>3, FlatMoves DEF Book
  <2> QED
    BY <1>14, <2>2, <2>3 DEF Clean
<1>15. CASE ReviewNoted
  BY <1>2, <1>3, <1>4, <1>15, FlatMoves DEF ReviewNoted, Book
<1> QED
  BY <1>6, <1>7, <1>8, <1>9, <1>10, <1>11, <1>12, <1>13, <1>14, <1>15

\* The steps of a submission, in the order of the code.
LEMMA FlatSubmitting ==
  ASSUME FlatInv, SagaTypes, CreateIntent \/ MarkSubmitting \/ GuardFails \/ Post \/ Reply
  PROVE  FlatInv'
<1> PICK p \in Probes : p = op.p
  BY DEF SagaTypes, Ops
<1>1. BookTypes /\ ThreadAt /\ (\A q \in Probes : Book(q)) /\ op \in Ops
  BY DEF FlatInv, SagaTypes
<1>2. Book(p) /\ xacc[p] \in 0..Qty /\ acc[p] \in 0..Qty /\ row[p] = "BUY_SUBMITTING"
  BY <1>1 DEF BookTypes, CreateIntent, MarkSubmitting, GuardFails, Post, Reply, At, ThreadAt, Buying
<1>3. UNCHANGED <<row, acc, sell, sold, prot, xacc, xsell, xsold>>
  BY DEF CreateIntent, MarkSubmitting, GuardFails, Post, Reply, exchange, orders
<1>4. ASSUME NEW pc \in Buying \union {"review"}, op' = [op EXCEPT !.pc = pc]
      PROVE  op'.pc = pc /\ op'.p = p
  BY <1>1, <1>4 DEF Ops
<1>5. CASE CreateIntent
  <2>1. intent[p] = "none" /\ intent' = [intent EXCEPT ![p] = "persisted"] /\ UNCHANGED xbuy
        /\ op' = [op EXCEPT !.pc = "mark"]
    BY <1>5 DEF CreateIntent, exchange, Proceed
  <2>2. intent'[p] = "persisted" /\ xbuy[p] = "none"
    BY <1>1, <1>2, <2>1 DEF BookTypes, Book
  <2>3. BookTypes'
    BY <1>1, <1>3, <2>1 DEF BookTypes, Intents
  <2>4. ThreadAt'
    BY <1>2, <1>3, <1>4, <2>1, <2>2 DEF ThreadAt, Buying, Resolving, Exiting
  <2>5. Book(p)'
    BY <1>2, <1>3, <2>1, <2>2 DEF Book, BuySeen, Held, Ended
  <2> QED
    BY <1>1, <1>3, <2>1, <2>3, <2>4, <2>5, FlatOne DEF BookTypes
<1>6. CASE MarkSubmitting
  <2>1. op.pc = "mark" /\ intent' = [intent EXCEPT ![p] = "unknown"] /\ UNCHANGED xbuy
        /\ op' = [op EXCEPT !.pc = "send"]
    BY <1>6 DEF MarkSubmitting, At, exchange, Proceed
  <2>2. intent'[p] = "unknown" /\ xbuy[p] = "none"
    BY <1>1, <2>1 DEF BookTypes, ThreadAt
  <2>3. BookTypes'
    BY <1>1, <1>3, <2>1 DEF BookTypes, Intents
  <2>4. ThreadAt'
    BY <1>2, <1>3, <1>4, <2>1, <2>2 DEF ThreadAt, Buying, Resolving, Exiting
  <2>5. Book(p)'
    BY <1>2, <1>3, <2>1, <2>2 DEF Book, BuySeen, Held, Ended
  <2> QED
    BY <1>1, <1>3, <2>1, <2>3, <2>4, <2>5, FlatOne DEF BookTypes
<1>7. CASE GuardFails
  <2>1. PICK s \in {"rejected", "canceled"} : intent' = [intent EXCEPT ![p] = s]
    BY <1>7 DEF GuardFails
  <2>2. op.pc = "send" /\ UNCHANGED xbuy /\ \E pc \in {"answered", "review"} : op' = [op EXCEPT !.pc = pc]
    BY <1>7 DEF GuardFails, At, exchange, Proceed
  <2>3. intent'[p] = s /\ xbuy[p] = "none" /\ xacc[p] = 0 /\ acc[p] = 0
    BY <1>1, <1>2, <2>1, <2>2, ProbeConstants DEF BookTypes, ThreadAt, Book, BuySeen
  <2>4. BookTypes'
    BY <1>1, <1>3, <2>1, <2>2 DEF BookTypes, Intents
  <2>5. ThreadAt'
    BY <1>2, <1>3, <1>4, <2>2 DEF ThreadAt, Buying, Resolving, Exiting
  <2>6. Book(p)'
    BY <1>2, <1>3, <2>2, <2>3 DEF Book, BuySeen, Held, Ended
  <2> QED
    BY <1>1, <1>3, <2>1, <2>2, <2>4, <2>5, <2>6, FlatOne DEF BookTypes
<1>8. CASE Post
  <2>1. PICK s \in {"live", "wire", "lost", "refused"} : xbuy' = [xbuy EXCEPT ![p] = s]
    BY <1>8 DEF Post
  <2>2. op.pc = "send" /\ UNCHANGED intent /\ op' = [op EXCEPT !.pc = "reply"]
    BY <1>8 DEF Post, At, orders, Proceed
  <2>3. xbuy'[p] = s /\ intent[p] = "unknown" /\ xacc[p] = 0
    BY <1>1, <1>2, <2>1, <2>2 DEF BookTypes, ThreadAt, Book, BuySeen
  <2>4. BookTypes'
    BY <1>1, <1>3, <2>1, <2>2 DEF BookTypes
  <2>5. ThreadAt'
    BY <1>2, <1>3, <1>4, <2>2, <2>3 DEF ThreadAt, Buying, Resolving, Exiting
  <2>6. Book(p)'
    BY <1>2, <1>3, <2>2, <2>3, ProbeConstants DEF Book, BuySeen, Held, Ended
  <2> QED
    BY <1>1, <1>3, <2>1, <2>2, <2>4, <2>5, <2>6, FlatOne DEF BookTypes
<1>9. CASE Reply
  <2>1. op.pc = "reply" /\ UNCHANGED xbuy /\ op' = [op EXCEPT !.pc = "answered"]
    BY <1>9 DEF Reply, At, exchange
  <2>2. intent[p] = "unknown"
    BY <1>1, <2>1 DEF ThreadAt
  <2>3. \/ UNCHANGED intent
        \/ BuySeen(p) /\ intent' = [intent EXCEPT ![p] = "open"]
        \/ xbuy[p] = "refused" /\ intent' = [intent EXCEPT ![p] = "rejected"]
    BY <1>9 DEF Reply
  <2>4. \/ intent'[p] = "unknown" \/ (BuySeen(p) /\ intent'[p] = "open")
        \/ (xbuy[p] = "refused" /\ intent'[p] = "rejected")
    BY <1>1, <2>2, <2>3 DEF BookTypes
  <2>5. BookTypes'
    BY <1>1, <1>3, <2>1, <2>3 DEF BookTypes, Intents
  <2>6. ThreadAt'
    BY <1>2, <1>3, <1>4, <2>1 DEF ThreadAt, Buying, Resolving, Exiting
  <2>7. Book(p)'
    BY <1>2, <1>3, <2>1, <2>4, ProbeConstants DEF Book, BuySeen, Held, Ended
  <2> QED
    BY <1>1, <1>3, <2>1, <2>3, <2>5, <2>6, <2>7, FlatOne DEF BookTypes
<1> QED
  BY <1>5, <1>6, <1>7, <1>8, <1>9

\* What the thread asks of the exchange about the BUY, and of the OCO.
LEMMA FlatResolving ==
  ASSUME FlatInv, SagaTypes, QueryBuy \/ RecheckBuy \/ OnFill \/ CancelBuy \/ EnsureProtection
  PROVE  FlatInv'
<1> PICK p \in Probes : p = op.p
  BY DEF SagaTypes, Ops
<1>1. BookTypes /\ ThreadAt /\ (\A q \in Probes : Book(q)) /\ op \in Ops
  BY DEF FlatInv, SagaTypes
<1>2. ASSUME row[p] \in {"BUY_SUBMITTING", "BUY_UNKNOWN"}, UNCHANGED row,
             op'.p = p, op'.pc \in Resolving \union {"step"}
      PROVE  ThreadAt'
  BY <1>2 DEF ThreadAt, Buying, Resolving, Exiting
<1>3. CASE QueryBuy \/ RecheckBuy
  <2>1. PICK then \in {"queried", "canceled"} : LearnBuy(p, then)
    BY <1>3 DEF QueryBuy, RecheckBuy
  <2>2. UNCHANGED <<row, sell, sold, prot, xbuy, xacc, xsell, xsold>>
    BY <1>3 DEF QueryBuy, RecheckBuy, exchange
  <2>3. row[p] \in {"BUY_SUBMITTING", "BUY_UNKNOWN"}
    BY <1>1, <1>3 DEF QueryBuy, RecheckBuy, Step, At, ThreadAt, Resolving
  <2>4. \/ UNCHANGED <<intent, acc>>
        \/ BuySeen(p) /\ intent' = [intent EXCEPT ![p] = BuyView(p)] /\ acc' = [acc EXCEPT ![p] = xacc[p]]
    BY <2>1 DEF LearnBuy
  <2>5. \/ \E pc \in {"cover", "queried", "canceled"} : op' = [op EXCEPT !.pc = pc, !.then = then]
        \/ op' = [op EXCEPT !.pc = then]
    BY <2>1 DEF LearnBuy
  <2>6. op'.p = p /\ op'.pc \in Resolving
    BY <1>1, <2>5 DEF Ops, Resolving
  <2>7. BookTypes'
    BY <1>1, <2>2, <2>4, ViewKnown DEF BookTypes
  <2>8. Book(p)'
    BY <1>1, <2>2, <2>4, FlatViewed DEF BookTypes
  <2> QED
    BY <1>1, <1>2, <2>2, <2>3, <2>4, <2>6, <2>7, <2>8, FlatOne DEF BookTypes
<1>4. CASE OnFill
  <2>1. op' = [op EXCEPT !.pc = op.then] /\ row[p] \in {"BUY_SUBMITTING", "BUY_UNKNOWN"}
        /\ UNCHANGED <<row, intent, acc, sell, sold, exchange>>
    BY <1>1, <1>4 DEF OnFill, At, ThreadAt, Resolving
  <2>2. op'.p = p /\ op'.pc \in Resolving \union {"step"}
    BY <1>1, <2>1 DEF Ops, Then, Resolving
  <2>3. UNCHANGED prot \/ \E s \in {"active", "unknown", "none", "failed"} : prot' = [prot EXCEPT ![p] = s]
    BY <1>1, <1>4 DEF OnFill, Cover, Lost, BookTypes
  <2>4. prot' \in [Probes -> {"none", "unknown", "triggered", "failed", "off"} \union Covering]
    BY <1>1, <2>3 DEF BookTypes, Covering
  <2> QED
    BY <1>2, <2>1, <2>2, <2>4, FlatProtection
<1>5. CASE CancelBuy
  <2>1. op.pc = "queried" /\ intent[p] = "open" /\ UNCHANGED <<row, intent, acc, sell, sold, prot, xacc, xsell, xsold>>
        /\ op' = [op EXCEPT !.pc = "recheck"]
    BY <1>5 DEF CancelBuy, At, orders, Proceed
  <2>2. UNCHANGED xbuy \/ xbuy' = [xbuy EXCEPT ![p] = IF @ = "live" THEN "canceled" ELSE @]
    BY <1>5 DEF CancelBuy
  <2>3. row[p] \in {"BUY_SUBMITTING", "BUY_UNKNOWN"} /\ op'.p = p /\ op'.pc = "recheck"
    BY <1>1, <2>1 DEF ThreadAt, Resolving, Ops
  <2>4. xbuy'[p] \in {xbuy[p], IF xbuy[p] = "live" THEN "canceled" ELSE xbuy[p]}
    BY <1>1, <2>2 DEF BookTypes
  <2>5. BookTypes'
    BY <1>1, <2>1, <2>2 DEF BookTypes
  <2>6. Book(p)'
    BY <1>1, <2>1, <2>4 DEF Book, BuySeen, Held, Ended
  <2> QED
    BY <1>1, <1>2, <2>1, <2>2, <2>3, <2>5, <2>6, FlatOne DEF BookTypes, Resolving
<1>6. CASE EnsureProtection
  <2>1. UNCHANGED <<row, intent, acc, sell, sold, exchange>>
        /\ (UNCHANGED prot \/ prot' = [prot EXCEPT ![p] = "active"])
    BY <1>6 DEF EnsureProtection
  <2>2. \E pc \in {"step", "review"} : op' = [op EXCEPT !.pc = pc]
    BY <1>6 DEF EnsureProtection, Proceed
  <2>3. op'.pc \in {"step", "review"}
    BY <1>1, <2>2 DEF Ops
  <2>4. ThreadAt'
    BY <2>3 DEF ThreadAt, Buying, Resolving, Exiting
  <2>5. prot' \in [Probes -> {"none", "unknown", "triggered", "failed", "off"} \union Covering]
    BY <1>1, <2>1 DEF BookTypes, Covering
  <2> QED
    BY <2>1, <2>4, <2>5, FlatProtection
<1> QED
  BY <1>3, <1>4, <1>5, <1>6

\* The steps of exit_position.
LEMMA FlatExiting ==
  ASSUME FlatInv, SagaTypes,
         ExitMeetsSell \/ ExitMeetsTrigger \/ ExitCancels \/ SubmitSell \/ SellAnswered \/ EnterCleanup
  PROVE  FlatInv'
<1> PICK p \in Probes : p = op.p
  BY DEF SagaTypes, Ops
<1>1. BookTypes /\ ThreadAt /\ (\A q \in Probes : Book(q)) /\ op \in Ops
  BY DEF FlatInv, SagaTypes
<1>2. row[p] = "CLEANING" /\ UNCHANGED <<row, intent, acc, xbuy, xacc, xsold>>
  BY <1>1 DEF ExitMeetsSell, ExitMeetsTrigger, ExitCancels, SubmitSell, SellAnswered, EnterCleanup, At, Step,
     ThreadAt, Exiting, exchange, orders
<1>3. UNCHANGED op \/ (op'.p = p /\ op'.pc \in Exiting \union {"review"})
  <2>1. CASE ExitMeetsSell
    <3>1. UNCHANGED op \/ \E pc \in {"review", "exited"} : ExitGives(pc, OwnSell(p))
      BY <2>1, Zenon DEF ExitMeetsSell
    <3> QED
      BY <1>1, <3>1 DEF ExitGives, Ops, Exiting
  <2>2. CASE ExitMeetsTrigger
    BY <1>1, <2>2 DEF ExitMeetsTrigger, ExitGives, Ops, Exiting
  <2>3. CASE ExitCancels
    <3>1. \E pc \in {"sell", "exited"} : ExitGives(pc, Blank)
      BY <2>3 DEF ExitCancels
    <3> QED
      BY <1>1, <3>1 DEF ExitGives, Ops, Exiting
  <2>4. CASE SellAnswered
    <3>1. \E pc \in {"review", "exited"} : ExitGives(pc, OwnSell(p))
      BY <2>4 DEF SellAnswered
    <3> QED
      BY <1>1, <3>1 DEF ExitGives, Ops, Exiting
  <2>5. CASE SubmitSell \/ EnterCleanup
    <3>1. \E pc \in {"sold", "exit"} : op' = [op EXCEPT !.pc = pc]
      BY <2>5 DEF SubmitSell, EnterCleanup, Proceed
    <3> QED
      BY <1>1, <3>1 DEF Ops, Exiting
  <2> QED
    BY <2>1, <2>2, <2>3, <2>4, <2>5
<1>4. ThreadAt'
  BY <1>1, <1>2, <1>3 DEF ThreadAt, Buying, Resolving, Exiting
<1>5. CASE ExitMeetsSell \/ ExitMeetsTrigger
  <2>1. UNCHANGED <<xsell, prot>>
    BY <1>5 DEF ExitMeetsSell, ExitMeetsTrigger, exchange
  <2>2. PICK q \in Probes : UNCHANGED sold \/ sold' = [sold EXCEPT ![q] = xsold[q]]
    <3>1. CASE ExitMeetsSell
      BY <1>1, <3>1 DEF ExitMeetsSell
    <3>2. CASE ExitMeetsTrigger
      BY <3>2 DEF ExitMeetsTrigger, Triggered
    <3> QED
      BY <1>5, <3>1, <3>2
  <2>3. UNCHANGED sell \/ (SellSeen(p) /\ sell' = [sell EXCEPT ![p] = SellView(p)])
    BY <1>5 DEF ExitMeetsSell, ExitMeetsTrigger
  <2>4. sell' \in [Probes -> {"none", "unknown", "open"} \union Ended]
    BY <1>1, <2>3 DEF BookTypes, SellSeen, SellView, Ended
  <2>5. BookTypes'
    BY <1>1, <1>2, <2>1, <2>2, <2>4 DEF BookTypes
  <2>6. Book(q)'
    BY <1>1, <1>2, <2>1, <2>2, FlatViewed DEF BookTypes
  <2> QED
    BY <1>1, <1>2, <1>4, <2>1, <2>2, <2>5, <2>6, FlatOne DEF BookTypes
<1>6. CASE ExitCancels \/ EnterCleanup
  <2>1. UNCHANGED <<row, intent, acc, sell, sold, exchange>>
    BY <1>6 DEF ExitCancels, EnterCleanup, orders
  <2>2. UNCHANGED prot \/ prot' = [prot EXCEPT ![p] = IF @ = "none" THEN @ ELSE "off"]
    BY <1>6 DEF ExitCancels, EnterCleanup, orders
  <2>3. prot' \in [Probes -> {"none", "unknown", "triggered", "failed", "off"} \union Covering]
    BY <1>1, <2>2 DEF BookTypes, Covering
  <2> QED
    BY <1>4, <2>1, <2>3, FlatProtection
<1>7. CASE SubmitSell \/ SellAnswered
  <2>1. UNCHANGED <<prot, sold>> /\ \E s \in {"unknown", "open", "rejected"} : sell' = [sell EXCEPT ![p] = s] \/ UNCHANGED sell
    BY <1>7 DEF SubmitSell, SellAnswered
  <2>2. UNCHANGED xsell \/ (Held(p) > 0 /\ xsell' = [xsell EXCEPT ![p] = "live"])
    BY <1>7 DEF SubmitSell, SellAnswered, exchange
  <2>3. BookTypes'
    BY <1>1, <1>2, <2>1, <2>2 DEF BookTypes, Ended
  <2>4. UNCHANGED xsell \/ (Held(p) > 0 /\ xsell'[p] = "live")
    BY <1>1, <2>2 DEF BookTypes
  <2>5. Book(p)'
    BY <1>1, <1>2, <2>1, <2>4 DEF Book, BuySeen, Held
  <2> QED
    BY <1>1, <1>2, <1>4, <2>1, <2>2, <2>3, <2>5, FlatOne DEF BookTypes
<1> QED
  BY <1>5, <1>6, <1>7

LEMMA FlatThread ==
  ASSUME FlatInv, SagaTypes, Advance
  PROVE  FlatInv'
<1>1. op \in Ops
  BY DEF SagaTypes
<1>2. CASE Acquire \/ Finished \/ ExitBlocked \/ SellTwice \/ ExitUnfinished \/ RefuseBuy \/ ReviewHalts \/ ReviewPages
  <2>1. UNCHANGED <<orders, exchange, row>>
    BY <1>2 DEF Acquire, Finished, ExitBlocked, SellTwice, ExitUnfinished, RefuseBuy, ReviewHalts, ReviewPages
  <2>2. op' = Free \/ \E pc \in {"step", "review", "page", "note"} : op' = [op EXCEPT !.pc = pc]
    BY <1>2 DEF Acquire, Finished, ExitBlocked, SellTwice, ExitUnfinished, RefuseBuy, ReviewHalts, ReviewPages,
       Return, Raise, Proceed
  <2>3. op'.pc \in Resting
    BY <1>1, <2>2, FreeOp DEF Resting, Ops
  <2> QED
    BY <2>1, <2>3, FlatRests
<1> QED
  BY <1>2, FlatRow, FlatSubmitting, FlatResolving, FlatExiting DEF Advance

-----------------------------------------------------------------------------

SagaInv == SagaTypes /\ FlatInv

LEMMA SagaInit == Init => SagaInv
<1> SUFFICES ASSUME Init PROVE SagaInv
  OBVIOUS
<1>1. SagaTypes
  BY FreeFits, Identifiers DEF Init, SagaTypes, ProbeStates, Leases, Modes
<1> QED
  BY <1>1, FlatInit DEF SagaInv

LEMMA SagaStep == SagaInv /\ [Next]_vars => SagaInv'
<1> SUFFICES ASSUME SagaInv, [Next]_vars PROVE SagaInv'
  OBVIOUS
<1>1. CASE UNCHANGED vars
  <2>1. UNCHANGED <<row, exitId, lease, paged, mode, up, pending, op>> /\ UNCHANGED <<orders, exchange, row>>
    BY <1>1 DEF vars
  <2>2. SagaTypes'
    BY <2>1, SagaStays DEF SagaInv, SagaTypes
  <2> QED
    BY <2>1, <2>2, FlatRests DEF SagaInv
<1>2. CASE Advance
  BY <1>2, SagaThread, FlatThread DEF SagaInv
<1>3. CASE Exchange
  BY <1>3, SagaOutside, FlatExchange DEF SagaInv
<1>4. CASE Time \/ Command \/ Pass \/ Crash \/ Start \/ OrderPush
  BY <1>4, SagaOutside, FlatOutside DEF SagaInv
<1> QED
  BY <1>1, <1>2, <1>3, <1>4 DEF Next

LEMMA SagaAlways == Spec => []SagaInv
BY SagaInit, SagaStep, PTL DEF Spec

\* The rows, orders and leases are what their schema allows, and the thread never
\* works on a probe whose lease somebody could take.
THEOREM SagaTypesHold == Spec => []TypeOK
<1>1. SagaInv => TypeOK
  BY DEF SagaInv, SagaTypes, FlatInv, BookTypes, TypeOK, Ids, Leases, Modes, Intents, Ended
<1> QED
  BY <1>1, SagaAlways, PTL

\* A probe that ended as DONE or REJECTED leaves nothing behind: no lots, no BUY
\* that could still fill, no SELL that could still sell (demo_probe.py,
\* _transition_from_buy_fact and _cleanup).
THEOREM EndedProbesFlat == Spec => []EndedIsFlat
<1>1. ASSUME SagaInv, NEW p \in Probes, row[p] \in {"none", "PREPARED", "DONE", "REJECTED"}
      PROVE  Held(p) = 0 /\ xbuy[p] \notin {"live", "wire"} /\ xsell[p] # "live"
  <2>1. Book(p) /\ xacc[p] \in 0..Qty /\ xsold[p] \in 0..Qty
    BY <1>1 DEF SagaInv, FlatInv, BookTypes
  <2>2. xbuy[p] \notin {"live", "wire"}
    BY <1>1, <2>1 DEF Book
  <2>3. Held(p) = 0
    <3>1. CASE row[p] = "DONE"
      BY <2>1, <3>1 DEF Book
    <3>2. CASE row[p] # "DONE"
      <4>1. xacc[p] = 0
        BY <1>1, <2>1, <3>2 DEF Book, BuySeen
      <4> QED
        BY <2>1, <4>1, ProbeConstants DEF Book, Held
    <3> QED
      BY <3>1, <3>2
  <2> QED
    BY <2>1, <2>2, <2>3 DEF Book
<1>2. SagaInv => EndedIsFlat
  BY <1>1 DEF EndedIsFlat
<1> QED
  BY <1>2, SagaAlways, PTL

=============================================================================
