------------------------- MODULE TradingLoopProofs -------------------------
(***************************************************************************)
(* Proofs about TradingLoop, for any number of lots: its types, and that   *)
(* the watermark alone keeps a candle from being decided on twice.         *)
(***************************************************************************)
EXTENDS TradingLoop, TLAPS

\* What is left when a position of h lots and an order for r more has sold.
LEMMA SoldLeaves ==
  ASSUME NEW h \in 0 .. Lots, NEW r \in 0 .. Lots - h, NEW left \in 0 .. h + r - 1
  PROVE  left \in 0 .. Lots /\ 0 \in 0 .. Lots - left
BY LotsAssumption

\* Every value of every variable stays in its range: what is held and what
\* an order may still fill never exceed what the worker ordered.
THEOREM TypeCorrect == Spec => []TypeOK
<1> USE LotsAssumption
<1>1. Init => TypeOK
  <2>1. Init => rest \in 0 .. Lots - held
    BY DEF Init, Quantities
  <2>2. Init => wild \in BOOLEAN
    BY DEF Init
  <2> QED
    BY <2>1, <2>2 DEF Init, TypeOK
<1>2. TypeOK /\ [Next]_vars => TypeOK'
  <2> SUFFICES ASSUME TypeOK, [Next]_vars PROVE TypeOK'
    OBVIOUS
  <2> USE DEF TypeOK, Quantities
  <2> DEFINE Pcs == {"down", "built", "idle", "claimed", "watched", "blind",
                     "signal", "reserved", "posting", "filling", "filled",
                     "refused", "stopping", "exiting", "selling", "sold"}
  <2>1. ASSUME NEW h \in 0 .. Lots, NEW r \in 0 .. Lots - h, Projected(h, r)
        PROVE  TypeOK'
    BY <2>1 DEF Projected, candles
  <2>2. ASSUME NEW next \in Pcs, Goto(next)
        PROVE  /\ pc' \in Pcs /\ tick' \in 0 .. 1 /\ last' \in 0 .. 2
               /\ lag' \in {"unset", "done", "next", "gap"} /\ wild' \in BOOLEAN
    BY <2>2 DEF Goto
  <2>3. CASE Start \/ Refused \/ Restored \/ Crash
    BY <2>3 DEF Start, Refused, Restored, Crash, Die, memory, orders, candles
  <2>4. CASE NewCandle
    BY <2>4 DEF NewCandle, memory, orders
  <2>5. CASE BuyFilled
    <3>1. PICK n \in 1 .. rest : \E r \in {0, rest - n} : Projected(held + n, r)
      BY <2>5 DEF BuyFilled
    <3>2. PICK r \in {0, rest - n} : Projected(held + n, r)
      BY <3>1
    <3> QED
      BY <2>1, <3>2
  <2>6. CASE BuyEnded
    BY <2>1, <2>6 DEF BuyEnded
  <2>7. CASE SellFilled
    <3>1. PICK h \in 0 .. held - 1 : Projected(h, rest)
      BY <2>7 DEF SellFilled
    <3> QED
      BY <2>1, <3>1
  <2>8. CASE Sync
    BY <2>8 DEF Sync, HandlerReads, HandlerWrites, PassReads, PassWrites, Shown,
                orders, candles
  <2>9. CASE Claim
    BY <2>9 DEF Claim, memory, orders
  <2>10. CASE Work
    <3>1. CASE Consult
      BY <3>1 DEF Consult, Quiet, memory, orders
    <3>2. CASE Check \/ Halt \/ Hold \/ SignalSell \/ NotSent \/ Acked \/ Raised
               \/ Booked \/ ExitOpen
      <4>1. \E next \in Pcs : Goto(next)
        BY <3>2 DEF Check, Halt, Hold, SignalSell, NotSent, Acked, Raised, Booked, ExitOpen
      <4>2. UNCHANGED <<memory, orders>>
        BY <3>2 DEF Check, Halt, Hold, SignalSell, NotSent, Acked, Raised, Booked, ExitOpen,
                    Quiet
      <4> QED
        BY <2>2, <4>1, <4>2 DEF memory, orders
    <3>3. CASE Reserve \/ Forget
      BY <2>2, <3>3 DEF Reserve, Forget, orders
    <3>4. CASE Post \/ Rejected
      BY <2>2, <3>4 DEF Post, Rejected, memory
    <3>5. CASE AnsweredFilled
      <4>1. PICK n \in 1 .. rest : held' = held + n /\ rest' \in {0, rest - n}
        BY <3>5 DEF AnsweredFilled
      <4> QED
        BY <2>2, <3>5, <4>1 DEF AnsweredFilled
    <3>6. CASE ExitFilled
      <4>1. held' \in 0 .. Lots /\ rest' \in 0 .. Lots - held'
        <5>1. held' \in 0 .. held + rest - 1 /\ rest' = 0
          BY <3>6 DEF ExitFilled
        <5> QED
          BY <5>1, SoldLeaves
      <4>2. fill' \in {None, Due} /\ UNCHANGED <<view, pass>>
        BY <3>6 DEF ExitFilled
      <4>3. Goto("selling") \/ Goto("sold")
        BY <3>6 DEF ExitFilled
      <4> QED
        BY <2>2, <4>1, <4>2, <4>3
    <3> QED
      BY <2>10, <3>1, <3>2, <3>3, <3>4, <3>5, <3>6 DEF Work
  <2>11. CASE UNCHANGED vars
    BY <2>11 DEF vars, memory, orders, candles
  <2> QED
    BY <2>3, <2>4, <2>5, <2>6, <2>7, <2>8, <2>9, <2>10, <2>11 DEF Next
<1> QED
  BY <1>1, <1>2, PTL DEF Spec

\* Steps of a tick between the claim of its candle and the strategy's view.
Deciding == {"claimed", "watched", "blind", "stopping"}

\* A claim is durable before the strategy sees the candle: what is claimed
\* and the newest is "done" on the watermark, and what was seen was claimed.
ClaimInv ==
  /\ last = 0 => lag = "done"
  /\ pc \in {"down", "built", "idle"} => tick = 0
  /\ pc \in Deciding => last > tick /\ (tick = 0 => lag = "done")

LEMMA ClaimKept == ASSUME TypeOK, ClaimInv, [Next]_vars PROVE ClaimInv'
<1> USE DEF TypeOK, ClaimInv, Deciding
<1>1. CASE Start \/ Refused \/ Restored \/ Crash
  BY <1>1 DEF Start, Refused, Restored, Crash, Die, candles
<1>2. CASE NewCandle
  BY <1>2 DEF NewCandle
<1>3. CASE BuyFilled \/ BuyEnded \/ SellFilled
  BY <1>3 DEF BuyFilled, BuyEnded, SellFilled, Projected, candles
<1>4. CASE Sync
  BY <1>4 DEF Sync, HandlerReads, HandlerWrites, PassReads, PassWrites, candles
<1>5. CASE Claim
  BY <1>5 DEF Claim
<1>6. CASE Consult
  BY <1>6 DEF Consult
<1>7. CASE Work /\ ~Consult
  BY <1>7 DEF Work, Check, Halt, Hold, Reserve, SignalSell, NotSent, Post, Acked,
              AnsweredFilled, Rejected, Raised, Booked, Forget, ExitFilled,
              ExitOpen, Goto
<1>8. CASE UNCHANGED vars
  BY <1>8 DEF vars, candles
<1> QED
  BY <1>1, <1>2, <1>3, <1>4, <1>5, <1>6, <1>7, <1>8 DEF Next

\* The strategy sees a candle once, whatever crashes, restarts, fills and
\* exits come between the claim and the end of the tick.
THEOREM DecidedOnce == Spec => OncePerCandle
<1>1. Init => ClaimInv
  BY DEF Init, ClaimInv, Deciding
<1>2. TypeOK /\ ClaimInv /\ [Next]_vars => ClaimInv'
  BY ClaimKept
<1>3. TypeOK /\ ClaimInv /\ [Next]_vars => [Consult => last # tick]_vars
  <2> SUFFICES ASSUME TypeOK, ClaimInv, Consult PROVE last # tick
    OBVIOUS
  <2> QED
    BY DEF TypeOK, ClaimInv, Deciding, Consult
<1> QED
  BY <1>1, <1>2, <1>3, TypeCorrect, PTL DEF Spec, OncePerCandle

=============================================================================
