-------------------------- MODULE EntryGateProofs --------------------------
(***************************************************************************)
(* Proofs about the gate in front of new risk.  TypeCorrect says that the  *)
(* two locks are where the threads' steps say they are; GateSound that no  *)
(* BUY passes its last check on an incomplete baseline, unless the peer    *)
(* closed the connection cleanly under that baseline and nothing has been  *)
(* read since.                                                             *)
(***************************************************************************)
EXTENDS EntryGate, TLAPS

\* SoftMode, out of a type-correct mode, gives one.
LEMMA SoftModeType ==
  ASSUME NEW m \in {"ready", "degraded"}, mode \in {"ready", "degraded", "halted"},
         SoftMode(m)
  PROVE  mode' \in {"ready", "degraded", "halted"}
BY DEF SoftMode

\* The flags stay Boolean.
LEMMA FlagsKept == Flags /\ [Next]_vars => Flags'
BY Zenon DEF Flags, Next, vars, gate, world, Network, Cut, MarketEvent, MarketAges,
   WsChange, EventBegin, Connection, WsStreams, WsBump, WsInvalidate, WsLatch, WsSpawn,
   EventEnd, Recovery, RestoreBegin, RestoreOvertaken, Periodic, PeriodicBegin,
   PeriodicOvertaken, PeriodicRestored, RunBegin, RunSafe, RunUnsafe, RunFenced,
   Promote, BuyBegin, BuyNext, BuyCapture, BuySend, BuyRefused, BuyEnd, ExitWanted,
   ExitBegin, ExitEnd

\* Every step keeps the threads' types and moves a lock with its holder.
LEMMA LocksKept ==
  ASSUME Threads, LocksHeld, [Next]_vars PROVE Threads' /\ LocksHeld'
<1> DEFINE Typed == Threads /\ LocksHeld
<1>1. ASSUME Threads, LocksHeld, [Next]_vars PROVE Typed'
  <2> USE <1>1, EntryConstants, SoftModeType DEF Threads, LocksHeld, Idle, Channel, Runner, Fenced,
        gate, locks, world, vars
  <2>1. CASE Network
    <3>1. CASE Cut BY <3>1 DEF Cut
    <3>2. CASE MarketEvent BY <3>2 DEF MarketEvent
    <3>3. CASE MarketAges BY <3>3 DEF MarketAges
    <3> QED BY <2>1, <3>1, <3>2, <3>3 DEF Network
  <2>2. CASE WsChange
    BY <2>2 DEF WsChange
  <2>3. CASE EventBegin
    BY <2>3 DEF EventBegin
  <2>4. CASE Connection
    <3>1. CASE WsStreams BY <3>1 DEF WsStreams
    <3>2. CASE WsBump BY <3>2 DEF WsBump
    <3>3. CASE WsInvalidate
      <4>1. CASE errors + 1 >= MaxErrors BY <3>3, <4>1 DEF WsInvalidate
      <4>2. CASE ~(errors + 1 >= MaxErrors) BY <3>3, <4>2 DEF WsInvalidate
      <4> QED BY <4>1, <4>2
    <3>4. CASE WsLatch BY <3>4 DEF WsLatch
    <3>5. CASE WsSpawn BY <3>5 DEF WsSpawn
    <3>6. CASE EventEnd BY <3>6 DEF EventEnd, Inflight
    <3> QED BY <2>4, <3>1, <3>2, <3>3, <3>4, <3>5, <3>6 DEF Connection
  <2>5. ASSUME NEW r \in Runner, RunBegin(r) PROVE Typed'
    BY <2>5 DEF RunBegin
  <2>6. ASSUME NEW r \in Runner, RunSafe(r) PROVE Typed'
    BY <2>6 DEF RunSafe
  <2>7. ASSUME NEW r \in Runner, RunUnsafe(r) PROVE Typed'
    BY <2>7 DEF RunUnsafe
  <2>8. ASSUME NEW r \in Runner, RunFenced(r) PROVE Typed'
    BY <2>8 DEF RunFenced
  <2>9. ASSUME NEW r \in Runner, Promote(r) PROVE Typed'
    BY <2>9 DEF Promote
  <2>10. CASE Recovery
    <3>1. CASE RestoreBegin
      <4>1. \/ UNCHANGED quiet /\ run' = [run EXCEPT !["restore"] = "idle"]
            \/ /\ quiet' = quiet \union {"restore"}
               /\ run' = [run EXCEPT !["restore"] = "wait"]
        BY <3>1, Zenon DEF RestoreBegin
      <4>2. /\ run["restore"] = "begin" /\ wsLock = "free"
            /\ UNCHANGED <<client, ws, mode, errors, locks, buy, exit, world>>
        BY <3>1, Zenon DEF RestoreBegin
      <4>3. CASE run' = [run EXCEPT !["restore"] = "idle"] /\ UNCHANGED quiet
        BY <4>2, <4>3
      <4>4. CASE run' = [run EXCEPT !["restore"] = "wait"]
                 /\ quiet' = quiet \union {"restore"}
        BY <4>2, <4>4
      <4> QED BY <4>1, <4>3, <4>4
    <3>2. CASE RestoreOvertaken BY <3>2 DEF RestoreOvertaken
    <3> QED BY <2>5, <2>6, <2>7, <2>8, <2>9, <2>10, <3>1, <3>2 DEF Recovery
  <2>11. CASE Periodic
    <3>1. CASE PeriodicBegin BY <3>1 DEF PeriodicBegin
    <3>2. CASE PeriodicOvertaken
      <4>1. CASE run["restore"] = "idle" BY <3>2, <4>1 DEF PeriodicOvertaken
      <4>2. CASE run["restore"] # "idle" BY <3>2, <4>2 DEF PeriodicOvertaken
      <4> QED BY <4>1, <4>2
    <3>3. CASE PeriodicRestored BY <3>3 DEF PeriodicRestored
    <3> QED BY <2>5, <2>6, <2>7, <2>8, <2>9, <2>11, <3>1, <3>2, <3>3 DEF Periodic
  <2>12. CASE BuyBegin \/ BuyNext
    <3>1. CASE BuyBegin BY <3>1 DEF BuyBegin
    <3>2. CASE BuyCapture
      <4>1. CASE EntryReady BY <3>2, <4>1 DEF BuyCapture
      <4>2. CASE ~EntryReady BY <3>2, <4>2 DEF BuyCapture
      <4> QED BY <4>1, <4>2
    <3>3. CASE BuySend BY <3>3 DEF BuySend
    <3>4. CASE BuyRefused BY <3>4 DEF BuyRefused
    <3>5. CASE BuyEnd BY <3>5 DEF BuyEnd
    <3> QED BY <2>12, <3>1, <3>2, <3>3, <3>4, <3>5 DEF BuyNext
  <2>13. CASE ExitWanted \/ ExitBegin \/ ExitEnd
    <3>1. CASE ExitWanted BY <3>1 DEF ExitWanted
    <3>2. CASE ExitBegin BY <3>2 DEF ExitBegin
    <3>3. CASE ExitEnd BY <3>3 DEF ExitEnd
    <3> QED BY <2>13, <3>1, <3>2, <3>3
  <2>14. CASE UNCHANGED vars
    BY <2>14
  <2> QED
    BY <2>1, <2>2, <2>3, <2>4, <2>10, <2>11, <2>12, <2>13, <2>14 DEF Next
<1> QED BY <1>1

\* The type of the gate and who holds its locks.
THEOREM TypeCorrect == Spec => []TypeOK
<1>1. Init => TypeOK
  <2>1. Init => Flags
    BY Zenon DEF Init, Flags
  <2>2. Init => Threads /\ LocksHeld
    BY EntryConstants DEF Init, Threads, LocksHeld, Idle, Channel, Runner, Fenced
  <2> QED BY <2>1, <2>2 DEF TypeOK
<1>2. TypeOK /\ [Next]_vars => TypeOK'
  BY FlagsKept, LocksKept DEF TypeOK
<1> QED BY <1>1, <1>2, PTL DEF Spec

(* GateInv is inductive by itself, next to the type.  A loss of the private  *)
(* connection is an episode of the connection thread: it ends, before the    *)
(* thread does anything else, with no recovery's token left and no baseline  *)
(* but one that survived; so when the connection is back, with facts         *)
(* missing, only a recovery whose token is younger can make a baseline.      *)

\* Nothing that GateInv speaks of changes.
LEMMA GateStutter ==
  ASSUME GateInv, UNCHANGED <<client, ws, baseline, survived, feed, covers>>,
         quiet' \in {quiet, quiet \ {"periodic"}, quiet \ {"buy"},
                    quiet \union {"periodic"}, quiet \union {"buy"}},
         run'["restore"] = run["restore"]
  PROVE  GateInv'
BY DEF GateInv, Current, LostNoted, Leaving, RestoreSees

\* Every step keeps the gate sound.
LEMMA GateInductive ==
  ASSUME TypeOK, GateInv, [Next]_vars PROVE GateInv'
<1> USE DEF GateInv, Current, LostNoted, Leaving, RestoreSees
<1>0. Threads /\ LocksHeld
  BY DEF TypeOK
<1>1. CASE Network
  <2>1. CASE Cut BY <2>1 DEF Cut, gate
  <2>2. CASE MarketEvent \/ MarketAges
    BY <2>2, GateStutter DEF MarketEvent, MarketAges, gate
  <2> QED BY <1>1, <2>1, <2>2 DEF Network
<1>2. CASE WsChange
  BY <1>2, <1>0 DEF WsChange, NextState, Threads, Channel, gate
<1>3. CASE EventBegin
  BY <1>3 DEF EventBegin, gate, world
<1>4. CASE Connection
  <2>1. CASE WsStreams BY <2>1, <1>0 DEF WsStreams, Threads, world
  <2>2. CASE WsBump BY <2>2, <1>0 DEF WsBump, Threads, gate, world
  <2>3. CASE WsInvalidate
    BY <2>3, <1>0 DEF WsInvalidate, Threads, world
  <2>4. CASE WsLatch BY <2>4, <1>0 DEF WsLatch, Threads, world
  <2>5. CASE WsSpawn BY <2>5, <1>0 DEF WsSpawn, Threads, Runner, world
  <2>6. CASE EventEnd BY <2>6, <1>0 DEF EventEnd, Inflight, Threads, world
  <2> QED BY <1>4, <2>1, <2>2, <2>3, <2>4, <2>5, <2>6 DEF Connection
<1>5. ASSUME NEW r \in Runner, RunBegin(r) PROVE GateInv'
  BY <1>5, <1>0 DEF RunBegin, Runner, Threads, gate
<1>6. ASSUME NEW r \in Runner, RunSafe(r) PROVE GateInv'
  <2>1. CASE r \in covers
    BY <1>6, <1>0, <2>1 DEF RunSafe, Runner, Threads, LocksHeld, gate
  <2>2. CASE r \notin covers
    BY <1>6, <1>0, <2>2 DEF RunSafe, Runner, Threads, gate
  <2> QED BY <2>1, <2>2
<1>7. ASSUME NEW r \in Runner, RunUnsafe(r) PROVE GateInv'
  BY <1>7, <1>0 DEF RunUnsafe, Runner, Threads
<1>8. ASSUME NEW r \in Runner, RunFenced(r) PROVE GateInv'
  BY <1>8, <1>0 DEF RunFenced, FenceHolds, Transport, Runner, Threads, world
<1>9. ASSUME NEW r \in Runner, Promote(r) PROVE GateInv'
  BY <1>9, <1>0 DEF Promote, Runner, Threads, world
<1>10. CASE RestoreBegin
  BY <1>10, <1>0 DEF RestoreBegin, Transport, Runner, Threads, world
<1>11. CASE RestoreOvertaken
  BY <1>11, <1>0 DEF RestoreOvertaken, Runner, Threads, gate, world
<1>12. CASE PeriodicBegin
  BY <1>12, <1>0 DEF PeriodicBegin, Runner, Threads, gate, world
<1>13. CASE PeriodicOvertaken
  BY <1>13, <1>0 DEF PeriodicOvertaken, Runner, Threads, world
<1>14. CASE PeriodicRestored
  BY <1>14, <1>0 DEF PeriodicRestored, Runner, Threads, gate, world
<1>15. CASE BuyBegin \/ BuyNext
  BY <1>15, GateStutter DEF BuyBegin, BuyNext, BuyCapture, BuySend, BuyRefused,
     BuyEnd, gate, world
<1>16. CASE ExitWanted \/ ExitBegin \/ ExitEnd
  BY <1>16, GateStutter DEF ExitWanted, ExitBegin, ExitEnd, gate, world
<1>17. CASE UNCHANGED vars
  BY <1>17, GateStutter DEF vars, gate, world
<1> QED
  BY <1>1, <1>2, <1>3, <1>4, <1>5, <1>6, <1>7, <1>8, <1>9, <1>10, <1>11, <1>12,
     <1>13, <1>14, <1>15, <1>16, <1>17
  DEF Next, Recovery, Periodic, Runner

\* A baseline contains every fact that was missed, unless it survived a clean close,
\* and a lost connection leaves no recovery's token behind.
THEOREM GateSound == Spec => []GateInv
<1>1. Init => GateInv
  BY DEF Init, GateInv, Current, LostNoted, RestoreSees, Channel
<1>2. TypeOK /\ GateInv /\ [Next]_vars => GateInv'
  BY GateInductive
<1> QED BY <1>1, <1>2, TypeCorrect, PTL DEF Spec

\* No BUY passes its last check while a fact it should know of is missing, unless the
\* baseline survived a clean close.
THEOREM BuysCovered == Spec => FactsCovered
<1>1. TypeOK /\ GateInv /\ [Next]_vars =>
        [buy = "risk" /\ buy' = "sent" => feed # "behind" \/ survived]_vars
  <2> SUFFICES ASSUME TypeOK, GateInv, Next, buy = "risk", buy' = "sent"
               PROVE  feed # "behind" \/ survived
    OBVIOUS
  <2>1. Threads /\ GateInv
    BY DEF TypeOK
  <2>2. BuySend
    BY DEF Next, Network, Cut, MarketEvent, MarketAges, WsChange, EventBegin,
       Connection, WsStreams, WsBump, WsInvalidate, WsLatch, WsSpawn, EventEnd,
       Recovery, RestoreBegin, RestoreOvertaken, Periodic, PeriodicBegin,
       PeriodicOvertaken, PeriodicRestored, RunBegin, RunSafe, RunUnsafe, RunFenced,
       Promote, BuyBegin, BuyNext, BuyCapture, BuyRefused, BuyEnd, ExitWanted,
       ExitBegin, ExitEnd
  <2> QED
    BY <2>1, <2>2 DEF BuySend, EntryReady, StreamsReady, GateInv, Current
<1> QED BY <1>1, TypeCorrect, GateSound, PTL DEF Spec, FactsCovered

=============================================================================
