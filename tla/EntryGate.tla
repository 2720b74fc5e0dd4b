----------------------------- MODULE EntryGate -----------------------------
(***************************************************************************)
(* The gate in front of new risk: the states of the WebSocket connections, *)
(* the REST baseline, the generation and event tokens that fence it, and   *)
(* the two locks that the connection thread, the reconciliation runs, BUYs *)
(* and exits take.                                                         *)
(*                                                                         *)
(* A token is compared for equality with a counter that only grows, so a   *)
(* thread's token is modelled as whether the counters have moved since it  *)
(* was taken.                                                              *)
(***************************************************************************)
EXTENDS Naturals

CONSTANT MaxErrors  \* max_consecutive_infrastructure_errors

ASSUME EntryConstants == MaxErrors \in Nat \ {0}

\* "private" stands for the private and the business connection.
Channel == {"private", "public"}
Runner == {"periodic", "restore"}
Fenced == Runner \union {"buy"}

VARIABLES
  client,    \* connection state per channel, as OKXWebSocketClient has it
  ws,        \* what the connection thread is doing
  mode, errors, baseline,
  survived,  \* history: the baseline is that of a connection its peer has closed
  op, wsLock,  \* holders of operation_lock and of _ws_state_lock
  quiet,     \* threads with a token: no new generation and no event since
  buy, exit, run,  \* how far a BUY, an exit and the two runs have got
  fresh,     \* public market data is at most 20 s old
  feed,      \* private events: all "known" here, some not ("behind"), or "cut" off
  covers     \* runs since whose beginning nothing has gone missing

locks == <<op, wsLock>>
gate == <<mode, errors, baseline, survived>>
world == <<fresh, feed, covers>>
vars == <<client, ws, gate, locks, quiet, buy, exit, run, world>>

-----------------------------------------------------------------------------
(* What the gate is made of.                                               *)

Idle == [step |-> "idle", channel |-> "private", state |-> "ready"]

\* set_mode: a soft mode never replaces HALTED.
SoftMode(m) == mode' = IF mode = "halted" THEN "halted" ELSE m

Market == client["public"] = "ready" /\ fresh

\* _all_ws_transport_ready.
Transport == client["private"] = "ready" /\ Market

Inflight == ws.step = "event"

\* PrivateStreamService.ready and the market.
StreamsReady == baseline /\ ~Inflight /\ Transport

\* _entry_ready, as far as connections and mode are concerned.
EntryReady == mode = "ready" /\ StreamsReady

\* Mutant: the run's own events and generation are not compared.
FenceHolds_Unfenced(r) ==
  IF r = "periodic" THEN ~Inflight /\ baseline /\ client["private"] = "ready"
  ELSE ~Inflight /\ Transport

\* The generation and the event sequence are those of the run's token. A periodic
\* run confirms a baseline, a recovery makes one.
FenceHolds(r) ==
  /\ r \in quiet /\ ~Inflight
  /\ IF r = "periodic" THEN baseline /\ client["private"] = "ready" ELSE Transport

-----------------------------------------------------------------------------
(* The exchange and the network.                                           *)

\* The connection is gone, and nobody here has noticed. From now on fills and
\* balance changes go missing.
Cut ==
  /\ feed # "cut" /\ feed' = "cut" /\ covers' = {}
  /\ UNCHANGED <<client, ws, gate, locks, quiet, buy, exit, run, fresh>>

MarketEvent ==
  /\ client["public"] = "ready" /\ fresh' = TRUE
  /\ UNCHANGED <<client, ws, gate, locks, quiet, buy, exit, run, feed, covers>>

\* 20 s without a market event.
MarketAges ==
  /\ fresh /\ fresh' = FALSE
  /\ UNCHANGED <<client, ws, gate, locks, quiet, buy, exit, run, feed, covers>>

-----------------------------------------------------------------------------
(* The connection thread: one state change or message at a time, to its    *)
(* end.                                                                    *)

\* A peer that closes with code 1000 or 1001 ends the message loop without an
\* exception: the next state is CONNECTING, not BACKOFF, and the baseline stays.
NextState(c, s) ==
  \/ client[c] = "ready" /\ s = "backoff"
  \/ client[c] = "ready" /\ s = "connecting"
  \/ client[c] = "backoff" /\ s = "connecting"
  \/ client[c] = "connecting" /\ s \in {"ready", "backoff"}

\* _run_connection sets the state, then calls the handlers, those of the streams
\* first.
WsChange ==
  /\ ws.step = "idle"
  /\ \E c \in Channel, s \in {"ready", "backoff", "connecting"} :
       /\ NextState(c, s)
       /\ client' = [client EXCEPT ![c] = s]
       /\ ws' = [step |-> IF c = "private" /\ s = "backoff" THEN "streams" ELSE "bump",
                channel |-> c, state |-> s]
       /\ feed' = IF c = "public" THEN feed ELSE IF s = "ready" THEN "behind" ELSE "cut"
       /\ covers' = IF c = "public" THEN covers ELSE {}
       /\ survived' = IF c = "private" /\ client[c] = "ready" /\ s = "connecting"
                      THEN baseline ELSE survived
  /\ UNCHANGED <<mode, errors, baseline, locks, quiet, buy, exit, run, fresh>>

\* PrivateStreamService._on_state freezes entries when its connection is lost.
WsStreams ==
  /\ ws.step = "streams"
  /\ ws' = [ws EXCEPT !.step = "bump"] /\ SoftMode("degraded")
  /\ UNCHANGED <<client, errors, baseline, survived, locks, quiet, buy, exit, run, world>>

\* _on_ws_state: a new generation. What follows is the same for every channel.
WsBump ==
  /\ ws.step = "bump" /\ wsLock = "free"
  /\ quiet' = {}
  /\ ws' = IF ws.state = "connecting" THEN Idle
           ELSE [Idle EXCEPT !.step = IF ws.state = "ready" THEN "spawn"
                                      ELSE "invalidate"]
  /\ UNCHANGED <<client, gate, locks, buy, exit, run, world>>

\* A lost connection: no baseline; within the error budget DEGRADED, otherwise
\* _latch_halted, with _ws_state_lock still held.
WsInvalidate ==
  /\ ws.step = "invalidate" /\ wsLock = "free"
  /\ baseline' = FALSE /\ survived' = FALSE
  /\ errors' = IF errors < MaxErrors THEN errors + 1 ELSE errors
  /\ IF errors + 1 >= MaxErrors
     THEN /\ ws' = [Idle EXCEPT !.step = "latch"] /\ wsLock' = "ws"
          /\ UNCHANGED mode
     ELSE /\ ws' = Idle /\ SoftMode("degraded")
          /\ UNCHANGED wsLock
  /\ UNCHANGED <<client, op, quiet, buy, exit, run, world>>

WsLatch ==
  /\ ws.step = "latch" /\ op = "free"
  /\ mode' = "halted" /\ wsLock' = "free" /\ ws' = Idle
  /\ UNCHANGED <<client, errors, baseline, survived, op, quiet, buy, exit, run, world>>

\* A connection is READY: if all are, a recovery thread starts, unless one is at
\* work already.
WsSpawn ==
  /\ ws.step = "spawn"
  /\ ws' = Idle
  /\ IF Transport
     THEN /\ errors' = 0
          /\ run' = IF run["restore"] = "idle"
                    THEN [run EXCEPT !["restore"] = "begin"] ELSE run
     ELSE UNCHANGED <<errors, run>>
  /\ UNCHANGED <<client, mode, baseline, survived, locks, quiet, buy, exit, world>>

\* _begin_event: an order or a balance message. A run that promotes holds the
\* event lock.
EventBegin ==
  /\ ws.step = "idle" /\ client["private"] = "ready" /\ feed # "cut"
  /\ \A r \in Runner : run[r] # "promote"
  /\ \E kind \in {"orders", "balance"} :
       ws' = [step |-> "event", channel |-> "private", state |-> kind]
  /\ quiet' = {}
  /\ UNCHANGED <<client, gate, locks, buy, exit, run, world>>

\* An order is projected under the operation lock; a foreign one or an illegal
\* report freezes entries, an invalid or unprojected one halts. A balance freezes
\* entries.
EventEnd ==
  /\ Inflight
  /\ \/ ws.state = "orders" /\ op = "free"
        /\ (UNCHANGED mode \/ SoftMode("degraded") \/ mode' = "halted")
     \/ ws.state = "balance" /\ SoftMode("degraded")
  /\ ws' = Idle
  /\ UNCHANGED <<client, errors, baseline, survived, locks, quiet, buy, exit, run, world>>

-----------------------------------------------------------------------------
(* Reconciliation, periodically and after a reconnect.                     *)

PeriodicBegin ==
  /\ run["periodic"] = "idle" /\ wsLock = "free"
  /\ quiet' = quiet \union {"periodic"}
  /\ run' = [run EXCEPT !["periodic"] = "wait"]
  /\ UNCHANGED <<client, ws, gate, locks, buy, exit, world>>

\* _restore_after_reconnect takes its token and drops the old baseline.
RestoreBegin ==
  /\ run["restore"] = "begin" /\ wsLock = "free"
  /\ \/ /\ ~Transport
        /\ run' = [run EXCEPT !["restore"] = "idle"]
        /\ UNCHANGED <<quiet, baseline, survived>>
     \/ /\ Transport
        /\ quiet' = quiet \union {"restore"}
        /\ baseline' = FALSE /\ survived' = FALSE
        /\ run' = [run EXCEPT !["restore"] = "wait"]
  /\ UNCHANGED <<client, ws, mode, errors, locks, buy, exit, world>>

\* Reconciler.run holds the operation lock from its first to its last read.
RunBegin(r) ==
  /\ run[r] = "wait" /\ op = "free"
  /\ op' = r /\ run' = [run EXCEPT ![r] = "running"]
  /\ covers' = IF feed = "cut" THEN covers ELSE covers \union {r}
  /\ UNCHANGED <<client, ws, gate, wsLock, quiet, buy, exit, fresh, feed>>

\* It ends with everything explained,
RunSafe(r) ==
  /\ run[r] = "running"
  /\ op' = "free" /\ run' = [run EXCEPT ![r] = "check"]
  /\ feed' = IF r \in covers THEN "known" ELSE feed
  /\ survived' = (survived /\ r \notin covers)
  /\ covers' = covers \ {r}
  /\ UNCHANGED <<client, ws, mode, errors, baseline, wsLock, quiet, buy, exit, fresh>>

\* or finds a difference it cannot resolve, or fails: an exception of a recovery
\* is only logged.
RunUnsafe(r) ==
  /\ run[r] = "running"
  /\ op' = "free" /\ run' = [run EXCEPT ![r] = "idle"]
  /\ SoftMode("degraded") \/ (r = "restore" /\ UNCHANGED mode)
  /\ quiet' = quiet \ {r} /\ covers' = covers \ {r}
  /\ UNCHANGED <<client, ws, errors, baseline, survived, wsLock, buy, exit, fresh, feed>>

\* Mutant: a run that was overtaken only degrades.
PeriodicOvertaken_NoRestore ==
  /\ run["periodic"] = "check" /\ wsLock = "free"
  /\ ~FenceHolds("periodic")
  /\ baseline' = FALSE /\ survived' = FALSE /\ SoftMode("degraded")
  /\ run' = [run EXCEPT !["periodic"] = "idle"]
  /\ quiet' = quiet \ {"periodic"}
  /\ UNCHANGED <<client, ws, errors, locks, buy, exit, world>>

\* Anything that happened during the run makes a baseline of its own necessary.
PeriodicOvertaken ==
  /\ run["periodic"] = "check" /\ wsLock = "free"
  /\ ~FenceHolds("periodic")
  /\ baseline' = FALSE /\ survived' = FALSE /\ SoftMode("degraded")
  /\ run' = IF run["restore"] = "idle"
            THEN [periodic |-> "restoring", restore |-> "begin"]
            ELSE [run EXCEPT !["periodic"] = "idle"]
  /\ quiet' = quiet \ {"periodic"}
  /\ UNCHANGED <<client, ws, errors, locks, buy, exit, world>>

PeriodicRestored ==
  /\ run["periodic"] = "restoring" /\ run["restore"] = "idle"
  /\ run' = [run EXCEPT !["periodic"] = "idle"]
  /\ UNCHANGED <<client, ws, gate, locks, quiet, buy, exit, world>>

\* A recovery starts over, until its deadline.
RestoreOvertaken ==
  /\ run["restore"] = "check" /\ wsLock = "free"
  /\ ~FenceHolds("restore")
  /\ \E next \in {"begin", "idle"} : run' = [run EXCEPT !["restore"] = next]
  /\ quiet' = quiet \ {"restore"}
  /\ UNCHANGED <<client, ws, gate, locks, buy, exit, world>>

\* The fence holds: the baseline is complete, and READY may follow, all under
\* _ws_state_lock and the event lock.
RunFenced(r) ==
  /\ run[r] = "check" /\ wsLock = "free"
  /\ FenceHolds(r)
  /\ baseline' = TRUE /\ quiet' = quiet \ {r}
  /\ IF mode # "halted" /\ Transport
     THEN wsLock' = r /\ run' = [run EXCEPT ![r] = "promote"]
     ELSE run' = [run EXCEPT ![r] = "idle"] /\ UNCHANGED wsLock
  /\ UNCHANGED <<client, ws, mode, errors, survived, op, buy, exit, world>>

\* The mode is another transaction; a connection may be lost in between.
Promote(r) ==
  /\ run[r] = "promote"
  /\ SoftMode("ready")
  /\ wsLock' = "free" /\ run' = [run EXCEPT ![r] = "idle"]
  /\ UNCHANGED <<client, ws, errors, baseline, survived, op, quiet, buy, exit, world>>

-----------------------------------------------------------------------------
(* A BUY and an exit, both under the operation lock.                       *)

BuyBegin ==
  /\ buy = "idle" /\ op = "free" /\ mode = "ready"
  /\ op' = "buy" /\ buy' = "capture"
  /\ UNCHANGED <<client, ws, gate, wsLock, quiet, exit, run, world>>

\* Mutant: a refused BUY leaves the lock taken.
BuyCapture_KeepsLock ==
  /\ buy = "capture" /\ wsLock = "free"
  /\ IF EntryReady
     THEN /\ quiet' = quiet \union {"buy"}
          /\ buy' = "risk"
     ELSE buy' = "idle" /\ UNCHANGED quiet
  /\ UNCHANGED <<client, ws, gate, locks, exit, run, world>>

\* _capture_entry_guard: the gate is open, and this is the token.
BuyCapture ==
  /\ buy = "capture" /\ wsLock = "free"
  /\ IF EntryReady
     THEN /\ quiet' = quiet \union {"buy"}
          /\ buy' = "risk"
          /\ UNCHANGED op
     ELSE buy' = "idle" /\ op' = "free" /\ UNCHANGED quiet
  /\ UNCHANGED <<client, ws, gate, wsLock, exit, run, world>>

\* _assert_entry_guard, the last time right before the order is written.
BuySend ==
  /\ buy = "risk" /\ wsLock = "free"
  /\ EntryReady /\ "buy" \in quiet
  /\ buy' = "sent" /\ quiet' = quiet \ {"buy"}
  /\ UNCHANGED <<client, ws, gate, locks, exit, run, world>>

BuyRefused ==
  /\ buy = "risk" /\ wsLock = "free"
  /\ ~(EntryReady /\ "buy" \in quiet)
  /\ buy' = "idle" /\ op' = "free" /\ quiet' = quiet \ {"buy"}
  /\ UNCHANGED <<client, ws, gate, wsLock, exit, run, world>>

BuyEnd ==
  /\ buy = "sent"
  /\ buy' = "idle" /\ op' = "free"
  /\ UNCHANGED <<client, ws, gate, wsLock, quiet, exit, run, world>>

\* A stop, an emergency exit or a flatten asks for the lock.
ExitWanted ==
  /\ exit = "idle" /\ exit' = "wait"
  /\ UNCHANGED <<client, ws, gate, locks, quiet, buy, run, world>>

ExitBegin ==
  /\ exit = "wait" /\ op = "free"
  /\ op' = "exit" /\ exit' = "selling"
  /\ UNCHANGED <<client, ws, gate, wsLock, quiet, buy, run, world>>

ExitEnd ==
  /\ exit = "selling"
  /\ op' = "free" /\ exit' = "idle"
  /\ UNCHANGED <<client, ws, gate, wsLock, quiet, buy, run, world>>

-----------------------------------------------------------------------------

Init ==
  /\ client = [c \in Channel |-> "ready"] /\ ws = Idle
  /\ mode = "ready" /\ errors = 0 /\ baseline = TRUE /\ survived = FALSE
  /\ op = "free" /\ wsLock = "free"
  /\ quiet = {}
  /\ buy = "idle" /\ exit = "idle" /\ run = [r \in Runner |-> "idle"]
  /\ fresh = TRUE /\ feed = "known" /\ covers = {}

Network == Cut \/ MarketEvent \/ MarketAges

Connection ==
  \/ WsStreams \/ WsBump \/ WsInvalidate \/ WsLatch \/ WsSpawn \/ EventEnd

Recovery ==
  \/ RestoreBegin \/ RestoreOvertaken
  \/ RunBegin("restore") \/ RunSafe("restore") \/ RunUnsafe("restore")
  \/ RunFenced("restore") \/ Promote("restore")

Periodic ==
  \/ PeriodicBegin \/ PeriodicOvertaken \/ PeriodicRestored
  \/ RunBegin("periodic") \/ RunSafe("periodic") \/ RunUnsafe("periodic")
  \/ RunFenced("periodic") \/ Promote("periodic")

BuyNext == BuyCapture \/ BuySend \/ BuyRefused \/ BuyEnd

Next ==
  \/ Network \/ WsChange \/ EventBegin \/ Connection \/ Recovery \/ Periodic
  \/ BuyBegin \/ BuyNext \/ ExitWanted \/ ExitBegin \/ ExitEnd

Spec == Init /\ [][Next]_vars

\* The runs go on, get a lock that keeps becoming free, and are safe some time when
\* they may be; whoever has the operation lock goes on when nothing stops it.
Fairness ==
  /\ SF_vars(Recovery) /\ SF_vars(Periodic)
  /\ \A r \in Runner : SF_vars(RunSafe(r))
  /\ WF_vars(BuyNext) /\ WF_vars(ExitEnd)

FairSpec == Spec /\ Fairness

\* The connection thread, a BUY and an exit get such a lock too.
FairLocks == SF_vars(Connection) /\ SF_vars(BuyNext) /\ SF_vars(ExitBegin)

LockSpec == FairSpec /\ FairLocks

-----------------------------------------------------------------------------
(* Properties.                                                             *)

Flags == baseline \in BOOLEAN /\ survived \in BOOLEAN /\ fresh \in BOOLEAN

Threads ==
  /\ client \in [Channel -> {"connecting", "ready", "backoff"}]
  /\ ws \in [step : {"idle", "streams", "bump", "invalidate", "latch", "spawn", "event"},
             channel : Channel,
             state : {"connecting", "ready", "backoff", "orders", "balance"}]
  /\ mode \in {"ready", "degraded", "halted"}
  /\ errors \in 0 .. MaxErrors
  /\ quiet \subseteq Fenced /\ covers \subseteq Runner
  /\ feed \in {"known", "behind", "cut"}
  /\ buy \in {"idle", "capture", "risk", "sent"}
  /\ exit \in {"idle", "wait", "selling"}
  /\ run \in [Runner -> {"idle", "begin", "wait", "running", "check", "promote",
                        "restoring"}]

LocksHeld ==
  /\ op \in Runner \union {"free", "buy", "exit"}
  /\ wsLock \in Runner \union {"free", "ws"}
  /\ op = "buy" <=> buy # "idle"
  /\ op = "exit" <=> exit = "selling"
  /\ wsLock = "ws" <=> ws.step = "latch"
  /\ \A r \in Runner :
       (op = r <=> run[r] = "running") /\ (wsLock = r <=> run[r] = "promote")

\* Each lock is with the thread that is between taking and releasing it
\* (operation_lock, _ws_state_lock), and only with that one.
TypeOK == Flags /\ Threads /\ LocksHeld

\* A baseline contains everything this process was not told of, unless it is that of
\* a connection its peer closed, and no run has read the exchange since.
Current == baseline => feed # "behind" \/ survived

\* While the private connection is down, events are missing, a baseline that did not
\* survive a close is left only until the handlers of the loss have run, and so is a
\* recovery's token.
Leaving(states) ==
  ws.channel = "private" /\ ws.state \in states /\ ws.step \in {"streams", "bump"}

LostNoted ==
  client["private"] # "ready" =>
    /\ feed = "cut"
    /\ baseline => survived \/ Leaving({"backoff"}) \/ ws.step = "invalidate"
    /\ "restore" \in quiet => Leaving({"backoff", "connecting"})

\* No run sees what goes missing while events are cut off; a recovery that nothing
\* overtook has seen everything, or is about to.
RestoreSees ==
  /\ feed = "cut" => covers = {}
  /\ "restore" \in quiet =>
       /\ run["restore"] = "running" => "restore" \in covers \/ feed = "cut"
       /\ run["restore"] = "check" => feed # "behind"

\* Why the gate is sound: a baseline is dropped when a connection fails, or when a
\* recovery begins after a close, and made anew only by a recovery of the
\* connection's current generation (_on_ws_state, _restore_after_reconnect,
\* mark_baseline_complete).
GateInv == Current /\ LostNoted /\ RestoreSees

\* A BUY passes its last check with a fill or a balance change missing, of which this
\* process was not told, in two cases only: the connection it would have come on is
\* broken without anybody having noticed, or the peer closed that connection with
\* code 1000 or 1001, it is back, and neither the recovery this starts nor any other
\* run has come round yet (_assert_entry_guard over the baseline and the connection
\* states, _run_connection).
FactsCovered ==
  [][buy = "risk" /\ buy' = "sent" => feed # "behind" \/ survived]_vars

\* Whatever the connections do, an exit that asks for the operation lock gets it
\* ("a disconnect only freezes new risk; exits and reconciliation keep running").
ExitsProceed == exit = "wait" ~> exit = "selling"

\* Nothing more happens on the connections, all of which are up.
Calm == ws = Idle /\ Transport

\* When the connections stay up and calm, entries open again unless the mode is
\* HALTED, however many events and reconnects came before and in whatever order
\* the runs overtook each other: no baseline stays lost, and none that survived a close
\* stays without a run that reads what it lacks.
EntriesReopen ==
  <>[]Calm => []<>(mode = "halted" \/ (EntryReady /\ (survived => feed = "cut")))

=============================================================================
