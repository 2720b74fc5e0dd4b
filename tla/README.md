# TLA+ models of okx-quant

okx-quant is a spot trading system for OKX written in Python. Most of its source is research,
indicators and command-line tooling; the part on which money depends is a production runtime
(`src/okx_quant/application/`, `src/okx_quant/infrastructure/`, `src/okx_quant/exchange/`,
`src/okx_quant/client/`) that persists order intents in SQLite, sends them, survives lost answers and
restarts, reconciles with the exchange, and decides when new risk may be taken. These modules model
that part. TLC checks them on small instances, TLAPS proves the central invariants for all instances.
`PROJECT.json` maps every definition to the source lines it translates.

## 1. The system

| Component | State it keeps | Operations | Modelled in |
|---|---|---|---|
| Order state machine (`domain/orders.py`) | `OrderState` | `transition` | `Orders` |
| Execution coordinator (`application/execution.py`) | thread inside `submit`, projection health | `submit`, `process_exchange_update` | `OrderExecution` |
| SQLite journal (`infrastructure/db/sqlite.py`) | intents, reservations, fills, positions | `create_order_intent`, `update_intent`, `apply_exchange_order` | `OrderExecution` |
| Reconciler, recovery gate (`application/reconciliation.py`) | one run at a time | `run`, `OrderResolver.resolve` | `OrderExecution` |
| Pre-trade risk (`application/risk_service.py`) | none of its own | cash, slot, pending-order checks | `OrderExecution` |
| System mode and hard epoch (`sqlite.py`, `set_mode`) | `mode`, `mode_epoch`, `mode_reason` | `set_mode` | `SystemMode`, abstractly `HardLatch` |
| Production runtime (`application/runtime.py`) | WS states and generation, error count, canary hold, probe-reclaim flag | start, periodic run, restore after reconnect, resume, flatten, activation, watchdog | all of them, each a part |
| Private streams (`infrastructure/okx/streams.py`) | baseline flag, event sequence, in-flight events | event handlers, `mark_baseline_complete`, `run_if_baseline_current` | `EntryGate`, `OrderExecution` |
| WebSocket client (`client/websocket.py`) | state per connection | `_run_connection`, `_set_state` | `EntryGate` |
| Protection manager, exit coordinator (`application/protection.py`) | protections, exit leases | protect, amend, abort, cancel, reconcile, emergency SELL, `exit_position` | `ExitProtection`, `Protections` |
| Control commands (`sqlite.py`, `runtime.py`) | durable queue | submit, claim, finish | `OperatorChannel`; what resume and flatten do is in `SystemMode` |
| Alert delivery (`infrastructure/operations.py`, `ops/alert_receipts.py`) | outbox, deliveries, receipts | dispatch, retry, dead letter, acknowledge, escalate | `OperatorChannel` |
| Account lease (`ops/account_lease.py`, `scripts/account_lease_broker.py`) | the broker's row, each client's claims | acquire, renew, release, `valid` | `AccountLease` |
| Demo probe (`application/demo_probe.py`) | `probe_runs` rows and their leases | `prepare`, `advance`, `reclaim_once` | `ProbeSaga` |
| Strategy worker (`trading/executor.py`, `trading/position_*.py`) and local risk manager (`risk/manager.py`) | the durable candle watermark, the position view in memory | restore, tick, `buy`, `sell`, the callbacks that sync the view | `TradingLoop` |
| Strategies, backtest, research, LLM agents, dashboard, SLO and stage-C tools, backups, approvals, CLI | | | out of scope: numerical code, file checks or I/O with no protocol |

How they interact. Threads call `submit`, `exit_position`, `process_exchange_update` and
`Reconciler.run`; each of them holds one reentrant `operation_lock` from its first to its last step.
The connection thread delivers messages and connection states through callbacks. The periodic thread
and the recovery thread run the reconciler, then decide under `_ws_state_lock` and the event lock whether
the result still counts. Every thread, and the command line in another process, writes the mode through
`set_mode`, one transaction. BUYs re-read the mode, the baseline and the connection states before every
irreversible step.

What is hard, and what correctness means:

* Orders: an answer may be lost after the exchange accepted the order, the process may die at any point,
  pushes and REST answers overtake each other. *Nothing is sent unrecorded or twice; an order that can
  still fill is tracked and its cash reserved; a settled one has every fill counted; nothing stays
  unknown.*
* Mode: halts race promotions, resumes and restarts. *An approval opens the system only if
  nothing has shut it since the approval began.*
* Entry gate: a connection may come back while a baseline is being read; events arrive between a run's end
  and the promotion it justifies; two locks. *No BUY on a baseline that lacks a fact; entries open again;
  exits are always served.*
* Protections and exits: the OCO at the exchange fires while the program cancels it, answers to placements are
  lost, BUYs go on filling, an exit lease expires with its SELL still open. *An OCO that is live is known, or the system is not READY; an exit
  never sells what something else sells; while the system is READY, what is held is not without an OCO or a trigger that sells it* (whether the
  OCO covers every lot is left to the watchdog, and section 5 has the one way past it).
* Probe: five durable steps with a lease of 30 s, resumed by a command, a pass or a start. *One BUY goes out; a
  probe that ended leaves nothing that can trade; nobody has to look for one that needs a person.*
* Account lease: two machines, three clocks, requests that wait for a database, writes in flight. *A runtime goes by a lease
  that has ended, and its writes are under way, only for a time that can be computed.* The lease coordinates; it does not fence the exchange.
* Operators' channel: two threads and tables that outlive them, receipts that overtake deliveries. *A page goes quiet only when it was
  heard or has run out of attempts; a command takes effect once, and its answer is true.*
* Strategy worker: it decides on a view of its position that the worker itself, a fill handler under the operation lock and a pass
  without any lock write, each from a read of the journal some steps ago. *A candle is decided on once; the view comes to show the
  position; what is held goes on being watched.*

The hazards, each at its line, are listed in `PROJECT.json`.

## 2. Modules

`Orders` has the states and the transition table. `OrderExecution` EXTENDS it and is the detailed
specification of one process, its journal, one exchange account and the network. `RiskLedger` is the
abstract specification it implements. `MCOrders` adds the definitions that configurations need.

`SystemMode` is the durable mode and everybody who writes it; `HardLatch` is the abstract latch it
implements; `MCMode` has the set of journals that a first start may find.

`EntryGate` is the connections, the baseline and its fence, the two locks, and a BUY and an exit that
take them.

`Protections` has the states and the transition table of protective orders. `ExitProtection` EXTENDS it and is one
position, the OCO that protects it and everybody who sells it.

`ProbeSaga` is the probe on top of these: it takes orders, protections and exits as steps with an outcome and has the saga's own
rows, leases and callers in full.

`AccountLease` is the broker, the runtimes that ask it and the writes on their way to the exchange; `MCLease` has its
symmetry. `OperatorChannel` is the commands, pages and receipts.

`TradingLoop` is one strategy worker, its position view and everybody who writes that view.

`OrderExecutionProofs`, `SystemModeProofs`, `TradingLoopProofs`, `EntryGateProofs`, `ExitProtectionProofs`,
`AccountLeaseProofs`, `OperatorChannelProofs` and `ProbeSagaProofs` hold the theorems.

### OrderExecution

| Code | Actions and state |
|---|---|
| `submit` holding `operation_lock` | `pc`, `cur`: one thread; a step per transaction, the socket write a step of its own. The last guard (pass) and the write (transmit) are two steps, so the mode may tighten between them |
| `order_intents`, `risk_reservations`, `positions` | `state`, `acc`, `reserved`, `position` |
| `apply_exchange_order` | `ApplyExchangeOrder`: the staleness checks, the cumulative fill, the reservation and the projection in one step |
| `Reconciler._run` | `rec.phase` from balance to positions, in the code's order; the verdict is a phase outside the lock; `rec.quiet` stands for the event fence and the hard epoch |
| crash, restart, failed run | at any point, at most `MaxFaults` of them |
| the exchange | `wire`, `refused`, `xstate`, `xacc`, `xheld`, `xcash`: it accepts, refuses or loses what is on the wire, fills and cancels when it likes; any push it has ever sent may arrive at any time or never |

Abstractions: an order is for `Qty` units at a worst price of 1, so a BUY reserves `Qty`; fees and dust
are absent. A push is any earlier view of its order. Timeouts are nondeterministic.
EMERGENCY_EXIT and MAINTENANCE, protections, orders placed by others, shadow mode, hourly
budgets and a failing database are not in this module.

### SystemMode

`SetMode` is the transaction with its three refusals (epoch, hard over soft, a plain halt over EMERGENCY_EXIT
or MAINTENANCE) and its epoch increment. Writers without a lock (`Halt` from the command line, `StreamHalt`,
`Emergency`, `Degrade`) interleave with everything; resume, flatten, activation and `_latch_halted` exclude
each other by the operation lock (`OpFree`). `StartBegin` to `Joined` is `start()` with the start-up run,
which rewrites the mode that it found; `Crash` and `StartFails` end it anywhere. What `safety_only`, the
expiry of the entry authorization and the backup RPO do is a halt or a degradation by somebody,
so they are represented by those actions. `current` is a history variable: the approvals (and
the flatten) that no incident has overtaken since they read the epoch.

### EntryGate

A token (`_ws_generation`, `event_sequence`) is only compared for equality with counters that grow, so
`quiet` is the set of threads whose token is still current. `ws` is what the connection thread is
doing: client state, the streams' handler, the runtime's handler up to the lock, the second half with the
lock. `feed` says whether the private events are complete: `"cut"` is a broken connection, noticed or
not, and from then on facts go missing; `"behind"` a connection that is up again while some are missing.
`covers` is the runs that began after the last loss. "private" stands for private and business; CONNECTING,
AUTHENTICATING and SUBSCRIBING are one state. `_promote_ready_if_safe` is two steps, check and write.
Alerts, approvals and backups, which may refuse a promotion, are left out. A peer may close a connection with
code 1000 or 1001 at any time; `survived` is a history variable that is TRUE while the baseline is that of such a connection and no run
has read the exchange since.

### ExitProtection

| Code | Actions and state |
|---|---|
| who holds `operation_lock`: fill handlers, `exit_position`, the reconciler's protection pass | `op`: one thread, a step per request to the exchange and one per answer; `ret` and `ctx` say where a handler returns to |
| `protective_orders`, intents of SELLs, `exit_leases` | `prot`, `sell`, `lease`, each row a record; a transition outside `AllowedProtectionTransitions` cannot be taken |
| pushes of orders and algos, the watchdog and its deadline | `BuyNews`, `SellNews`, `AlgoNews`; `watch` with its marker: the watchdog takes no lock until it exits |
| the exchange | `base`, `xbuy`, `algo`, `xsell`: an OCO fires, ends or grows when it likes; a SELL takes what is free |

On OKX the ACK of an order carries no fill, so `submit` never returns FILLED; every exit that sells therefore ends in
EMERGENCY_EXIT until the fill is seen, and `_exit_postcondition`, which is for a SELL that is FILLED at once, is not
reached. A request takes effect at once or never. One instrument in lots; no prices or dust, and a price that
`ensure_for_position` refuses is a choice. A flatten and the resume that follows it are one step; MANUAL_REVIEW of a SELL counts as
unknown. Every refusal, loss, wrong answer, unasked cancellation and crash draws on one budget, `MaxFaults`. The query after a placement may fail with a business error (`Answered`), and every query or push may show a state that `map_exchange_algo_state` has no name for (`Unmapped`); `misread` of `algo` is a history variable: the query after the placement went wrong in one of the two ways. A child order takes the lowest free
SELL slot. An exit lease expires when its exit has returned with the outcome open (`LeaseExpires`); that it expires under a working
holder is left out, since whoever could take it waits for the holder's lock.

### ProbeSaga

| Code | Actions and state |
|---|---|
| `advance` and what it calls, under `operation_lock` | `op`: where the thread is (`pc`), the probe, its caller (command, periodic pass, start) and the exit it found. A step per transaction and per answer; `Return` and `Raise` are its two ends, with what each caller makes of them |
| `probe_runs` | `row`, `exitId` (UNIQUE), `lease`; `Move` is `transition_probe_run`, which needs the lease |
| `_manual_review` | `ReviewHalts`, `ReviewPages`, `ReviewNoted`: three transactions |
| start, `_periodic_reconcile`, `_promote_ready_if_safe` | `up`, `tick`, `pending` |
| journal and exchange | `intent`, `acc`, `sell`, `sold`, `prot` against `xbuy`, `xacc`, `xsell`, `xsold` |

`prot` is the OCO in one word: the probe's own (active), one that reconciliation placed under another name before the own row
existed (other) or after it ended (replaced), and how it ended. `mode` is ready, degraded or hard. SUBMITTING counts as
UNKNOWN, which is what everyone who finds it makes of it. A lease is free, held or lapsed: one process and one lock allow
one worker, so a token never mismatches. Of the time limits only the BUY's 30 s matter (`aged`): a protection row is never
found SUBMITTING, since whoever places it holds the lock and a start refuses it. The bound of eight steps per `advance` is not
reached. `Runs` is `Reconciler.run` in one step. The 30 s that an exit lease stays with a SELL under way are one of the
reasons of `ExitBlocked`. The schedule of formal probes, SLO events, dust and notional limits are left out; ACKs are well formed.

### AccountLease

`now` is the broker's clock; a runtime reads its own, off by up to `MaxSkew`. `reqs` and `grants` are requests and answers under way; the
broker stamps a request when it comes in and commits it up to `MaxStall` later, in any order (`Commit`). `client` is how far
each process is and its claims; `valid()` is `Valid`, which allows for the margin. `flights` are writes that passed the guard and reach the
exchange up to `MaxFlight` later, or never (`Land`, `Tick`). A token stands for the lease id as well, since both are fresh together. `released` (tokens given back) and `past` (leases that another one replaced, and when they ended) are history variables. Nothing relates the margin
to the other times; `Overlap` is what it leaves of skew and wait. Signatures,
schemas and the renewal timer are left out; a killed process is one that stopped; one write per lease is under way at a time.

### OperatorChannel

`cmd` is `control_commands.status`, `page` a row of `alert_deliveries` with its attempts, `disp` and `ctl` the two threads with
the batch each has read, `inbox` the receipt files. A transaction may fail at every step and a thread that an exception ended is replaced with
its process (`Replaced`). A page is named by what raises it. `ran`, `heard` and `orphans` are history variables. `heard`
means that the webhook took the page. `webhook_url` is set; a planned stop, the synthetic challenge and `verify_delivery` are left out.

### TradingLoop

| Code | Actions and state |
|---|---|
| `StrategyExecutor._tick` and what it calls, in the worker's thread | `pc`: `Claim` (watermark), `Check` (monitor), `Halt` or `Consult` (drawdown, strategy), `Reserve`, `Post` and the answers of `buy`, `ExitFilled` and `ExitOpen` of an exit, `Forget` (`remove_position`) |
| `RiskManager._positions` of the instrument | `view`: nothing, 0 for a reservation, or a size |
| `_sync_position_for_fill`; `_sync_all_risk_managers` | `fill` and `pass`: what each has read and not yet written |
| the candle watermark in the database | `lag`, `wild`: the newest complete candle seen from it; `tick` and `last` are history variables |
| start, `restore_to_risk(strict=True)` | `Start`, `Refused`, `Restored`: the runtime has started before workers are built |
| journal and exchange | `held`, `rest` |

One instrument and its worker are enough: `RiskManager` keys everything by instrument, and `Supervisor` sets as many slots as there are
instruments, so that slots never bind. Orders are what they may leave behind for the worker; how they get there is in
`OrderExecution` and `ExitProtection`. `WorkerLocks`, or a handler at work, is the operation lock. Where `_restore` asks the exchange for the balance,
the model takes `held`. Stops, prices, cooldowns, the drawdown and the saved high-water mark only decide whether a step
is taken, and are left open. The key of the `decisions` table, a second guard against deciding twice, is left out, so `OncePerCandle`
rests on the watermark alone. A tick ends before the second candle after its own. One pass runs at a time, and the handlers of the SELL and of
the BUY that an exit cancels are one. The path of a worker without a runtime, which only tests use, is left out.

## 3. Runs

| Run | Bounds | What it shows |
|---|---|---|
| `OrdersBudgets` | 3 BUYs on 2 instruments, 1 slot, cash 1 or 2, 1 fault, symmetric in two BUYs | `OneOpenBuyPerInstrument`, `CashNeverOverdrawn`, `SlotsNeverExceeded`, all stated about the account and not about the journal |
| `OrdersMalformed` | 1 BUY, 1 SELL, 2 units, 1 crash or failed run; the exchange may accept an order and answer garbage | `TypeOK`, `ReportsAccepted`, `NeverResent` |
| `OrdersLiveness` | 1 BUY, 1 SELL, 1 unit, 1 fault, well-formed ACKs, `FairSpec` | `OpenOrdersTracked`, `SettledIsAccounted`, `JournalConverges`; refines `RiskLedger` (`KeepsLedger`) |
| `ModeLatch` | 4 journals, canary or not, up to 3 process starts, epochs to 7, `FairSpec` | `TypeOK`, `CanaryOpensFromHold`, `EmergencyFenced`, `ActivationOpens`; refines `HardLatch` (`LatchHolds`) |
| `EntryGate` | error budget 2, clean closes, `FairSpec` | `TypeOK`, `FactsCovered`, `EntriesReopen` |
| `EntryDeadlock` | as `EntryGate`, `LockSpec` | violation of `ExitsProceed` |
| `ExitProtection` | 2 lots, 2 protections, 2 SELLs, 1 fault | `TypeOK`, `LiveAlgosTracked`, `ExitSellsAlone`, `ReadyIsGuarded` |
| `ExitStopsTrying` | as `ExitProtection`, 2 BUYs, no fault | violation of `StopsTryingWhenFlat` |
| `ProbeSaga` | 1 probe, 2 lots, 3 faults, `FairSpec` | `TypeOK`, `BuyOnce`, `EndedIsFlat`, `ReviewIsLoud`, `BuySettles` |
| `AccountLease` | 2 runtimes, symmetric; TTL 3, margin 1, skew, stall and flight 1, 2 requests under way, time to 5 | `TypeOK`, `ValidIsHeld`, `WritesStop` |
| `OperatorChannel` | 1 command, 1 incident and its 3 receipts, 2 attempts, 2 faults, `FairSpec` | `TypeOK`, `QuietIsHeard`, `RunsOnce`, `AnswersAreTrue`, `PagesGoOut`, `CommandsAnswered` |
| `TradingLoop` | 3 lots, any number of candles, crashes and starts, `FairSpec` | `TypeOK`, `OncePerCandle`, `ViewSettles`, `WatchedWhileUp` |

`JournalInv`, `LatchInv` and `AckedStays` are proved (section 4) and no longer run; they, and the inductive invariants of section 4, were
checked by TLC on these instances before.

Why the bounds are enough. The order hazards need an order, a rival for its cash, slot or position, a partial
fill (two units) and one crash; every thread is single, so further orders repeat what two show. Three
BUYs on two instruments make both the pair on one instrument and the rival for the slot. `MaxEpoch`
and `MaxStarts` are in the guards of whoever starts something new, so what has started always finishes; seven
epochs let an approval be overtaken and repeated, and every writer act. An error budget of two lets a
loss both degrade and halt. `EntryGate` is otherwise unbounded: connections may be lost any number of times. In
`ExitProtection` a second protection is the one placed after the first ended, and a second SELL the rival of the first; a second BUY is what
`ExitStopsTrying` needs. With one fault no row gets as far as `Jams`; two do, and with 1 SELL that instance (2 lots, 2 protections,
2 faults; 12 million states) was checked once. In `ProbeSaga` two lots make a partial fill, and three faults a lost answer, a crash and a lapsed lease in one
course; the safety and liveness properties of that run were also checked once with two probes (of one lot with two faults, of two
with one). The margin of the lease is as long as the broker's wait, as shipped (5 s both), so that
`Overlap` is the skew; a lease of three ticks lapses, is taken over and is answered late before time is up. Two attempts are a retry and a dead letter. Three lots in `TradingLoop` are a BUY that fills in two parts
and a second BUY on top of a position that the view has lost.

Deadlock is checked except where the system really stops: the mode runs end at their epoch bound, the lease run at its
time bound, the channel when every page is acknowledged and every command answered, and the entry runs in the deadlock of section 5.

### Fairness

* `OrderExecution!FairSpec`: the thread in flight, a restart, a run's steps and its conclusion go on (weak);
  a run begins, and an order that a run may resolve or give up is resolved or given up (strong: the lock and the exchange
  make these come and go); a request on the wire is accepted, refused or lost. No push is ever guaranteed.
  `_periodic_reconcile` is a loop on a timer, which justifies the strong fairness of a run's begin.
* `SystemMode!FairSpec`: threads go on, a command ends (weak); the poll of the activation, which waits for the
  operation lock and for its streams, finds both again and again (strong). Nothing is assumed of operators,
  the activation file, incidents or crashes.
* `EntryGate!FairSpec`: the recovery and the periodic thread go on, and get a lock some time provided it keeps becoming free (strong: Python's
  RLock is not a queue, so that a waiter is not starved for ever by a lock that keeps becoming free is an assumption, and the weakest one under
  which any of this code makes progress); a run that may end safely does so some time; a BUY or an exit with the operation lock goes on (weak).
  `LockSpec` adds the same strong fairness for the connection thread, the BUY and the exit, so that the exit of `ExitsProceed` starves
  for no other reason than the deadlock. Nothing is assumed of the network.
* `OperatorChannel!FairSpec`: the two threads run and retries come due (weak); a process that ended is replaced: systemd has
  `Restart=on-failure` and `WatchdogSec=20`, and faults, of which there are finitely many, are taken to stay below its limit of five starts
  in 300 s. Nothing is assumed of the webhook or of operators: a page is brought to an end by its attempts.
* `ProbeSaga!FairSpec`: the thread goes on, a process that ended is started, time passes and leases lapse, OKX settles a market SELL (weak);
  the periodic pass comes round and gets its turn at the lock (strong, as above). Nothing is assumed of commands, pushes or the OCO.
* `TradingLoop!FairSpec`: the worker, a start and the handlers go on, and new candles come (weak); the pass reads and writes while the worker sleeps
  (strong): it follows a reconciliation every 30 s and takes a moment, while a worker sleeps `interval_seconds`, 60 by default, between two ticks.
  Nothing is assumed of orders or crashes.

`EntriesReopen` assumes that the connections stay calm from some time on (`<>[]Calm`), which they do not when their thread is in the deadlock;
`ExitsProceed` does not, and fails for the deadlock alone. `BuySettles` is about a process that is up:
a BUY whose request was lost before a crash becomes MANUAL_REVIEW in the journal, and from then on every start refuses
(`reconciliation.py:416`, `RecoveryGate`), so that the probe hangs with the service until a person acts. The refusal
is designed, though it is not what `docs/DEMO_SHADOW_VALIDATION_PLAN.md:471` promises of restarts.
`ViewSettles` asks for a process that stays up and a position that stays as it is; `WatchedWhileUp` for no missed candle (section 5 has what a gap does).

## 4. Theorems

All proofs are checked by TLAPS with no assumption but the named ones on the constants
(`OrderConstants`, `ModeConstants`, `EntryConstants`, `ExitConstants`, `LeaseConstants`, `ChannelConstants`, `ProbeConstants`, `LotsAssumption`), which TLC evaluates in
the runs, and those in the statements.

| Theorem | Statement |
|---|---|
| `OrderExecutionProofs!TypeCorrect` | `Spec => []TypeOK` |
| `OrderExecutionProofs!JournalSound`, `PartsSound` | `Spec => []JournalInv`, `Spec => []PartsFilled`, whatever `MalformedAcks` is |
| `OrderExecutionProofs!SentIsRecorded`, `SentOnce`, `ReportsLegal` | `NothingSentUnrecorded`, `NeverResent`, `ReportsAccepted` |
| `OrderExecutionProofs!OpenIsTracked`, `SettledAccounts` | `OpenOrdersTracked`, `SettledIsAccounted`; assume `~MalformedAcks` |
| `OrderExecutionProofs!BudgetsSound`, `OneOpenBuy`, `CashSuffices`, `SlotsSuffice` | `BudgetInv`, `OneOpenBuyPerInstrument`, `CashNeverOverdrawn`, `SlotsNeverExceeded`; assume `~MalformedAcks` |
| `OrderExecutionProofs!LedgerKept` | `Spec => Ledger!Spec`; assumes `~MalformedAcks` |
| `SystemModeProofs!TypeCorrect` | `Spec => []TypeOK` |
| `SystemModeProofs!LatchInvariant`, `LatchImplemented`, `EmergencyKept` | `LatchInv`, `Latch!Spec`, `EmergencyFenced`; assume `NoMaintenance` |
| `SystemModeProofs!CanaryHeld` | `CanaryOpensFromHold`, whatever the journal was |
| `EntryGateProofs!TypeCorrect` | `Spec => []TypeOK`, which includes who holds the two locks |
| `EntryGateProofs!GateSound`, `BuysCovered` | `GateInv`, `FactsCovered`, clean closes included |
| `ExitProtectionProofs!ExitTypesHold` | `Spec => []TypeOK`, for any number of lots, rows, SELLs and faults |
| `ExitProtectionProofs!LiveAlgosFound` | `LiveAlgosTracked`, whichever queries fail or mislead |
| `ExitProtectionProofs!ExitsSellAlone` | `ExitSellsAlone`, whichever queries fail |
| `ExitProtectionProofs!ReadyGuarded` | `ReadyIsGuarded`, whichever queries fail |
| `AccountLeaseProofs!TypeCorrect` | `Spec => []TypeOK` |
| `AccountLeaseProofs!LeaseHeld`, `AtMostOneWriter`, `WritesEnd` | `ValidIsHeld`, `OneWriter`, `WritesStop`, for every margin, skew, wait and flight |
| `OperatorChannelProofs!ChannelInvariant`, `TypeCorrect` | `ChannelInv`, `TypeOK` |
| `OperatorChannelProofs!NoPageGoesQuiet`, `CommandsRunOnce`, `AnswersHold`, `AcknowledgedStays` | `QuietIsHeard`, `RunsOnce`, `AnswersAreTrue`, `AckedStays` |
| `ProbeSagaProofs!SagaTypesHold` | `Spec => []TypeOK` |
| `ProbeSagaProofs!BuyGoesOutOnce`, `ReviewNeverSilent`, `EndedProbesFlat` | `BuyOnce`, `ReviewIsLoud`, `EndedIsFlat` |
| `TradingLoopProofs!TypeCorrect`, `DecidedOnce` | `TypeOK`, `OncePerCandle`, for any number of lots |

What the statements assume is what the code does not guarantee. With `MalformedAcks = TRUE` in `OrdersLiveness.cfg` or with a journal in
MAINTENANCE among `MCOrigins`, TLC finds the properties violated (section 5).

The theorems on the lease give numbers. The margin is 5 s, and so is the broker's wait for its database; so `Overlap` is the skew of the clocks, and a lease that has
ended is gone by for so long; a write that passed the guard then has up to its 3 s left. That sum is the window of requests in flight that
`docs/DEMO_OPERATIONS_RUNBOOK.md:46-49` tells an operator to wait for before the account is moved. A lease that was given back is exempt (section 5). The bounds on faults, attempts and probes are constants like others: the theorems hold for any.

*Journal.* `OpenOrdersTracked` is not inductive: it says nothing of a thread between its transactions or of the
list of open orders that a run holds while the exchange moves on. `JournalInv` adds that no run is in progress
while a thread is inside `submit` (`OneThread`), that the thread's intent has got as far as its `pc` (`ThreadAt`),
that an intent is in at most one place between journal and exchange (`Traced`), that the journal is never ahead
and a BUY is reserved exactly while unsettled (`Counted`), and that what a run remembers was once true (`Remembered`).
Each action disturbs one intent; `ApplyKeeps` is the case that all the reports share. For the ledger, every
step moves the standing of one intent or the exposure of one order, or stutters. `ReportsAccepted` needs besides that no view of an order
ever says *partially filled* without a fill (`PartsFilled`); it then follows from the cumulative fills being in order.

*Budgets.* What is open at the exchange is reserved in the journal (`OpenOrdersTracked`), so it is enough to speak of reservations:
no two unsettled BUYs of an instrument (`OneUnsettledBuy`), the units that reserved BUYs may still take within the cash (`CashBooked`), the instruments that are held
or reserved within the slots (`SlotsBooked`). Between the risk checks and the reservation the thread goes by what it has read. The exchange may
have moved, but only by fills of BUYs that are reserved, and each of these takes its cash from both sides; so what was read still bounds what
is there (the second conjuncts). Sums over sets of orders are cardinalities of sets of units, which one step changes by
one order's units (`UnitsAdded`, `UnitsTaken`).

*Latch.* An approval (a resume, an activation) reads an epoch and later compares it in the transaction that
opens. `LatchInv` says that while the epoch it read is the current one, no incident has overtaken it and the
mode is what it read. An incident that does not move the epoch would break this. There are two: a halt over
EMERGENCY_EXIT, from which no approval starts, and over MAINTENANCE, from which a resume does; hence `NoMaintenance`.
The operation lock (`Exclusive`) keeps an activation away from commands and promotions. `CanaryOpensFromHold` needs no latch: whatever
opens a canary without a hold would have to be a resume, and a resume of a canary waits for the hold (`HoldInv`).

*Gate.* A lost private connection is an episode of the connection thread: until its two handlers have run, the
thread does nothing else, and afterwards no recovery's token is left, and no baseline but one that survived a clean close (`LostNoted`).
So when the connection is back, another baseline can only come from a recovery with a younger token, which has seen
everything (`RestoreSees`); hence a baseline implies that nothing is missing or that it has `survived` (`Current`). A periodic
run never makes a baseline, it only confirms one, or reads what a surviving one lacks.

*Lease.* `ValidIsHeld` speaks of claims; a claim comes from an answer, and an answer from a row that may have been replaced since. The
invariant `LeaseInv` therefore holds every claim and every answer under way against the leases, the row and those it replaced (`Backed`): its token was
given back, or is that of a lease of the same holder that lasts at least until the claim's expiry less a stall. What was replaced has ended and its token
does not come back (`PastOver`). A runtime's clock is off by the skew and it keeps the margin, hence `Overlap`; a write
was sent before that and lands within a flight (`FlightsSound`).

*Channel.* `ChannelInv` says what each table row tells of its history (`RowSound`), what the dispatcher (`SenderSound`) and the control thread
(`ControlSound`) may rely on of the rows they read some steps ago, and how receipts (`InboxSound`) and commands (`CommandsSound`) stand to their effects.

*Probe.* Between the intent and the socket the BUY has not been sent (`OnceInv`): an intent is created once, is never forgotten, and only the
thread that created it goes on to the POST, whoever else finds the row later. For `ReviewIsLoud`: nobody but an idle process leaves a
hard mode, so what `_manual_review` wrote in its first transaction still stands in its third (`LoudInv`). For `EndedIsFlat`: `Book` says of each probe
how its row, its intent and the exchange stand to one another: the journal is never ahead, an intent that ended has all its fills, a row is past the BUY only when
the intent has ended, and DONE only when nothing is held. A thread that is between two of its writes knows the row it left behind (`ThreadAt`), whatever
pushes bring in between.

*Protection and exits.* `CoreInv` has the types with the arithmetic they rest on. What the open orders of the exchange have frozen is never more than what is
there (`LotsBooked`: a step adds, frees or hands over the lots of one order), so no balance and no position falls below
zero; and a row that asked for nothing has no OCO (`RowsBooked`). `TrackInv` says which rows have to be looked after: those outstanding, or TRIGGERED.
There is one at most, an OCO that is live or has fired has it, and the threads that amend or cancel keep it. A row leaves that set
only by what the exchange says of its OCO, when there never was one, or when the query after its placement goes wrong (`Forgotten`). A row given up
never comes back, so there is still one at most to look after, and that is all `ExitsSellAlone` needs. That a forgotten OCO keeps the system from READY
is `LoudInv`: whoever forgets one writes EMERGENCY_EXIT; a flatten leaves it only when no OCO is live; and a reconciliation that still calls itself safe has
every forgotten OCO before it, or has met none (`RecLoud`), because a row given up takes no state from the exchange and makes the run unsafe.
`ExitInv` follows an exit from its look at the open SELLs to its own: no SELL is undecided from then on, because between the two
the thread never calls what sells (with one row to look after, and that one TRIGGERED, `on_fill` finds no ACTIVE protection to renew and
`cancel_all` nothing to cancel); each trigger the exit has passed came to nothing; and what it counted as free stays free, because beside it only the exchange acts,
which frees as many lots as it takes (`AsideFrees`). The lease is not needed, and is not in the proof.
`ReadyIsGuarded` speaks of an idle thread only. `GuardInv` says what READY means to whoever holds the lock: of the triggers' SELLs the journal has heard of, none is
open and each has a row that says so (`ReadyFresh`), none is undecided while the watchdog's task is due (`ReadyQuiet`; after an emergency the task is
due only once its last look found no open SELL, `TaskSells`), and the position is guarded when the thread is idle, when an exit returns, and when one resolves SELLs
of which any is pending (`ReadyWatched`). A reconciliation runs while none of this need hold; `RecFresh` and `RecQuiet` say what one that still calls itself safe has made sure of by each of its
steps, so that its verdict gives READY its meaning. An exit that a jammed row ends leaves READY as it is; hence the third case of the property (`Jams`).
Beneath are facts of the journal: it is never ahead of the exchange about a SELL (`EndsSeen`, `SoldSeen`);
and of who calls what for which purpose (`RolesKept`).

*Loop.* `OncePerCandle` speaks of the step that shows a candle to the strategy. `ClaimInv` says what the watermark knows by then: the candle at work, when
it is the newest, is done, and so is the newest one whenever the strategy has seen it. Neither depends on a crash, a fill or the view.

Every invariant and every action property of the passing runs is stated by a theorem. Only model-checked: the two runs of section 5, which end in violations; and all liveness, which is beyond TLAPS.

## 5. Findings

Two are runs that TLC violates; `PROJECT.json` quotes the line of the documentation or the code that says otherwise.

1. `EntryDeadlock` (`runtime.py:1615`): the connection thread takes `_ws_state_lock` then `operation_lock`, a BUY the
   other way round.
2. `ExitStopsTrying` (`protection.py:1048`): an exit that meets an order that is FILLED already returns it without looking at the
   position; the watchdog takes that for success and does not try again.

More were met in the course of modelling; each of these can be seen in a module without a run of its own, or was
read and is outside the models.

* `okx.py:221`: an accepted order whose ACK lacks an `ordId` is marked REJECTED and its reservation released, although it is open at
  the exchange (`OpenOrdersTracked` with `MalformedAcks = TRUE`); what it fills before it is found and canceled stays uncounted if it ends REJECTED.
* `reconciliation.py:194`: a run reads the balance first and overwrites positions after the fills, so a READY system may trade on
  positions its own fills contradict, until the next run.
* `sqlite.py:3278`: a halt of a system in MAINTENANCE is refused without a new epoch, so the resume under way still reaches READY, against
  `docs/RUNBOOK.md:292`. The queued command halts only after it.
* `runtime.py:2428`: after a start from HALTED the reason is `runtime_transition`, and the canary's hold is never installed.
  `runtime.py:2526`: `_canary_activation_failure_reported` stays set after a hold was replaced.
* `websocket.py:296`: a connection closed with code 1000 or 1001 goes to CONNECTING without BACKOFF, so its baseline survives until
  the recovery after the reconnect begins, or another run reads the exchange, and BUYs may pass on it, against `docs/RUNBOOK.md:354` (`survived` in `FactsCovered`).
* `runtime.py:1938`: `_flatten_and_cancel` writes EMERGENCY_EXIT and reads the epoch in two transactions, so an emergency between them is
  taken for its own.
* `protection.py`: `cancel_all` takes an ACTIVE view after the ACK of a cancellation for success, and `on_fill` ignores its result when
  nothing is held; a stale algo push may overwrite a newer REST quantity (510), so that the OCO no longer covers what its row says; a business error of the detail query after a
  placement, or a state without a name, makes the row of a live OCO EMERGENCY_EXIT, and nobody looks for that OCO again (`Forgotten`); a lost placement that turns out TRIGGERED returns without DEGRADED; the watchdog may latch
  EMERGENCY_EXIT in the normal window between a fill and its projection, against ADR-001:19.
* `protection.py:1284`: when the OCO of a row that was given up has fired, `_settle_triggered_protection` raises on the transition from EMERGENCY_EXIT to TRIGGERED, which the
  table does not have. Every later exit of the instrument ends there with the mode as it was; in READY, what a BUY still fills may stay without
  protection (`Jams`, the third case of `ReadyIsGuarded`).
* `account_lease.py:227`: `stop()` waits two seconds for a renewal that may take five; its answer brings the claims back after the
  lease was released. The lease also coordinates without fencing the exchange, as `docs/DEMO_OPERATIONS_RUNBOOK.md:46-49` says.
* `cli/operations.py:92`: the commands that a killed process had claimed, up to ten, stay running for ever. The receipt of a provider after an escalation
  overwrites `escalated`; a batch read earlier may post a page that was acknowledged since.
* `demo_probe.py:970`: the second probe that is closed without an exit intent collides with the first on a UNIQUE column (`sqlite.py:328`) and stays in
  CLEANING, against `docs/DEMO_SHADOW_VALIDATION_PLAN.md:471`. `ProbeSaga` with two probes reaches such a state.
* `demo_probe.py`: every cleanup that sells on OKX leaves EMERGENCY_EXIT; CLEANING has no time limit; MANUAL_REVIEW is left by nobody,
  so no probe can follow; the start promotes before it reclaims; a second cleanup SELL has the `cl_ord_id` of the first and raises until the watchdog has sold; a
  command that fails leaves `_demo_probe_reclaim_pending` as it was, so a resume before the next pass may open entries with a probe
  unresolved; the order of another probe's OCO counts as the probe's own exit; a protection that reconciliation placed after the probe's own failed is
  not recognised.
* `position_restore.py:128`: a restart with a position held ends the process (`Refused`), because `main.py:830` starts the runtime, which is what syncs
  the view, before the worker's risk manager is registered. Only a reconciliation that falls in between lets the worker start.
  `main.py:859` says that existing positions must be taken under watch.
* `runtime.py:1302`: once a candle was missed, or one was too wild to be claimed and the next has come, each later candle is a gap, and the tick
  returns before the monitor looks at the stops, until somebody moves the watermark; `docs/PRODUCTION_PLAN.md:574` asks for the gap to be filled.
* `runtime.py:1201`: the pass writes what it read without a lock, so it may drop a view that a fill has just made, as may the `remove_position` of a
  tick (`executor.py:655`, `orders.py:293`). Until the next pass nobody checks its stops, and a BUY may be
  posted on top. The view that comes back has neither stop nor target.
* `runtime.py:1176`: a later part of a fill puts the stop back where the entry had it, even after it was trailed, against
  `docs/PRODUCTION_PLAN.md:663`. `position_monitor.py`: the highest price since entry survives an OCO's exit when the BUY after it is only
  acknowledged.
* `position_monitor.py`: an exit by the monitor that is not FILLED at once returns False, and the same tick goes on to ask the strategy.

## 6. Not modelled, and the plan

Not modelled: orders placed by others and their import (`import_external_order`, `rebuild_position_projection`) and the identities of
fills; shadow mode; the numeric limits of the risk service; entry authorization, approvals and evidence bundles; backups; fees, dust and prices;
failing disks. Of the trading loop, the arithmetic of sizes, stops and drawdown and
the path without a runtime are left out. Strategies, research, offline tools, SLO and stage-C evidence and
views, which are most of the repository's lines, compute or copy; they have no protocol and no state that others change under them.

Next, in this order:

1. External orders and fill identities: a crash between row and fills, colliding fill keys (`sqlite.py:2156`, `sqlite.py:2354`); new steps and a property of
   `OrderExecution` rather than a new module.
2. Composition: `TradingLoop` with `OrderExecution`, `EntryGate` with `SystemMode` (its `SoftMode` is a step of `SetMode`), `EntryGate` with `OrderExecution` (its
   `rec.quiet` is the token of `EntryGate`), and an abstract exit that `ExitProtection` implements and `ProbeSaga` uses.
3. Proofs: that no thread is in the deadlock of section 5 once the locks are ordered; the steps of the compositions of 2.
