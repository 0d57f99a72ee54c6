# TLA+ models of signalix

signalix is a trading engine: a Go daemon (`signalixd`) runs Python strategies as child
processes, turns their signals into orders, submits the orders to Gate.io perpetual futures and
keeps a view of orders and account. This directory models the parts of the code where several
goroutines, threads, processes or the exchange meet, and the rules and conversions that decide
what they do, checks them with TLC on small instances and proves theorems about them with TLAPS.

Paths below are relative to `src/`; `engine/` stands for `internal/app/engine/`,
`oms/` for `internal/app/oms/`, `perp/` for `internal/app/market/perp/` and `gateio/` for
`pkg/exchange/perp/gateio/`.

## 1. The system

| Component | State | Operations | Talks to |
|---|---|---|---|
| Strategy lifecycle (`engine/engine.go`, `engine/restart.go`) | process table, crash times, restart goroutines, contexts, wait groups | StartStrategy, StopStrategy, exit handling, heartbeat monitor, restart, StopAllStrategies | process adapter, router |
| Python process adapter (`internal/adapters/strategy/pythonipc`) | the process, its pipes, heartbeat time | Start, Stop, Send*, read loop | the strategy |
| Signal dispatch and kill switch (`engine/engine.go`, `kill_switch.go`) | signalCh, orderCh, the switch | dispatchSignal, dispatchOrder, activate, deactivate | decision, risk, OMS |
| Decision, sizing, risk rules (`internal/app/decision`, `internal/domain/risk`) | none | Decide, Evaluate, MergeRules | projection, OMS counts |
| OMS (`oms/execution_engine.go`) | order table, command and event channels | submit with retries, cancel, sync, flush, order events | executor, store, fan-out |
| Perp executor (`perp/executor.go`) | client tags, order-event channel | Place, Cancel, Sync, user-event pump | exchange client, OMS |
| Reconciliation (`engine/reconcile.go`) | the loaded rows | load, ask the exchange, save, hydrate | store, executor, OMS |
| Market router (`perp/router.go`) | ticker reference counts, candle keys, push tables, caches | subscribe, unsubscribe, fan-out of ticks and candles | hub, strategies |
| Candle history (`perp/kline_history.go`) | closed candles per stream | append, merge, list | router, REST warm-up |
| Websocket hub (`gateio/ws.go`) | connection, active subscriptions | subscribe, unsubscribe, read loop, reconnect, shutdown | exchange |
| Exchange clients (`pkg/exchange/perp/gateio`, `pkg/exchange/spot/gateio`) | the hub, user-event channel | Place, Cancel, GetOrder, decoding of pushed rows, Close | hub, executor |
| Account projection, equity tracker (`internal/app/projection`, `internal/app/risk`) | balance, positions, revision, day's baseline | refresh, pushed updates, queries | exchange, risk |
| Order fan-out (`engine.go` 1031-1108) | subscriber table | publish, register, unregister | gRPC, OMS |
| Strategy logs, account snapshots, retention (`engine/strategy_log_*.go`, `account_snapshot_persist.go`, `retention.go`) | log queue, subscribers, rows | write, stream, list, save, purge | store, gRPC |
| Python SDK (`sdk/python/signalix/runtime.py`) | inbound queue, pending RPCs | reader, worker, rpc_call | engine |
| Loader, scaffold, catalog (`internal/app/strategy`, `engine/strategy_scaffold.go`) | strategies directory, catalog | discover, create, reload | engine, gRPC |
| Configuration and daemon (`internal/config`, `cmd/signalixd`, `engine.go` Start, Stop) | settings, goroutines, contexts | Load, validate, New, Start, Stop | everything |
| SQLite store (`internal/adapters/store/sqlite`) | schema version, rows | migrate, save, list, purge | |
| gRPC server, CLI, logging | sessions | translation of calls | engine |

How they meet. A strategy's stdout is read by one goroutine per process; a signal goes through
`signalCh` to `dispatchSignal` (kill switch, decision, strategy rules, global rules), through
`orderCh` to `dispatchOrder`, and as a command to the OMS run loop, which alone changes orders and
which blocks in `Place` with its retries. The exchange answers REST calls and pushes order updates
over the websocket; the updates pass three bounded channels before the run loop applies them, and
fills come back to the projection, which the next decision reads. Every change of an order is
saved and fanned out. At start the saved unfinished orders are reconciled with the exchange; at
shutdown they are flushed before the contexts end.

What is hard, and the properties it calls for:

- the answer of `Place` and the pushed updates of one order arrive in any order, get lost or are
  repeated: one exchange order per id, real final states, a view that converges;
- crashes between the exchange and the store: a live order stays on record;
- checks made before a queue and used after it (kill switch, count of open orders, the day's
  loss): how much can slip, and that activation cancels what it should;
- two goroutines per process acting on the strategy's name, with restarts in between: one process
  per strategy, an end to crash loops, a shutdown that leaves nothing running;
- streams shared by strategies and intervals over a connection that reconnects: nobody is cut off,
  what is subscribed is served, and no candle falls between history and pushes;
- goroutines and threads that wait for each other: retries, full channels, RPCs and the shutdown;
- file operations and table rows seen half way: creation with its rollback, migrations with a kill
  between their steps, a log stream that starts while rows are written;
- conversions at the edge of the system: ids, times, signs and rounding.

## 2. Modules

| Module | Models | State and actions |
|---|---|---|
| `OrderManager` | OMS, executor, user-event pump, order rows, reconciliation, shutdown and crash | `orders` is the order table, `oms` the run loop's blocked Place, `cmdCh`, `events`, `userCh` the channels, `store` the rows on disk, `todo` the rows still to reconcile; the exchange is external |
| `OrderLifecycle` | abstract: the order a user of the OMS may rely on | told, saved and real status; no queues, events, retries or tags. `OrderManager` implements it (`KeepsPromise`) |
| `OrderManagerProofs` | theorems about `OrderManager`, that it implements `OrderLifecycle` among them | |
| `SignalPipeline` | signalCh, dispatchSignal, orderCh, dispatchOrder, the kill switch | `stage` says where a signal or its order is; the receive, the count, the verdict, the submission, the listing and each cancel are steps of their own |
| `RiskRules` | sizing, `Evaluate`, `MergeRules` | operators: the order a signal asks for, the rule chain in its order, reductions |
| `AccountProjection` | projection, refresh loop, pushes, equity tracker | a refresh asks for the balance, then the positions, then replaces the projection; pushes change one entry |
| `TradingLoop` | one turn of dispatchSignal closed over the account; composes `AccountProjection` and `RiskRules` | `job` goes through decision, the risk context read piece by piece and both tiers; fills change the account and are pushed |
| `TradingLoopProofs` | theorems about `AccountProjection` and `TradingLoop` | |
| `StrategyLifecycle` | launch, stop, exit handling, monitor, crash window, restarts, Engine.Stop for one strategy | `registered` is the process table's entry; every process has its reader and its monitor (`watcher`), every crash record the goroutine that decides about a restart and the one it schedules (`restarter`); its checks and the scheduling are steps of their own |
| `SdkRuntime` | the Python runtime and the engine goroutines that talk to it | reader, worker and helper threads with their calls, the pipe, signalCh, one goroutine per request, the heartbeat monitor, Stop |
| `SdkRuntimeProofs` | theorems about `SdkRuntime` | |
| `WsHub` | the hub's connection, subscription table, read loop and reconnection | `conn`, `activeSubs` are the hub's fields, `server` is what the exchange pushes; the reconnection takes its snapshot and sends it in steps |
| `MarketRouter` | the router's subscription tables; composed with `WsHub`, which it extends | one action per SubscribeContracts and UnsubscribeAll with every exchange call it makes; the read loop runs between the calls |
| `MarketFeed` | candle history, both market channels, warm-up and launch | windows close, pushes and REST answers meet in `klineHistory`; `stdin` is what each process was sent |
| `MarketProofs` | theorems about `WsHub`, `MarketRouter` and `MarketFeed` | |
| `StoreRows` | logs and snapshots in SQLite | operators: what a query lists, finds latest or purges, times compared as texts |
| `LogStream` | strategy logs, their streams, account snapshots, retention; uses `StoreRows` | the queue, the writer between save and notification, a client's stream between listing and registration |
| `StrategyProofs` | theorems about `StrategyLifecycle` and, with the rows of `StoreRows`, about `LogStream` | |
| `ConfigRules` | config.toml, defaults, parsing, validation, constructor fallbacks | operators from a file to the parameters the daemon is built with |
| `Daemon` | main, Engine.Start and Engine.Stop, migrations, custom state, log and order streams; uses `ConfigRules` | `pc` is main's place; every goroutine that Stop waits for is there, every set_state call under way (`rpc`), and a kill at any moment |
| `DaemonProofs` | theorems about `ConfigRules` and `Daemon` | |
| `StrategyCatalog` | loader, scaffold, reload, calls by name, the entry a restart keeps, kill and start of signalixd | `disk` is the directory, changed file by file; `call` is where each client's call is, `exits` and `restart` the crashes that are handled and the restarts that wait, as many of a name as there are |
| `StrategyCatalogProofs` | theorems about `StrategyCatalog` | |
| `GateRows`, `PerpConvert`, `SpotConvert` | the clients' conversions | operators: orders out, rows in, ids, times, statuses |
| `GateClient` | a session of the perp or the spot client; uses the conversions | placing, pushed rows per channel, decoding, user events, cuts, reconnection, Close |
| `OrderPathProofs` | theorems about both ends of an order's path, `SignalPipeline` and `GateClient` | |

Each `MC*` module gives TLC an instance and, where its values are interchangeable, a symmetry set.
Definitions whose comment starts with "Mutant:" are altered versions of the definition that
follows; no specification uses them. They show, substituted for it, that the properties can fail.

A property that is a conjunction says several things about one hazard; the type invariant of a
module is checked by itself for the modules proofs are meant for, and as the first conjunct of one
of its invariants for the others (`TypeOK` in `LimitsKept`, `AnswerToAsker`, `WholeWhileNeeded`,
`CreationIsWhole`; `FeedTypeOK` in `HistorySound`, `LogTypeOK` in `StreamedOnce`, `ClientTypeOK` in
`ToldAsItIs`).
Modules whose theorems share a proof module have names of their own for the specification and its
parts (`RouterSpec`, `FeedSpec`, `LogSpec`, `ClientSpec`).

## 3. Runs

| Run | Configuration | What it shows |
|---|---|---|
| orders | MCOrderManager | one id through a retry, a fault, a crash or shutdown: `PlacedOnce` (one exchange order unless an answer was lost), `LiveOrdersOnRecord`, `FinalStatesAreReal`, `ViewConverges` (with nothing under way the OMS shows the exchange's status), `FinalStateArrives`, and `KeepsPromise`: the refinement of `OrderLifecycle` |
| pipeline | MCSignalPipeline | `SlipBounded` and `OpenOrdersBounded`: what slips past the kill switch and the order limit; `ActivationClears`: what activation cancels, its listing cut at a limit |
| trading | MCTradingLoop | `FreshUnlessBehind`: how stale the projection can be; `LimitsKept`: sizes within both tiers and one order at most past the daily loss; `Converges` |
| lifecycle | MCStrategyLifecycle | `RegisteredSubscribed`, `CrashLoopCut`, `StopLeavesNothing` (a watcher may schedule a restart behind `restartWg.Wait`: it is left asleep, and cannot launch), `CrashedComesBack` |
| process_per_strategy | MCStrategyLifecycleProcs | violated: one process per strategy |
| sdk | MCSdkRuntime | `AnswerToAsker`: answers find their thread and never show it an older state; `OnlySilentIsGivenUp`: a process that runs is given up only when its heartbeats waited behind a full `signalCh` for the whole timeout |
| router | MCMarketRouter | `NeverCutOff`, `StreamsServed` (what the tables want is pushed, and the hub records nothing else) and, of the hub below, `ActiveSubsAreLive` |
| feed | MCMarketFeed | `CompleteView`: history first, and no window the exchange pushed lost between it and the pushes; `HistorySound`: ascending, and no open window's candle left as closed |
| logs | MCLogStream | `StreamedOnce`: no row twice, none lost after the registration; `FoundToTheSecond`: what comparing texts gets wrong stays within a second |
| daemon | MCDaemon | `AcceptedConfigWorks`, `AckedStateSurvives` (the newest state a strategy was told is set, unless its calls overlapped, and the schema, over kills), `WholeWhileNeeded`, `ShutdownEnds` (unless a strategy has stopped reading) |
| catalog | MCStrategyCatalog | `CreationIsWhole`: what was created stays, and half a directory is left only by a kill or a failed removal and upsets no scan; `SyncedIsListing`: the catalog after an undisturbed reload is the listing; `DisabledStaysDown`: what runs was started from an enabled entry |
| clients | MCGateClient | `ToldAsItIs`: REST and websocket tell the same, which is what was asked and traded, up to a thousandth of a second and a leverage that only REST has; `ToldEverything`; `CloseEnds` |

### What the violated run shows

`process_per_strategy`: the reader of a dead process records the exit, a restart registers a
successor, and the dead process's monitor unregisters that successor, whose own process goes on.

### Divergences seen while modelling

The models follow the code; these are the places where it does something else than a doc, a
comment or a name says, and where a property therefore has an exception or stops short.

1. A restart can lose hold of a live order: the row of an order whose `Place` had just succeeded
   has no exchange id when the process dies, and `reconcileWithExecutors` skips it
   (`engine/reconcile.go:68`, against `docs/ARCHITECTURE.md:19`). The row stays, so that the id is
   not placed again.
2. The circuit may open early: `pruneCrashTimes` filters into the array that `countInWindow` reads
   (`engine/restart.go:40`, `:48`, against `config.example.toml:47`), so that recent crashes count
   twice. `CrashLoopCut` says that none is forgotten.
3. A `Subscribe` that failed leaves counts and keys behind, so that the next strategy's call finds
   nothing to send (`perp/router.go:95`, `:146`). `StreamsServed` excepts those streams.
4. After one failed dial `readLoop` sleeps and never dials again (`gateio/ws.go:210`, `:292`).
   `ActiveSubsAreLive` is about a connection that works.
5. Two Flat signals in a row can open the opposite position, the position lock notwithstanding:
   the closing order is not reduce-only, and the projection may not show the first fill
   (`perp/executor.go:116`, `config.example.toml:98`).
6. A candle pushed after newer ones came from REST is appended at the end, and the history is out
   of order until the next warm-up (`perp/kline_history.go:95`, `:135`). `HistorySound` excepts it.
7. A call made in a callback always runs into its timeout: the reader hands the answer to the
   worker, which waits for it (`sdk/python/signalix/runtime.py:26`, `:231`, against
   `docs/ARCHITECTURE.md:109`). Calls from other threads are answered.
8. Time ranges and purges compare RFC3339Nano texts, whose order within a second is not that of
   the times (`internal/adapters/store/sqlite/persistence.go:12`, `:81`, `persistence_query.go:94`,
   reached by `--since`).
9. A zero in the `[risk]` section keeps the default (`internal/config/config.go:434`, against
   `config.example.toml:99` and `internal/domain/risk/rules.go:8`).
10. The open remainder of a sell is negative, so that a partly filled open sell shows as submitted
    (`gateio/convert.go:64`). What is filled and what has ended is told right (`ToldAsItIs`).
11. A callback that blocks for long does not stop the heartbeats, which a thread of their own
    prints (`sdk/python/signalix/runtime.py:273`, against `sdk/python/README.md:245`), as long as
    the callback lets python's other threads run, which the model takes for granted. A full
    `signalCh` does stop them: the reader of stdout waits in `engine.go:799` without a timeout,
    and after 30 seconds the monitor gives up a process that is alive. `OnlySilentIsGivenUp`
    excepts that wait and nothing else.
12. Two set_state calls that overlap, made by two threads of a strategy or after one was given up,
    change memory in one order and may be saved in the other, as the save is made outside the lock
    (`engine/engine.go:210-236`); both calls are answered with ok. `AckedStateSurvives` excepts a
    strategy whose calls have overlapped until a call alone or a flush has saved its newest state
    (`overlapped`).
13. A strategy that no longer reads its stdin, with the pipe full, keeps `Engine.Stop` for good:
    the stop message is written under `sp.mu` without a timeout before the process is killed
    (`internal/adapters/strategy/pythonipc/process.go:98`, `:254`, `:262`). `ShutdownEnds` excepts
    it.
14. A directory may be left half made: the rollback of Create is a defer that a kill skips, and the
    error of its `RemoveAll` is ignored (`internal/app/strategy/scaffold/create.go:77-82`). The
    directory takes its name, as Create answers that it exists, until somebody removes it by hand.
    `CreationIsWhole` excepts it (`abandoned`).
15. `strategies.default_interval` is empty by default and never checked
    (`engine/engine_options.go:47`). `config.example.toml:40` says that each strategy must then
    have an interval; one without is catalogued all the same and refused at every launch
    (`engine/engine.go:570`). `SyncedIsListing` excepts those entries.
16. The same moment can be told a thousandth of a second apart: seconds with a fraction are a
    float64 whose nanoseconds are cut off (`gateio/convert.go:96-98`,
    `pkg/exchange/spot/gateio/convert.go:135-137`). `ToldAsItIs` allows the thousandth (`Near`).
17. A position's leverage depends on who tells it: REST reads `lever` and then `leverage`
    (`gateio/convert.go:189-192`), the websocket only `leverage`, which is 0 when it is a
    text or the margin is crossed (`gateio/ws_handlers.go:301`). `ToldAsItIs` compares it
    only where `lever` says no other and the row writes a number.

Other behaviours the properties are worded around: a `Place` whose answer was lost is sent again
and may become a second exchange order (`ambiguous`); `handleOrder` drops an update for a full
channel without a log line (`missed`); a restart already waiting when the operator stops the
strategy starts it again; launching a running strategy takes one more reference on its tickers,
which is why `NeverCutOff` is an inequality; two reloads at once may end in the wrong order, and
the older scan stays until the next one (`synced` in `SyncedIsListing`); a reload between a call's
look at the catalog and its launch lets it start an entry that is disabled now, and a restart
launches the entry its crash found, whatever was reloaded since (`calm` in `DisabledStaysDown`); a
row saved between a stream's listing and its registration is lost to it (`since` in
`StreamedOnce`); a stream that is unsubscribed between the reconnection's snapshot and its resend
(`gateio/ws.go:300-328`) is sent all the same and pushed until the next cut, which is why
`StreamsServed` speaks of what the hub records; a candle that closes while the websocket is down,
or after the `Subscribe` of its stream failed, is not asked for afterwards (`unpushed` in
`CompleteView`).

### Bounds, and why they are enough

- `OrderManager`: two exchange ids are what a second placement needs, one retry is what a lost
  answer needs; one fault is a lost answer, a failed save or a dropped push, and a crash or a
  shutdown can follow it. Channels of one fill up at once; capacities in the code are 64 to 1000,
  and a smaller one meets the full channel sooner and adds no behaviour otherwise. One id: what ids
  share (run loop, queues, tags) enters the guards by id, and the proofs are for any number of ids.
- `SignalPipeline`: with channels of one, three orders can be past a check (one in each dispatcher,
  one between them), and a fourth opening signal exceeds each stated bound when a guard is dropped;
  a closing signal goes with them. Two activations meet each other's cancels.
- `TradingLoop`: one contract, as entries of the projection are independent; two strategies, one
  with overrides of its own; two orders are what a stale check needs, one move of the total and one
  change of day what the loss limit needs; a user channel of one drops pushes.
- `StrategyLifecycle`: one strategy, since process table, crash window and restarts are kept per
  name. Two faults are what a restart that fails within a restart needs, and two crashes open the
  circuit; `MaxProcs` and `MaxRecords` are large enough never to disable a step.
- `SdkRuntime`: the worker and one thread of the strategy's own, two calls: a call given up, its
  late answer and another call. Two candles whose signals meet a `signalCh` of one that other
  strategies fill too, so that the reader waits for room twice in a row or for good; a timeout of
  two periods tells the two waits from one.
- `WsHub`, `MarketRouter`: a connection cut during a reconnection needs two cuts; sharing needs two
  strategies and two candle streams of one contract. The tables are kept per contract, so a second
  contract adds no interaction.
- `MarketFeed`: four windows and a history of three, so that it is trimmed; three launches are two
  strategies and a second launch of one of them; channels of two drop candles.
- `LogStream`: a whole second with two fractions within it and one instant more, and a retention
  of one second, so that a row at its edge is purged or kept by the order of texts; two strategies,
  three rows of either table, a queue and a stream channel of one.
- `Daemon`: any two keys of a section out of the sample, each over its whole small domain, zero and
  negative numbers included; one strategy, one subscriber, two starts of the process, one failed
  save; two set_state calls, which may overlap, or one log line or order update on its way
  (`MaxEvents`, of which a line or an update takes two): the writer and the fan-out wait for
  different things, so one at a time asks each whether it ends, and neither reads the state. A
  second line would find the queue full and be dropped, which changes nothing else (`EnqueueLog`).
  The dispatchers, the pump of market updates and the retention loop end alike and are one loop.
- `StrategyCatalog`: two directories that may hold the same name, two clients, one edit by hand,
  two failed operations or kills (a write and the removal after it), two crashes (the second while
  the first one's restart waits), two calls. The first disk is empty or holds one strategy, so
  that a name may be taken; the default interval is none, as it is by default.
- `GateClient`: one order of a small size traded in parts, both sides, both types, two long ids
  with the same beginning and a short one with and without the prefix; one subscription that the
  caller makes and ends, on the channel of the order's own rows; one cut; channels of two; two
  margins, isolated and crossed, and one time that a float64 cannot hold. The proofs are for any
  ids and any subscriptions of the registered channels.
- Faults, starts, stops, edits and calls are counted and capped in the guards; the cap is the only
  reason a bounded behaviour may end, so `CHECK_DEADLOCK FALSE` appears only where everything the
  bounds allow has happened, or the process has ended, and nobody is waiting for another. What
  could wait for good is asked by `ShutdownEnds`, `CloseEnds` and `StopLeavesNothing` instead.

### Fairness

Weak fairness is on steps of goroutines that nothing but their own scheduling delays.

- `OrderManager`: the pump and the steps after an answer; a REST call returns, as the client has a
  timeout (`PlaceReturns`). The run loop chooses among ready channels with Go's `select`, which is
  random, so an event that is ready again and again is taken some time: strong fairness on
  `applyOrderEvent`. Commands need none.
- `TradingLoop`: the user-event pump and the refresh ticker weakly; the two REST answers strongly,
  as each may fail, but not for ever. Nothing is assumed of dispatch and submission.
- `StrategyLifecycle` and `Daemon`: one weak fairness for all goroutines (in `Daemon` with main);
  each of their steps can be taken finitely often only, so none is passed over for ever.
- `GateClient`: one weak fairness for three things: the read loop runs on after an error, Close
  goes on when it can, and the exchange cuts off a client that sends no pings (the read has no
  deadline of its own).

Nothing is assumed of operators, strategies, trades, faults or crashes.

## 4. Proofs

Every theorem holds for all values of the constants that satisfy the named assumptions of its
component's module (`OrdersAssumption`, `PipelineAssumption`, `LifecycleAssumption` and so on):
capacities, limits and counts are natural numbers, sets are disjoint from each other and from the
values that stand for "none". Sets of orders, signals, strategies, contracts and threads may be
infinite (the directories of `StrategyCatalog` are a sequence); no bound of section 3 is assumed.

The proofs have one shape. The properties are not inductive, so each proof module states the
invariant that is (`IInv`, `RecInv`, `FeedIInv`, `LogIInv`, `ClientIInv`) as a conjunction of
named parts, with a comment for each; TLC checked it on small instances before it was proved.
Lemmas say what each action does to one part of the state, one lemma per part says that every step
keeps it, and the theorems follow with PTL.

| Theorem | States | What the inductive invariant adds, and why |
|---|---|---|
| `OrderManagerProofs!TypeCorrect` | `TypeOK` | `Linked`: reconciliation and sync copy the exchange's status for a stored id, which exists only if the id is real |
| `OrderManagerProofs!OneExchangeOrderPerId` | `PlacedOnce` | `Placements`: nothing was placed for an id that can still be placed, queued or under way |
| `OrderManagerProofs!EndsAreReal` | `FinalStatesAreReal` | `Ids`: a row, an answer or an event belongs to the order it is filed under; `Ends`: an end in any queue or row is real, as a status is copied from queue to queue |
| `OrderManagerProofs!LiveOrdersRecorded` | `LiveOrdersOnRecord` | `Saves`: what is in memory and on disk at each stage, over the blocked Place, the end of the process and recovery |
| `OrderManagerProofs!ViewIsTrue` | `ViewConverges` | `News`: the newest update on its way carries the exchange's status, and with none on its way the row does |
| `OrderManagerProofs!OrderPathImplements` | `KeepsPromise` | all of `RecInv`: each step maps to a step of `OrderLifecycle` or to a stutter |
| `OrderPathProofs!TypeCorrect` | `TypeOK` | `Carried`: a channel holds exactly the signals whose stage says so, once each |
| `OrderPathProofs!FewSlip` | `SlipBounded` | `Slips`: what slipped and what may still slip together, since the switch may go on between any two steps; `Hands`: each dispatcher holds one signal |
| `OrderPathProofs!LimitNearlyKept` | `OpenOrdersBounded` | `Opens`: counts what dispatchSignal no longer holds back, against the number it has read |
| `OrderPathProofs!ClearedByActivation` | `ActivationClears` | `Clears`, `Listed`, `Leaves`: after the listing, an open order that opens exposure slipped, was spared, had no room in the listing or is about to be cancelled; with a limit on open orders, what had no room is bounded by what may be open |
| `OrderPathProofs!OrderToldAsItIs` | `ToldAsItIs` | `OrderIs`: the exchange's order is the request after `Place` and what was filled since (`OrderKept`). Lemmas for the conversions of each client (`PerpRowRead`, `PerpTold`, `SpotTold`, ...): every way of writing a row is read as REST would say it, times to a thousandth (`NearIs`, `OrderPushedIs`; `OrderSaidAlike`, `PositionSaidAlike`, `BalanceSaidAlike`); `OneTag`: two ids with one tag have one meaning |
| `OrderPathProofs!CallerToldEverything` | `ToldEverything` | `Newest`: of the rows and events on their way the last one tells what the order, the position or the balance is now, and without any the caller has it; `LeadsTo`: each trade on its way tells the difference to the one before it, up to what was filled; `Sessions`: recorded and not served waits in the snapshot of the reconnection |
| `TradingLoopProofs!ProjectionIsFresh` | `FreshUnlessBehind` | `Told`, `Asked`: the last push under way and the answers a refresh has read are the account's, unless they raced a change; `Shown` speaks of entries without a push |
| `TradingLoopProofs!LimitsAreKept` | `LimitsKept` | `JobSized`: the strategy's tier has answered before the global one reduces further; `OneSlip`: after the order that slipped no risk context is without the loss |
| `StrategyProofs!TypeCorrect` | `TypeOK` | `Numbered`: what was not launched is not watched, what was not recorded starts nothing |
| `StrategyProofs!RegisteredAreSubscribed` | `RegisteredSubscribed` | `Held`: the registered process still has its reader, whose exit is what unsubscribes |
| `StrategyProofs!CrashLoopsEnd` | `CrashLoopCut` | `Remembered`: every record of the window is in the slice; `Limited`: every automatic start has settled a record below the limit. `Ranks` and `PrunedKeeps` say what `pruneCrashTimes` keeps |
| `StrategyProofs!StopIsClean` | `StopLeavesNothing` | `Ended`: what each phase of Stop has ended stays ended; after the cancellation nothing gets past the checks before a launch |
| `SdkRuntimeProofs!AnswersReachTheirAsker` | `AnswerToAsker` | `Own`: whatever carries an open call's number is its thread's question or an answer to it, as new as what the thread has seen; `Once` and `Written`: a question is carried once, so the state is written at most once per number |
| `SdkRuntimeProofs!TheLivingAreKept` | `OnlySilentIsGivenUp` | `Heard`: this period's heartbeat is in the pipe or was handled, and the time without one is the time the reader did not catch up; a process that is given up with its heartbeats unread is one whose reader waited |
| `MarketProofs!TypeCorrect` | `RouterTypeOK` | |
| `MarketProofs!RecordedAreLive` | `ActiveSubsAreLive` | `HubLive`: what is recorded and not live waits in the snapshot of the reconnection |
| `MarketProofs!StopsCutNobodyOff` | `NeverCutOff` | `Counted`: a ticker is counted at least once per follower, as a set of strategies and not one by one |
| `MarketProofs!WantedAreServed` | `StreamsServed` | `Agrees`: the hub records what the tables want, streams of a failed call apart |
| `MarketProofs!ViewsAreComplete` | `CompleteView` | `Fresh`: a launch's process was sent nothing yet, as the pump waits; `NoGap`: each window's last data was sent, is in the answer, is on its way, was dropped or never pushed (`Covered`) |
| `MarketProofs!HistoryIsSound` | `HistorySound` | `Sound`: a wrong candle of a closed window is known to be torn or its last data is on its way. Lemmas for each operator: the binary search (`SearchEnds`, `SearchFinds`), the merge of one candle and of an answer (`MergedOne`, `MergedAll`), the sort (`PlacesAreTaken`, `SortedIs`), the trim (`Trimmed`) |
| `StrategyProofs!RowsStreamOnce` | `StreamedOnce` | `Counts`: no row without a line, so ids stay in bounds; `Following`: beyond the tail only rows are streamed of which the subscribers were told, in the order of their ids; `Reached`: where a row saved since the registration is |
| `StrategyProofs!RowsFoundToTheSecond` | `FoundToTheSecond` | `RowIds`, `Revisions`: rows have ids of their own; `BeforeIs` says when one text comes before another, `PrecedesOrders` and `PlacesOf` what a query with an order and a limit returns |
| `DaemonProofs!StateSurvives` | `AckedStateSurvives` | `Ahead`: memory is never behind what was or will be told, and a call that no other overlaps carries what is in memory; `Durable`: without an overlap what was told and is not on disk could not be saved; `Migrated`: tables are made before the version says so |
| `DaemonProofs!WholeAsNeeded` | `WholeWhileNeeded` | `Staged`, `Manned`: what is open, alive or running at each place of main; `Locked`: the fan-out holds the lock while it serves; `Over`: what Stop has waited for |
| `DaemonProofs!ConfigWorks` | `AcceptedConfigWorks` | `FileGiven` only. `UncappedExists`, `UncappedGrows` and `AllGrow` say that the recursive function of the pauses is defined and grows up to its limit |
| `StrategyCatalogProofs!Whole` | `CreationIsWhole` | `Alone`: no two creations work in one directory; `Staged`: what the directory holds at each stage of Create; `Kept`, `NoHalves`, `ScriptLast`: the three promises |
| `StrategyCatalogProofs!ListingIsTrue` | `SyncedIsListing` | `Scanned`: a scan that nothing disturbed has found the last of each name among the directories behind it (`BeforeOrders`, `FirstLast`) |
| `StrategyCatalogProofs!DisabledStays` | `DisabledStaysDown` | `Started`, `Restarting`: a start under way goes by an enabled entry and each restart that waits by the one the catalog has, unless a reload overtook them |

### What the proofs asked of the models

- `SdkRuntime`: two waits of the reader in a row, with one line read between them, add up, so that a
  bound on each single wait says nothing. `stall` counts the periods since the reader last had read
  everything, the period's heartbeat included.
- `StrategyLifecycle`: `pruneCrashTimes` is spelled out (`Kept`, `Rank`), and the bounds on
  processes and records are guards that the runs never reach.
- `TradingLoop`: "the loss is at its limit" means a limit the rules enable, and the merged rules are
  rules (`LoopAssumption`, `RuleSet`).
- `StrategyCatalog`: the order in which a directory is read is stated as `Before`, `First` and
  `Last`, and maps are written as functions of their keys; that an absent and a broken file are no
  configuration and that no directory is listed twice is an assumption (`CatalogAssumption`).
- `MarketFeed`: `sort.Slice` is a set of permutations by places (`Sorted`), as the prover cannot
  look into `SortSeq`, and the binary search is a function of the stretch still searched.
- `LogStream`: the tail is put in order by the places of its rows (`rowsASC`), and the order of
  what is streamed is stated for pairs of positions; `LogAssumption` says what its bounds are.
- `GateClient`: the cases of `mapFuturesOrderStatus` overlapped when they were written side by side
  (an order finished as "filled" is also just finished), and CASE may then take either; they are now
  nested as in the code. `Decoded` is a recursive function and not `SelectSeq`, of which the prover
  knows nothing. The empty text and the amount of an order are constants; that times stay below the
  bound that tells milliseconds from seconds is an assumption (`SessionAssumption`).
- `SignalPipeline`: the number of open orders read is a natural number without an upper bound.

### Only model-checked

- Liveness, as fairness is out of the prover's reach: `FinalStateArrives`, `CrashedComesBack`,
  `Converges`, `ShutdownEnds`, `CloseEnds`.

The prover has no induction rule that it can instantiate. Where the models use a recursive function
or a fold (`computeBackoff`, the binary search, the merge of an answer, the rows of a frame that
can be decoded), what it computes is proved with `UpTo`: a set that holds 0, and the successor of
each number below n that it holds, holds all of 0..n. It follows from finiteness: each number left
out would have its predecessor left out too.

## 5. Not modelled

- Formats, wording and logging; the generated API; the CLI, which makes one call per invocation.
- Read models: health, strategy status, market snapshots, account queries. They change no state.
- The spot client's public events, historical candles and balance queries; the daemon does not use
  this client yet.
- The OMS's statistics counters and read-only queries; calls no production code makes
  (UnsubscribeContracts, ClearCache, CleanStaleCache, the process's own crash times).
- Two writers at once on a websocket: heartbeat, resubscription and calls share no lock, but a
  write is one step here.
- Fractions: quantities are whole contracts, money whole units; decimal rounding beyond whole
  contracts is left out.
- The exchange is modelled by what the clients rely on.

## 6. What is left

The modules above complete the models planned, and every component modelled has its proofs: 34
theorems, each of which states a property that a run checks. Every safety property of the runs is
proved; what TLC alone checks is liveness, listed at the end of section 4.
Of what section 5 lists as not modelled, two writers on one websocket are the part most worth a
model of its own.
