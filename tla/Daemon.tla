-------------------------------- MODULE Daemon --------------------------------
(***************************************************************************)
(* signalixd from main to exit: start-up, the goroutines Engine.Start      *)
(* launches, the strategies' state and logs on their way to the store, the *)
(* streams of order updates, and the shutdown.  The process may be killed  *)
(* at any moment and started again on the same database.                   *)
(*                                                                         *)
(* A strategy's state is one key whose values are counted in the order in  *)
(* which memory takes them; its calls may overlap, as each has a goroutine *)
(* and the strategy may have threads or give a call up.  What else a       *)
(* strategy does is in StrategyLifecycle and TradingLoop, what else the    *)
(* OMS does in OrderManager.                                               *)
(***************************************************************************)
EXTENDS ConfigRules, Sequences, FiniteSetsExt

CONSTANTS
  Files,       \* configuration files
  Strategies,  \* enabled strategies
  Subscribers, \* clients of SubscribeOrderEvents
  LogCap,      \* strategyLogQueueSize
  MaxSets,     \* bound: values of a strategy's state
  MaxEvents,   \* bound: set_state calls, and log lines and order updates, which count twice
  MaxFaults,   \* bound: failed saves
  MaxBoots     \* bound: starts of the process

ASSUME DaemonAssumption ==
  /\ Files \subseteq File
  /\ LogCap \in Nat \ {0} /\ MaxBoots \in Nat \ {0} /\ {MaxSets, MaxEvents, MaxFaults} \subseteq Nat

VARIABLES
  pc,         \* the main goroutine
  file,       \* config.toml, until it is loaded
  settings,   \* what main still asks of it
  schema,     \* user_version of the database, and its tables
  store,      \* Engine.store
  running,
  proc,       \* the strategies' processes
  reader,     \* readStrategyMessages
  rpc,        \* the goroutines of set_state calls, and their values
  memory,     \* strategyStates
  record,     \* strategy_state on disk
  logCh,      \* strategyLogCh, and its length
  queued,
  writer,     \* strategyLogWriterLoop
  loops,      \* goroutines of wg that end with ctx
  snapshot,   \* a goroutine of PersistAccountSnapshot
  oms,        \* the OMS, and the length of orderUpdateCh
  updates,
  pump,       \* orderFanoutLoop, and the subscribers it has yet to serve
  serve,
  sub,        \* the subscribers' channels
  handler,    \* a unary call that needs the store
  acked,      \* the state a strategy was told is set
  unsaved,    \* the last save of it failed
  overlapped, \* an older value may be saved after the newest, as their calls overlapped
  flushed,    \* the flush of Stop saved everything
  boots, events, faults   \* no variables of the code, these seven

states == <<memory, record, acked, unsaved, overlapped>>
strategies == <<proc, reader, rpc, states>>
logging == <<logCh, queued, writer>>
streams == <<oms, updates, pump, serve, sub>>
workers == <<loops, snapshot, handler>>
engine == <<store, running, flushed, strategies, logging, streams, workers>>
vars == <<pc, file, settings, schema, engine, boots, events, faults>>

\* pumpMarketUpdates, dispatchSignal, dispatchOrder and retentionLoop are one.
Loops == {"dispatchers", "projection"}
Booting == {"config", "connect", "open", "migrate", "assemble", "load", "reconcile", "launch", "markets"}

\* Mutant: the log channel is closed when its writer has ended.
StopOrderLogLast ==
  <<"stopMarkets", "stopStrategies", "flush", "cancel", "wait", "closeLog", "stopOms", "waitPump", "closeStore",
    "dropStore", "return", "exited">>
\* Mutant: the state is flushed while the strategies still run.
StopOrderFlushFirst ==
  <<"stopMarkets", "flush", "stopStrategies", "closeLog", "cancel", "wait", "stopOms", "waitPump", "closeStore",
    "dropStore", "return", "exited">>
\* Engine.Stop, step by step, and the return from main.
StopOrder ==
  <<"stopMarkets", "stopStrategies", "flush", "closeLog", "cancel", "wait", "stopOms", "waitPump", "closeStore",
    "dropStore", "return", "exited">>

Stopping == {StopOrder[i] : i \in 1..(Len(StopOrder) - 1)}
Place(at) == CHOOSE i \in 1..Len(StopOrder) : StopOrder[i] = at
Ended == {"refused", "failed", "exited", "panicked", "killed"}
Alive == pc \notin Ended

Call == [at : {"set", "saving"}, value : 1..MaxSets]

\* Types, and the bounds of the queues.
TypeOK ==
  /\ pc \in Booting \cup {"serving", "draining"} \cup Stopping \cup Ended
  /\ settings \in [supported : BOOLEAN, grpc : {"off", "refused", "on"}]
  /\ schema \in [version : 0..2, tables : SUBSET (0..2)]
  /\ store \in {"none", "open", "closed"} /\ running \in BOOLEAN /\ flushed \in {"no", "all", "part"}
  /\ proc \in [Strategies -> {"none", "live", "deaf", "dead"}] /\ reader \in [Strategies -> BOOLEAN]
  /\ rpc \in [Strategies -> SUBSET Call]
  /\ {memory, record, acked} \subseteq [Strategies -> 0..MaxSets]
  /\ {unsaved, overlapped} \subseteq [Strategies -> BOOLEAN]
  /\ logCh \in {"none", "open", "closed"} /\ queued \in 0..LogCap /\ writer \in {"none", "running", "done"}
  /\ loops \subseteq Loops /\ snapshot \in BOOLEAN /\ handler \in {"idle", "checked"}
  /\ oms \in {"none", "running", "ended", "closed"} /\ updates \in 0..MaxEvents
  /\ pump \in {"none", "idle", "sending", "done"} /\ serve \subseteq Subscribers
  /\ sub \in [Subscribers -> {"none", "open", "leaving", "closed"}]

Cancelled == pc \in Stopping /\ Place(pc) > Place("cancel")

-----------------------------------------------------------------------------
(* main and Engine.Start *)

Goto(at) == pc' = at

LoadConfig ==
  /\ pc = "config"
  /\ Goto(IF Accepted(file) THEN "connect" ELSE "refused")
  /\ LET raw == Read(file)
     IN settings' = [supported |-> MarketsSupported(raw),
                     grpc |-> IF ~raw.grpc.enabled THEN "off"
                              ELSE IF VerifyLoopbackListenAddr(raw) THEN "on" ELSE "refused"]
  /\ file' = Unset
  /\ UNCHANGED <<schema, engine, boots, events, faults>>

Connect ==
  /\ pc = "connect"
  /\ Goto("open") \/ Goto("failed")
  /\ UNCHANGED <<file, settings, schema, engine, boots, events, faults>>

\* One migration: the tables first, then user_version.
MigrateTables ==
  /\ pc = "open" /\ schema.version < 2
  /\ schema' = [schema EXCEPT !.tables = @ \cup {schema.version + 1}]
  /\ Goto("migrate")
  /\ UNCHANGED <<file, settings, engine, boots, events, faults>>

MigrateVersion ==
  /\ pc = "migrate"
  /\ schema' = [schema EXCEPT !.version = @ + 1]
  /\ Goto("open")
  /\ UNCHANGED <<file, settings, engine, boots, events, faults>>

\* sqlite.Open succeeds or fails.
Open ==
  /\ pc = "open"
  /\ \/ schema.version = 2 /\ Goto("assemble") /\ store' = "open"
     \/ Goto("failed") /\ UNCHANGED store
  /\ UNCHANGED <<file, settings, schema, running, flushed, strategies, logging, streams, workers, boots, events, faults>>

\* EnabledMarkets, NewPerpMarket, NewEngine, BindRisk.
Assemble ==
  /\ pc = "assemble"
  /\ IF settings.supported THEN Goto("load") ELSE Goto("failed")
  /\ UNCHANGED <<file, settings, schema, engine, boots, events, faults>>

LoadStrategies ==
  /\ pc = "load"
  /\ Goto("reconcile") \/ Goto("failed")
  /\ UNCHANGED <<file, settings, schema, engine, boots, events, faults>>

startStrategyLogWriter == logCh' = "open" /\ queued' = 0 /\ writer' = "running"

\* loadSnapshotAndReconcile, the log writer, and the projection, whose failure is only logged.
Reconcile ==
  /\ pc = "reconcile"
  /\ \/ /\ Goto("launch")
        /\ memory' = record
        /\ startStrategyLogWriter
        /\ loops' \in {{}, {"projection"}}
     \/ /\ Goto("failed")
        /\ UNCHANGED <<memory, logging, loops>>
  /\ UNCHANGED <<file, settings, schema, store, running, flushed, proc, reader, rpc, record, acked, unsaved, overlapped, streams,
                 snapshot, handler, boots, events, faults>>

\* The enabled strategies that can be started are.
LaunchStrategies ==
  /\ pc = "launch"
  /\ \E launched \in SUBSET Strategies :
       /\ proc' = [s \in Strategies |-> IF s \in launched THEN "live" ELSE "none"]
       /\ reader' = [s \in Strategies |-> s \in launched]
  /\ Goto("markets")
  /\ UNCHANGED <<file, settings, schema, store, running, flushed, rpc, states, logging, streams, workers, boots, events,
                 faults>>

\* The markets, the OMS, the fan-out, the three dispatchers, running, retention's loop.
StartWorkers ==
  /\ pc = "markets"
  /\ oms' = "running" /\ pump' = "idle"
  /\ loops' = loops \cup (Loops \ {"projection"})
  /\ running' = TRUE
  /\ Goto("serving")
  /\ UNCHANGED <<file, settings, schema, store, flushed, strategies, logging, updates, serve, sub, snapshot, handler,
                 boots, events, faults>>

Start ==
  \/ LoadConfig \/ Connect \/ MigrateTables \/ MigrateVersion \/ Open
  \/ Assemble \/ LoadStrategies \/ Reconcile \/ LaunchStrategies \/ StartWorkers

-----------------------------------------------------------------------------
(* The strategies: set_state, logs *)

Panic == Goto("panicked") /\ UNCHANGED <<file, settings, schema, engine, boots, events, faults>>

keptByCalls ==
  <<pc, file, settings, schema, store, running, flushed, proc, reader, logging, streams, workers, boots>>

\* A goroutine of handleRPCRequest, and the locked part of SetStrategyCustomState.
SetState(s) ==
  LET value == Max({memory[s], acked[s]}) + 1
  IN /\ Alive /\ reader[s] /\ value <= MaxSets /\ events < MaxEvents
     /\ memory' = [memory EXCEPT ![s] = value]
     /\ rpc' = [rpc EXCEPT ![s] = @ \cup {[at |-> "set", value |-> value]}]
     /\ overlapped' = [overlapped EXCEPT ![s] = @ \/ rpc[s] # {}]
     /\ events' = events + 1
     /\ UNCHANGED <<keptByCalls, record, acked, unsaved, faults>>

\* The answer reaches a process that lives and reads; it says ok whatever became of the save.
answer(s, c) ==
  /\ rpc' = [rpc EXCEPT ![s] = @ \ {c}]
  /\ acked' = IF proc[s] = "live" THEN [acked EXCEPT ![s] = Max({@, c.value})] ELSE acked

CheckStore(s, c) ==
  /\ Alive /\ c.at = "set"
  /\ IF store = "none" THEN answer(s, c)
     ELSE rpc' = [rpc EXCEPT ![s] = (@ \ {c}) \cup {[c EXCEPT !.at = "saving"]}] /\ UNCHANGED acked
  /\ UNCHANGED <<keptByCalls, memory, record, unsaved, overlapped, events, faults>>

\* The save is made without the lock.
SaveStrategyState(s, c) ==
  /\ Alive /\ c.at = "saving" /\ store # "none"
  /\ \/ /\ store = "open"
        /\ record' = [record EXCEPT ![s] = c.value]
        /\ unsaved' = [unsaved EXCEPT ![s] = FALSE]
        /\ overlapped' = [overlapped EXCEPT ![s] = @ /\ ~(rpc[s] = {c} /\ c.value = memory[s])]
        /\ UNCHANGED faults
     \/ /\ store = "closed" \/ faults < MaxFaults
        /\ unsaved' = [unsaved EXCEPT ![s] = TRUE]
        /\ faults' = IF store = "closed" THEN faults ELSE faults + 1
        /\ UNCHANGED <<record, overlapped>>
  /\ answer(s, c)
  /\ UNCHANGED <<keptByCalls, memory, events>>

\* e.store became nil after it was looked at.
SaveOnNil(c) == Alive /\ c.at = "saving" /\ store = "none" /\ Panic

\* enqueueStrategyLog; a full queue drops the line.
EnqueueLog(s) ==
  /\ Alive /\ reader[s] /\ events + 2 <= MaxEvents
  /\ logCh = "open"
  /\ queued' = Min({queued + 1, LogCap})
  /\ events' = events + 2
  /\ UNCHANGED <<pc, file, settings, schema, store, running, flushed, strategies, logCh, writer, streams, workers, boots,
                 faults>>

\* The channel was closed while lines of a stopped process were still to be read.
EnqueueOnClosed(s) == Alive /\ reader[s] /\ logCh = "closed" /\ Panic

\* The output of a dead process ends.
ReaderEnds(s) ==
  /\ Alive /\ reader[s] /\ proc[s] = "dead"
  /\ reader' = [reader EXCEPT ![s] = FALSE]
  /\ UNCHANGED <<pc, file, settings, schema, store, running, flushed, proc, rpc, states, logging, streams, workers, boots,
                 events, faults>>

\* strategyLogWriterLoop: a row, or the end of the channel.
WriteLog ==
  /\ Alive /\ writer = "running"
  /\ \/ queued > 0 /\ queued' = queued - 1 /\ UNCHANGED writer
     \/ queued = 0 /\ logCh = "closed" /\ writer' = "done" /\ UNCHANGED queued
  /\ UNCHANGED <<pc, file, settings, schema, store, running, flushed, strategies, logCh, streams, workers, boots, events,
                 faults>>

-----------------------------------------------------------------------------
(* Loops, snapshots, handlers, streams *)

LoopEnds(l) ==
  /\ Cancelled /\ l \in loops
  /\ loops' = loops \ {l}
  /\ UNCHANGED <<pc, file, settings, schema, store, running, flushed, strategies, logging, streams, snapshot, handler,
                 boots, events, faults>>

\* PersistAccountSnapshot, from the projection's refresh, and its goroutine.
PersistAccountSnapshot ==
  /\ Alive /\ "projection" \in loops /\ store # "none" /\ ~snapshot
  /\ snapshot' = TRUE
  /\ UNCHANGED <<pc, file, settings, schema, store, running, flushed, strategies, logging, streams, loops, handler, boots,
                 events, faults>>

SaveSnapshot ==
  /\ Alive /\ snapshot /\ store # "none"
  /\ snapshot' = FALSE
  /\ UNCHANGED <<pc, file, settings, schema, store, running, flushed, strategies, logging, streams, loops, handler, boots,
                 events, faults>>

SaveSnapshotOnNil == Alive /\ snapshot /\ store = "none" /\ Panic

\* requireRunningWithStore; then the handler asks for the store again.
HandlerChecks ==
  /\ pc = "serving" /\ settings.grpc = "on" /\ running /\ store # "none" /\ handler = "idle"
  /\ handler' = "checked"
  /\ UNCHANGED <<pc, file, settings, schema, store, running, flushed, strategies, logging, streams, loops, snapshot, boots,
                 events, faults>>

HandlerReplies ==
  /\ Alive /\ handler = "checked" /\ store # "none"
  /\ handler' = "idle"
  /\ UNCHANGED <<pc, file, settings, schema, store, running, flushed, strategies, logging, streams, loops, snapshot, boots,
                 events, faults>>

HandlerOnNil == Alive /\ handler = "checked" /\ store = "none" /\ Panic

keptByStreams ==
  <<pc, file, settings, schema, store, running, flushed, strategies, logging, workers, boots, faults>>

\* The fan-out holds orderSubMu while it sends.
RegisterOrderSubscriber(k) ==
  /\ pc = "serving" /\ settings.grpc = "on" /\ running /\ sub[k] = "none" /\ pump # "sending"
  /\ sub' = [sub EXCEPT ![k] = "open"]
  /\ UNCHANGED <<keptByStreams, oms, updates, pump, serve, events>>

ClientLeaves(k) ==
  /\ Alive /\ sub[k] = "open"
  /\ sub' = [sub EXCEPT ![k] = "leaving"]
  /\ UNCHANGED <<keptByStreams, oms, updates, pump, serve, events>>

\* Mutant: the channel is closed before orderSubMu is taken.
UnregisterUnlocked(k) ==
  /\ Alive /\ sub[k] = "leaving"
  /\ sub' = [sub EXCEPT ![k] = "closed"]
  /\ UNCHANGED <<keptByStreams, oms, updates, pump, serve, events>>

Unregister(k) ==
  /\ Alive /\ sub[k] = "leaving" /\ pump # "sending"
  /\ sub' = [sub EXCEPT ![k] = "closed"]
  /\ UNCHANGED <<keptByStreams, oms, updates, pump, serve, events>>

OrderUpdate ==
  /\ Alive /\ oms = "running" /\ events + 2 <= MaxEvents
  /\ updates' = updates + 1
  /\ events' = events + 2
  /\ UNCHANGED <<keptByStreams, oms, pump, serve, sub>>

OmsEnds ==
  /\ Cancelled /\ oms = "running"
  /\ oms' = "ended"
  /\ UNCHANGED <<keptByStreams, updates, pump, serve, sub, events>>

\* orderFanoutLoop: take an update, serve the registered channels, or end.
FanOut ==
  /\ Alive
  /\ \/ /\ pump = "idle" /\ updates > 0
        /\ updates' = updates - 1
        /\ pump' = "sending"
        /\ serve' = {k \in Subscribers : sub[k] \in {"open", "leaving"}}
     \/ /\ pump = "sending" /\ serve # {}
        /\ \E k \in serve : serve' = serve \ {k}
        /\ UNCHANGED <<updates, pump>>
     \/ /\ pump = "sending" /\ serve = {}
        /\ pump' = "idle"
        /\ UNCHANGED <<updates, serve>>
     \/ /\ pump = "idle" /\ updates = 0 /\ oms = "closed"
        /\ pump' = "done"
        /\ UNCHANGED <<updates, serve>>
  /\ UNCHANGED <<keptByStreams, oms, sub, events>>

-----------------------------------------------------------------------------
(* ServeBlocking and Engine.Stop *)

\* A signal; GracefulStop waits for the handlers and streams.
Signal ==
  /\ pc = "serving"
  /\ Goto(IF settings.grpc = "on" THEN "draining" ELSE "stopMarkets")
  /\ UNCHANGED <<file, settings, schema, engine, boots, events, faults>>

\* The address is refused or in use, or Serve fails.
ServeFails ==
  /\ pc = "serving" /\ settings.grpc # "off"
  /\ Goto("stopMarkets")
  /\ UNCHANGED <<file, settings, schema, engine, boots, events, faults>>

\* All are done, or fifteen seconds are over and Stop cancels the rest.
Drained ==
  /\ pc = "draining"
  /\ sub' = [k \in Subscribers |-> IF sub[k] = "open" THEN "leaving" ELSE sub[k]]
  /\ Goto("stopMarkets")
  /\ UNCHANGED <<file, settings, schema, store, running, flushed, strategies, logging, oms, updates, pump, serve, workers,
                 boots, events, faults>>

StopMarkets ==
  /\ running' = FALSE
  /\ UNCHANGED <<store, flushed, strategies, logging, streams, workers>>

\* A process has stopped reading its stdin, whose pipe is full.  Until it is to be stopped that
\* only keeps answers from it, and the fewer answers the less it was told.
StopsReading(s) ==
  /\ pc = "stopStrategies" /\ proc[s] = "live"
  /\ proc' = [proc EXCEPT ![s] = "deaf"]
  /\ UNCHANGED <<pc, file, settings, schema, store, running, flushed, reader, rpc, states, logging, streams, workers, boots,
                 events, faults>>

\* StopAllStrategies, one after the other; a process that has two seconds may still call.  The
\* stop message, or an earlier one under sp.mu, waits for room in the pipe of a process that
\* does not read, and the kill behind it with it.
StopStrategy(s) ==
  /\ pc = "stopStrategies" /\ proc[s] = "live"
  /\ proc' = [proc EXCEPT ![s] = "dead"]
  /\ UNCHANGED <<pc, file, settings, schema, store, running, flushed, reader, rpc, states, logging, streams, workers, boots,
                 events, faults>>

StrategiesStopped ==
  /\ \A s \in Strategies : proc[s] \notin {"live", "deaf"}
  /\ UNCHANGED engine

\* flushStrategyStatesToStore ends with the first save that fails.
Flush ==
  /\ \E saved \in SUBSET Strategies :
       /\ saved # Strategies => faults < MaxFaults
       /\ record' = [s \in Strategies |-> IF s \in saved THEN memory[s] ELSE record[s]]
       /\ unsaved' = [s \in Strategies |-> s \notin saved /\ (unsaved[s] \/ acked[s] > record[s])]
       /\ overlapped' = [s \in Strategies |-> overlapped[s] /\ (s \notin saved \/ rpc[s] # {})]
       /\ flushed' = IF saved = Strategies THEN "all" ELSE "part"
  /\ UNCHANGED <<store, running, proc, reader, rpc, memory, acked, logging, streams, workers>>

CloseLog ==
  /\ logCh' = "closed"
  /\ UNCHANGED <<store, running, flushed, strategies, queued, writer, streams, workers>>

\* wg.Wait, and the projection's Stop.
Wait ==
  /\ \A s \in Strategies : ~reader[s]
  /\ writer = "done" /\ loops = {}
  /\ UNCHANGED engine

StopOms ==
  /\ oms = "ended" /\ oms' = "closed"
  /\ UNCHANGED <<store, running, flushed, strategies, logging, updates, pump, serve, sub, workers>>

CloseStore(left) ==
  /\ store' = left
  /\ UNCHANGED <<running, flushed, strategies, logging, streams, workers>>

StopStep ==
  /\ pc \in Stopping
  /\ CASE pc = "stopMarkets" -> StopMarkets
       [] pc = "stopStrategies" -> StrategiesStopped
       [] pc = "flush" -> Flush
       [] pc = "closeLog" -> CloseLog
       [] pc = "wait" -> Wait
       [] pc = "stopOms" -> StopOms
       [] pc = "waitPump" -> pump = "done" /\ UNCHANGED engine
       [] pc = "closeStore" -> CloseStore("closed")
       [] pc = "dropStore" -> CloseStore("none")
       [] OTHER -> UNCHANGED engine
  /\ Goto(StopOrder[Place(pc) + 1])
  /\ faults' = IF flushed' = "part" /\ flushed = "no" THEN faults + 1 ELSE faults
  /\ UNCHANGED <<file, settings, schema, boots, events>>

-----------------------------------------------------------------------------
(* The process *)

\* Everything in memory as NewEngine makes it.
Fresh ==
  /\ store = "none" /\ running = FALSE /\ flushed = "no"
  /\ proc = [s \in Strategies |-> "none"] /\ reader = [s \in Strategies |-> FALSE]
  /\ rpc = [s \in Strategies |-> {}] /\ memory = [s \in Strategies |-> 0]
  /\ logCh = "none" /\ queued = 0 /\ writer = "none"
  /\ loops = {} /\ snapshot = FALSE /\ handler = "idle"
  /\ oms = "none" /\ updates = 0 /\ pump = "none" /\ serve = {}
  /\ sub = [k \in Subscribers |-> "none"]

\* Nothing in memory outlives the process; what it was told last is what the store holds.
Gone ==
  /\ store' = "none" /\ running' = FALSE /\ flushed' = "no"
  /\ proc' = [s \in Strategies |-> "none"] /\ reader' = [s \in Strategies |-> FALSE]
  /\ rpc' = [s \in Strategies |-> {}] /\ memory' = [s \in Strategies |-> 0]
  /\ logCh' = "none" /\ queued' = 0 /\ writer' = "none"
  /\ loops' = {} /\ snapshot' = FALSE /\ handler' = "idle"
  /\ oms' = "none" /\ updates' = 0 /\ pump' = "none" /\ serve' = {}
  /\ sub' = [k \in Subscribers |-> "none"]
  /\ acked' = record
  /\ unsaved' = [s \in Strategies |-> FALSE] /\ overlapped' = [s \in Strategies |-> FALSE]
  /\ UNCHANGED record

Kill ==
  /\ Alive /\ pc # "config" /\ boots < MaxBoots
  /\ Goto("killed")
  /\ Gone
  /\ UNCHANGED <<file, settings, schema, boots, events, faults>>

\* The next start loads the same configuration.
Reboot ==
  /\ pc \in Ended \ {"refused"} /\ boots < MaxBoots
  /\ Goto("connect")
  /\ boots' = boots + 1
  /\ Gone
  /\ UNCHANGED <<file, settings, schema, events, faults>>

Init ==
  /\ pc = "config" /\ file \in Files
  /\ settings = [supported |-> TRUE, grpc |-> "off"]
  /\ schema = [version |-> 0, tables |-> {}]
  /\ Fresh
  /\ record = [s \in Strategies |-> 0] /\ acked = record
  /\ unsaved = [s \in Strategies |-> FALSE] /\ overlapped = [s \in Strategies |-> FALSE]
  /\ boots = 1 /\ events = 0 /\ faults = 0

Strategy(s) ==
  \/ SetState(s) \/ \E c \in rpc[s] : CheckStore(s, c) \/ SaveStrategyState(s, c) \/ SaveOnNil(c)
  \/ StopsReading(s) \/ EnqueueLog(s) \/ EnqueueOnClosed(s) \/ ReaderEnds(s)

Stream(k) == RegisterOrderSubscriber(k) \/ ClientLeaves(k) \/ Unregister(k)

Main ==
  \/ Start \/ Drained \/ StopStep
  \/ \E s \in Strategies : StopStrategy(s)

Next ==
  \/ Main \/ Signal \/ ServeFails
  \/ \E s \in Strategies : Strategy(s)
  \/ WriteLog
  \/ \E l \in Loops : LoopEnds(l)
  \/ PersistAccountSnapshot \/ SaveSnapshot \/ SaveSnapshotOnNil
  \/ HandlerChecks \/ HandlerReplies \/ HandlerOnNil
  \/ \E k \in Subscribers : Stream(k)
  \/ OrderUpdate \/ OmsEnds \/ FanOut
  \/ Kill \/ Reboot

Goroutine ==
  \/ WriteLog \/ OmsEnds \/ FanOut
  \/ \E s \in Strategies : ReaderEnds(s)
  \/ \E l \in Loops : LoopEnds(l)

\* main runs, and while goroutines can run one of them does; all of them end what they do.
Fairness == WF_vars(Main \/ Goroutine)

Spec == Init /\ [][Next]_vars
FairSpec == Spec /\ Fairness

-----------------------------------------------------------------------------
(* Safety *)

\* Whatever configuration Load accepts, the daemon can be built with it, the pauses between
\* restarts grow up to their limit, and every number in the file reaches the part it is
\* written for (Load, validate, New).
AcceptedConfigWorks == pc = "config" => Buildable(file) /\ PausesGrow(file) /\ WrittenIsUsed(file)

\* The newest state a strategy was told is set is on disk, or a newer one, unless the last save
\* of it failed; and after a shutdown whose flush saved everything it is on disk even then,
\* whether main returned or a goroutine that outlived Stop made the process panic.  Calls that
\* overlap may be saved in the other order: that is made good by the next call that is alone
\* when it is saved, and by a flush with no call under way (SetStrategyCustomState, Stop).  A
\* kill during a migration leaves no version whose tables are missing (initSchema).
AckedStateSurvives ==
  /\ \A s \in Strategies : ~overlapped[s] =>
       /\ acked[s] > record[s] => unsaved[s]
       /\ pc \in {"exited", "panicked"} /\ flushed # "part" => acked[s] <= record[s]
  /\ 1..schema.version \subseteq schema.tables

\* Everything that works together is there as long as it is needed: while the API accepts
\* calls, all that Start starts; while the fan-out sends to a subscriber, a channel that
\* unregistering has not closed; and when main returns from a started engine nothing is left
\* that Stop waits for, nor a log line or an order update in its channel
\* (requireRunning, orderFanoutLoop, RegisterOrderSubscriber, Stop).
WholeWhileNeeded ==
  /\ TypeOK
  /\ running =>
       /\ store = "open" /\ logCh = "open" /\ writer = "running"
       /\ oms = "running" /\ pump \in {"idle", "sending"}
       /\ Loops \ {"projection"} \subseteq loops
  /\ \A k \in serve : sub[k] # "closed"
  /\ pc = "exited" =>
       /\ queued = 0 /\ updates = 0 /\ loops = {}
       /\ writer = "done" /\ pump = "done"
       /\ \A s \in Strategies : ~reader[s] /\ proc[s] \notin {"live", "deaf"}

-----------------------------------------------------------------------------
(* Liveness *)

\* The shutdown ends, unless a strategy has stopped reading (Engine.Stop).
ShutdownEnds ==
  pc \in {"draining"} \cup Stopping ~> pc \in Ended \/ \E s \in Strategies : proc[s] = "deaf"
=============================================================================
