----------------------------- MODULE DaemonProofs -----------------------------
(***************************************************************************)
(* Proofs about Daemon: what a strategy was told is set survives kills and *)
(* shutdowns, what works together is there as long as it is needed, and    *)
(* the daemon can be built with every configuration Load accepts, for      *)
(* every set of files, strategies and subscribers and every bound.         *)
(***************************************************************************)
EXTENDS Daemon, FiniteSetTheorems, TLAPS

\* The states in which no strategy has been launched, or in which the process is gone.
Unlaunched == {"config", "connect", "open", "migrate", "assemble", "load", "reconcile", "refused", "failed", "killed"}
\* Between the fan-out's start and the cancellation of the engine's context.
Working == {"serving", "draining", "stopMarkets", "stopStrategies", "flush", "closeLog", "cancel"}
\* Behind a step of Stop; a goroutine that outlives it may have made the process panic.
AfterPump == {"closeStore", "dropStore", "return", "exited"}
AfterWait == {"stopOms", "waitPump"} \cup AfterPump
AfterLog == {"cancel", "wait", "panicked"} \cup AfterWait
AfterFlush == {"closeLog"} \cup AfterLog
Opened ==
  {"assemble", "load", "reconcile", "launch", "markets", "wait", "stopOms", "waitPump", "closeStore"} \cup Working

\* The file is there until it is loaded.
FileGiven == pc = "config" => file \in Files

\* The tables of a version are made before user_version says so.
Migrated ==
  /\ 1..schema.version \subseteq schema.tables
  /\ pc = "migrate" => schema.version < 2 /\ schema.version + 1 \in schema.tables

\* No queue is longer than the calls that have filled it.
Counted == events \in 0..MaxEvents /\ updates <= events

\* Before its strategies are launched the engine holds nothing it could lose.
Nothing ==
  pc \in Unlaunched =>
    /\ flushed = "no" /\ logCh = "none" /\ loops = {} /\ ~snapshot /\ handler = "idle"
    /\ \A s \in Strategies : ~reader[s] /\ rpc[s] = {} /\ acked[s] = record[s] /\ ~unsaved[s]

\* Before its workers start there is no OMS and no fan-out.
Silent == pc \in Unlaunched \cup {"launch", "markets"} => oms = "none" /\ pump = "none" /\ serve = {}

\* Where the store is open, the strategies live and the state has been flushed.
Staged ==
  /\ pc \in Opened => store = "open"
  /\ flushed # "no" <=> pc \in AfterFlush
  /\ logCh = "closed" => pc \in AfterLog
  /\ \A s \in Strategies :
       proc[s] \in {"live", "deaf"} => pc \in {"markets", "serving", "draining", "stopMarkets", "stopStrategies"}

\* The memory is never behind what was told or is about to be, and a call under way that no
\* other has overlapped carries what is in memory.
Ahead ==
  pc \notin Unlaunched =>
    \A s \in Strategies :
      /\ acked[s] <= memory[s]
      /\ \A c \in rpc[s] : c.value <= memory[s]
      /\ ~overlapped[s] => \A c, d \in rpc[s] : c = d /\ c.value = memory[s]

\* Unless calls have overlapped, what was told and is not on disk could not be saved, and
\* there is none of it after a flush that saved everything.
Durable ==
  \A s \in Strategies : ~overlapped[s] =>
    /\ acked[s] > record[s] => unsaved[s]
    /\ flushed = "all" => acked[s] <= record[s]

\* The workers run until they are told to end, and end with nothing left to do.
Manned ==
  /\ running => pc \in {"serving", "draining", "stopMarkets"}
  /\ pc \in (Working \ {"cancel"}) \cup {"launch", "markets"} => logCh = "open"
  /\ logCh = "open" => writer = "running"
  /\ writer = "done" => logCh = "closed" /\ queued = 0
  /\ pc \in Working => oms = "running" /\ pump # "none" /\ Loops \ {"projection"} \subseteq loops
  /\ pump = "done" => oms = "closed" /\ updates = 0

\* The fan-out serves while it holds the lock, and only channels that are not closed.
Locked ==
  /\ serve # {} => pump = "sending"
  /\ \A k \in serve : sub[k] # "closed"

\* What Stop has waited for is over.
Over ==
  /\ pc \in AfterWait => writer = "done" /\ loops = {} /\ \A s \in Strategies : ~reader[s]
  /\ pc \in AfterPump => pump = "done"

IInv ==
  /\ TypeOK /\ FileGiven /\ Migrated /\ Counted /\ Nothing /\ Silent
  /\ Staged /\ Ahead /\ Durable /\ Manned /\ Locked /\ Over

-----------------------------------------------------------------------------
(* Constants and operators *)

LEMMA Bounds ==
  /\ Files \subseteq File /\ LogCap \in Nat /\ LogCap # 0 /\ MaxBoots \in Nat
  /\ MaxSets \in Nat /\ MaxEvents \in Nat /\ MaxFaults \in Nat
BY DaemonAssumption

\* The larger and the smaller of two numbers.
LEMMA MaxOfTwo ==
  ASSUME NEW a \in Int, NEW b \in Int
  PROVE  Max({a, b}) \in {a, b} /\ Max({a, b}) \in Int /\ Max({a, b}) >= a /\ Max({a, b}) >= b
<1>1. \E x \in {a, b} : \A y \in {a, b} : x >= y
  OBVIOUS
<1>2. Max({a, b}) \in {a, b} /\ \A y \in {a, b} : Max({a, b}) >= y
  BY <1>1, Zenon DEF Max
<1> QED
  BY <1>2

LEMMA MinOfTwo ==
  ASSUME NEW a \in Int, NEW b \in Int
  PROVE  Min({a, b}) \in {a, b} /\ Min({a, b}) <= a /\ Min({a, b}) <= b
<1>1. \E x \in {a, b} : \A y \in {a, b} : x =< y
  OBVIOUS
<1>2. Min({a, b}) \in {a, b} /\ \A y \in {a, b} : Min({a, b}) =< y
  BY <1>1, Zenon DEF Min
<1> QED
  BY <1>2

\* The steps of Stop have the places they are written at.
LEMMA Places ==
  /\ Len(StopOrder) = 12
  /\ Place("stopMarkets") = 1 /\ Place("stopStrategies") = 2 /\ Place("flush") = 3 /\ Place("closeLog") = 4
  /\ Place("cancel") = 5 /\ Place("wait") = 6 /\ Place("stopOms") = 7 /\ Place("waitPump") = 8
  /\ Place("closeStore") = 9 /\ Place("dropStore") = 10 /\ Place("return") = 11
<1>1. /\ Len(StopOrder) = 12
      /\ StopOrder[1] = "stopMarkets" /\ StopOrder[2] = "stopStrategies" /\ StopOrder[3] = "flush"
      /\ StopOrder[4] = "closeLog" /\ StopOrder[5] = "cancel" /\ StopOrder[6] = "wait"
      /\ StopOrder[7] = "stopOms" /\ StopOrder[8] = "waitPump" /\ StopOrder[9] = "closeStore"
      /\ StopOrder[10] = "dropStore" /\ StopOrder[11] = "return" /\ StopOrder[12] = "exited"
  BY DEF StopOrder
<1>2. \A i \in 1..12 : i \in {1, 2, 3, 4, 5, 6, 7, 8, 9, 10, 11, 12}
  OBVIOUS
<1>3. \A i, j \in 1..12 : StopOrder[i] = StopOrder[j] => i = j
  BY <1>1, <1>2
<1>4. ASSUME NEW i \in 1..12
      PROVE  Place(StopOrder[i]) = i
  <2>1. Place(StopOrder[i]) \in 1..12 /\ StopOrder[Place(StopOrder[i])] = StopOrder[i]
    BY <1>1, Zenon DEF Place
  <2> QED
    BY <2>1, <1>3
<1> QED
  BY <1>1, <1>4

\* The states of Stop, and those behind the cancellation.
LEMMA StopStates ==
  /\ Stopping = {"stopMarkets", "stopStrategies", "flush", "closeLog", "cancel", "wait", "stopOms", "waitPump",
                 "closeStore", "dropStore", "return"}
  /\ Cancelled => pc \in {"wait", "stopOms", "waitPump", "closeStore", "dropStore", "return"}
<1>1. Len(StopOrder) - 1 = 11
  BY Places
<1>2. \A i \in 1..11 : i \in {1, 2, 3, 4, 5, 6, 7, 8, 9, 10, 11}
  OBVIOUS
<1>3. Stopping = {"stopMarkets", "stopStrategies", "flush", "closeLog", "cancel", "wait", "stopOms", "waitPump",
                  "closeStore", "dropStore", "return"}
  BY <1>1, <1>2 DEF Stopping, StopOrder
<1>4. Cancelled => pc \in {"wait", "stopOms", "waitPump", "closeStore", "dropStore", "return"}
  <2> SUFFICES ASSUME Cancelled
               PROVE  pc \in {"wait", "stopOms", "waitPump", "closeStore", "dropStore", "return"}
    OBVIOUS
  <2>1. pc \in Stopping /\ Place(pc) > 5
    BY Places DEF Cancelled
  <2> QED
    BY <2>1, <1>3, Places
<1> QED
  BY <1>3, <1>4

-----------------------------------------------------------------------------
(* The steps *)

\* Parts of the engine a step leaves alone.
StatesKept ==
  memory' = memory /\ record' = record /\ acked' = acked /\ unsaved' = unsaved /\ overlapped' = overlapped
StrategiesKept == proc' = proc /\ reader' = reader /\ rpc' = rpc /\ StatesKept
LoggingKept == logCh' = logCh /\ queued' = queued /\ writer' = writer
StreamsKept == oms' = oms /\ updates' = updates /\ pump' = pump /\ serve' = serve /\ sub' = sub
WorkersKept == loops' = loops /\ snapshot' = snapshot /\ handler' = handler
EngineKept ==
  /\ store' = store /\ running' = running /\ flushed' = flushed
  /\ StrategiesKept /\ LoggingKept /\ StreamsKept /\ WorkersKept
Outside == file' = file /\ settings' = settings /\ schema' = schema

LEMMA Kept ==
  /\ UNCHANGED states => StatesKept
  /\ UNCHANGED strategies => StrategiesKept
  /\ UNCHANGED logging => LoggingKept
  /\ UNCHANGED streams => StreamsKept
  /\ UNCHANGED workers => WorkersKept
  /\ UNCHANGED engine => EngineKept
  /\ UNCHANGED vars => pc' = pc /\ Outside /\ EngineKept /\ events' = events
<1>1. /\ UNCHANGED states => StatesKept
      /\ UNCHANGED logging => LoggingKept
      /\ UNCHANGED streams => StreamsKept
      /\ UNCHANGED workers => WorkersKept
  BY Zenon DEF states, logging, streams, workers, StatesKept, LoggingKept, StreamsKept, WorkersKept
<1>2. UNCHANGED strategies => StrategiesKept
  BY <1>1, Zenon DEF strategies, StrategiesKept
<1>3. UNCHANGED engine => EngineKept
  BY <1>1, <1>2, Zenon DEF engine, EngineKept
<1>4. UNCHANGED vars => pc' = pc /\ Outside /\ EngineKept /\ events' = events
  BY <1>3, Zenon DEF vars, Outside
<1> QED
  BY <1>1, <1>2, <1>3, <1>4, Zenon

\* A panic, and what it takes.
Panics ==
  /\ Alive /\ pc' = "panicked" /\ Outside /\ EngineKept /\ events' = events
  /\ \/ store = "none" /\ \E s \in Strategies : \E c \in rpc[s] : c.at = "saving"
     \/ logCh = "closed"
     \/ store = "none" /\ (snapshot \/ handler = "checked")

\* One step of Stop.
StopsAt(at, next) == pc = at /\ pc' = next /\ Outside /\ events' = events

Stops ==
  \/ StopsAt("stopMarkets", "stopStrategies") /\ StopMarkets
  \/ StopsAt("stopStrategies", "flush") /\ StrategiesStopped
  \/ StopsAt("flush", "closeLog") /\ Flush
  \/ StopsAt("closeLog", "cancel") /\ CloseLog
  \/ StopsAt("cancel", "wait") /\ UNCHANGED engine
  \/ StopsAt("wait", "stopOms") /\ Wait
  \/ StopsAt("stopOms", "waitPump") /\ StopOms
  \/ StopsAt("waitPump", "closeStore") /\ pump = "done" /\ UNCHANGED engine
  \/ StopsAt("closeStore", "dropStore") /\ CloseStore("closed")
  \/ StopsAt("dropStore", "return") /\ CloseStore("none")
  \/ StopsAt("return", "exited") /\ UNCHANGED engine

LEMMA StopSteps == StopStep => Stops
<1> SUFFICES ASSUME StopStep
             PROVE  Stops
  OBVIOUS
<1>1. Outside /\ events' = events /\ pc \in Stopping /\ pc' = StopOrder[Place(pc) + 1]
  BY Zenon DEF StopStep, Outside, Goto
<1>2. CASE pc = "stopMarkets"
  <2>1. pc' = "stopStrategies"
    BY <1>1, <1>2, Places DEF StopOrder
  <2>2. StopMarkets
    BY <1>2 DEF StopStep
  <2> QED
    BY <1>1, <1>2, <2>1, <2>2, Zenon DEF Stops, StopsAt
<1>3. CASE pc = "stopStrategies"
  <2>1. pc' = "flush"
    BY <1>1, <1>3, Places DEF StopOrder
  <2>2. StrategiesStopped
    BY <1>3 DEF StopStep
  <2> QED
    BY <1>1, <1>3, <2>1, <2>2, Zenon DEF Stops, StopsAt
<1>4. CASE pc = "flush"
  <2>1. pc' = "closeLog"
    BY <1>1, <1>4, Places DEF StopOrder
  <2>2. Flush
    BY <1>4 DEF StopStep
  <2> QED
    BY <1>1, <1>4, <2>1, <2>2, Zenon DEF Stops, StopsAt
<1>5. CASE pc = "closeLog"
  <2>1. pc' = "cancel"
    BY <1>1, <1>5, Places DEF StopOrder
  <2>2. CloseLog
    BY <1>5 DEF StopStep
  <2> QED
    BY <1>1, <1>5, <2>1, <2>2, Zenon DEF Stops, StopsAt
<1>6. CASE pc = "cancel"
  <2>1. pc' = "wait"
    BY <1>1, <1>6, Places DEF StopOrder
  <2>2. UNCHANGED engine
    BY <1>6 DEF StopStep
  <2> QED
    BY <1>1, <1>6, <2>1, <2>2, Zenon DEF Stops, StopsAt
<1>7. CASE pc = "wait"
  <2>1. pc' = "stopOms"
    BY <1>1, <1>7, Places DEF StopOrder
  <2>2. Wait
    BY <1>7 DEF StopStep
  <2> QED
    BY <1>1, <1>7, <2>1, <2>2, Zenon DEF Stops, StopsAt
<1>8. CASE pc = "stopOms"
  <2>1. pc' = "waitPump"
    BY <1>1, <1>8, Places DEF StopOrder
  <2>2. StopOms
    BY <1>8 DEF StopStep
  <2> QED
    BY <1>1, <1>8, <2>1, <2>2, Zenon DEF Stops, StopsAt
<1>9. CASE pc = "waitPump"
  <2>1. pc' = "closeStore"
    BY <1>1, <1>9, Places DEF StopOrder
  <2>2. pump = "done" /\ UNCHANGED engine
    BY <1>9 DEF StopStep
  <2> QED
    BY <1>1, <1>9, <2>1, <2>2, Zenon DEF Stops, StopsAt
<1>10. CASE pc = "closeStore"
  <2>1. pc' = "dropStore"
    BY <1>1, <1>10, Places DEF StopOrder
  <2>2. CloseStore("closed")
    BY <1>10 DEF StopStep
  <2> QED
    BY <1>1, <1>10, <2>1, <2>2, Zenon DEF Stops, StopsAt
<1>11. CASE pc = "dropStore"
  <2>1. pc' = "return"
    BY <1>1, <1>11, Places DEF StopOrder
  <2>2. CloseStore("none")
    BY <1>11 DEF StopStep
  <2> QED
    BY <1>1, <1>11, <2>1, <2>2, Zenon DEF Stops, StopsAt
<1>12. CASE pc = "return"
  <2>1. pc' = "exited"
    BY <1>1, <1>12, Places DEF StopOrder
  <2>2. UNCHANGED engine
    BY <1>12 DEF StopStep
  <2> QED
    BY <1>1, <1>12, <2>1, <2>2, Zenon DEF Stops, StopsAt
<1> QED
  BY <1>1, <1>2, <1>3, <1>4, <1>5, <1>6, <1>7, <1>8, <1>9, <1>10, <1>11, <1>12, StopStates

LEMMA PanicSteps ==
  /\ \A s \in Strategies : EnqueueOnClosed(s) \/ (\E c \in rpc[s] : SaveOnNil(c)) => Panics
  /\ SaveSnapshotOnNil \/ HandlerOnNil => Panics
<1>1. Panic => pc' = "panicked" /\ Outside /\ EngineKept /\ events' = events
  BY Kept, Zenon DEF Panic, Goto, Outside
<1> QED
  BY <1>1, Zenon DEF SaveOnNil, EnqueueOnClosed, SaveSnapshotOnNil, HandlerOnNil, Panics

\* The end of the process, and its next start.
Dies == Gone /\ pc' \in {"killed", "connect"} /\ pc # "config" /\ Outside /\ events' = events

\* A step of a call under way that does not panic.
Calls(s) == \E c \in rpc[s] : CheckStore(s, c) \/ SaveStrategyState(s, c)

LEMMA StepKinds ==
  ASSUME [Next]_vars
  PROVE  \/ LoadConfig \/ Connect \/ MigrateTables \/ MigrateVersion \/ Open \/ Assemble \/ LoadStrategies
         \/ Reconcile \/ LaunchStrategies \/ StartWorkers \/ Signal \/ ServeFails \/ Drained \/ Stops
         \/ \E s \in Strategies : \/ StopStrategy(s) \/ StopsReading(s) \/ SetState(s) \/ Calls(s)
                                  \/ EnqueueLog(s) \/ ReaderEnds(s)
         \/ WriteLog
         \/ \E l \in Loops : LoopEnds(l)
         \/ PersistAccountSnapshot \/ SaveSnapshot \/ HandlerChecks \/ HandlerReplies
         \/ \E k \in Subscribers : RegisterOrderSubscriber(k) \/ ClientLeaves(k) \/ Unregister(k)
         \/ OrderUpdate \/ OmsEnds \/ FanOut
         \/ Panics \/ Dies \/ UNCHANGED vars
<1>1. Kill \/ Reboot => Dies
  <2>1. Kill => Dies
    BY Zenon DEF Kill, Dies, Goto, Outside
  <2>2. Reboot => pc # "config"
    BY DEF Reboot, Ended
  <2>3. Reboot => Dies
    BY <2>2, Zenon DEF Reboot, Dies, Goto, Outside
  <2> QED
    BY <2>1, <2>3, Zenon
<1> QED
  BY <1>1, StopSteps, PanicSteps, Zenon DEF Next, Main, Start, Strategy, Stream, Calls

\* What the steps of main before it serves leave alone.
LEMMA StartFrames ==
  /\ LoadConfig => schema' = schema /\ EngineKept /\ events' = events
  /\ Connect \/ Assemble \/ LoadStrategies \/ Signal \/ ServeFails => Outside /\ EngineKept /\ events' = events
  /\ MigrateTables \/ MigrateVersion => file' = file /\ settings' = settings /\ EngineKept /\ events' = events
  /\ Open => Outside /\ running' = running /\ flushed' = flushed /\ StrategiesKept /\ LoggingKept /\ StreamsKept
             /\ WorkersKept /\ events' = events
  /\ Reconcile => Outside /\ store' = store /\ running' = running /\ flushed' = flushed /\ proc' = proc
                  /\ reader' = reader /\ rpc' = rpc /\ record' = record /\ acked' = acked /\ unsaved' = unsaved
                  /\ overlapped' = overlapped /\ StreamsKept /\ snapshot' = snapshot /\ handler' = handler /\ events' = events
  /\ LaunchStrategies => Outside /\ store' = store /\ running' = running /\ flushed' = flushed /\ rpc' = rpc
                         /\ StatesKept /\ LoggingKept /\ StreamsKept /\ WorkersKept /\ events' = events
  /\ StartWorkers => Outside /\ store' = store /\ flushed' = flushed /\ StrategiesKept /\ LoggingKept
                     /\ updates' = updates /\ serve' = serve /\ sub' = sub /\ snapshot' = snapshot
                     /\ handler' = handler /\ events' = events
  /\ Drained => Outside /\ store' = store /\ running' = running /\ flushed' = flushed /\ StrategiesKept
                /\ LoggingKept /\ oms' = oms /\ updates' = updates /\ pump' = pump /\ serve' = serve /\ WorkersKept
                /\ events' = events
<1>1. /\ LoadConfig => schema' = schema /\ EngineKept /\ events' = events
      /\ MigrateTables \/ MigrateVersion => file' = file /\ settings' = settings /\ EngineKept /\ events' = events
  BY Kept, Zenon DEF LoadConfig, MigrateTables, MigrateVersion
<1>2. Connect \/ Assemble \/ LoadStrategies \/ Signal \/ ServeFails => Outside /\ EngineKept /\ events' = events
  BY Kept, Zenon DEF Connect, Assemble, LoadStrategies, Signal, ServeFails, Outside
<1>3. /\ Open => Outside /\ running' = running /\ flushed' = flushed /\ StrategiesKept /\ LoggingKept /\ StreamsKept
                 /\ WorkersKept /\ events' = events
      /\ Reconcile => Outside /\ store' = store /\ running' = running /\ flushed' = flushed /\ proc' = proc
                      /\ reader' = reader /\ rpc' = rpc /\ record' = record /\ acked' = acked /\ unsaved' = unsaved
                      /\ overlapped' = overlapped /\ StreamsKept /\ snapshot' = snapshot /\ handler' = handler /\ events' = events
  BY Kept, Zenon DEF Open, Reconcile, Outside
<1>4. LaunchStrategies => Outside /\ store' = store /\ running' = running /\ flushed' = flushed /\ rpc' = rpc
                          /\ StatesKept /\ LoggingKept /\ StreamsKept /\ WorkersKept /\ events' = events
  BY Kept, Zenon DEF LaunchStrategies, Outside
<1>5. StartWorkers => Outside /\ store' = store /\ flushed' = flushed /\ StrategiesKept /\ LoggingKept
                      /\ updates' = updates /\ serve' = serve /\ sub' = sub /\ snapshot' = snapshot
                      /\ handler' = handler /\ events' = events
  BY Kept, Zenon DEF StartWorkers, Outside
<1>6. Drained => Outside /\ store' = store /\ running' = running /\ flushed' = flushed /\ StrategiesKept
                 /\ LoggingKept /\ oms' = oms /\ updates' = updates /\ pump' = pump /\ serve' = serve /\ WorkersKept
                 /\ events' = events
  BY Kept, Zenon DEF Drained, Outside
<1> QED
  BY <1>1, <1>2, <1>3, <1>4, <1>5, <1>6, Zenon

\* What the steps of Stop leave alone.
LEMMA StopFrames ==
  ASSUME Stops
  PROVE  /\ Outside /\ events' = events
         /\ proc' = proc /\ reader' = reader /\ rpc' = rpc /\ memory' = memory /\ acked' = acked
         /\ queued' = queued /\ writer' = writer /\ WorkersKept
         /\ updates' = updates /\ pump' = pump /\ serve' = serve /\ sub' = sub
         /\ store' = store \/ (pc = "closeStore" /\ store' = "closed") \/ (pc = "dropStore" /\ store' = "none")
         /\ running' = running \/ (pc = "stopMarkets" /\ running' = FALSE)
         /\ \/ flushed' = flushed /\ record' = record /\ unsaved' = unsaved /\ overlapped' = overlapped
            \/ StopsAt("flush", "closeLog") /\ Flush
         /\ logCh' = logCh \/ (pc = "closeLog" /\ logCh' = "closed")
         /\ oms' = oms \/ (pc = "stopOms" /\ oms' = "closed")
<1> USE DEF StopsAt, EngineKept, StrategiesKept, StatesKept, LoggingKept, StreamsKept
<1>1. UNCHANGED engine => EngineKept
  BY Kept, Zenon
<1>2. /\ UNCHANGED strategies => StrategiesKept
      /\ UNCHANGED logging => LoggingKept
      /\ UNCHANGED streams => StreamsKept
      /\ UNCHANGED workers => WorkersKept
  BY Kept, Zenon
<1>3. CASE StopsAt("stopMarkets", "stopStrategies") /\ StopMarkets
  BY <1>2, <1>3, Zenon DEF StopMarkets
<1>4. CASE StopsAt("stopStrategies", "flush") /\ StrategiesStopped
  BY <1>1, <1>4, Zenon DEF StrategiesStopped
<1>5. CASE StopsAt("flush", "closeLog") /\ Flush
  BY <1>2, <1>5, Zenon DEF Flush
<1>6. CASE StopsAt("closeLog", "cancel") /\ CloseLog
  BY <1>2, <1>6, Zenon DEF CloseLog
<1>7. CASE \/ StopsAt("cancel", "wait") /\ UNCHANGED engine
           \/ StopsAt("waitPump", "closeStore") /\ pump = "done" /\ UNCHANGED engine
           \/ StopsAt("return", "exited") /\ UNCHANGED engine
  BY <1>1, <1>7, Zenon
<1>8. CASE StopsAt("wait", "stopOms") /\ Wait
  BY <1>1, <1>8, Zenon DEF Wait
<1>9. CASE StopsAt("stopOms", "waitPump") /\ StopOms
  BY <1>2, <1>9, Zenon DEF StopOms
<1>10. CASE \/ StopsAt("closeStore", "dropStore") /\ CloseStore("closed")
            \/ StopsAt("dropStore", "return") /\ CloseStore("none")
  BY <1>2, <1>10, Zenon DEF CloseStore
<1> QED
  BY <1>3, <1>4, <1>5, <1>6, <1>7, <1>8, <1>9, <1>10, Zenon DEF Stops

\* What the steps of a strategy leave alone.
LEMMA StrategyFrames ==
  ASSUME NEW s \in Strategies
  PROVE  /\ \/ StopStrategy(s) \/ StopsReading(s) \/ SetState(s) \/ Calls(s) \/ EnqueueLog(s) \/ ReaderEnds(s)
            => /\ pc' = pc /\ Outside /\ store' = store /\ running' = running /\ flushed' = flushed
               /\ logCh' = logCh /\ writer' = writer /\ StreamsKept /\ WorkersKept
         /\ StopStrategy(s) \/ StopsReading(s)
              => reader' = reader /\ rpc' = rpc /\ StatesKept /\ queued' = queued /\ events' = events
         /\ SetState(s) => proc' = proc /\ reader' = reader /\ record' = record /\ acked' = acked
                           /\ unsaved' = unsaved /\ queued' = queued
         /\ Calls(s) => proc' = proc /\ reader' = reader /\ memory' = memory /\ queued' = queued /\ events' = events
         /\ EnqueueLog(s) => StrategiesKept
         /\ ReaderEnds(s) => proc' = proc /\ rpc' = rpc /\ StatesKept /\ queued' = queued /\ events' = events
<1> USE DEF Outside, StrategiesKept, LoggingKept
<1>1. StopStrategy(s) \/ StopsReading(s)
        => /\ pc' = pc /\ Outside /\ store' = store /\ running' = running /\ flushed' = flushed
           /\ LoggingKept /\ StreamsKept /\ WorkersKept
           /\ reader' = reader /\ rpc' = rpc /\ StatesKept /\ events' = events
  BY Kept, Zenon DEF StopStrategy, StopsReading
<1>2. UNCHANGED keptByCalls => /\ pc' = pc /\ Outside /\ store' = store /\ running' = running /\ flushed' = flushed
                               /\ LoggingKept /\ StreamsKept /\ WorkersKept /\ proc' = proc /\ reader' = reader
  BY Kept, Zenon DEF keptByCalls
<1>3. SetState(s) => UNCHANGED keptByCalls /\ record' = record /\ acked' = acked /\ unsaved' = unsaved
  BY Zenon DEF SetState
<1>4. Calls(s) => UNCHANGED keptByCalls /\ memory' = memory /\ events' = events
  BY Zenon DEF Calls, CheckStore, SaveStrategyState
<1>5. EnqueueLog(s) => /\ pc' = pc /\ Outside /\ store' = store /\ running' = running /\ flushed' = flushed
                       /\ logCh' = logCh /\ writer' = writer /\ StreamsKept /\ WorkersKept /\ StrategiesKept
  BY Kept, Zenon DEF EnqueueLog
<1>6. ReaderEnds(s) => /\ pc' = pc /\ Outside /\ store' = store /\ running' = running /\ flushed' = flushed
                       /\ LoggingKept /\ StreamsKept /\ WorkersKept
                       /\ proc' = proc /\ rpc' = rpc /\ StatesKept /\ events' = events
  BY Kept, Zenon DEF ReaderEnds
<1> QED
  BY <1>1, <1>2, <1>3, <1>4, <1>5, <1>6, Zenon

\* What the workers, the handlers and the streams leave alone.
LEMMA WorkFrames ==
  /\ WriteLog => /\ pc' = pc /\ Outside /\ store' = store /\ running' = running /\ flushed' = flushed
                 /\ StrategiesKept /\ logCh' = logCh /\ StreamsKept /\ WorkersKept /\ events' = events
  /\ \A l \in Loops : LoopEnds(l) =>
       /\ pc' = pc /\ Outside /\ store' = store /\ running' = running /\ flushed' = flushed
       /\ StrategiesKept /\ LoggingKept /\ StreamsKept /\ snapshot' = snapshot /\ handler' = handler
       /\ events' = events
  /\ PersistAccountSnapshot \/ SaveSnapshot =>
       /\ pc' = pc /\ Outside /\ store' = store /\ running' = running /\ flushed' = flushed
       /\ StrategiesKept /\ LoggingKept /\ StreamsKept /\ loops' = loops /\ handler' = handler /\ events' = events
  /\ HandlerChecks \/ HandlerReplies =>
       /\ pc' = pc /\ Outside /\ store' = store /\ running' = running /\ flushed' = flushed
       /\ StrategiesKept /\ LoggingKept /\ StreamsKept /\ loops' = loops /\ snapshot' = snapshot
       /\ events' = events
  /\ \A k \in Subscribers : RegisterOrderSubscriber(k) \/ ClientLeaves(k) \/ Unregister(k) =>
       /\ pc' = pc /\ Outside /\ store' = store /\ running' = running /\ flushed' = flushed
       /\ StrategiesKept /\ LoggingKept /\ WorkersKept
       /\ oms' = oms /\ updates' = updates /\ pump' = pump /\ serve' = serve /\ events' = events
  /\ OrderUpdate \/ OmsEnds \/ FanOut =>
       /\ pc' = pc /\ Outside /\ store' = store /\ running' = running /\ flushed' = flushed
       /\ StrategiesKept /\ LoggingKept /\ WorkersKept /\ sub' = sub
  /\ OrderUpdate => oms' = oms /\ pump' = pump /\ serve' = serve
  /\ OmsEnds => updates' = updates /\ pump' = pump /\ serve' = serve /\ events' = events
  /\ FanOut => oms' = oms /\ events' = events
<1> USE DEF Outside
<1>1. WriteLog => /\ pc' = pc /\ Outside /\ store' = store /\ running' = running /\ flushed' = flushed
                  /\ StrategiesKept /\ logCh' = logCh /\ StreamsKept /\ WorkersKept /\ events' = events
  BY Kept, Zenon DEF WriteLog
<1>2. ASSUME NEW l \in Loops, LoopEnds(l)
      PROVE  /\ pc' = pc /\ Outside /\ store' = store /\ running' = running /\ flushed' = flushed
             /\ StrategiesKept /\ LoggingKept /\ StreamsKept /\ snapshot' = snapshot /\ handler' = handler
             /\ events' = events
  BY <1>2, Kept, Zenon DEF LoopEnds
<1>3. PersistAccountSnapshot \/ SaveSnapshot =>
        /\ pc' = pc /\ Outside /\ store' = store /\ running' = running /\ flushed' = flushed
        /\ StrategiesKept /\ LoggingKept /\ StreamsKept /\ loops' = loops /\ handler' = handler /\ events' = events
  BY Kept, Zenon DEF PersistAccountSnapshot, SaveSnapshot
<1>4. HandlerChecks \/ HandlerReplies =>
        /\ pc' = pc /\ Outside /\ store' = store /\ running' = running /\ flushed' = flushed
        /\ StrategiesKept /\ LoggingKept /\ StreamsKept /\ loops' = loops /\ snapshot' = snapshot
        /\ events' = events
  BY Kept, Zenon DEF HandlerChecks, HandlerReplies
<1>5. UNCHANGED keptByStreams =>
        /\ pc' = pc /\ Outside /\ store' = store /\ running' = running /\ flushed' = flushed
        /\ StrategiesKept /\ LoggingKept /\ WorkersKept
  BY Kept, Zenon DEF keptByStreams
<1>6. ASSUME NEW k \in Subscribers, RegisterOrderSubscriber(k) \/ ClientLeaves(k) \/ Unregister(k)
      PROVE  /\ UNCHANGED keptByStreams
             /\ oms' = oms /\ updates' = updates /\ pump' = pump /\ serve' = serve /\ events' = events
  BY <1>6, Zenon DEF RegisterOrderSubscriber, ClientLeaves, Unregister
<1>7. /\ OrderUpdate \/ OmsEnds \/ FanOut => UNCHANGED keptByStreams /\ sub' = sub
      /\ OrderUpdate => oms' = oms /\ pump' = pump /\ serve' = serve
      /\ OmsEnds => updates' = updates /\ pump' = pump /\ serve' = serve /\ events' = events
      /\ FanOut => oms' = oms /\ events' = events
  BY Zenon DEF OrderUpdate, OmsEnds, FanOut
<1> QED
  BY <1>1, <1>2, <1>3, <1>4, <1>5, <1>6, <1>7, Zenon

\* For each variable the steps that change it.
Moves ==
  /\ \/ pc' = pc
     \/ LoadConfig \/ Connect \/ MigrateTables \/ MigrateVersion \/ Open \/ Assemble \/ LoadStrategies
     \/ Reconcile \/ LaunchStrategies \/ StartWorkers \/ Signal \/ ServeFails \/ Drained \/ Stops \/ Panics \/ Dies
  /\ (file' = file /\ settings' = settings) \/ LoadConfig
  /\ schema' = schema \/ MigrateTables \/ MigrateVersion
  /\ store' = store \/ Open \/ Stops \/ Dies
  /\ running' = running \/ StartWorkers \/ Stops \/ Dies
  /\ flushed' = flushed \/ Stops \/ Dies
  /\ proc' = proc \/ LaunchStrategies \/ Dies \/ \E s \in Strategies : StopStrategy(s) \/ StopsReading(s)
  /\ reader' = reader \/ LaunchStrategies \/ Dies \/ \E s \in Strategies : ReaderEnds(s)
  /\ \/ rpc' = rpc /\ memory' = memory
     \/ Reconcile \/ Dies \/ \E s \in Strategies : SetState(s) \/ Calls(s)
  /\ \/ acked' = acked /\ record' = record /\ unsaved' = unsaved
     \/ Stops \/ Dies \/ \E s \in Strategies : Calls(s)
  /\ \/ overlapped' = overlapped
     \/ Stops \/ Dies \/ \E s \in Strategies : SetState(s) \/ Calls(s)
  /\ logCh' = logCh \/ Reconcile \/ Stops \/ Dies
  /\ queued' = queued \/ Reconcile \/ WriteLog \/ Dies \/ \E s \in Strategies : EnqueueLog(s)
  /\ writer' = writer \/ Reconcile \/ WriteLog \/ Dies
  /\ loops' = loops \/ Reconcile \/ StartWorkers \/ Dies \/ \E l \in Loops : LoopEnds(l)
  /\ snapshot' = snapshot \/ PersistAccountSnapshot \/ SaveSnapshot \/ Dies
  /\ handler' = handler \/ HandlerChecks \/ HandlerReplies \/ Dies
  /\ oms' = oms \/ StartWorkers \/ OmsEnds \/ Stops \/ Dies
  /\ updates' = updates \/ OrderUpdate \/ FanOut \/ Dies
  /\ (pump' = pump /\ serve' = serve) \/ StartWorkers \/ FanOut \/ Dies
  /\ \/ sub' = sub
     \/ Drained \/ Dies \/ \E k \in Subscribers : RegisterOrderSubscriber(k) \/ ClientLeaves(k) \/ Unregister(k)
  /\ events' = events \/ OrderUpdate \/ \E s \in Strategies : SetState(s) \/ EnqueueLog(s)

LEMMA StepMoves == [Next]_vars => Moves
<1> SUFFICES ASSUME [Next]_vars
             PROVE  Moves
  OBVIOUS
<1> USE DEF Outside, EngineKept, StrategiesKept, StatesKept, LoggingKept, StreamsKept, WorkersKept
<1>1. ASSUME LoadConfig \/ Connect \/ MigrateTables \/ MigrateVersion \/ Open \/ Assemble \/ LoadStrategies
      PROVE  Moves
  BY <1>1, StartFrames, Zenon DEF Moves
<1>2. ASSUME Reconcile \/ LaunchStrategies \/ StartWorkers \/ Signal \/ ServeFails \/ Drained
      PROVE  Moves
  BY <1>2, StartFrames, Zenon DEF Moves
<1>3. ASSUME Stops
      PROVE  Moves
  BY <1>3, StopFrames, Zenon DEF Moves
<1>4. ASSUME NEW s \in Strategies,
             StopStrategy(s) \/ StopsReading(s) \/ SetState(s) \/ Calls(s) \/ EnqueueLog(s) \/ ReaderEnds(s)
      PROVE  Moves
  BY <1>4, StrategyFrames, Zenon DEF Moves
<1>5. ASSUME WriteLog \/ PersistAccountSnapshot \/ SaveSnapshot \/ HandlerChecks \/ HandlerReplies
      PROVE  Moves
  BY <1>5, WorkFrames, Zenon DEF Moves
<1>6. ASSUME OrderUpdate \/ OmsEnds \/ FanOut
      PROVE  Moves
  BY <1>6, WorkFrames, Zenon DEF Moves
<1>7. ASSUME NEW l \in Loops, LoopEnds(l)
      PROVE  Moves
  BY <1>7, WorkFrames, Zenon DEF Moves
<1>8. ASSUME NEW k \in Subscribers, RegisterOrderSubscriber(k) \/ ClientLeaves(k) \/ Unregister(k)
      PROVE  Moves
  BY <1>8, WorkFrames, Zenon DEF Moves
<1>9. ASSUME Panics \/ Dies
      PROVE  Moves
  BY <1>9, Zenon DEF Moves, Panics, Dies
<1>10. ASSUME UNCHANGED vars
       PROVE  Moves
  BY <1>10, Kept, Zenon DEF Moves
<1> QED
  BY <1>1, <1>2, <1>3, <1>4, <1>5, <1>6, <1>7, <1>8, <1>9, <1>10, StepKinds, Zenon

\* The ways of main, and with each its step.
Road ==
  \/ pc' = pc
  \/ pc = "config" /\ pc' \in {"connect", "refused"} /\ LoadConfig
  \/ pc = "connect" /\ pc' \in {"open", "failed"} /\ Connect
  \/ pc = "open" /\ pc' = "migrate" /\ MigrateTables
  \/ pc = "migrate" /\ pc' = "open" /\ MigrateVersion
  \/ pc = "open" /\ pc' \in {"assemble", "failed"} /\ Open
  \/ pc = "assemble" /\ pc' \in {"load", "failed"} /\ Assemble
  \/ pc = "load" /\ pc' \in {"reconcile", "failed"} /\ LoadStrategies
  \/ pc = "reconcile" /\ pc' \in {"launch", "failed"} /\ Reconcile
  \/ pc = "launch" /\ pc' = "markets" /\ LaunchStrategies
  \/ pc = "markets" /\ pc' = "serving" /\ StartWorkers
  \/ pc = "serving" /\ pc' \in {"draining", "stopMarkets"} /\ (Signal \/ ServeFails)
  \/ pc = "draining" /\ pc' = "stopMarkets" /\ Drained
  \/ Stops
  \/ pc' = "panicked" /\ Panics
  \/ pc' \in {"killed", "connect"} /\ Dies

LEMMA Roads == [Next]_vars => Road
<1> SUFFICES ASSUME [Next]_vars
             PROVE  Road
  OBVIOUS
<1>1. LoadConfig => pc = "config" /\ pc' \in {"connect", "refused"}
  BY Zenon DEF LoadConfig, Goto
<1>2. Connect => pc = "connect" /\ pc' \in {"open", "failed"}
  BY DEF Connect, Goto
<1>3. /\ MigrateTables => pc = "open" /\ pc' = "migrate"
      /\ MigrateVersion => pc = "migrate" /\ pc' = "open"
  BY DEF MigrateTables, MigrateVersion, Goto
<1>4. Open => pc = "open" /\ pc' \in {"assemble", "failed"}
  BY DEF Open, Goto
<1>5. /\ Assemble => pc = "assemble" /\ pc' \in {"load", "failed"}
      /\ LoadStrategies => pc = "load" /\ pc' \in {"reconcile", "failed"}
  BY DEF Assemble, LoadStrategies, Goto
<1>6. Reconcile => pc = "reconcile" /\ pc' \in {"launch", "failed"}
  BY Zenon DEF Reconcile, Goto
<1>7. /\ LaunchStrategies => pc = "launch" /\ pc' = "markets"
      /\ StartWorkers => pc = "markets" /\ pc' = "serving"
  BY Zenon DEF LaunchStrategies, StartWorkers, Goto
<1>8. /\ Signal \/ ServeFails => pc = "serving" /\ pc' \in {"draining", "stopMarkets"}
      /\ Drained => pc = "draining" /\ pc' = "stopMarkets"
  BY Zenon DEF Signal, ServeFails, Drained, Goto
<1>9. /\ Panics => pc' = "panicked"
      /\ Dies => pc' \in {"killed", "connect"}
  BY Zenon DEF Panics, Dies
<1> QED
  BY StepMoves, <1>1, <1>2, <1>3, <1>4, <1>5, <1>6, <1>7, <1>8, <1>9 DEF Moves, Road

-----------------------------------------------------------------------------
(* The types *)

LEMMA TypeStep ==
  ASSUME IInv, [Next]_vars
  PROVE  TypeOK'
<1>1. Moves /\ Road /\ TypeOK /\ Counted
  BY StepMoves, Roads, Zenon DEF IInv
<1>2. pc' \in Booting \cup {"serving", "draining"} \cup Stopping \cup Ended
  <2>1. Stops => pc' \in {"stopStrategies", "flush", "closeLog", "cancel", "wait", "stopOms", "waitPump", "closeStore",
                          "dropStore", "return", "exited"}
    BY DEF Stops, StopsAt
  <2>2. pc \in Booting \cup {"serving", "draining"} \cup Stopping \cup Ended
    BY <1>1, Zenon DEF TypeOK
  <2>3. pc' = pc \/ pc' \in {"connect", "refused", "open", "failed", "migrate", "assemble", "load", "reconcile", "launch",
                             "markets", "serving", "draining", "stopMarkets", "panicked", "killed"} \/ Stops
    BY <1>1 DEF Road
  <2> QED
    BY <2>1, <2>2, <2>3, StopStates DEF Booting, Ended
<1>3. settings' \in [supported : BOOLEAN, grpc : {"off", "refused", "on"}]
  <2>1. CASE settings' = settings
    BY <1>1, <2>1 DEF TypeOK
  <2>2. CASE LoadConfig
    <3> DEFINE raw == Read(file)
    <3>1. MarketsSupported(raw) \in BOOLEAN
      BY DEF MarketsSupported
    <3>2. settings' = [supported |-> MarketsSupported(raw),
                       grpc |-> IF ~raw.grpc.enabled THEN "off"
                                ELSE IF VerifyLoopbackListenAddr(raw) THEN "on" ELSE "refused"]
      BY <2>2, Zenon DEF LoadConfig
    <3> HIDE DEF raw
    <3> QED
      BY <3>1, <3>2
  <2> QED
    BY <1>1, <2>1, <2>2, Zenon DEF Moves
<1>4. schema' \in [version : 0..2, tables : SUBSET (0..2)]
  <2>1. schema \in [version : 0..2, tables : SUBSET (0..2)]
    BY <1>1, Zenon DEF TypeOK
  <2>2. CASE MigrateTables
    BY <2>1, <2>2 DEF MigrateTables
  <2>3. CASE MigrateVersion
    <3>1. schema.version < 2
      BY <2>3, Zenon DEF IInv, Migrated, MigrateVersion
    <3> QED
      BY <2>1, <2>3, <3>1 DEF MigrateVersion
  <2> QED
    BY <1>1, <2>1, <2>2, <2>3, Zenon DEF Moves
<1>5. store' \in {"none", "open", "closed"} /\ running' \in BOOLEAN /\ flushed' \in {"no", "all", "part"}
  <2>1. store \in {"none", "open", "closed"} /\ running \in BOOLEAN /\ flushed \in {"no", "all", "part"}
    BY <1>1, Zenon DEF TypeOK
  <2>2. CASE Stops
    <3>1. store' \in {"none", "open", "closed"} /\ running' \in BOOLEAN
      BY <2>1, <2>2, StopFrames
    <3>2. Flush => flushed' \in {"all", "part"}
      BY DEF Flush
    <3> QED
      BY <2>1, <2>2, <3>1, <3>2, StopFrames
  <2>3. CASE Dies
    BY <2>3 DEF Dies, Gone
  <2>4. Open => store' = "open" \/ store' = store
    BY Zenon DEF Open
  <2>5. StartWorkers => running' = TRUE
    BY Zenon DEF StartWorkers
  <2> QED
    BY <1>1, <2>1, <2>2, <2>3, <2>4, <2>5 DEF Moves
<1>6. proc' \in [Strategies -> {"none", "live", "deaf", "dead"}] /\ reader' \in [Strategies -> BOOLEAN]
  <2>1. proc \in [Strategies -> {"none", "live", "deaf", "dead"}] /\ reader \in [Strategies -> BOOLEAN]
    BY <1>1, Zenon DEF TypeOK
  <2>2. LaunchStrategies => proc' \in [Strategies -> {"none", "live", "deaf", "dead"}] /\ reader' \in [Strategies -> BOOLEAN]
    <3> SUFFICES ASSUME LaunchStrategies
                 PROVE  proc' \in [Strategies -> {"none", "live", "deaf", "dead"}] /\ reader' \in [Strategies -> BOOLEAN]
      OBVIOUS
    <3>1. PICK launched \in SUBSET Strategies :
            /\ proc' = [s \in Strategies |-> IF s \in launched THEN "live" ELSE "none"]
            /\ reader' = [s \in Strategies |-> s \in launched]
      BY Zenon DEF LaunchStrategies
    <3> QED
      BY <3>1
  <2>3. Dies => proc' \in [Strategies -> {"none", "live", "deaf", "dead"}] /\ reader' \in [Strategies -> BOOLEAN]
    BY DEF Dies, Gone
  <2>4. ASSUME NEW s \in Strategies, StopStrategy(s) \/ StopsReading(s)
        PROVE  proc' \in [Strategies -> {"none", "live", "deaf", "dead"}]
    BY <2>1, <2>4 DEF StopStrategy, StopsReading
  <2>5. ASSUME NEW s \in Strategies, ReaderEnds(s)
        PROVE  reader' \in [Strategies -> BOOLEAN]
    BY <2>1, <2>5 DEF ReaderEnds
  <2> QED
    BY <1>1, <2>1, <2>2, <2>3, <2>4, <2>5, Zenon DEF Moves
<1>7. rpc' \in [Strategies -> SUBSET Call] /\ memory' \in [Strategies -> 0..MaxSets]
  <2> DEFINE Fine == rpc' \in [Strategies -> SUBSET Call] /\ memory' \in [Strategies -> 0..MaxSets]
  <2>1. rpc \in [Strategies -> SUBSET Call] /\ memory \in [Strategies -> 0..MaxSets]
        /\ record \in [Strategies -> 0..MaxSets] /\ acked \in [Strategies -> 0..MaxSets]
    BY <1>1 DEF TypeOK
  <2>2. Reconcile => Fine
    <3>1. Reconcile => rpc' = rpc /\ (memory' = record \/ memory' = memory)
      BY StartFrames, Zenon DEF Reconcile
    <3> QED
      BY <2>1, <3>1, Zenon
  <2>3. Dies => Fine
    BY Bounds DEF Dies, Gone
  <2>4. ASSUME NEW s \in Strategies, SetState(s)
        PROVE  Fine
    <3> DEFINE value == Max({memory[s], acked[s]}) + 1
    <3>1. value \in 1..MaxSets
      <4>1. memory[s] \in Int /\ acked[s] \in Int /\ memory[s] >= 0
        BY <2>1, <2>4
      <4>2. value <= MaxSets
        BY <2>4, Zenon DEF SetState
      <4>3. Max({memory[s], acked[s]}) \in Int /\ Max({memory[s], acked[s]}) >= memory[s]
        BY <4>1, MaxOfTwo
      <4> QED
        BY <4>1, <4>2, <4>3, Bounds
    <3>2. /\ memory' = [memory EXCEPT ![s] = value]
          /\ rpc' = [rpc EXCEPT ![s] = @ \cup {[at |-> "set", value |-> value]}]
      BY <2>4, Zenon DEF SetState
    <3> HIDE DEF value
    <3>3. [at |-> "set", value |-> value] \in Call
      BY <3>1 DEF Call
    <3>4. value \in 0..MaxSets
      BY <3>1, Bounds
    <3> QED
      BY <2>1, <3>2, <3>3, <3>4
  <2>5. ASSUME NEW s \in Strategies, Calls(s)
        PROVE  Fine
    <3>1. memory' = memory
      BY <2>5, StrategyFrames, Zenon
    <3>2. PICK c \in rpc[s] : CheckStore(s, c) \/ SaveStrategyState(s, c)
      BY <2>5, Zenon DEF Calls
    <3>3. \/ rpc' = [rpc EXCEPT ![s] = @ \ {c}]
          \/ rpc' = [rpc EXCEPT ![s] = (@ \ {c}) \cup {[c EXCEPT !.at = "saving"]}]
      BY <3>2, Zenon DEF CheckStore, SaveStrategyState, answer
    <3>4. c \in Call
      BY <2>1
    <3>5. [c EXCEPT !.at = "saving"] \in Call
      BY <3>4 DEF Call
    <3> QED
      BY <2>1, <3>1, <3>3, <3>5
  <2>6. rpc' = rpc /\ memory' = memory => Fine
    BY <2>1, Zenon
  <2> HIDE DEF Fine
  <2>7. Fine
    BY <1>1, <2>2, <2>3, <2>4, <2>5, <2>6, Zenon DEF Moves
  <2> QED
    BY <2>7 DEF Fine
<1>8. /\ acked' \in [Strategies -> 0..MaxSets] /\ record' \in [Strategies -> 0..MaxSets]
      /\ unsaved' \in [Strategies -> BOOLEAN]
  <2> DEFINE Fine == /\ acked' \in [Strategies -> 0..MaxSets] /\ record' \in [Strategies -> 0..MaxSets]
                     /\ unsaved' \in [Strategies -> BOOLEAN]
  <2>1. /\ acked \in [Strategies -> 0..MaxSets] /\ record \in [Strategies -> 0..MaxSets]
        /\ memory \in [Strategies -> 0..MaxSets] /\ unsaved \in [Strategies -> BOOLEAN]
    BY <1>1 DEF TypeOK
  <2>2. ASSUME NEW s \in Strategies, Calls(s)
        PROVE  Fine
    <3>1. PICK c \in rpc[s] : CheckStore(s, c) \/ SaveStrategyState(s, c)
      BY <2>2, Zenon DEF Calls
    <3>2. c.value \in 0..MaxSets /\ Max({acked[s], c.value}) \in 0..MaxSets
      <4>1. c \in Call /\ acked[s] \in 0..MaxSets
        BY <1>1, <2>1 DEF TypeOK
      <4>2. c.value \in 0..MaxSets
        BY <4>1, Bounds DEF Call
      <4>3. \A a, b \in Int : Max({a, b}) \in {a, b}
        BY MaxOfTwo
      <4>4. Max({acked[s], c.value}) \in {acked[s], c.value}
        BY <4>1, <4>2, <4>3
      <4> QED
        BY <4>1, <4>2, <4>4
    <3>3. acked' = acked \/ acked' = [acked EXCEPT ![s] = Max({@, c.value})]
      BY <3>1, Zenon DEF CheckStore, SaveStrategyState, answer
    <3>4. record' = record \/ record' = [record EXCEPT ![s] = c.value]
      BY <3>1, Zenon DEF CheckStore, SaveStrategyState
    <3>5. unsaved' = unsaved \/ unsaved' = [unsaved EXCEPT ![s] = FALSE] \/ unsaved' = [unsaved EXCEPT ![s] = TRUE]
      BY <3>1, Zenon DEF CheckStore, SaveStrategyState
    <3>6. acked' \in [Strategies -> 0..MaxSets]
      BY <2>1, <3>2, <3>3
    <3>7. record' \in [Strategies -> 0..MaxSets] /\ unsaved' \in [Strategies -> BOOLEAN]
      BY <2>1, <3>2, <3>4, <3>5
    <3> QED
      BY <3>6, <3>7
  <2>3. ASSUME Stops
        PROVE  Fine
    <3>1. ASSUME Flush
          PROVE  record' \in [Strategies -> 0..MaxSets] /\ unsaved' \in [Strategies -> BOOLEAN]
      <4>1. PICK saved \in SUBSET Strategies :
              /\ record' = [s \in Strategies |-> IF s \in saved THEN memory[s] ELSE record[s]]
              /\ unsaved' = [s \in Strategies |-> s \notin saved /\ (unsaved[s] \/ acked[s] > record[s])]
        BY <3>1, Zenon DEF Flush
      <4>2. record' \in [Strategies -> 0..MaxSets]
        BY <2>1, <4>1
      <4>3. \A s \in Strategies : (s \notin saved /\ (unsaved[s] \/ acked[s] > record[s])) \in BOOLEAN
        OBVIOUS
      <4> QED
        BY <4>1, <4>2, <4>3
    <3>2. acked' = acked /\ ((record' = record /\ unsaved' = unsaved) \/ Flush)
      BY <2>3, StopFrames, Zenon
    <3> QED
      BY <2>1, <3>1, <3>2, Zenon
  <2>4. Dies => Fine
    BY <2>1 DEF Dies, Gone
  <2>5. acked' = acked /\ record' = record /\ unsaved' = unsaved => Fine
    BY <2>1, Zenon
  <2> HIDE DEF Fine
  <2>6. Fine
    BY <1>1, <2>2, <2>3, <2>4, <2>5, Zenon DEF Moves
  <2> QED
    BY <2>6 DEF Fine
<1>14. overlapped' \in [Strategies -> BOOLEAN]
  <2>1. overlapped \in [Strategies -> BOOLEAN]
    BY <1>1 DEF TypeOK
  <2>2. \A s \in Strategies, P \in BOOLEAN : [overlapped EXCEPT ![s] = P] \in [Strategies -> BOOLEAN]
    BY <2>1
  <2>3. ASSUME NEW s \in Strategies, SetState(s) \/ Calls(s)
        PROVE  overlapped' \in [Strategies -> BOOLEAN]
    <3>1. \/ overlapped' = overlapped
          \/ overlapped' = [overlapped EXCEPT ![s] = overlapped[s] \/ rpc[s] # {}]
          \/ \E c \in rpc[s] : overlapped' = [overlapped EXCEPT ![s] = overlapped[s] /\ ~(rpc[s] = {c} /\ c.value = memory[s])]
      BY <2>3, Zenon DEF SetState, Calls, CheckStore, SaveStrategyState
    <3>2. (overlapped[s] \/ rpc[s] # {}) \in BOOLEAN
          /\ \A c \in rpc[s] : (overlapped[s] /\ ~(rpc[s] = {c} /\ c.value = memory[s])) \in BOOLEAN
      OBVIOUS
    <3> QED
      BY <2>1, <2>2, <3>1, <3>2, Zenon
  <2>4. ASSUME Stops
        PROVE  overlapped' \in [Strategies -> BOOLEAN]
    <3>1. ASSUME Flush
          PROVE  overlapped' \in [Strategies -> BOOLEAN]
      <4>1. PICK saved \in SUBSET Strategies :
              overlapped' = [s \in Strategies |-> overlapped[s] /\ (s \notin saved \/ rpc[s] # {})]
        BY <3>1, Zenon DEF Flush
      <4> QED
        BY <4>1
    <3> QED
      BY <2>1, <2>4, <3>1, StopFrames, Zenon
  <2>5. Dies => overlapped' \in [Strategies -> BOOLEAN]
    BY DEF Dies, Gone
  <2> QED
    BY <1>1, <2>1, <2>3, <2>4, <2>5, Zenon DEF Moves
<1>9. logCh' \in {"none", "open", "closed"} /\ queued' \in 0..LogCap /\ writer' \in {"none", "running", "done"}
  <2>1. logCh \in {"none", "open", "closed"} /\ queued \in 0..LogCap /\ writer \in {"none", "running", "done"}
    BY <1>1, Zenon DEF TypeOK
  <2>2. Reconcile => UNCHANGED <<logCh, queued, writer>> \/ (logCh' = "open" /\ queued' = 0 /\ writer' = "running")
    BY Zenon DEF Reconcile, logging, startStrategyLogWriter
  <2>3. Stops => logCh' \in {"none", "open", "closed"}
    BY <2>1, StopFrames
  <2>4. WriteLog => queued' \in 0..LogCap /\ writer' \in {"none", "running", "done"}
    BY <2>1, Bounds DEF WriteLog
  <2>5. ASSUME NEW s \in Strategies, EnqueueLog(s)
        PROVE  queued' \in 0..LogCap
    <3>1. queued' = Min({queued + 1, LogCap})
      BY <2>5, Zenon DEF EnqueueLog
    <3> QED
      BY <2>1, <3>1, MinOfTwo, Bounds
  <2>6. Dies => logCh' = "none" /\ queued' = 0 /\ writer' = "none"
    BY Zenon DEF Dies, Gone
  <2>7. 0 \in 0..LogCap
    BY Bounds
  <2>8. Reconcile => logCh' \in {"none", "open", "closed"} /\ queued' \in 0..LogCap /\ writer' \in {"none", "running", "done"}
    BY <2>1, <2>2, <2>7
  <2>9. Dies => logCh' \in {"none", "open", "closed"} /\ queued' \in 0..LogCap /\ writer' \in {"none", "running", "done"}
    BY <2>6, <2>7
  <2> QED
    BY <1>1, <2>1, <2>3, <2>4, <2>5, <2>8, <2>9, Zenon DEF Moves
<1>10. loops' \subseteq Loops /\ snapshot' \in BOOLEAN /\ handler' \in {"idle", "checked"}
  <2>1. loops \subseteq Loops /\ snapshot \in BOOLEAN /\ handler \in {"idle", "checked"}
    BY <1>1, Zenon DEF TypeOK
  <2>2. Reconcile => loops' \subseteq Loops
    BY <2>1 DEF Reconcile, Loops
  <2>3. StartWorkers => loops' \subseteq Loops
    BY <2>1 DEF StartWorkers
  <2>4. ASSUME NEW l \in Loops, LoopEnds(l)
        PROVE  loops' \subseteq Loops
    BY <2>1, <2>4 DEF LoopEnds
  <2>5. PersistAccountSnapshot \/ SaveSnapshot => snapshot' \in BOOLEAN
    BY DEF PersistAccountSnapshot, SaveSnapshot
  <2>6. HandlerChecks \/ HandlerReplies => handler' \in {"idle", "checked"}
    BY DEF HandlerChecks, HandlerReplies
  <2>7. Dies => loops' \subseteq Loops /\ snapshot' \in BOOLEAN /\ handler' \in {"idle", "checked"}
    BY DEF Dies, Gone
  <2> QED
    BY <1>1, <2>1, <2>2, <2>3, <2>4, <2>5, <2>6, <2>7, Zenon DEF Moves
<1>11. /\ oms' \in {"none", "running", "ended", "closed"} /\ updates' \in 0..MaxEvents
       /\ pump' \in {"none", "idle", "sending", "done"} /\ serve' \subseteq Subscribers
  <2>1. /\ oms \in {"none", "running", "ended", "closed"} /\ updates \in 0..MaxEvents
        /\ pump \in {"none", "idle", "sending", "done"} /\ serve \subseteq Subscribers
    BY <1>1, Zenon DEF TypeOK
  <2>2. oms' \in {"none", "running", "ended", "closed"}
    <3>1. StartWorkers => oms' = "running"
      BY Zenon DEF StartWorkers
    <3>2. OmsEnds => oms' = "ended"
      BY Zenon DEF OmsEnds
    <3>3. Stops => oms' \in {oms, "closed"}
      BY StopFrames
    <3>4. Dies => oms' = "none"
      BY Zenon DEF Dies, Gone
    <3> QED
      BY <1>1, <2>1, <3>1, <3>2, <3>3, <3>4 DEF Moves
  <2>3. updates' \in 0..MaxEvents
    <3>1. OrderUpdate => updates' \in 0..MaxEvents
      <4>1. events \in Int /\ updates <= events
        BY <1>1, Bounds DEF Counted
      <4>2. OrderUpdate => updates' = updates + 1 /\ events + 2 <= MaxEvents
        BY Zenon DEF OrderUpdate
      <4> QED
        BY <2>1, <4>1, <4>2, Bounds
    <3>2. FanOut => updates' \in {updates, updates - 1} /\ (updates' = updates \/ updates > 0)
      BY DEF FanOut
    <3>3. FanOut => updates' \in 0..MaxEvents
      BY <2>1, <3>2, Bounds
    <3>4. Dies => updates' \in 0..MaxEvents
      BY Bounds DEF Dies, Gone
    <3> QED
      BY <1>1, <2>1, <3>1, <3>3, <3>4, Zenon DEF Moves
  <2>4. pump' \in {"none", "idle", "sending", "done"} /\ serve' \subseteq Subscribers
    <3>1. StartWorkers => pump' = "idle" /\ serve' = serve
      BY StartFrames, Zenon DEF StartWorkers
    <3>2. FanOut => pump' \in {"idle", "sending", "done", pump} /\ serve' \subseteq Subscribers
      BY <2>1 DEF FanOut
    <3>3. Dies => pump' = "none" /\ serve' = {}
      BY Zenon DEF Dies, Gone
    <3> QED
      BY <1>1, <2>1, <3>1, <3>2, <3>3 DEF Moves
  <2> QED
    BY <2>2, <2>3, <2>4, Zenon
<1>12. sub' \in [Subscribers -> {"none", "open", "leaving", "closed"}]
  <2>1. sub \in [Subscribers -> {"none", "open", "leaving", "closed"}]
    BY <1>1, Zenon DEF TypeOK
  <2>2. Drained => sub' \in [Subscribers -> {"none", "open", "leaving", "closed"}]
    BY <2>1 DEF Drained
  <2>3. ASSUME NEW k \in Subscribers, RegisterOrderSubscriber(k) \/ ClientLeaves(k) \/ Unregister(k)
        PROVE  sub' \in [Subscribers -> {"none", "open", "leaving", "closed"}]
    BY <2>1, <2>3 DEF RegisterOrderSubscriber, ClientLeaves, Unregister
  <2>4. Dies => sub' \in [Subscribers -> {"none", "open", "leaving", "closed"}]
    BY DEF Dies, Gone
  <2> QED
    BY <1>1, <2>1, <2>2, <2>3, <2>4, Zenon DEF Moves
<1>13. {memory', record', acked'} \subseteq [Strategies -> 0..MaxSets]
  BY <1>7, <1>8
<1>15. {unsaved', overlapped'} \subseteq [Strategies -> BOOLEAN]
  BY <1>8, <1>14
<1> QED
  BY <1>2, <1>3, <1>4, <1>5, <1>6, <1>7, <1>8, <1>9, <1>10, <1>11, <1>12, <1>13, <1>15, Zenon DEF TypeOK

-----------------------------------------------------------------------------
(* The file, the database, the counters *)

LEMMA FileStep ==
  ASSUME IInv, [Next]_vars
  PROVE  FileGiven'
<1>1. Moves /\ Road /\ FileGiven
  BY StepMoves, Roads, Zenon DEF IInv
<1>2. pc' = "config" => pc' = pc
  BY <1>1 DEF Road, Stops, StopsAt
<1>3. pc' = pc => file' = file \/ pc' # "config"
  BY <1>1 DEF Moves, LoadConfig, Goto
<1> QED
  BY <1>1, <1>2, <1>3 DEF FileGiven

\* Both halves of a migration, in the order of initSchema.
LEMMA MigratedStep ==
  ASSUME IInv, [Next]_vars
  PROVE  Migrated'
<1>1. Moves /\ Road /\ Migrated /\ schema \in [version : 0..2, tables : SUBSET (0..2)]
  BY StepMoves, Roads, Zenon DEF IInv, TypeOK
<1>2. CASE MigrateTables
  <2>1. pc' = "migrate" /\ schema.version < 2 /\ schema' = [schema EXCEPT !.tables = @ \cup {schema.version + 1}]
    BY <1>2, Zenon DEF MigrateTables, Goto
  <2>2. schema'.version = schema.version /\ schema'.tables = schema.tables \cup {schema.version + 1}
    BY <1>1, <2>1
  <2> QED
    BY <1>1, <2>1, <2>2 DEF Migrated
<1>3. CASE MigrateVersion
  <2>1. pc = "migrate" /\ pc' = "open" /\ schema' = [schema EXCEPT !.version = @ + 1]
    BY <1>3, Zenon DEF MigrateVersion, Goto
  <2>2. schema'.version = schema.version + 1 /\ schema'.tables = schema.tables /\ schema.version \in Int
    BY <1>1, <2>1
  <2>3. 1..schema.version \subseteq schema.tables /\ schema.version + 1 \in schema.tables
    BY <1>1, <2>1, Zenon DEF Migrated
  <2>4. \A v \in 1..(schema.version + 1) : v \in 1..schema.version \/ v = schema.version + 1
    BY <2>2
  <2>5. 1..schema'.version \subseteq schema'.tables
    BY <2>2, <2>3, <2>4
  <2> QED
    BY <2>1, <2>5 DEF Migrated
<1>4. CASE schema' = schema
  <2>1. pc' = "migrate" => pc = "migrate" \/ MigrateTables
    BY <1>1 DEF Road, Stops, StopsAt
  <2> QED
    BY <1>1, <1>2, <1>4, <2>1, Zenon DEF Migrated
<1> QED
  BY <1>1, <1>2, <1>3, <1>4, Zenon DEF Moves

LEMMA CountedStep ==
  ASSUME IInv, [Next]_vars
  PROVE  Counted'
<1>1. Moves /\ events \in 0..MaxEvents /\ updates <= events /\ updates \in 0..MaxEvents
  BY StepMoves, Zenon DEF IInv, TypeOK, Counted
<1>2. ASSUME NEW s \in Strategies, EnqueueLog(s)
      PROVE  Counted'
  <2>1. events + 2 <= MaxEvents /\ events' = events + 2 /\ updates' = updates
    BY <1>2, StrategyFrames, Zenon DEF EnqueueLog, StreamsKept
  <2> QED
    BY <1>1, <2>1, Bounds DEF Counted
<1>3. CASE OrderUpdate
  <2>1. events + 2 <= MaxEvents /\ events' = events + 2 /\ updates' = updates + 1
    BY <1>3, Zenon DEF OrderUpdate
  <2> QED
    BY <1>1, <2>1, Bounds DEF Counted
<1>4. CASE FanOut
  <2>1. events' = events
    BY <1>4, WorkFrames, Zenon
  <2>2. updates' \in {updates, updates - 1}
    BY <1>4 DEF FanOut
  <2> QED
    BY <1>1, <2>1, <2>2, Bounds DEF Counted
<1>5. CASE Dies
  BY <1>1, <1>5, Bounds DEF Dies, Gone, Counted
<1>6. CASE events' = events /\ updates' = updates
  BY <1>1, <1>6 DEF Counted
<1>7. ASSUME NEW s \in Strategies, SetState(s)
      PROVE  Counted'
  <2>1. events < MaxEvents /\ events' = events + 1 /\ updates' = updates
    BY <1>7, StrategyFrames, Zenon DEF SetState, StreamsKept
  <2> QED
    BY <1>1, <2>1, Bounds DEF Counted
<1> QED
  BY <1>1, <1>2, <1>3, <1>4, <1>5, <1>6, <1>7, Zenon DEF Moves

-----------------------------------------------------------------------------
(* What the engine holds at which time *)

LEMMA NothingStep ==
  ASSUME IInv, [Next]_vars
  PROVE  Nothing'
<1> SUFFICES ASSUME pc' \in Unlaunched
             PROVE  /\ flushed' = "no" /\ logCh' = "none" /\ loops' = {} /\ ~snapshot' /\ handler' = "idle"
                    /\ \A s \in Strategies : ~reader'[s] /\ rpc'[s] = {} /\ acked'[s] = record'[s] /\ ~unsaved'[s]
  BY Zenon DEF Nothing
<1>1. Moves /\ Road /\ TypeOK /\ Nothing
  BY StepMoves, Roads, Zenon DEF IInv
<1>2. CASE Dies
  <2>1. /\ flushed' = "no" /\ logCh' = "none" /\ loops' = {} /\ snapshot' = FALSE /\ handler' = "idle"
        /\ acked' = record' /\ reader' = [s \in Strategies |-> FALSE] /\ unsaved' = [s \in Strategies |-> FALSE]
        /\ rpc' = [s \in Strategies |-> {}]
    BY <1>2, Zenon DEF Dies, Gone
  <2> QED
    BY <2>1
<1>3. CASE ~Dies
  <2>1. pc \in Unlaunched /\ ~Stops /\ ~Panics
    <3>1. Stops => pc' \notin Unlaunched
      BY DEF Stops, StopsAt, Unlaunched
    <3>2. Panics => pc' \notin Unlaunched
      BY DEF Panics, Unlaunched
    <3> QED
      BY <1>1, <1>3, <3>1, <3>2 DEF Road, Unlaunched
  <2>2. /\ flushed = "no" /\ logCh = "none" /\ loops = {} /\ ~snapshot /\ handler = "idle"
        /\ \A s \in Strategies : ~reader[s] /\ rpc[s] = {} /\ acked[s] = record[s] /\ ~unsaved[s]
    BY <1>1, <2>1, Zenon DEF Nothing
  <2>3. Reconcile => logCh' = "none" /\ loops' = {}
    <3>1. Reconcile => pc' = "launch" \/ (logCh' = logCh /\ loops' = loops)
      BY Zenon DEF Reconcile, Goto, logging
    <3> QED
      BY <2>2, <3>1 DEF Unlaunched
  <2>4. ~LaunchStrategies /\ ~StartWorkers /\ ~HandlerChecks /\ ~PersistAccountSnapshot
    <3>1. /\ LaunchStrategies => pc' = "markets"
          /\ StartWorkers => pc' = "serving"
          /\ HandlerChecks => pc = "serving"
          /\ PersistAccountSnapshot => loops # {}
      BY DEF LaunchStrategies, StartWorkers, HandlerChecks, PersistAccountSnapshot, Goto
    <3> QED
      BY <2>1, <2>2, <3>1 DEF Unlaunched
  <2>5. ASSUME NEW s \in Strategies
        PROVE  ~SetState(s) /\ ~Calls(s) /\ ~ReaderEnds(s)
    BY <2>2, <2>5, Zenon DEF SetState, Calls, ReaderEnds
  <2>6. ASSUME NEW l \in Loops
        PROVE  ~LoopEnds(l)
    BY <2>2, <2>6 DEF LoopEnds
  <2>7. SaveSnapshot \/ HandlerReplies => FALSE
    BY <2>2 DEF SaveSnapshot, HandlerReplies
  <2>8. /\ flushed' = flushed /\ snapshot' = snapshot /\ handler' = handler /\ reader' = reader /\ acked' = acked
        /\ record' = record /\ unsaved' = unsaved
    BY <1>1, <1>3, <2>1, <2>4, <2>5, <2>7, Zenon DEF Moves
  <2>9. rpc' = rpc
    <3>1. Reconcile => rpc' = rpc
      BY StartFrames, Zenon
    <3> QED
      BY <1>1, <1>3, <2>5, <3>1, Zenon DEF Moves
  <2>10. logCh' = "none" /\ loops' = {}
    BY <1>1, <1>3, <2>1, <2>2, <2>3, <2>4, <2>6, Zenon DEF Moves
  <2> QED
    BY <2>2, <2>8, <2>9, <2>10, Zenon
<1> QED
  BY <1>2, <1>3, Zenon

LEMMA SilentStep ==
  ASSUME IInv, [Next]_vars
  PROVE  Silent'
<1> SUFFICES ASSUME pc' \in Unlaunched \cup {"launch", "markets"}
             PROVE  oms' = "none" /\ pump' = "none" /\ serve' = {}
  BY Zenon DEF Silent
<1>1. Moves /\ Road /\ Silent
  BY StepMoves, Roads, Zenon DEF IInv
<1>2. CASE Dies
  BY <1>2, Zenon DEF Dies, Gone
<1>3. CASE ~Dies
  <2>1. pc \in Unlaunched \cup {"launch", "markets"} /\ ~Stops /\ ~StartWorkers
    <3>1. Stops => pc' \notin Unlaunched \cup {"launch", "markets"}
      BY DEF Stops, StopsAt, Unlaunched
    <3>2. Panics => pc' \notin Unlaunched \cup {"launch", "markets"}
      BY DEF Panics, Unlaunched
    <3>3. StartWorkers => pc' \notin Unlaunched \cup {"launch", "markets"}
      BY DEF StartWorkers, Goto, Unlaunched
    <3> QED
      BY <1>1, <1>3, <3>1, <3>2, <3>3 DEF Road, Unlaunched
  <2>2. oms = "none" /\ pump = "none" /\ serve = {}
    BY <1>1, <2>1, Zenon DEF Silent
  <2>3. ~OmsEnds /\ ~FanOut
    BY <2>2 DEF OmsEnds, FanOut
  <2> QED
    BY <1>1, <1>3, <2>1, <2>2, <2>3, Zenon DEF Moves
<1> QED
  BY <1>2, <1>3, Zenon

\* A panic comes only after the flush: before it the store and the log channel are open.
LEMMA PanicsLate ==
  ASSUME IInv, Panics
  PROVE  pc \in AfterFlush
<1> USE DEF Opened, Working, AfterFlush, AfterLog, AfterWait, AfterPump
<1>1. TypeOK /\ Nothing /\ Staged
  BY Zenon DEF IInv
<1>2. pc \notin Ended
  BY Zenon DEF Panics, Alive
<1>3. /\ store = "none" => pc \notin Opened
      /\ logCh = "closed" => pc \in AfterLog
  BY <1>1, Zenon DEF Staged
<1>4. pc \in Unlaunched => /\ \A s \in Strategies : ~\E c \in rpc[s] : c.at = "saving"
                           /\ logCh # "closed" /\ ~snapshot /\ handler # "checked"
  BY <1>1 DEF Nothing
<1>5. pc \in AfterLog \/ (pc \notin Opened /\ pc \notin Unlaunched)
  BY <1>3, <1>4, Zenon DEF Panics
<1>6. pc \in Booting \cup {"serving", "draining"} \cup Stopping \cup Ended
  BY <1>1, Zenon DEF TypeOK
<1> QED
  BY <1>2, <1>5, <1>6, StopStates DEF Booting, Unlaunched, Ended

LEMMA StagedStep ==
  ASSUME IInv, [Next]_vars
  PROVE  Staged'
<1> USE DEF Opened, Working, AfterFlush, AfterLog, AfterWait, AfterPump
<1>1. Moves /\ Road /\ TypeOK /\ Nothing /\ Staged
  BY StepMoves, Roads, Zenon DEF IInv
<1>2. pc' \in Opened => store' = "open"
  <2>1. pc \in Opened => store = "open"
    BY <1>1, Zenon DEF Staged
  <2>2. CASE Stops
    <3>1. (store' = store /\ pc \in Opened) \/ pc' \in {"dropStore", "return", "exited"}
      BY <2>2, StopFrames DEF Stops, StopsAt
    <3> QED
      BY <2>1, <3>1
  <2>3. CASE Open
    BY <2>3 DEF Open, Goto
  <2>4. CASE ~Stops /\ ~Open
    <3>1. Dies => pc' \notin Opened
      BY DEF Dies
    <3>2. store' = store \/ Dies
      BY <1>1, <2>4, Zenon DEF Moves
    <3>3. pc' \in Opened => pc \in Opened
      BY <1>1, <2>4, <3>1 DEF Road
    <3> QED
      BY <2>1, <3>1, <3>2, <3>3
  <2> QED
    BY <2>2, <2>3, <2>4
<1>3. flushed' # "no" <=> pc' \in AfterFlush
  <2>1. flushed # "no" <=> pc \in AfterFlush
    BY <1>1, Zenon DEF Staged
  <2>2. CASE Stops
    <3>1. Flush => flushed' # "no"
      BY DEF Flush
    <3>2. flushed' = flushed \/ (StopsAt("flush", "closeLog") /\ flushed' # "no")
      BY <2>2, <3>1, StopFrames, Zenon
    <3>3. (pc \in AfterFlush /\ pc' \in AfterFlush) \/ (pc = "flush" /\ Flush /\ pc' \in AfterFlush)
          \/ (pc \notin AfterFlush /\ pc' \notin AfterFlush)
      BY <2>2 DEF Stops, StopsAt
    <3> QED
      BY <2>1, <3>1, <3>2, <3>3 DEF StopsAt
  <2>3. CASE Dies
    BY <2>3 DEF Dies, Gone
  <2>4. CASE Panics
    <3>1. pc' = "panicked" /\ flushed' = flushed
      BY <2>4, Zenon DEF Panics, EngineKept
    <3>2. pc \in AfterFlush
      BY <2>4, PanicsLate, Zenon
    <3> QED
      BY <2>1, <3>1, <3>2
  <2>5. CASE ~Stops /\ ~Dies /\ ~Panics
    <3>1. flushed' = flushed
      BY <1>1, <2>5, Zenon DEF Moves
    <3>2. pc' \in AfterFlush <=> pc \in AfterFlush
      BY <1>1, <2>5 DEF Road
    <3> QED
      BY <2>1, <3>1, <3>2
  <2> QED
    BY <2>2, <2>3, <2>4, <2>5
<1>4. logCh' = "closed" => pc' \in AfterLog
  <2>1. logCh = "closed" => pc \in AfterLog
    BY <1>1, Zenon DEF Staged
  <2>2. CASE Stops
    <3>1. logCh' = logCh \/ pc = "closeLog"
      BY <2>2, StopFrames
    <3>2. pc \in AfterLog \cup {"closeLog"} => pc' \in AfterLog
      BY <2>2 DEF Stops, StopsAt
    <3> QED
      BY <2>1, <3>1, <3>2
  <2>3. CASE Dies
    BY <2>3 DEF Dies, Gone
  <2>4. CASE Reconcile
    <3>1. pc = "reconcile"
      BY <2>4, Zenon DEF Reconcile
    <3>2. logCh' = "open" \/ logCh' = logCh
      BY <2>4, Zenon DEF Reconcile, logging, startStrategyLogWriter
    <3>3. logCh = "none"
      BY <1>1, <3>1 DEF Nothing, Unlaunched
    <3> QED
      BY <3>2, <3>3
  <2>5. CASE ~Stops /\ ~Dies /\ ~Reconcile
    <3>1. logCh' = logCh
      BY <1>1, <2>5, Zenon DEF Moves
    <3>2. pc \in AfterLog => pc' \in AfterLog
      BY <1>1, <2>5 DEF Road
    <3> QED
      BY <2>1, <3>1, <3>2
  <2> QED
    BY <2>2, <2>3, <2>4, <2>5
<1>5. ASSUME NEW s \in Strategies, proc'[s] \in {"live", "deaf"}
      PROVE  pc' \in {"markets", "serving", "draining", "stopMarkets", "stopStrategies"}
  <2> DEFINE Living == {"markets", "serving", "draining", "stopMarkets", "stopStrategies"}
  <2>1. proc[s] \in {"live", "deaf"} => pc \in Living
    BY <1>1, <1>5, Zenon DEF Staged
  <2>2. CASE Dies
    BY <1>5, <2>2 DEF Dies, Gone
  <2>3. CASE LaunchStrategies
    BY <2>3, Zenon DEF LaunchStrategies, Goto
  <2>4. CASE \E t \in Strategies : StopStrategy(t) \/ StopsReading(t)
    <3>1. PICK t \in Strategies : StopStrategy(t) \/ StopsReading(t)
      BY <2>4
    <3>2. pc' = pc /\ pc = "stopStrategies"
      BY <3>1, StrategyFrames, Zenon DEF StopStrategy, StopsReading
    <3> QED
      BY <3>2
  <2>5. CASE proc' = proc
    <3>1. pc \in Living
      BY <1>5, <2>1, <2>5
    <3>2. pc = "stopStrategies" /\ Stops => FALSE
      <4>1. pc = "stopStrategies" /\ Stops => StrategiesStopped
        BY DEF Stops, StopsAt
      <4>2. StrategiesStopped => proc[s] \notin {"live", "deaf"}
        BY <1>5, Zenon DEF StrategiesStopped
      <4> QED
        BY <1>5, <2>5, <4>1, <4>2
    <3>3. Stops => pc' \in Living
      BY <3>1, <3>2 DEF Stops, StopsAt
    <3>4. Panics => FALSE
      BY <3>1, PanicsLate
    <3>5. Dies => FALSE
      BY <1>5 DEF Dies, Gone
    <3> QED
      BY <1>1, <3>1, <3>3, <3>4, <3>5 DEF Road
  <2> QED
    BY <1>1, <2>2, <2>3, <2>4, <2>5, Zenon DEF Moves
<1> QED
  BY <1>2, <1>3, <1>4, <1>5, Zenon DEF Staged

\* After the flush nobody is told that state is set: the processes are dead.
LEMMA NobodyTold ==
  ASSUME IInv, NEW s \in Strategies, proc[s] = "live"
  PROVE  flushed = "no" /\ store = "open"
<1>1. pc \in {"markets", "serving", "draining", "stopMarkets", "stopStrategies"}
  BY Zenon DEF IInv, Staged
<1>2. pc \in Opened /\ pc \notin AfterFlush
  BY <1>1 DEF Opened, Working, AfterFlush, AfterLog, AfterWait, AfterPump
<1> QED
  BY <1>2, Zenon DEF IInv, Staged

\* The types of what the calls change, one strategy at a time.
LEMMA StateTypes ==
  ASSUME TypeOK
  PROVE  /\ rpc \in [Strategies -> SUBSET Call] /\ memory \in [Strategies -> 0..MaxSets]
         /\ acked \in [Strategies -> 0..MaxSets] /\ record \in [Strategies -> 0..MaxSets]
         /\ unsaved \in [Strategies -> BOOLEAN] /\ overlapped \in [Strategies -> BOOLEAN]
         /\ \A s \in Strategies :
              /\ memory[s] \in Int /\ acked[s] \in Int /\ record[s] \in Int
              /\ \A c \in rpc[s] : c \in Call /\ c.value \in Int
<1>1. /\ rpc \in [Strategies -> SUBSET Call] /\ memory \in [Strategies -> 0..MaxSets]
      /\ acked \in [Strategies -> 0..MaxSets] /\ record \in [Strategies -> 0..MaxSets]
      /\ unsaved \in [Strategies -> BOOLEAN] /\ overlapped \in [Strategies -> BOOLEAN]
  BY DEF TypeOK
<1>2. ASSUME NEW s \in Strategies
      PROVE  memory[s] \in Int /\ acked[s] \in Int /\ record[s] \in Int
  BY <1>1, Bounds
<1>3. ASSUME NEW s \in Strategies, NEW c \in rpc[s]
      PROVE  c \in Call /\ c.value \in Int
  <2>1. c \in Call
    BY <1>1
  <2> QED
    BY <2>1, Bounds DEF Call
<1> QED
  BY <1>1, <1>2, <1>3

\* What a step of a call does to its strategy, and that it touches no other.
LEMMA CallSteps ==
  ASSUME IInv, NEW t \in Strategies, Calls(t)
  PROVE  \E c \in rpc[t] :
           /\ pc \notin Unlaunched /\ memory' = memory /\ flushed' = flushed
           /\ \/ rpc'[t] = rpc[t] \ {c}
              \/ /\ rpc'[t] = (rpc[t] \ {c}) \cup {[c EXCEPT !.at = "saving"]}
                 /\ acked' = acked /\ record' = record /\ unsaved' = unsaved /\ overlapped' = overlapped
           /\ acked'[t] = acked[t] \/ (acked'[t] = Max({acked[t], c.value}) /\ flushed = "no" /\ store # "none")
           /\ \/ record'[t] = record[t] /\ unsaved'[t] = unsaved[t] /\ overlapped' = overlapped /\ acked' = acked
              \/ record'[t] = record[t] /\ unsaved'[t] = TRUE /\ overlapped' = overlapped
              \/ /\ record'[t] = c.value /\ unsaved'[t] = FALSE /\ rpc'[t] = rpc[t] \ {c}
                 /\ overlapped'[t] = (overlapped[t] /\ ~(rpc[t] = {c} /\ c.value = memory[t]))
           /\ \A s \in Strategies \ {t} :
                /\ rpc'[s] = rpc[s] /\ acked'[s] = acked[s] /\ record'[s] = record[s]
                /\ unsaved'[s] = unsaved[s] /\ overlapped'[s] = overlapped[s]
<1>1. PICK c \in rpc[t] : CheckStore(t, c) \/ SaveStrategyState(t, c)
  BY Zenon DEF Calls
<1>2. TypeOK /\ Nothing
  BY Zenon DEF IInv
<1>3. pc \notin Unlaunched
  BY <1>1, <1>2, Zenon DEF Nothing
<1>4. memory' = memory /\ flushed' = flushed
  BY StrategyFrames, Zenon
<1>5. proc[t] = "live" => flushed = "no" /\ store = "open"
  BY NobodyTold
<1>6. CASE CheckStore(t, c)
  <2>1. record' = record /\ unsaved' = unsaved /\ overlapped' = overlapped
    BY <1>6, Zenon DEF CheckStore
  <2>2. CASE store = "none"
    <3>1. rpc' = [rpc EXCEPT ![t] = @ \ {c}] /\ acked' = acked
      <4>1. answer(t, c)
        BY <1>6, <2>2, Zenon DEF CheckStore
      <4>2. proc[t] # "live"
        BY <1>5, <2>2
      <4> QED
        BY <4>1, <4>2 DEF answer
    <3> QED
      BY <1>2, <1>3, <1>4, <2>1, <3>1, StateTypes
  <2>3. CASE store # "none"
    <3>1. rpc' = [rpc EXCEPT ![t] = (@ \ {c}) \cup {[c EXCEPT !.at = "saving"]}] /\ acked' = acked
      BY <1>6, <2>3, Zenon DEF CheckStore
    <3>2. rpc'[t] = (rpc[t] \ {c}) \cup {[c EXCEPT !.at = "saving"]} /\ \A s \in Strategies \ {t} : rpc'[s] = rpc[s]
      BY <1>2, <3>1, StateTypes
    <3> QED
      BY <1>3, <1>4, <2>1, <3>1, <3>2, Zenon
  <2> QED
    BY <2>2, <2>3
<1>7. CASE SaveStrategyState(t, c)
  <2>1. rpc' = [rpc EXCEPT ![t] = @ \ {c}]
        /\ acked' = IF proc[t] = "live" THEN [acked EXCEPT ![t] = Max({@, c.value})] ELSE acked
    BY <1>7, Zenon DEF SaveStrategyState, answer
  <2>2. rpc'[t] = rpc[t] \ {c} /\ \A s \in Strategies \ {t} : rpc'[s] = rpc[s]
    BY <1>2, <2>1, StateTypes
  <2>3. /\ acked'[t] = acked[t] \/ (acked'[t] = Max({acked[t], c.value}) /\ flushed = "no" /\ store # "none")
        /\ \A s \in Strategies \ {t} : acked'[s] = acked[s]
    <3>1. acked \in [Strategies -> 0..MaxSets]
      BY <1>2, StateTypes
    <3> QED
      BY <1>5, <2>1, <3>1
  <2>4. \/ /\ record' = record /\ overlapped' = overlapped /\ unsaved' = [unsaved EXCEPT ![t] = TRUE]
        \/ /\ record' = [record EXCEPT ![t] = c.value] /\ unsaved' = [unsaved EXCEPT ![t] = FALSE]
           /\ overlapped' = [overlapped EXCEPT ![t] = @ /\ ~(rpc[t] = {c} /\ c.value = memory[t])]
    BY <1>7, Zenon DEF SaveStrategyState
  <2>5. record \in [Strategies -> 0..MaxSets] /\ unsaved \in [Strategies -> BOOLEAN] /\ overlapped \in [Strategies -> BOOLEAN]
    BY <1>2, StateTypes
  <2>6. CASE record' = record /\ overlapped' = overlapped /\ unsaved' = [unsaved EXCEPT ![t] = TRUE]
    <3>1. unsaved'[t] = TRUE /\ \A s \in Strategies \ {t} : unsaved'[s] = unsaved[s]
      BY <2>5, <2>6
    <3> QED
      BY <1>3, <1>4, <2>2, <2>3, <2>6, <3>1, Zenon
  <2>7. CASE /\ record' = [record EXCEPT ![t] = c.value] /\ unsaved' = [unsaved EXCEPT ![t] = FALSE]
             /\ overlapped' = [overlapped EXCEPT ![t] = @ /\ ~(rpc[t] = {c} /\ c.value = memory[t])]
    <3>1. /\ record'[t] = c.value /\ unsaved'[t] = FALSE
          /\ \A s \in Strategies \ {t} : record'[s] = record[s] /\ unsaved'[s] = unsaved[s]
      BY <2>5, <2>7
    <3>2. /\ overlapped'[t] = (overlapped[t] /\ ~(rpc[t] = {c} /\ c.value = memory[t]))
          /\ \A s \in Strategies \ {t} : overlapped'[s] = overlapped[s]
      BY <2>5, <2>7
    <3> QED
      BY <1>3, <1>4, <2>2, <2>3, <3>1, <3>2, Zenon
  <2> QED
    BY <2>4, <2>6, <2>7, Zenon
<1> QED
  BY <1>1, <1>6, <1>7

\* The memory is ahead of what is told, also of the calls still under way.
LEMMA AheadStep ==
  ASSUME IInv, [Next]_vars
  PROVE  Ahead'
<1> DEFINE Fine(s) == /\ acked'[s] <= memory'[s]
                      /\ \A c \in rpc'[s] : c.value <= memory'[s]
                      /\ ~overlapped'[s] => \A c, d \in rpc'[s] : c = d /\ c.value = memory'[s]
<1> SUFFICES ASSUME pc' \notin Unlaunched, NEW s \in Strategies
             PROVE  Fine(s)
  BY Zenon DEF Ahead
<1>1. Moves /\ Road /\ TypeOK /\ Nothing /\ Ahead
  BY StepMoves, Roads, Zenon DEF IInv
<1>2. /\ memory \in [Strategies -> 0..MaxSets] /\ acked \in [Strategies -> 0..MaxSets]
      /\ overlapped \in [Strategies -> BOOLEAN] /\ rpc \in [Strategies -> SUBSET Call]
      /\ memory[s] \in Int /\ acked[s] \in Int /\ record[s] \in Int
      /\ \A c \in rpc[s] : c.value \in Int
  BY <1>1, StateTypes
<1>3. ~Dies
  BY DEF Dies, Unlaunched
<1>4. CASE Reconcile
  <2>1. pc = "reconcile" /\ memory' = record /\ acked' = acked /\ rpc' = rpc
    <3>1. pc = "reconcile" /\ (memory' = record \/ pc' = "failed")
      BY <1>4, Zenon DEF Reconcile, Goto
    <3> QED
      BY <1>4, <3>1, StartFrames DEF Unlaunched
  <2>2. acked[s] = record[s] /\ rpc[s] = {}
    BY <1>1, <2>1 DEF Nothing, Unlaunched
  <2>3. acked'[s] <= memory'[s] /\ rpc'[s] = {}
    BY <1>2, <2>1, <2>2
  <2> QED
    BY <2>3
<1>5. CASE ~Reconcile
  <2>1. pc \notin Unlaunched
    <3>1. Panics => pc \notin Unlaunched
      BY PanicsLate DEF AfterFlush, AfterLog, AfterWait, AfterPump, Unlaunched
    <3>2. Stops => pc \notin Unlaunched
      BY DEF Stops, StopsAt, Unlaunched
    <3> QED
      BY <1>1, <1>3, <1>5, <3>1, <3>2 DEF Road, Unlaunched
  <2>2. /\ acked[s] <= memory[s]
        /\ \A c \in rpc[s] : c.value <= memory[s]
        /\ ~overlapped[s] => \A c, d \in rpc[s] : c = d /\ c.value = memory[s]
    BY <1>1, <2>1, Zenon DEF Ahead
  <2>3. ASSUME NEW t \in Strategies, SetState(t)
        PROVE  Fine(s)
    <3> DEFINE value == Max({memory[t], acked[t]}) + 1
               new == [at |-> "set", value |-> value]
    <3>1. acked' = acked
      BY <2>3, StrategyFrames, Zenon
    <3>2. /\ memory' = [memory EXCEPT ![t] = value]
          /\ rpc' = [rpc EXCEPT ![t] = @ \cup {new}]
          /\ overlapped' = [overlapped EXCEPT ![t] = @ \/ rpc[t] # {}]
      BY <2>3, Zenon DEF SetState
    <3>3. CASE s # t
      <4>1. memory'[s] = memory[s] /\ rpc'[s] = rpc[s] /\ overlapped'[s] = overlapped[s] /\ acked'[s] = acked[s]
        BY <1>2, <3>1, <3>2, <3>3
      <4> QED
        BY <2>2, <4>1, Zenon
    <3>4. CASE s = t
      <4>1. value \in Int /\ acked[s] <= value /\ memory[s] <= value
        <5>1. Max({memory[t], acked[t]}) \in Int /\ Max({memory[t], acked[t]}) >= acked[t]
              /\ Max({memory[t], acked[t]}) >= memory[t]
          BY <1>2, <3>4, MaxOfTwo
        <5> QED
          BY <1>2, <3>4, <5>1
      <4> HIDE DEF value
      <4>2. /\ memory'[s] = value /\ rpc'[s] = rpc[s] \cup {new} /\ new.value = value
            /\ overlapped'[s] = (overlapped[s] \/ rpc[s] # {}) /\ acked'[s] = acked[s]
        BY <1>2, <3>1, <3>2, <3>4
      <4>3. \A c \in rpc'[s] : c.value <= value
        BY <1>2, <2>2, <4>1, <4>2
      <4>4. ~overlapped'[s] => rpc'[s] = {new}
        BY <4>2
      <4>5. ~overlapped'[s] => \A c, d \in rpc'[s] : c = d /\ c.value = memory'[s]
        BY <4>2, <4>4
      <4> QED
        BY <4>1, <4>2, <4>3, <4>5
    <3> QED
      BY <3>3, <3>4
  <2>4. ASSUME NEW t \in Strategies, Calls(t)
        PROVE  Fine(s)
    <3>1. PICK c \in rpc[t] :
            /\ memory' = memory
            /\ \/ rpc'[t] = rpc[t] \ {c}
               \/ /\ rpc'[t] = (rpc[t] \ {c}) \cup {[c EXCEPT !.at = "saving"]}
                  /\ overlapped' = overlapped
            /\ acked'[t] = acked[t] \/ acked'[t] = Max({acked[t], c.value})
            /\ \/ overlapped' = overlapped
               \/ /\ rpc'[t] = rpc[t] \ {c}
                  /\ overlapped'[t] = (overlapped[t] /\ ~(rpc[t] = {c} /\ c.value = memory[t]))
            /\ \A r \in Strategies \ {t} : rpc'[r] = rpc[r] /\ acked'[r] = acked[r] /\ overlapped'[r] = overlapped[r]
      BY <2>4, CallSteps, Zenon
    <3>2. CASE s # t
      <4>1. memory'[s] = memory[s] /\ rpc'[s] = rpc[s] /\ overlapped'[s] = overlapped[s] /\ acked'[s] = acked[s]
        BY <3>1, <3>2
      <4> QED
        BY <2>2, <4>1, Zenon
    <3>3. CASE s = t
      <4> DEFINE moved == [c EXCEPT !.at = "saving"]
      <4>1. moved.value = c.value /\ c.value \in Int
        <5>1. c \in Call
          BY <1>2
        <5> QED
          BY <1>2, <3>3, <5>1 DEF Call
      <4>2. memory'[s] = memory[s] /\ c.value <= memory[s]
        BY <2>2, <3>1, <3>3
      <4>3. acked'[s] <= memory'[s]
        <5>1. Max({acked[s], c.value}) \in {acked[s], c.value}
          <6>1. \A a, b \in Int : Max({a, b}) \in {a, b}
            BY MaxOfTwo
          <6> QED
            BY <1>2, <4>1, <6>1
        <5> QED
          BY <2>2, <3>1, <3>3, <4>2, <5>1
      <4> HIDE DEF moved
      <4>4. \A x \in rpc'[s] : x \in rpc[s] \/ x = moved
        BY <3>1, <3>3 DEF moved
      <4>5. \A x \in rpc'[s] : x.value <= memory'[s]
        BY <2>2, <4>1, <4>2, <4>4
      <4>6. ~overlapped'[s] => \A x, y \in rpc'[s] : x = y /\ x.value = memory'[s]
        <5> SUFFICES ASSUME ~overlapped'[s], NEW x \in rpc'[s], NEW y \in rpc'[s]
                     PROVE  x = y /\ x.value = memory'[s]
          OBVIOUS
        <5>1. CASE rpc'[s] = rpc[s] \ {c} /\ ~overlapped[s]
          BY <2>2, <4>2, <5>1
        <5>2. CASE rpc'[s] = rpc[s] \ {c} /\ overlapped[s]
          <6>1. rpc[s] = {c}
            BY <3>1, <3>3, <5>2
          <6> QED
            BY <5>2, <6>1
        <5>3. CASE rpc'[s] = (rpc[s] \ {c}) \cup {moved} /\ overlapped' = overlapped
          <6>1. ~overlapped[s] /\ c \in rpc[s]
            BY <3>3, <5>3
          <6>2. \A z \in rpc[s] : z = c
            BY <2>2, <6>1
          <6>3. x = moved /\ y = moved
            BY <5>3, <6>2
          <6>4. c.value = memory[s]
            BY <2>2, <6>1
          <6> QED
            BY <4>1, <4>2, <6>3, <6>4
        <5> QED
          BY <3>1, <3>3, <5>1, <5>2, <5>3 DEF moved
      <4> QED
        BY <4>3, <4>5, <4>6
    <3> QED
      BY <3>2, <3>3
  <2>5. CASE Stops
    <3>1. memory' = memory /\ acked' = acked /\ rpc' = rpc
      BY <2>5, StopFrames, Zenon
    <3>2. overlapped' = overlapped \/ Flush
      BY <2>5, StopFrames, Zenon
    <3>3. ASSUME Flush
          PROVE  overlapped'[s] = overlapped[s] \/ rpc[s] = {}
      <4>1. PICK saved \in SUBSET Strategies :
              overlapped' = [r \in Strategies |-> overlapped[r] /\ (r \notin saved \/ rpc[r] # {})]
        BY <3>3, Zenon DEF Flush
      <4> QED
        BY <1>2, <4>1
    <3> QED
      BY <2>2, <3>1, <3>2, <3>3
  <2>6. CASE rpc' = rpc /\ memory' = memory /\ acked' = acked /\ overlapped' = overlapped
    BY <2>2, <2>6, Zenon
  <2> HIDE DEF Fine
  <2> QED
    BY <1>1, <1>3, <1>5, <2>3, <2>4, <2>5, <2>6, Zenon DEF Moves
<1> QED
  BY <1>4, <1>5, Zenon

\* What is saved of a strategy whose calls have not overlapped is what is in memory.
LEMMA DurableStep ==
  ASSUME IInv, [Next]_vars
  PROVE  Durable'
<1>1. Moves /\ TypeOK /\ Nothing /\ Ahead /\ Durable
  BY StepMoves, Zenon DEF IInv
<1>2. /\ memory \in [Strategies -> 0..MaxSets] /\ acked \in [Strategies -> 0..MaxSets]
      /\ record \in [Strategies -> 0..MaxSets] /\ overlapped \in [Strategies -> BOOLEAN]
      /\ \A s \in Strategies :
           /\ memory[s] \in Int /\ acked[s] \in Int /\ record[s] \in Int
           /\ \A c \in rpc[s] : c.value \in Int
  BY <1>1, StateTypes
<1> DEFINE Fine(s) == ~overlapped'[s] => /\ acked'[s] > record'[s] => unsaved'[s]
                                         /\ flushed' = "all" => acked'[s] <= record'[s]
<1> SUFFICES ASSUME NEW s \in Strategies
             PROVE  Fine(s)
  BY Zenon DEF Durable
<1>3. ~overlapped[s] => (acked[s] > record[s] => unsaved[s]) /\ (flushed = "all" => acked[s] <= record[s])
  BY <1>1, Zenon DEF Durable
<1>4. CASE Dies
  <2>1. acked'[s] = record[s] /\ record'[s] = record[s]
    BY <1>4, Zenon DEF Dies, Gone
  <2> QED
    BY <1>2, <2>1
<1>5. ASSUME NEW t \in Strategies, SetState(t)
      PROVE  Fine(s)
  <2>1. acked' = acked /\ record' = record /\ unsaved' = unsaved /\ flushed' = flushed
    BY <1>5, StrategyFrames, Zenon
  <2>2. ~overlapped'[s] => ~overlapped[s]
    <3>1. overlapped' = [overlapped EXCEPT ![t] = @ \/ rpc[t] # {}]
      BY <1>5, Zenon DEF SetState
    <3> QED
      BY <1>2, <3>1
  <2> QED
    BY <1>3, <2>1, <2>2, Zenon
<1>6. ASSUME NEW t \in Strategies, Calls(t)
      PROVE  Fine(s)
  <2>1. PICK c \in rpc[t] :
          /\ pc \notin Unlaunched /\ memory' = memory /\ flushed' = flushed
          /\ acked'[t] = acked[t] \/ (acked'[t] = Max({acked[t], c.value}) /\ flushed = "no")
          /\ \/ record'[t] = record[t] /\ unsaved'[t] = unsaved[t] /\ overlapped' = overlapped /\ acked' = acked
             \/ record'[t] = record[t] /\ unsaved'[t] = TRUE /\ overlapped' = overlapped
             \/ /\ record'[t] = c.value
                /\ overlapped'[t] = (overlapped[t] /\ ~(rpc[t] = {c} /\ c.value = memory[t]))
          /\ \A r \in Strategies \ {t} :
               /\ acked'[r] = acked[r] /\ record'[r] = record[r]
               /\ unsaved'[r] = unsaved[r] /\ overlapped'[r] = overlapped[r]
    BY <1>6, CallSteps, Zenon
  <2>2. CASE s # t
    <3>1. acked'[s] = acked[s] /\ record'[s] = record[s] /\ unsaved'[s] = unsaved[s] /\ overlapped'[s] = overlapped[s]
      BY <2>1, <2>2
    <3> QED
      BY <1>3, <2>1, <3>1, Zenon
  <2>3. CASE s = t
    <3> SUFFICES ASSUME ~overlapped'[s]
                 PROVE  (acked'[s] > record'[s] => unsaved'[s]) /\ (flushed' = "all" => acked'[s] <= record'[s])
      OBVIOUS
    <3>1. /\ acked[s] <= memory[s] /\ c.value <= memory[s] /\ c.value \in Int
          /\ ~overlapped[s] => c.value = memory[s]
      BY <1>1, <1>2, <2>1, <2>3 DEF Ahead
    <3>2. acked'[s] \in Int /\ acked'[s] <= memory[s]
      <4>1. Max({acked[s], c.value}) \in {acked[s], c.value}
        <5>1. \A a, b \in Int : Max({a, b}) \in {a, b}
          BY MaxOfTwo
        <5> QED
          BY <1>2, <3>1, <5>1
      <4> QED
        BY <1>2, <2>1, <2>3, <3>1, <4>1
    <3>3. CASE record'[s] = c.value /\ overlapped'[s] = (overlapped[s] /\ ~(rpc[s] = {c} /\ c.value = memory[s]))
      <4>1. c.value = memory[s]
        BY <3>1, <3>3
      <4> QED
        BY <1>2, <3>2, <3>3, <4>1
    <3>4. CASE record'[s] = record[s] /\ unsaved'[s] = unsaved[s] /\ overlapped' = overlapped /\ acked' = acked
      BY <1>3, <2>1, <3>4
    <3>5. CASE record'[s] = record[s] /\ unsaved'[s] = TRUE /\ overlapped' = overlapped
      <4>1. flushed' = "all" => acked'[s] = acked[s]
        BY <2>1, <2>3
      <4> QED
        BY <1>3, <2>1, <3>5, <4>1
    <3> QED
      BY <2>1, <2>3, <3>3, <3>4, <3>5
  <2> QED
    BY <2>2, <2>3
<1>7. CASE Stops
  <2>1. acked' = acked /\ memory' = memory
    BY <1>7, StopFrames, Zenon
  <2>2. CASE flushed' = flushed /\ record' = record /\ unsaved' = unsaved /\ overlapped' = overlapped
    BY <1>3, <2>1, <2>2, Zenon
  <2>3. CASE StopsAt("flush", "closeLog") /\ Flush
    <3>1. PICK saved \in SUBSET Strategies :
            /\ record' = [r \in Strategies |-> IF r \in saved THEN memory[r] ELSE record[r]]
            /\ unsaved' = [r \in Strategies |-> r \notin saved /\ (unsaved[r] \/ acked[r] > record[r])]
            /\ flushed' = IF saved = Strategies THEN "all" ELSE "part"
      BY <2>3, Zenon DEF Flush
    <3>2. acked[s] <= memory[s]
      <4>1. pc \notin Unlaunched
        BY <2>3 DEF StopsAt, Unlaunched
      <4> QED
        BY <1>1, <4>1, Zenon DEF Ahead
    <3>3. CASE s \in saved
      <4>1. record'[s] = memory[s] /\ acked'[s] = acked[s]
        BY <2>1, <3>1, <3>3
      <4> QED
        BY <1>2, <3>2, <4>1
    <3>4. CASE s \notin saved
      <4>1. record'[s] = record[s] /\ acked'[s] = acked[s] /\ flushed' # "all"
        BY <2>1, <3>1, <3>4
      <4>2. unsaved'[s] = (unsaved[s] \/ acked[s] > record[s])
        BY <3>1, <3>4
      <4> QED
        BY <4>1, <4>2
    <3> QED
      BY <3>3, <3>4
  <2> QED
    BY <1>7, <2>2, <2>3, StopFrames, Zenon
<1>8. CASE acked' = acked /\ record' = record /\ unsaved' = unsaved /\ flushed' = flushed /\ overlapped' = overlapped
  BY <1>3, <1>8, Zenon
<1> HIDE DEF Fine
<1> QED
  BY <1>1, <1>4, <1>5, <1>6, <1>7, <1>8, Zenon DEF Moves

LEMMA MannedStep ==
  ASSUME IInv, [Next]_vars
  PROVE  Manned'
<1> USE DEF Working
<1>1. Moves /\ Road /\ TypeOK /\ Nothing /\ Silent /\ Staged /\ Manned
  BY StepMoves, Roads, Zenon DEF IInv
<1>2. pc \in Working => ~Cancelled
  BY StopStates
<1>3. running' => pc' \in {"serving", "draining", "stopMarkets"}
  <2>1. running => pc \in {"serving", "draining", "stopMarkets"}
    BY <1>1, Zenon DEF Manned
  <2>2. CASE StartWorkers
    BY <2>2, Zenon DEF StartWorkers, Goto
  <2>3. CASE Dies
    BY <2>3 DEF Dies, Gone
  <2>4. CASE Stops
    <3>1. running' = running \/ (pc = "stopMarkets" /\ running' = FALSE)
      BY <2>4, StopFrames, Zenon
    <3>2. pc \in {"serving", "draining", "stopMarkets"} => StopMarkets
      BY <2>4 DEF Stops, StopsAt
    <3>3. StopMarkets => running' = FALSE
      BY Zenon DEF StopMarkets
    <3> QED
      BY <2>1, <3>1, <3>2, <3>3
  <2>5. CASE ~StartWorkers /\ ~Dies /\ ~Stops
    <3>1. running' = running
      BY <1>1, <2>5, Zenon DEF Moves
    <3>2. Panics => ~running
      BY <2>1, PanicsLate DEF AfterFlush, AfterLog, AfterWait, AfterPump
    <3>3. pc \in {"serving", "draining", "stopMarkets"} => pc' \in {"serving", "draining", "stopMarkets"} \/ Panics
      BY <1>1, <2>5 DEF Road
    <3> QED
      BY <2>1, <3>1, <3>2, <3>3
  <2> QED
    BY <2>2, <2>3, <2>4, <2>5
<1>4. pc' \in (Working \ {"cancel"}) \cup {"launch", "markets"} => logCh' = "open"
  <2>1. pc \in (Working \ {"cancel"}) \cup {"launch", "markets"} => logCh = "open"
    BY <1>1, Zenon DEF Manned
  <2>2. CASE Reconcile
    <3>1. logCh' = "open" \/ pc' = "failed"
      BY <2>2, Zenon DEF Reconcile, Goto, startStrategyLogWriter
    <3> QED
      BY <3>1
  <2>3. CASE Dies
    BY <2>3 DEF Dies
  <2>4. CASE Stops
    <3>1. logCh' = logCh \/ (pc = "closeLog" /\ logCh' = "closed")
      BY <2>4, StopFrames, Zenon
    <3>2. \/ pc \in Working \ {"cancel", "closeLog"}
          \/ pc' \notin (Working \ {"cancel"}) \cup {"launch", "markets"}
      BY <2>4 DEF Stops, StopsAt
    <3> QED
      BY <2>1, <3>1, <3>2
  <2>5. CASE ~Reconcile /\ ~Dies /\ ~Stops
    <3>1. logCh' = logCh
      BY <1>1, <2>5, Zenon DEF Moves
    <3>2. pc' \in (Working \ {"cancel"}) \cup {"launch", "markets"}
            => pc \in (Working \ {"cancel"}) \cup {"launch", "markets"}
      BY <1>1, <2>5 DEF Road
    <3> QED
      BY <2>1, <3>1, <3>2
  <2> QED
    BY <2>2, <2>3, <2>4, <2>5
<1>5. (logCh' = "open" => writer' = "running") /\ (writer' = "done" => logCh' = "closed" /\ queued' = 0)
  <2> DEFINE Fine == (logCh' = "open" => writer' = "running") /\ (writer' = "done" => logCh' = "closed" /\ queued' = 0)
  <2>a. SUFFICES Fine
    OBVIOUS
  <2>1. (logCh = "open" => writer = "running") /\ (writer = "done" => logCh = "closed" /\ queued = 0)
    BY <1>1, Zenon DEF Manned
  <2>2. CASE Reconcile
    <3>1. (logCh' = "open" /\ writer' = "running") \/ (logCh' = logCh /\ writer' = writer /\ queued' = queued)
      BY <2>2, Zenon DEF Reconcile, logging, startStrategyLogWriter
    <3> QED
      BY <2>1, <3>1
  <2>3. CASE Dies
    BY <2>3 DEF Dies, Gone
  <2>4. CASE WriteLog
    <3>1. logCh' = logCh
      BY <2>4, WorkFrames, Zenon
    <3>2. \/ writer = "running" /\ queued = 0 /\ logCh = "closed" /\ writer' = "done" /\ queued' = queued
          \/ writer = "running" /\ writer' = writer
      BY <2>4, Zenon DEF WriteLog
    <3> QED
      BY <2>1, <3>1, <3>2
  <2>5. ASSUME NEW s \in Strategies, EnqueueLog(s)
        PROVE  Fine
    <3>1. logCh = "open" /\ logCh' = logCh /\ writer' = writer
      BY <2>5, StrategyFrames, Zenon DEF EnqueueLog
    <3> QED
      BY <2>1, <3>1
  <2>6. CASE queued' = queued /\ writer' = writer /\ (logCh' = logCh \/ Stops)
    <3>1. logCh' = logCh \/ logCh' = "closed"
      BY <2>6, StopFrames, Zenon
    <3> QED
      BY <2>1, <2>6, <3>1
  <2> HIDE DEF Fine
  <2> QED
    BY <1>1, <2>2, <2>3, <2>4, <2>5, <2>6, Zenon DEF Moves
<1>6. pc' \in Working => oms' = "running" /\ pump' # "none" /\ Loops \ {"projection"} \subseteq loops'
  <2> SUFFICES ASSUME pc' \in Working
               PROVE  oms' = "running" /\ pump' # "none" /\ Loops \ {"projection"} \subseteq loops'
    OBVIOUS
  <2>1. CASE StartWorkers
    BY <2>1 DEF StartWorkers
  <2>2. CASE ~StartWorkers
    <3>1. pc \in Working /\ ~Reconcile /\ ~Dies
      <4>1. Panics => pc' \notin Working
        BY DEF Panics
      <4>2. Dies => pc' \notin Working
        BY DEF Dies
      <4>3. Stops => pc \in Working
        BY DEF Stops, StopsAt
      <4>4. pc \in Working
        BY <1>1, <2>2, <4>1, <4>2, <4>3 DEF Road
      <4>5. Reconcile => pc = "reconcile"
        BY Zenon DEF Reconcile
      <4> QED
        BY <4>2, <4>4, <4>5
    <3>2. oms = "running" /\ pump # "none" /\ Loops \ {"projection"} \subseteq loops /\ ~Cancelled
      BY <1>1, <1>2, <3>1, Zenon DEF Manned
    <3>3. OmsEnds => FALSE
      BY <3>2, Zenon DEF OmsEnds
    <3>4. \A l \in Loops : ~LoopEnds(l)
      BY <3>2, Zenon DEF LoopEnds
    <3>5. Stops => oms' = oms
      <4>1. Stops /\ oms' # oms => pc = "stopOms"
        BY StopFrames, Zenon
      <4> QED
        BY <3>1, <4>1
    <3>6. FanOut => pump' # "none"
      BY <3>2 DEF FanOut
    <3> QED
      BY <1>1, <2>2, <3>1, <3>2, <3>3, <3>4, <3>5, <3>6, Zenon DEF Moves
  <2> QED
    BY <2>1, <2>2
<1>7. pump' = "done" => oms' = "closed" /\ updates' = 0
  <2> SUFFICES ASSUME pump' = "done"
               PROVE  oms' = "closed" /\ updates' = 0
    OBVIOUS
  <2>1. pump = "done" => oms = "closed" /\ updates = 0
    BY <1>1, Zenon DEF Manned
  <2>2. ~StartWorkers /\ ~Dies
    BY DEF StartWorkers, Dies, Gone
  <2>3. CASE FanOut
    <3>1. oms' = oms
      BY <2>3, WorkFrames, Zenon
    <3> QED
      BY <2>1, <2>3, <3>1 DEF FanOut
  <2>4. CASE ~FanOut
    <3>1. pump' = pump
      BY <1>1, <2>2, <2>4, Zenon DEF Moves
    <3>2. oms = "closed" /\ updates = 0
      BY <2>1, <3>1
    <3>3. ~OmsEnds /\ ~OrderUpdate
      BY <3>2 DEF OmsEnds, OrderUpdate
    <3>4. Stops => oms' \in {oms, "closed"}
      BY StopFrames
    <3>5. updates' = updates /\ (oms' = oms \/ Stops)
      BY <1>1, <2>2, <2>4, <3>3, Zenon DEF Moves
    <3> QED
      BY <3>2, <3>4, <3>5
  <2> QED
    BY <2>3, <2>4
<1> QED
  BY <1>3, <1>4, <1>5, <1>6, <1>7, Zenon DEF Manned

LEMMA LockedStep ==
  ASSUME IInv, [Next]_vars
  PROVE  Locked'
<1>1. Moves /\ Road /\ TypeOK /\ Silent /\ Locked
  BY StepMoves, Roads, Zenon DEF IInv
<1>2. serve' # {} => pump' = "sending"
  <2>1. serve # {} => pump = "sending"
    BY <1>1, Zenon DEF Locked
  <2>2. CASE FanOut
    BY <2>1, <2>2 DEF FanOut
  <2>3. CASE StartWorkers
    <3>1. pc = "markets" /\ serve' = serve
      BY <2>3, StartFrames, Zenon DEF StartWorkers
    <3> QED
      BY <1>1, <3>1 DEF Silent
  <2>4. CASE Dies
    BY <2>4 DEF Dies, Gone
  <2> QED
    BY <1>1, <2>1, <2>2, <2>3, <2>4, Zenon DEF Moves
<1>3. \A k \in serve' : sub'[k] # "closed"
  <2>1. sub \in [Subscribers -> {"none", "open", "leaving", "closed"}] /\ serve \subseteq Subscribers
    BY <1>1, Zenon DEF TypeOK
  <2>2. \A k \in serve : sub[k] # "closed"
    BY <1>1, Zenon DEF Locked
  <2>3. CASE FanOut
    <3>1. sub' = sub
      BY <2>3, WorkFrames, Zenon
    <3>2. serve' = {k \in Subscribers : sub[k] \in {"open", "leaving"}} \/ serve' \subseteq serve
      BY <2>3 DEF FanOut
    <3> QED
      BY <2>2, <3>1, <3>2
  <2>4. CASE Drained
    <3>1. serve' = serve /\ sub' = [k \in Subscribers |-> IF sub[k] = "open" THEN "leaving" ELSE sub[k]]
      BY <2>4, StartFrames, Zenon DEF Drained
    <3> QED
      BY <2>1, <2>2, <3>1
  <2>5. ASSUME NEW c \in Subscribers, RegisterOrderSubscriber(c) \/ ClientLeaves(c)
        PROVE  \A k \in serve' : sub'[k] # "closed"
    <3>1. serve' = serve
      BY <2>5, WorkFrames, Zenon
    <3>2. sub' = [sub EXCEPT ![c] = "open"] \/ sub' = [sub EXCEPT ![c] = "leaving"]
      BY <2>5, Zenon DEF RegisterOrderSubscriber, ClientLeaves
    <3> QED
      BY <2>1, <2>2, <3>1, <3>2
  <2>6. ASSUME NEW c \in Subscribers, Unregister(c)
        PROVE  \A k \in serve' : sub'[k] # "closed"
    <3>1. serve' = serve /\ pump # "sending"
      BY <2>6, WorkFrames, Zenon DEF Unregister
    <3>2. serve = {}
      BY <1>1, <3>1, Zenon DEF Locked
    <3> QED
      BY <3>1, <3>2
  <2>7. CASE Dies
    BY <2>7 DEF Dies, Gone
  <2>8. CASE sub' = sub /\ serve' = serve
    BY <2>2, <2>8, Zenon
  <2>9. CASE StartWorkers
    <3>1. serve' = serve /\ sub' = sub
      BY <2>9, StartFrames, Zenon
    <3> QED
      BY <2>8, <3>1
  <2> QED
    BY <1>1, <2>3, <2>4, <2>5, <2>6, <2>7, <2>8, <2>9, Zenon DEF Moves
<1> QED
  BY <1>2, <1>3, Zenon DEF Locked

LEMMA OverStep ==
  ASSUME IInv, [Next]_vars
  PROVE  Over'
<1> USE DEF AfterWait, AfterPump
<1>1. Moves /\ Road /\ TypeOK /\ Over
  BY StepMoves, Roads, Zenon DEF IInv
<1>2. pc' \in AfterWait => ~Dies /\ ~Reconcile /\ ~LaunchStrategies /\ ~StartWorkers
  <2>1. /\ Dies => pc' \notin AfterWait
        /\ LaunchStrategies => pc' \notin AfterWait
        /\ StartWorkers => pc' \notin AfterWait
    BY DEF Dies, LaunchStrategies, StartWorkers, Goto
  <2>2. Reconcile => pc' \in {"launch", "failed"}
    BY Zenon DEF Reconcile, Goto
  <2> QED
    BY <2>1, <2>2
<1>3. ASSUME pc' \in AfterWait
      PROVE  writer' = "done" /\ loops' = {} /\ \A s \in Strategies : ~reader'[s]
  <2>1. writer = "done" /\ loops = {} /\ \A s \in Strategies : ~reader[s]
    <3>1. CASE pc \in AfterWait
      BY <1>1, <3>1, Zenon DEF Over
    <3>2. CASE pc \notin AfterWait
      <4>1. Wait
        <5>1. Panics => pc' \notin AfterWait
          BY DEF Panics
        <5>2. Stops
          BY <1>1, <1>2, <1>3, <3>2, <5>1 DEF Road
        <5> QED
          BY <1>3, <3>2, <5>2 DEF Stops, StopsAt
      <4> QED
        BY <4>1, Zenon DEF Wait
    <3> QED
      BY <3>1, <3>2
  <2>2. ~WriteLog /\ (\A l \in Loops : ~LoopEnds(l)) /\ \A s \in Strategies : ~ReaderEnds(s)
    BY <2>1 DEF WriteLog, LoopEnds, ReaderEnds
  <2>3. writer' = writer /\ loops' = loops /\ reader' = reader
    BY <1>1, <1>2, <1>3, <2>2, Zenon DEF Moves
  <2> QED
    BY <2>1, <2>3, Zenon
<1>4. ASSUME pc' \in AfterPump
      PROVE  pump' = "done"
  <2>1. pump = "done"
    <3>1. CASE pc \in AfterPump
      BY <1>1, <3>1, Zenon DEF Over
    <3>2. CASE pc \notin AfterPump
      <4>1. Panics => pc' \notin AfterPump
        BY DEF Panics
      <4>2. Stops
        BY <1>1, <1>2, <1>4, <3>2, <4>1 DEF Road
      <4> QED
        BY <1>4, <3>2, <4>2 DEF Stops, StopsAt
    <3> QED
      BY <3>1, <3>2
  <2>2. ~FanOut
    BY <2>1 DEF FanOut
  <2>3. pc' \in AfterWait
    BY <1>4
  <2>4. pump' = pump
    BY <1>1, <1>2, <2>2, <2>3, Zenon DEF Moves
  <2> QED
    BY <2>1, <2>4
<1> QED
  BY <1>3, <1>4, Zenon DEF Over

-----------------------------------------------------------------------------
(* Configurations *)

LEMMA Values ==
  /\ Numbers \subseteq Int /\ Attempts \in Nat
  /\ Unset \notin Int /\ Blank \notin Int /\ Bad \notin Int
BY ConfigAssumption

LEMMA FileKeys ==
  ASSUME NEW f \in File
  PROVE  /\ DOMAIN f = {"log", "restart", "exchange", "buffers", "risk", "persistence", "channels", "decision", "markets",
                        "grpc"}
         /\ DOMAIN f.restart = {"enabled", "maxCrashes", "window", "initial", "max", "multiplier"}
         /\ DOMAIN f.exchange = {"name", "keys", "userID", "privateWS", "maxRetries"}
         /\ DOMAIN f.buffers = {"publicBuf", "privateBuf", "maxOpenConns"}
         /\ DOMAIN f.risk = {"enable", "maxOrderSize", "maxOpenOrders", "maxPositions", "maxLeverage", "lock"}
         /\ DOMAIN f.persistence = {"logDays", "snapshotDays", "cleanup"}
         /\ DOMAIN f.channels = {"signal", "order", "mainOrder", "market", "omsOrderUpdate", "omsCmd"}
         /\ DOMAIN f.decision = {"divisor", "refresh", "dir"}
<1>1. DOMAIN f = {"log", "restart", "exchange", "buffers", "risk", "persistence", "channels", "decision", "markets",
                  "grpc"}
  BY DEF File
<1>2. /\ DOMAIN f.restart = {"enabled", "maxCrashes", "window", "initial", "max", "multiplier"}
      /\ DOMAIN f.exchange = {"name", "keys", "userID", "privateWS", "maxRetries"}
      /\ DOMAIN f.buffers = {"publicBuf", "privateBuf", "maxOpenConns"}
  BY DEF File, RestartConfigRaw, ExchangeConfig, BufferConfig
<1>3. /\ DOMAIN f.risk = {"enable", "maxOrderSize", "maxOpenOrders", "maxPositions", "maxLeverage", "lock"}
      /\ DOMAIN f.persistence = {"logDays", "snapshotDays", "cleanup"}
      /\ DOMAIN f.channels = {"signal", "order", "mainOrder", "market", "omsOrderUpdate", "omsCmd"}
      /\ DOMAIN f.decision = {"divisor", "refresh", "dir"}
  BY DEF File, RiskConfig, PersistenceConfig, ChannelsConfig, DecisionConfig
<1> QED
  BY <1>1, <1>2, <1>3

\* A key that is not in the file has its default, one that is has its value.
LEMMA ReadKeys ==
  ASSUME NEW f \in File, NEW section \in DOMAIN f
  PROVE  /\ DOMAIN Read(f)[section] = DOMAIN f[section]
         /\ \A key \in DOMAIN f[section] :
              Read(f)[section][key] = IF f[section][key] = Unset THEN setDefaults[section][key] ELSE f[section][key]
BY DEF Read

LEMMA WrittenRead ==
  ASSUME NEW f \in File, NEW section \in DOMAIN f, NEW key \in DOMAIN f[section], f[section][key] \in Int
  PROVE  Read(f)[section][key] = f[section][key]
BY ReadKeys, Values

LEMMA OrFacts ==
  ASSUME NEW default
  PROVE  /\ \A value : default \in Int /\ default > 0 => Or(value, default) \in Int /\ Or(value, default) > 0
         /\ \A value \in Int : value > 0 => Or(value, default) = value
BY DEF Or

\* Whatever the file says, what must be positive is (Buildable).
LEMMA AllBuildable ==
  ASSUME NEW f \in File
  PROVE  Buildable(f)
<1> DEFINE raw == Read(f)
           p == Params(f)
<1> SUFFICES ASSUME Accepted(f)
             PROVE  /\ Positive(p.channels) /\ Positive(p.buffers) /\ p.maxOpenConns > 0
                    /\ p.maxRetries > 0 /\ p.divisor > 0 /\ p.refresh > 0
                    /\ p.restart.maxCrashes > 0 /\ p.restart.window > 0
                    /\ p.persistence.cleanup > 0 /\ p.persistence.logDays >= 0 /\ p.persistence.snapshotDays >= 0
  BY Zenon DEF Buildable
<1>1. /\ p.channels = Channels(raw) /\ p.buffers = WithChannelBuffers(raw)
      /\ p.maxOpenConns = Or(raw.buffers.maxOpenConns, 1) /\ p.maxRetries = Or(raw.exchange.maxRetries, 3)
      /\ p.divisor = Or(raw.decision.divisor, 10) /\ p.refresh = ProjectionRefreshInterval(raw)
      /\ p.restart = parseRestartSettings(raw.restart) /\ p.persistence = parsePersistenceSettings(raw.persistence)
  BY DEF Params
<1>2. Positive(p.channels)
  <2>1. DOMAIN raw.channels = {"signal", "order", "mainOrder", "market", "omsOrderUpdate", "omsCmd"}
    BY FileKeys, ReadKeys
  <2>2. \A key \in DOMAIN raw.channels : setDefaults.channels[key] \in Int /\ setDefaults.channels[key] > 0
    BY <2>1 DEF setDefaults
  <2> HIDE DEF raw
  <2> QED
    BY <1>1, <2>2, OrFacts DEF Channels, Positive
<1>3. Positive(p.buffers)
  <2> HIDE DEF raw
  <2>1. p.buffers = [publicBuf |-> Or(raw.buffers.publicBuf, 512), privateBuf |-> Or(raw.buffers.privateBuf, 256)]
    BY <1>1 DEF WithChannelBuffers
  <2> HIDE DEF p
  <2> QED
    BY <2>1, OrFacts DEF Positive
<1>4. p.maxOpenConns > 0 /\ p.maxRetries > 0 /\ p.divisor > 0 /\ p.refresh > 0
  <2> HIDE DEF raw, p
  <2> QED
    BY <1>1, OrFacts DEF ProjectionRefreshInterval
<1>5. p.restart.maxCrashes > 0 /\ p.restart.window > 0
  <2>1. p.restart.window > 0
    BY <1>1 DEF Accepted, validate
  <2>2. p.restart.maxCrashes = Or(raw.restart.maxCrashes, 3)
    BY <1>1 DEF parseRestartSettings
  <2> HIDE DEF raw, p
  <2> QED
    BY <2>1, <2>2, OrFacts
<1>6. p.persistence.cleanup > 0 /\ p.persistence.logDays >= 0 /\ p.persistence.snapshotDays >= 0
  <2>1. DOMAIN raw.persistence = {"logDays", "snapshotDays", "cleanup"}
    BY FileKeys, ReadKeys
  <2>2. raw.persistence.logDays >= 0 /\ raw.persistence.snapshotDays >= 0
    BY DEF Accepted, parses
  <2>3. raw.persistence = [key \in DOMAIN raw.persistence |-> raw.persistence[key]]
    BY FileKeys DEF Read
  <2>4. p.persistence = [raw.persistence EXCEPT !.cleanup = Or(raw.persistence.cleanup, 3600)]
    BY <1>1 DEF parsePersistenceSettings
  <2> HIDE DEF raw, p
  <2>5. /\ p.persistence.cleanup = Or(raw.persistence.cleanup, 3600)
        /\ p.persistence.logDays = raw.persistence.logDays
        /\ p.persistence.snapshotDays = raw.persistence.snapshotDays
    BY <2>1, <2>3, <2>4
  <2> QED
    BY <2>2, <2>5, OrFacts
<1> QED
  BY <1>2, <1>3, <1>4, <1>5, <1>6

\* What is written and positive is in use, each number in its own place (WrittenIsUsed).
LEMMA AllUsed ==
  ASSUME NEW f \in File
  PROVE  WrittenIsUsed(f)
<1> DEFINE raw == Read(f)
           p == Params(f)
           used(section, key, value) == f[section][key] \in Int /\ f[section][key] > 0 => value = f[section][key]
<1>1. /\ p.channels = Channels(raw) /\ p.buffers = WithChannelBuffers(raw)
      /\ p.maxOpenConns = Or(raw.buffers.maxOpenConns, 1) /\ p.maxRetries = Or(raw.exchange.maxRetries, 3)
      /\ p.divisor = Or(raw.decision.divisor, 10) /\ p.refresh = ProjectionRefreshInterval(raw)
      /\ p.restart = parseRestartSettings(raw.restart) /\ p.persistence = parsePersistenceSettings(raw.persistence)
      /\ p.rules = RiskRules(raw.risk)
  BY DEF Params
<1>2. ASSUME NEW section \in DOMAIN f, NEW key \in DOMAIN f[section], NEW default
      PROVE  used(section, key, Or(raw[section][key], default))
  <2>1. f[section][key] \in Int => raw[section][key] = f[section][key]
    BY <1>2, WrittenRead
  <2> QED
    BY <2>1, OrFacts
<1>3. \A key \in DOMAIN f.channels : used("channels", key, p.channels[key])
  <2>1. "channels" \in DOMAIN f /\ DOMAIN raw.channels = DOMAIN f.channels
    BY FileKeys, ReadKeys
  <2>2. p.channels = [key \in DOMAIN f.channels |-> Or(raw.channels[key], setDefaults.channels[key])]
    BY <1>1, <2>1 DEF Channels
  <2> HIDE DEF raw, p
  <2> QED
    BY <1>2, <2>1, <2>2
<1>4. \A key \in DOMAIN p.buffers : used("buffers", key, p.buffers[key])
  <2>1. "buffers" \in DOMAIN f /\ "publicBuf" \in DOMAIN f.buffers /\ "privateBuf" \in DOMAIN f.buffers
    BY FileKeys
  <2>2. p.buffers = [publicBuf |-> Or(raw.buffers.publicBuf, 512), privateBuf |-> Or(raw.buffers.privateBuf, 256)]
    BY <1>1 DEF WithChannelBuffers
  <2>3. /\ used("buffers", "publicBuf", Or(raw.buffers.publicBuf, 512))
        /\ used("buffers", "privateBuf", Or(raw.buffers.privateBuf, 256))
    BY <1>2, <2>1
  <2> HIDE DEF raw, p
  <2> QED
    BY <2>2, <2>3
<1>5. \A key \in DOMAIN f.persistence : used("persistence", key, p.persistence[key])
  <2>1. "persistence" \in DOMAIN f /\ DOMAIN f.persistence = {"logDays", "snapshotDays", "cleanup"}
        /\ DOMAIN raw.persistence = DOMAIN f.persistence
    BY FileKeys, ReadKeys
  <2>2. raw.persistence = [key \in DOMAIN raw.persistence |-> raw.persistence[key]]
    BY FileKeys DEF Read
  <2>3. p.persistence = [raw.persistence EXCEPT !.cleanup = Or(raw.persistence.cleanup, 3600)]
    BY <1>1 DEF parsePersistenceSettings
  <2>4. used("persistence", "cleanup", Or(raw.persistence.cleanup, 3600))
    BY <1>2, <2>1
  <2>5. \A key \in DOMAIN f.persistence : f.persistence[key] \in Int => raw.persistence[key] = f.persistence[key]
    BY <2>1, WrittenRead
  <2> HIDE DEF raw, p
  <2> QED
    BY <2>1, <2>2, <2>3, <2>4, <2>5
<1>6. \A key \in DOMAIN f.restart \ {"enabled"} : used("restart", key, p.restart[key])
  <2>1. "restart" \in DOMAIN f /\ DOMAIN f.restart = {"enabled", "maxCrashes", "window", "initial", "max", "multiplier"}
    BY FileKeys
  <2>2. /\ used("restart", "maxCrashes", Or(raw.restart.maxCrashes, 3))
        /\ used("restart", "multiplier", Or(raw.restart.multiplier, 2))
    BY <1>2, <2>1
  <2>3. \A key \in DOMAIN f.restart : f.restart[key] \in Int => raw.restart[key] = f.restart[key] /\ raw.restart[key] # Blank
    BY <2>1, WrittenRead, Values
  <2>4. /\ p.restart.maxCrashes = Or(raw.restart.maxCrashes, 3) /\ p.restart.multiplier = Or(raw.restart.multiplier, 2)
        /\ \A key \in {"window", "initial", "max"} : raw.restart[key] # Blank => p.restart[key] = raw.restart[key]
    BY <1>1 DEF parseRestartSettings
  <2> HIDE DEF raw, p
  <2> QED
    BY <2>1, <2>2, <2>3, <2>4
<1>7. \A key \in DOMAIN f.risk \ {"enable", "lock"} : used("risk", key, p.rules[key])
  <2>1. "risk" \in DOMAIN f
        /\ DOMAIN f.risk = {"enable", "maxOrderSize", "maxOpenOrders", "maxPositions", "maxLeverage", "lock"}
    BY FileKeys
  <2>2. /\ used("risk", "maxOrderSize", Or(raw.risk.maxOrderSize, 100000))
        /\ used("risk", "maxOpenOrders", Or(raw.risk.maxOpenOrders, 50))
        /\ used("risk", "maxPositions", Or(raw.risk.maxPositions, 20))
        /\ used("risk", "maxLeverage", Or(raw.risk.maxLeverage, 0))
    BY <1>2, <2>1
  <2>3. /\ p.rules.maxOrderSize = Or(raw.risk.maxOrderSize, 100000)
        /\ p.rules.maxOpenOrders = Or(raw.risk.maxOpenOrders, 50)
        /\ p.rules.maxPositions = Or(raw.risk.maxPositions, 20)
        /\ p.rules.maxLeverage = Or(raw.risk.maxLeverage, 0)
    BY <1>1 DEF RiskRules
  <2> HIDE DEF raw, p
  <2> QED
    BY <2>1, <2>2, <2>3
<1>8. /\ used("exchange", "maxRetries", p.maxRetries) /\ used("buffers", "maxOpenConns", p.maxOpenConns)
      /\ used("decision", "divisor", p.divisor) /\ used("decision", "refresh", p.refresh)
  <2>1. /\ "exchange" \in DOMAIN f /\ "maxRetries" \in DOMAIN f.exchange
        /\ "buffers" \in DOMAIN f /\ "maxOpenConns" \in DOMAIN f.buffers
        /\ "decision" \in DOMAIN f /\ "divisor" \in DOMAIN f.decision /\ "refresh" \in DOMAIN f.decision
    BY FileKeys
  <2>2. /\ used("exchange", "maxRetries", Or(raw.exchange.maxRetries, 3))
        /\ used("buffers", "maxOpenConns", Or(raw.buffers.maxOpenConns, 1))
        /\ used("decision", "divisor", Or(raw.decision.divisor, 10))
        /\ used("decision", "refresh", Or(raw.decision.refresh, 10))
    BY <1>2, <2>1
  <2> HIDE DEF raw, p
  <2> QED
    BY <1>1, <2>2 DEF ProjectionRefreshInterval
<1> QED
  BY <1>3, <1>4, <1>5, <1>6, <1>7, <1>8 DEF WrittenIsUsed

-----------------------------------------------------------------------------
(* Pauses *)

\* Induction over an interval, from the finiteness of what would be left out: the
\* predecessor of each number left out would be left out too.
LEMMA UpTo ==
  ASSUME NEW n \in Nat, NEW S, 0 \in S, \A i \in 0..(n - 1) : i \in S => i + 1 \in S
  PROVE  0..n \subseteq S
<1> SUFFICES ASSUME NEW m \in 0..n, m \notin S
             PROVE  FALSE
  OBVIOUS
<1> DEFINE Left == (0..m) \ S
           f == [i \in Left |-> i - 1]
<1>1. IsFiniteSet(Left)
  <2>1. IsFiniteSet(0..m)
    BY FS_Interval
  <2> QED
    BY <2>1, FS_Subset
<1>2. \A i \in Left : i - 1 \in Left /\ i \in 0..m
  OBVIOUS
<1>3. f \in Injection(Left, Left)
  BY <1>2 DEF Injection, IsInjective
<1>4. f \in Surjection(Left, Left)
  BY <1>1, <1>3, FS_Injection
<1>5. m \in Left
  OBVIOUS
<1>6. PICK i \in Left : i - 1 = m
  BY <1>4, <1>5 DEF Surjection
<1> QED
  BY <1>2, <1>6

\* The pauses without their cap, as computeBackoff multiplies them up.
Uncapped(initial, multiplier) ==
  CHOOSE pause : pause = [i \in 0..Attempts |-> IF i = 0 THEN initial ELSE pause[i - 1] * multiplier]

LEMMA UncappedExists ==
  ASSUME NEW initial \in Int, NEW multiplier \in Int
  PROVE  LET pause == Uncapped(initial, multiplier)
         IN  pause = [i \in 0..Attempts |-> IF i = 0 THEN initial ELSE pause[i - 1] * multiplier]
<1> DEFINE Steps(f, n) == f[0] = initial /\ \A i \in 1..n : f[i] = f[i - 1] * multiplier
           S == {n \in 0..Attempts : \E f \in [0..n -> Int] : Steps(f, n)}
<1>1. Attempts \in Nat
  BY Values
<1>2. 0 \in S
  <2>1. [i \in 0..0 |-> initial] \in [0..0 -> Int] /\ Steps([i \in 0..0 |-> initial], 0)
    OBVIOUS
  <2>2. \E f \in [0..0 -> Int] : Steps(f, 0)
    BY <2>1, Zenon
  <2>3. 0 \in 0..Attempts
    BY <1>1
  <2> QED
    BY <2>2, <2>3, Zenon
<1>3. ASSUME NEW n \in 0..(Attempts - 1), n \in S
      PROVE  n + 1 \in S
  <2>1. PICK f \in [0..n -> Int] : Steps(f, n)
    BY <1>3
  <2> DEFINE g == [i \in 0..(n + 1) |-> IF i = n + 1 THEN f[n] * multiplier ELSE f[i]]
  <2>2. n \in Nat /\ n + 1 \in 0..Attempts
    BY <1>1
  <2>3. g \in [0..(n + 1) -> Int]
    BY <2>2
  <2>4. Steps(g, n + 1)
    BY <2>1, <2>2
  <2> QED
    BY <2>2, <2>3, <2>4
<1>4. Attempts \in S
  <2> HIDE DEF S
  <2>1. 0..Attempts \subseteq S
    BY <1>1, <1>2, <1>3, UpTo
  <2> QED
    BY <1>1, <2>1
<1>5. PICK f \in [0..Attempts -> Int] : Steps(f, Attempts)
  BY <1>4
<1>6. f = [i \in 0..Attempts |-> IF i = 0 THEN initial ELSE f[i - 1] * multiplier]
  BY <1>1, <1>5
<1> QED
  BY <1>6, Zenon DEF Uncapped

\* They start with the first pause and do not shrink.
LEMMA UncappedGrows ==
  ASSUME NEW initial \in Int, NEW multiplier \in Int, initial > 0, multiplier > 0
  PROVE  LET pause == Uncapped(initial, multiplier)
         IN  /\ pause[0] = initial
             /\ \A i \in 0..Attempts : pause[i] \in Int
             /\ \A i \in 1..Attempts : pause[i] >= pause[i - 1]
<1> DEFINE pause == Uncapped(initial, multiplier)
           S == {i \in 0..Attempts : pause[i] \in Int /\ pause[i] > 0}
<1>1. Attempts \in Nat
  BY Values
<1>2. pause = [i \in 0..Attempts |-> IF i = 0 THEN initial ELSE pause[i - 1] * multiplier]
  BY UncappedExists
<1>3. pause[0] = initial
  BY <1>1, <1>2
<1>4. \A i \in 1..Attempts : pause[i] = pause[i - 1] * multiplier
  BY <1>1, <1>2
<1> HIDE DEF pause
<1>5. \A x, m \in Int : x > 0 /\ m > 0 => x * m \in Int /\ x * m > 0 /\ x * m >= x
  OBVIOUS
<1>6. 0 \in S
  BY <1>1, <1>3
<1>7. ASSUME NEW i \in 0..(Attempts - 1), i \in S
      PROVE  i + 1 \in S
  <2>1. i + 1 \in 1..Attempts /\ i + 1 - 1 = i /\ i + 1 \in 0..Attempts
    BY <1>1
  <2>2. pause[i + 1] = pause[i] * multiplier
    BY <1>4, <2>1
  <2>3. pause[i] \in Int /\ pause[i] > 0
    BY <1>7
  <2> QED
    BY <1>5, <2>1, <2>2, <2>3
<1>8. 0..Attempts \subseteq S
  <2> HIDE DEF S
  <2> QED
    BY <1>1, <1>6, <1>7, UpTo
<1>9. ASSUME NEW i \in 1..Attempts
      PROVE  pause[i] >= pause[i - 1]
  <2>1. i - 1 \in 0..Attempts
    BY <1>1
  <2>2. pause[i - 1] \in Int /\ pause[i - 1] > 0
    BY <1>8, <2>1
  <2> QED
    BY <1>4, <1>5, <2>2
<1> QED
  BY <1>3, <1>8, <1>9 DEF pause

\* The pauses of an accepted file grow up to their limit (PausesGrow).
LEMMA AllGrow ==
  ASSUME NEW f \in File
  PROVE  PausesGrow(f)
<1> DEFINE raw == Read(f)
           restart == Params(f).restart
           pause(i) == computeBackoff(restart, i)
<1> SUFFICES ASSUME Accepted(f)
             PROVE  /\ restart.initial >= 0 => pause(0) = restart.initial
                    /\ \A i \in 1..Attempts : pause(i) >= pause(i - 1)
                    /\ restart.max > 0 => \A i \in 0..Attempts : pause(i) <= restart.max
  BY DEF PausesGrow
<1>1. Attempts \in Nat
  BY Values
<1>2. /\ restart.initial = IF raw.restart.initial = Blank THEN setDefaults.restart.initial ELSE raw.restart.initial
      /\ restart.max = IF raw.restart.max = Blank THEN setDefaults.restart.max ELSE raw.restart.max
      /\ restart.multiplier = Or(raw.restart.multiplier, 2)
      /\ restart = parseRestartSettings(raw.restart)
  BY DEF Params, parseRestartSettings
<1>3. restart.initial \in Int /\ restart.max \in Int
  <2>1. "restart" \in DOMAIN f /\ "initial" \in DOMAIN f.restart /\ "max" \in DOMAIN f.restart
    BY FileKeys
  <2>2. f.restart.initial \in Duration /\ f.restart.max \in Duration
    BY DEF File, RestartConfigRaw
  <2>3. raw.restart.initial # Bad /\ raw.restart.max # Bad
    BY DEF Accepted, parses
  <2>4. /\ raw.restart.initial = IF f.restart.initial = Unset THEN setDefaults.restart.initial ELSE f.restart.initial
        /\ raw.restart.max = IF f.restart.max = Unset THEN setDefaults.restart.max ELSE f.restart.max
    BY <2>1, ReadKeys
  <2>5. setDefaults.restart.initial = 3 /\ setDefaults.restart.max = 60
    BY DEF setDefaults
  <2>6. ASSUME NEW x \in Duration, NEW y, NEW z, NEW d \in Int, y # Bad,
               y = IF x = Unset THEN d ELSE x, z = IF y = Blank THEN d ELSE y
        PROVE  z \in Int
    BY <2>6, Values DEF Duration, Number
  <2> HIDE DEF raw, restart
  <2>7. restart.initial \in Int
    BY <1>2, <2>2, <2>3, <2>4, <2>5, <2>6
  <2>8. restart.max \in Int
    BY <1>2, <2>2, <2>3, <2>4, <2>5, <2>6
  <2> QED
    BY <2>7, <2>8
<1>4. restart.multiplier \in Int /\ restart.multiplier > 0
  <2> HIDE DEF raw, restart
  <2> QED
    BY <1>2, OrFacts
<1>5. restart.max > 0 => restart.max >= restart.initial
  BY <1>2, Zenon DEF Accepted, validate
<1> HIDE DEF restart
<1> DEFINE free == Uncapped(restart.initial, restart.multiplier)
<1>6. ASSUME NEW i
      PROVE  pause(i) = IF restart.initial <= 0 THEN 0
                        ELSE IF restart.max > 0 /\ free[i] > restart.max THEN restart.max ELSE free[i]
  BY Zenon DEF computeBackoff, Uncapped
<1> HIDE DEF pause
<1>7. CASE restart.initial <= 0
  <2>1. \A i : pause(i) = 0
    BY <1>6, <1>7
  <2> QED
    BY <1>1, <1>3, <1>7, <2>1
<1>8. CASE restart.initial > 0
  <2>1. /\ free[0] = restart.initial
        /\ \A i \in 0..Attempts : free[i] \in Int
        /\ \A i \in 1..Attempts : free[i] >= free[i - 1]
    BY <1>3, <1>4, <1>8, UncappedGrows
  <2> HIDE DEF free
  <2>2. \A i : pause(i) = IF restart.max > 0 /\ free[i] > restart.max THEN restart.max ELSE free[i]
    BY <1>3, <1>6, <1>8
  <2>3. pause(0) = restart.initial
    BY <1>3, <1>5, <2>1, <2>2
  <2>4. ASSUME NEW i \in 1..Attempts
        PROVE  pause(i) >= pause(i - 1)
    <3>1. i \in 0..Attempts /\ i - 1 \in 0..Attempts
      BY <1>1
    <3>2. free[i] \in Int /\ free[i - 1] \in Int /\ free[i] >= free[i - 1]
      BY <2>1, <3>1
    <3> QED
      BY <1>3, <2>2, <3>2
  <2>5. ASSUME NEW i \in 0..Attempts, restart.max > 0
        PROVE  pause(i) <= restart.max
    <3>1. free[i] \in Int
      BY <2>1
    <3> QED
      BY <1>3, <2>2, <2>5, <3>1
  <2> QED
    BY <2>3, <2>4, <2>5
<1> QED
  BY <1>3, <1>7, <1>8

-----------------------------------------------------------------------------
(* The invariant *)

LEMMA Initially == Init => IInv
<1> SUFFICES ASSUME Init
             PROVE  IInv
  OBVIOUS
<1>1. /\ pc = "config" /\ file \in Files
      /\ settings = [supported |-> TRUE, grpc |-> "off"]
      /\ schema = [version |-> 0, tables |-> {}]
      /\ store = "none" /\ running = FALSE /\ flushed = "no"
      /\ proc = [s \in Strategies |-> "none"] /\ reader = [s \in Strategies |-> FALSE]
      /\ rpc = [s \in Strategies |-> {}] /\ memory = [s \in Strategies |-> 0]
      /\ logCh = "none" /\ queued = 0 /\ writer = "none"
      /\ loops = {} /\ snapshot = FALSE /\ handler = "idle"
      /\ oms = "none" /\ updates = 0 /\ pump = "none" /\ serve = {}
      /\ sub = [k \in Subscribers |-> "none"]
      /\ record = [s \in Strategies |-> 0] /\ acked = record /\ unsaved = [s \in Strategies |-> FALSE]
      /\ overlapped = [s \in Strategies |-> FALSE]
      /\ events = 0
  BY Zenon DEF Init, Fresh
<1>2. TypeOK
  <2>1. pc \in Booting
    BY <1>1 DEF Booting
  <2>2. settings \in [supported : BOOLEAN, grpc : {"off", "refused", "on"}]
        /\ schema \in [version : 0..2, tables : SUBSET (0..2)]
    BY <1>1
  <2>3. /\ proc \in [Strategies -> {"none", "live", "deaf", "dead"}] /\ reader \in [Strategies -> BOOLEAN]
        /\ {unsaved, overlapped} \subseteq [Strategies -> BOOLEAN]
        /\ sub \in [Subscribers -> {"none", "open", "leaving", "closed"}]
    BY <1>1
  <2>4. rpc \in [Strategies -> SUBSET Call]
    BY <1>1
  <2>5. {memory, record, acked} \subseteq [Strategies -> 0..MaxSets]
    BY <1>1, Bounds
  <2>6. queued \in 0..LogCap /\ updates \in 0..MaxEvents
    BY <1>1, Bounds
  <2>7. /\ store \in {"none", "open", "closed"} /\ running \in BOOLEAN /\ flushed \in {"no", "all", "part"}
        /\ logCh \in {"none", "open", "closed"} /\ writer \in {"none", "running", "done"}
        /\ loops \subseteq Loops /\ snapshot \in BOOLEAN /\ handler \in {"idle", "checked"}
        /\ oms \in {"none", "running", "ended", "closed"}
        /\ pump \in {"none", "idle", "sending", "done"} /\ serve \subseteq Subscribers
    BY <1>1
  <2> QED
    BY <2>1, <2>2, <2>3, <2>4, <2>5, <2>6, <2>7, Zenon DEF TypeOK
<1>3. FileGiven /\ Counted /\ Silent
  BY <1>1, Bounds DEF FileGiven, Counted, Silent
<1>4. Migrated
  BY <1>1 DEF Migrated
<1>5. Nothing
  BY <1>1 DEF Nothing
<1>6. Staged
  BY <1>1 DEF Staged, Opened, Working, AfterFlush, AfterLog, AfterWait, AfterPump
<1>7. Ahead /\ Durable
  BY <1>1 DEF Ahead, Durable
<1>8. Manned /\ Locked /\ Over
  BY <1>1 DEF Manned, Locked, Over, Working, AfterWait, AfterPump
<1> QED
  BY <1>2, <1>3, <1>4, <1>5, <1>6, <1>7, <1>8, Zenon DEF IInv

LEMMA Inductive == IInv /\ [Next]_vars => IInv'
BY TypeStep, FileStep, MigratedStep, CountedStep, NothingStep, SilentStep, StagedStep, AheadStep, DurableStep,
   MannedStep, LockedStep, OverStep, Zenon DEF IInv

\* The parts above hold in every state of the daemon (main, Engine.Start, Engine.Stop).
THEOREM Invariance == Spec => []IInv
BY Initially, Inductive, PTL DEF Spec

\* What a strategy was told is set is on disk unless the last save of it failed, and after a
\* shutdown that flushed everything in any case, except while calls have overlapped and
\* neither a later call alone nor a flush has saved the newest; and a kill during a migration leaves no
\* version without its tables (SetStrategyCustomState, Stop, initSchema).
THEOREM StateSurvives == Spec => []AckedStateSurvives
<1>1. IInv => AckedStateSurvives
  <2> SUFFICES ASSUME IInv
               PROVE  AckedStateSurvives
    OBVIOUS
  <2>1. Staged /\ Durable /\ Migrated /\ flushed \in {"no", "all", "part"}
    BY Zenon DEF IInv, TypeOK
  <2>2. pc \in {"exited", "panicked"} => flushed # "no"
    BY <2>1 DEF Staged, AfterFlush, AfterLog, AfterWait, AfterPump
  <2>3. pc \in {"exited", "panicked"} /\ flushed # "part" => flushed = "all"
    BY <2>1, <2>2
  <2> QED
    BY <2>1, <2>3, Zenon DEF Durable, Migrated, AckedStateSurvives
<1> QED
  BY <1>1, Invariance, PTL

\* Everything that works together is there as long as it is needed, from the API's first
\* call to the return from Engine.Stop (requireRunning, orderFanoutLoop, Stop).
THEOREM WholeAsNeeded == Spec => []WholeWhileNeeded
<1>1. IInv => WholeWhileNeeded
  <2> SUFFICES ASSUME IInv
               PROVE  WholeWhileNeeded
    OBVIOUS
  <2>1. TypeOK /\ Staged /\ Manned /\ Locked /\ Over
    BY Zenon DEF IInv
  <2>2. ASSUME running
        PROVE  /\ store = "open" /\ logCh = "open" /\ writer = "running"
               /\ oms = "running" /\ pump \in {"idle", "sending"}
               /\ Loops \ {"projection"} \subseteq loops
    <3>1. pc \in {"serving", "draining", "stopMarkets"}
      BY <2>1, <2>2, Zenon DEF Manned
    <3>2. pc \in Opened /\ pc \in Working /\ pc \in (Working \ {"cancel"}) \cup {"launch", "markets"}
      BY <3>1 DEF Opened, Working
    <3>3. store = "open" /\ logCh = "open" /\ writer = "running" /\ oms = "running" /\ pump # "none"
          /\ Loops \ {"projection"} \subseteq loops
      BY <2>1, <3>2, Zenon DEF Staged, Manned
    <3>4. pump # "done"
      BY <2>1, <3>3 DEF Manned
    <3> QED
      BY <2>1, <3>3, <3>4 DEF TypeOK
  <2>3. ASSUME pc = "exited"
        PROVE  /\ queued = 0 /\ updates = 0 /\ loops = {}
               /\ writer = "done" /\ pump = "done"
               /\ \A s \in Strategies : ~reader[s] /\ proc[s] \notin {"live", "deaf"}
    <3>1. pc \in AfterWait /\ pc \in AfterPump
      BY <2>3 DEF AfterWait, AfterPump
    <3>2. writer = "done" /\ loops = {} /\ pump = "done" /\ \A s \in Strategies : ~reader[s]
      BY <2>1, <3>1, Zenon DEF Over
    <3>3. queued = 0 /\ updates = 0
      BY <2>1, <3>2, Zenon DEF Manned
    <3>4. \A s \in Strategies : proc[s] \notin {"live", "deaf"}
      BY <2>1, <2>3 DEF Staged
    <3> QED
      BY <3>2, <3>3, <3>4, Zenon
  <2>4. \A k \in serve : sub[k] # "closed"
    BY <2>1, Zenon DEF Locked
  <2> QED
    BY <2>1, <2>2, <2>3, <2>4, Zenon DEF WholeWhileNeeded
<1> QED
  BY <1>1, Invariance, PTL

\* Whatever file the daemon is given: if Load accepts it, the daemon can be built with it, the
\* pauses between restarts grow up to their limit, and every positive number in it is the one
\* in use (Load, validate, NewEngine, computeBackoff).
THEOREM ConfigWorks == Spec => []AcceptedConfigWorks
<1>1. IInv => AcceptedConfigWorks
  BY AllBuildable, AllUsed, AllGrow, Bounds, Zenon DEF IInv, FileGiven, AcceptedConfigWorks
<1> QED
  BY <1>1, Invariance, PTL
=============================================================================
