--------------------------- MODULE StrategyLifecycle ---------------------------
(***************************************************************************)
(* The life of one strategy: its python processes, the reader and monitor  *)
(* goroutines the engine keeps per process, the crash window, the restart  *)
(* goroutines and the shutdown of the engine.                              *)
(*                                                                         *)
(* The catalog entry is enabled and restarts are configured.  Back-off     *)
(* lengths (restartAttempt) and the pendingRestart display are left out: a *)
(* restart goroutine may wake at any time.  Processes and crash records    *)
(* are numbered in the order they appear; times holds numbers of records,  *)
(* the first `expired` of which have left the crash window.                *)
(***************************************************************************)
EXTENDS Naturals, Sequences, FiniteSets

CONSTANTS
  MaxCrashes,   \* restartCfg.MaxCrashes
  MaxFailures,  \* maxConsecutiveRestartFailures
  MaxStarts,    \* bound: StartStrategy calls
  MaxStops,     \* bound: StopStrategy calls
  MaxFaults,    \* bound: processes that crash or fall silent, launches that fail
  MaxProcs,     \* bound: processes launched
  MaxRecords    \* bound: crash records

ASSUME LifecycleAssumption ==
  /\ {MaxCrashes, MaxFailures, MaxProcs, MaxRecords} \subseteq Nat \ {0}
  /\ {MaxStarts, MaxStops, MaxFaults} \subseteq Nat

VARIABLES
  registered,  \* the process of strategyProcess[name], or NoProc
  launched,    \* processes created so far
  alive,       \* processes the operating system runs
  silent,      \* processes from which no heartbeat is read any more
  cancelled,   \* processes whose context is done
  watcher,     \* the reader and the heartbeat monitor of every process
  stopping,    \* processes in the two seconds of StrategyProcess.Stop
  subs,        \* router: tickerRef held for the strategy, and its candle entry
  restarter,   \* per crash record, the goroutine that may schedule a restart, then the one it schedules
  times,       \* crashTracker.times[name]
  records,
  expired,
  killSwitch,
  phase,       \* Engine.Stop
  starts,
  stops,
  faults

procs == <<registered, launched, alive, silent, cancelled, watcher, stopping, subs>>
tracker == <<times, records, expired>>
bounds == <<starts, stops, faults>>
vars == <<procs, restarter, tracker, killSwitch, phase, bounds>>

NoProc == 0
Proc == 1..MaxProcs
Record == 1..MaxRecords

\* A watcher has unregistered the name (exited) and will record the crash next.
Watcher == {"none", "watching", "exited", "done"}
Kind == {"reader", "monitor"}

\* recorded, uncancelled, cleared: handleProcessExit has recorded the crash, found the context
\* alive, the kill switch off.  backoff: asleep.  loop: woken, about to check again.
\* launching: both checks passed.
Restarter ==
  [pc : {"none", "recorded", "uncancelled", "cleared", "backoff", "loop", "launching", "done"},
   failures : 0..MaxFailures]

\* running -> stopping (StopAllStrategies) -> cancelled -> drained (restartWg) -> stopped (wg)
Phase == {"running", "stopping", "cancelled", "drained", "stopped"}
ctxDone == phase \in {"cancelled", "drained", "stopped"}
Deciding(c) == restarter[c].pc \in {"recorded", "uncancelled", "cleared"}
Restarting(c) == restarter[c].pc \in {"backoff", "loop", "launching"}

\* Types, and that everything started is numbered below what was launched or recorded.
TypeOK ==
  /\ registered \in 0..launched
  /\ launched \in 0..MaxProcs
  /\ alive \subseteq 1..launched
  /\ silent \subseteq 1..launched
  /\ cancelled \subseteq 1..launched
  /\ stopping \subseteq 1..launched
  /\ watcher \in [Kind -> [Proc -> Watcher]]
  /\ subs \in [refs : Nat, candle : BOOLEAN]
  /\ restarter \in [Record -> Restarter]
  /\ records \in 0..MaxRecords
  /\ expired \in 0..records
  /\ times \in Seq(1..records)
  /\ killSwitch \in BOOLEAN
  /\ phase \in Phase
  /\ starts \in 0..MaxStarts /\ stops \in 0..MaxStops /\ faults \in 0..MaxFaults
  /\ \A k \in Kind : \A p \in Proc : p > launched => watcher[k][p] = "none"
  /\ \A c \in Record : c > records => restarter[c].pc = "none"

-----------------------------------------------------------------------------
(* The crash window.  pruneCrashTimes filters in place; countInWindow does *)
(* not store the shorter slice it returns, so the slots behind the kept    *)
(* records keep what they held.                                            *)

Kept(ts) == {i \in DOMAIN ts : ts[i] > expired}

\* The place of i among the kept records.
Rank(ts, i) == Cardinality({k \in Kept(ts) : k <= i})

pruned(ts) ==
  [j \in 1..Cardinality(Kept(ts)) |-> ts[CHOOSE i \in Kept(ts) : Rank(ts, i) = j]]

crashCount == Len(pruned(times))

\* Mutant: the crash is counted and not stored.
recordCrashUnstored ==
  /\ records < MaxRecords
  /\ records' = records + 1
  /\ times' = pruned(times)
  /\ UNCHANGED expired

recordCrash ==
  /\ records < MaxRecords
  /\ records' = records + 1
  /\ times' = pruned(Append(times, records + 1))
  /\ UNCHANGED expired

countInWindow ==
  /\ times' = pruned(times) \o SubSeq(times, crashCount + 1, Len(times))
  /\ UNCHANGED <<records, expired>>

circuitOpen == crashCount >= MaxCrashes

\* Time passes.
Expire ==
  /\ expired < records
  /\ expired' = expired + 1
  /\ UNCHANGED <<times, records, procs, restarter, killSwitch, phase, bounds>>

-----------------------------------------------------------------------------
(* launchStrategy, under processMu *)

\* What can go wrong in a launch: the router's Subscribe (its table is changed all the
\* same), the fork, the init message or the warm-up.  A cancelled context forks nothing.
Outcomes == IF ctxDone THEN {"refused", "nofork"} ELSE {"ok", "refused", "nofork", "noinit"}

\* A launch that finds the name registered returns nil after it has subscribed again.
Joins(outcome) == outcome # "refused" /\ registered # NoProc

Started(outcome) == outcome \in {"ok", "noinit"} /\ registered = NoProc

LaunchFails(outcome) == outcome # "ok" /\ ~Joins(outcome)

\* A failure the context did not cause counts against the bound.
Costs(outcome) ==
  IF LaunchFails(outcome) /\ ~ctxDone
  THEN faults < MaxFaults /\ faults' = faults + 1
  ELSE UNCHANGED faults

launchStrategy(outcome) ==
  /\ outcome \in Outcomes
  /\ Costs(outcome)
  /\ Started(outcome) => launched < MaxProcs
  /\ subs' = [refs |-> subs.refs + 1, candle |-> TRUE]
  /\ LET p == launched + 1 IN
     IF Started(outcome)
     THEN /\ launched' = p
          /\ registered' = p
          /\ alive' = alive \cup {p}
          /\ watcher' = [k \in Kind |-> [watcher[k] EXCEPT ![p] = "watching"]]
     ELSE UNCHANGED <<launched, registered, alive, watcher>>
  /\ UNCHANGED <<silent, cancelled, stopping>>

\* decTickerRefForSymbols only counts contracts with a candle entry of the strategy.
unsubscribeStrategy ==
  subs' = IF subs.candle THEN [refs |-> subs.refs - 1, candle |-> FALSE] ELSE subs

-----------------------------------------------------------------------------
(* Calls: StartStrategy, StopStrategy, the kill switch *)

StartStrategy(outcome) ==
  /\ phase = "running"
  /\ starts < MaxStarts
  /\ starts' = starts + 1
  /\ launchStrategy(outcome)
  /\ UNCHANGED <<restarter, tracker, killSwitch, phase, stops>>

\* Mutant: the process is looked up after the name was deleted.
stopRegisteredSwapped ==
  /\ stopping' = stopping \cup {NoProc}
  /\ registered' = NoProc
  /\ unsubscribeStrategy
  /\ UNCHANGED <<launched, alive, silent, cancelled, watcher>>

\* The part of StopStrategy under processMu; SendStop follows.
stopRegistered ==
  /\ stopping' = stopping \cup {registered}
  /\ registered' = NoProc
  /\ unsubscribeStrategy
  /\ UNCHANGED <<launched, alive, silent, cancelled, watcher>>

StopStrategy ==
  /\ phase = "running"
  /\ stops < MaxStops
  /\ registered # NoProc
  /\ stops' = stops + 1
  /\ stopRegistered
  /\ UNCHANGED <<restarter, tracker, killSwitch, phase, starts, faults>>

\* After two seconds the context is cancelled, which kills what still runs.
StopCancels(p) ==
  /\ p \in stopping
  /\ stopping' = stopping \ {p}
  /\ cancelled' = cancelled \cup {p}
  /\ alive' = alive \ {p}
  /\ UNCHANGED <<registered, launched, silent, watcher, subs>>
  /\ UNCHANGED <<restarter, tracker, killSwitch, phase, bounds>>

ToggleKillSwitch ==
  /\ phase = "running"
  /\ killSwitch' = ~killSwitch
  /\ UNCHANGED <<procs, restarter, tracker, phase, bounds>>

-----------------------------------------------------------------------------
(* Processes: they crash, obey a stop message, or fall silent *)

Crash(p) ==
  /\ p \in alive
  /\ p \in stopping \/ faults < MaxFaults
  /\ alive' = alive \ {p}
  /\ faults' = IF p \in stopping THEN faults ELSE faults + 1
  /\ UNCHANGED <<registered, launched, silent, cancelled, watcher, stopping, subs>>
  /\ UNCHANGED <<restarter, tracker, killSwitch, phase, starts, stops>>

\* The process hangs, or its reader is held up on a full signal channel.
FallSilent(p) ==
  /\ p \in alive \ silent
  /\ faults < MaxFaults
  /\ silent' = silent \cup {p}
  /\ faults' = faults + 1
  /\ UNCHANGED <<registered, launched, alive, cancelled, watcher, stopping, subs>>
  /\ UNCHANGED <<restarter, tracker, killSwitch, phase, starts, stops>>

-----------------------------------------------------------------------------
(* The watchers of a process *)

\* The part under processMu: whatever process holds the name loses it.
handleProcessExit(k, p) ==
  /\ watcher[k][p] = "watching"
  /\ IF registered = NoProc
     THEN /\ watcher' = [watcher EXCEPT ![k][p] = "done"]
          /\ UNCHANGED <<registered, subs>>
     ELSE /\ watcher' = [watcher EXCEPT ![k][p] = "exited"]
          /\ registered' = NoProc
          /\ unsubscribeStrategy
  /\ UNCHANGED <<launched, alive, silent, cancelled, stopping>>
  /\ UNCHANGED <<restarter, tracker, killSwitch, phase, bounds>>

\* Mutant: unsubscribes outside the lock.
recordExitUnsubscribes(k, p) ==
  /\ watcher[k][p] = "exited"
  /\ watcher' = [watcher EXCEPT ![k][p] = "done"]
  /\ recordCrash
  /\ unsubscribeStrategy
  /\ IF Len(times') < MaxCrashes
     THEN restarter' = [restarter EXCEPT ![records + 1] = [pc |-> "recorded", failures |-> 0]]
     ELSE UNCHANGED restarter
  /\ UNCHANGED <<registered, launched, alive, silent, cancelled, stopping>>
  /\ UNCHANGED <<killSwitch, phase, bounds>>

\* The crash is recorded; the count it returns is the one compared with the limit below.
recordExit(k, p) ==
  /\ watcher[k][p] = "exited"
  /\ watcher' = [watcher EXCEPT ![k][p] = "done"]
  /\ recordCrash
  /\ IF Len(times') < MaxCrashes
     THEN restarter' = [restarter EXCEPT ![records + 1] = [pc |-> "recorded", failures |-> 0]]
     ELSE UNCHANGED restarter
  /\ UNCHANGED <<registered, launched, alive, silent, cancelled, stopping, subs>>
  /\ UNCHANGED <<killSwitch, phase, bounds>>

at(c, pc) == restarter' = [restarter EXCEPT ![c].pc = pc]

\* The rest of handleProcessExit for crash c: three steps, between which Stop may cancel the
\* context and wait for the restart goroutines, of which this will be one.
exitAsksContext(c) ==
  /\ restarter[c].pc = "recorded"
  /\ at(c, IF ctxDone THEN "done" ELSE "uncancelled")
  /\ UNCHANGED <<procs, tracker, killSwitch, phase, bounds>>

exitAsksKillSwitch(c) ==
  /\ restarter[c].pc = "uncancelled"
  /\ at(c, IF killSwitch THEN "done" ELSE "cleared")
  /\ UNCHANGED <<procs, tracker, killSwitch, phase, bounds>>

scheduleRestart(c) ==
  /\ restarter[c].pc = "cleared"
  /\ at(c, "backoff")
  /\ UNCHANGED <<procs, tracker, killSwitch, phase, bounds>>

\* stdout ends with the process.
readStrategyMessages(p) == p \notin alive /\ handleProcessExit("reader", p)

\* A tick of the monitor: no heartbeat for 30 seconds, from a dead process too.
heartbeatTimeout(p) ==
  /\ p \notin alive \/ p \in silent
  /\ handleProcessExit("monitor", p)

\* A tick that finds the heartbeat recent.
heartbeatTick(p) ==
  /\ watcher["monitor"][p] = "watching"
  /\ countInWindow
  /\ UNCHANGED <<procs, restarter, killSwitch, phase, bounds>>

monitorEnds(p) ==
  /\ watcher["monitor"][p] = "watching"
  /\ p \in cancelled
  /\ watcher' = [watcher EXCEPT !["monitor"][p] = "done"]
  /\ UNCHANGED <<registered, launched, alive, silent, cancelled, stopping, subs>>
  /\ UNCHANGED <<restarter, tracker, killSwitch, phase, bounds>>

-----------------------------------------------------------------------------
(* The goroutine of scheduleRestart *)

\* shouldAutoRestart: the crashes are only counted when the other checks pass.
shouldAutoRestart(c, next) ==
  /\ IF ctxDone \/ killSwitch
     THEN at(c, "done") /\ UNCHANGED tracker
     ELSE at(c, IF circuitOpen THEN "done" ELSE next) /\ countInWindow
  /\ UNCHANGED <<procs, killSwitch, phase, bounds>>

wake(c) == restarter[c].pc = "backoff" /\ shouldAutoRestart(c, "loop")

checkAgain(c) == restarter[c].pc = "loop" /\ shouldAutoRestart(c, "launching")

relaunch(c, outcome) ==
  /\ restarter[c].pc = "launching"
  /\ launchStrategy(outcome)
  /\ ~LaunchFails(outcome)
  /\ at(c, "done")
  /\ UNCHANGED <<tracker, killSwitch, phase, starts, stops>>

\* Mutant: the first failed launch ends the restart.
relaunchFailedOnce(c, outcome) ==
  /\ restarter[c].pc = "launching"
  /\ launchStrategy(outcome)
  /\ LaunchFails(outcome)
  /\ recordCrash
  /\ restarter' = [restarter EXCEPT ![c] = [pc |-> "done", failures |-> @.failures + 1]]
  /\ UNCHANGED <<killSwitch, phase, starts, stops>>

\* A failed launch is a crash as well.
relaunchFailed(c, outcome) ==
  /\ restarter[c].pc = "launching"
  /\ launchStrategy(outcome)
  /\ LaunchFails(outcome)
  /\ recordCrash
  /\ LET failures == restarter[c].failures + 1
         ends == Len(times') >= MaxCrashes \/ failures = MaxFailures
     IN restarter' = [restarter EXCEPT ![c] =
          [pc |-> IF ends THEN "done" ELSE "loop", failures |-> failures]]
  /\ UNCHANGED <<killSwitch, phase, starts, stops>>

-----------------------------------------------------------------------------
(* Engine.Stop *)

\* StopAllStrategies: the strategies registered now.
StopAllStrategies ==
  /\ phase = "running"
  /\ phase' = "stopping"
  /\ IF registered # NoProc THEN stopRegistered ELSE UNCHANGED procs
  /\ UNCHANGED <<restarter, tracker, killSwitch, bounds>>

\* Stop of every strategy has returned: e.cancel kills whatever was started since.
CancelCtx ==
  /\ phase = "stopping"
  /\ stopping = {}
  /\ phase' = "cancelled"
  /\ cancelled' = 1..launched
  /\ alive' = {}
  /\ UNCHANGED <<registered, launched, silent, watcher, stopping, subs>>
  /\ UNCHANGED <<restarter, tracker, killSwitch, bounds>>

\* Mutant: Stop does not wait for the restart goroutines.
waitRestartsSkipped ==
  /\ phase = "cancelled"
  /\ phase' = "drained"
  /\ UNCHANGED <<procs, restarter, tracker, killSwitch, bounds>>

waitRestarts ==
  /\ phase = "cancelled"
  /\ \A c \in Record : ~Restarting(c)
  /\ phase' = "drained"
  /\ UNCHANGED <<procs, restarter, tracker, killSwitch, bounds>>

\* A restart goroutine scheduled behind waitRestarts is waited for by nobody.
waitWatchers ==
  /\ phase = "drained"
  /\ \A k \in Kind : \A p \in Proc : watcher[k][p] \in {"none", "done"}
  /\ \A c \in Record : ~Deciding(c)
  /\ phase' = "stopped"
  /\ UNCHANGED <<procs, restarter, tracker, killSwitch, bounds>>

Stopped == phase = "stopped" /\ UNCHANGED vars

-----------------------------------------------------------------------------
Init ==
  /\ registered = NoProc /\ launched = 0
  /\ alive = {} /\ silent = {} /\ cancelled = {} /\ stopping = {}
  /\ watcher = [k \in Kind |-> [p \in Proc |-> "none"]]
  /\ subs = [refs |-> 0, candle |-> FALSE]
  /\ restarter = [c \in Record |-> [pc |-> "none", failures |-> 0]]
  /\ times = <<>> /\ records = 0 /\ expired = 0
  /\ killSwitch = FALSE
  /\ phase = "running"
  /\ starts = 0 /\ stops = 0 /\ faults = 0

Watchers(p) ==
  \/ readStrategyMessages(p) \/ heartbeatTimeout(p) \/ monitorEnds(p)
  \/ \E k \in Kind : recordExit(k, p)

Restarts(c) ==
  \/ exitAsksContext(c) \/ exitAsksKillSwitch(c) \/ scheduleRestart(c)
  \/ wake(c) \/ checkAgain(c)
  \/ \E outcome \in Outcomes : relaunch(c, outcome) \/ relaunchFailed(c, outcome)

Stops ==
  \/ CancelCtx \/ waitRestarts \/ waitWatchers
  \/ \E p \in Proc : StopCancels(p)

Calls ==
  \/ \E outcome \in Outcomes : StartStrategy(outcome)
  \/ StopStrategy \/ ToggleKillSwitch \/ StopAllStrategies

Next ==
  \/ Calls \/ Stops \/ Expire \/ Stopped
  \/ \E p \in Proc : Crash(p) \/ FallSilent(p) \/ heartbeatTick(p) \/ Watchers(p)
  \/ \E c \in Record : Restarts(c)

Spec == Init /\ [][Next]_vars

Goroutines ==
  \/ Stops
  \/ \E p \in Proc : Watchers(p)
  \/ \E c \in Record : Restarts(c)

\* Goroutines run on; neither crashes nor calls have to happen.  Every one of these steps
\* is taken a bounded number of times, so one fairness condition serves them all.
FairSpec == Spec /\ WF_vars(Goroutines)

-----------------------------------------------------------------------------
(* Properties *)

\* A registered strategy is subscribed, whichever launches failed or joined a running
\* process and whichever process's exit removed the name (launchStrategy, StopStrategy,
\* handleProcessExit).
RegisteredSubscribed == registered # NoProc => subs.candle /\ subs.refs > 0

\* A crash loop is cut: every crash inside the window is counted, whatever was pruned in
\* between, and as long as none has left it, fewer than MaxCrashes processes were started
\* automatically, failed and concurrent restarts included (crashTracker,
\* handleProcessExit, scheduleRestart).
CrashLoopCut ==
  /\ \A c \in expired + 1..records : \E i \in 1..Len(pruned(times)) : pruned(times)[i] = c
  /\ expired = 0 => launched < starts + MaxCrashes

\* When Stop closes the channels no process runs, no watcher can still send and no restart
\* can still launch: a restart goroutine that was added behind restartWg.Wait is asleep and
\* will find the context cancelled (Engine.Stop 494-546, handleProcessExit 925-947).
StopLeavesNothing ==
  phase = "stopped" =>
    /\ alive = {} /\ registered = NoProc
    /\ \A k \in Kind : \A p \in Proc : watcher[k][p] \in {"none", "done"}
    /\ \A c \in Record : restarter[c].pc \in {"none", "backoff", "done"}

\* A scheduled restart brings the strategy back, unless the kill switch, the shutdown, an
\* open circuit or its last failure ends it (scheduleRestart).
CrashedComesBack ==
  (\E c \in Record : Restarting(c)) ~>
    \/ registered # NoProc
    \/ killSwitch \/ phase # "running" \/ circuitOpen
    \/ \E c \in Record : restarter[c].failures = MaxFailures

\* Refuted: as long as no process falls silent a strategy has one python process, one
\* that is being stopped apart (launchStrategy, handleProcessExit).
OneProcessPerStrategy == silent = {} => Cardinality(alive \ stopping) <= 1
=============================================================================
