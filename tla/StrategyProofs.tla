--------------------------- MODULE StrategyProofs ---------------------------
(***************************************************************************)
(* Proofs about a strategy's life and its logs.  First StrategyLifecycle:  *)
(* its types, the subscription of a registered strategy, the end of a      *)
(* crash loop and what Engine.Stop leaves behind, for every limit of       *)
(* crashes and failures and every bound on calls, faults, processes and    *)
(* records.  Then LogStream: what a client is streamed and what is found   *)
(* by the texts of times, for any number of strategies, lines, snapshots   *)
(* and failed writes and any sizes of the queue and the channel.           *)
(***************************************************************************)
EXTENDS StrategyLifecycle, LogStream, FiniteSetTheorems, SequenceTheorems, TLAPS

\* The types, variable by variable.
Types ==
  /\ registered \in 0..launched
  /\ launched \in 0..MaxProcs
  /\ alive \subseteq 1..launched
  /\ silent \subseteq 1..launched
  /\ cancelled \subseteq 1..launched
  /\ stopping \subseteq 1..launched
  /\ watcher \in [Kind -> [Proc -> Watcher]]
  /\ subs \in [refs : Nat, candle : BOOLEAN]
  /\ restarter \in [Record -> Restarter]
  /\ records \in 0..MaxRecords
  /\ expired \in 0..records
  /\ times \in Seq(1..records)
  /\ killSwitch \in BOOLEAN
  /\ phase \in Phase
  /\ starts \in 0..MaxStarts /\ stops \in 0..MaxStops /\ faults \in 0..MaxFaults

\* What was not launched is not watched, what was not recorded starts nothing.
Numbered ==
  /\ \A k \in Kind : \A p \in Proc : p > launched => watcher[k][p] = "none"
  /\ \A c \in Record : c > records => restarter[c].pc = "none"

\* A crash that a restart may still follow.
Pending(c) ==
  restarter[c].pc \in {"recorded", "uncancelled", "cleared", "backoff", "loop", "launching"}

\* A restart goroutine that goes on has a failure left.
Patient == \A c \in Record : Pending(c) => restarter[c].failures < MaxFailures

\* The registered process still has its reader, and the strategy its subscription.
Held ==
  /\ registered # NoProc => watcher["reader"][registered] = "watching" /\ subs.candle
  /\ subs.candle => subs.refs > 0

\* What each phase of Stop has ended stays ended.
Ended ==
  /\ ctxDone => alive = {}
  /\ phase \in {"drained", "stopped"} => \A c \in Record : restarter[c].pc \notin {"loop", "launching"}
  /\ phase = "stopped" => /\ \A k \in Kind : \A p \in Proc : watcher[k][p] \in {"none", "done"}
                          /\ \A c \in Record : ~Deciding(c)

\* Every record inside the window is in times.
Remembered == \A c \in expired + 1..records : \E i \in DOMAIN times : times[i] = c

\* The records below the limit that no restart can follow any more: one for every process
\* that was not started by a call.
Settled == {c \in Record : c < MaxCrashes /\ c <= records /\ ~Pending(c)}

\* As long as no record has left the window, all are in times, only the first ones were
\* answered by a restart, and every automatic start has settled one of them.
Limited ==
  expired = 0 =>
    /\ Len(times) = records
    /\ \A c \in Record : Pending(c) => c < MaxCrashes
    /\ launched <= starts + Cardinality(Settled)

IInv == Types /\ Numbered /\ Patient /\ Held /\ Ended /\ Remembered /\ Limited

-----------------------------------------------------------------------------
(* The crash window *)

\* The kept records have the ranks 1, 2, ..., one each.
LEMMA Ranks ==
  ASSUME NEW S \in SUBSET Nat, NEW ts \in Seq(S), expired \in Nat
  PROVE  /\ IsFiniteSet(Kept(ts)) /\ Cardinality(Kept(ts)) \in 0..Len(ts)
         /\ \A i \in Kept(ts) : Rank(ts, i) \in 1..Cardinality(Kept(ts))
         /\ \A i, k \in Kept(ts) : Rank(ts, i) = Rank(ts, k) => i = k
         /\ \A j \in 1..Cardinality(Kept(ts)) : \E i \in Kept(ts) : Rank(ts, i) = j
<1> DEFINE K == Kept(ts)
           Upto(i) == {k \in K : k <= i}
<1>1. Len(ts) \in Nat /\ K \subseteq 1..Len(ts)
  BY DEF Kept
<1>2. IsFiniteSet(1..Len(ts)) /\ Cardinality(1..Len(ts)) = Len(ts)
  <2>1. Len(ts) \in Nat
    OBVIOUS
  <2> QED
    BY <2>1, FS_Interval
<1>3. IsFiniteSet(K) /\ Cardinality(K) <= Len(ts) /\ Cardinality(K) \in Nat
  BY <1>1, <1>2, FS_Subset, FS_CardinalityType
<1>4. \A i \in K : i \in Upto(i) /\ Upto(i) \subseteq K /\ i \in Nat
  BY <1>1
<1>5. \A i \in K : IsFiniteSet(Upto(i)) /\ Rank(ts, i) = Cardinality(Upto(i)) /\ Rank(ts, i) \in Nat
                   /\ Rank(ts, i) <= Cardinality(K)
  BY <1>3, <1>4, FS_Subset, FS_CardinalityType DEF Rank
<1>6. \A i \in K : Rank(ts, i) # 0
  BY <1>4, <1>5, FS_EmptySet
<1>7. \A i \in K : Rank(ts, i) \in 1..Cardinality(K)
  <2> TAKE i \in K
  <2>1. Rank(ts, i) \in Nat /\ Rank(ts, i) # 0 /\ Rank(ts, i) <= Cardinality(K)
    BY <1>5, <1>6
  <2> HIDE DEF K
  <2> QED
    BY <1>3, <2>1
<1>8. ASSUME NEW i \in K, NEW k \in K, i < k
      PROVE  Rank(ts, i) # Rank(ts, k)
  <2>1. Upto(i) \in SUBSET Upto(k) /\ k \in Upto(k) /\ k \notin Upto(i)
    BY <1>4, <1>8
  <2>2. Upto(i) # Upto(k)
    BY <2>1
  <2>3. Cardinality(Upto(k)) = Cardinality(Upto(i)) => Upto(k) = Upto(i)
    BY <1>5, <2>1, FS_Subset
  <2> QED
    BY <1>5, <2>2, <2>3
<1>9. \A i, k \in K : Rank(ts, i) = Rank(ts, k) => i = k
  BY <1>4, <1>8
<1> DEFINE f == [i \in K |-> Rank(ts, i)]
           R == 1..Cardinality(K)
<1>10. f \in Injection(K, R)
  BY <1>7, <1>9 DEF Injection, IsInjective
<1>11. IsFiniteSet(R) /\ Cardinality(R) = Cardinality(K)
  BY <1>3, FS_Interval
<1>12. f \in Surjection(K, R)
  BY <1>10, <1>11, FS_Injection
<1>13. \A j \in R : \E i \in K : Rank(ts, i) = j
  BY <1>12 DEF Surjection
<1> QED
  BY <1>3, <1>7, <1>9, <1>13

\* Pruning keeps the records inside the window and nothing else.
LEMMA PrunedKeeps ==
  ASSUME NEW S \in SUBSET Nat, NEW ts \in Seq(S), expired \in Nat
  PROVE  /\ pruned(ts) \in Seq(S)
         /\ Len(pruned(ts)) = Cardinality(Kept(ts))
         /\ Len(pruned(ts)) <= Len(ts)
         /\ \A i \in DOMAIN ts : ts[i] > expired => \E j \in DOMAIN pruned(ts) : pruned(ts)[j] = ts[i]
         /\ \A j \in DOMAIN pruned(ts) : pruned(ts)[j] > expired
<1> DEFINE n == Cardinality(Kept(ts))
           nth(j) == CHOOSE i \in Kept(ts) : Rank(ts, i) = j
<1>1. n \in Nat /\ n <= Len(ts) /\ Len(ts) \in Nat
  BY Ranks
<1>2. \A j \in 1..n : nth(j) \in Kept(ts) /\ Rank(ts, nth(j)) = j
  BY Ranks
<1>3. \A i \in Kept(ts) : Rank(ts, i) \in 1..n /\ nth(Rank(ts, i)) = i
  BY Ranks, <1>2
<1>4. pruned(ts) = [j \in 1..n |-> ts[nth(j)]]
  BY DEF pruned
<1> HIDE DEF nth, n
<1>5. \A i \in Kept(ts) : ts[i] \in S /\ ts[i] > expired
  BY DEF Kept
<1>6. pruned(ts) \in [1..n -> S]
  BY <1>2, <1>4, <1>5
<1>7. pruned(ts) \in Seq(S) /\ Len(pruned(ts)) = n /\ DOMAIN pruned(ts) = 1..n
  BY <1>1, <1>6
<1>8. \A i \in DOMAIN ts : ts[i] > expired => i \in Kept(ts)
  BY DEF Kept
<1> QED
  BY <1>1, <1>2, <1>3, <1>4, <1>5, <1>7, <1>8 DEF n

\* Before any record has left the window pruning keeps them all.
LEMMA NothingPruned ==
  ASSUME NEW S \in SUBSET (Nat \ {0}), NEW ts \in Seq(S), expired = 0
  PROVE  Len(pruned(ts)) = Len(ts)
<1>1. DOMAIN ts = 1..Len(ts) /\ \A i \in 1..Len(ts) : ts[i] \in S
  OBVIOUS
<1>2. Kept(ts) = 1..Len(ts)
  <2>1. \A c \in S : c \in Nat /\ c # 0
    OBVIOUS
  <2>2. \A c \in S : c > expired
    BY <2>1
  <2>3. \A i \in 1..Len(ts) : ts[i] > expired
    BY <1>1, <2>2
  <2> QED
    BY <1>1, <2>3 DEF Kept
<1>3. Cardinality(1..Len(ts)) = Len(ts)
  <2>1. Len(ts) \in Nat
    OBVIOUS
  <2> QED
    BY <2>1, FS_Interval, SMTT(30)
<1>4. S \in SUBSET Nat /\ expired \in Nat
  OBVIOUS
<1> QED
  BY <1>2, <1>3, <1>4, PrunedKeeps

LEMMA WiderSeq ==
  ASSUME NEW A, NEW B, A \subseteq B, NEW s \in Seq(A)
  PROVE  s \in Seq(B)
<1>1. Len(s) \in Nat /\ s \in [1..Len(s) -> A]
  OBVIOUS
<1>2. s \in [1..Len(s) -> B]
  BY <1>1
<1> QED
  BY <1>1, <1>2

\* What the tracker's operations make of times.
LEMMA RecordedTimes ==
  ASSUME Types, Remembered, recordCrash
  PROVE  /\ times' \in Seq(1..records') /\ records' = records + 1 /\ expired' = expired
         /\ records' \in 1..MaxRecords
         /\ Remembered'
         /\ expired = 0 /\ Len(times) = records => Len(times') = records'
<1> DEFINE ts == Append(times, records + 1)
           S == 1..(records + 1)
<1>1. /\ records' = records + 1 /\ expired' = expired /\ times' = pruned(ts)
      /\ records \in Nat /\ expired \in Nat /\ records < MaxRecords /\ MaxRecords \in Nat
  BY LifecycleAssumption DEF recordCrash, Types
<1>2. times \in Seq(1..records) /\ 1..records \subseteq S /\ records + 1 \in S
  BY <1>1 DEF Types
<1>3. times \in Seq(S)
  BY <1>2, WiderSeq
<1>4. /\ ts \in Seq(S) /\ Len(ts) = Len(times) + 1 /\ DOMAIN ts = 1..(Len(times) + 1)
      /\ Len(times) \in Nat /\ DOMAIN times = 1..Len(times)
      /\ ts[Len(times) + 1] = records + 1 /\ \A i \in 1..Len(times) : ts[i] = times[i]
  BY <1>2, <1>3
<1> HIDE DEF ts
<1>5. S \in SUBSET Nat /\ S \in SUBSET (Nat \ {0})
  BY <1>1
<1> HIDE DEF S
<1>6. times' \in Seq(S)
  BY <1>1, <1>4, <1>5, PrunedKeeps
<1>7. ASSUME NEW c \in expired' + 1..records' PROVE \E j \in DOMAIN times' : times'[j] = c
  <2>1. \E i \in DOMAIN ts : ts[i] = c
    <3>1. CASE c = records + 1
      BY <1>4, <3>1
    <3>2. CASE c # records + 1
      <4>1. c \in expired + 1..records
        BY <1>1, <1>7, <3>2
      <4>2. PICK i \in DOMAIN times : times[i] = c
        BY <4>1 DEF Remembered
      <4> QED
        BY <1>4, <4>2
    <3> QED
      BY <3>1, <3>2
  <2>2. PICK i \in DOMAIN ts : ts[i] = c
    BY <2>1
  <2>3. c > expired
    BY <1>1, <1>7
  <2> QED
    BY <1>1, <1>4, <1>5, <2>2, <2>3, PrunedKeeps
<1>8. ASSUME expired = 0, Len(times) = records PROVE Len(times') = records'
  BY <1>1, <1>4, <1>5, <1>8, NothingPruned
<1> QED
  BY <1>1, <1>6, <1>7, <1>8 DEF Remembered, S

LEMMA CountedTimes ==
  ASSUME Types, Remembered, countInWindow
  PROVE  /\ times' \in Seq(1..records') /\ records' = records /\ expired' = expired
         /\ Len(times') = Len(times)
         /\ Remembered'
<1> DEFINE S == 1..records
           kept == pruned(times)
           rest == SubSeq(times, Len(kept) + 1, Len(times))
<1>1. records' = records /\ expired' = expired /\ times' = kept \o rest
  BY DEF countInWindow, crashCount
<1>2. times \in Seq(S) /\ S \in SUBSET Nat /\ expired \in Nat /\ records \in Nat
  BY LifecycleAssumption DEF Types
<1> HIDE DEF S
<1>3. /\ kept \in Seq(S) /\ Len(kept) <= Len(times)
      /\ \A i \in DOMAIN times : times[i] > expired => \E j \in DOMAIN kept : kept[j] = times[i]
  BY <1>2, PrunedKeeps
<1> HIDE DEF kept
<1>4. Len(kept) \in Nat /\ Len(times) \in Nat
  BY <1>2, <1>3
<1>5. rest \in Seq(S) /\ Len(rest) = Len(times) - Len(kept)
  <2>1. \A i \in Len(kept) + 1..Len(times) : times[i] \in S
    BY <1>2, <1>4
  <2>2. Len(kept) + 1 \in 1..Len(times) + 1
    BY <1>3, <1>4
  <2> QED
    BY <1>2, <1>3, <1>4, <2>1, <2>2
<1> HIDE DEF rest
<1>6. /\ times' \in Seq(S) /\ Len(times') = Len(kept) + Len(rest)
      /\ \A j \in DOMAIN kept : j \in DOMAIN times' /\ times'[j] = kept[j]
  BY <1>1, <1>3, <1>4, <1>5
<1>7. Len(times') = Len(times)
  BY <1>4, <1>5, <1>6
<1>8. ASSUME NEW c \in expired' + 1..records' PROVE \E j \in DOMAIN times' : times'[j] = c
  <2>1. c > expired /\ c \in expired + 1..records
    BY <1>1, <1>2, <1>8
  <2>2. PICK i \in DOMAIN times : times[i] = c
    BY <2>1 DEF Remembered
  <2>3. PICK j \in DOMAIN kept : kept[j] = c
    BY <1>3, <2>1, <2>2
  <2> QED
    BY <1>6, <2>3
<1> QED
  BY <1>1, <1>6, <1>7, <1>8 DEF Remembered, S

-----------------------------------------------------------------------------
(* How a step changes the variables *)

\* handleProcessExit goes on with a recorded crash.
Decides(c) == exitAsksContext(c) \/ exitAsksKillSwitch(c) \/ scheduleRestart(c)

LEMMA StepKinds ==
  ASSUME [Next]_vars
  PROVE  \/ \E outcome \in Outcomes : StartStrategy(outcome)
         \/ \E c \in Record, outcome \in Outcomes : relaunch(c, outcome) \/ relaunchFailed(c, outcome)
         \/ \E c \in Record : wake(c) \/ checkAgain(c)
         \/ \E c \in Record : Decides(c)
         \/ \E k \in Kind, p \in Proc : recordExit(k, p)
         \/ \E p \in Proc :
              \/ Crash(p) \/ FallSilent(p) \/ heartbeatTick(p) \/ readStrategyMessages(p)
              \/ heartbeatTimeout(p) \/ monitorEnds(p) \/ StopCancels(p)
         \/ StopStrategy \/ ToggleKillSwitch \/ StopAllStrategies \/ Expire
         \/ CancelCtx \/ waitRestarts \/ waitWatchers
         \/ UNCHANGED vars
BY Zenon DEF Next, Calls, Stops, Stopped, Watchers, Restarts, Decides

\* It changes its own state only.
LEMMA DecidesFrame ==
  ASSUME NEW c \in Record, Decides(c)
  PROVE  UNCHANGED <<procs, tracker, killSwitch, phase, bounds>>
BY Zenon DEF Decides, exitAsksContext, exitAsksKillSwitch, scheduleRestart

\* A watcher ends and takes no name.
WatcherEnds(k, p) ==
  /\ watcher[k][p] \in {"watching", "exited"}
  /\ watcher[k][p] = "watching" => k = "monitor"
  /\ watcher' = [watcher EXCEPT ![k][p] = "done"]
  /\ UNCHANGED <<registered, launched, alive, silent, cancelled, stopping, subs>>

\* Processes end, fall silent or are cancelled.
ProcessesEnd ==
  /\ alive' \subseteq alive
  /\ silent' \subseteq silent \cup alive
  /\ cancelled' \subseteq 1..launched
  /\ stopping' \subseteq stopping
  /\ UNCHANGED <<registered, launched, watcher, subs>>

LEMMA ProcSteps ==
  ASSUME Types, [Next]_vars
  PROVE  \/ \E outcome \in Outcomes : launchStrategy(outcome)
         \/ registered # NoProc /\ stopRegistered
         \/ \E k \in Kind, p \in Proc : handleProcessExit(k, p)
         \/ \E k \in Kind, p \in Proc : WatcherEnds(k, p)
         \/ ProcessesEnd
<1>1. ASSUME NEW outcome \in Outcomes, StartStrategy(outcome) PROVE launchStrategy(outcome)
  BY <1>1, Zenon DEF StartStrategy
<1>2. ASSUME NEW outcome \in Outcomes, NEW c \in Record, relaunch(c, outcome) \/ relaunchFailed(c, outcome)
      PROVE  launchStrategy(outcome)
  BY <1>2, Zenon DEF relaunch, relaunchFailed
<1>3. ASSUME NEW k \in Kind, NEW p \in Proc, recordExit(k, p) PROVE WatcherEnds(k, p)
  BY <1>3 DEF recordExit, WatcherEnds
<1>4. ASSUME NEW p \in Proc, monitorEnds(p) PROVE WatcherEnds("monitor", p)
  BY <1>4 DEF monitorEnds, WatcherEnds
<1>5. "monitor" \in Kind /\ "reader" \in Kind
  BY DEF Kind
<1>6. ASSUME NEW p \in Proc, readStrategyMessages(p) \/ heartbeatTimeout(p)
      PROVE  \E k \in Kind : handleProcessExit(k, p)
  BY <1>5, <1>6, Zenon DEF readStrategyMessages, heartbeatTimeout
<1>7. ASSUME NEW p \in Proc, Crash(p) \/ FallSilent(p) \/ StopCancels(p)
      PROVE  ProcessesEnd
  BY <1>7 DEF Crash, FallSilent, StopCancels, ProcessesEnd, Types
<1>8. ASSUME UNCHANGED procs PROVE ProcessesEnd
  BY <1>8 DEF procs, ProcessesEnd, Types
<1>9. CASE ToggleKillSwitch \/ Expire \/ waitRestarts \/ waitWatchers \/ UNCHANGED vars
  BY <1>8, <1>9, Zenon DEF ToggleKillSwitch, Expire, waitRestarts, waitWatchers, vars
<1>10. CASE StopStrategy \/ StopAllStrategies
  BY <1>8, <1>10, Zenon DEF StopStrategy, StopAllStrategies
<1>11. CASE CancelCtx
  BY <1>11 DEF CancelCtx, ProcessesEnd, Types
<1>12. ASSUME NEW p \in Proc, heartbeatTick(p) PROVE ProcessesEnd
  BY <1>8, <1>12, Zenon DEF heartbeatTick
<1>13. ASSUME NEW c \in Record, wake(c) \/ checkAgain(c) PROVE ProcessesEnd
  BY <1>8, <1>13, Zenon DEF wake, checkAgain, shouldAutoRestart
<1>14. ASSUME NEW c \in Record, Decides(c) PROVE ProcessesEnd
  BY <1>8, <1>14, DecidesFrame, Zenon
<1> QED
  BY <1>1, <1>2, <1>3, <1>4, <1>5, <1>6, <1>7, <1>9, <1>10, <1>11, <1>12, <1>13, <1>14, StepKinds, Zenon

LEMMA TrackSteps ==
  ASSUME [Next]_vars
  PROVE  \/ recordCrash \/ countInWindow
         \/ expired < records /\ expired' = expired + 1 /\ UNCHANGED <<times, records>>
         \/ UNCHANGED tracker
<1>1. ASSUME NEW k \in Kind, NEW p \in Proc, recordExit(k, p) PROVE recordCrash
  BY <1>1, Zenon DEF recordExit
<1>2. ASSUME NEW c \in Record, NEW outcome \in Outcomes, relaunchFailed(c, outcome) PROVE recordCrash
  BY <1>2, Zenon DEF relaunchFailed
<1>3. ASSUME NEW c \in Record, wake(c) \/ checkAgain(c) PROVE countInWindow \/ UNCHANGED tracker
  BY <1>3, Zenon DEF wake, checkAgain, shouldAutoRestart
<1>4. ASSUME NEW p \in Proc,
             \/ Crash(p) \/ FallSilent(p) \/ heartbeatTick(p) \/ readStrategyMessages(p)
             \/ heartbeatTimeout(p) \/ monitorEnds(p) \/ StopCancels(p)
      PROVE  countInWindow \/ UNCHANGED tracker
  BY <1>4, Zenon DEF Crash, FallSilent, heartbeatTick, readStrategyMessages, heartbeatTimeout,
    handleProcessExit, monitorEnds, StopCancels
<1>5. CASE Expire
  BY <1>5, Zenon DEF Expire
<1>6. CASE \/ StopStrategy \/ ToggleKillSwitch \/ StopAllStrategies \/ CancelCtx
           \/ waitRestarts \/ waitWatchers \/ UNCHANGED vars
  BY <1>6, Zenon DEF StopStrategy, ToggleKillSwitch, StopAllStrategies, CancelCtx, waitRestarts,
    waitWatchers, vars
<1>7. ASSUME NEW outcome \in Outcomes, NEW c \in Record, relaunch(c, outcome) PROVE UNCHANGED tracker
  BY <1>7, Zenon DEF relaunch
<1>8. ASSUME NEW outcome \in Outcomes, StartStrategy(outcome) PROVE UNCHANGED tracker
  BY <1>8, Zenon DEF StartStrategy
<1>9. ASSUME NEW c \in Record, Decides(c) PROVE UNCHANGED tracker
  BY <1>9, DecidesFrame, Zenon
<1> QED
  BY <1>1, <1>2, <1>3, <1>4, <1>5, <1>6, <1>7, <1>8, <1>9, StepKinds, Zenon

\* What may follow a recorded crash goes on or ends; it goes on to launch only while the
\* context is alive.
Proceeds(c) ==
  /\ Pending(c)
  /\ \/ at(c, "done") \/ at(c, "backoff")
     \/ Deciding(c) /\ (at(c, "uncancelled") \/ at(c, "cleared"))
     \/ ~ctxDone /\ (at(c, "loop") \/ at(c, "launching"))

LEMMA RestartSteps ==
  ASSUME [Next]_vars
  PROVE  \/ \E k \in Kind, p \in Proc : recordExit(k, p)
         \/ \E c \in Record, outcome \in Outcomes : relaunchFailed(c, outcome)
         \/ \E c \in Record : Proceeds(c)
         \/ UNCHANGED restarter
<1>1. ASSUME NEW c \in Record, NEW outcome \in Outcomes, relaunch(c, outcome) PROVE Proceeds(c)
  <2>1. Pending(c) /\ at(c, "done")
    BY <1>1 DEF relaunch, Pending
  <2> QED
    BY <2>1, Zenon DEF Proceeds
<1>2. ASSUME NEW c \in Record, wake(c) PROVE Proceeds(c)
  <2>1. Pending(c) /\ (at(c, "done") \/ (~ctxDone /\ at(c, "loop")))
    <3>1. Pending(c) /\ shouldAutoRestart(c, "loop")
      BY <1>2 DEF wake, Pending
    <3>2. CASE ctxDone \/ killSwitch
      BY <3>1, <3>2 DEF shouldAutoRestart
    <3>3. CASE ~(ctxDone \/ killSwitch)
      <4>1. at(c, IF circuitOpen THEN "done" ELSE "loop")
        BY <3>1, <3>3 DEF shouldAutoRestart
      <4>2. CASE circuitOpen
        BY <3>1, <4>1, <4>2 DEF at
      <4>3. CASE ~circuitOpen
        BY <3>1, <3>3, <4>1, <4>3 DEF at
      <4> QED
        BY <4>2, <4>3
    <3> QED
      BY <3>2, <3>3
  <2> QED
    BY <2>1, Zenon DEF Proceeds
<1>3. ASSUME NEW c \in Record, checkAgain(c) PROVE Proceeds(c)
  <2>1. Pending(c) /\ (at(c, "done") \/ (~ctxDone /\ at(c, "launching")))
    <3>1. Pending(c) /\ shouldAutoRestart(c, "launching")
      BY <1>3 DEF checkAgain, Pending
    <3>2. CASE ctxDone \/ killSwitch
      BY <3>1, <3>2 DEF shouldAutoRestart
    <3>3. CASE ~(ctxDone \/ killSwitch)
      <4>1. at(c, IF circuitOpen THEN "done" ELSE "launching")
        BY <3>1, <3>3 DEF shouldAutoRestart
      <4>2. CASE circuitOpen
        BY <3>1, <4>1, <4>2 DEF at
      <4>3. CASE ~circuitOpen
        BY <3>1, <3>3, <4>1, <4>3 DEF at
      <4> QED
        BY <4>2, <4>3
    <3> QED
      BY <3>2, <3>3
  <2> QED
    BY <2>1, Zenon DEF Proceeds
<1>7. ASSUME NEW c \in Record, Decides(c) PROVE Proceeds(c)
  <2>1. /\ Pending(c) /\ Deciding(c)
        /\ at(c, "done") \/ at(c, "backoff") \/ at(c, "uncancelled") \/ at(c, "cleared")
    <3>1. Pending(c) /\ Deciding(c)
      BY <1>7 DEF Decides, exitAsksContext, exitAsksKillSwitch, scheduleRestart, Pending, Deciding
    <3> QED
      BY <1>7, <3>1, Zenon DEF Decides, exitAsksContext, exitAsksKillSwitch, scheduleRestart
  <2> QED
    BY <2>1, Zenon DEF Proceeds
<1>4. ASSUME NEW p \in Proc,
             \/ Crash(p) \/ FallSilent(p) \/ heartbeatTick(p) \/ readStrategyMessages(p)
             \/ heartbeatTimeout(p) \/ monitorEnds(p) \/ StopCancels(p)
      PROVE  UNCHANGED restarter
  BY <1>4, Zenon DEF Crash, FallSilent, heartbeatTick, readStrategyMessages, heartbeatTimeout,
    handleProcessExit, monitorEnds, StopCancels
<1>5. CASE \/ Expire \/ StopStrategy \/ ToggleKillSwitch \/ StopAllStrategies \/ CancelCtx
           \/ waitRestarts \/ waitWatchers \/ UNCHANGED vars
  BY <1>5, Zenon DEF Expire, StopStrategy, ToggleKillSwitch, StopAllStrategies, CancelCtx, waitRestarts,
    waitWatchers, vars
<1>6. ASSUME NEW outcome \in Outcomes, StartStrategy(outcome) PROVE UNCHANGED restarter
  BY <1>6, Zenon DEF StartStrategy
<1> QED
  BY <1>1, <1>2, <1>3, <1>4, <1>5, <1>6, <1>7, StepKinds, Zenon

\* The phases of Stop.
LEMMA PhaseSteps ==
  ASSUME [Next]_vars
  PROVE  \/ StopAllStrategies \/ CancelCtx \/ waitRestarts \/ waitWatchers
         \/ UNCHANGED phase
<1>1. ASSUME NEW p \in Proc,
             \/ Crash(p) \/ FallSilent(p) \/ heartbeatTick(p) \/ readStrategyMessages(p)
             \/ heartbeatTimeout(p) \/ monitorEnds(p) \/ StopCancels(p)
      PROVE  UNCHANGED phase
  BY <1>1, Zenon DEF Crash, FallSilent, heartbeatTick, readStrategyMessages, heartbeatTimeout,
    handleProcessExit, monitorEnds, StopCancels
<1>2. CASE \/ Expire \/ StopStrategy \/ ToggleKillSwitch \/ UNCHANGED vars
  BY <1>2, Zenon DEF Expire, StopStrategy, ToggleKillSwitch, vars
<1>3. ASSUME NEW c \in Record, NEW outcome \in Outcomes, relaunch(c, outcome) \/ relaunchFailed(c, outcome)
      PROVE  UNCHANGED phase
  BY <1>3, Zenon DEF relaunch, relaunchFailed
<1>4. ASSUME NEW c \in Record, wake(c) \/ checkAgain(c) PROVE UNCHANGED phase
  BY <1>4, Zenon DEF wake, checkAgain, shouldAutoRestart
<1>5. ASSUME NEW k \in Kind, NEW p \in Proc, recordExit(k, p) PROVE UNCHANGED phase
  BY <1>5, Zenon DEF recordExit
<1>6. ASSUME NEW outcome \in Outcomes, StartStrategy(outcome) PROVE UNCHANGED phase
  BY <1>6, Zenon DEF StartStrategy
<1>7. ASSUME NEW c \in Record, Decides(c) PROVE UNCHANGED phase
  BY <1>7, DecidesFrame, Zenon
<1> QED
  BY <1>1, <1>2, <1>3, <1>4, <1>5, <1>6, <1>7, StepKinds, Zenon

-----------------------------------------------------------------------------
(* The invariant, part by part *)

\* The variables of processes, and what is held for the registered one.
ProcTypes ==
  /\ registered \in 0..launched
  /\ launched \in 0..MaxProcs
  /\ alive \subseteq 1..launched
  /\ silent \subseteq 1..launched
  /\ cancelled \subseteq 1..launched
  /\ stopping \subseteq 1..launched
  /\ watcher \in [Kind -> [Proc -> Watcher]]
  /\ subs \in [refs : Nat, candle : BOOLEAN]

LEMMA UnsubscribeTypes ==
  ASSUME subs \in [refs : Nat, candle : BOOLEAN], subs.candle => subs.refs > 0, unsubscribeStrategy
  PROVE  subs' \in [refs : Nat, candle : BOOLEAN] /\ ~subs'.candle
<1>1. CASE subs.candle
  <2>1. subs.refs - 1 \in Nat
    BY <1>1
  <2>2. subs' = [refs |-> subs.refs - 1, candle |-> FALSE]
    BY <1>1 DEF unsubscribeStrategy
  <2> QED
    BY <2>1, <2>2
<1>2. CASE ~subs.candle
  BY <1>2 DEF unsubscribeStrategy
<1> QED
  BY <1>1, <1>2

\* A launch takes the next number.
LEMMA LaunchKeeps ==
  ASSUME Types, Numbered, Held, NEW outcome \in Outcomes, launchStrategy(outcome)
  PROVE  /\ ProcTypes' /\ Held'
         /\ \A k \in Kind : \A p \in Proc : p > launched' => watcher'[k][p] = "none"
         /\ launched' \in {launched, launched + 1}
         /\ ~Started(outcome) => UNCHANGED <<alive, watcher, launched>>
<1>1. /\ launched \in Nat /\ MaxProcs \in Nat /\ subs.refs \in Nat /\ registered \in Nat
      /\ Kind = {"reader", "monitor"} /\ Proc = 1..MaxProcs /\ "watching" \in Watcher
  BY LifecycleAssumption DEF Types, Kind, Proc, Watcher
<1>2. subs' = [refs |-> subs.refs + 1, candle |-> TRUE] /\ UNCHANGED <<silent, cancelled, stopping>>
  BY DEF launchStrategy
<1>3. subs' \in [refs : Nat, candle : BOOLEAN] /\ subs'.candle /\ subs'.refs > 0
  BY <1>1, <1>2
<1>4. CASE Started(outcome)
  <2> DEFINE p == launched + 1
  <2>1. /\ launched' = p /\ registered' = p /\ alive' = alive \cup {p}
        /\ watcher' = [k \in Kind |-> [watcher[k] EXCEPT ![p] = "watching"]]
        /\ launched < MaxProcs
    BY <1>4, Zenon DEF launchStrategy
  <2>2. p \in Proc /\ p \in 1..launched' /\ 1..launched \subseteq 1..launched' /\ launched' \in 0..MaxProcs
    BY <1>1, <2>1
  <2>3. watcher' \in [Kind -> [Proc -> Watcher]]
    BY <1>1, <2>1, <2>2 DEF Types
  <2>4. \A k \in Kind : watcher'[k][p] = "watching" /\ \A q \in Proc : q # p => watcher'[k][q] = watcher[k][q]
    BY <1>1, <2>1, <2>2 DEF Types
  <2>5. \A k \in Kind : \A q \in Proc : q > launched' => watcher'[k][q] = "none"
    BY <1>1, <2>1, <2>4 DEF Numbered
  <2>6. /\ registered' \in 0..launched' /\ alive' \subseteq 1..launched' /\ silent' \subseteq 1..launched'
        /\ cancelled' \subseteq 1..launched' /\ stopping' \subseteq 1..launched'
    BY <1>1, <1>2, <2>1, <2>2 DEF Types
  <2>7. ProcTypes'
    BY <1>3, <2>2, <2>3, <2>6 DEF ProcTypes
  <2>8. Held'
    BY <1>1, <1>3, <2>1, <2>4 DEF Held
  <2> QED
    BY <1>4, <2>1, <2>5, <2>7, <2>8
<1>5. CASE ~Started(outcome)
  <2>1. UNCHANGED <<launched, registered, alive, watcher>>
    BY <1>5, Zenon DEF launchStrategy
  <2>2. ProcTypes'
    BY <1>2, <1>3, <2>1 DEF ProcTypes, Types
  <2>3. Held'
    BY <1>3, <2>1 DEF Held
  <2> QED
    BY <2>1, <2>2, <2>3 DEF Numbered
<1> QED
  BY <1>4, <1>5

LEMMA ProcsStep ==
  ASSUME Types, Numbered, Held, [Next]_vars
  PROVE  /\ ProcTypes' /\ Held'
         /\ \A k \in Kind : \A p \in Proc : p > launched' => watcher'[k][p] = "none"
<1> DEFINE Good == /\ ProcTypes' /\ Held'
                   /\ \A k \in Kind : \A p \in Proc : p > launched' => watcher'[k][p] = "none"
<1>1. ASSUME NEW outcome \in Outcomes, launchStrategy(outcome) PROVE Good
  BY <1>1, LaunchKeeps
<1>2. CASE registered # NoProc /\ stopRegistered
  <2>1. /\ stopping' = stopping \cup {registered} /\ registered' = NoProc /\ unsubscribeStrategy
        /\ UNCHANGED <<launched, alive, silent, cancelled, watcher>>
    BY <1>2 DEF stopRegistered
  <2>2. subs' \in [refs : Nat, candle : BOOLEAN] /\ ~subs'.candle
    BY <2>1, UnsubscribeTypes DEF Types, Held
  <2>3. registered \in 1..launched /\ NoProc \in 0..launched
    BY <1>2 DEF Types, NoProc
  <2>4. ProcTypes'
    BY <2>1, <2>2, <2>3 DEF ProcTypes, Types
  <2>5. Held'
    BY <2>1, <2>2 DEF Held
  <2> QED
    BY <2>1, <2>4, <2>5 DEF Numbered
<1>3. ASSUME NEW k \in Kind, NEW p \in Proc, handleProcessExit(k, p) PROVE Good
  <2>1. /\ watcher[k][p] = "watching" /\ \E w \in {"done", "exited"} : watcher' = [watcher EXCEPT ![k][p] = w]
        /\ registered' = NoProc
        /\ UNCHANGED <<launched, alive, silent, cancelled, stopping>>
    BY <1>3 DEF handleProcessExit
  <2>2. (registered = NoProc /\ UNCHANGED subs) \/ unsubscribeStrategy
    BY <1>3, Zenon DEF handleProcessExit
  <2>3. subs' \in [refs : Nat, candle : BOOLEAN] /\ (subs'.candle => subs'.refs > 0)
    BY <2>2, UnsubscribeTypes DEF Types, Held
  <2>4. watcher' \in [Kind -> [Proc -> Watcher]]
    BY <2>1 DEF Types, Watcher
  <2>5. \A h \in Kind : \A q \in Proc : q > launched => watcher'[h][q] = "none"
    BY <2>1 DEF Types, Numbered
  <2>6. NoProc \in 0..launched
    BY DEF Types, NoProc
  <2>7. ProcTypes'
    BY <2>1, <2>3, <2>4, <2>6 DEF ProcTypes, Types
  <2>8. Held'
    BY <2>1, <2>3 DEF Held
  <2> QED
    BY <2>1, <2>5, <2>7, <2>8
<1>4. ASSUME NEW k \in Kind, NEW p \in Proc, WatcherEnds(k, p) PROVE Good
  <2>1. /\ watcher' = [watcher EXCEPT ![k][p] = "done"]
        /\ UNCHANGED <<registered, launched, alive, silent, cancelled, stopping, subs>>
        /\ k = "reader" => watcher[k][p] # "watching"
        /\ watcher[k][p] # "none"
    BY <1>4 DEF WatcherEnds
  <2>2. watcher' \in [Kind -> [Proc -> Watcher]]
    BY <2>1 DEF Types, Watcher
  <2>3. \A h \in Kind : \A q \in Proc : q > launched => watcher'[h][q] = "none"
    BY <2>1 DEF Types, Numbered
  <2>4. \A q \in Proc : watcher["reader"][q] = "watching" => watcher'["reader"][q] = "watching"
    BY <2>1 DEF Types, Kind
  <2>5. ProcTypes'
    BY <2>1, <2>2 DEF ProcTypes, Types
  <2>6. registered # NoProc => registered \in Proc
    BY LifecycleAssumption DEF Types, NoProc, Proc
  <2>7. Held'
    BY <2>1, <2>4, <2>6 DEF Held
  <2> QED
    BY <2>1, <2>3, <2>5, <2>7
<1>5. CASE ProcessesEnd
  <2>1. ProcTypes'
    BY <1>5 DEF ProcessesEnd, ProcTypes, Types
  <2> QED
    BY <1>5, <2>1 DEF ProcessesEnd, Held, Numbered
<1> QED
  BY <1>1, <1>2, <1>3, <1>4, <1>5, ProcSteps, Zenon

\* The crash window.
LEMMA TrackStep ==
  ASSUME Types, Remembered, [Next]_vars
  PROVE  /\ records' \in 0..MaxRecords /\ expired' \in 0..records' /\ times' \in Seq(1..records')
         /\ records' \in {records, records + 1}
         /\ Remembered'
<1> DEFINE Good == /\ records' \in 0..MaxRecords /\ expired' \in 0..records' /\ times' \in Seq(1..records')
                   /\ records' \in {records, records + 1}
                   /\ Remembered'
<1>1. records \in 0..MaxRecords /\ expired \in 0..records /\ times \in Seq(1..records) /\ MaxRecords \in Nat
  BY LifecycleAssumption DEF Types
<1>2. CASE recordCrash
  BY <1>1, <1>2, RecordedTimes
<1>3. CASE countInWindow
  BY <1>1, <1>3, CountedTimes
<1>4. CASE expired < records /\ expired' = expired + 1 /\ UNCHANGED <<times, records>>
  <2>1. expired' \in 0..records' /\ expired' + 1..records' \subseteq expired + 1..records
    BY <1>1, <1>4
  <2> QED
    BY <1>1, <1>4, <2>1 DEF Remembered
<1>5. CASE UNCHANGED tracker
  BY <1>1, <1>5 DEF tracker, Remembered
<1> QED
  BY <1>2, <1>3, <1>4, <1>5, TrackSteps

\* A failed launch leaves one failure less.
LEMMA FailedRestart ==
  ASSUME Types, Patient, NEW c \in Record, NEW outcome \in Outcomes, relaunchFailed(c, outcome)
  PROVE  /\ restarter[c].pc = "launching" /\ Pending(c) /\ recordCrash
         /\ \E r \in Restarter :
              /\ restarter' = [restarter EXCEPT ![c] = r]
              /\ \/ r.pc = "done"
                 \/ r.pc = "loop" /\ r.failures < MaxFailures /\ Len(times') < MaxCrashes
<1> DEFINE failures == restarter[c].failures + 1
           ends == Len(times') >= MaxCrashes \/ failures = MaxFailures
           r == [pc |-> IF ends THEN "done" ELSE "loop", failures |-> failures]
<1>1. /\ restarter[c].pc = "launching" /\ recordCrash /\ restarter' = [restarter EXCEPT ![c] = r]
  BY DEF relaunchFailed
<1>2. Pending(c)
  BY <1>1 DEF Pending
<1>3. restarter[c].failures \in Nat /\ restarter[c].failures < MaxFailures /\ MaxFailures \in Nat
  BY <1>2, LifecycleAssumption DEF Types, Restarter, Patient
<1>4. failures \in 0..MaxFailures
  BY <1>3
<1>5. r \in Restarter
  BY <1>4 DEF Restarter
<1>6. Len(times') \in Nat
  <2>1. pruned(Append(times, records + 1)) = times'
    BY <1>1 DEF recordCrash
  <2>2. times \in Seq(Nat) /\ records + 1 \in Nat /\ expired \in Nat
    BY WiderSeq, LifecycleAssumption DEF Types
  <2>3. Append(times, records + 1) \in Seq(Nat)
    BY <2>2
  <2> QED
    BY <2>1, <2>2, <2>3, PrunedKeeps
<1>7. MaxCrashes \in Nat
  BY LifecycleAssumption
<1>8. \/ r.pc = "done"
      \/ r.pc = "loop" /\ r.failures < MaxFailures /\ Len(times') < MaxCrashes
  <2>1. CASE ends
    BY <2>1
  <2>2. CASE ~ends
    <3>1. r.pc = "loop" /\ r.failures = failures /\ failures # MaxFailures /\ ~(Len(times') >= MaxCrashes)
      BY <2>2
    <3> QED
      BY <3>1, <1>4, <1>6, <1>7, <1>3
  <2> QED
    BY <2>1, <2>2
<1> HIDE DEF r
<1> QED
  BY <1>1, <1>2, <1>5, <1>8

LEMMA RestartersStep ==
  ASSUME Types, Numbered, Remembered, Patient, [Next]_vars
  PROVE  /\ restarter' \in [Record -> Restarter] /\ Patient'
         /\ \A c \in Record : c > records' => restarter'[c].pc = "none"
<1> DEFINE Good == /\ restarter' \in [Record -> Restarter] /\ Patient'
                   /\ \A c \in Record : c > records' => restarter'[c].pc = "none"
<1>1. /\ restarter \in [Record -> Restarter] /\ records \in Nat /\ MaxFailures \in Nat \ {0}
      /\ Record \subseteq Nat
      /\ records' \in {records, records + 1}
  <2>1. records' \in {records, records + 1}
    BY TrackStep
  <2>2. MaxFailures \in Nat \ {0} /\ MaxRecords \in Nat \ {0}
    BY LifecycleAssumption
  <2> QED
    BY <2>1, <2>2 DEF Types, Record
<1>2. \A c \in Record : restarter[c] \in Restarter /\ c \in Nat
  BY <1>1
<1>3. \A c \in Record : c > records' => c > records
  BY <1>1, <1>2
<1>4. \A c \in Record : Pending(c) => c <= records
  BY <1>1, <1>2 DEF Numbered, Pending
<1>5. CASE UNCHANGED restarter
  BY <1>1, <1>3, <1>5 DEF Patient, Pending, Numbered
<1>6. ASSUME NEW c \in Record, Proceeds(c) PROVE Good
  <2>1. PICK pc \in {"uncancelled", "cleared", "backoff", "loop", "launching", "done"} :
          restarter' = [restarter EXCEPT ![c].pc = pc]
    BY <1>6 DEF Proceeds, at
  <2>2. restarter'[c] \in Restarter /\ restarter'[c].failures = restarter[c].failures
    BY <1>1, <1>2, <2>1 DEF Restarter
  <2>3. \A d \in Record : d # c => restarter'[d] = restarter[d]
    BY <1>1, <2>1
  <2>4. restarter' \in [Record -> Restarter]
    BY <1>1, <1>2, <2>1, <2>2, <2>3
  <2>5. Pending(c) /\ c <= records
    BY <1>4, <1>6 DEF Proceeds
  <2>6. Patient'
    BY <2>2, <2>3, <2>5 DEF Patient, Pending
  <2>7. \A d \in Record : d > records' => d # c
    BY <1>1, <1>2, <2>5
  <2> QED
    BY <1>3, <2>3, <2>4, <2>6, <2>7 DEF Numbered
<1>7. ASSUME NEW k \in Kind, NEW p \in Proc, recordExit(k, p) PROVE Good
  <2>1. CASE restarter' = [restarter EXCEPT ![records + 1] = [pc |-> "recorded", failures |-> 0]]
    <3>1. records' = records + 1 /\ records + 1 \in Record
      BY <1>7, RecordedTimes DEF recordExit, Record
    <3>2. [pc |-> "recorded", failures |-> 0] \in Restarter
      <4>1. 0 \in 0..MaxFailures
        BY <1>1
      <4> QED
        BY <4>1 DEF Restarter
    <3>3. restarter' \in [Record -> Restarter]
      BY <1>1, <2>1, <3>2
    <3>4. /\ restarter'[records + 1] = [pc |-> "recorded", failures |-> 0]
          /\ \A d \in Record : d # records + 1 => restarter'[d] = restarter[d]
      BY <1>1, <2>1, <3>1
    <3>5. Patient'
      <4>1. [pc |-> "recorded", failures |-> 0].failures < MaxFailures
        BY <1>1
      <4>2. ASSUME NEW d \in Record, d # records + 1, Pending(d)' PROVE restarter'[d].failures < MaxFailures
        BY <3>4, <4>2 DEF Patient, Pending
      <4> QED
        BY <3>4, <4>1, <4>2 DEF Patient
    <3>6. \A d \in Record : d > records' => d # records + 1
      BY <1>1, <1>2, <3>1
    <3> QED
      BY <1>3, <3>3, <3>4, <3>5, <3>6 DEF Numbered
  <2> QED
    BY <1>5, <1>7, <2>1 DEF recordExit
<1>8. ASSUME NEW c \in Record, NEW outcome \in Outcomes, relaunchFailed(c, outcome) PROVE Good
  <2>1. Pending(c) /\ c <= records
    BY <1>4, <1>8, FailedRestart
  <2>2. PICK r \in Restarter :
          /\ restarter' = [restarter EXCEPT ![c] = r]
          /\ r.pc = "done" \/ (r.pc = "loop" /\ r.failures < MaxFailures /\ Len(times') < MaxCrashes)
    BY <1>8, FailedRestart
  <2>3. restarter'[c] = r /\ \A d \in Record : d # c => restarter'[d] = restarter[d]
    BY <1>1, <2>2
  <2>4. restarter' \in [Record -> Restarter]
    BY <1>1, <2>2
  <2>5. Patient'
    BY <2>2, <2>3 DEF Patient, Pending
  <2>6. \A d \in Record : d > records' => d # c
    BY <1>1, <1>2, <2>1
  <2> QED
    BY <1>3, <2>3, <2>4, <2>5, <2>6 DEF Numbered
<1> QED
  BY <1>5, <1>6, <1>7, <1>8, RestartSteps, Zenon

\* Calls and faults are counted within their bounds, and the phase is one of Phase.
LEMMA BoundsStep ==
  ASSUME Types, [Next]_vars
  PROVE  /\ starts' \in 0..MaxStarts /\ stops' \in 0..MaxStops /\ faults' \in 0..MaxFaults
         /\ phase' \in Phase /\ killSwitch' \in BOOLEAN
<1>1. /\ starts \in 0..MaxStarts /\ stops \in 0..MaxStops /\ faults \in 0..MaxFaults
      /\ phase \in Phase /\ killSwitch \in BOOLEAN
      /\ MaxStarts \in Nat /\ MaxStops \in Nat /\ MaxFaults \in Nat
  BY LifecycleAssumption DEF Types
<1>2. phase' \in Phase
  BY <1>1, PhaseSteps DEF StopAllStrategies, CancelCtx, waitRestarts, waitWatchers, Phase
<1>3. UNCHANGED killSwitch \/ ToggleKillSwitch
  <2>1. ASSUME NEW p \in Proc,
               \/ Crash(p) \/ FallSilent(p) \/ heartbeatTick(p) \/ readStrategyMessages(p)
               \/ heartbeatTimeout(p) \/ monitorEnds(p) \/ StopCancels(p)
        PROVE  UNCHANGED killSwitch
    BY <2>1, Zenon DEF Crash, FallSilent, heartbeatTick, readStrategyMessages, heartbeatTimeout,
      handleProcessExit, monitorEnds, StopCancels
  <2>2. CASE Expire \/ StopStrategy \/ StopAllStrategies \/ CancelCtx \/ waitRestarts \/ waitWatchers \/ UNCHANGED vars
    BY <2>2, Zenon DEF Expire, StopStrategy, StopAllStrategies, CancelCtx, waitRestarts, waitWatchers, vars
  <2>3. ASSUME NEW c \in Record, NEW outcome \in Outcomes, relaunch(c, outcome) \/ relaunchFailed(c, outcome)
        PROVE  UNCHANGED killSwitch
    BY <2>3, Zenon DEF relaunch, relaunchFailed
  <2>4. ASSUME NEW c \in Record, wake(c) \/ checkAgain(c) PROVE UNCHANGED killSwitch
    BY <2>4, Zenon DEF wake, checkAgain, shouldAutoRestart
  <2>5. ASSUME NEW k \in Kind, NEW p \in Proc, recordExit(k, p) PROVE UNCHANGED killSwitch
    BY <2>5, Zenon DEF recordExit
  <2>6. ASSUME NEW outcome \in Outcomes, StartStrategy(outcome) PROVE UNCHANGED killSwitch
    BY <2>6, Zenon DEF StartStrategy
  <2>7. ASSUME NEW c \in Record, Decides(c) PROVE UNCHANGED killSwitch
    BY <2>7, DecidesFrame, Zenon
  <2> QED
    BY <2>1, <2>2, <2>3, <2>4, <2>5, <2>6, <2>7, StepKinds, Zenon
<1>4. killSwitch' \in BOOLEAN
  BY <1>1, <1>3 DEF ToggleKillSwitch
<1>5. /\ UNCHANGED starts \/ (starts < MaxStarts /\ starts' = starts + 1)
      /\ UNCHANGED stops \/ (stops < MaxStops /\ stops' = stops + 1)
      /\ UNCHANGED faults \/ (faults < MaxFaults /\ faults' = faults + 1)
         \/ (\E p \in Proc : Crash(p) /\ p \notin stopping)
  <2> DEFINE Good == /\ UNCHANGED starts \/ (starts < MaxStarts /\ starts' = starts + 1)
                     /\ UNCHANGED stops \/ (stops < MaxStops /\ stops' = stops + 1)
                     /\ UNCHANGED faults \/ (faults < MaxFaults /\ faults' = faults + 1)
                        \/ (\E p \in Proc : Crash(p) /\ p \notin stopping)
  <2>1. ASSUME NEW p \in Proc,
               \/ FallSilent(p) \/ heartbeatTick(p) \/ readStrategyMessages(p)
               \/ heartbeatTimeout(p) \/ monitorEnds(p) \/ StopCancels(p)
        PROVE  Good
    BY <2>1, Zenon DEF FallSilent, heartbeatTick, readStrategyMessages, heartbeatTimeout,
      handleProcessExit, monitorEnds, StopCancels, bounds
  <2>2. ASSUME NEW p \in Proc, Crash(p) PROVE Good
    BY <2>2, Zenon DEF Crash
  <2>3. CASE ToggleKillSwitch \/ Expire \/ StopAllStrategies \/ CancelCtx \/ waitRestarts \/ waitWatchers \/ UNCHANGED vars
    BY <2>3, Zenon DEF ToggleKillSwitch, Expire, StopAllStrategies, CancelCtx, waitRestarts, waitWatchers,
      vars, bounds
  <2>4. ASSUME NEW c \in Record, NEW outcome \in Outcomes, relaunch(c, outcome) \/ relaunchFailed(c, outcome)
        PROVE  Good
    BY <2>4, Zenon DEF relaunch, relaunchFailed, launchStrategy, Costs
  <2>5. ASSUME NEW c \in Record, wake(c) \/ checkAgain(c) PROVE Good
    BY <2>5, Zenon DEF wake, checkAgain, shouldAutoRestart, bounds
  <2>6. ASSUME NEW k \in Kind, NEW p \in Proc, recordExit(k, p) PROVE Good
    BY <2>6, Zenon DEF recordExit, bounds
  <2>7. ASSUME NEW outcome \in Outcomes, StartStrategy(outcome) PROVE Good
    BY <2>7, Zenon DEF StartStrategy, launchStrategy, Costs
  <2>8. CASE StopStrategy
    BY <2>8, Zenon DEF StopStrategy
  <2>9. ASSUME NEW c \in Record, Decides(c) PROVE Good
    BY <2>9, DecidesFrame, Zenon DEF bounds
  <2> QED
    BY <2>1, <2>2, <2>3, <2>4, <2>5, <2>6, <2>7, <2>8, <2>9, StepKinds, Zenon
<1>6. ASSUME NEW p \in Proc, Crash(p), p \notin stopping PROVE faults < MaxFaults /\ faults' = faults + 1
  BY <1>6 DEF Crash
<1>7. starts' \in 0..MaxStarts /\ stops' \in 0..MaxStops /\ faults' \in 0..MaxFaults
  BY <1>1, <1>5, <1>6
<1> QED
  BY <1>2, <1>4, <1>7

LEMMA TypesStep ==
  ASSUME Types, Numbered, Patient, Held, Remembered, [Next]_vars
  PROVE  Types' /\ Numbered' /\ Patient' /\ Held' /\ Remembered'
<1>1. /\ ProcTypes' /\ Held'
      /\ \A k \in Kind : \A p \in Proc : p > launched' => watcher'[k][p] = "none"
  BY ProcsStep
<1>2. /\ records' \in 0..MaxRecords /\ expired' \in 0..records' /\ times' \in Seq(1..records')
      /\ Remembered'
  BY TrackStep
<1>3. /\ restarter' \in [Record -> Restarter] /\ Patient'
      /\ \A c \in Record : c > records' => restarter'[c].pc = "none"
  BY RestartersStep
<1>4. /\ starts' \in 0..MaxStarts /\ stops' \in 0..MaxStops /\ faults' \in 0..MaxFaults
      /\ phase' \in Phase /\ killSwitch' \in BOOLEAN
  BY BoundsStep
<1>5. Types'
  BY <1>1, <1>2, <1>3, <1>4 DEF Types, ProcTypes
<1> QED
  BY <1>1, <1>2, <1>3, <1>5 DEF Numbered

\* After the cancellation nothing starts; a phase is left when what it waits for is over.
LEMMA EndedStep ==
  ASSUME Types, Numbered, Held, Ended, [Next]_vars
  PROVE  Ended'
<1>1. ctxDone => phase \in {"cancelled", "drained", "stopped"}
  BY DEF ctxDone
<1>2. ctxDone' => alive' = {}
  <2>1. CASE ctxDone
    <3>1. alive = {}
      BY <2>1 DEF Ended
    <3>2. ASSUME NEW outcome \in Outcomes, launchStrategy(outcome) PROVE alive' = alive
      <4>1. ~Started(outcome)
        BY <2>1, <3>2 DEF Outcomes, Started
      <4> QED
        BY <4>1, <3>2, LaunchKeeps
    <3>3. alive' \subseteq alive
      BY <3>2, ProcSteps DEF stopRegistered, handleProcessExit, WatcherEnds, ProcessesEnd
    <3> QED
      BY <3>1, <3>3
  <2>2. CASE ~ctxDone
    BY <2>2, PhaseSteps DEF ctxDone, StopAllStrategies, CancelCtx, waitRestarts, waitWatchers
  <2> QED
    BY <2>1, <2>2
<1>3. phase' \in {"drained", "stopped"} => \A c \in Record : restarter'[c].pc \notin {"loop", "launching"}
  <2>1. CASE phase \in {"drained", "stopped"}
    <3>1. /\ \A c \in Record : restarter[c].pc \notin {"loop", "launching"}
          /\ ctxDone /\ restarter \in [Record -> Restarter]
      BY <2>1 DEF Ended, ctxDone, Types
    <3>2. ASSUME NEW c \in Record, Proceeds(c)
          PROVE  \A d \in Record : restarter'[d].pc \notin {"loop", "launching"}
      BY <3>1, <3>2 DEF Proceeds, at, Restarter
    <3>3. ASSUME NEW k \in Kind, NEW p \in Proc, recordExit(k, p)
          PROVE  \A d \in Record : restarter'[d].pc \notin {"loop", "launching"}
      BY <3>1, <3>3 DEF recordExit
    <3> QED
      BY <3>1, <3>2, <3>3, RestartSteps DEF relaunchFailed
  <2>2. CASE waitRestarts
    BY <2>2 DEF waitRestarts, Restarting
  <2> QED
    BY <2>1, <2>2, PhaseSteps DEF StopAllStrategies, CancelCtx, waitWatchers
<1>4. phase' = "stopped" => /\ \A k \in Kind : \A p \in Proc : watcher'[k][p] \in {"none", "done"}
                            /\ \A c \in Record : ~Deciding(c)'
  <2>1. CASE phase = "stopped"
    <3>1. /\ \A k \in Kind : \A p \in Proc : watcher[k][p] \in {"none", "done"}
          /\ \A c \in Record : ~Deciding(c) /\ restarter[c].pc # "launching"
      BY <2>1 DEF Ended
    <3>2. ASSUME NEW outcome \in Outcomes, launchStrategy(outcome) PROVE watcher' = watcher
      <4>1. ~Started(outcome)
        BY <2>1, <3>2 DEF Outcomes, Started, ctxDone
      <4> QED
        BY <4>1, <3>2, LaunchKeeps
    <3>3. watcher' = watcher
      BY <3>1, <3>2, ProcSteps DEF stopRegistered, handleProcessExit, WatcherEnds, ProcessesEnd
    <3>4. ASSUME NEW c \in Record, Proceeds(c) PROVE \A d \in Record : ~Deciding(d)'
      <4>1. PICK pc \in {"backoff", "loop", "launching", "done"} : restarter' = [restarter EXCEPT ![c].pc = pc]
        BY <3>1, <3>4 DEF Proceeds, at
      <4>2. restarter \in [Record -> Restarter]
        BY DEF Types
      <4>3. restarter'[c].pc = pc /\ \A d \in Record : d # c => restarter'[d] = restarter[d]
        BY <4>1, <4>2 DEF Restarter
      <4> QED
        BY <3>1, <4>3 DEF Deciding
    <3>5. \A c \in Record : ~Deciding(c)'
      BY <3>1, <3>4, RestartSteps DEF recordExit, relaunchFailed, Deciding
    <3> QED
      BY <3>1, <3>3, <3>5
  <2>2. CASE waitWatchers
    BY <2>2 DEF waitWatchers, procs, Deciding
  <2> QED
    BY <2>1, <2>2, PhaseSteps DEF StopAllStrategies, CancelCtx, waitRestarts
<1> QED
  BY <1>2, <1>3, <1>4 DEF Ended

\* How the numbers that Limited compares change.
LEMMA LaunchCounts ==
  ASSUME Types, Numbered, Held, [Next]_vars
  PROVE  \/ \E outcome \in Outcomes : StartStrategy(outcome)
         \/ \E c \in Record, outcome \in Outcomes : relaunch(c, outcome) \/ relaunchFailed(c, outcome)
         \/ UNCHANGED <<launched, starts>>
<1>1. ASSUME NEW p \in Proc,
             \/ Crash(p) \/ FallSilent(p) \/ heartbeatTick(p) \/ readStrategyMessages(p)
             \/ heartbeatTimeout(p) \/ monitorEnds(p) \/ StopCancels(p)
      PROVE  UNCHANGED <<launched, starts>>
  BY <1>1, Zenon DEF Crash, FallSilent, heartbeatTick, readStrategyMessages, heartbeatTimeout,
    handleProcessExit, monitorEnds, StopCancels, procs, bounds
<1>2. CASE \/ Expire \/ StopStrategy \/ ToggleKillSwitch \/ StopAllStrategies \/ CancelCtx
           \/ waitRestarts \/ waitWatchers \/ UNCHANGED vars
  BY <1>2, Zenon DEF Expire, StopStrategy, stopRegistered, ToggleKillSwitch, StopAllStrategies, CancelCtx,
    waitRestarts, waitWatchers, vars, procs, bounds
<1>3. ASSUME NEW c \in Record, wake(c) \/ checkAgain(c) PROVE UNCHANGED <<launched, starts>>
  BY <1>3, Zenon DEF wake, checkAgain, shouldAutoRestart, procs, bounds
<1>4. ASSUME NEW k \in Kind, NEW p \in Proc, recordExit(k, p) PROVE UNCHANGED <<launched, starts>>
  BY <1>4, Zenon DEF recordExit, bounds
<1>5. ASSUME NEW c \in Record, Decides(c) PROVE UNCHANGED <<launched, starts>>
  BY <1>5, DecidesFrame, Zenon DEF procs, bounds
<1> QED
  BY <1>1, <1>2, <1>3, <1>4, <1>5, StepKinds, Zenon

LEMMA SettledSize ==
  ASSUME Types
  PROVE  /\ IsFiniteSet(Settled) /\ Cardinality(Settled) \in Nat
         /\ Cardinality(Settled) <= MaxCrashes - 1
<1>1. MaxCrashes \in Nat \ {0} /\ MaxRecords \in Nat
  BY LifecycleAssumption
<1>2. MaxCrashes - 1 \in Int /\ 1 \in Int
  BY <1>1
<1>3. IsFiniteSet(1..(MaxCrashes - 1)) /\ Cardinality(1..(MaxCrashes - 1)) <= MaxCrashes - 1
  BY <1>1, <1>2, FS_Interval
<1>4. Settled \subseteq 1..(MaxCrashes - 1)
  BY <1>1 DEF Settled, Record
<1>5. IsFiniteSet(Settled) /\ Cardinality(Settled) <= Cardinality(1..(MaxCrashes - 1))
  BY <1>3, <1>4, FS_Subset
<1>6. Cardinality(Settled) \in Nat /\ Cardinality(1..(MaxCrashes - 1)) \in Nat
  BY <1>3, <1>5, FS_CardinalityType
<1> QED
  BY <1>1, <1>3, <1>5, <1>6

\* A larger set of settled records counts more, and one that has a new record one more.
LEMMA MoreSettled ==
  ASSUME Types, Types', Settled \subseteq Settled'
  PROVE  /\ Cardinality(Settled) <= Cardinality(Settled')
         /\ \A c \in Settled' \ Settled : Cardinality(Settled) + 1 <= Cardinality(Settled')
<1>1. IsFiniteSet(Settled) /\ Cardinality(Settled) \in Nat
  BY SettledSize
<1>2. IsFiniteSet(Settled') /\ Cardinality(Settled') \in Nat
  <2>1. MaxRecords \in Nat /\ 1 \in Int
    BY LifecycleAssumption
  <2>2. Settled' \subseteq 1..MaxRecords /\ IsFiniteSet(1..MaxRecords)
    BY <2>1, FS_Interval DEF Settled, Record
  <2> QED
    BY <2>2, FS_Subset, FS_CardinalityType
<1>3. Cardinality(Settled) <= Cardinality(Settled')
  BY <1>2, FS_Subset
<1>4. ASSUME NEW c \in Settled' \ Settled PROVE Cardinality(Settled) + 1 <= Cardinality(Settled')
  <2>1. IsFiniteSet(Settled \cup {c}) /\ Cardinality(Settled \cup {c}) = Cardinality(Settled) + 1
    BY <1>1, <1>4, FS_AddElement
  <2>2. Settled \cup {c} \subseteq Settled'
    BY <1>4
  <2>3. Cardinality(Settled \cup {c}) <= Cardinality(Settled')
    BY <1>2, <2>2, FS_Subset
  <2> QED
    BY <2>1, <2>3
<1> QED
  BY <1>3, <1>4

\* A record is settled when its restart ends, or at once when it starts none.
LEMMA LimitedStep ==
  ASSUME IInv, [Next]_vars
  PROVE  Limited'
<1> SUFFICES ASSUME expired' = 0
             PROVE  /\ Len(times') = records'
                    /\ \A c \in Record : Pending(c)' => c < MaxCrashes
                    /\ launched' <= starts' + Cardinality(Settled')
  BY DEF Limited
<1>1. Types /\ Numbered /\ Patient /\ Held /\ Remembered
  BY DEF IInv
<1>2. Types'
  BY <1>1, TypesStep
<1>3. /\ launched \in Nat /\ starts \in Nat /\ records \in Nat /\ expired \in Nat /\ MaxCrashes \in Nat
      /\ Record \subseteq Nat /\ restarter \in [Record -> Restarter] /\ times \in Seq(1..records)
      /\ launched' \in Nat /\ starts' \in Nat /\ MaxStarts \in Nat
  <2>1. MaxStarts \in Nat /\ MaxProcs \in Nat /\ MaxRecords \in Nat /\ MaxCrashes \in Nat
    BY LifecycleAssumption
  <2>2. launched \in Nat /\ starts \in Nat /\ records \in Nat
    BY <1>1, <2>1 DEF Types
  <2>3. launched' \in Nat /\ starts' \in Nat
    BY <1>2, <2>1 DEF Types
  <2> QED
    BY <1>1, <2>1, <2>2, <2>3 DEF Types, Record
<1>4. expired = 0
  BY <1>3, TrackSteps DEF recordCrash, countInWindow, tracker
<1>5. /\ Len(times) = records
      /\ \A c \in Record : Pending(c) => c < MaxCrashes /\ c <= records
      /\ launched <= starts + Cardinality(Settled)
  BY <1>3, <1>4 DEF IInv, Limited, Numbered, Pending
<1>6. Len(times') = records'
  BY <1>1, <1>4, <1>5, TrackSteps, RecordedTimes, CountedTimes DEF tracker
<1>7. records' \in {records, records + 1}
  BY <1>1, TrackStep
<1>8. \A c \in Record : c \in Nat /\ (c <= records => c <= records')
  BY <1>3, <1>7
<1>9. ASSUME NEW c \in Record, \A d \in Record : d # c => restarter'[d] = restarter[d], Pending(c)
      PROVE  /\ \A d \in Record : Pending(d)' => d < MaxCrashes
             /\ Settled \subseteq Settled'
             /\ ~Pending(c)' => c \in Settled' \ Settled
  BY <1>5, <1>8, <1>9 DEF Settled, Pending
<1>10. /\ \A c \in Record : Pending(c)' => c < MaxCrashes
       /\ Settled \subseteq Settled'
  <2>1. ASSUME NEW c \in Record, Proceeds(c)
        PROVE  Pending(c) /\ \A d \in Record : d # c => restarter'[d] = restarter[d]
    BY <1>3, <2>1 DEF Proceeds, at
  <2>2. ASSUME NEW c \in Record, NEW outcome \in Outcomes, relaunchFailed(c, outcome)
        PROVE  Pending(c) /\ \A d \in Record : d # c => restarter'[d] = restarter[d]
    BY <1>1, <1>3, <2>2, FailedRestart
  <2>3. ASSUME UNCHANGED restarter
        PROVE  /\ \A c \in Record : Pending(c)' => c < MaxCrashes
               /\ Settled \subseteq Settled'
    BY <1>5, <1>8, <2>3 DEF Settled, Pending
  <2>4. ASSUME NEW k \in Kind, NEW p \in Proc, recordExit(k, p)
        PROVE  /\ \A c \in Record : Pending(c)' => c < MaxCrashes
               /\ Settled \subseteq Settled'
    <3>1. records' = records + 1 /\ Len(times') = records + 1
      BY <1>1, <1>4, <1>5, <2>4, RecordedTimes DEF recordExit
    <3>2. CASE /\ restarter' = [restarter EXCEPT ![records + 1] = [pc |-> "recorded", failures |-> 0]]
               /\ Len(times') < MaxCrashes
      <4>1. \A d \in Record : d # records + 1 => restarter'[d] = restarter[d]
        BY <1>3, <3>2
      <4>2. \A d \in Record : d <= records => d # records + 1
        BY <1>3
      <4> QED
        BY <1>5, <1>8, <3>1, <3>2, <4>1, <4>2 DEF Settled, Pending
    <3> QED
      BY <2>3, <2>4, <3>2 DEF recordExit
  <2> QED
    BY <1>9, <2>1, <2>2, <2>3, <2>4, RestartSteps, Zenon
<1>11. /\ Cardinality(Settled) <= Cardinality(Settled')
       /\ \A c \in Settled' \ Settled : Cardinality(Settled) + 1 <= Cardinality(Settled')
  BY <1>1, <1>2, <1>10, MoreSettled
<1>12. Cardinality(Settled) \in Nat /\ Cardinality(Settled') \in Nat
  <2>1. IsFiniteSet(Settled) /\ Cardinality(Settled) \in Nat
    BY <1>1, SettledSize
  <2>2. Settled' \subseteq 1..MaxRecords
    BY DEF Settled, Record
  <2>3. IsFiniteSet(1..MaxRecords)
    BY LifecycleAssumption, FS_Interval
  <2> QED
    BY <2>1, <2>2, <2>3, FS_Subset, FS_CardinalityType
<1>13. CASE UNCHANGED <<launched, starts>>
  BY <1>3, <1>5, <1>6, <1>10, <1>11, <1>12, <1>13
<1>14. ASSUME NEW outcome \in Outcomes, StartStrategy(outcome)
       PROVE  launched' <= starts' + Cardinality(Settled')
  <2>1. starts' = starts + 1 /\ launched' \in {launched, launched + 1}
    BY <1>1, <1>14, LaunchKeeps DEF StartStrategy
  <2> QED
    BY <1>3, <1>5, <1>11, <1>12, <2>1
<1>15. ASSUME NEW c \in Record, NEW outcome \in Outcomes, relaunch(c, outcome)
       PROVE  launched' <= starts' + Cardinality(Settled')
  <2>1. /\ starts' = starts /\ launched' \in {launched, launched + 1}
        /\ restarter' = [restarter EXCEPT ![c].pc = "done"] /\ Pending(c)
    BY <1>1, <1>15, LaunchKeeps DEF relaunch, at, Pending
  <2>2. restarter'[c].pc = "done" /\ \A d \in Record : d # c => restarter'[d] = restarter[d]
    <3>1. restarter[c] \in Restarter
      BY <1>3
    <3> QED
      BY <1>3, <2>1, <3>1 DEF Restarter
  <2>3. c \in Settled' \ Settled
    BY <1>9, <2>1, <2>2 DEF Pending
  <2> QED
    BY <1>3, <1>5, <1>11, <1>12, <2>1, <2>3
<1>16. ASSUME NEW c \in Record, NEW outcome \in Outcomes, relaunchFailed(c, outcome)
       PROVE  launched' <= starts' + Cardinality(Settled')
  <2>1. starts' = starts /\ launched' \in {launched, launched + 1}
    BY <1>1, <1>16, LaunchKeeps DEF relaunchFailed
  <2>2. PICK r \in Restarter :
          /\ restarter' = [restarter EXCEPT ![c] = r]
          /\ r.pc = "done" \/ (r.pc = "loop" /\ r.failures < MaxFailures /\ Len(times') < MaxCrashes)
    BY <1>1, <1>16, FailedRestart
  <2>3. restarter'[c] = r /\ \A d \in Record : d # c => restarter'[d] = restarter[d]
    BY <1>3, <2>2
  <2>4. \E d \in Record : d \in Settled' \ Settled
    <3>1. CASE r.pc = "done"
      <4>1. Pending(c)
        BY <1>1, <1>16, FailedRestart
      <4> QED
        BY <1>9, <2>3, <3>1, <4>1 DEF Pending
    <3>2. CASE r.pc = "loop" /\ Len(times') < MaxCrashes
      <4>1. records' = records + 1 /\ records + 1 \in Record
        BY <1>1, <1>16, FailedRestart, RecordedTimes DEF Record
      <4>2. records + 1 < MaxCrashes
        BY <1>6, <3>2, <4>1
      <4>3. Pending(c) /\ c <= records
        BY <1>1, <1>5, <1>16, FailedRestart
      <4>4. restarter'[records + 1] = restarter[records + 1] /\ restarter[records + 1].pc = "none"
        BY <1>1, <1>3, <2>3, <4>1, <4>3 DEF Numbered
      <4>5. records + 1 \in Settled' /\ records + 1 \notin Settled
        BY <1>3, <4>1, <4>2, <4>4 DEF Settled, Pending
      <4> QED
        BY <4>1, <4>5
    <3> QED
      BY <2>2, <3>1, <3>2
  <2> QED
    BY <1>3, <1>5, <1>11, <1>12, <2>1, <2>4
<1>17. launched' <= starts' + Cardinality(Settled')
  BY <1>1, <1>13, <1>14, <1>15, <1>16, LaunchCounts, <1>3, <1>5, <1>11, <1>12
<1> QED
  BY <1>6, <1>10, <1>17

LEMMA InitIInv == Init => IInv
<1> SUFFICES ASSUME Init PROVE IInv
  OBVIOUS
<1> USE DEF Init
<1>1. MaxCrashes \in Nat \ {0} /\ MaxFailures \in Nat \ {0} /\ MaxProcs \in Nat \ {0} /\ MaxRecords \in Nat \ {0}
      /\ MaxStarts \in Nat /\ MaxStops \in Nat /\ MaxFaults \in Nat
  BY LifecycleAssumption
<1>2. [pc |-> "none", failures |-> 0] \in Restarter
  <2>1. 0 \in 0..MaxFailures
    BY <1>1
  <2> QED
    BY <2>1 DEF Restarter
<1>3. times \in Seq(1..records)
  OBVIOUS
<1>4. Types
  <2>1. registered \in 0..launched /\ launched \in 0..MaxProcs /\ records \in 0..MaxRecords
        /\ expired \in 0..records /\ starts \in 0..MaxStarts /\ stops \in 0..MaxStops /\ faults \in 0..MaxFaults
    BY <1>1 DEF NoProc
  <2>2. watcher \in [Kind -> [Proc -> Watcher]]
    BY DEF Watcher
  <2>3. restarter \in [Record -> Restarter]
    BY <1>2
  <2>4. subs \in [refs : Nat, candle : BOOLEAN] /\ killSwitch \in BOOLEAN /\ phase \in Phase
    BY DEF Phase
  <2> QED
    BY <1>3, <2>1, <2>2, <2>3, <2>4 DEF Types
<1>5. \A c \in Record : ~Pending(c) /\ restarter[c].pc = "none"
  BY DEF Pending
<1>6. Numbered /\ Patient /\ Held /\ Ended
  BY <1>5 DEF Numbered, Patient, Held, Ended, ctxDone, NoProc
<1>7. Remembered
  BY DEF Remembered
<1>8. Limited
  <2>1. Cardinality(Settled) \in Nat
    BY <1>4, SettledSize
  <2>2. Len(times) = records /\ launched <= starts + Cardinality(Settled)
    BY <2>1
  <2> QED
    BY <1>5, <2>2 DEF Limited
<1> QED
  BY <1>4, <1>6, <1>7, <1>8 DEF IInv

\* The inductive invariant holds in every state, over crashes, restarts, stops and the
\* shutdown in any order (launchStrategy, handleProcessExit, scheduleRestart, Engine.Stop).
THEOREM Invariance == Spec => []IInv
<1>1. IInv /\ [Next]_vars => IInv'
  BY TypesStep, EndedStep, LimitedStep DEF IInv
<1> QED
  BY <1>1, InitIInv, PTL DEF Spec

-----------------------------------------------------------------------------
(* The properties *)

\* Types of the processes, their watchers, the crash window and the restart goroutines
\* (StrategyProcess, crashTracker, scheduleRestart).
THEOREM TypeCorrect == Spec => []TypeOK
<1>1. IInv => TypeOK
  BY DEF IInv, Types, Numbered, TypeOK
<1> QED
  BY <1>1, Invariance, PTL

\* A registered strategy is subscribed, whichever launches failed or joined and whichever
\* exits removed the name (launchStrategy, StopStrategy, handleProcessExit).
THEOREM RegisteredAreSubscribed == Spec => []RegisteredSubscribed
<1>1. IInv => RegisteredSubscribed
  BY DEF IInv, Held, RegisteredSubscribed
<1> QED
  BY <1>1, Invariance, PTL

\* Every crash in the window is counted, and as long as none has left it fewer than
\* MaxCrashes processes were started automatically, concurrent and failed restarts
\* included (crashTracker, scheduleRestart).
THEOREM CrashLoopsEnd == Spec => []CrashLoopCut
<1>1. IInv => CrashLoopCut
  <2> SUFFICES ASSUME IInv PROVE CrashLoopCut
    OBVIOUS
  <2>1. 1..records \in SUBSET Nat /\ times \in Seq(1..records) /\ expired \in Nat
    BY LifecycleAssumption DEF IInv, Types
  <2>2. ASSUME NEW c \in expired + 1..records PROVE \E i \in 1..Len(pruned(times)) : pruned(times)[i] = c
    <3>1. PICK i \in DOMAIN times : times[i] = c
      BY <2>2 DEF IInv, Remembered
    <3>2. c > expired
      BY <2>1, <2>2 DEF IInv, Types
    <3>3. pruned(times) \in Seq(1..records)
      BY <2>1, PrunedKeeps
    <3>4. \E j \in DOMAIN pruned(times) : pruned(times)[j] = c
      BY <2>1, <3>1, <3>2, PrunedKeeps
    <3> QED
      BY <3>3, <3>4
  <2>3. ASSUME expired = 0 PROVE launched < starts + MaxCrashes
    <3>1. launched <= starts + Cardinality(Settled)
      BY <2>3 DEF IInv, Limited
    <3>2. Cardinality(Settled) \in Nat /\ Cardinality(Settled) <= MaxCrashes - 1
      BY SettledSize DEF IInv
    <3>3. MaxCrashes \in Nat /\ launched \in Nat /\ starts \in Nat
      BY LifecycleAssumption DEF IInv, Types
    <3> QED
      BY <3>1, <3>2, <3>3
  <2> QED
    BY <2>2, <2>3 DEF CrashLoopCut
<1> QED
  BY <1>1, Invariance, PTL

\* When Stop closes the channels nothing runs, sends or launches any more; a restart
\* goroutine added behind restartWg.Wait is asleep and finds the context cancelled when it
\* wakes (Engine.Stop, handleProcessExit, scheduleRestart).
THEOREM StopIsClean == Spec => []StopLeavesNothing
<1>1. IInv => StopLeavesNothing
  <2> SUFFICES ASSUME IInv, phase = "stopped" PROVE StopLeavesNothing
    BY DEF StopLeavesNothing
  <2>1. alive = {} /\ \A k \in Kind : \A p \in Proc : watcher[k][p] \in {"none", "done"}
    BY DEF IInv, Ended, ctxDone
  <2>2. \A c \in Record : restarter[c].pc \in {"none", "backoff", "done"}
    BY DEF IInv, Ended, Deciding, Types, Restarter
  <2>3. registered = NoProc
    <3>1. registered # NoProc => registered \in Proc /\ watcher["reader"][registered] = "watching"
      BY LifecycleAssumption DEF IInv, Held, Types, NoProc, Proc
    <3> QED
      BY <2>1, <3>1 DEF Kind
  <2> QED
    BY <2>1, <2>2, <2>3 DEF StopLeavesNothing
<1> QED
  BY <1>1, Invariance, PTL

-----------------------------------------------------------------------------
(* The logs: their inductive invariant *)

Waiting == [revision : 1 .. MaxRows, at : Instants]
Streams == [phase : {"off", "listed", "registered"}, name : Strategies \cup {AllStrategies},
            tail : Seq(LogRow), minExclusiveID : Nat, since : Nat, ch : Seq(Nat), sent : Seq(Nat),
            dropped : SUBSET Nat]

\* Types, and what is bounded by itself.
LogSorts ==
  /\ now \in Instants /\ cutoff \in Instants \cup {NoTime}
  /\ stamped \in [Strategies -> AtMostOne(Line)]
  /\ strategyLogCh \in Seq(Line) /\ Len(strategyLogCh) <= LogQueue
  /\ strategy_logs \subseteq LogRow /\ unannounced \in AtMostOne(LogRow)
  /\ account_snapshots \subseteq SnapshotRow /\ refreshed \subseteq Waiting
  /\ stream \in Streams /\ Len(stream.ch) <= StreamBuf /\ Len(stream.tail) <= MaxTail
  /\ lines \in Nat /\ snapshots \in Nat /\ saved \in Nat /\ savedSnapshots \in Nat
  /\ lines + snapshots <= MaxRows

Readers == {s \in Strategies : stamped[s] # Nothing}

\* No row without a line, and no saved snapshot without one that was taken.
Counts ==
  /\ IsFiniteSet(Readers) /\ saved + Len(strategyLogCh) + Cardinality(Readers) <= lines
  /\ IsFiniteSet(refreshed) /\ savedSnapshots + Cardinality(refreshed) <= snapshots

\* The row on its way to the subscribers is the one saved last.
RowIds ==
  /\ \A p, q \in strategy_logs : p.id = q.id => p = q
  /\ \A p \in strategy_logs : p.id <= saved
  /\ \A p \in unannounced : p.id = saved

Revisions ==
  /\ \A p, q \in account_snapshots : p.id = q.id \/ p.revision = q.revision => p = q
  /\ \A p \in account_snapshots : p.id <= savedSnapshots /\ p.revision <= snapshots
  /\ \A p, q \in refreshed : p.revision = q.revision => p = q
  /\ \A p \in refreshed : p.revision <= snapshots
  /\ \A p \in refreshed, q \in account_snapshots : p.revision # q.revision

\* What a client was sent, and will be sent next.
Streamed == stream.sent \o TailIds \o stream.ch

\* The last row the subscribers were told of.
LastTold == IF unannounced = Nothing THEN saved ELSE saved - 1

InRowOrder(ids, min) == \A i, j \in DOMAIN ids : i < j /\ ids[i] > min /\ ids[j] > min => ids[i] < ids[j]

\* A tail that was listed has no row twice.
Listed ==
  stream.phase = "listed" =>
    /\ stream.sent = <<>> /\ stream.ch = <<>>
    /\ IsInjective(TailIds) /\ \A i \in DOMAIN TailIds : TailIds[i] <= saved

\* Beyond the tail only rows are streamed that the subscribers were told of.
Following ==
  stream.phase = "registered" =>
    /\ stream.minExclusiveID <= stream.since /\ stream.since <= saved
    /\ IsInjective(Streamed) /\ InRowOrder(Streamed, stream.minExclusiveID)
    /\ \A i \in DOMAIN Streamed : Streamed[i] <= stream.minExclusiveID \/ Streamed[i] <= LastTold

\* Rows saved since the registration are streamed or were dropped.
Reached ==
  stream.phase = "registered" =>
    \A row \in strategy_logs \ unannounced :
      row.id > stream.since /\ (stream.name = AllStrategies \/ stream.name = row.strategy)
        => row.id \in Range(stream.sent \o stream.ch) \cup stream.dropped

\* The inductive invariant.
LogIInv == LogSorts /\ Counts /\ RowIds /\ Revisions /\ Listed /\ Following /\ Reached

-----------------------------------------------------------------------------
(* Orders and places *)

\* In a finite set with a strict total order every element has one place, and no place is left
\* out; before says which elements are before each.
LEMMA PlacesOf ==
  ASSUME NEW S, IsFiniteSet(S), NEW before \in [S -> SUBSET S],
         \A p \in S : p \notin before[p],
         \A p, q \in S : p # q => p \in before[q] \/ q \in before[p],
         \A p, q, r \in S : p \in before[q] /\ q \in before[r] => p \in before[r]
  PROVE  /\ \A p \in S : Cardinality(before[p]) \in 0 .. (Cardinality(S) - 1)
         /\ \A p, q \in S : Cardinality(before[p]) = Cardinality(before[q]) => p = q
         /\ \A n \in 1 .. Cardinality(S) : \E p \in S : Cardinality(before[p]) = n - 1
<1> DEFINE c == Cardinality(S)
           Place(p) == Cardinality(before[p]) + 1
<1>1. c \in Nat
  BY FS_CardinalityType
<1>2. ASSUME NEW p \in S PROVE IsFiniteSet(before[p]) /\ Cardinality(before[p]) \in 0 .. (c - 1)
  <2>1. before[p] \subseteq S \ {p}
    OBVIOUS
  <2>2. IsFiniteSet(S \ {p}) /\ Cardinality(S \ {p}) = c - 1
    BY FS_RemoveElement
  <2>3. IsFiniteSet(before[p]) /\ Cardinality(before[p]) <= c - 1
    BY <2>1, <2>2, FS_Subset
  <2>4. Cardinality(before[p]) \in Nat
    BY <2>3, FS_CardinalityType
  <2> QED
    BY <1>1, <2>3, <2>4
<1>3. ASSUME NEW p \in S, NEW q \in S, p \in before[q]
      PROVE  Cardinality(before[p]) < Cardinality(before[q])
  <2>1. before[p] \cup {p} \subseteq before[q] /\ p \notin before[p]
    BY <1>3
  <2>2. Cardinality(before[p] \cup {p}) = Cardinality(before[p]) + 1
    BY <1>2, <2>1, FS_AddElement
  <2>3. Cardinality(before[p] \cup {p}) <= Cardinality(before[q])
    BY <1>2, <2>1, FS_Subset
  <2> QED
    BY <1>1, <1>2, <2>2, <2>3
<1>4. \A p, q \in S : Cardinality(before[p]) = Cardinality(before[q]) => p = q
  <2> SUFFICES ASSUME NEW p \in S, NEW q \in S, p # q PROVE Cardinality(before[p]) # Cardinality(before[q])
    OBVIOUS
  <2>1. Cardinality(before[p]) \in Int /\ Cardinality(before[q]) \in Int
    BY <1>1, <1>2
  <2> QED
    BY <1>3, <2>1
<1> DEFINE f == [p \in S |-> Place(p)]
<1>5. \A p \in S : Place(p) \in 1 .. c
  BY <1>1, <1>2
<1>6. \A p, q \in S : Place(p) = Place(q) => p = q
  BY <1>1, <1>2, <1>4
<1>7. f \in Injection(S, 1 .. c)
  <2> HIDE DEF Place, c
  <2> QED
    BY <1>5, <1>6 DEF Injection, IsInjective
<1>8. IsFiniteSet(1 .. c) /\ Cardinality(1 .. c) = c
  <2> HIDE DEF c
  <2> QED
    BY <1>1, FS_Interval
<1>9. f \in Surjection(S, 1 .. c)
  <2> HIDE DEF f
  <2> QED
    BY <1>7, <1>8, FS_Injection
<1>10. ASSUME NEW n \in 1 .. c PROVE \E p \in S : Cardinality(before[p]) = n - 1
  <2>1. PICK p \in S : f[p] = n
    BY <1>9 DEF Surjection
  <2>2. Cardinality(before[p]) + 1 = n
    BY <2>1
  <2> QED
    BY <1>1, <1>2, <2>2
<1> QED
  BY <1>2, <1>4, <1>10

\* Of a set with such an order at most n elements have fewer than n before them.
LEMMA FirstAreFew ==
  ASSUME NEW S, IsFiniteSet(S), NEW before \in [S -> SUBSET S], NEW n \in Nat,
         \A p \in S : p \notin before[p],
         \A p, q \in S : p # q => p \in before[q] \/ q \in before[p],
         \A p, q, r \in S : p \in before[q] /\ q \in before[r] => p \in before[r]
  PROVE  LET first == {p \in S : Cardinality(before[p]) < n}
         IN  IsFiniteSet(first) /\ Cardinality(first) <= n
<1> DEFINE first == {p \in S : Cardinality(before[p]) < n}
           f == [p \in first |-> Cardinality(before[p])]
<1>1. /\ \A p \in S : Cardinality(before[p]) \in Nat
      /\ \A p, q \in S : Cardinality(before[p]) = Cardinality(before[q]) => p = q
  <2>1. Cardinality(S) \in Nat
    BY FS_CardinalityType
  <2> QED
    BY <2>1, PlacesOf
<1>2. f \in Injection(first, 0 .. (n - 1))
  BY <1>1 DEF Injection, IsInjective
<1>3. IsFiniteSet(0 .. (n - 1)) /\ Cardinality(0 .. (n - 1)) = n
  BY FS_Interval
<1> HIDE DEF first, f
<1>4. IsFiniteSet(first) /\ Cardinality(first) <= n
  BY <1>2, <1>3, FS_Injection
<1> QED
  BY <1>4 DEF first

\* Rows of which each has a number of its own.
LEMMA RowsAreFew ==
  ASSUME NEW rows, NEW n \in Nat, \A r \in rows : r.id \in 1 .. n, \A p, q \in rows : p.id = q.id => p = q
  PROVE  IsFiniteSet(rows) /\ Cardinality(rows) <= n
<1> DEFINE f == [r \in rows |-> r.id]
<1>1. f \in Injection(rows, 1 .. n)
  BY DEF Injection, IsInjective
<1>2. IsFiniteSet(1 .. n) /\ Cardinality(1 .. n) = n
  BY FS_Interval
<1> HIDE DEF f
<1> QED
  BY <1>1, <1>2, FS_Injection

\* Of what follows the second, the longer fraction is in front.
LEMMA EndingsOrdered ==
  ASSUME NEW f \in 1 .. 3, NEW g \in 1 .. 3
  PROVE  <<f, g>> \in EndingBefore <=> g < f
<1> DEFINE s == Endings[f]
           u == Endings[g]
           Is(e, k) == /\ k \in 1 .. 3
                       /\ k = 1 => Len(e) = 1 /\ e[1] = 3
                       /\ k = 2 => Len(e) = 3 /\ e[1] = 1 /\ e[2] = 2 /\ e[3] = 3
                       /\ k = 3 => Len(e) = 4 /\ e[1] = 1 /\ e[2] = 2 /\ e[3] = 2 /\ e[4] = 3
<1>1. /\ Endings[1] = <<3>> /\ Endings[2] = <<1, 2, 3>> /\ Endings[3] = <<1, 2, 2, 3>>
  BY DEF Endings, Dot, Five, Zone
<1>2. Is(s, f)
  BY <1>1
<1>3. Is(u, g)
  BY <1>1
<1>4. <<f, g>> \in EndingBefore <=> TextBefore(s, u)
  <2>1. Len(Endings) = 3
    BY DEF Endings
  <2> QED
    BY <2>1 DEF EndingBefore
<1> HIDE DEF s, u
<1>5. TextBefore(s, u) <=>
        \E i \in 1 .. Len(s) : i <= Len(u) /\ (\A j \in 1 .. i - 1 : s[j] = u[j]) /\ s[i] < u[i]
  BY Zenon DEF TextBefore
<1>6. ASSUME f <= g PROVE ~TextBefore(s, u)
  <2>1. ASSUME NEW i \in 1 .. Len(s), i <= Len(u), \A j \in 1 .. i - 1 : s[j] = u[j], s[i] < u[i] PROVE FALSE
    <3>1. f = g \/ (f = 1 /\ g = 2) \/ (f = 1 /\ g = 3) \/ (f = 2 /\ g = 3)
      BY <1>6
    <3>2. CASE f = g
      BY <1>2, <1>3, <2>1, <3>2, SMTT(30)
    <3>3. CASE f = 1
      BY <1>2, <1>3, <2>1, <3>1, <3>3, SMTT(30)
    <3>4. CASE f = 2 /\ g = 3
      <4>1. i # 1 /\ i # 2
        BY <1>2, <1>3, <2>1, <3>4
      <4> QED
        BY <1>2, <1>3, <2>1, <3>4, <4>1
    <3> QED
      BY <3>1, <3>2, <3>3, <3>4
  <2> QED
    BY <1>5, <2>1
<1>7. ASSUME g < f PROVE TextBefore(s, u)
  <2>1. CASE g = 1
    <3>1. Len(u) = 1 /\ u[1] = 3
      BY <1>3, <2>1
    <3>2. (Len(s) = 3 \/ Len(s) = 4) /\ s[1] = 1
      BY <1>2, <1>7, <2>1
    <3>3. 1 \in 1 .. Len(s) /\ 1 <= Len(u) /\ (\A j \in 1 .. 1 - 1 : s[j] = u[j]) /\ s[1] < u[1]
      BY <3>1, <3>2
    <3> QED
      BY <1>5, <3>3
  <2>2. CASE g = 2 /\ f = 3
    <3>1. 3 \in 1 .. Len(s) /\ 3 <= Len(u) /\ s[3] < u[3] /\ s[1] = u[1] /\ s[2] = u[2]
      BY <1>2, <1>3, <2>2, SMTT(30)
    <3>2. \A j \in 1 .. 3 - 1 : j = 1 \/ j = 2
      OBVIOUS
    <3> QED
      BY <1>5, <3>1, <3>2
  <2> QED
    BY <1>7, <2>1, <2>2
<1>8. f <= g <=> ~(g < f)
  OBVIOUS
<1> QED
  BY <1>4, <1>6, <1>7, <1>8, Zenon

\* The texts of two times: later seconds are behind, and of one second the longer fraction is in front.
LEMMA BeforeIs ==
  ASSUME NEW a \in Nat, NEW b \in Nat
  PROVE  /\ Second(a) \in Nat /\ Second(b) \in Nat
         /\ Before(a, b) <=> Second(a) < Second(b) \/ (Second(a) = Second(b) /\ b < a)
<1>1. Second(a) \in Nat /\ Fraction(a) \in 1 .. 3 /\ a = 3 * Second(a) + Fraction(a) - 1
  BY DEF Second, Fraction, InstantsPerSecond
<1>2. Second(b) \in Nat /\ Fraction(b) \in 1 .. 3 /\ b = 3 * Second(b) + Fraction(b) - 1
  BY DEF Second, Fraction, InstantsPerSecond
<1>3. <<Fraction(a), Fraction(b)>> \in EndingBefore <=> Fraction(b) < Fraction(a)
  BY <1>1, <1>2, EndingsOrdered
<1>4. Second(a) = Second(b) => (Fraction(b) < Fraction(a) <=> b < a)
  BY <1>1, <1>2
<1> QED
  BY <1>1, <1>2, <1>3, <1>4, Zenon DEF Before

-----------------------------------------------------------------------------
(* Rows *)

RowsNumbered(rows) == (\A r \in rows : r.at \in Nat /\ r.id \in Nat) /\ \A p, q \in rows : p.id = q.id => p = q

LEMMA PrecedesIs ==
  ASSUME NEW p, NEW q, p.at \in Nat, q.at \in Nat
  PROVE  /\ Second(p.at) \in Nat /\ Second(q.at) \in Nat
         /\ Precedes(p, q) <=> \/ Second(p.at) < Second(q.at)
                               \/ Second(p.at) = Second(q.at) /\ q.at < p.at
                               \/ p.at = q.at /\ p.id < q.id
BY BeforeIs DEF Precedes

\* The order in which the store lists rows is strict and total.
LEMMA PrecedesOrders ==
  ASSUME NEW rows, RowsNumbered(rows)
  PROVE  /\ \A p \in rows : ~Precedes(p, p)
         /\ \A p, q \in rows : p # q => Precedes(p, q) \/ Precedes(q, p)
         /\ \A p, q, r \in rows : Precedes(p, q) /\ Precedes(q, r) => Precedes(p, r)
<1>1. \A p \in rows : ~Precedes(p, p)
  BY PrecedesIs DEF RowsNumbered
<1>2. ASSUME NEW p \in rows, NEW q \in rows, p # q PROVE Precedes(p, q) \/ Precedes(q, p)
  <2>1. p.at \in Nat /\ q.at \in Nat /\ p.id \in Nat /\ q.id \in Nat /\ p.id # q.id
    BY <1>2 DEF RowsNumbered
  <2> QED
    BY <2>1, PrecedesIs
<1>3. ASSUME NEW p \in rows, NEW q \in rows, NEW r \in rows, Precedes(p, q), Precedes(q, r) PROVE Precedes(p, r)
  <2>1. /\ p.at \in Nat /\ q.at \in Nat /\ r.at \in Nat
        /\ p.id \in Nat /\ q.id \in Nat /\ r.id \in Nat
    BY DEF RowsNumbered
  <2> QED
    BY <1>3, <2>1, PrecedesIs
<1> QED
  BY <1>1, <1>2, <1>3

\* A limit on the last rows is kept.
LEMMA LastRowsAreFew ==
  ASSUME NEW rows, IsFiniteSet(rows), RowsNumbered(rows), NEW n \in Nat
  PROVE  /\ LastRows(rows, n) \subseteq rows
         /\ IsFiniteSet(LastRows(rows, n)) /\ Cardinality(LastRows(rows, n)) <= n
<1> DEFINE later == [r \in rows |-> {q \in rows : Precedes(r, q)}]
<1>1. later \in [rows -> SUBSET rows] /\ \A p, q \in rows : p \in later[q] <=> Precedes(q, p)
  OBVIOUS
<1>2. LastRows(rows, n) = {r \in rows : Cardinality(later[r]) < n}
  BY DEF LastRows
<1> HIDE DEF later
<1>3. LET first == {p \in rows : Cardinality(later[p]) < n} IN IsFiniteSet(first) /\ Cardinality(first) <= n
  <2>1. /\ \A p \in rows : p \notin later[p]
        /\ \A p, q \in rows : p # q => p \in later[q] \/ q \in later[p]
        /\ \A p, q, r \in rows : p \in later[q] /\ q \in later[r] => p \in later[r]
    BY <1>1, PrecedesOrders
  <2> QED
    BY <1>1, <2>1, FirstAreFew
<1> QED
  BY <1>2, <1>3

\* The rows in the order of their times are the rows, each once.
LEMMA RowsASCAre ==
  ASSUME NEW rows, IsFiniteSet(rows), RowsNumbered(rows)
  PROVE  LET list == rowsASC(rows)
         IN  /\ list \in Seq(rows) /\ Len(list) = Cardinality(rows)
             /\ \A i, j \in DOMAIN list : list[i].id = list[j].id => i = j
<1> DEFINE list == rowsASC(rows)
           c == Cardinality(rows)
           earlier == [r \in rows |-> {q \in rows : q.at < r.at \/ (q.at = r.at /\ q.id < r.id)}]
<1>1. /\ c \in Nat /\ earlier \in [rows -> SUBSET rows]
      /\ \A p, q \in rows : p \in earlier[q] <=> p.at < q.at \/ (p.at = q.at /\ p.id < q.id)
  BY FS_CardinalityType
<1>2. list = [n \in 1 .. c |-> CHOOSE r \in rows : Cardinality(earlier[r]) = n - 1]
  BY DEF rowsASC
<1> HIDE DEF earlier
<1>3. \A p \in rows : p \notin earlier[p]
  BY <1>1 DEF RowsNumbered
<1>4. \A p, q \in rows : p # q => p \in earlier[q] \/ q \in earlier[p]
  BY <1>1 DEF RowsNumbered
<1>5. \A p, q, r \in rows : p \in earlier[q] /\ q \in earlier[r] => p \in earlier[r]
  BY <1>1 DEF RowsNumbered
<1>6. \A n \in 1 .. c : \E p \in rows : Cardinality(earlier[p]) = n - 1
  BY <1>1, <1>3, <1>4, <1>5, PlacesOf
<1> HIDE DEF c
<1>7. \A n \in 1 .. c : list[n] \in rows /\ Cardinality(earlier[list[n]]) = n - 1
  BY <1>2, <1>6
<1>8. DOMAIN list = 1 .. c /\ list \in [1 .. c -> rows]
  BY <1>2, <1>7
<1> HIDE DEF list
<1>9. list \in Seq(rows) /\ Len(list) = c
  BY <1>1, <1>8
<1>10. ASSUME NEW i \in 1 .. c, NEW j \in 1 .. c, list[i].id = list[j].id PROVE i = j
  <2>1. list[i] = list[j]
    BY <1>7, <1>10 DEF RowsNumbered
  <2>2. i - 1 = j - 1
    BY <1>7, <2>1
  <2> QED
    BY <1>1, <2>2
<1> QED
  BY <1>8, <1>9, <1>10 DEF list, c

\* What a listing of all rows finds, and what is latest.
LEMMA ListedToTheSecond ==
  ASSUME NEW rows, IsFiniteSet(rows), RowsNumbered(rows), NEW n \in Nat, Cardinality(rows) <= n,
         NEW start, NEW end, start = NoTime \/ start \in Nat, end = NoTime \/ end \in Nat, NEW row \in rows
  PROVE  LET listed == ListAccountSnapshots(rows, start, end, n)
         IN  /\ /\ start = NoTime \/ Second(start) < Second(row.at)
                /\ end = NoTime \/ Second(row.at) < Second(end)
                => row \in listed
             /\ row \in listed =>
                   /\ start = NoTime \/ Second(start) <= Second(row.at)
                   /\ end = NoTime \/ Second(row.at) <= Second(end)
<1> DEFINE found == InRange(rows, start, end)
<1>1. found \subseteq rows
  BY DEF InRange
<1>2. IsFiniteSet(found) /\ Cardinality(found) <= n
  <2>1. IsFiniteSet(found) /\ Cardinality(found) <= Cardinality(rows)
    BY <1>1, FS_Subset
  <2>2. Cardinality(found) \in Nat /\ Cardinality(rows) \in Nat
    BY <2>1, FS_CardinalityType
  <2> QED
    BY <2>1, <2>2
<1>3. RowsNumbered(found)
  BY <1>1 DEF RowsNumbered
<1>4. ListAccountSnapshots(rows, start, end, n) = found
  <2> HIDE DEF found
  <2>1. FirstRows(found, n) = found
    BY <1>2 DEF FirstRows
  <2> QED
    BY <2>1 DEF ListAccountSnapshots, found
<1>5. row.at \in Nat
  BY DEF RowsNumbered
<1>6. row \in found <=> /\ start = NoTime \/ ~Before(row.at, start)
                        /\ end = NoTime \/ ~Before(end, row.at)
  BY DEF InRange
<1> HIDE DEF found
<1>7. start # NoTime => /\ Second(start) \in Nat /\ Second(row.at) \in Nat
                        /\ Second(start) < Second(row.at) => ~Before(row.at, start)
                        /\ ~Before(row.at, start) => Second(start) <= Second(row.at)
  BY <1>5, BeforeIs
<1>8. end # NoTime => /\ Second(end) \in Nat /\ Second(row.at) \in Nat
                      /\ Second(row.at) < Second(end) => ~Before(end, row.at)
                      /\ ~Before(end, row.at) => Second(row.at) <= Second(end)
  BY <1>5, BeforeIs
<1> QED
  BY <1>4, <1>6, <1>7, <1>8

LEMMA LatestToTheSecond ==
  ASSUME NEW rows, IsFiniteSet(rows), RowsNumbered(rows),
         NEW latest \in GetLatestAccountSnapshot(rows), NEW row \in rows
  PROVE  Second(row.at) <= Second(latest.at)
<1> DEFINE later == {q \in rows : Precedes(latest, q)}
<1>1. latest \in rows /\ Cardinality(later) < 1
  BY DEF GetLatestAccountSnapshot, LastRows
<1>2. IsFiniteSet(later)
  BY FS_Subset
<1>3. later = {}
  <2> HIDE DEF later
  <2>1. Cardinality(later) = 0
    BY <1>1, <1>2, FS_CardinalityType
  <2> QED
    BY <1>2, <2>1, FS_EmptySet
<1>4. ~Precedes(latest, row)
  BY <1>3
<1> QED
  BY <1>1, <1>4, PrecedesIs DEF RowsNumbered

-----------------------------------------------------------------------------
(* Steps *)

LEMMA LogStepKinds ==
  ASSUME [LogNext]_logVars
  PROVE  \/ Tick \/ SaveStrategyLog \/ notifyStrategyLogSubscribers
         \/ RegisterStrategyLogSubscriber \/ Send \/ Disconnect
         \/ PersistAccountSnapshot \/ PurgeStrategyLogsBefore \/ PurgeAccountSnapshotsBefore
         \/ UNCHANGED logVars
         \/ (\E s \in Strategies : StampLog(s)) \/ (\E s \in Strategies : enqueueStrategyLog(s))
         \/ (\E name \in Strategies \cup {AllStrategies}, tail \in Tails : ListRecent(name, tail))
         \/ (\E p \in refreshed : SaveAccountSnapshot(p))
BY Zenon DEF LogNext, Logging, strategyLogWriterLoop, SubscribeStrategyLogs, Snapshots, retentionLoop

LEMMA OneLine ==
  ASSUME NEW T, NEW S \in AtMostOne(T), NEW x \in S
  PROVE  S = {x} /\ x \in T
BY DEF AtMostOne

LEMMA LogConstants ==
  /\ MaxInstant \in Nat /\ MaxRows \in Nat /\ MaxTail \in Nat /\ DefaultTail \in Nat /\ DefaultTail <= MaxTail
  /\ Retention \in Nat /\ LogQueue \in Nat /\ StreamBuf \in Nat /\ LogQueue # 0 /\ StreamBuf # 0
  /\ Tails \subseteq Nat
BY LogAssumption

LEMMA RowNumbers == \A r \in LogRow : r.id \in Nat /\ r.id > 0
<1> SUFFICES ASSUME NEW r \in LogRow PROVE r.id \in Nat /\ r.id > 0
  OBVIOUS
<1>1. r.id \in 1 .. MaxRows
  BY DEF LogRow
<1> QED
  BY <1>1, LogConstants

LEMMA StreamWith ==
  ASSUME NEW s \in Streams, NEW t \in Seq(LogRow), NEW c \in Seq(Nat), NEW q \in Seq(Nat), NEW d \in SUBSET Nat
  PROVE  /\ [s EXCEPT !.ch = c] \in Streams /\ [s EXCEPT !.dropped = d] \in Streams
         /\ [s EXCEPT !.tail = t, !.sent = q] \in Streams /\ [s EXCEPT !.ch = c, !.sent = q] \in Streams
BY DEF Streams

\* The table of logs, and that of snapshots.
LEMMA TablesAreFinite ==
  ASSUME LogSorts, RowIds, Revisions
  PROVE  \A rows \in {strategy_logs, account_snapshots} :
           RowsNumbered(rows) /\ IsFiniteSet(rows) /\ Cardinality(rows) <= MaxRows
<1>1. RowsNumbered(strategy_logs) /\ RowsNumbered(account_snapshots)
  BY LogConstants DEF LogSorts, RowIds, Revisions, RowsNumbered, LogRow, SnapshotRow, Instants
<1>2. /\ \A r \in strategy_logs : r.id \in 1 .. MaxRows
      /\ \A r \in account_snapshots : r.id \in 1 .. MaxRows
  BY DEF LogSorts, LogRow, SnapshotRow
<1> QED
  BY <1>1, <1>2, LogConstants, RowsAreFew DEF RowsNumbered

\* A tail that is listed.
LEMMA TailIs ==
  ASSUME LogSorts, RowIds, Revisions, NEW name, NEW tail \in Tails
  PROVE  LET list == rowsASC(ListRecentStrategyLogs(strategy_logs, name, clampStrategyLogTail(tail)))
         IN  /\ list \in Seq(strategy_logs) /\ Len(list) <= MaxTail
             /\ \A i, j \in DOMAIN list : list[i].id = list[j].id => i = j
<1> DEFINE of == OfStrategy(strategy_logs, name)
           n == clampStrategyLogTail(tail)
           rows == LastRows(of, n)
<1>1. n \in Nat /\ n <= MaxTail
  BY LogConstants DEF clampStrategyLogTail
<1>2. of \subseteq strategy_logs
  BY DEF OfStrategy
<1>3. RowsNumbered(strategy_logs) /\ IsFiniteSet(strategy_logs)
  BY TablesAreFinite
<1>4. IsFiniteSet(of) /\ RowsNumbered(of)
  <2>1. IsFiniteSet(of)
    BY <1>2, <1>3, FS_Subset
  <2> QED
    BY <1>2, <1>3, <2>1 DEF RowsNumbered
<1> HIDE DEF of, n
<1>5. rows \subseteq of /\ IsFiniteSet(rows) /\ Cardinality(rows) <= n
  BY <1>1, <1>4, LastRowsAreFew
<1>6. RowsNumbered(rows) /\ rows \subseteq strategy_logs
  BY <1>2, <1>4, <1>5 DEF RowsNumbered
<1>7. Cardinality(rows) \in Nat
  BY <1>5, FS_CardinalityType
<1>8. ListRecentStrategyLogs(strategy_logs, name, clampStrategyLogTail(tail)) = rows
  BY DEF ListRecentStrategyLogs, of, n
<1> HIDE DEF rows
<1> DEFINE list == rowsASC(rows)
<1>9. list \in Seq(rows) /\ Len(list) = Cardinality(rows)
      /\ \A i, j \in DOMAIN list : list[i].id = list[j].id => i = j
  BY <1>5, <1>6, RowsASCAre
<1> HIDE DEF list
<1>10. list \in Seq(strategy_logs)
  BY <1>6, <1>9
<1>11. Len(list) <= MaxTail
  BY <1>1, <1>5, <1>7, <1>9, LogConstants
<1> QED
  BY <1>8, <1>9, <1>10, <1>11 DEF list

LEMMA NaturalsBelow ==
  ASSUME NEW n \in Nat, NEW S, 0 \in S, \A i \in 0 .. (n - 1) : i \in S => i + 1 \in S
  PROVE  0 .. n \subseteq S
<1> SUFFICES ASSUME NEW m \in 0 .. n, m \notin S
             PROVE  FALSE
  OBVIOUS
<1> DEFINE Left == (0 .. m) \ S
           f == [i \in Left |-> i - 1]
<1>1. IsFiniteSet(Left)
  <2>1. IsFiniteSet(0 .. m)
    BY FS_Interval
  <2> QED
    BY <2>1, FS_Subset
<1>2. \A i \in Left : i - 1 \in Left /\ i \in 0 .. m
  OBVIOUS
<1>3. f \in Injection(Left, Left)
  BY <1>2 DEF Injection, IsInjective
<1>4. f \in Surjection(Left, Left)
  BY <1>1, <1>3, FS_Injection
<1>5. m \in Left
  OBVIOUS
<1>6. PICK i \in Left : i - 1 = m
  BY <1>4, <1>5 DEF Surjection
<1> QED
  BY <1>2, <1>6

\* The first n numbers of a sequence have a largest one, or 0.
LEMMA TailMaxIs ==
  ASSUME NEW rows \in Seq(LogRow)
  PROVE  /\ tailMaxID(rows) \in Nat
         /\ \A i \in DOMAIN rows : rows[i].id <= tailMaxID(rows)
         /\ tailMaxID(rows) = 0 \/ \E i \in DOMAIN rows : rows[i].id = tailMaxID(rows)
<1> DEFINE n == Len(rows)
           Ids(d) == {0} \cup {rows[i].id : i \in 1 .. d}
           Largest(d) == \E m \in Ids(d) : \A k \in Ids(d) : m >= k
           S == {d \in Nat : d <= n => Largest(d)}
<1>1. n \in Nat /\ DOMAIN rows = 1 .. n /\ \A i \in 1 .. n : rows[i].id \in Nat
  BY RowNumbers
<1>2. 0 \in S
  <2>1. Ids(0) = {0}
    OBVIOUS
  <2> QED
    BY <2>1
<1>3. ASSUME NEW d \in 0 .. (n - 1), d \in S PROVE d + 1 \in S
  <2>1. d + 1 \in 1 .. n /\ d \in Nat /\ d <= n
    BY <1>1
  <2>2. PICK m \in Ids(d) : \A k \in Ids(d) : m >= k
    BY <1>3, <2>1
  <2>3. Ids(d + 1) = Ids(d) \cup {rows[d + 1].id}
    <3>1. 1 .. (d + 1) = (1 .. d) \cup {d + 1}
      BY <2>1
    <3> QED
      BY <3>1
  <2>4. m \in Nat /\ rows[d + 1].id \in Nat /\ \A k \in Ids(d) : k \in Nat
    BY <1>1, <2>1
  <2> HIDE DEF Ids, n
  <2>5. CASE m >= rows[d + 1].id
    <3>1. m \in Ids(d + 1) /\ \A k \in Ids(d + 1) : m >= k
      BY <2>2, <2>3, <2>5
    <3> QED
      BY <2>1, <3>1
  <2>6. CASE ~(m >= rows[d + 1].id)
    <3>1. \A k \in Ids(d + 1) : rows[d + 1].id >= k
      BY <2>2, <2>3, <2>4, <2>6
    <3>2. rows[d + 1].id \in Ids(d + 1)
      BY <2>3
    <3>3. Largest(d + 1)
      BY <3>1, <3>2
    <3> QED
      BY <2>1, <3>3
  <2> QED
    BY <2>5, <2>6
<1>4. Largest(n)
  <2> HIDE DEF S, n, Largest
  <2>1. 0 .. n \subseteq S
    BY <1>1, <1>2, <1>3, NaturalsBelow
  <2>2. n \in S
    BY <1>1, <2>1
  <2> QED
    BY <1>1, <2>2 DEF S
<1> DEFINE M == tailMaxID(rows)
<1>5. M \in Ids(n) /\ \A k \in Ids(n) : M >= k
  BY <1>1, <1>4 DEF tailMaxID, Max
<1> HIDE DEF M
<1> QED
  BY <1>1, <1>5 DEF M

LEMMA SortsOfLines ==
  ASSUME LogSorts, Counts,
         Tick \/ SaveStrategyLog \/ (\E s \in Strategies : StampLog(s)) \/ (\E s \in Strategies : enqueueStrategyLog(s))
  PROVE  LogSorts'
<1> USE LogConstants
<1>1. CASE Tick
  BY <1>1 DEF Tick, LogSorts, Instants, tableVars, snapshotVars
<1>2. ASSUME NEW s \in Strategies, StampLog(s) PROVE LogSorts'
  <2>1. lines' \in Nat /\ lines' + snapshots <= MaxRows
    BY <1>2 DEF StampLog, LogSorts
  <2>2. stamped' \in [Strategies -> AtMostOne(Line)]
    BY <1>2 DEF StampLog, LogSorts, AtMostOne, Line
  <2> QED
    BY <1>2, <2>1, <2>2 DEF StampLog, LogSorts, tableVars, snapshotVars
<1>3. ASSUME NEW s \in Strategies, enqueueStrategyLog(s) PROVE LogSorts'
  <2>1. PICK line \in stamped[s] :
          strategyLogCh' = IF queueFull THEN strategyLogCh ELSE Append(strategyLogCh, line)
    BY <1>3 DEF enqueueStrategyLog
  <2>2. line \in Line
    BY <2>1, OneLine DEF LogSorts
  <2>3. strategyLogCh' \in Seq(Line) /\ Len(strategyLogCh') <= LogQueue
    BY <2>1, <2>2 DEF LogSorts, queueFull
  <2>4. stamped' \in [Strategies -> AtMostOne(Line)]
    BY <1>3 DEF enqueueStrategyLog, LogSorts, AtMostOne, Nothing
  <2> QED
    BY <1>3, <2>3, <2>4 DEF enqueueStrategyLog, LogSorts, tableVars, snapshotVars
<1>4. CASE SaveStrategyLog
  <2> DEFINE line == Head(strategyLogCh)
             row == [id |-> saved + 1, strategy |-> line.strategy, at |-> line.at]
  <2>1. line \in Line /\ strategyLogCh' \in Seq(Line) /\ Len(strategyLogCh') <= LogQueue /\ Len(strategyLogCh) >= 1
    BY <1>4 DEF SaveStrategyLog, LogSorts
  <2>2. saved + 1 <= MaxRows
    <3>1. Cardinality(Readers) \in Nat
      BY FS_CardinalityType DEF Counts
    <3> QED
      BY <2>1, <3>1 DEF LogSorts, Counts
  <2>3. row \in LogRow
    BY <2>1, <2>2 DEF LogSorts, Line, LogRow
  <2>4. /\ strategy_logs' \subseteq LogRow /\ unannounced' \in AtMostOne(LogRow) /\ saved' \in Nat
    <3>1. CASE strategy_logs' = strategy_logs \cup {row} /\ saved' = row.id /\ unannounced' = {row}
      BY <2>3, <3>1 DEF LogSorts, AtMostOne
    <3>2. CASE UNCHANGED tableVars
      BY <3>2 DEF LogSorts, tableVars
    <3> QED
      BY <1>4, <3>1, <3>2 DEF SaveStrategyLog
  <2> QED
    BY <1>4, <2>1, <2>4 DEF SaveStrategyLog, LogSorts, snapshotVars
<1> QED
  BY <1>1, <1>2, <1>3, <1>4

LEMMA SortsOfStream ==
  ASSUME LogSorts, RowIds, Revisions,
         \/ notifyStrategyLogSubscribers \/ RegisterStrategyLogSubscriber \/ Send \/ Disconnect
         \/ (\E name \in Strategies \cup {AllStrategies}, tail \in Tails : ListRecent(name, tail))
  PROVE  LogSorts'
<1> USE LogConstants
<1>1. NoStream \in Streams /\ Len(NoStream.ch) = 0 /\ Len(NoStream.tail) = 0
  BY DEF NoStream, Streams
<1>2. UNCHANGED <<now, stamped, strategyLogCh, strategy_logs, saved, snapshotVars, cutoff, lines>>
      /\ unannounced' \in AtMostOne(LogRow)
  BY DEF notifyStrategyLogSubscribers, RegisterStrategyLogSubscriber, Send, Disconnect, ListRecent, tableVars,
         LogSorts, AtMostOne, Nothing
<1>3. CASE notifyStrategyLogSubscribers
  <2>1. PICK row \in unannounced : stream' = announce(row)
    BY <1>3 DEF notifyStrategyLogSubscribers
  <2>2. row.id \in Nat
    <3>1. row \in LogRow
      BY <2>1, OneLine DEF LogSorts
    <3> QED
      BY <3>1, RowNumbers
  <2>3. stream' \in Streams /\ Len(stream'.ch) <= StreamBuf /\ stream'.tail = stream.tail
    <3>1. CASE stream' = stream
      BY <3>1 DEF LogSorts
    <3>2. CASE stream' = [stream EXCEPT !.ch = Append(@, row.id)] /\ Len(stream.ch) < StreamBuf
      <4>1. stream.ch \in Seq(Nat) /\ stream \in Streams
        BY DEF LogSorts, Streams
      <4>2. Append(stream.ch, row.id) \in Seq(Nat) /\ Len(Append(stream.ch, row.id)) = Len(stream.ch) + 1
        BY <2>2, <4>1
      <4>3. stream' \in Streams
        <5> DEFINE c == Append(stream.ch, row.id)
        <5>1. stream' = [stream EXCEPT !.ch = c] /\ c \in Seq(Nat)
          BY <3>2, <4>2
        <5> HIDE DEF c
        <5>2. <<>> \in Seq(LogRow) /\ <<>> \in Seq(Nat)
          OBVIOUS
        <5> QED
          BY <4>1, <5>1, <5>2, StreamWith
      <4>4. stream'.ch = Append(stream.ch, row.id) /\ stream'.tail = stream.tail
        BY <3>2, <4>1 DEF Streams
      <4> QED
        BY <3>2, <4>1, <4>2, <4>3, <4>4
    <3>3. CASE stream' = [stream EXCEPT !.dropped = @ \cup {row.id}]
      BY <2>2, <3>3 DEF LogSorts, Streams
    <3> QED
      BY <2>1, <3>1, <3>2, <3>3 DEF announce
  <2> QED
    BY <1>2, <2>3 DEF LogSorts, snapshotVars
<1>4. ASSUME NEW name \in Strategies \cup {AllStrategies}, NEW tail \in Tails, ListRecent(name, tail)
      PROVE  LogSorts'
  <2> DEFINE list == rowsASC(ListRecentStrategyLogs(strategy_logs, name, clampStrategyLogTail(tail)))
  <2>1. list \in Seq(strategy_logs) /\ Len(list) <= MaxTail
    BY TailIs
  <2>2. stream' = [NoStream EXCEPT !.phase = "listed", !.name = name, !.tail = list]
    BY <1>4 DEF ListRecent
  <2> HIDE DEF list
  <2>3. list \in Seq(LogRow)
    BY <2>1 DEF LogSorts
  <2>4. stream' \in Streams /\ stream'.ch = NoStream.ch /\ stream'.tail = list
    BY <1>1, <2>2, <2>3 DEF Streams
  <2> QED
    BY <1>1, <1>2, <2>1, <2>4 DEF LogSorts, snapshotVars
<1>5. CASE RegisterStrategyLogSubscriber
  <2>1. tailMaxID(stream.tail) \in Nat
    BY TailMaxIs DEF LogSorts, Streams
  <2>2. stream' \in Streams /\ stream'.ch = stream.ch /\ stream'.tail = stream.tail
    BY <1>5, <2>1 DEF RegisterStrategyLogSubscriber, LogSorts, Streams
  <2> QED
    BY <1>2, <2>2 DEF LogSorts, snapshotVars
<1>6. CASE Send
  <2>1. /\ stream.tail \in Seq(LogRow) /\ stream.ch \in Seq(Nat) /\ stream.sent \in Seq(Nat)
        /\ Len(stream.ch) <= StreamBuf /\ Len(stream.tail) <= MaxTail
    BY DEF LogSorts, Streams
  <2>2. stream' \in Streams /\ Len(stream'.ch) <= StreamBuf /\ Len(stream'.tail) <= MaxTail
    <3>1. CASE /\ stream.tail # <<>>
               /\ stream' = [stream EXCEPT !.tail = Tail(@), !.sent = Append(@, Head(stream.tail).id)]
      <4>1. Tail(stream.tail) \in Seq(LogRow) /\ Len(Tail(stream.tail)) = Len(stream.tail) - 1
            /\ Head(stream.tail).id \in Nat
        <5>1. Head(stream.tail) \in LogRow
          BY <2>1, <3>1
        <5> QED
          BY <2>1, <3>1, <5>1, RowNumbers
      <4>2. Append(stream.sent, Head(stream.tail).id) \in Seq(Nat)
        BY <2>1, <4>1
      <4>3. stream' \in Streams
        BY <2>1, <3>1, <4>1, <4>2, StreamWith DEF LogSorts
      <4>4. stream'.ch = stream.ch /\ stream'.tail = Tail(stream.tail)
        BY <3>1 DEF LogSorts, Streams
      <4> QED
        BY <2>1, <4>1, <4>3, <4>4
    <3>2. CASE /\ stream.ch # <<>>
               /\ stream' = [stream EXCEPT !.ch = Tail(@), !.sent = Append(@, Head(stream.ch))]
      <4>1. Tail(stream.ch) \in Seq(Nat) /\ Len(Tail(stream.ch)) = Len(stream.ch) - 1 /\ Head(stream.ch) \in Nat
        BY <2>1, <3>2, SMTT(30)
      <4>2. Append(stream.sent, Head(stream.ch)) \in Seq(Nat)
        BY <2>1, <4>1
      <4>3. stream' \in Streams
        BY <2>1, <3>2, <4>1, <4>2, StreamWith DEF LogSorts
      <4>4. stream'.ch = Tail(stream.ch) /\ stream'.tail = stream.tail
        BY <3>2 DEF LogSorts, Streams
      <4> QED
        BY <2>1, <4>1, <4>3, <4>4
    <3> QED
      BY <1>6, <3>1, <3>2 DEF Send
  <2> QED
    BY <1>2, <2>2 DEF LogSorts, snapshotVars
<1>7. CASE Disconnect
  BY <1>1, <1>2, <1>7 DEF Disconnect, LogSorts, snapshotVars
<1> QED
  BY <1>3, <1>4, <1>5, <1>6, <1>7

LEMMA SortsOfSnapshots ==
  ASSUME LogSorts, Counts, Revisions,
         \/ PersistAccountSnapshot \/ PurgeStrategyLogsBefore \/ PurgeAccountSnapshotsBefore
         \/ (\E p \in refreshed : SaveAccountSnapshot(p))
  PROVE  LogSorts'
<1> USE LogConstants
<1>1. CASE PersistAccountSnapshot
  <2>1. /\ snapshots' \in Nat /\ lines + snapshots' <= MaxRows /\ snapshots + 1 \in 1 .. MaxRows
    BY <1>1 DEF PersistAccountSnapshot, LogSorts
  <2>2. refreshed' \subseteq Waiting
    BY <1>1, <2>1 DEF PersistAccountSnapshot, LogSorts, Waiting
  <2> QED
    BY <1>1, <2>1, <2>2 DEF PersistAccountSnapshot, LogSorts, tableVars
<1>2. ASSUME NEW p \in refreshed, SaveAccountSnapshot(p) PROVE LogSorts'
  <2>1. refreshed' \subseteq Waiting /\ p \in Waiting
    BY <1>2 DEF SaveAccountSnapshot, LogSorts
  <2>2. savedSnapshots + 1 <= MaxRows
    <3>1. Cardinality(refreshed) \in Nat /\ Cardinality(refreshed) # 0
      BY FS_CardinalityType, FS_EmptySet DEF Counts
    <3> QED
      BY <3>1 DEF LogSorts, Counts
  <2>3. savedSnapshots' \in Nat /\ account_snapshots' \subseteq SnapshotRow
    <3>1. CASE /\ savedSnapshots' = savedSnapshots + 1
               /\ account_snapshots' = account_snapshots \cup
                      {[id |-> savedSnapshots + 1, revision |-> p.revision, at |-> p.at]}
      <4>1. [id |-> savedSnapshots + 1, revision |-> p.revision, at |-> p.at] \in SnapshotRow
        BY <2>1, <2>2 DEF Waiting, SnapshotRow, LogSorts
      <4> QED
        BY <3>1, <4>1 DEF LogSorts
    <3>2. CASE UNCHANGED <<account_snapshots, savedSnapshots>>
      BY <3>2 DEF LogSorts
    <3> QED
      BY <1>2, <3>1, <3>2 DEF SaveAccountSnapshot
  <2> QED
    BY <1>2, <2>1, <2>3 DEF SaveAccountSnapshot, LogSorts, tableVars
<1>3. CASE PurgeStrategyLogsBefore
  <2>1. retentionCutoff(now) \in Instants
    BY <1>3 DEF PurgeStrategyLogsBefore, retentionCutoff, LogSorts, Instants
  <2>2. strategy_logs' \subseteq strategy_logs /\ cutoff' \in Instants \cup {NoTime}
    BY <1>3, <2>1 DEF PurgeStrategyLogsBefore, PurgeBefore, LogSorts
  <2> QED
    BY <1>3, <2>2 DEF PurgeStrategyLogsBefore, LogSorts, snapshotVars
<1>4. CASE PurgeAccountSnapshotsBefore
  <2>1. account_snapshots' \subseteq account_snapshots
    BY <1>4 DEF PurgeAccountSnapshotsBefore, PurgeBefore
  <2> QED
    BY <1>4, <2>1 DEF PurgeAccountSnapshotsBefore, LogSorts, tableVars
<1> QED
  BY <1>1, <1>2, <1>3, <1>4

LEMMA LogSortsStep ==
  ASSUME LogSorts, Counts, RowIds, Revisions, [LogNext]_logVars
  PROVE  LogSorts'
<1>1. CASE UNCHANGED logVars
  BY <1>1 DEF logVars, LogSorts, tableVars, snapshotVars
<1> QED
  BY <1>1, LogStepKinds, SortsOfLines, SortsOfStream, SortsOfSnapshots

LEMMA CountsStep ==
  ASSUME LogSorts, Counts, [LogNext]_logVars
  PROVE  Counts'
<1>1. Cardinality(Readers) \in Nat /\ Cardinality(refreshed) \in Nat
  BY FS_CardinalityType DEF Counts
<1>2. ASSUME UNCHANGED <<stamped, strategyLogCh, saved, lines, refreshed, savedSnapshots, snapshots>>
      PROVE  Counts'
  BY <1>2 DEF Counts, Readers
<1>3. CASE Tick \/ notifyStrategyLogSubscribers \/ RegisterStrategyLogSubscriber \/ Send \/ Disconnect
           \/ PurgeStrategyLogsBefore \/ PurgeAccountSnapshotsBefore \/ UNCHANGED logVars
           \/ (\E name \in Strategies \cup {AllStrategies}, tail \in Tails : ListRecent(name, tail))
  BY <1>2, <1>3, Zenon
     DEF Tick, notifyStrategyLogSubscribers, RegisterStrategyLogSubscriber, Send, Disconnect, PurgeStrategyLogsBefore,
         PurgeAccountSnapshotsBefore, ListRecent, logVars, tableVars, snapshotVars
<1>4. CASE SaveStrategyLog
  <2>1. Len(strategyLogCh') = Len(strategyLogCh) - 1 /\ Len(strategyLogCh) \in Nat
    BY <1>4 DEF SaveStrategyLog, LogSorts
  <2>2. saved' = saved \/ saved' = saved + 1
    BY <1>4 DEF SaveStrategyLog, tableVars
  <2>3. UNCHANGED <<stamped, lines, refreshed, savedSnapshots, snapshots>>
    BY <1>4 DEF SaveStrategyLog, snapshotVars
  <2>4. Readers' = Readers
    BY <2>3 DEF Readers
  <2> QED
    BY <1>1, <2>1, <2>2, <2>3, <2>4 DEF Counts, LogSorts
<1>5. ASSUME NEW s \in Strategies, StampLog(s) PROVE Counts'
  <2>1. /\ lines' = lines + 1 /\ s \notin Readers
        /\ UNCHANGED <<strategyLogCh, saved, refreshed, savedSnapshots, snapshots>>
    BY <1>5 DEF StampLog, Readers, tableVars, snapshotVars
  <2>2. Readers' = Readers \cup {s}
    BY <1>5 DEF StampLog, Readers, LogSorts, Nothing
  <2>3. IsFiniteSet(Readers') /\ Cardinality(Readers') = Cardinality(Readers) + 1
    BY <2>1, <2>2, FS_AddElement DEF Counts
  <2>4. Len(strategyLogCh) \in Nat
    BY DEF LogSorts
  <2> QED
    BY <1>1, <2>1, <2>3, <2>4 DEF Counts, LogSorts
<1>6. ASSUME NEW s \in Strategies, enqueueStrategyLog(s) PROVE Counts'
  <2>1. PICK line \in stamped[s] :
          strategyLogCh' = IF queueFull THEN strategyLogCh ELSE Append(strategyLogCh, line)
    BY <1>6 DEF enqueueStrategyLog
  <2>2. line \in Line
    BY <2>1, OneLine DEF LogSorts
  <2>3. Len(strategyLogCh) \in Nat /\ Len(strategyLogCh') \in Nat /\ Len(strategyLogCh') <= Len(strategyLogCh) + 1
    BY <2>1, <2>2 DEF LogSorts
  <2>4. s \in Readers
    BY <2>1 DEF Readers, Nothing
  <2>5. Readers' = Readers \ {s}
    BY <1>6 DEF enqueueStrategyLog, Readers, LogSorts, Nothing
  <2>6. IsFiniteSet(Readers') /\ Cardinality(Readers') = Cardinality(Readers) - 1
    BY <2>4, <2>5, FS_RemoveElement DEF Counts
  <2>7. UNCHANGED <<saved, lines, refreshed, savedSnapshots, snapshots>>
    BY <1>6 DEF enqueueStrategyLog, tableVars, snapshotVars
  <2> QED
    BY <1>1, <2>3, <2>6, <2>7 DEF Counts, LogSorts
<1>7. CASE PersistAccountSnapshot
  <2>1. /\ snapshots' = snapshots + 1
        /\ refreshed' = refreshed \cup {[revision |-> snapshots + 1, at |-> now]}
        /\ UNCHANGED <<stamped, strategyLogCh, saved, lines, savedSnapshots>>
    BY <1>7 DEF PersistAccountSnapshot, tableVars
  <2>2. IsFiniteSet(refreshed') /\ Cardinality(refreshed') <= Cardinality(refreshed) + 1 /\ Cardinality(refreshed') \in Nat
    <3>1. IsFiniteSet(refreshed') /\ (Cardinality(refreshed') = Cardinality(refreshed)
                                      \/ Cardinality(refreshed') = Cardinality(refreshed) + 1)
      BY <2>1, FS_AddElement DEF Counts
    <3> QED
      BY <1>1, <3>1
  <2>3. Readers' = Readers
    BY <2>1 DEF Readers
  <2> QED
    BY <1>1, <2>1, <2>2, <2>3 DEF Counts, LogSorts
<1>8. ASSUME NEW p \in refreshed, SaveAccountSnapshot(p) PROVE Counts'
  <2>1. /\ savedSnapshots' = savedSnapshots \/ savedSnapshots' = savedSnapshots + 1
        /\ refreshed' = refreshed \ {p}
        /\ UNCHANGED <<stamped, strategyLogCh, saved, lines, snapshots>>
    BY <1>8 DEF SaveAccountSnapshot, tableVars
  <2>2. IsFiniteSet(refreshed') /\ Cardinality(refreshed') = Cardinality(refreshed) - 1
    BY <2>1, FS_RemoveElement DEF Counts
  <2>3. Readers' = Readers
    BY <2>1 DEF Readers
  <2> QED
    BY <1>1, <2>1, <2>2, <2>3 DEF Counts, LogSorts
<1> QED
  BY <1>3, <1>4, <1>5, <1>6, <1>7, <1>8, LogStepKinds

LEMMA RowIdsStep ==
  ASSUME LogSorts, RowIds, [LogNext]_logVars
  PROVE  RowIds'
<1>1. CASE SaveStrategyLog
  <2> DEFINE row == [id |-> saved + 1, strategy |-> Head(strategyLogCh).strategy, at |-> Head(strategyLogCh).at]
  <2>1. CASE strategy_logs' = strategy_logs \cup {row} /\ saved' = row.id /\ unannounced' = {row}
    <3>1. row.id = saved + 1 /\ \A p \in strategy_logs : p.id \in Nat /\ p.id <= saved
      BY RowNumbers DEF RowIds, LogSorts
    <3> HIDE DEF row
    <3> QED
      BY <2>1, <3>1 DEF RowIds, LogSorts
  <2>2. CASE UNCHANGED tableVars
    BY <2>2 DEF RowIds, tableVars
  <2> QED
    BY <1>1, <2>1, <2>2 DEF SaveStrategyLog
<1>2. ASSUME strategy_logs' \subseteq strategy_logs, saved' = saved, unannounced' \subseteq unannounced PROVE RowIds'
  BY <1>2 DEF RowIds
<1>3. CASE PurgeStrategyLogsBefore
  BY <1>2, <1>3 DEF PurgeStrategyLogsBefore, PurgeBefore
<1>4. CASE notifyStrategyLogSubscribers
  BY <1>2, <1>4 DEF notifyStrategyLogSubscribers, Nothing
<1>5. ASSUME UNCHANGED tableVars PROVE RowIds'
  BY <1>2, <1>5 DEF tableVars
<1>6. CASE \/ Tick \/ RegisterStrategyLogSubscriber \/ Send \/ Disconnect
           \/ PersistAccountSnapshot \/ PurgeAccountSnapshotsBefore \/ UNCHANGED logVars
           \/ (\E s \in Strategies : StampLog(s)) \/ (\E s \in Strategies : enqueueStrategyLog(s))
           \/ (\E name \in Strategies \cup {AllStrategies}, tail \in Tails : ListRecent(name, tail))
           \/ (\E p \in refreshed : SaveAccountSnapshot(p))
  BY <1>5, <1>6, Zenon
     DEF Tick, StampLog, enqueueStrategyLog, ListRecent, RegisterStrategyLogSubscriber, Send, Disconnect,
         PersistAccountSnapshot, SaveAccountSnapshot, PurgeAccountSnapshotsBefore, logVars, tableVars
<1> QED
  BY <1>1, <1>3, <1>4, <1>6, LogStepKinds

LEMMA RevisionsStep ==
  ASSUME LogSorts, Revisions, [LogNext]_logVars
  PROVE  Revisions'
<1>1. /\ \A p \in account_snapshots : p.id \in Nat /\ p.revision \in Nat
      /\ \A p \in refreshed : p.revision \in Nat
  BY LogConstants DEF LogSorts, SnapshotRow, Waiting
<1>2. CASE PersistAccountSnapshot
  <2> DEFINE new == [revision |-> snapshots + 1, at |-> now]
  <2>1. /\ new.revision = snapshots + 1 /\ snapshots' = snapshots + 1 /\ refreshed' = refreshed \cup {new}
        /\ UNCHANGED <<account_snapshots, savedSnapshots>>
    BY <1>2 DEF PersistAccountSnapshot
  <2> HIDE DEF new
  <2> QED
    BY <1>1, <2>1 DEF Revisions, LogSorts
<1>3. ASSUME NEW p \in refreshed, SaveAccountSnapshot(p) PROVE Revisions'
  <2> DEFINE row == [id |-> savedSnapshots + 1, revision |-> p.revision, at |-> p.at]
  <2>1. refreshed' = refreshed \ {p} /\ snapshots' = snapshots
    BY <1>3 DEF SaveAccountSnapshot
  <2>2. CASE savedSnapshots' = savedSnapshots + 1 /\ account_snapshots' = account_snapshots \cup {row}
    <3>1. row.id = savedSnapshots + 1 /\ row.revision = p.revision
      OBVIOUS
    <3> HIDE DEF row
    <3> QED
      BY <1>1, <2>1, <2>2, <3>1 DEF Revisions, LogSorts
  <2>3. CASE UNCHANGED <<account_snapshots, savedSnapshots>>
    BY <2>1, <2>3 DEF Revisions
  <2> QED
    BY <1>3, <2>2, <2>3 DEF SaveAccountSnapshot
<1>4. ASSUME account_snapshots' \subseteq account_snapshots, UNCHANGED <<refreshed, snapshots, savedSnapshots>>
      PROVE  Revisions'
  BY <1>4 DEF Revisions
<1>5. CASE PurgeAccountSnapshotsBefore
  BY <1>4, <1>5 DEF PurgeAccountSnapshotsBefore, PurgeBefore
<1>6. ASSUME UNCHANGED snapshotVars PROVE Revisions'
  BY <1>4, <1>6 DEF snapshotVars
<1>7. CASE \/ Tick \/ SaveStrategyLog \/ notifyStrategyLogSubscribers \/ RegisterStrategyLogSubscriber \/ Send
           \/ Disconnect \/ PurgeStrategyLogsBefore \/ UNCHANGED logVars
           \/ (\E s \in Strategies : StampLog(s)) \/ (\E s \in Strategies : enqueueStrategyLog(s))
           \/ (\E name \in Strategies \cup {AllStrategies}, tail \in Tails : ListRecent(name, tail))
  BY <1>6, <1>7, Zenon
     DEF Tick, StampLog, enqueueStrategyLog, SaveStrategyLog, notifyStrategyLogSubscribers, ListRecent,
         RegisterStrategyLogSubscriber, Send, Disconnect, PurgeStrategyLogsBefore, logVars, snapshotVars
<1> QED
  BY <1>2, <1>3, <1>5, <1>7, LogStepKinds

-----------------------------------------------------------------------------
(* What a stream carries *)

\* The first of one sequence may as well be the last of the one in front of it.
LEMMA MoveHead ==
  ASSUME NEW T, NEW a \in Seq(T), NEW b \in Seq(T), b # <<>>
  PROVE  Append(a, Head(b)) \o Tail(b) = a \o b
<1> DEFINE l == Append(a, Head(b)) \o Tail(b)
           r == a \o b
<1>1. Len(a) \in Nat /\ Len(b) \in Nat /\ Len(b) # 0 /\ Head(b) = b[1] /\ Tail(b) \in Seq(T) /\ Len(Tail(b)) = Len(b) - 1
      /\ \A i \in 1 .. (Len(b) - 1) : Tail(b)[i] = b[i + 1]
  OBVIOUS
<1>2. Append(a, Head(b)) \in Seq(T) /\ Len(Append(a, Head(b))) = Len(a) + 1
  OBVIOUS
<1>3. l \in Seq(T) /\ r \in Seq(T) /\ Len(l) = Len(a) + Len(b) /\ Len(r) = Len(a) + Len(b)
  BY <1>1, <1>2
<1>4. ASSUME NEW i \in 1 .. (Len(a) + Len(b)) PROVE l[i] = r[i]
  <2>1. CASE i <= Len(a)
    BY <1>1, <1>2, <2>1
  <2>2. CASE i = Len(a) + 1
    BY <1>1, <1>2, <2>2
  <2>3. CASE i > Len(a) + 1
    <3>1. l[i] = Tail(b)[i - (Len(a) + 1)] /\ r[i] = b[i - Len(a)]
      BY <1>1, <1>2, <2>3
    <3>2. i - (Len(a) + 1) \in 1 .. (Len(b) - 1) /\ i - (Len(a) + 1) + 1 = i - Len(a)
      BY <1>1, <2>3
    <3> QED
      BY <1>1, <3>1, <3>2
  <2> QED
    BY <1>1, <2>1, <2>2, <2>3
<1> HIDE DEF l, r
<1>5. l = r
  BY <1>1, <1>3, <1>4
<1> QED
  BY <1>5 DEF l, r

LEMMA AppendBehind ==
  ASSUME NEW T, NEW a \in Seq(T), NEW b \in Seq(T), NEW x \in T
  PROVE  a \o Append(b, x) = Append(a \o b, x)
<1> DEFINE l == a \o Append(b, x)
           r == Append(a \o b, x)
<1>1. Len(a) \in Nat /\ Len(b) \in Nat /\ Append(b, x) \in Seq(T) /\ a \o b \in Seq(T)
  OBVIOUS
<1>2. l \in Seq(T) /\ r \in Seq(T) /\ Len(l) = Len(a) + Len(b) + 1 /\ Len(r) = Len(a) + Len(b) + 1
  BY <1>1
<1>3. \A i \in 1 .. (Len(a) + Len(b) + 1) : l[i] = r[i]
  BY <1>1
<1> HIDE DEF l, r
<1>4. l = r
  BY <1>1, <1>2, <1>3
<1> QED
  BY <1>4 DEF l, r

LEMMA RangeOfAppend ==
  ASSUME NEW q \in Seq(Nat), NEW x \in Nat
  PROVE  Range(Append(q, x)) = Range(q) \cup {x}
<1> DEFINE r == Append(q, x)
<1>1. Len(q) \in Nat /\ DOMAIN q = 1 .. Len(q) /\ DOMAIN r = 1 .. (Len(q) + 1)
      /\ (\A i \in 1 .. Len(q) : r[i] = q[i]) /\ r[Len(q) + 1] = x
  OBVIOUS
<1> HIDE DEF r
<1>2. Range(r) = Range(q) \cup {x}
  BY <1>1 DEF Range
<1> QED
  BY <1>2 DEF r

LEMMA RangeGrows ==
  ASSUME NEW T, NEW q \in Seq(T), NEW x \in T, NEW r \in Seq(T)
  PROVE  Range(q \o r) \subseteq Range(Append(q, x) \o r)
<1> DEFINE l == q \o r
           g == Append(q, x) \o r
<1>1. Len(q) \in Nat /\ Len(r) \in Nat /\ DOMAIN l = 1 .. (Len(q) + Len(r)) /\ DOMAIN g = 1 .. (Len(q) + 1 + Len(r))
      /\ (\A i \in 1 .. Len(q) : l[i] = g[i]) /\ (\A i \in (Len(q) + 1) .. (Len(q) + Len(r)) : l[i] = g[i + 1])
  OBVIOUS
<1> HIDE DEF l, g
<1>2. \A i \in DOMAIN l : \E j \in DOMAIN g : g[j] = l[i]
  <2> SUFFICES ASSUME NEW i \in 1 .. (Len(q) + Len(r)) PROVE \E j \in 1 .. (Len(q) + 1 + Len(r)) : g[j] = l[i]
    BY <1>1
  <2>1. CASE i <= Len(q)
    <3>1. i \in 1 .. (Len(q) + 1 + Len(r)) /\ g[i] = l[i]
      BY <1>1, <2>1
    <3> QED
      BY <3>1
  <2>2. CASE ~(i <= Len(q))
    <3>1. i + 1 \in 1 .. (Len(q) + 1 + Len(r)) /\ g[i + 1] = l[i]
      BY <1>1, <2>2
    <3> QED
      BY <3>1
  <2> QED
    BY <2>1, <2>2
<1>3. Range(l) \subseteq Range(g)
  BY <1>2 DEF Range
<1> QED
  BY <1>3 DEF l, g

\* A new number behind all others.
LEMMA StreamedNext ==
  ASSUME NEW ids \in Seq(Nat), NEW min \in Nat, NEW last \in Nat, NEW id \in Nat,
         IsInjective(ids), InRowOrder(ids, min),
         \A i \in DOMAIN ids : ids[i] <= min \/ ids[i] <= last, id > min, id > last
  PROVE  LET next == Append(ids, id)
         IN  /\ IsInjective(next) /\ InRowOrder(next, min)
             /\ \A i \in DOMAIN next : next[i] <= min \/ next[i] <= id
<1> DEFINE next == Append(ids, id)
           n == Len(ids)
<1>1. n \in Nat /\ DOMAIN ids = 1 .. n /\ DOMAIN next = 1 .. (n + 1)
      /\ (\A i \in 1 .. n : next[i] = ids[i] /\ ids[i] \in Nat) /\ next[n + 1] = id
  OBVIOUS
<1> HIDE DEF next, n
<1>2. \A i \in 1 .. n : ids[i] < id
  BY <1>1
<1>3. IsInjective(next)
  <2> SUFFICES ASSUME NEW i \in 1 .. (n + 1), NEW j \in 1 .. (n + 1), i < j PROVE next[i] # next[j]
    BY <1>1 DEF IsInjective
  <2>1. i \in 1 .. n
    BY <1>1
  <2>2. CASE j = n + 1
    BY <1>1, <1>2, <2>1, <2>2
  <2>3. CASE j # n + 1
    <3>1. j \in 1 .. n /\ i # j
      BY <1>1, <2>3
    <3> QED
      BY <1>1, <2>1, <3>1 DEF IsInjective
  <2> QED
    BY <2>2, <2>3
<1>4. InRowOrder(next, min)
  <2> SUFFICES ASSUME NEW i \in 1 .. (n + 1), NEW j \in 1 .. (n + 1), i < j, next[i] > min, next[j] > min
               PROVE  next[i] < next[j]
    BY <1>1 DEF InRowOrder
  <2>1. i \in 1 .. n
    BY <1>1
  <2>2. CASE j = n + 1
    BY <1>1, <1>2, <2>1, <2>2
  <2>3. CASE j # n + 1
    <3>1. j \in 1 .. n
      BY <1>1, <2>3
    <3> QED
      BY <1>1, <2>1, <3>1 DEF InRowOrder
  <2> QED
    BY <2>2, <2>3
<1>5. \A i \in 1 .. (n + 1) : next[i] <= min \/ next[i] <= id
  BY <1>1, <1>2
<1> QED
  BY <1>1, <1>3, <1>4, <1>5 DEF next

-----------------------------------------------------------------------------
(* The stream in every step *)

LEMMA StreamedIs ==
  ASSUME LogSorts
  PROVE  /\ TailIds \in Seq(Nat) /\ Len(TailIds) = Len(stream.tail) /\ stream.tail \in Seq(LogRow)
         /\ stream.sent \in Seq(Nat) /\ stream.ch \in Seq(Nat)
         /\ stream.sent \o TailIds \in Seq(Nat) /\ Streamed \in Seq(Nat)
         /\ stream.minExclusiveID \in Nat /\ stream.since \in Nat /\ stream.dropped \subseteq Nat
<1>1. /\ stream.tail \in Seq(LogRow) /\ stream.sent \in Seq(Nat) /\ stream.ch \in Seq(Nat)
      /\ stream.minExclusiveID \in Nat /\ stream.since \in Nat /\ stream.dropped \subseteq Nat
  BY DEF LogSorts, Streams
<1>2. TailIds \in Seq(Nat) /\ Len(TailIds) = Len(stream.tail)
  <2>1. TailIds \in [1 .. Len(stream.tail) -> Nat] /\ Len(stream.tail) \in Nat
    BY <1>1, RowNumbers DEF TailIds
  <2> QED
    BY <2>1
<1>3. stream.sent \o TailIds \in Seq(Nat)
  BY <1>1, <1>2
<1> QED
  BY <1>1, <1>2, <1>3 DEF Streamed

\* The stream as it was, with the same rows or fewer.
LEMMA StreamUnchanged ==
  ASSUME Listed, Following, Reached, stream' = stream, saved' = saved, unannounced' = unannounced,
         strategy_logs' \subseteq strategy_logs
  PROVE  Listed' /\ Following' /\ Reached'
<1>1. TailIds' = TailIds /\ Streamed' = Streamed /\ LastTold' = LastTold
  BY DEF TailIds, Streamed, LastTold
<1> QED
  BY <1>1 DEF Listed, Following, Reached

LEMMA StreamOfSave ==
  ASSUME LogSorts, Listed, Following, Reached, SaveStrategyLog
  PROVE  Listed' /\ Following' /\ Reached'
<1> DEFINE row == [id |-> saved + 1, strategy |-> Head(strategyLogCh).strategy, at |-> Head(strategyLogCh).at]
<1>1. stream' = stream /\ unannounced = Nothing
  BY DEF SaveStrategyLog
<1>2. CASE strategy_logs' = strategy_logs \cup {row} /\ saved' = row.id /\ unannounced' = {row}
  <2>1. row.id = saved + 1 /\ saved \in Nat
    BY DEF LogSorts
  <2> HIDE DEF row
  <2>2. TailIds' = TailIds /\ Streamed' = Streamed
    BY <1>1 DEF TailIds, Streamed
  <2>3. LastTold' = saved /\ LastTold = saved
    BY <1>1, <1>2, <2>1 DEF LastTold, Nothing
  <2>4. /\ stream.since \in Nat /\ TailIds \in Seq(Nat)
    BY StreamedIs
  <2>5. Listed'
    <3> SUFFICES ASSUME stream.phase = "listed", NEW i \in DOMAIN TailIds PROVE TailIds[i] <= saved + 1
      BY <1>1, <1>2, <2>1, <2>2 DEF Listed
    <3>1. TailIds[i] \in Nat /\ TailIds[i] <= saved
      BY <2>4 DEF Listed
    <3> QED
      BY <2>1, <3>1
  <2>6. Following'
    BY <1>1, <1>2, <2>1, <2>2, <2>3, <2>4 DEF Following
  <2>7. strategy_logs' \ unannounced' \subseteq strategy_logs \ unannounced
    BY <1>1, <1>2 DEF Nothing
  <2>8. Reached'
    BY <1>1, <2>7 DEF Reached
  <2> QED
    BY <2>5, <2>6, <2>8
<1>3. CASE UNCHANGED tableVars
  <2>1. saved' = saved /\ unannounced' = unannounced /\ strategy_logs' \subseteq strategy_logs
    BY <1>3 DEF tableVars
  <2> QED
    BY <1>1, <2>1, StreamUnchanged
<1> QED
  BY <1>2, <1>3 DEF SaveStrategyLog

LEMMA BehindBoth ==
  ASSUME NEW s \in Seq(Nat), NEW t \in Seq(Nat), NEW c \in Seq(Nat), NEW x \in Nat
  PROVE  /\ s \o t \o Append(c, x) = Append(s \o t \o c, x)
         /\ Range(s \o Append(c, x)) = Range(s \o c) \cup {x}
<1> DEFINE st == s \o t
           sc == s \o c
<1>1. st \in Seq(Nat) /\ sc \in Seq(Nat)
  OBVIOUS
<1>2. s \o Append(c, x) = Append(sc, x)
  BY AppendBehind
<1> HIDE DEF st, sc
<1>3. st \o Append(c, x) = Append(st \o c, x)
  BY <1>1, AppendBehind
<1>4. Range(Append(sc, x)) = Range(sc) \cup {x}
  BY <1>1, RangeOfAppend
<1> QED
  BY <1>2, <1>3, <1>4 DEF st, sc

LEMMA ShiftedTail ==
  ASSUME NEW q \in Seq(Nat), q # <<>>
  PROVE  Tail(q) = [i \in 1 .. (Len(q) - 1) |-> q[i + 1]]
<1>1. Len(q) \in Nat /\ Len(q) # 0 /\ Tail(q) \in Seq(Nat) /\ Len(Tail(q)) = Len(q) - 1
      /\ \A i \in 1 .. (Len(q) - 1) : Tail(q)[i] = q[i + 1]
  OBVIOUS
<1> DEFINE t == Tail(q)
<1>2. t \in Seq(Nat) /\ Len(t) = Len(q) - 1 /\ \A i \in 1 .. (Len(q) - 1) : t[i] = q[i + 1]
  BY <1>1
<1> HIDE DEF t
<1>3. t = [i \in 1 .. Len(t) |-> t[i]]
  BY <1>2
<1>4. t = [i \in 1 .. (Len(q) - 1) |-> q[i + 1]]
  BY <1>1, <1>2, <1>3
<1> QED
  BY <1>4 DEF t

LEMMA StreamOfNotify ==
  ASSUME LogSorts, RowIds, Listed, Following, Reached, notifyStrategyLogSubscribers
  PROVE  Listed' /\ Following' /\ Reached'
<1>1. PICK row \in unannounced : stream' = announce(row)
  BY DEF notifyStrategyLogSubscribers
<1>2. unannounced = {row} /\ row \in LogRow /\ row.id = saved /\ saved \in Nat /\ row.id \in Nat
  BY <1>1, OneLine DEF LogSorts, RowIds
<1>3. unannounced' = Nothing /\ saved' = saved /\ strategy_logs' = strategy_logs
  BY DEF notifyStrategyLogSubscribers
<1>4. LastTold = saved - 1 /\ LastTold' = saved
  BY <1>2, <1>3 DEF LastTold, Nothing
<1>5. /\ stream.minExclusiveID \in Nat /\ stream.since \in Nat /\ Streamed \in Seq(Nat)
      /\ stream \in Streams
  BY StreamedIs DEF LogSorts
<1>6. saved > 0 /\ LastTold \in Nat
  BY <1>2, <1>4, RowNumbers
<1>7. strategy_logs' \ unannounced' \subseteq (strategy_logs \ unannounced) \cup {row}
  BY <1>2, <1>3
<1>8. CASE stream.phase # "registered"
  <2>1. stream' = stream
    BY <1>1, <1>8 DEF announce
  <2>2. TailIds' = TailIds
    BY <2>1 DEF TailIds
  <2> QED
    BY <1>3, <1>8, <2>1, <2>2 DEF Listed, Following, Reached
<1>9. CASE stream.phase = "registered" /\ ~Wanted(row)
  <2>1. stream' = stream
    BY <1>1, <1>9 DEF announce
  <2>2. Streamed' = Streamed
    BY <2>1 DEF Streamed, TailIds
  <2>3. Following'
    <3>1. \A i \in DOMAIN Streamed : Streamed[i] \in Nat /\ (Streamed[i] <= LastTold => Streamed[i] <= saved)
      BY <1>2, <1>4, <1>5
    <3> QED
      BY <1>3, <1>4, <1>9, <2>1, <2>2, <3>1 DEF Following
  <2>4. ~(row.id > stream.since /\ (stream.name = AllStrategies \/ stream.name = row.strategy))
    BY <1>2, <1>5, <1>9 DEF Wanted, Following
  <2>5. Reached'
    BY <1>7, <1>9, <2>1, <2>4 DEF Reached
  <2> QED
    BY <1>9, <2>1, <2>3, <2>5 DEF Listed
<1>10. CASE stream.phase = "registered" /\ Wanted(row) /\ stream' = [stream EXCEPT !.ch = Append(@, row.id)]
  <2>1. /\ stream'.phase = stream.phase /\ stream'.sent = stream.sent /\ stream'.tail = stream.tail
        /\ stream'.minExclusiveID = stream.minExclusiveID /\ stream'.since = stream.since
        /\ stream'.name = stream.name /\ stream'.dropped = stream.dropped
        /\ stream'.ch = Append(stream.ch, row.id)
    BY <1>5, <1>10 DEF Streams
  <2>2. /\ stream.sent \in Seq(Nat) /\ stream.ch \in Seq(Nat) /\ stream.sent \o TailIds \in Seq(Nat)
        /\ stream.sent \o stream.ch \in Seq(Nat)
    BY StreamedIs
  <2>3. Streamed' = Append(Streamed, row.id)
    <3>1. TailIds' = TailIds
      BY <2>1 DEF TailIds
    <3>2. Streamed' = (stream.sent \o TailIds) \o Append(stream.ch, row.id)
      BY <2>1, <3>1 DEF Streamed
    <3>3. stream.sent \o TailIds \o Append(stream.ch, row.id) = Append(stream.sent \o TailIds \o stream.ch, row.id)
      <4> DEFINE s == stream.sent
                 t == TailIds
                 c == stream.ch
                 x == row.id
      <4>1. s \in Seq(Nat) /\ t \in Seq(Nat) /\ c \in Seq(Nat) /\ x \in Nat
        BY <1>2, StreamedIs
      <4> HIDE DEF s, t, c, x
      <4>2. s \o t \o Append(c, x) = Append(s \o t \o c, x)
        BY <4>1, BehindBoth
      <4> QED
        BY <4>2 DEF s, t, c, x
    <3> QED
      BY <3>2, <3>3, Zenon DEF Streamed
  <2>4. Following'
    <3>1. row.id > stream.minExclusiveID /\ row.id > LastTold
      BY <1>2, <1>4, <1>10 DEF Wanted
    <3>2. LET next == Append(Streamed, row.id)
          IN  /\ IsInjective(next) /\ InRowOrder(next, stream.minExclusiveID)
              /\ \A i \in DOMAIN next : next[i] <= stream.minExclusiveID \/ next[i] <= row.id
      BY <1>2, <1>5, <1>6, <1>10, <3>1, StreamedNext DEF Following
    <3> QED
      BY <1>2, <1>3, <1>4, <1>10, <2>1, <2>3, <3>2 DEF Following
  <2>5. Range(stream'.sent \o stream'.ch) = Range(stream.sent \o stream.ch) \cup {row.id}
    BY <1>2, <2>1, <2>2, StreamedIs, BehindBoth
  <2>6. Reached'
    BY <1>7, <1>10, <2>1, <2>5 DEF Reached
  <2> QED
    BY <1>10, <2>1, <2>4, <2>6 DEF Listed
<1>11. CASE stream.phase = "registered" /\ Wanted(row) /\ stream' = [stream EXCEPT !.dropped = @ \cup {row.id}]
  <2>1. /\ stream'.phase = stream.phase /\ stream'.sent = stream.sent /\ stream'.tail = stream.tail
        /\ stream'.minExclusiveID = stream.minExclusiveID /\ stream'.since = stream.since
        /\ stream'.name = stream.name /\ stream'.dropped = stream.dropped \cup {row.id}
        /\ stream'.ch = stream.ch
    BY <1>5, <1>11 DEF Streams
  <2>2. Streamed' = Streamed
    BY <2>1 DEF Streamed, TailIds
  <2>3. Following'
    <3>1. \A i \in DOMAIN Streamed : Streamed[i] \in Nat /\ (Streamed[i] <= LastTold => Streamed[i] <= saved)
      BY <1>2, <1>4, <1>5
    <3> QED
      BY <1>3, <1>4, <1>11, <2>1, <2>2, <3>1 DEF Following
  <2>4. Reached'
    BY <1>7, <1>11, <2>1 DEF Reached
  <2> QED
    BY <1>11, <2>1, <2>3, <2>4 DEF Listed
<1> QED
  BY <1>1, <1>8, <1>9, <1>10, <1>11 DEF announce

LEMMA StreamOfListing ==
  ASSUME LogSorts, RowIds, Revisions, NEW name \in Strategies \cup {AllStrategies}, NEW tail \in Tails,
         ListRecent(name, tail)
  PROVE  Listed' /\ Following' /\ Reached'
<1> DEFINE list == rowsASC(ListRecentStrategyLogs(strategy_logs, name, clampStrategyLogTail(tail)))
<1>1. /\ list \in Seq(strategy_logs)
      /\ \A i, j \in DOMAIN list : list[i].id = list[j].id => i = j
  BY TailIs
<1>2. stream' = [NoStream EXCEPT !.phase = "listed", !.name = name, !.tail = list] /\ saved' = saved
  BY DEF ListRecent, tableVars
<1> HIDE DEF list
<1>3. stream'.phase = "listed" /\ stream'.tail = list /\ stream'.sent = <<>> /\ stream'.ch = <<>>
  BY <1>2 DEF NoStream
<1>4. TailIds' = [i \in DOMAIN list |-> list[i].id]
  BY <1>3 DEF TailIds
<1>5. \A i \in DOMAIN list : list[i].id <= saved
  BY <1>1 DEF RowIds
<1>6. IsInjective(TailIds')
  BY <1>1, <1>4 DEF IsInjective
<1> QED
  BY <1>2, <1>3, <1>4, <1>5, <1>6 DEF Listed, Following, Reached

LEMMA StreamOfRegistering ==
  ASSUME LogSorts, RowIds, Listed, RegisterStrategyLogSubscriber
  PROVE  Listed' /\ Following' /\ Reached'
<1> DEFINE m == tailMaxID(stream.tail)
<1>1. stream \in Streams /\ stream.tail \in Seq(LogRow) /\ TailIds \in Seq(Nat) /\ saved \in Nat
  BY StreamedIs DEF LogSorts
<1>2. /\ m \in Nat /\ \A i \in DOMAIN stream.tail : stream.tail[i].id <= m
      /\ m = 0 \/ \E i \in DOMAIN stream.tail : stream.tail[i].id = m
  BY <1>1, TailMaxIs
<1>3. /\ stream.phase = "listed" /\ stream' = [stream EXCEPT !.phase = "registered", !.since = saved, !.minExclusiveID = m]
      /\ saved' = saved /\ strategy_logs' = strategy_logs
  BY DEF RegisterStrategyLogSubscriber, tableVars
<1> HIDE DEF m
<1>4. /\ stream'.phase = "registered" /\ stream'.since = saved /\ stream'.minExclusiveID = m
      /\ stream'.tail = stream.tail /\ stream'.sent = <<>> /\ stream'.ch = <<>>
  BY <1>1, <1>3 DEF Streams, Listed
<1>5. Streamed' = TailIds
  <2>1. TailIds' = TailIds
    BY <1>4 DEF TailIds
  <2>2. <<>> \o TailIds \o <<>> = TailIds
    <3>1. <<>> \o TailIds = TailIds /\ TailIds \o <<>> = TailIds
      BY <1>1, ConcatEmptySeq
    <3> QED
      BY <3>1
  <2> QED
    BY <1>4, <2>1, <2>2 DEF Streamed
<1>6. \A i \in DOMAIN TailIds : TailIds[i] = stream.tail[i].id /\ i \in DOMAIN stream.tail
  BY DEF TailIds
<1>7. IsInjective(TailIds) /\ \A i \in DOMAIN TailIds : TailIds[i] <= saved /\ TailIds[i] <= m /\ TailIds[i] \in Nat
  BY <1>1, <1>2, <1>3, <1>6 DEF Listed
<1>8. m <= saved
  <2>1. CASE m = 0
    BY <1>1, <2>1
  <2>2. ASSUME NEW i \in DOMAIN stream.tail, stream.tail[i].id = m PROVE m <= saved
    <3>1. i \in DOMAIN TailIds
      BY DEF TailIds
    <3> QED
      BY <1>6, <1>7, <2>2, <3>1
  <2> QED
    BY <1>2, <2>1, <2>2
<1>9. InRowOrder(TailIds, m)
  <2> SUFFICES ASSUME NEW i \in DOMAIN TailIds, TailIds[i] > m PROVE FALSE
    BY DEF InRowOrder
  <2> QED
    BY <1>2, <1>7
<1>10. Following'
  BY <1>1, <1>2, <1>3, <1>4, <1>5, <1>7, <1>8, <1>9 DEF Following
<1>11. Reached'
  <2> SUFFICES ASSUME NEW row \in strategy_logs, row.id > saved PROVE FALSE
    BY <1>3, <1>4 DEF Reached
  <2>1. row.id \in Nat /\ row.id <= saved
    BY RowNumbers DEF RowIds, LogSorts
  <2> QED
    BY <1>1, <2>1
<1> QED
  BY <1>4, <1>10, <1>11 DEF Listed

LEMMA StreamOfSend ==
  ASSUME LogSorts, Following, Reached, Send
  PROVE  Listed' /\ Following' /\ Reached'
<1>1. /\ stream.phase = "registered" /\ UNCHANGED tableVars /\ stream \in Streams
  BY DEF Send, LogSorts
<1>2. /\ TailIds \in Seq(Nat) /\ stream.tail \in Seq(LogRow) /\ stream.sent \in Seq(Nat) /\ stream.ch \in Seq(Nat)
      /\ stream.sent \o TailIds \in Seq(Nat) /\ Len(TailIds) = Len(stream.tail)
  BY StreamedIs
<1>3. LastTold' = LastTold
  BY <1>1 DEF LastTold, tableVars
<1>4. ASSUME UNCHANGED <<stream.phase, stream.minExclusiveID, stream.since, stream.name, stream.dropped>>,
             Streamed' = Streamed, Range(stream.sent \o stream.ch) \subseteq Range(stream'.sent \o stream'.ch)
      PROVE  Listed' /\ Following' /\ Reached'
  BY <1>1, <1>3, <1>4 DEF Listed, Following, Reached, tableVars
<1>5. CASE /\ stream.tail # <<>>
           /\ stream' = [stream EXCEPT !.tail = Tail(@), !.sent = Append(@, Head(stream.tail).id)]
  <2>1. /\ UNCHANGED <<stream.phase, stream.minExclusiveID, stream.since, stream.name, stream.dropped, stream.ch>>
        /\ stream'.tail = Tail(stream.tail) /\ stream'.sent = Append(stream.sent, Head(stream.tail).id)
    BY <1>1, <1>5 DEF Streams
  <2>2. TailIds # <<>> /\ Head(TailIds) = Head(stream.tail).id /\ Tail(TailIds) = TailIds'
    <3>1. Len(stream.tail) \in Nat /\ Len(stream.tail) # 0 /\ Tail(stream.tail) \in Seq(LogRow)
          /\ Len(Tail(stream.tail)) = Len(stream.tail) - 1 /\ Head(stream.tail) = stream.tail[1]
          /\ \A i \in 1 .. (Len(stream.tail) - 1) : Tail(stream.tail)[i] = stream.tail[i + 1]
      BY <1>2, <1>5
    <3>2. TailIds = [i \in 1 .. Len(stream.tail) |-> stream.tail[i].id]
      BY <1>2 DEF TailIds
    <3>3. TailIds # <<>> /\ Head(TailIds) = Head(stream.tail).id
      BY <1>2, <3>1, <3>2
    <3>4. TailIds' = [i \in 1 .. (Len(stream.tail) - 1) |-> stream.tail[i + 1].id]
      <4>1. TailIds' = [i \in DOMAIN Tail(stream.tail) |-> Tail(stream.tail)[i].id]
        BY <2>1 DEF TailIds
      <4>2. DOMAIN Tail(stream.tail) = 1 .. (Len(stream.tail) - 1)
        BY <3>1
      <4> QED
        BY <3>1, <4>1, <4>2
    <3>5. Tail(TailIds) = [i \in 1 .. (Len(stream.tail) - 1) |-> stream.tail[i + 1].id]
      <4>1. Tail(TailIds) = [i \in 1 .. (Len(TailIds) - 1) |-> TailIds[i + 1]]
        BY <1>2, <3>3, ShiftedTail
      <4> QED
        BY <1>2, <3>1, <3>2, <4>1
    <3> QED
      BY <3>3, <3>4, <3>5
  <2>3. Streamed' = Streamed
    <3>1. Append(stream.sent, Head(TailIds)) \o Tail(TailIds) = stream.sent \o TailIds
      BY <1>2, <2>2, MoveHead
    <3> QED
      BY <2>1, <2>2, <3>1 DEF Streamed
  <2>4. Range(stream.sent \o stream.ch) \subseteq Range(stream'.sent \o stream'.ch)
    <3>1. Head(stream.tail).id \in Nat
      <4>1. Head(stream.tail) \in LogRow
        BY <1>2, <1>5
      <4> QED
        BY <4>1, RowNumbers
    <3> QED
      BY <1>2, <2>1, <3>1, RangeGrows
  <2> QED
    BY <1>4, <2>1, <2>3, <2>4
<1>6. CASE /\ stream.tail = <<>> /\ stream.ch # <<>>
           /\ stream' = [stream EXCEPT !.ch = Tail(@), !.sent = Append(@, Head(stream.ch))]
  <2>1. /\ UNCHANGED <<stream.phase, stream.minExclusiveID, stream.since, stream.name, stream.dropped, stream.tail>>
        /\ stream'.ch = Tail(stream.ch) /\ stream'.sent = Append(stream.sent, Head(stream.ch))
    BY <1>1, <1>6 DEF Streams
  <2>2. TailIds = <<>> /\ TailIds' = <<>>
    <3>1. Len(TailIds) = 0
      BY <1>2, <1>6
    <3> QED
      BY <1>2, <2>1, <3>1 DEF TailIds
  <2>3. Append(stream.sent, Head(stream.ch)) \o Tail(stream.ch) = stream.sent \o stream.ch
    BY <1>2, <1>6, MoveHead
  <2>4. Append(stream.sent, Head(stream.ch)) \in Seq(Nat)
    BY <1>2, <1>6
  <2>5. stream.sent \o <<>> = stream.sent /\ Append(stream.sent, Head(stream.ch)) \o <<>> = Append(stream.sent, Head(stream.ch))
    BY <1>2, <2>4, ConcatEmptySeq
  <2>6. Streamed' = Streamed
    BY <2>1, <2>2, <2>3, <2>5 DEF Streamed
  <2> QED
    BY <1>4, <2>1, <2>3, <2>6
<1> QED
  BY <1>5, <1>6 DEF Send

LEMMA StreamStep ==
  ASSUME LogSorts, RowIds, Revisions, Listed, Following, Reached, [LogNext]_logVars
  PROVE  Listed' /\ Following' /\ Reached'
<1>1. CASE Disconnect
  BY <1>1 DEF Disconnect, NoStream, Listed, Following, Reached
<1>2. ASSUME stream' = stream, UNCHANGED tableVars PROVE Listed' /\ Following' /\ Reached'
  BY <1>2, StreamUnchanged DEF tableVars
<1>3. CASE PurgeStrategyLogsBefore
  <2>1. stream' = stream /\ saved' = saved /\ unannounced' = unannounced /\ strategy_logs' \subseteq strategy_logs
    BY <1>3 DEF PurgeStrategyLogsBefore, PurgeBefore
  <2> QED
    BY <2>1, StreamUnchanged
<1>4. CASE \/ Tick \/ PersistAccountSnapshot \/ PurgeAccountSnapshotsBefore \/ UNCHANGED logVars
           \/ (\E s \in Strategies : StampLog(s)) \/ (\E s \in Strategies : enqueueStrategyLog(s))
           \/ (\E p \in refreshed : SaveAccountSnapshot(p))
  BY <1>2, <1>4, Zenon
     DEF Tick, StampLog, enqueueStrategyLog, PersistAccountSnapshot, SaveAccountSnapshot, PurgeAccountSnapshotsBefore,
         logVars, tableVars
<1> QED
  BY <1>1, <1>3, <1>4, StreamOfSave, StreamOfNotify, StreamOfListing, StreamOfRegistering, StreamOfSend, LogStepKinds

-----------------------------------------------------------------------------
(* The properties *)

LEMMA InitLogIInv == LogInit => LogIInv
<1> SUFFICES ASSUME LogInit PROVE LogIInv
  OBVIOUS
<1> USE DEF LogInit
<1>1. NoStream \in Streams /\ Len(NoStream.ch) = 0 /\ Len(NoStream.tail) = 0
  BY DEF NoStream, Streams
<1>2. IsFiniteSet({}) /\ Cardinality({}) = 0 /\ Readers = {}
  BY FS_EmptySet DEF Readers
<1>3. LogSorts
  <2>1. now \in Instants /\ stamped \in [Strategies -> AtMostOne(Line)] /\ unannounced \in AtMostOne(LogRow)
    BY LogConstants DEF Instants, AtMostOne, Nothing
  <2>2. strategyLogCh \in Seq(Line) /\ Len(strategyLogCh) = 0
    OBVIOUS
  <2>3. lines + snapshots <= MaxRows /\ Len(strategyLogCh) <= LogQueue /\ Len(stream.ch) <= StreamBuf
        /\ Len(stream.tail) <= MaxTail
    BY <1>1, <2>2, LogConstants
  <2> QED
    BY <1>1, <2>1, <2>2, <2>3 DEF LogSorts
<1>4. Counts
  BY <1>2 DEF Counts
<1>5. RowIds /\ Revisions
  BY DEF RowIds, Revisions, Nothing
<1>6. Listed /\ Following /\ Reached
  BY DEF NoStream, Listed, Following, Reached
<1> QED
  BY <1>3, <1>4, <1>5, <1>6 DEF LogIInv

\* The inductive invariant holds in every state, over any interleaving of the readers, the
\* writer, a client that comes and goes, the refreshes and the retention loop.
THEOREM LogInvariance == LogSpec => []LogIInv
<1>1. LogIInv /\ [LogNext]_logVars => LogIInv'
  BY LogSortsStep, CountsStep, RowIdsStep, RevisionsStep, StreamStep DEF LogIInv
<1> QED
  BY <1>1, InitLogIInv, PTL DEF LogSpec

\* A client gets no row twice and rows saved later are sent later; a row saved after the
\* registration reaches it, is on its way or found its channel full (SubscribeStrategyLogs,
\* minExclusiveID, RegisterStrategyLogSubscriber, notifyStrategyLogSubscribers).
THEOREM RowsStreamOnce == LogSpec => []StreamedOnce
<1>1. LogIInv => LogTypeOK
  <2> SUFFICES ASSUME LogIInv PROVE LogTypeOK
    OBVIOUS
  <2>1. saved <= lines /\ savedSnapshots <= snapshots
    <3>1. Cardinality(Readers) \in Nat /\ Cardinality(refreshed) \in Nat /\ Len(strategyLogCh) \in Nat
      BY FS_CardinalityType DEF LogIInv, Counts, LogSorts
    <3> QED
      BY <3>1 DEF LogIInv, Counts, LogSorts
  <2>2. stream.phase \in {"off", "listed", "registered"}
    BY DEF LogIInv, LogSorts, Streams
  <2> QED
    BY <2>1, <2>2 DEF LogIInv, LogSorts, RowIds, Revisions, LogTypeOK
<1>2. LogIInv => StreamedOnce
  BY <1>1 DEF LogIInv, Following, Reached, InRowOrder, Streamed, StreamedOnce
<1> QED
  BY <1>2, LogInvariance, PTL

\* What is found by texts is right up to a second, in whatever order the rows were saved
\* (formatTimeUTC, ListStrategyLogs, ListAccountSnapshots, GetLatestAccountSnapshot).
THEOREM RowsFoundToTheSecond == LogSpec => []FoundToTheSecond
<1>1. LogIInv => FoundToTheSecond
  <2> SUFFICES ASSUME LogIInv PROVE FoundToTheSecond
    OBVIOUS
  <2>1. \A rows \in {strategy_logs, account_snapshots} :
          RowsNumbered(rows) /\ IsFiniteSet(rows) /\ Cardinality(rows) <= MaxRows
    BY TablesAreFinite DEF LogIInv
  <2>2. \A t \in Times : t = NoTime \/ t \in Nat
    BY LogConstants DEF Times, Instants
  <2>3. ASSUME NEW rows \in {strategy_logs, account_snapshots}, NEW start \in Times, NEW end \in Times, NEW row \in rows
        PROVE  LET listed == ListAccountSnapshots(rows, start, end, MaxRows)
               IN  /\ /\ start = NoTime \/ Second(start) < Second(row.at)
                      /\ end = NoTime \/ Second(row.at) < Second(end)
                      => row \in listed
                   /\ row \in listed =>
                         /\ start = NoTime \/ Second(start) <= Second(row.at)
                         /\ end = NoTime \/ Second(row.at) <= Second(end)
    BY <2>1, <2>2, LogConstants, ListedToTheSecond
  <2>4. ASSUME NEW latest \in GetLatestAccountSnapshot(account_snapshots), NEW row \in account_snapshots
        PROVE  Second(row.at) <= Second(latest.at)
    BY <2>1, LatestToTheSecond
  <2> QED
    BY <2>3, <2>4, Zenon DEF FoundToTheSecond
<1> QED
  BY <1>1, LogInvariance, PTL

=============================================================================
