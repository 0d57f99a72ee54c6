----------------------------- MODULE LogStream -----------------------------
(***************************************************************************)
(* Strategy logs and account snapshots, from the goroutines that write     *)
(* them to the clients that read them:                                     *)
(*   - the reader of a strategy stamps a line and puts it in strategyLogCh *)
(*     (internal/app/engine/strategy_log_writer.go),                       *)
(*   - the writer goroutine saves it and then tells the subscribers        *)
(*     (strategy_log_subscriber.go),                                       *)
(*   - a client's stream lists the recent rows, registers for what comes   *)
(*     after them, sends the rows and then follows                         *)
(*     (internal/adapters/grpc/persistence_handlers.go),                   *)
(*   - every refresh of the account starts a goroutine that saves a        *)
(*     snapshot (account_snapshot_persist.go), and                         *)
(*   - the retention loop purges both tables (retention.go).               *)
(***************************************************************************)
EXTENDS StoreRows

CONSTANTS
    Strategies,     \* the strategies that log
    LogQueue,       \* strategyLogQueueSize
    StreamBuf,      \* the size of a subscriber's channel
    DefaultTail,    \* defaultStrategyLogTail
    MaxTail,        \* maxStrategyLogTail
    Tails,          \* the tails a client asks for
    Retention,      \* the days kept, in instants
    MaxInstant,     \* bound: the clock
    MaxRows,        \* bound: log lines and account snapshots together
    MaxWriteFailures \* bound: failed writes

ASSUME LogAssumption ==
    /\ LogQueue \in Nat \ {0} /\ StreamBuf \in Nat \ {0}
    /\ MaxTail \in Nat /\ DefaultTail \in 1 .. MaxTail /\ Retention \in Nat
    /\ {MaxInstant, MaxRows, MaxWriteFailures} \subseteq Nat
    /\ Tails \subseteq Nat /\ AllStrategies \notin Strategies

VARIABLES
    now,            \* the clock
    stamped,        \* the line each strategy's reader is about to queue
    strategyLogCh,  \* the queue
    unannounced,    \* the row saved and not yet told to the subscribers
    strategy_logs,  \* the table of logs
    saved,          \* how many rows it was ever given
    stream,         \* the client's stream
    refreshed,      \* account snapshots their goroutines have not saved yet
    account_snapshots, \* the table of snapshots
    snapshots,      \* how many snapshots were taken
    savedSnapshots, \* how many rows that table was ever given
    cutoff,         \* the cutoff of the purge under way, NoTime: none
    lines,          \* how many lines were logged
    failedWrites    \* how many writes failed

logVars == <<now, stamped, strategyLogCh, unannounced, strategy_logs, saved, stream, refreshed,
             account_snapshots, snapshots, savedSnapshots, cutoff, lines, failedWrites>>
snapshotVars == <<refreshed, account_snapshots, snapshots, savedSnapshots>>
tableVars == <<strategy_logs, saved, unannounced>>

Instants == 0 .. MaxInstant
Nothing == {}   \* no line, no row: these variables hold sets of at most one

NoStream == [phase |-> "off", name |-> AllStrategies, tail |-> <<>>, minExclusiveID |-> 0,
             since |-> 0, ch |-> <<>>, sent |-> <<>>, dropped |-> {}]

LogInit ==
    /\ now = 0
    /\ stamped = [s \in Strategies |-> Nothing]
    /\ strategyLogCh = <<>>
    /\ strategy_logs = {} /\ saved = 0 /\ unannounced = Nothing
    /\ stream = NoStream
    /\ refreshed = {} /\ account_snapshots = {} /\ snapshots = 0 /\ savedSnapshots = 0
    /\ cutoff = NoTime
    /\ lines = 0 /\ failedWrites = 0

Tick ==
    /\ now < MaxInstant
    /\ now' = now + 1
    /\ UNCHANGED <<stamped, strategyLogCh, tableVars, stream, snapshotVars, cutoff, lines,
                   failedWrites>>

----------------------------------------------------------------------------
(* The way of a line into the table.                                       *)

\* enqueueStrategyLog takes the time and only then puts the line in the
\* queue; the readers of other strategies may come between.
StampLog(s) ==
    /\ stamped[s] = Nothing
    /\ lines + snapshots < MaxRows
    /\ lines' = lines + 1
    /\ stamped' = [stamped EXCEPT ![s] = {[strategy |-> s, at |-> now]}]
    /\ UNCHANGED <<now, strategyLogCh, tableVars, stream, snapshotVars, cutoff, failedWrites>>

queueFull == Len(strategyLogCh) >= LogQueue

\* A line that finds the queue full is dropped.
enqueueStrategyLog(s) ==
    /\ \E line \in stamped[s] :
           strategyLogCh' = IF queueFull THEN strategyLogCh ELSE Append(strategyLogCh, line)
    /\ stamped' = [stamped EXCEPT ![s] = Nothing]
    /\ UNCHANGED <<now, tableVars, stream, snapshotVars, cutoff, lines, failedWrites>>

SaveStrategyLog ==
    /\ unannounced = Nothing
    /\ strategyLogCh # <<>>
    /\ strategyLogCh' = Tail(strategyLogCh)
    /\ LET line == Head(strategyLogCh)
           row == [id |-> saved + 1, strategy |-> line.strategy, at |-> line.at]
       IN \/ /\ strategy_logs' = strategy_logs \cup {row}
             /\ saved' = row.id
             /\ unannounced' = {row}
             /\ UNCHANGED failedWrites
          \/ /\ failedWrites < MaxWriteFailures
             /\ failedWrites' = failedWrites + 1
             /\ UNCHANGED tableVars
    /\ UNCHANGED <<now, stamped, stream, snapshotVars, cutoff, lines>>

Wanted(row) == /\ stream.name = AllStrategies \/ stream.name = row.strategy
               /\ row.id > stream.minExclusiveID

\* The row goes to the registered stream that wants it, unless its channel is full.
announce(row) ==
    IF stream.phase # "registered" \/ ~ Wanted(row) THEN stream
    ELSE IF Len(stream.ch) < StreamBuf
    THEN [stream EXCEPT !.ch = Append(@, row.id)]
    ELSE [stream EXCEPT !.dropped = @ \cup {row.id}]

notifyStrategyLogSubscribers ==
    /\ \E row \in unannounced : stream' = announce(row)
    /\ unannounced' = Nothing
    /\ UNCHANGED <<now, stamped, strategyLogCh, strategy_logs, saved, snapshotVars, cutoff,
                   lines, failedWrites>>

----------------------------------------------------------------------------
(* A client's stream.                                                      *)

clampStrategyLogTail(tail) ==
    IF tail = 0 THEN DefaultTail ELSE IF tail > MaxTail THEN MaxTail ELSE tail

\* The rows in the order of their times: each has as many rows before it as are earlier.
rowsASC(rows) ==
    LET earlier == [r \in rows |-> {q \in rows : q.at < r.at \/ (q.at = r.at /\ q.id < r.id)}]
    IN [n \in 1 .. Cardinality(rows) |-> CHOOSE r \in rows : Cardinality(earlier[r]) = n - 1]

\* SubscribeStrategyLogs reads the recent rows.
ListRecent(name, tail) ==
    /\ stream.phase = "off"
    /\ LET rows == ListRecentStrategyLogs(strategy_logs, name, clampStrategyLogTail(tail))
       IN stream' = [NoStream EXCEPT !.phase = "listed", !.name = name, !.tail = rowsASC(rows)]
    /\ UNCHANGED <<now, stamped, strategyLogCh, tableVars, snapshotVars, cutoff, lines, failedWrites>>

\* Mutant: the stream goes by the last row of the tail, not by the highest.
tailLastID(rows) == IF rows = <<>> THEN 0 ELSE Last(rows).id

tailMaxID(rows) == Max({0} \cup {rows[i].id : i \in DOMAIN rows})

\* It then registers for the rows above the highest of them, ...
RegisterStrategyLogSubscriber ==
    /\ stream.phase = "listed"
    /\ stream' = [stream EXCEPT !.phase = "registered", !.since = saved,
                                !.minExclusiveID = tailMaxID(stream.tail)]
    /\ UNCHANGED <<now, stamped, strategyLogCh, tableVars, snapshotVars, cutoff, lines, failedWrites>>

\* ... sends the tail and, after it, what comes through the channel.
Send ==
    /\ stream.phase = "registered"
    /\ \/ /\ stream.tail # <<>>
          /\ stream' = [stream EXCEPT !.tail = Tail(@),
                                      !.sent = Append(@, Head(stream.tail).id)]
       \/ /\ stream.tail = <<>>
          /\ stream.ch # <<>>
          /\ stream' = [stream EXCEPT !.ch = Tail(@), !.sent = Append(@, Head(stream.ch))]
    /\ UNCHANGED <<now, stamped, strategyLogCh, tableVars, snapshotVars, cutoff, lines, failedWrites>>

\* The client goes; its registration goes with it.  It may come again.
Disconnect ==
    /\ stream.phase # "off"
    /\ stream' = NoStream
    /\ UNCHANGED <<now, stamped, strategyLogCh, tableVars, snapshotVars, cutoff, lines, failedWrites>>

----------------------------------------------------------------------------
(* Account snapshots and the retention loop.                               *)

\* The refresh hook takes a snapshot and leaves the saving to a goroutine.
PersistAccountSnapshot ==
    /\ lines + snapshots < MaxRows
    /\ snapshots' = snapshots + 1
    /\ refreshed' = refreshed \cup {[revision |-> snapshots + 1, at |-> now]}
    /\ UNCHANGED <<now, stamped, strategyLogCh, tableVars, stream, account_snapshots,
                   savedSnapshots, cutoff, lines, failedWrites>>

SaveAccountSnapshot(p) ==
    /\ refreshed' = refreshed \ {p}
    /\ \/ /\ savedSnapshots' = savedSnapshots + 1
          /\ account_snapshots' = account_snapshots \cup
                 {[id |-> savedSnapshots + 1, revision |-> p.revision, at |-> p.at]}
          /\ UNCHANGED failedWrites
       \/ /\ failedWrites < MaxWriteFailures
          /\ failedWrites' = failedWrites + 1
          /\ UNCHANGED <<account_snapshots, savedSnapshots>>
    /\ UNCHANGED <<now, stamped, strategyLogCh, tableVars, stream, snapshots, cutoff, lines>>

\* Nothing is older than the clock's first instants: they have no cutoff.
retentionCutoff(t) == t - Retention

\* runRetentionOnce: logs first, snapshots after them; an error ends the round.
\* A round that finds nothing to delete changes nothing and is left out.
PurgeStrategyLogsBefore ==
    /\ cutoff = NoTime
    /\ now >= Retention
    /\ \E table \in {strategy_logs, account_snapshots} :
           PurgeBefore(table, retentionCutoff(now)) # table
    /\ \/ /\ cutoff' = retentionCutoff(now)
          /\ strategy_logs' = PurgeBefore(strategy_logs, cutoff')
          /\ UNCHANGED failedWrites
       \/ /\ failedWrites < MaxWriteFailures
          /\ failedWrites' = failedWrites + 1
          /\ UNCHANGED <<strategy_logs, cutoff>>
    /\ UNCHANGED <<now, stamped, strategyLogCh, saved, unannounced, stream, snapshotVars, lines>>

PurgeAccountSnapshotsBefore ==
    /\ cutoff # NoTime
    /\ \/ /\ account_snapshots' = PurgeBefore(account_snapshots, cutoff)
          /\ UNCHANGED failedWrites
       \/ /\ failedWrites < MaxWriteFailures
          /\ failedWrites' = failedWrites + 1
          /\ UNCHANGED account_snapshots
    /\ cutoff' = NoTime
    /\ UNCHANGED <<now, stamped, strategyLogCh, tableVars, stream, refreshed, snapshots,
                   savedSnapshots, lines>>

----------------------------------------------------------------------------
Logging == \E s \in Strategies : StampLog(s) \/ enqueueStrategyLog(s)
strategyLogWriterLoop == SaveStrategyLog \/ notifyStrategyLogSubscribers
SubscribeStrategyLogs ==
    \/ \E name \in Strategies \cup {AllStrategies}, tail \in Tails : ListRecent(name, tail)
    \/ RegisterStrategyLogSubscriber \/ Send \/ Disconnect
Snapshots == PersistAccountSnapshot \/ \E p \in refreshed : SaveAccountSnapshot(p)
retentionLoop == PurgeStrategyLogsBefore \/ PurgeAccountSnapshotsBefore

LogNext == \/ Tick \/ Logging \/ strategyLogWriterLoop \/ SubscribeStrategyLogs
           \/ Snapshots \/ retentionLoop

LogSpec == LogInit /\ [][LogNext]_logVars

----------------------------------------------------------------------------
(* Properties                                                              *)

Line == [strategy : Strategies, at : Instants]
LogRow == [id : 1 .. MaxRows, strategy : Strategies, at : Instants]
SnapshotRow == [id : 1 .. MaxRows, revision : 1 .. MaxRows, at : Instants]
AtMostOne(S) == {{}} \cup {{x} : x \in S}

\* The variables have their types, and a row of the tables has an id of its own.
LogTypeOK ==
    /\ now \in Instants /\ cutoff \in Instants \cup {NoTime}
    /\ stamped \in [Strategies -> AtMostOne(Line)]
    /\ strategyLogCh \in Seq(Line) /\ Len(strategyLogCh) <= LogQueue
    /\ strategy_logs \subseteq LogRow /\ unannounced \in AtMostOne(LogRow)
    /\ \A p, q \in strategy_logs : p.id = q.id => p = q
    /\ account_snapshots \subseteq SnapshotRow
    /\ \A p, q \in account_snapshots : p.id = q.id \/ p.revision = q.revision => p = q
    /\ stream.phase \in {"off", "listed", "registered"}
    /\ Len(stream.ch) <= StreamBuf /\ Len(stream.tail) <= MaxTail
    /\ saved <= lines /\ savedSnapshots <= snapshots

TailIds == [i \in DOMAIN stream.tail |-> stream.tail[i].id]

\* A client gets no row twice, although a row may be listed before and told after its stream
\* registers, and the rows after its tail come in the order in which they were saved; a row
\* saved after the registration reaches the client, is on its way, or found the channel full
\* (SubscribeStrategyLogs, minExclusiveID, RegisterStrategyLogSubscriber,
\* notifyStrategyLogSubscribers).
StreamedOnce ==
    /\ LogTypeOK
    /\ stream.phase = "registered" =>
         LET ids == stream.sent \o TailIds \o stream.ch
         IN /\ IsInjective(ids)
            /\ \A i, j \in DOMAIN ids :
                 i < j /\ ids[i] > stream.minExclusiveID /\ ids[j] > stream.minExclusiveID => ids[i] < ids[j]
            /\ \A row \in strategy_logs \ unannounced :
                 /\ row.id > stream.since
                 /\ stream.name = AllStrategies \/ stream.name = row.strategy
                 => row.id \in Range(stream.sent \o stream.ch) \cup stream.dropped

Times == Instants \cup {NoTime}

\* Although times are compared as texts, what is found is right up to a second: a listing has
\* the rows of every second between its ends and none of a second beyond them, and the
\* snapshot found latest is of the newest second on record, in whatever order the goroutines
\* saved the snapshots (ListStrategyLogs, ListAccountSnapshots, GetLatestAccountSnapshot).
FoundToTheSecond ==
    /\ \A rows \in {strategy_logs, account_snapshots}, start, end \in Times :
         ~ InvalidRange(start, end) =>
            LET listed == ListAccountSnapshots(rows, start, end, MaxRows)
            IN \A row \in rows :
                /\ /\ start = NoTime \/ Second(start) < Second(row.at)
                   /\ end = NoTime \/ Second(row.at) < Second(end)
                   => row \in listed
                /\ row \in listed =>
                      /\ start = NoTime \/ Second(start) <= Second(row.at)
                      /\ end = NoTime \/ Second(row.at) <= Second(end)
    /\ \A latest \in GetLatestAccountSnapshot(account_snapshots), row \in account_snapshots :
         Second(row.at) <= Second(latest.at)

=============================================================================
