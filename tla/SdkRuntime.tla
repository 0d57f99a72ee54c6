----------------------------- MODULE SdkRuntime -----------------------------
(***************************************************************************)
(* One strategy process and the engine goroutines that talk to it: the     *)
(* reader and worker threads of the python runtime, its heartbeat thread,  *)
(* rpc_call, the engine's reader of stdout, one goroutine per request, the *)
(* heartbeat monitor and StrategyProcess.Stop.                             *)
(*                                                                         *)
(* A candle stands for a ticker and for the warm-up history too: their     *)
(* handlers agree, but that on_history gives no signal.  The custom state  *)
(* is one key whose value is the number of writes so far.  The strategy    *)
(* may ask from a thread of its own: the runtime locks _rpc_pending and    *)
(* stdout for that.  stdin never fills while the reader thread runs, so a  *)
(* write to it does not wait.                                              *)
(***************************************************************************)
EXTENDS Naturals, Sequences, FiniteSets

CONSTANTS
  Worker,          \* the worker thread
  Helpers,         \* threads the strategy started
  CrashLimit,      \* _crash_limit
  SilentTicks,     \* monitor periods in the 30 seconds without a heartbeat
  SignalBuf,       \* capacity of signalCh
  PipeLines,       \* lines the stdout pipe holds
  MaxEvents,       \* bound: candle messages
  MaxCalls         \* bound: rpc calls

ASSUME SdkAssumption ==
  /\ {CrashLimit, SilentTicks, SignalBuf, PipeLines} \subseteq Nat \ {0}
  /\ {MaxEvents, MaxCalls} \subseteq Nat
  /\ Worker \notin Helpers

VARIABLES
  running,    \* StrategyRuntime.running
  alive,      \* the python process exists
  reader,     \* the reader thread runs
  worker,     \* the callback the worker is in
  errors,     \* _crash_times, those in the window
  inbound,    \* _inbound_queue
  counter,    \* _rpc_counter
  pending,    \* _rpc_pending: what each open call's queue holds
  call,       \* the rpc_call a thread is in
  seen,       \* per thread, the newest custom state an answer showed it
  beat,       \* a heartbeat was printed in this period
  stdin,      \* lines on their way to the process
  stdout,     \* lines on their way to the engine
  requests,   \* handleRPCRequest goroutines
  memory,     \* strategyStates: the number of writes
  signalCh,
  quiet,      \* monitor periods since the last heartbeat that was handled
  stall,      \* periods at whose end the reader waited for dispatchSignal, since it last had read
              \* all and the period's heartbeat with it (no variable of the code; up to SilentTicks)
  engine,     \* what the engine holds of the process
  events

python == <<running, alive, reader, worker, errors, inbound, beat>>
calls == <<counter, pending, call, seen>>
adapter == <<requests, memory, signalCh, quiet, stall, engine>>
vars == <<python, calls, adapter, stdin, stdout, events>>

Threads == {Worker} \cup Helpers
Ids == 1..MaxCalls
Methods == {"get_state", "set_state"}

\* What a request asks for stands for its parameters; by, the asker, only names it.
Answer == [id : Ids, by : Threads, version : 0..MaxCalls]
Request == [id : Ids, by : Threads, method : Methods, version : 0..MaxCalls, pc : {"new", "done"}]
Line == [type : {"init", "kline", "stop", "end"}]
          \cup [type : {"rpc_response"}, answer : Answer]
Said == [type : {"init_ack", "signal", "heartbeat"}]
          \cup [type : {"rpc_request"}, request : Request]

Callback == {"init", "kline", "stop"}
NoCall == [pc |-> "none", id |-> 0]
Calls == [pc : {"registered", "waiting"}, id : Ids, method : Methods] \cup {NoCall}

\* watched -> declared (monitor) | stopping (Stop has written the stop message)
\*   -> cancelled (two seconds later) ; exited: readStrategyMessages saw the end.
EngineSide == {"watched", "declared", "stopping", "cancelled", "exited"}

TypeOK ==
  /\ running \in BOOLEAN /\ alive \in BOOLEAN /\ reader \in BOOLEAN /\ beat \in BOOLEAN
  /\ worker \in {"idle", "ended"} \cup Callback
  /\ errors \in 0..CrashLimit
  /\ inbound \in Seq(Line) /\ stdin \in Seq(Line)
  /\ counter \in 0..MaxCalls
  /\ DOMAIN pending \subseteq Ids /\ \A i \in DOMAIN pending : pending[i] \in Seq(Answer)
  /\ call \in [Threads -> Calls]
  /\ seen \in [Threads -> 0..MaxCalls]
  /\ stdout \in Seq(Said) /\ Len(stdout) <= PipeLines
  /\ requests \subseteq Request
  /\ memory \in 0..MaxCalls
  /\ signalCh \in 0..SignalBuf
  /\ quiet \in 0..SilentTicks + 1 /\ stall \in 0..SilentTicks
  /\ engine \in EngineSide
  /\ events \in 0..MaxEvents
  /\ ~alive => worker = "ended" /\ ~running

Init ==
  /\ running = TRUE /\ alive = TRUE /\ reader = TRUE
  /\ worker = "idle" /\ errors = 0 /\ inbound = <<>> /\ beat = FALSE
  /\ counter = 0 /\ pending = <<>>
  /\ call = [t \in Threads |-> NoCall] /\ seen = [t \in Threads |-> 0]
  /\ stdin = <<[type |-> "init"]>> /\ stdout = <<>>
  /\ requests = {} /\ memory = 0 /\ signalCh = 0 /\ quiet = 0 /\ stall = 0
  /\ engine = "watched" /\ events = 0

-----------------------------------------------------------------------------
(* Lines *)

\* _send_message: print under _stdout_lock; a full pipe makes the writer wait.
_send_message(line) ==
  /\ Len(stdout) < PipeLines
  /\ stdout' = Append(stdout, line)

\* SendMessage: a write to a process that is gone only returns an error.
SendMessage(line) == stdin' = IF alive THEN Append(stdin, line) ELSE stdin

\* _reader_loop; the end mark follows the stop message, or whatever is read once the
\* runtime no longer runs.
_reader_loop ==
  /\ alive /\ reader /\ stdin # <<>>
  /\ stdin' = Tail(stdin)
  /\ LET last == ~running \/ Head(stdin).type = "stop"
         line == IF running THEN <<Head(stdin)>> ELSE <<>>
     IN /\ inbound' = inbound \o line \o (IF last THEN <<[type |-> "end"]>> ELSE <<>>)
        /\ reader' = ~last
  /\ UNCHANGED <<running, alive, worker, errors, beat, calls, adapter, stdout, events>>

-----------------------------------------------------------------------------
(* The worker thread *)

\* _handle_rpc_response: an answer nobody waits for is dropped.
_handle_rpc_response(a) ==
  pending' = IF a.id \in DOMAIN pending THEN [pending EXCEPT ![a.id] = Append(@, a)] ELSE pending

_worker_loop ==
  /\ alive /\ running /\ worker = "idle" /\ inbound # <<>>
  /\ inbound' = Tail(inbound)
  /\ LET msg == Head(inbound)
     IN \/ /\ msg.type \in Callback
           /\ worker' = msg.type
           /\ UNCHANGED pending
        \/ /\ msg.type = "rpc_response"
           /\ _handle_rpc_response(msg.answer)
           /\ UNCHANGED worker
        \/ /\ msg.type = "end"
           /\ worker' = "ended"
           /\ UNCHANGED pending
  /\ UNCHANGED <<running, alive, reader, errors, beat, counter, call, seen, adapter, stdin,
                 stdout, events>>

\* A callback returns; on_kline may return a signal, on_init is acknowledged, and on_stop
\* ends the loop.
CallbackReturns ==
  /\ worker \in Callback /\ call[Worker] = NoCall
  /\ \/ /\ worker \in {"kline", "stop"}
        /\ UNCHANGED stdout
     \/ /\ worker = "kline"
        /\ _send_message([type |-> "signal"])
     \/ /\ worker = "init"
        /\ _send_message([type |-> "init_ack"])
  /\ running' = (worker # "stop")
  /\ worker' = IF worker = "stop" THEN "ended" ELSE "idle"
  /\ UNCHANGED <<alive, reader, errors, inbound, beat, calls, adapter, stdin, events>>

\* _record_crash: sys.exit ends the worker thread, and with it run.
_record_crash ==
  /\ errors' = errors + 1
  /\ running' = (errors' < CrashLimit)
  /\ worker' = IF running' THEN "idle" ELSE "ended"

\* A failure of on_init or on_stop is not counted.
CallbackRaises ==
  /\ worker \in Callback /\ call[Worker] = NoCall
  /\ \/ /\ worker = "kline"
        /\ _record_crash
        /\ UNCHANGED stdout
     \/ /\ worker = "init"
        /\ _send_message([type |-> "init_ack"])
        /\ worker' = "idle"
        /\ UNCHANGED <<running, errors>>
     \/ /\ worker = "stop"
        /\ running' = FALSE /\ worker' = "ended"
        /\ UNCHANGED <<errors, stdout>>
  /\ UNCHANGED <<alive, reader, inbound, beat, calls, adapter, stdin, events>>

\* The oldest failure leaves _crash_window before another is recorded.
FailureExpires ==
  /\ errors \in 1..CrashLimit - 1
  /\ errors' = errors - 1
  /\ UNCHANGED <<running, alive, reader, worker, inbound, beat, calls, adapter, stdin, stdout, events>>

ProcessEnds ==
  /\ alive' = FALSE /\ running' = FALSE /\ reader' = FALSE /\ worker' = "ended"
  /\ inbound' = <<>> /\ stdin' = <<>>
  /\ pending' = <<>> /\ call' = [t \in Threads |-> NoCall]

\* run: after the worker has ended the other threads are daemons.
run ==
  /\ alive /\ worker = "ended"
  /\ ProcessEnds
  /\ UNCHANGED <<errors, beat, counter, seen, adapter, stdout, events>>

\* _heartbeat_loop, a thread of its own.
_heartbeat_loop ==
  /\ alive /\ running /\ ~beat
  /\ _send_message([type |-> "heartbeat"])
  /\ beat' = TRUE
  /\ UNCHANGED <<running, alive, reader, worker, errors, inbound, calls, adapter, stdin, events>>

-----------------------------------------------------------------------------
(* rpc_call *)

\* The worker asks from inside a callback, a helper once the strategy has its context.
MayAsk(t) ==
  /\ alive /\ call[t] = NoCall
  /\ IF t = Worker THEN worker \in Callback ELSE worker # "ended" /\ (events > 0 \/ worker = "init")

\* Mutant: the counter is taken outside the lock, so two calls get one number.
nextIdShared == IF counter = 0 THEN 1 ELSE counter

nextId == counter + 1

rpc_call(t, method) ==
  /\ MayAsk(t) /\ counter < MaxCalls
  /\ counter' = counter + 1
  /\ pending' = [i \in DOMAIN pending \cup {nextId} |-> IF i = nextId THEN <<>> ELSE pending[i]]
  /\ call' = [call EXCEPT ![t] = [pc |-> "registered", id |-> nextId, method |-> method]]
  /\ UNCHANGED <<python, seen, adapter, stdin, stdout, events>>

SendRequest(t) ==
  /\ alive /\ call[t].pc = "registered"
  /\ _send_message([type |-> "rpc_request",
       request |-> [id |-> call[t].id, by |-> t, method |-> call[t].method, version |-> 0, pc |-> "new"]])
  /\ call' = [call EXCEPT ![t].pc = "waiting"]
  /\ UNCHANGED <<python, counter, pending, seen, adapter, stdin, events>>

\* finally: the call is no longer pending.
closeCall(t) ==
  /\ pending' = [i \in DOMAIN pending \ {call[t].id} |-> pending[i]]
  /\ call' = [call EXCEPT ![t] = NoCall]

Answered(t) == call[t].pc = "waiting" /\ call[t].id \in DOMAIN pending /\ pending[call[t].id] # <<>>

CallReturns(t) ==
  /\ alive /\ Answered(t)
  /\ seen' = [seen EXCEPT ![t] = Head(pending[call[t].id]).version]
  /\ closeCall(t)
  /\ UNCHANGED <<python, counter, adapter, stdin, stdout, events>>

\* The five seconds are over.
CallTimesOut(t) ==
  /\ alive /\ call[t].pc = "waiting" /\ ~Answered(t)
  /\ closeCall(t)
  /\ UNCHANGED <<python, counter, seen, adapter, stdin, stdout, events>>

-----------------------------------------------------------------------------
(* The engine *)

\* Candles for a process that is registered.
SendData ==
  /\ engine = "watched" /\ events < MaxEvents
  /\ events' = events + 1
  /\ SendMessage([type |-> "kline"])
  /\ UNCHANGED <<python, calls, adapter, stdout>>

\* readStrategyMessages and handleStrategyMessage: the reader waits for room in signalCh.
handleStrategyMessage ==
  /\ engine \in {"watched", "declared", "stopping"} /\ stdout # <<>>
  /\ stdout' = Tail(stdout)
  /\ stall' = IF Len(stdout) = 1 /\ beat THEN 0 ELSE stall
  /\ LET msg == Head(stdout)
     IN \/ /\ msg.type = "heartbeat"
           /\ quiet' = 0
           /\ UNCHANGED <<signalCh, requests>>
        \/ /\ msg.type = "init_ack"
           /\ UNCHANGED <<signalCh, requests, quiet>>
        \/ /\ msg.type = "signal" /\ signalCh < SignalBuf
           /\ signalCh' = signalCh + 1
           /\ UNCHANGED <<requests, quiet>>
        \/ /\ msg.type = "rpc_request"
           /\ requests' = requests \cup {msg.request}
           /\ UNCHANGED <<signalCh, quiet>>
  /\ UNCHANGED <<python, calls, stdin, memory, engine, events>>

\* dispatchSignal takes a signal.
dispatchSignal ==
  /\ signalCh > 0
  /\ signalCh' = signalCh - 1
  /\ UNCHANGED <<python, calls, stdin, stdout, requests, memory, quiet, stall, engine, events>>

\* The reader of another strategy's stdout puts a signal into the channel they share.
othersSignal ==
  /\ signalCh < SignalBuf
  /\ signalCh' = signalCh + 1
  /\ UNCHANGED <<python, calls, stdin, stdout, requests, memory, quiet, stall, engine, events>>

\* SetStrategyCustomState, GetStrategyCustomState: under strategyStateMu.
execute(r) ==
  /\ memory' = IF r.method = "set_state" THEN memory + 1 ELSE memory
  /\ requests' = (requests \ {r}) \cup {[r EXCEPT !.pc = "done", !.version = memory']}

\* handleRPCRequest, a goroutine per request: the work, then SendRPCResponse.
handleRPCRequest(r) ==
  \/ /\ r.pc = "new"
     /\ execute(r)
     /\ UNCHANGED <<python, calls, stdin, stdout, signalCh, quiet, stall, engine, events>>
  \/ /\ r.pc = "done"
     /\ requests' = requests \ {r}
     /\ SendMessage([type |-> "rpc_response",
                     answer |-> [id |-> r.id, by |-> r.by, version |-> r.version]])
     /\ UNCHANGED <<python, calls, stdout, memory, signalCh, quiet, stall, engine, events>>

readerBlocked == stdout # <<>> /\ Head(stdout).type = "signal" /\ signalCh = SignalBuf

\* Mutant: a heartbeat is missed too soon.
heartbeatTimeoutEarly == quiet + 1 >= SilentTicks

heartbeatTimeout == quiet + 1 > SilentTicks

\* Ten seconds pass.  By then the heartbeat thread has printed, and the reader has read,
\* unless each waits for the one behind it; the reader may wait for dispatchSignal for good.
monitorHeartbeat ==
  /\ engine \in {"watched", "stopping"}
  /\ stdout # <<>> => readerBlocked
  /\ alive /\ running => beat \/ Len(stdout) = PipeLines
  /\ beat' = FALSE
  /\ stall' = IF stdout = <<>> THEN 0 ELSE IF stall < SilentTicks THEN stall + 1 ELSE stall
  /\ quiet' = quiet + 1
  /\ engine' = IF heartbeatTimeout THEN "declared" ELSE engine
  /\ UNCHANGED <<running, alive, reader, worker, errors, inbound, calls, stdin, stdout, requests,
                 memory, signalCh, events>>

\* StrategyProcess.Stop writes the stop message, sleeps, and cancels, which kills.
Stop ==
  /\ engine = "watched"
  /\ engine' = "stopping"
  /\ SendMessage([type |-> "stop"])
  /\ UNCHANGED <<python, calls, stdout, requests, memory, signalCh, quiet, stall, events>>

StopCancels ==
  /\ engine = "stopping"
  /\ engine' = "cancelled"
  /\ ProcessEnds
  /\ UNCHANGED <<errors, beat, counter, seen, stdout, requests, memory, signalCh, quiet, stall, events>>

\* ReadMessages returns at the end of stdout, or when the context is done.
readStrategyMessages ==
  /\ \/ engine = "cancelled"
     \/ engine \in {"watched", "declared", "stopping"} /\ ~alive /\ stdout = <<>>
  /\ engine' = "exited"
  /\ UNCHANGED <<python, calls, stdin, stdout, requests, memory, signalCh, quiet, stall, events>>

-----------------------------------------------------------------------------
Python == _reader_loop \/ _worker_loop \/ CallbackReturns \/ CallbackRaises \/ FailureExpires
            \/ run \/ _heartbeat_loop

Rpc(t) ==
  \/ \E method \in Methods : rpc_call(t, method)
  \/ SendRequest(t) \/ CallReturns(t) \/ CallTimesOut(t)

Engine ==
  \/ SendData \/ handleStrategyMessage \/ dispatchSignal \/ othersSignal \/ monitorHeartbeat
  \/ Stop \/ StopCancels \/ readStrategyMessages
  \/ \E r \in requests : handleRPCRequest(r)

Next == Python \/ (\E t \in Threads : Rpc(t)) \/ Engine

Spec == Init /\ [][Next]_vars

-----------------------------------------------------------------------------
(* Properties *)

\* An answer waits in the queue of the thread that asked the question, and shows that thread
\* a custom state at least as new as its earlier answers did, though requests are served by
\* goroutines of their own, answers come in any order, and calls are given up (rpc_call,
\* _handle_rpc_response).
AnswerToAsker ==
  /\ TypeOK
  /\ \A t \in Threads : Answered(t) =>
       /\ Head(pending[call[t].id]).by = t
       /\ Head(pending[call[t].id]).version >= seen[t]

\* The monitor gives up a process that runs, however long its worker is kept by a callback or
\* a call, only after the whole timeout in which the reader of its stdout waited for room in
\* signalCh, its heartbeats behind it, and never caught up (monitorHeartbeat, _heartbeat_loop,
\* handleStrategyMessage).
OnlySilentIsGivenUp ==
  [][engine # "declared" /\ engine' = "declared" /\ running
       => readerBlocked /\ stall' = SilentTicks]_vars

=============================================================================
