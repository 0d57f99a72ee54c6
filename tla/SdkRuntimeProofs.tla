--------------------------- MODULE SdkRuntimeProofs ---------------------------
(***************************************************************************)
(* Proofs about one strategy process and the engine goroutines that talk   *)
(* to it: types, the path of a question and its answer through four queues *)
(* and a goroutine of its own, and the heartbeat that a blocked reader     *)
(* delays.                                                                 *)
(***************************************************************************)
EXTENDS SdkRuntime, FiniteSetTheorems, TLAPS

-----------------------------------------------------------------------------
(* The inductive invariant *)

\* The threads of the process, and what the engine knows of it.
Control ==
  /\ running \in BOOLEAN /\ alive \in BOOLEAN /\ reader \in BOOLEAN /\ beat \in BOOLEAN
  /\ worker \in {"idle", "ended"} \cup Callback
  /\ errors \in 0..CrashLimit
  /\ engine \in EngineSide
  /\ ~alive => worker = "ended" /\ ~running
  /\ worker \in Callback => running
  /\ running => errors < CrashLimit

Queues ==
  /\ inbound \in Seq(Line) /\ stdin \in Seq(Line)
  /\ stdout \in Seq(Said) /\ Len(stdout) <= PipeLines

CallTypes ==
  /\ counter \in 0..MaxCalls
  /\ DOMAIN pending \subseteq Ids /\ \A i \in DOMAIN pending : pending[i] \in Seq(Answer)
  /\ call \in [Threads -> Calls]
  /\ seen \in [Threads -> 0..MaxCalls]
  /\ requests \subseteq Request
  /\ memory \in 0..MaxCalls

Counters ==
  /\ signalCh \in 0..SignalBuf
  /\ quiet \in 0..SilentTicks + 1 /\ stall \in 0..SilentTicks
  /\ events \in 0..MaxEvents
  /\ engine \in {"watched", "stopping"} => quiet <= SilentTicks

Types == Control /\ Queues /\ CallTypes /\ Counters

\* Questions on their way to the engine, and answers on their way to the threads.
Asks == {stdout[i].request : i \in {k \in DOMAIN stdout : stdout[k].type = "rpc_request"}}
Answers(queue) == {queue[i].answer : i \in {k \in DOMAIN queue : queue[k].type = "rpc_response"}}
Waiting == {a \in Answer : \E i \in DOMAIN pending : \E k \in DOMAIN pending[i] : pending[i][k] = a}
Told == Answers(stdin) \cup Answers(inbound) \cup Waiting

Open(t) == call[t].pc # "none"

\* An open call's number is its own: whatever carries it is the question of the thread that
\* asked, or an answer to it, and an answer is as new as what the thread has seen.
Own ==
  /\ \A t \in Threads : Open(t) => call[t].id \in 1..counter
  /\ \A t, u \in Threads : Open(t) /\ Open(u) /\ call[t].id = call[u].id => t = u
  /\ \A t \in Threads : seen[t] <= memory
  /\ \A r \in Asks \cup requests : r.id <= counter
  /\ \A r \in requests : r.pc = "done" => r.version <= memory
  /\ \A a \in Told : a.id <= counter /\ a.version <= memory
  /\ \A t \in Threads : Open(t) =>
       /\ \A r \in Asks \cup requests : r.id = call[t].id => r.by = t
       /\ \A r \in requests : r.id = call[t].id /\ r.pc = "done" => r.version >= seen[t]
       /\ \A a \in Told : a.id = call[t].id => a.by = t /\ a.version >= seen[t]

\* An open call's queue holds answers to that call.
Slots == \A i \in DOMAIN pending : \A k \in DOMAIN pending[i] : pending[i][k].id = i

\* A question is carried once: by the call that is about to send it, by a line, or by the
\* goroutine that serves it.
Registered(t) == call[t].pc = "registered"
AsksAt(k) == stdout[k].type = "rpc_request"
Once ==
  /\ \A r \in Asks : r.pc = "new"
  /\ \A k, l \in DOMAIN stdout :
       AsksAt(k) /\ AsksAt(l) /\ stdout[k].request.id = stdout[l].request.id => k = l
  /\ \A r, q \in requests : r.id = q.id => r = q
  /\ \A r \in Asks, q \in requests : r.id # q.id
  /\ \A t \in Threads : Registered(t) => \A r \in Asks \cup requests : r.id # call[t].id

\* So the state is written at most once for every number given out.
Unserved ==
  {i \in 1..MaxCalls : \/ \E t \in Threads : Registered(t) /\ call[t].id = i
                       \/ \E r \in Asks : r.id = i
                       \/ \E r \in requests : r.id = i /\ r.pc = "new"}
Written == memory + Cardinality(Unserved) <= counter

\* A heartbeat of this period is in the pipe or was handled, and the time without one is
\* the time the reader did not catch up.
Beating == \E k \in DOMAIN stdout : stdout[k].type = "heartbeat"
Heard ==
  running =>
    /\ beat => quiet = 0 \/ Beating
    /\ quiet <= stall + 1

IInv == Types /\ Own /\ Slots /\ Once /\ Written /\ Heard

-----------------------------------------------------------------------------
(* Sequences *)

LEMMA Appended ==
  ASSUME NEW T, NEW s \in Seq(T), NEW x \in T
  PROVE  /\ Append(s, x) \in Seq(T) /\ Len(Append(s, x)) = Len(s) + 1
         /\ DOMAIN Append(s, x) = 1..(Len(s) + 1) /\ DOMAIN s = 1..Len(s) /\ Len(s) \in Nat
         /\ Append(s, x)[Len(s) + 1] = x
         /\ \A i \in 1..Len(s) : Append(s, x)[i] = s[i]
  OBVIOUS

LEMMA Popped ==
  ASSUME NEW T, NEW s \in Seq(T), s # <<>>
  PROVE  /\ Tail(s) \in Seq(T) /\ Len(Tail(s)) = Len(s) - 1 /\ Len(s) \in Nat \ {0}
         /\ DOMAIN s = 1..Len(s) /\ DOMAIN Tail(s) = 1..(Len(s) - 1)
         /\ Head(s) = s[1] /\ Head(s) \in T
         /\ \A i \in 1..(Len(s) - 1) : Tail(s)[i] = s[i + 1]
  OBVIOUS

LEMMA Joined ==
  ASSUME NEW T, NEW s \in Seq(T), NEW t \in Seq(T)
  PROVE  /\ s \o t \in Seq(T) /\ Len(s) \in Nat /\ Len(t) \in Nat
         /\ DOMAIN (s \o t) = 1..(Len(s) + Len(t)) /\ DOMAIN s = 1..Len(s) /\ DOMAIN t = 1..Len(t)
         /\ \A j \in 1..(Len(s) + Len(t)) : (s \o t)[j] = IF j <= Len(s) THEN s[j] ELSE t[j - Len(s)]
  OBVIOUS

LEMMA Parts ==
  ASSUME NEW T, NEW s \in Seq(T)
  PROVE  DOMAIN s = 1..Len(s) /\ Len(s) \in Nat /\ \A i \in DOMAIN s : s[i] \in T
  OBVIOUS

\* What a queue holds after a push or a pop, it held before or was pushed.
LEMMA PushedHold ==
  ASSUME NEW T, NEW s \in Seq(T), NEW x \in T
  PROVE  \A i \in DOMAIN Append(s, x) : Append(s, x)[i] = x \/ \E k \in DOMAIN s : Append(s, x)[i] = s[k]
<1>1. ASSUME NEW i \in 1..(Len(s) + 1) PROVE i \in 1..Len(s) \/ i = Len(s) + 1
  BY Appended
<1> QED
  BY <1>1, Appended

LEMMA PoppedHold ==
  ASSUME NEW T, NEW s \in Seq(T), s # <<>>
  PROVE  \A i \in DOMAIN Tail(s) : \E k \in DOMAIN s : Tail(s)[i] = s[k] /\ k # 1
<1>1. ASSUME NEW i \in 1..(Len(s) - 1) PROVE i + 1 \in 1..Len(s) /\ i + 1 # 1
  BY Popped
<1> QED
  BY <1>1, Popped

LEMMA JoinedHold ==
  ASSUME NEW T, NEW s \in Seq(T), NEW t \in Seq(T)
  PROVE  \A i \in DOMAIN (s \o t) : \/ \E k \in DOMAIN s : (s \o t)[i] = s[k]
                                    \/ \E k \in DOMAIN t : (s \o t)[i] = t[k]
<1> SUFFICES ASSUME NEW i \in 1..(Len(s) + Len(t))
             PROVE  \/ \E k \in DOMAIN s : (s \o t)[i] = s[k]
                    \/ \E k \in DOMAIN t : (s \o t)[i] = t[k]
  BY Joined
<1>1. Len(s) \in Nat /\ Len(t) \in Nat
  BY Joined
<1>2. CASE i <= Len(s)
  BY <1>1, <1>2, Joined
<1>3. CASE ~(i <= Len(s))
  <2>1. i - Len(s) \in 1..Len(t)
    BY <1>1, <1>3
  <2> QED
    BY <1>3, <2>1, Joined
<1> QED
  BY <1>2, <1>3

-----------------------------------------------------------------------------
(* Steps and lines *)

LEMMA Bounds ==
  /\ CrashLimit \in Nat \ {0} /\ SilentTicks \in Nat \ {0} /\ SignalBuf \in Nat \ {0} /\ PipeLines \in Nat \ {0}
  /\ MaxEvents \in Nat /\ MaxCalls \in Nat
  BY SdkAssumption

Stutters == UNCHANGED <<running, alive, reader, worker, errors, inbound, beat, counter, pending, call, seen,
                        requests, memory, signalCh, quiet, stall, engine, stdin, stdout, events>>

LEMMA StepKinds ==
  ASSUME [Next]_vars
  PROVE  \/ _reader_loop \/ _worker_loop \/ CallbackReturns \/ CallbackRaises \/ FailureExpires
         \/ run \/ _heartbeat_loop
         \/ \E t \in Threads : \/ \E method \in Methods : rpc_call(t, method)
                               \/ SendRequest(t) \/ CallReturns(t) \/ CallTimesOut(t)
         \/ SendData \/ handleStrategyMessage \/ dispatchSignal \/ othersSignal \/ monitorHeartbeat
         \/ Stop \/ StopCancels \/ readStrategyMessages
         \/ \E r \in requests : handleRPCRequest(r)
         \/ Stutters
<1>1. CASE UNCHANGED vars
  BY <1>1, Zenon DEF vars, python, calls, adapter, Stutters
<1>2. CASE Next
  BY <1>2, Zenon DEF Next, Python, Rpc, Engine
<1> QED
  BY <1>1, <1>2

LEMMA Lines ==
  /\ \A l \in Line : l.type = "rpc_response" => l.answer \in Answer
  /\ \A l \in Said : l.type = "rpc_request" => l.request \in Request
  /\ \A a \in Answer : a.id \in Ids /\ a.by \in Threads /\ a.version \in 0..MaxCalls
  /\ \A r \in Request : /\ r.id \in Ids /\ r.by \in Threads /\ r.method \in Methods
                        /\ r.version \in 0..MaxCalls /\ r.pc \in {"new", "done"}
  BY DEF Line, Said, Answer, Request

LEMMA NewLines ==
  /\ \A ty \in {"init", "kline", "stop", "end"} : [type |-> ty] \in Line
  /\ \A a \in Answer : [type |-> "rpc_response", answer |-> a] \in Line
  /\ \A ty \in {"init_ack", "signal", "heartbeat"} : [type |-> ty] \in Said
  /\ \A r \in Request : [type |-> "rpc_request", request |-> r] \in Said
  BY DEF Line, Said

-----------------------------------------------------------------------------
(* Types *)

\* The threads of the process and the engine's side of it.
LEMMA ControlStep ==
  ASSUME Types, [Next]_vars
  PROVE  Control'
<1> USE DEF Control, Callback, EngineSide
<1>1. Control /\ CrashLimit \in Nat \ {0}
  BY Bounds DEF Types
<1>2. CASE _reader_loop
  <2>1. reader' \in BOOLEAN
    BY <1>2 DEF _reader_loop
  <2> QED
    BY <1>1, <1>2, <2>1 DEF _reader_loop, calls, adapter
<1>3. CASE _worker_loop
  BY <1>1, <1>3 DEF _worker_loop, adapter
<1>4. CASE CallbackReturns
  BY <1>1, <1>4 DEF CallbackReturns, adapter
<1>5. CASE CallbackRaises
  <2>1. UNCHANGED <<alive, reader, beat, engine>> /\ worker \in Callback /\ running
    BY <1>1, <1>5, Zenon DEF CallbackRaises, adapter
  <2>2. CASE worker = "kline"
    <3>1. _record_crash
      BY <1>5, <2>2 DEF CallbackRaises
    <3>2. errors' \in 0..CrashLimit /\ running' = (errors' < CrashLimit)
      BY <1>1, <2>1, <3>1 DEF _record_crash
    <3>3. (errors' < CrashLimit) \in BOOLEAN
      OBVIOUS
    <3>4. running' \in BOOLEAN /\ (running' => errors' < CrashLimit)
      BY <3>2, <3>3, Zenon
    <3> QED
      BY <1>1, <2>1, <3>1, <3>2, <3>4 DEF _record_crash
  <2>3. CASE worker # "kline"
    <3>1. \/ UNCHANGED <<running, errors>> /\ worker' = "idle"
          \/ UNCHANGED errors /\ running' = FALSE /\ worker' = "ended"
      BY <1>5, <2>3, Zenon DEF CallbackRaises
    <3> QED
      BY <1>1, <2>1, <3>1
  <2> QED
    BY <2>2, <2>3
<1>6. CASE FailureExpires
  BY <1>1, <1>6 DEF FailureExpires, adapter
<1>7. CASE run \/ StopCancels
  BY <1>1, <1>7 DEF run, StopCancels, ProcessEnds, adapter
<1>8. CASE _heartbeat_loop
  BY <1>1, <1>8 DEF _heartbeat_loop, adapter
<1>9. ASSUME NEW t \in Threads,
             \/ \E method \in Methods : rpc_call(t, method)
             \/ SendRequest(t) \/ CallReturns(t) \/ CallTimesOut(t)
      PROVE  UNCHANGED <<running, alive, reader, beat, worker, errors, engine>>
  BY <1>9, Zenon DEF rpc_call, SendRequest, CallReturns, CallTimesOut, python, adapter
<1>10. ASSUME NEW r \in requests, handleRPCRequest(r)
       PROVE  UNCHANGED <<running, alive, reader, beat, worker, errors, engine>>
  BY <1>10, Zenon DEF handleRPCRequest, python
<1>11. CASE SendData \/ handleStrategyMessage \/ dispatchSignal \/ othersSignal \/ Stutters
  <2>1. UNCHANGED <<running, alive, reader, beat, worker, errors, engine>>
    BY <1>11, Zenon DEF SendData, handleStrategyMessage, dispatchSignal, othersSignal, Stutters, python, adapter
  <2> QED
    BY <1>1, <2>1
<1>12. CASE monitorHeartbeat \/ Stop \/ readStrategyMessages
  <2>1. UNCHANGED <<running, alive, reader, worker, errors>> /\ beat' \in {FALSE, beat}
    BY <1>12, Zenon DEF monitorHeartbeat, Stop, readStrategyMessages, python
  <2>2. engine' \in {"declared", engine, "stopping", "exited"}
    BY <1>12, Zenon DEF monitorHeartbeat, Stop, readStrategyMessages
  <2> QED
    BY <1>1, <2>1, <2>2
<1>13. CASE UNCHANGED <<running, alive, reader, beat, worker, errors, engine>>
  BY <1>1, <1>13
<1> QED
  BY <1>2, <1>3, <1>4, <1>5, <1>6, <1>7, <1>8, <1>9, <1>10, <1>11, <1>12, <1>13, StepKinds, Zenon

\* What the monitor counts, and how far.
LEMMA CountersStep ==
  ASSUME Types, [Next]_vars
  PROVE  Counters'
<1>1. /\ signalCh \in 0..SignalBuf /\ quiet \in 0..SilentTicks + 1 /\ stall \in 0..SilentTicks
      /\ events \in 0..MaxEvents
      /\ engine \in {"watched", "stopping"} => quiet <= SilentTicks
  BY DEF Types, Counters
<1>2. CASE SendData
  <2>1. events' \in 0..MaxEvents
    BY <1>1, <1>2, Bounds DEF SendData
  <2> QED
    BY <1>1, <1>2, <2>1 DEF SendData, adapter, Counters
<1>3. CASE handleStrategyMessage
  <2>1. signalCh' \in 0..SignalBuf
    BY <1>1, <1>3, Bounds DEF handleStrategyMessage
  <2>2. quiet' \in {0, quiet} /\ stall' \in {0, stall} /\ UNCHANGED <<events, engine>>
    BY <1>3, Zenon DEF handleStrategyMessage
  <2> QED
    BY <1>1, <2>1, <2>2, Bounds DEF Counters
<1>4. CASE dispatchSignal \/ othersSignal
  <2>1. signalCh' \in 0..SignalBuf
    BY <1>1, <1>4, Bounds DEF dispatchSignal, othersSignal
  <2> QED
    BY <1>1, <1>4, <2>1 DEF dispatchSignal, othersSignal, Counters
<1>5. CASE monitorHeartbeat
  <2>1. quiet <= SilentTicks /\ quiet' = quiet + 1 /\ quiet' \in 0..SilentTicks + 1
    BY <1>1, <1>5, Bounds DEF monitorHeartbeat
  <2>2. stall' \in 0..SilentTicks
    BY <1>1, <1>5, Bounds DEF monitorHeartbeat
  <2>3. engine' \in {"watched", "stopping"} => quiet' <= SilentTicks
    BY <1>1, <1>5, <2>1, Bounds DEF monitorHeartbeat, heartbeatTimeout
  <2> QED
    BY <1>1, <1>5, <2>1, <2>2, <2>3 DEF monitorHeartbeat, Counters
<1>6. CASE Stop \/ StopCancels \/ readStrategyMessages
  <2>1. UNCHANGED <<signalCh, quiet, stall, events>> /\ (engine' \in {"watched", "stopping"} => engine = "watched")
    BY <1>6 DEF Stop, StopCancels, readStrategyMessages
  <2> QED
    BY <1>1, <2>1 DEF Counters
<1>7. CASE \/ _reader_loop \/ _worker_loop \/ CallbackReturns \/ CallbackRaises \/ FailureExpires
           \/ run \/ _heartbeat_loop \/ Stutters
  <2>1. UNCHANGED <<signalCh, quiet, stall, events, engine>>
    BY <1>7, Zenon DEF _reader_loop, _worker_loop, CallbackReturns, CallbackRaises, FailureExpires, run,
       _heartbeat_loop, Stutters, adapter
  <2> QED
    BY <1>1, <2>1 DEF Counters
<1>8. ASSUME NEW t \in Threads,
             \/ \E method \in Methods : rpc_call(t, method)
             \/ SendRequest(t) \/ CallReturns(t) \/ CallTimesOut(t)
      PROVE  UNCHANGED <<signalCh, quiet, stall, events, engine>>
  BY <1>8, Zenon DEF rpc_call, SendRequest, CallReturns, CallTimesOut, adapter
<1>9. ASSUME NEW r \in requests, handleRPCRequest(r)
      PROVE  UNCHANGED <<signalCh, quiet, stall, events, engine>>
  BY <1>9, Zenon DEF handleRPCRequest
<1>10. CASE UNCHANGED <<signalCh, quiet, stall, events, engine>>
  BY <1>1, <1>10 DEF Counters
<1> QED
  BY <1>2, <1>3, <1>4, <1>5, <1>6, <1>7, <1>8, <1>9, <1>10, StepKinds, Zenon

-----------------------------------------------------------------------------
(* What each step does to the queues *)

\* The engine's writes reach the process as long as it lives.
LEMMA SentLine ==
  ASSUME stdin \in Seq(Line), NEW l \in Line, SendMessage(l)
  PROVE  /\ stdin' \in Seq(Line)
         /\ \A i \in DOMAIN stdin' : stdin'[i] = l \/ \E k \in DOMAIN stdin : stdin'[i] = stdin[k]
<1> DEFINE T == Line
<1>1. stdin \in Seq(T) /\ l \in T
  OBVIOUS
<1>2. stdin' = stdin \/ stdin' = Append(stdin, l)
  BY Zenon DEF SendMessage
<1> HIDE DEF T
<1> HIDE DEF T
<1>3. \A i \in DOMAIN stdin : \E k \in DOMAIN stdin : stdin[i] = stdin[k]
  OBVIOUS
<1>4. Append(stdin, l) \in Seq(T)
  BY <1>1, Appended
<1>5. \A i \in DOMAIN Append(stdin, l) : Append(stdin, l)[i] = l \/ \E k \in DOMAIN stdin : Append(stdin, l)[i] = stdin[k]
  BY <1>1, PushedHold
<1>6. stdin' \in Seq(T) /\ \A i \in DOMAIN stdin' : stdin'[i] = l \/ \E k \in DOMAIN stdin : stdin'[i] = stdin[k]
  BY <1>1, <1>2, <1>3, <1>4, <1>5, Zenon
<1> QED
  BY <1>6, Zenon DEF T

\* stdin: a line is taken, the process ends, or the engine writes a line that is no answer or
\* is the answer of a goroutine that is done.
AnswerOf(r) == [id |-> r.id, by |-> r.by, version |-> r.version]
DoneAnswer(l) == l.type = "rpc_response" => \E r \in requests : r.pc = "done" /\ l.answer = AnswerOf(r)

LEMMA StdinMoves ==
  ASSUME Queues, requests \subseteq Request, [Next]_vars
  PROVE  /\ stdin' \in Seq(Line)
         /\ \A i \in DOMAIN stdin' : DoneAnswer(stdin'[i]) \/ \E k \in DOMAIN stdin : stdin'[i] = stdin[k]
<1> DEFINE T == Line
           Kept == /\ stdin' \in Seq(Line)
                   /\ \A i \in DOMAIN stdin' : DoneAnswer(stdin'[i]) \/ \E k \in DOMAIN stdin : stdin'[i] = stdin[k]
<1>a. SUFFICES Kept
  BY Zenon
<1>1. stdin \in Seq(T)
  BY DEF Queues
<1>2. CASE stdin' = stdin
  BY <1>1, <1>2
<1>3. CASE _reader_loop
  <2>1. stdin # <<>> /\ stdin' = Tail(stdin)
    BY <1>3, Zenon DEF _reader_loop
  <2> HIDE DEF T
  <2>2. stdin' \in Seq(T) /\ \A i \in DOMAIN stdin' : \E k \in DOMAIN stdin : stdin'[i] = stdin[k]
    BY <1>1, <2>1, Popped, PoppedHold
  <2> QED
    BY <2>2 DEF T
<1>4. ASSUME NEW l \in Line, SendMessage(l), DoneAnswer(l) PROVE Kept
  BY <1>1, <1>4, SentLine
<1>5. CASE SendData \/ Stop
  <2>1. \E ty \in {"kline", "stop"} : SendMessage([type |-> ty])
    BY <1>5, Zenon DEF SendData, Stop
  <2>2. \A ty \in {"kline", "stop"} : [type |-> ty] \in Line /\ DoneAnswer([type |-> ty])
    BY NewLines DEF DoneAnswer
  <2> HIDE DEF Kept
  <2> QED
    BY <1>4, <2>1, <2>2
<1>6. CASE run \/ StopCancels
  <2>1. stdin' = <<>>
    BY <1>6, Zenon DEF run, StopCancels, ProcessEnds
  <2> QED
    BY <2>1
<1>7. ASSUME NEW r \in requests, handleRPCRequest(r) PROVE Kept
  <2>1. CASE stdin' = stdin
    BY <1>2, <2>1
  <2>2. CASE stdin' # stdin
    <3>1. r.pc = "done" /\ SendMessage([type |-> "rpc_response", answer |-> AnswerOf(r)])
      BY <1>7, <2>2, Zenon DEF handleRPCRequest, AnswerOf
    <3>2. AnswerOf(r) \in Answer
      BY Lines DEF AnswerOf, Answer
    <3>3. [type |-> "rpc_response", answer |-> AnswerOf(r)] \in Line
      BY <3>2, NewLines
    <3>4. DoneAnswer([type |-> "rpc_response", answer |-> AnswerOf(r)])
      BY <3>1 DEF DoneAnswer
    <3> HIDE DEF Kept
    <3> QED
      BY <1>4, <3>1, <3>3, <3>4
  <2> QED
    BY <2>1, <2>2
<1>8. ASSUME NEW t \in Threads,
             \/ \E method \in Methods : rpc_call(t, method)
             \/ SendRequest(t) \/ CallReturns(t) \/ CallTimesOut(t)
      PROVE  stdin' = stdin
  BY <1>8, Zenon DEF rpc_call, SendRequest, CallReturns, CallTimesOut
<1>9. ASSUME \/ _worker_loop \/ CallbackReturns \/ CallbackRaises \/ FailureExpires \/ _heartbeat_loop
             \/ handleStrategyMessage \/ dispatchSignal \/ othersSignal \/ monitorHeartbeat \/ readStrategyMessages \/ Stutters
      PROVE  stdin' = stdin
  BY <1>9, Zenon DEF _worker_loop, CallbackReturns, CallbackRaises, FailureExpires, _heartbeat_loop,
     handleStrategyMessage, dispatchSignal, othersSignal, monitorHeartbeat, readStrategyMessages, Stutters
<1> HIDE DEF Kept
<1> QED
  BY <1>2, <1>3, <1>5, <1>6, <1>7, <1>8, <1>9, StepKinds, Zenon

\* _inbound_queue: it holds what was read, and the mark of the end.
LEMMA InboundMoves ==
  ASSUME Queues, [Next]_vars
  PROVE  /\ inbound' \in Seq(Line)
         /\ \A i \in DOMAIN inbound' : \/ inbound'[i].type = "end"
                                       \/ \E k \in DOMAIN stdin : inbound'[i] = stdin[k]
                                       \/ \E k \in DOMAIN inbound : inbound'[i] = inbound[k]
<1> DEFINE T == Line
           From(l) == \/ l.type = "end"
                      \/ \E k \in DOMAIN stdin : l = stdin[k]
                      \/ \E k \in DOMAIN inbound : l = inbound[k]
           Kept == inbound' \in Seq(Line) /\ \A i \in DOMAIN inbound' : From(inbound'[i])
<1>a. SUFFICES Kept
  BY Zenon
<1>1. stdin \in Seq(T) /\ inbound \in Seq(T) /\ \A i \in DOMAIN inbound : From(inbound[i])
  BY DEF Queues
<1>2. CASE inbound' = inbound
  BY <1>1, <1>2
<1>3. CASE _reader_loop
  <2> DEFINE Mark == [type |-> "end"]
             line == IF running THEN <<Head(stdin)>> ELSE <<>>
             mark == IF ~running \/ Head(stdin).type = "stop" THEN <<Mark>> ELSE <<>>
  <2>1. stdin # <<>> /\ inbound' = inbound \o line \o mark
    BY <1>3 DEF _reader_loop
  <2>2. Mark \in T /\ From(Mark)
    BY NewLines
  <2>a. 1 \in DOMAIN stdin
    BY <1>1, <2>1
  <2>3. Head(stdin) \in T /\ From(Head(stdin))
    BY <1>1, <2>1, <2>a, Popped
  <2> HIDE DEF T, From, Mark
  <2>4. line \in Seq(T) /\ \A i \in DOMAIN line : From(line[i])
    BY <2>3
  <2>5. mark \in Seq(T) /\ \A i \in DOMAIN mark : From(mark[i])
    BY <2>2
  <2> HIDE DEF line, mark
  <2>6. ASSUME NEW s \in Seq(T), NEW t \in Seq(T), \A i \in DOMAIN s : From(s[i]), \A i \in DOMAIN t : From(t[i])
        PROVE  s \o t \in Seq(T) /\ \A i \in DOMAIN (s \o t) : From((s \o t)[i])
    BY <2>6, Joined, JoinedHold
  <2>7. inbound \o line \in Seq(T) /\ \A i \in DOMAIN (inbound \o line) : From((inbound \o line)[i])
    BY <1>1, <2>4, <2>6
  <2>8. inbound' \in Seq(T) /\ \A i \in DOMAIN inbound' : From(inbound'[i])
    BY <2>1, <2>5, <2>6, <2>7
  <2> QED
    BY <2>8, Zenon DEF T
<1>4. CASE _worker_loop
  <2>1. inbound # <<>> /\ inbound' = Tail(inbound)
    BY <1>4, Zenon DEF _worker_loop
  <2> HIDE DEF T, From
  <2>2. inbound' \in Seq(T) /\ \A i \in DOMAIN inbound' : \E k \in DOMAIN inbound : inbound'[i] = inbound[k]
    BY <1>1, <2>1, Popped, PoppedHold
  <2> QED
    BY <1>1, <2>2 DEF T
<1>5. CASE run \/ StopCancels
  <2>1. inbound' = <<>>
    BY <1>5, Zenon DEF run, StopCancels, ProcessEnds
  <2> QED
    BY <2>1
<1>6. ASSUME NEW t \in Threads,
             \/ \E method \in Methods : rpc_call(t, method)
             \/ SendRequest(t) \/ CallReturns(t) \/ CallTimesOut(t)
      PROVE  inbound' = inbound
  BY <1>6, Zenon DEF rpc_call, SendRequest, CallReturns, CallTimesOut, python
<1>7. ASSUME NEW r \in requests, handleRPCRequest(r)
      PROVE  inbound' = inbound
  BY <1>7, Zenon DEF handleRPCRequest, python
<1>8. ASSUME \/ CallbackReturns \/ CallbackRaises \/ FailureExpires \/ _heartbeat_loop \/ SendData \/ Stop
             \/ handleStrategyMessage \/ dispatchSignal \/ othersSignal \/ monitorHeartbeat \/ readStrategyMessages \/ Stutters
      PROVE  inbound' = inbound
  BY <1>8, Zenon DEF CallbackReturns, CallbackRaises, FailureExpires, _heartbeat_loop, SendData, Stop,
     handleStrategyMessage, dispatchSignal, othersSignal, monitorHeartbeat, readStrategyMessages, Stutters, python
<1> HIDE DEF Kept
<1> QED
  BY <1>2, <1>3, <1>4, <1>5, <1>6, <1>7, <1>8, StepKinds, Zenon

\* stdout: a line that asks nothing, a question, or the oldest line is read.
Question(t) ==
  [id |-> call[t].id, by |-> t, method |-> call[t].method, version |-> 0, pc |-> "new"]
Prints(l) == l \in Said /\ Len(stdout) < PipeLines /\ stdout' = Append(stdout, l)
Silent == UNCHANGED stdout

LEMMA StdoutMoves ==
  ASSUME Queues, CallTypes, [Next]_vars
  PROVE  \/ Silent
         \/ \E ty \in {"init_ack", "signal", "heartbeat"} : Prints([type |-> ty])
         \/ \E t \in Threads : /\ SendRequest(t)
                               /\ Prints([type |-> "rpc_request", request |-> Question(t)])
         \/ handleStrategyMessage
<1> DEFINE Speaks == \E ty \in {"init_ack", "signal", "heartbeat"} : Prints([type |-> ty])
           Asking == \E t \in Threads : /\ SendRequest(t)
                                        /\ Prints([type |-> "rpc_request", request |-> Question(t)])
<1>a. SUFFICES Silent \/ Speaks \/ Asking \/ handleStrategyMessage
  BY Zenon
<1>1. ASSUME CallbackReturns \/ CallbackRaises \/ _heartbeat_loop PROVE Silent \/ Speaks
  <2>1. \/ Silent
        \/ \E ty \in {"init_ack", "signal", "heartbeat"} : _send_message([type |-> ty])
    BY <1>1, Zenon DEF CallbackReturns, CallbackRaises, _heartbeat_loop, Silent
  <2>2. ASSUME NEW ty \in {"init_ack", "signal", "heartbeat"}, _send_message([type |-> ty]) PROVE Prints([type |-> ty])
    BY <2>2, NewLines DEF _send_message, Prints
  <2> QED
    BY <2>1, <2>2, Zenon
<1>2. ASSUME NEW t \in Threads, SendRequest(t) PROVE Asking
  <2>1. call[t] \in Calls /\ call[t].pc = "registered" /\ _send_message([type |-> "rpc_request", request |-> Question(t)])
    BY <1>2 DEF SendRequest, Question, CallTypes
  <2>2. call[t].id \in Ids /\ call[t].method \in Methods
    BY <2>1 DEF Calls, NoCall
  <2>3. Question(t) \in Request
    BY <1>2, <2>2, Bounds DEF Question, Request
  <2>4. [type |-> "rpc_request", request |-> Question(t)] \in Said
    BY <2>3, NewLines
  <2>5. Prints([type |-> "rpc_request", request |-> Question(t)])
    BY <2>1, <2>4, Zenon DEF Prints, _send_message
  <2> QED
    BY <1>2, <2>5, Zenon
<1>3. ASSUME NEW t \in Threads,
             \/ \E method \in Methods : rpc_call(t, method)
             \/ CallReturns(t) \/ CallTimesOut(t)
      PROVE  Silent
  BY <1>3, Zenon DEF rpc_call, CallReturns, CallTimesOut, Silent
<1>4. ASSUME NEW r \in requests, handleRPCRequest(r)
      PROVE  Silent
  BY <1>4, Zenon DEF handleRPCRequest, Silent
<1>5. ASSUME \/ _reader_loop \/ _worker_loop \/ FailureExpires \/ run \/ SendData \/ Stop \/ StopCancels
             \/ dispatchSignal \/ othersSignal \/ monitorHeartbeat \/ readStrategyMessages \/ Stutters
      PROVE  Silent
  BY <1>5, Zenon DEF _reader_loop, _worker_loop, FailureExpires, run, SendData, Stop, StopCancels,
     dispatchSignal, othersSignal, monitorHeartbeat, readStrategyMessages, Stutters, Silent
<1> HIDE DEF Speaks, Asking
<1> QED
  BY <1>1, <1>2, <1>3, <1>4, <1>5, StepKinds, Zenon

\* A printed line is the new last one, and a read one was the first.
LEMMA PrintedLine ==
  ASSUME Queues, NEW l, Prints(l)
  PROVE  /\ stdout' \in Seq(Said) /\ Len(stdout') <= PipeLines /\ Len(stdout) \in Nat
         /\ DOMAIN stdout = 1..Len(stdout) /\ DOMAIN stdout' = 1..(Len(stdout) + 1)
         /\ stdout'[Len(stdout) + 1] = l
         /\ \A k \in DOMAIN stdout : k \in DOMAIN stdout' /\ stdout'[k] = stdout[k]
         /\ \A k \in DOMAIN stdout' : k = Len(stdout) + 1 \/ k \in DOMAIN stdout
<1> DEFINE T == Said
<1>1. stdout \in Seq(T) /\ l \in T /\ stdout' = Append(stdout, l) /\ Len(stdout) < PipeLines
  BY DEF Queues, Prints
<1> HIDE DEF T
<1>2. /\ stdout' \in Seq(T) /\ Len(stdout') = Len(stdout) + 1
      /\ DOMAIN stdout' = 1..(Len(stdout) + 1) /\ DOMAIN stdout = 1..Len(stdout) /\ Len(stdout) \in Nat
      /\ stdout'[Len(stdout) + 1] = l
      /\ \A i \in 1..Len(stdout) : stdout'[i] = stdout[i]
  BY <1>1, Appended
<1>3. stdout' \in Seq(Said)
  BY <1>2 DEF T
<1> QED
  BY <1>1, <1>2, <1>3, Bounds

LEMMA ReadLine ==
  ASSUME Queues, handleStrategyMessage
  PROVE  /\ stdout # <<>> /\ stdout' \in Seq(Said) /\ Len(stdout') <= PipeLines /\ Len(stdout) \in Nat \ {0}
         /\ DOMAIN stdout = 1..Len(stdout) /\ DOMAIN stdout' = 1..(Len(stdout) - 1)
         /\ 1 \in DOMAIN stdout /\ Head(stdout) = stdout[1] /\ Head(stdout) \in Said
         /\ \A k \in DOMAIN stdout' : k + 1 \in DOMAIN stdout /\ stdout'[k] = stdout[k + 1]
<1> DEFINE T == Said
<1>1. stdout \in Seq(T) /\ stdout # <<>> /\ stdout' = Tail(stdout) /\ Len(stdout) <= PipeLines
  BY DEF Queues, handleStrategyMessage
<1> HIDE DEF T
<1>2. /\ stdout' \in Seq(T) /\ Len(stdout') = Len(stdout) - 1 /\ Len(stdout) \in Nat \ {0}
      /\ DOMAIN stdout = 1..Len(stdout) /\ DOMAIN stdout' = 1..(Len(stdout) - 1)
      /\ Head(stdout) = stdout[1] /\ Head(stdout) \in T
      /\ \A i \in 1..(Len(stdout) - 1) : stdout'[i] = stdout[i + 1]
  BY <1>1, Popped
<1>3. stdout' \in Seq(Said) /\ Head(stdout) \in Said
  BY <1>2 DEF T
<1>4. \A k \in 1..(Len(stdout) - 1) : k + 1 \in 1..Len(stdout)
  BY <1>2
<1>5. 1 \in 1..Len(stdout) /\ Len(stdout') <= PipeLines
  BY <1>1, <1>2, Bounds
<1> QED
  BY <1>1, <1>2, <1>3, <1>4, <1>5

LEMMA QueuesStep ==
  ASSUME Types, [Next]_vars
  PROVE  Queues'
<1>1. Queues /\ CallTypes /\ requests \subseteq Request
  BY DEF Types, CallTypes
<1>2. stdin' \in Seq(Line) /\ inbound' \in Seq(Line)
  BY <1>1, StdinMoves, InboundMoves
<1>3. stdout' \in Seq(Said) /\ Len(stdout') <= PipeLines
  <2>1. ASSUME NEW l, Prints(l) PROVE stdout' \in Seq(Said) /\ Len(stdout') <= PipeLines
    BY <1>1, <2>1, PrintedLine
  <2>2. ASSUME handleStrategyMessage PROVE stdout' \in Seq(Said) /\ Len(stdout') <= PipeLines
    BY <1>1, <2>2, ReadLine
  <2>3. ASSUME Silent PROVE stdout' \in Seq(Said) /\ Len(stdout') <= PipeLines
    BY <1>1, <2>3 DEF Silent, Queues
  <2> QED
    BY <1>1, <2>1, <2>2, <2>3, StdoutMoves, Zenon
<1> QED
  BY <1>2, <1>3 DEF Queues

-----------------------------------------------------------------------------
(* Calls, and the goroutines that serve them *)

Asked(t, method) == [pc |-> "registered", id |-> counter + 1, method |-> method]

LEMMA CallFacts ==
  /\ \A c \in Calls : c.pc # "none" => c.pc \in {"registered", "waiting"} /\ c.id \in Ids /\ c.method \in Methods
  /\ \A c \in Calls : c.pc # "none" => c # NoCall
  /\ NoCall \in Calls /\ NoCall.pc = "none"
  /\ \A c \in Calls : c.pc = "registered" =>
       /\ [c EXCEPT !.pc = "waiting"] \in Calls /\ [c EXCEPT !.pc = "waiting"].pc = "waiting"
       /\ [c EXCEPT !.pc = "waiting"].id = c.id
<1>1. ASSUME NEW c \in Calls, c.pc = "registered"
      PROVE  /\ [c EXCEPT !.pc = "waiting"] \in Calls /\ [c EXCEPT !.pc = "waiting"].pc = "waiting"
             /\ [c EXCEPT !.pc = "waiting"].id = c.id
  <2>1. c \in [pc : {"registered", "waiting"}, id : Ids, method : Methods]
    BY <1>1 DEF Calls, NoCall
  <2>2. [c EXCEPT !.pc = "waiting"] \in [pc : {"registered", "waiting"}, id : Ids, method : Methods]
    BY <2>1
  <2> QED
    BY <2>1, <2>2 DEF Calls
<1>2. \A c \in Calls : c.pc # "none" => c.pc \in {"registered", "waiting"} /\ c.id \in Ids /\ c.method \in Methods
  BY DEF Calls, NoCall
<1>3. \A c \in Calls : c.pc # "none" => c # NoCall
  BY DEF NoCall
<1>4. NoCall \in Calls /\ NoCall.pc = "none"
  BY DEF Calls, NoCall
<1> QED
  BY <1>1, <1>2, <1>3, <1>4

\* A thread's call is as it was, over, sent, or new; and with it what the thread has seen.
NewCall(t) ==
  /\ ~Open(t) /\ counter < MaxCalls /\ counter' = counter + 1
  /\ call'[t].pc = "registered" /\ call'[t].id = counter + 1 /\ seen'[t] = seen[t]
CallSent(t) ==
  /\ SendRequest(t) /\ Registered(t) /\ call'[t].pc = "waiting" /\ call'[t].id = call[t].id /\ seen'[t] = seen[t]
CallOver(t) ==
  /\ call'[t].pc = "none"
  /\ seen'[t] = seen[t] \/ \E a \in Waiting : seen'[t] = a.version
CallKept(t) == call'[t] = call[t] /\ seen'[t] = seen[t]

\* At most one thread begins a call.
LEMMA CallMoves ==
  ASSUME Types, [Next]_vars
  PROVE  /\ call' \in [Threads -> Calls] /\ seen' \in [Threads -> 0..MaxCalls]
         /\ \A t \in Threads : NewCall(t) \/ CallSent(t) \/ CallOver(t) \/ CallKept(t)
         /\ \/ counter' = counter
            \/ \E t \in Threads : NewCall(t) /\ \A u \in Threads \ {t} : CallKept(u)
         /\ counter' \in 0..MaxCalls
<1> DEFINE Fine == /\ call' \in [Threads -> Calls] /\ seen' \in [Threads -> 0..MaxCalls]
                   /\ \A t \in Threads : NewCall(t) \/ CallSent(t) \/ CallOver(t) \/ CallKept(t)
                   /\ \/ counter' = counter
                      \/ \E t \in Threads : NewCall(t) /\ \A u \in Threads \ {t} : CallKept(u)
                   /\ counter' \in 0..MaxCalls
<1>a. SUFFICES Fine
  BY Zenon
<1>1. /\ call \in [Threads -> Calls] /\ seen \in [Threads -> 0..MaxCalls] /\ counter \in 0..MaxCalls
      /\ MaxCalls \in Nat
  BY Bounds DEF Types, CallTypes
<1>2. ASSUME UNCHANGED <<call, seen, counter>> PROVE Fine
  BY <1>1, <1>2 DEF CallKept
<1>3. ASSUME NEW t \in Threads, NEW method \in Methods, rpc_call(t, method) PROVE Fine
  <2>1. /\ call[t] = NoCall /\ counter < MaxCalls /\ counter' = counter + 1 /\ seen' = seen
        /\ call' = [call EXCEPT ![t] = Asked(t, method)]
    BY <1>3 DEF rpc_call, MayAsk, nextId, Asked
  <2>2. counter + 1 \in Ids /\ counter' \in 0..MaxCalls
    BY <1>1, <2>1 DEF Ids
  <2>3. Asked(t, method) \in Calls /\ Asked(t, method).pc = "registered" /\ Asked(t, method).id = counter + 1
    BY <1>3, <2>2 DEF Asked, Calls
  <2>4. call'[t] = Asked(t, method) /\ \A u \in Threads \ {t} : call'[u] = call[u]
    BY <1>1, <2>1
  <2>5. ~Open(t)
    BY <2>1 DEF Open, NoCall
  <2>6. NewCall(t)
    BY <2>1, <2>3, <2>4, <2>5 DEF NewCall
  <2>7. \A u \in Threads \ {t} : CallKept(u)
    BY <2>1, <2>4 DEF CallKept
  <2>8. call' \in [Threads -> Calls]
    BY <1>1, <2>1, <2>3
  <2> QED
    BY <1>1, <2>1, <2>2, <2>6, <2>7, <2>8
<1>4. ASSUME NEW t \in Threads, SendRequest(t) PROVE Fine
  <2>1. call[t].pc = "registered" /\ call' = [call EXCEPT ![t].pc = "waiting"] /\ UNCHANGED <<counter, seen>>
    BY <1>4, Zenon DEF SendRequest
  <2>2. call[t] \in Calls /\ call'[t] = [call[t] EXCEPT !.pc = "waiting"] /\ \A u \in Threads \ {t} : call'[u] = call[u]
    BY <1>1, <1>4, <2>1
  <2>3. call'[t] \in Calls /\ call'[t].pc = "waiting" /\ call'[t].id = call[t].id
    BY <2>1, <2>2, CallFacts
  <2>4. CallSent(t) /\ \A u \in Threads \ {t} : CallKept(u)
    BY <1>4, <2>1, <2>2, <2>3, Zenon DEF CallSent, CallKept, Registered
  <2>5. call' \in [Threads -> Calls]
    BY <1>1, <2>1, <2>2, <2>3
  <2> QED
    BY <1>1, <2>1, <2>4, <2>5
<1>5. ASSUME NEW t \in Threads, CallReturns(t) \/ CallTimesOut(t) PROVE Fine
  <2>1. call' = [call EXCEPT ![t] = NoCall] /\ counter' = counter
    BY <1>5, Zenon DEF CallReturns, CallTimesOut, closeCall
  <2>2. \A u \in Threads \ {t} : seen'[u] = seen[u] /\ call'[u] = call[u]
    BY <1>1, <1>5, <2>1 DEF CallReturns, CallTimesOut
  <2>3. /\ seen' \in [Threads -> 0..MaxCalls]
        /\ seen'[t] = seen[t] \/ \E a \in Waiting : seen'[t] = a.version
    <3>1. CASE CallReturns(t)
      <4> DEFINE i == call[t].id
                 a == Head(pending[call[t].id])
      <4>1. i \in DOMAIN pending /\ pending[i] \in Seq(Answer) /\ pending[i] # <<>> /\ seen' = [seen EXCEPT ![t] = a.version]
        BY <3>1 DEF CallReturns, Answered, Types, CallTypes
      <4>2. a \in Answer /\ 1 \in DOMAIN pending[i] /\ pending[i][1] = a
        BY <4>1
      <4>3. a \in Waiting /\ a.version \in 0..MaxCalls
        BY <4>1, <4>2, Lines DEF Waiting
      <4> HIDE DEF a
      <4> QED
        BY <1>1, <1>5, <4>1, <4>3
    <3>2. CASE CallTimesOut(t)
      BY <1>1, <3>2 DEF CallTimesOut
    <3> QED
      BY <1>5, <3>1, <3>2
  <2>4. call'[t] = NoCall /\ call' \in [Threads -> Calls]
    BY <1>1, <1>5, <2>1, CallFacts
  <2>5. CallOver(t) /\ \A u \in Threads \ {t} : CallKept(u)
    BY <2>2, <2>3, <2>4, CallFacts DEF CallOver, CallKept
  <2> QED
    BY <1>1, <2>1, <2>3, <2>4, <2>5
<1>6. ASSUME run \/ StopCancels PROVE Fine
  <2>1. call' = [t \in Threads |-> NoCall] /\ UNCHANGED <<counter, seen>>
    BY <1>6, Zenon DEF run, StopCancels, ProcessEnds
  <2>2. call' \in [Threads -> Calls] /\ \A t \in Threads : CallOver(t)
    BY <2>1, CallFacts DEF CallOver
  <2> QED
    BY <1>1, <2>1, <2>2
<1>7. ASSUME NEW r \in requests, handleRPCRequest(r) PROVE Fine
  BY <1>2, <1>7, Zenon DEF handleRPCRequest, calls
<1>8. ASSUME \/ _reader_loop \/ _worker_loop \/ CallbackReturns \/ CallbackRaises \/ FailureExpires \/ _heartbeat_loop
             \/ SendData \/ Stop \/ handleStrategyMessage \/ dispatchSignal \/ othersSignal \/ monitorHeartbeat
             \/ readStrategyMessages \/ Stutters
      PROVE  Fine
  <2>1. UNCHANGED <<call, seen, counter>>
    BY <1>8, Zenon DEF _reader_loop, _worker_loop, CallbackReturns, CallbackRaises, FailureExpires,
       _heartbeat_loop, SendData, Stop, handleStrategyMessage, dispatchSignal, othersSignal, monitorHeartbeat,
       readStrategyMessages, Stutters, calls
  <2> QED
    BY <1>2, <2>1, Zenon
<1> HIDE DEF Fine
<1> QED
  BY <1>3, <1>4, <1>5, <1>6, <1>7, <1>8, StepKinds, Zenon

\* A call's queue is empty, as it was, or got an answer to that call which the worker took.
LEMMA PendingMoves ==
  ASSUME Types, [Next]_vars
  PROVE  /\ DOMAIN pending' \subseteq Ids
         /\ \A i \in DOMAIN pending' :
              \/ pending'[i] = <<>>
              \/ i \in DOMAIN pending /\ pending'[i] = pending[i]
              \/ i \in DOMAIN pending /\ \E a \in Answers(inbound) \cap Answer : a.id = i /\ pending'[i] = Append(pending[i], a)
<1> DEFINE Fine == /\ DOMAIN pending' \subseteq Ids
                   /\ \A i \in DOMAIN pending' :
                        \/ pending'[i] = <<>>
                        \/ i \in DOMAIN pending /\ pending'[i] = pending[i]
                        \/ i \in DOMAIN pending /\ \E a \in Answers(inbound) \cap Answer : a.id = i /\ pending'[i] = Append(pending[i], a)
<1>a. SUFFICES Fine
  BY Zenon
<1>1. DOMAIN pending \subseteq Ids /\ counter \in 0..MaxCalls /\ MaxCalls \in Nat
  BY Bounds DEF Types, CallTypes
<1>2. ASSUME pending' = pending PROVE Fine
  BY <1>1, <1>2
<1>3. ASSUME NEW t \in Threads, NEW method \in Methods, rpc_call(t, method) PROVE Fine
  <2>1. pending' = [i \in DOMAIN pending \cup {nextId} |-> IF i = nextId THEN <<>> ELSE pending[i]] /\ counter < MaxCalls
    BY <1>3, Zenon DEF rpc_call
  <2>2. nextId \in Ids
    BY <1>1, <2>1 DEF nextId, Ids
  <2> QED
    BY <1>1, <2>1, <2>2
<1>4. ASSUME NEW t \in Threads, CallReturns(t) \/ CallTimesOut(t) PROVE Fine
  <2>1. pending' = [i \in DOMAIN pending \ {call[t].id} |-> pending[i]]
    BY <1>4, Zenon DEF CallReturns, CallTimesOut, closeCall
  <2> QED
    BY <1>1, <2>1
<1>5. ASSUME run \/ StopCancels PROVE Fine
  <2>1. pending' = <<>>
    BY <1>5, Zenon DEF run, StopCancels, ProcessEnds
  <2> QED
    BY <2>1
<1>6. ASSUME _worker_loop PROVE Fine
  <2>1. CASE pending' = pending
    BY <1>2, <2>1
  <2>2. CASE pending' # pending
    <3> DEFINE msg == Head(inbound)
    <3>1. inbound # <<>> /\ inbound \in Seq(Line)
      BY <1>6 DEF _worker_loop, Types, Queues
    <3>2. msg.type = "rpc_response" /\ _handle_rpc_response(msg.answer)
      BY <1>6, <2>2, Zenon DEF _worker_loop
    <3>3. 1 \in DOMAIN inbound /\ inbound[1] = msg /\ msg \in Line
      BY <3>1
    <3>4. msg.answer \in Answers(inbound) \cap Answer
      BY <3>2, <3>3, Lines DEF Answers
    <3> HIDE DEF msg
    <3>5. /\ msg.answer.id \in DOMAIN pending
          /\ pending' = [pending EXCEPT ![msg.answer.id] = Append(@, msg.answer)]
      BY <2>2, <3>2, Zenon DEF _handle_rpc_response
    <3> QED
      BY <1>1, <3>4, <3>5
  <2> QED
    BY <2>1, <2>2
<1>7. ASSUME NEW t \in Threads, SendRequest(t) PROVE Fine
  BY <1>2, <1>7, Zenon DEF SendRequest
<1>8. ASSUME NEW r \in requests, handleRPCRequest(r) PROVE Fine
  BY <1>2, <1>8, Zenon DEF handleRPCRequest, calls
<1>9. ASSUME \/ _reader_loop \/ CallbackReturns \/ CallbackRaises \/ FailureExpires \/ _heartbeat_loop
             \/ SendData \/ Stop \/ handleStrategyMessage \/ dispatchSignal \/ othersSignal \/ monitorHeartbeat
             \/ readStrategyMessages \/ Stutters
      PROVE  Fine
  <2>1. pending' = pending
    BY <1>9, Zenon DEF _reader_loop, CallbackReturns, CallbackRaises, FailureExpires,
       _heartbeat_loop, SendData, Stop, handleStrategyMessage, dispatchSignal, othersSignal, monitorHeartbeat,
       readStrategyMessages, Stutters, calls
  <2> QED
    BY <1>2, <2>1, Zenon
<1> HIDE DEF Fine
<1> QED
  BY <1>3, <1>4, <1>5, <1>6, <1>7, <1>8, <1>9, StepKinds, Zenon

\* A request comes from the pipe, is served, or its answer is on its way.
Arrives ==
  /\ handleStrategyMessage /\ Head(stdout).type = "rpc_request"
  /\ requests' = requests \cup {Head(stdout).request} /\ memory' = memory /\ UNCHANGED <<call, counter>>
Served(r) == [r EXCEPT !.pc = "done", !.version = memory']
Serving(r) ==
  /\ r.pc = "new" /\ requests' = (requests \ {r}) \cup {Served(r)} /\ memory' \in {memory, memory + 1}
  /\ UNCHANGED <<stdout, call, counter>>
Leaves(r) == r.pc = "done" /\ requests' = requests \ {r} /\ memory' = memory

LEMMA RequestMoves ==
  ASSUME [Next]_vars
  PROVE  \/ UNCHANGED <<requests, memory>>
         \/ Arrives
         \/ \E r \in requests : Serving(r) \/ Leaves(r)
<1>1. ASSUME handleStrategyMessage PROVE UNCHANGED <<requests, memory>> \/ Arrives
  BY <1>1, Zenon DEF handleStrategyMessage, Arrives, calls
<1>2. ASSUME NEW r \in requests, handleRPCRequest(r) PROVE Serving(r) \/ Leaves(r)
  BY <1>2, Zenon DEF handleRPCRequest, Serving, Leaves, execute, Served, calls
<1>3. ASSUME NEW t \in Threads,
             \/ \E method \in Methods : rpc_call(t, method)
             \/ SendRequest(t) \/ CallReturns(t) \/ CallTimesOut(t)
      PROVE  UNCHANGED <<requests, memory>>
  BY <1>3, Zenon DEF rpc_call, SendRequest, CallReturns, CallTimesOut, adapter
<1>4. ASSUME \/ _reader_loop \/ _worker_loop \/ CallbackReturns \/ CallbackRaises \/ FailureExpires \/ run
             \/ _heartbeat_loop \/ SendData \/ Stop \/ StopCancels \/ dispatchSignal \/ othersSignal \/ monitorHeartbeat
             \/ readStrategyMessages \/ Stutters
      PROVE  UNCHANGED <<requests, memory>>
  BY <1>4, Zenon DEF _reader_loop, _worker_loop, CallbackReturns, CallbackRaises, FailureExpires, run,
     _heartbeat_loop, SendData, Stop, StopCancels, dispatchSignal, othersSignal, monitorHeartbeat,
     readStrategyMessages, Stutters, adapter
<1> QED
  BY <1>1, <1>2, <1>3, <1>4, StepKinds, Zenon

-----------------------------------------------------------------------------
(* What is carried *)

LEMMA CarriedTypes ==
  ASSUME Types
  PROVE  /\ Asks \subseteq Request /\ requests \subseteq Request /\ Told \subseteq Answer
         /\ memory \in 0..MaxCalls /\ counter \in 0..MaxCalls /\ MaxCalls \in Nat
<1>1. \A i \in DOMAIN stdout : stdout[i] \in Said
  BY Parts DEF Types, Queues
<1>2. (\A i \in DOMAIN stdin : stdin[i] \in Line) /\ (\A i \in DOMAIN inbound : inbound[i] \in Line)
  BY Parts DEF Types, Queues
<1>3. Asks \subseteq Request
  BY <1>1, Lines DEF Asks
<1>4. Answers(stdin) \subseteq Answer /\ Answers(inbound) \subseteq Answer
  BY <1>2, Lines DEF Answers
<1>5. Waiting \subseteq Answer
  BY DEF Waiting
<1> QED
  BY <1>3, <1>4, <1>5, Bounds DEF Told, Types, CallTypes

\* A question in the pipe was there before, or is sent by the thread that has the call open.
LEMMA AsksMoves ==
  ASSUME Types, [Next]_vars
  PROVE  \A r \in Asks' : r \in Asks \/ \E t \in Threads : SendRequest(t) /\ r = Question(t)
<1> SUFFICES ASSUME NEW k \in DOMAIN stdout', stdout'[k].type = "rpc_request"
             PROVE  stdout'[k].request \in Asks \/ \E t \in Threads : SendRequest(t) /\ stdout'[k].request = Question(t)
  BY DEF Asks
<1>1. Queues /\ CallTypes
  BY DEF Types
<1>a. \A i \in DOMAIN stdout : stdout[i].type = "rpc_request" => stdout[i].request \in Asks
  BY DEF Asks
<1>2. CASE Silent
  BY <1>2, <1>a DEF Silent
<1>3. ASSUME NEW ty \in {"init_ack", "signal", "heartbeat"}, Prints([type |-> ty])
      PROVE  stdout'[k].request \in Asks
  BY <1>1, <1>3, <1>a, PrintedLine
<1>4. ASSUME NEW t \in Threads, SendRequest(t), Prints([type |-> "rpc_request", request |-> Question(t)])
      PROVE  stdout'[k].request \in Asks \/ stdout'[k].request = Question(t)
  BY <1>1, <1>4, <1>a, PrintedLine
<1>5. CASE handleStrategyMessage
  BY <1>1, <1>5, <1>a, ReadLine
<1> QED
  BY <1>1, <1>2, <1>3, <1>4, <1>5, StdoutMoves, Zenon

\* An answer on its way was there before, or a goroutine is done with it.
LEMMA ToldMoves ==
  ASSUME Types, [Next]_vars
  PROVE  \A a \in Told' : a \in Told \/ \E r \in requests : r.pc = "done" /\ a = AnswerOf(r)
<1>1. Queues /\ requests \subseteq Request
  BY DEF Types, CallTypes
<1>2. /\ \A i \in DOMAIN stdin : stdin[i].type = "rpc_response" => stdin[i].answer \in Told
      /\ \A i \in DOMAIN inbound : inbound[i].type = "rpc_response" => inbound[i].answer \in Told
  BY DEF Answers, Told
<1>3. ASSUME NEW a \in Answers(stdin)' PROVE a \in Told \/ \E r \in requests : r.pc = "done" /\ a = AnswerOf(r)
  <2>1. PICK i \in DOMAIN stdin' : stdin'[i].type = "rpc_response" /\ a = stdin'[i].answer
    BY <1>3 DEF Answers
  <2>2. DoneAnswer(stdin'[i]) \/ \E k \in DOMAIN stdin : stdin'[i] = stdin[k]
    BY <1>1, StdinMoves
  <2> QED
    BY <1>2, <2>1, <2>2 DEF DoneAnswer
<1>4. ASSUME NEW a \in Answers(inbound)' PROVE a \in Told
  <2>1. PICK i \in DOMAIN inbound' : inbound'[i].type = "rpc_response" /\ a = inbound'[i].answer
    BY <1>4 DEF Answers
  <2>2. \/ inbound'[i].type = "end"
        \/ \E k \in DOMAIN stdin : inbound'[i] = stdin[k]
        \/ \E k \in DOMAIN inbound : inbound'[i] = inbound[k]
    BY <1>1, InboundMoves
  <2> QED
    BY <1>2, <2>1, <2>2
<1>5. ASSUME NEW a \in Waiting' PROVE a \in Told
  <2>1. PICK i \in DOMAIN pending' : a \in Answer /\ \E k \in DOMAIN pending'[i] : pending'[i][k] = a
    BY <1>5 DEF Waiting
  <2>2. PICK k \in DOMAIN pending'[i] : pending'[i][k] = a
    BY <2>1
  <2>3. CASE pending'[i] = <<>>
    BY <2>2, <2>3
  <2>4. CASE i \in DOMAIN pending /\ pending'[i] = pending[i]
    BY <2>1, <2>2, <2>4 DEF Waiting, Told
  <2>5. ASSUME i \in DOMAIN pending, NEW b \in Answers(inbound) \cap Answer, pending'[i] = Append(pending[i], b)
        PROVE  a \in Told
    <3> DEFINE T == Answer
    <3>1. pending[i] \in Seq(T) /\ b \in T
      BY <2>5 DEF Types, CallTypes
    <3> HIDE DEF T
    <3>2. a = b \/ \E l \in DOMAIN pending[i] : a = pending[i][l]
      BY <2>2, <2>5, <3>1, PushedHold
    <3> QED
      BY <2>1, <2>5, <3>2 DEF Told, Waiting
  <2> QED
    BY <2>3, <2>4, <2>5, PendingMoves
<1> QED
  BY <1>3, <1>4, <1>5 DEF Told

LEMMA ServedFacts ==
  ASSUME NEW r \in Request
  PROVE  /\ Served(r).id = r.id /\ Served(r).by = r.by /\ Served(r).method = r.method
         /\ Served(r).version = memory' /\ Served(r).pc = "done"
         /\ memory' \in 0..MaxCalls => Served(r) \in Request
  BY DEF Served, Request

\* A request with the engine was there before, came from the pipe, or is one now served.
LEMMA RequestsHold ==
  ASSUME Types, [Next]_vars
  PROVE  /\ \A r \in requests' : r \in requests \/ r \in Asks \/ \E q \in requests : q.pc = "new" /\ r = Served(q)
         /\ memory' \in Nat /\ memory <= memory'
<1>1. Queues /\ requests \subseteq Request /\ memory \in Nat
  BY Bounds DEF Types, CallTypes
<1>2. ASSUME Arrives PROVE Head(stdout).request \in Asks
  BY <1>1, <1>2, ReadLine DEF Arrives, Asks
<1>3. \A r \in requests' : r \in requests \/ r \in Asks \/ \E q \in requests : q.pc = "new" /\ r = Served(q)
  <2>1. ASSUME NEW q \in requests, Serving(q), NEW r \in requests'
        PROVE  r \in requests \/ (q.pc = "new" /\ r = Served(q))
    BY <2>1 DEF Serving
  <2>2. ASSUME NEW q \in requests, Leaves(q), NEW r \in requests' PROVE r \in requests
    BY <2>2 DEF Leaves
  <2>3. ASSUME Arrives, NEW r \in requests' PROVE r \in requests \/ r \in Asks
    BY <1>2, <2>3 DEF Arrives
  <2> QED
    BY <2>1, <2>2, <2>3, RequestMoves
<1>4. memory' = memory \/ memory' = memory + 1
  BY RequestMoves DEF Arrives, Serving, Leaves
<1> QED
  BY <1>1, <1>3, <1>4

-----------------------------------------------------------------------------
(* The invariant *)

LEMMA OwnStep ==
  ASSUME Types, Own, Once, [Next]_vars
  PROVE  Own'
<1> DEFINE New(t) == call'[t].id = counter + 1 /\ counter' = counter + 1
           Old(t) == Open(t) /\ call'[t].id = call[t].id
<1>1. /\ Asks \subseteq Request /\ requests \subseteq Request /\ Told \subseteq Answer
      /\ memory \in Nat /\ counter \in Nat /\ memory' \in Nat /\ memory <= memory'
      /\ counter' \in Nat /\ counter <= counter'
  <2>1. counter' = counter \/ counter' = counter + 1
    BY CallMoves DEF NewCall
  <2> QED
    BY <2>1, CarriedTypes, RequestsHold
<1>2. /\ \A t \in Threads : Open(t) => call[t].id \in 1..counter
      /\ \A t, u \in Threads : Open(t) /\ Open(u) /\ call[t].id = call[u].id => t = u
      /\ \A t \in Threads : seen[t] <= memory
      /\ \A r \in Asks \cup requests : r.id <= counter
      /\ \A r \in requests : r.pc = "done" => r.version <= memory
      /\ \A a \in Told : a.id <= counter /\ a.version <= memory
      /\ \A t \in Threads : Open(t) =>
           /\ \A r \in Asks \cup requests : r.id = call[t].id => r.by = t
           /\ \A r \in requests : r.id = call[t].id /\ r.pc = "done" => r.version >= seen[t]
           /\ \A a \in Told : a.id = call[t].id => a.by = t /\ a.version >= seen[t]
  BY DEF Own
<1>3. \A t \in Threads : Open(t)' => (New(t) \/ Old(t)) /\ seen'[t] = seen[t]
  BY CallMoves DEF Open, NewCall, CallSent, CallOver, CallKept, Registered
<1>4. \A t, u \in Threads : (Open(t)' /\ New(t) /\ Open(u)' /\ New(u)) => t = u
  <2>1. ASSUME NEW t \in Threads, Open(t)', New(t), CallKept(t) PROVE FALSE
    BY <1>1, <1>2, <2>1 DEF CallKept, Open
  <2>2. ASSUME counter' = counter, NEW t \in Threads, New(t) PROVE FALSE
    BY <1>1, <2>2
  <2>3. ASSUME NEW v \in Threads, \A u \in Threads \ {v} : CallKept(u), NEW t \in Threads, Open(t)', New(t)
        PROVE  t = v
    BY <2>1, <2>3
  <2> HIDE DEF New
  <2> QED
    BY <2>2, <2>3, CallMoves
<1>5. \A t \in Threads : seen'[t] <= memory /\ seen'[t] \in Nat /\ seen[t] \in Nat
  <2>1. \A t \in Threads : seen'[t] = seen[t] \/ \E a \in Told : seen'[t] = a.version
    BY CallMoves DEF NewCall, CallSent, CallOver, CallKept, Told
  <2>2. \A t \in Threads : seen'[t] \in Nat /\ seen[t] \in Nat
    BY CallMoves, Bounds DEF Types, CallTypes
  <2> QED
    BY <1>2, <2>1, <2>2
<1>6. \A r \in Asks' : r \in Asks \/ \E t \in Threads : SendRequest(t) /\ r = Question(t)
  BY AsksMoves
<1>7. \A t \in Threads : SendRequest(t) => Open(t) /\ Question(t).id = call[t].id /\ Question(t).by = t
  BY DEF SendRequest, Open, Question
<1>8. \A r \in requests : Served(r).id = r.id /\ Served(r).by = r.by /\ Served(r).version = memory' /\ Served(r).pc = "done"
  BY <1>1, ServedFacts
<1>9. \A r \in requests : AnswerOf(r).id = r.id /\ AnswerOf(r).by = r.by /\ AnswerOf(r).version = r.version
  BY DEF AnswerOf
<1>10. /\ \A r \in requests : r.id \in Nat /\ r.version \in Nat
       /\ \A r \in Asks : r.id \in Nat
       /\ \A a \in Told : a.id \in Nat /\ a.version \in Nat
       /\ \A t \in Threads : Open(t) => call[t].id \in Nat
  BY <1>1, <1>2, Lines, Bounds DEF Ids
<1> HIDE DEF Old, New
<1>a. \A t \in Threads : New(t) => call'[t].id = counter + 1 /\ counter' = counter + 1
  BY DEF New
<1>b. \A t \in Threads : Old(t) => Open(t) /\ call'[t].id = call[t].id
  BY DEF Old
<1>11. \A t \in Threads : Open(t)' => call'[t].id \in 1..counter'
  BY <1>1, <1>2, <1>3, <1>a, <1>b
<1>12. \A t, u \in Threads : Open(t)' /\ Open(u)' /\ call'[t].id = call'[u].id => t = u
  <2> SUFFICES ASSUME NEW t \in Threads, NEW u \in Threads, Open(t)', Open(u)', call'[t].id = call'[u].id
               PROVE  t = u
    OBVIOUS
  <2>1. CASE Old(t) /\ Old(u)
    BY <1>2, <1>b, <2>1
  <2>2. CASE New(t) /\ New(u)
    BY <1>4, <2>2
  <2>3. CASE \/ Old(t) /\ New(u)
             \/ New(t) /\ Old(u)
    BY <1>1, <1>2, <1>a, <1>b, <1>10, <2>3
  <2> QED
    BY <1>3, <2>1, <2>2, <2>3
<1>13. \A t \in Threads : seen'[t] <= memory'
  BY <1>1, <1>5
<1>14. \A r \in Asks' : r.id <= counter /\ r.id \in Nat
  BY <1>1, <1>2, <1>6, <1>7, <1>10
<1>15. \A r \in requests' : r.id <= counter /\ r.id \in Nat /\ (r.pc = "done" => r.version <= memory')
  <2> SUFFICES ASSUME NEW r \in requests'
               PROVE  r.id <= counter /\ r.id \in Nat /\ (r.pc = "done" => r.version <= memory')
    OBVIOUS
  <2>1. CASE r \in requests
    BY <1>1, <1>2, <1>10, <2>1
  <2>2. CASE r \in Asks
    <3>1. r.pc = "new"
      BY <2>2 DEF Once
    <3> QED
      BY <1>1, <1>2, <1>10, <2>2, <3>1
  <2>3. ASSUME NEW q \in requests, r = Served(q)
        PROVE  r.id <= counter /\ r.id \in Nat /\ (r.pc = "done" => r.version <= memory')
    BY <1>1, <1>2, <1>8, <1>10, <2>3
  <2> QED
    BY <2>1, <2>2, <2>3, RequestsHold
<1>16. \A a \in Told' : a.id <= counter /\ a.id \in Nat /\ a.version <= memory /\ a.version \in Nat
  <2> SUFFICES ASSUME NEW a \in Told'
               PROVE  a.id <= counter /\ a.id \in Nat /\ a.version <= memory /\ a.version \in Nat
    OBVIOUS
  <2>1. CASE a \in Told
    BY <1>2, <1>10, <2>1, Zenon
  <2>2. ASSUME NEW r \in requests, r.pc = "done", a = AnswerOf(r)
        PROVE  a.id <= counter /\ a.id \in Nat /\ a.version <= memory /\ a.version \in Nat
    BY <1>2, <1>9, <1>10, <2>2
  <2> QED
    BY <2>1, <2>2, ToldMoves
<1>17. ASSUME NEW t \in Threads, Open(t)'
       PROVE  /\ \A r \in Asks' \cup requests' : r.id = call'[t].id => r.by = t
              /\ \A r \in requests' : r.id = call'[t].id /\ r.pc = "done" => r.version >= seen'[t]
              /\ \A a \in Told' : a.id = call'[t].id => a.by = t /\ a.version >= seen'[t]
  <2>1. CASE New(t)
    BY <1>1, <1>14, <1>15, <1>16, <1>a, <2>1
  <2>2. CASE Old(t)
    <3>1. seen'[t] = seen[t] /\ Open(t) /\ call'[t].id = call[t].id
      BY <1>3, <1>17, <1>b, <2>2
    <3>2. ASSUME NEW r \in Asks', r.id = call[t].id PROVE r.by = t
      BY <1>2, <1>6, <1>7, <3>1, <3>2
    <3>3. ASSUME NEW r \in requests', r.id = call[t].id PROVE r.by = t /\ (r.pc = "done" => r.version >= seen[t])
      <4>1. CASE r \in requests
        BY <1>2, <3>1, <3>3, <4>1
      <4>2. CASE r \in Asks
        <5>1. r.by = t
          BY <1>2, <3>1, <3>3, <4>2
        <5>2. r.pc = "new"
          BY <4>2 DEF Once
        <5> QED
          BY <5>1, <5>2
      <4>3. ASSUME NEW q \in requests, r = Served(q) PROVE r.by = t /\ (r.pc = "done" => r.version >= seen[t])
        BY <1>1, <1>2, <1>5, <1>8, <3>1, <3>3, <4>3
      <4> QED
        BY <4>1, <4>2, <4>3, RequestsHold
    <3>4. ASSUME NEW a \in Told', a.id = call[t].id PROVE a.by = t /\ a.version >= seen[t]
      BY <1>2, <1>9, <3>1, <3>4, ToldMoves
    <3> QED
      BY <3>1, <3>2, <3>3, <3>4
  <2> QED
    BY <1>3, <1>17, <2>1, <2>2
<1>18. /\ \A r \in (Asks \cup requests)' : r.id <= counter'
       /\ \A r \in requests' : r.pc = "done" => r.version <= memory'
       /\ \A a \in Told' : a.id <= counter' /\ a.version <= memory'
  <2>1. \A n \in Nat : (n <= counter => n <= counter') /\ (n <= memory => n <= memory')
    BY <1>1
  <2> QED
    BY <1>14, <1>15, <1>16, <2>1
<1> QED
  BY <1>11, <1>12, <1>13, <1>17, <1>18 DEF Own

LEMMA SlotsStep ==
  ASSUME Types, Slots, [Next]_vars
  PROVE  Slots'
<1> SUFFICES ASSUME NEW i \in DOMAIN pending', NEW k \in DOMAIN pending'[i] PROVE pending'[i][k].id = i
  BY DEF Slots
<1>1. CASE pending'[i] = <<>>
  BY <1>1
<1>2. CASE i \in DOMAIN pending /\ pending'[i] = pending[i]
  BY <1>2 DEF Slots
<1>3. ASSUME i \in DOMAIN pending, NEW a \in Answers(inbound) \cap Answer, a.id = i, pending'[i] = Append(pending[i], a)
      PROVE  pending'[i][k].id = i
  <2> DEFINE T == Answer
  <2>1. pending[i] \in Seq(T) /\ a \in T
    BY <1>3 DEF Types, CallTypes
  <2> HIDE DEF T
  <2>2. pending'[i][k] = a \/ \E l \in DOMAIN pending[i] : pending'[i][k] = pending[i][l]
    BY <1>3, <2>1, PushedHold
  <2> QED
    BY <1>3, <2>2 DEF Slots
<1> QED
  BY <1>1, <1>2, <1>3, PendingMoves

\* The questions in the pipe after it took or gave a line.
LEMMA AsksAfter ==
  ASSUME Types, Once, [Next]_vars
  PROVE  /\ \A r \in Asks' : r.pc = "new"
         /\ \A k, l \in DOMAIN stdout' : AsksAt(k)' /\ AsksAt(l)' /\ stdout'[k].request.id = stdout'[l].request.id => k = l
         /\ Arrives => \A r \in Asks' : r \in Asks /\ r.id # Head(stdout).request.id
<1>1. Queues /\ CallTypes
  BY DEF Types
<1>2. \A r \in Asks' : r.pc = "new"
  BY AsksMoves DEF Once, Question
<1>a. \A k \in DOMAIN stdout : AsksAt(k) => stdout[k].request \in Asks
  BY DEF AsksAt, Asks
<1>b. \A k, l \in DOMAIN stdout : AsksAt(k) /\ AsksAt(l) /\ stdout[k].request.id = stdout[l].request.id => k = l
  BY DEF Once
<1>3. \A k, l \in DOMAIN stdout' : AsksAt(k)' /\ AsksAt(l)' /\ stdout'[k].request.id = stdout'[l].request.id => k = l
  <2> SUFFICES ASSUME NEW k \in DOMAIN stdout', NEW l \in DOMAIN stdout', AsksAt(k)', AsksAt(l)',
                      stdout'[k].request.id = stdout'[l].request.id
               PROVE  k = l
    OBVIOUS
  <2>1. CASE Silent
    BY <1>b, <2>1 DEF Silent, AsksAt
  <2>2. ASSUME NEW ty \in {"init_ack", "signal", "heartbeat"}, Prints([type |-> ty]) PROVE k = l
    <3>1. k \in DOMAIN stdout /\ l \in DOMAIN stdout
      BY <1>1, <2>2, PrintedLine DEF AsksAt
    <3> QED
      BY <1>1, <1>b, <2>2, <3>1, PrintedLine DEF AsksAt
  <2>3. ASSUME NEW t \in Threads, SendRequest(t), Prints([type |-> "rpc_request", request |-> Question(t)]) PROVE k = l
    <3>1. \A m \in DOMAIN stdout : AsksAt(m) => stdout[m].request.id # Question(t).id
      BY <1>a, <2>3 DEF Once, SendRequest, Registered, Question
    <3>2. CASE k \in DOMAIN stdout /\ l \in DOMAIN stdout
      BY <1>1, <1>b, <2>3, <3>2, PrintedLine DEF AsksAt
    <3>3. CASE k \notin DOMAIN stdout /\ l \notin DOMAIN stdout
      BY <1>1, <2>3, <3>3, PrintedLine
    <3>4. ASSUME NEW m \in DOMAIN stdout, AsksAt(m)' PROVE AsksAt(m) /\ stdout'[m].request.id # Question(t).id
      BY <1>1, <2>3, <3>1, <3>4, PrintedLine DEF AsksAt
    <3>5. ASSUME NEW m \in DOMAIN stdout', m \notin DOMAIN stdout PROVE stdout'[m].request.id = Question(t).id
      BY <1>1, <2>3, <3>5, PrintedLine
    <3> QED
      BY <3>2, <3>3, <3>4, <3>5
  <2>4. CASE handleStrategyMessage
    <3>1. /\ k + 1 \in DOMAIN stdout /\ stdout'[k] = stdout[k + 1]
          /\ l + 1 \in DOMAIN stdout /\ stdout'[l] = stdout[l + 1] /\ k \in Nat /\ l \in Nat
      BY <1>1, <2>4, ReadLine
    <3>2. k + 1 = l + 1
      BY <1>b, <3>1 DEF AsksAt
    <3> QED
      BY <3>1, <3>2
  <2> QED
    BY <1>1, <2>1, <2>2, <2>3, <2>4, StdoutMoves, Zenon
<1>4. ASSUME Arrives, NEW r \in Asks' PROVE r \in Asks /\ r.id # Head(stdout).request.id
  <2>1. handleStrategyMessage /\ Head(stdout) = stdout[1] /\ AsksAt(1) /\ 1 \in DOMAIN stdout
    BY <1>1, <1>4, ReadLine DEF Arrives, AsksAt
  <2>2. PICK k \in DOMAIN stdout' : AsksAt(k)' /\ r = stdout'[k].request
    BY <1>4 DEF Asks, AsksAt
  <2>3. k + 1 \in DOMAIN stdout /\ stdout'[k] = stdout[k + 1] /\ k + 1 # 1
    BY <1>1, <2>1, ReadLine
  <2> QED
    BY <1>a, <1>b, <2>1, <2>2, <2>3 DEF AsksAt
<1> QED
  BY <1>2, <1>3, <1>4

LEMMA SentCall ==
  ASSUME Types, NEW t \in Threads, SendRequest(t)
  PROVE  call'[t].pc = "waiting" /\ Registered(t) /\ Question(t).id = call[t].id
<1>1. call[t] \in Calls /\ call[t].pc = "registered" /\ call'[t] = [call[t] EXCEPT !.pc = "waiting"]
  BY DEF Types, CallTypes, SendRequest
<1> QED
  BY <1>1, CallFacts DEF Registered, Question

\* Who is about to send a question had it registered before, or takes a new number.
LEMMA RegisteredMoves ==
  ASSUME Types, [Next]_vars, NEW t \in Threads, Registered(t)'
  PROVE  /\ ~SendRequest(t)
         /\ \/ call'[t].id = counter + 1 /\ counter' = counter + 1
            \/ call'[t].id = call[t].id /\ Registered(t)
  BY CallMoves, SentCall DEF NewCall, CallSent, CallOver, CallKept, Registered

LEMMA OnceStep ==
  ASSUME Types, Own, Once, [Next]_vars
  PROVE  Once'
<1>1. /\ Asks \subseteq Request /\ requests \subseteq Request /\ counter \in Nat
      /\ \A r \in Asks \cup requests : r.id <= counter /\ r.id \in Nat
      /\ \A t, u \in Threads : Open(t) /\ Open(u) /\ call[t].id = call[u].id => t = u
  BY CarriedTypes, Lines DEF Own, Ids
<1>2. /\ \A r, q \in requests : r.id = q.id => r = q
      /\ \A r \in Asks, q \in requests : r.id # q.id
      /\ \A t \in Threads : Registered(t) => \A r \in Asks \cup requests : r.id # call[t].id
  BY DEF Once
<1>3. \A r \in Asks' : r \in Asks \/ \E t \in Threads : SendRequest(t) /\ Registered(t) /\ r.id = call[t].id
  BY AsksMoves, SentCall
<1>4. \A t \in Threads : Registered(t)' => /\ ~SendRequest(t)
                                           /\ \/ call'[t].id = counter + 1
                                              \/ call'[t].id = call[t].id /\ Registered(t)
  BY RegisteredMoves
<1>5. \A t \in Threads : Registered(t) => Open(t)
  BY DEF Registered, Open
<1> DEFINE Fine == /\ \A r, q \in requests' : r.id = q.id => r = q
                   /\ \A r \in Asks', q \in requests' : r.id # q.id
                   /\ \A t \in Threads : Registered(t)' => \A r \in Asks' \cup requests' : r.id # call'[t].id
<1>6. ASSUME requests' \subseteq requests PROVE Fine
  <2>1. \A r, q \in requests' : r.id = q.id => r = q
    BY <1>2, <1>6
  <2>2. \A r \in Asks', q \in requests' : r.id # q.id
    BY <1>2, <1>3, <1>6
  <2>3. ASSUME NEW t \in Threads, Registered(t)', NEW r \in Asks' \cup requests', r.id = call'[t].id PROVE FALSE
    <3>1. r \in Asks \cup requests \/ \E u \in Threads : SendRequest(u) /\ Registered(u) /\ r.id = call[u].id
      BY <1>3, <1>6, <2>3
    <3>2. CASE r \in Asks \cup requests
      BY <1>1, <1>2, <1>4, <2>3, <3>2
    <3>3. ASSUME NEW u \in Threads, SendRequest(u), Registered(u), r.id = call[u].id PROVE FALSE
      <4>1. call[u].id <= counter /\ call[u].id \in Nat
        BY <1>1, <1>5, <3>3 DEF Own
      <4>2. call'[t].id = call[t].id /\ Registered(t) /\ ~SendRequest(t)
        <5>1. call'[t].id # counter + 1
          BY <1>1, <2>3, <3>3, <4>1
        <5> QED
          BY <1>4, <2>3, <5>1
      <4> QED
        BY <1>1, <1>5, <2>3, <3>3, <4>2
    <3> QED
      BY <3>1, <3>2, <3>3
  <2> QED
    BY <2>1, <2>2, <2>3
<1>7. ASSUME Arrives PROVE Fine
  <2>1. /\ requests' = requests \cup {Head(stdout).request} /\ call' = call
        /\ \A r \in Asks' : r \in Asks /\ r.id # Head(stdout).request.id
    BY <1>7, AsksAfter DEF Arrives
  <2>2. Head(stdout).request \in Asks
    BY <1>7, ReadLine DEF Types, Arrives, Asks
  <2>3. \A t \in Threads : Registered(t)' => Registered(t)
    BY <2>1 DEF Registered
  <2> QED
    BY <1>2, <2>1, <2>2, <2>3
<1>8. ASSUME NEW r \in requests, Serving(r) PROVE Fine
  <2>1. requests' = (requests \ {r}) \cup {Served(r)} /\ call' = call /\ Asks' = Asks /\ Served(r).id = r.id
    BY <1>1, <1>8, ServedFacts DEF Serving, Asks
  <2>2. \A t \in Threads : Registered(t)' => Registered(t)
    BY <2>1 DEF Registered
  <2> QED
    BY <1>2, <2>1, <2>2
<1>9. ASSUME NEW r \in requests, Leaves(r) PROVE Fine
  BY <1>6, <1>9 DEF Leaves
<1>10. Fine
  <2> HIDE DEF Fine
  <2>1. ASSUME requests' = requests PROVE Fine
    BY <1>6, <2>1
  <2> QED
    BY <1>7, <1>8, <1>9, <2>1, RequestMoves, Zenon
<1> QED
  BY <1>10, AsksAfter DEF Once

LEMMA NumbersFinite ==
  IsFiniteSet(1..MaxCalls) /\ Unserved \subseteq 1..MaxCalls /\ Unserved' \subseteq 1..MaxCalls
<1>1. 1 \in Int /\ MaxCalls \in Int
  BY Bounds
<1>2. IsFiniteSet(1..MaxCalls)
  BY <1>1, FS_Interval, Zenon
<1> QED
  BY <1>2 DEF Unserved

LEMMA WrittenStep ==
  ASSUME Types, Own, Once, Written, [Next]_vars
  PROVE  Written'
<1>1. /\ memory \in Nat /\ counter \in Nat /\ memory' \in Nat /\ counter' \in Nat /\ MaxCalls \in Nat
      /\ requests \subseteq Request
  BY CarriedTypes, CallMoves, RequestsHold
<1>2. IsFiniteSet(1..MaxCalls) /\ Unserved \subseteq 1..MaxCalls /\ Unserved' \subseteq 1..MaxCalls
  BY NumbersFinite
<1>3. IsFiniteSet(Unserved) /\ IsFiniteSet(Unserved') /\ Cardinality(Unserved) \in Nat /\ Cardinality(Unserved') \in Nat
  BY <1>2, FS_Subset, FS_CardinalityType
<1>4. memory + Cardinality(Unserved) <= counter
  BY DEF Written
<1>5. \A S, T : S \subseteq T /\ IsFiniteSet(T) => Cardinality(S) <= Cardinality(T)
  BY FS_Subset
<1>6. \A i \in Unserved' : \/ \E t \in Threads : Registered(t)' /\ call'[t].id = i
                           \/ \E r \in Asks' : r.id = i
                           \/ \E r \in requests' : r.id = i /\ r.pc = "new"
  BY DEF Unserved
<1>7. /\ \A t \in Threads : Registered(t) /\ call[t].id \in 1..MaxCalls => call[t].id \in Unserved
      /\ \A r \in Asks : r.id \in 1..MaxCalls => r.id \in Unserved
      /\ \A r \in requests : r.id \in 1..MaxCalls /\ r.pc = "new" => r.id \in Unserved
  BY DEF Unserved
<1>8. ASSUME requests' \subseteq requests, memory' = memory PROVE Written'
  <2>1. \A i \in Unserved' : i \in Unserved \/ (i = counter + 1 /\ counter' = counter + 1)
    <3>1. ASSUME NEW i \in Unserved', NEW t \in Threads, Registered(t)', call'[t].id = i
          PROVE  i \in Unserved \/ (i = counter + 1 /\ counter' = counter + 1)
      BY <1>2, <1>7, <3>1, RegisteredMoves
    <3>2. ASSUME NEW i \in Unserved', NEW r \in Asks', r.id = i PROVE i \in Unserved
      <4>1. r \in Asks \/ \E t \in Threads : Registered(t) /\ r.id = call[t].id
        BY AsksMoves, SentCall
      <4> QED
        BY <1>2, <1>7, <3>2, <4>1
    <3>3. ASSUME NEW i \in Unserved', NEW r \in requests', r.id = i, r.pc = "new" PROVE i \in Unserved
      BY <1>2, <1>7, <1>8, <3>3
    <3> QED
      BY <1>6, <3>1, <3>2, <3>3
  <2>2. CASE counter' = counter
    <3>1. Unserved' \subseteq Unserved
      BY <1>1, <2>1, <2>2
    <3>2. Cardinality(Unserved') <= Cardinality(Unserved)
      BY <1>3, <1>5, <3>1
    <3> QED
      BY <1>1, <1>3, <1>4, <1>8, <2>2, <3>2 DEF Written
  <2>3. CASE counter' = counter + 1
    <3> DEFINE More == Unserved \cup {counter + 1}
    <3>1. Unserved' \subseteq More
      BY <2>1
    <3>2. IsFiniteSet(More) /\ Cardinality(More) <= Cardinality(Unserved) + 1 /\ Cardinality(More) \in Nat
      <4>1. IsFiniteSet(More) /\ Cardinality(More) \in {Cardinality(Unserved), Cardinality(Unserved) + 1}
        BY <1>3, FS_AddElement, Zenon
      <4> HIDE DEF More
      <4> QED
        BY <1>3, <4>1
    <3>3. Cardinality(Unserved') <= Cardinality(More)
      BY <1>5, <3>1, <3>2
    <3> HIDE DEF More
    <3> QED
      BY <1>1, <1>3, <1>4, <1>8, <2>3, <3>2, <3>3 DEF Written
  <2> QED
    BY <2>2, <2>3, CallMoves DEF NewCall
<1>9. ASSUME Arrives PROVE Written'
  <2>1. /\ requests' = requests \cup {Head(stdout).request} /\ UNCHANGED <<call, counter, memory>>
        /\ \A r \in Asks' : r \in Asks
    BY <1>9, AsksAfter DEF Arrives
  <2>2. Head(stdout).request \in Asks
    BY <1>9, ReadLine DEF Types, Arrives, Asks
  <2>3. \A t \in Threads : Registered(t)' => Registered(t)
    BY <2>1 DEF Registered
  <2>4. Unserved' \subseteq Unserved
    BY <1>2, <1>6, <1>7, <2>1, <2>2, <2>3
  <2>5. Cardinality(Unserved') <= Cardinality(Unserved)
    BY <1>3, <1>5, <2>4
  <2> QED
    BY <1>1, <1>3, <1>4, <2>1, <2>5 DEF Written
<1>10. ASSUME NEW r \in requests, Serving(r) PROVE Written'
  <2>1. /\ requests' = (requests \ {r}) \cup {Served(r)} /\ UNCHANGED <<call, counter>> /\ Asks' = Asks
        /\ Served(r).pc = "done" /\ r.pc = "new" /\ memory' \in {memory, memory + 1}
    BY <1>1, <1>10, ServedFacts DEF Serving, Asks
  <2>2. \A t \in Threads : Registered(t)' => Registered(t) /\ call[t].id # r.id
    BY <2>1 DEF Registered, Once
  <2>3. (\A q \in Asks : q.id # r.id) /\ (\A q \in requests \ {r} : q.id # r.id)
    BY DEF Once
  <2>4. r.id \in Unserved
    BY <1>1, <1>7, <2>1, Lines DEF Ids
  <2>5. Unserved' \subseteq Unserved \ {r.id}
    BY <1>2, <1>6, <1>7, <2>1, <2>2, <2>3
  <2>6. Cardinality(Unserved \ {r.id}) = Cardinality(Unserved) - 1 /\ IsFiniteSet(Unserved \ {r.id})
    BY <1>3, <2>4, FS_RemoveElement
  <2>7. Cardinality(Unserved') <= Cardinality(Unserved) - 1
    BY <1>5, <2>5, <2>6
  <2> QED
    BY <1>1, <1>3, <1>4, <2>1, <2>7 DEF Written
<1>11. ASSUME NEW r \in requests, Leaves(r) PROVE Written'
  BY <1>8, <1>11 DEF Leaves
<1>12. ASSUME UNCHANGED <<requests, memory>> PROVE Written'
  BY <1>8, <1>12
<1> QED
  BY <1>9, <1>10, <1>11, <1>12, RequestMoves, Zenon

LEMMA CallTypesStep ==
  ASSUME Types, Own, Once, Written, [Next]_vars
  PROVE  CallTypes'
<1>1. call' \in [Threads -> Calls] /\ seen' \in [Threads -> 0..MaxCalls] /\ counter' \in 0..MaxCalls /\ MaxCalls \in Nat
  BY CallMoves, CarriedTypes
<1>2. memory' \in 0..MaxCalls
  <2>1. memory' \in Nat /\ IsFiniteSet(1..MaxCalls) /\ Unserved' \subseteq 1..MaxCalls
    BY RequestsHold, NumbersFinite
  <2>2. Cardinality(Unserved') \in Nat
    BY <2>1, FS_Subset, FS_CardinalityType
  <2>3. memory' + Cardinality(Unserved') <= counter'
    BY WrittenStep DEF Written
  <2> QED
    BY <1>1, <2>1, <2>2, <2>3
<1>3. requests' \subseteq Request
  BY <1>2, RequestsHold, CarriedTypes, ServedFacts
<1>4. DOMAIN pending' \subseteq Ids
  BY PendingMoves
<1>5. ASSUME NEW i \in DOMAIN pending' PROVE pending'[i] \in Seq(Answer)
  <2>1. CASE pending'[i] = <<>>
    BY <2>1
  <2>2. CASE i \in DOMAIN pending /\ pending'[i] = pending[i]
    BY <2>2 DEF Types, CallTypes
  <2>3. ASSUME i \in DOMAIN pending, NEW a \in Answers(inbound) \cap Answer, pending'[i] = Append(pending[i], a)
        PROVE  pending'[i] \in Seq(Answer)
    <3> DEFINE T == Answer
    <3>1. pending[i] \in Seq(T) /\ a \in T
      BY <2>3 DEF Types, CallTypes
    <3> HIDE DEF T
    <3>2. pending'[i] \in Seq(T)
      BY <2>3, <3>1, Appended
    <3> QED
      BY <3>2 DEF T
  <2> QED
    BY <2>1, <2>2, <2>3, PendingMoves
<1> QED
  BY <1>1, <1>2, <1>3, <1>4, <1>5 DEF CallTypes

\* What the monitor, the heartbeat thread and the rest do to a process that runs on.
LEMMA BeatMoves ==
  ASSUME Control, [Next]_vars
  PROVE  /\ running' => running
         /\ \/ monitorHeartbeat \/ handleStrategyMessage \/ _heartbeat_loop
            \/ /\ UNCHANGED <<quiet, stall, beat>>
               /\ engine' \in {engine, "stopping", "cancelled", "exited"}
<1> DEFINE Rest == /\ UNCHANGED <<quiet, stall, beat>>
                   /\ engine' \in {engine, "stopping", "cancelled", "exited"}
<1>1. ASSUME CallbackReturns \/ CallbackRaises PROVE running /\ Rest
  <2>1. worker \in Callback
    BY <1>1, Zenon DEF CallbackReturns, CallbackRaises
  <2>2. Rest
    BY <1>1, Zenon DEF CallbackReturns, CallbackRaises, adapter
  <2> QED
    BY <2>1, <2>2 DEF Control
<1>2. ASSUME NEW t \in Threads,
             \/ \E method \in Methods : rpc_call(t, method)
             \/ SendRequest(t) \/ CallReturns(t) \/ CallTimesOut(t)
      PROVE  running' = running /\ Rest
  BY <1>2, Zenon DEF rpc_call, SendRequest, CallReturns, CallTimesOut, python, adapter
<1>3. ASSUME NEW r \in requests, handleRPCRequest(r) PROVE running' = running /\ Rest
  BY <1>3, Zenon DEF handleRPCRequest, python
<1>4. ASSUME \/ _reader_loop \/ _worker_loop \/ FailureExpires \/ SendData \/ dispatchSignal \/ othersSignal
             \/ Stop \/ readStrategyMessages \/ Stutters
      PROVE  running' = running /\ Rest
  BY <1>4, Zenon DEF _reader_loop, _worker_loop, FailureExpires, SendData, dispatchSignal, othersSignal, Stop,
     readStrategyMessages, Stutters, python, adapter
<1>5. ASSUME run \/ StopCancels PROVE running' = FALSE /\ Rest
  BY <1>5, Zenon DEF run, StopCancels, ProcessEnds, adapter
<1>6. ASSUME monitorHeartbeat \/ handleStrategyMessage \/ _heartbeat_loop PROVE running' = running
  BY <1>6, Zenon DEF monitorHeartbeat, handleStrategyMessage, _heartbeat_loop, python
<1> HIDE DEF Rest
<1>7. \/ monitorHeartbeat \/ handleStrategyMessage \/ _heartbeat_loop
      \/ Rest
  BY <1>1, <1>2, <1>3, <1>4, <1>5, StepKinds, Zenon
<1>8. running' => running
  BY <1>1, <1>2, <1>3, <1>4, <1>5, <1>6, StepKinds, Zenon
<1> QED
  BY <1>7, <1>8 DEF Rest

LEMMA HeardStep ==
  ASSUME Types, Heard, [Next]_vars
  PROVE  Heard'
<1> SUFFICES ASSUME running'
             PROVE  /\ beat' => quiet' = 0 \/ Beating'
                    /\ quiet' <= stall' + 1
  BY DEF Heard
<1>1. Queues /\ CallTypes /\ Control /\ quiet \in Nat /\ stall \in Nat /\ quiet <= SilentTicks + 1
  BY Bounds DEF Types, Counters
<1>2. running /\ (beat => quiet = 0 \/ Beating) /\ quiet <= stall + 1 /\ alive
  BY <1>1, BeatMoves DEF Heard, Control
<1>3. Beating /\ ~handleStrategyMessage => Beating'
  <2> SUFFICES ASSUME NEW k \in DOMAIN stdout, stdout[k].type = "heartbeat", ~handleStrategyMessage PROVE Beating'
    BY DEF Beating
  <2>1. ASSUME Silent PROVE Beating'
    BY <2>1 DEF Silent, Beating
  <2>2. ASSUME NEW l, Prints(l) PROVE Beating'
    BY <1>1, <2>2, PrintedLine DEF Beating
  <2> QED
    BY <1>1, <2>1, <2>2, StdoutMoves, Zenon
<1>4. CASE monitorHeartbeat
  <2>1. /\ beat' = FALSE /\ quiet' = quiet + 1 /\ quiet <= SilentTicks
        /\ stall' = IF stdout = <<>> THEN 0 ELSE IF stall < SilentTicks THEN stall + 1 ELSE stall
    BY <1>4 DEF monitorHeartbeat, Types, Counters
  <2>2. CASE stdout = <<>>
    <3>1. beat
      BY <1>1, <1>2, <1>4, <2>2, Bounds DEF monitorHeartbeat
    <3>2. ~Beating
      BY <2>2 DEF Beating
    <3> QED
      BY <1>1, <1>2, <2>1, <2>2, <3>1, <3>2, Bounds
  <2>3. CASE stdout # <<>>
    BY <1>1, <1>2, <2>1, <2>3, Bounds
  <2> QED
    BY <2>2, <2>3
<1>5. CASE handleStrategyMessage
  <2>1. /\ stall' = (IF Len(stdout) = 1 /\ beat THEN 0 ELSE stall) /\ UNCHANGED <<engine, beat>>
        /\ \/ Head(stdout).type = "heartbeat" /\ quiet' = 0
           \/ Head(stdout).type # "heartbeat" /\ quiet' = quiet
    BY <1>5 DEF handleStrategyMessage, python
  <2>2. Head(stdout).type # "heartbeat" /\ Beating => Beating'
    <3> SUFFICES ASSUME NEW k \in DOMAIN stdout, stdout[k].type = "heartbeat", Head(stdout).type # "heartbeat"
                 PROVE  Beating'
      BY DEF Beating
    <3>1. k # 1 /\ k \in 1..Len(stdout) /\ Len(stdout) \in Nat /\ DOMAIN stdout' = 1..(Len(stdout) - 1)
      BY <1>1, <1>5, ReadLine
    <3>2. k - 1 \in 1..(Len(stdout) - 1) /\ (k - 1) + 1 = k
      BY <3>1
    <3>3. k - 1 \in DOMAIN stdout' /\ stdout'[k - 1] = stdout[(k - 1) + 1]
      BY <1>1, <1>5, <3>1, <3>2, ReadLine
    <3> QED
      BY <3>2, <3>3 DEF Beating
  <2>3. Beating' => Len(stdout) # 1
    BY <1>1, <1>5, ReadLine DEF Beating
  <2> QED
    BY <1>1, <1>2, <2>1, <2>2, <2>3
<1>6. CASE _heartbeat_loop
  <2>1. _send_message([type |-> "heartbeat"]) /\ UNCHANGED <<quiet, stall, engine>>
    BY <1>6, Zenon DEF _heartbeat_loop, adapter
  <2>2. Prints([type |-> "heartbeat"])
    BY <2>1, NewLines DEF _send_message, Prints
  <2>3. Len(stdout) + 1 \in DOMAIN stdout' /\ stdout'[Len(stdout) + 1] = [type |-> "heartbeat"]
    BY <1>1, <2>2, PrintedLine
  <2>4. Beating'
    BY <2>3 DEF Beating
  <2> QED
    BY <1>2, <2>1, <2>4
<1>7. CASE ~(monitorHeartbeat \/ handleStrategyMessage \/ _heartbeat_loop)
  <2>1. UNCHANGED <<quiet, stall, beat>> /\ engine' \in {engine, "stopping", "cancelled", "exited"}
    BY <1>1, <1>7, BeatMoves, Zenon
  <2> QED
    BY <1>2, <1>3, <1>7, <2>1
<1> QED
  BY <1>4, <1>5, <1>6, <1>7

-----------------------------------------------------------------------------
(* Theorems *)

LEMMA Inductive ==
  ASSUME IInv, [Next]_vars
  PROVE  IInv'
<1>1. Types /\ Own /\ Slots /\ Once /\ Written /\ Heard
  BY Zenon DEF IInv
<1>2. Types'
  BY <1>1, ControlStep, QueuesStep, CallTypesStep, CountersStep, Zenon DEF Types
<1>3. Own' /\ Slots' /\ Once' /\ Written' /\ Heard'
  BY <1>1, OwnStep, SlotsStep, OnceStep, WrittenStep, HeardStep, Zenon
<1> QED
  BY <1>2, <1>3, Zenon DEF IInv

LEMMA Initially ==
  ASSUME Init
  PROVE  IInv
<1>1. /\ running = TRUE /\ alive = TRUE /\ reader = TRUE /\ worker = "idle" /\ errors = 0 /\ inbound = <<>>
      /\ beat = FALSE /\ counter = 0 /\ pending = <<>> /\ call = [t \in Threads |-> NoCall]
      /\ seen = [t \in Threads |-> 0] /\ stdin = <<[type |-> "init"]>> /\ stdout = <<>> /\ requests = {}
      /\ memory = 0 /\ signalCh = 0 /\ quiet = 0 /\ stall = 0 /\ engine = "watched" /\ events = 0
  BY Zenon DEF Init
<1>2. Control /\ Counters
  <2>1. /\ running \in BOOLEAN /\ alive \in BOOLEAN /\ reader \in BOOLEAN /\ beat \in BOOLEAN
        /\ ~alive => worker = "ended" /\ ~running
    BY <1>1, Zenon
  <2>2. errors \in 0..CrashLimit /\ errors < CrashLimit
    BY <1>1, Bounds
  <2>3. Counters
    BY <1>1, Bounds DEF Counters
  <2>4. worker \in {"idle", "ended"} \cup Callback /\ worker \notin Callback /\ engine \in EngineSide
    BY <1>1 DEF Callback, EngineSide
  <2> QED
    BY <2>1, <2>2, <2>3, <2>4 DEF Control
<1>3. Queues
  <2> DEFINE T == Line
  <2>1. [type |-> "init"] \in T
    BY NewLines
  <2>2. stdin \in Seq(T)
    <3> HIDE DEF T
    <3> QED
      BY <1>1, <2>1
  <2>3. inbound \in Seq(Line) /\ stdout \in Seq(Said) /\ Len(stdout) <= PipeLines
    BY <1>1, Bounds
  <2> QED
    BY <2>2, <2>3 DEF Queues
<1>4. CallTypes
  BY <1>1, Bounds, CallFacts DEF CallTypes
<1>5. Asks = {} /\ Waiting = {} /\ Answers(inbound) = {} /\ Answers(stdin) = {}
  <2>1. Asks = {} /\ Waiting = {} /\ Answers(inbound) = {}
    BY <1>1 DEF Asks, Waiting, Answers
  <2>2. Answers(stdin) = {}
    BY <1>1 DEF Answers
  <2> QED
    BY <2>1, <2>2
<1>6. Told = {} /\ requests = {}
  BY <1>1, <1>5 DEF Told
<1>7. \A t \in Threads : ~Open(t) /\ ~Registered(t)
  BY <1>1, CallFacts DEF Open, Registered
<1>8. Own
  <2>1. \A t \in Threads : seen[t] <= memory
    BY <1>1
  <2> QED
    BY <1>5, <1>6, <1>7, <2>1 DEF Own
<1>9. Slots
  BY <1>1 DEF Slots
<1>10. Once
  <2>1. \A k \in DOMAIN stdout : FALSE
    BY <1>1
  <2> QED
    BY <1>5, <1>6, <1>7, <2>1 DEF Once
<1>11. Written
  <2>1. Unserved = {}
    BY <1>5, <1>6, <1>7 DEF Unserved
  <2> QED
    BY <1>1, <2>1, FS_EmptySet DEF Written
<1>12. Heard
  BY <1>1 DEF Heard
<1> QED
  BY <1>2, <1>3, <1>4, <1>8, <1>9, <1>10, <1>11, <1>12 DEF IInv, Types

\* The inductive invariant holds in every state: the types of all queues, the one carrier of
\* each question, whom each answer is for (rpc_call, handleRPCRequest), and the heartbeat.
THEOREM Invariance == Spec => []IInv
<1>1. Init => IInv
  BY Initially
<1>2. IInv /\ [Next]_vars => IInv'
  BY Inductive
<1> QED
  BY <1>1, <1>2, PTL DEF Spec

\* Whatever the number of threads, calls and candles: the answer that waits for a thread
\* answers its own question, and never shows it an older state than it has seen
\* (rpc_call, _handle_rpc_response, handleRPCRequest).
THEOREM AnswersReachTheirAsker == Spec => []AnswerToAsker
<1>1. IInv => AnswerToAsker
  <2> SUFFICES ASSUME IInv PROVE AnswerToAsker
    OBVIOUS
  <2>1. TypeOK
    BY DEF IInv, Types, Control, Queues, CallTypes, Counters, TypeOK
  <2>2. ASSUME NEW t \in Threads, Answered(t)
        PROVE  Head(pending[call[t].id]).by = t /\ Head(pending[call[t].id]).version >= seen[t]
    <3> DEFINE i == call[t].id
    <3>1. i \in DOMAIN pending /\ pending[i] # <<>> /\ pending[i] \in Seq(Answer) /\ Open(t)
      BY <2>2 DEF Answered, Open, IInv, Types, CallTypes
    <3>2. 1 \in DOMAIN pending[i] /\ pending[i][1] = Head(pending[i]) /\ Head(pending[i]) \in Answer
      BY <3>1
    <3>3. Head(pending[i]) \in Told /\ Head(pending[i]).id = i
      BY <3>1, <3>2 DEF Told, Waiting, IInv, Slots
    <3> QED
      BY <2>2, <3>1, <3>3 DEF IInv, Own
  <2> QED
    BY <2>1, <2>2 DEF AnswerToAsker
<1> QED
  BY <1>1, Invariance, PTL

\* Only the monitor gives up a process, after more than SilentTicks periods without a heartbeat.
LEMMA GivesUp ==
  ASSUME Types, [Next]_vars, engine # "declared", engine' = "declared"
  PROVE  monitorHeartbeat /\ quiet + 1 > SilentTicks
<1>1. CASE monitorHeartbeat
  BY <1>1 DEF monitorHeartbeat, heartbeatTimeout
<1>2. ASSUME \/ SendData \/ handleStrategyMessage \/ dispatchSignal \/ othersSignal
             \/ Stop \/ StopCancels \/ readStrategyMessages
             \/ _reader_loop \/ _worker_loop \/ CallbackReturns \/ CallbackRaises \/ FailureExpires
             \/ run \/ _heartbeat_loop \/ Stutters
      PROVE  engine' \in {engine, "stopping", "cancelled", "exited"}
  BY <1>2, Zenon DEF SendData, handleStrategyMessage, dispatchSignal, othersSignal, Stop, StopCancels,
     readStrategyMessages, _reader_loop, _worker_loop, CallbackReturns, CallbackRaises, FailureExpires, run,
     _heartbeat_loop, Stutters, adapter
<1>3. ASSUME NEW t \in Threads,
             \/ \E method \in Methods : rpc_call(t, method)
             \/ SendRequest(t) \/ CallReturns(t) \/ CallTimesOut(t)
      PROVE  engine' = engine
  BY <1>3, Zenon DEF rpc_call, SendRequest, CallReturns, CallTimesOut, adapter
<1>4. ASSUME NEW r \in requests, handleRPCRequest(r) PROVE engine' = engine
  BY <1>4, Zenon DEF handleRPCRequest
<1>5. engine' \notin {engine, "stopping", "cancelled", "exited"} /\ engine' # engine
  OBVIOUS
<1> QED
  BY <1>1, <1>2, <1>3, <1>4, <1>5, StepKinds, Zenon

\* Whatever the sizes of the pipe and of signalCh, and however long a callback takes: the
\* monitor gives up a process that runs only when the reader of its stdout waited for
\* dispatchSignal through the whole timeout (_heartbeat_loop, monitorHeartbeat).
THEOREM TheLivingAreKept == Spec => OnlySilentIsGivenUp
<1>1. ASSUME IInv, [Next]_vars, engine # "declared", engine' = "declared", running
      PROVE  readerBlocked /\ stall' = SilentTicks
  <2>1. monitorHeartbeat /\ quiet + 1 > SilentTicks
    BY <1>1, GivesUp, Zenon DEF IInv
  <2>2. /\ quiet \in 0..SilentTicks + 1 /\ stall \in 0..SilentTicks /\ quiet <= stall + 1
        /\ beat => quiet = 0 \/ Beating
    BY <1>1 DEF IInv, Types, Counters, Heard
  <2>3. alive
    BY <1>1 DEF IInv, Types, Control
  <2>4. stdout # <<>>
    <3> SUFFICES ASSUME stdout = <<>> PROVE FALSE
      OBVIOUS
    <3>1. beat
      BY <1>1, <2>1, <2>3, Bounds DEF monitorHeartbeat
    <3>2. ~Beating
      BY DEF Beating
    <3> QED
      BY <2>1, <2>2, <3>1, <3>2, Bounds
  <2> QED
    BY <2>1, <2>2, <2>4, Bounds DEF monitorHeartbeat
<1>2. IInv /\ [Next]_vars => [engine # "declared" /\ engine' = "declared" /\ running
                              => readerBlocked /\ stall' = SilentTicks]_vars
  BY <1>1
<1> QED
  BY <1>2, Invariance, PTL DEF Spec, OnlySilentIsGivenUp
=============================================================================
