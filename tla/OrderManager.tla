---------------------------- MODULE OrderManager ----------------------------
(***************************************************************************)
(* The order path of the engine: the OMS run loop (ExecutionEngine), the   *)
(* perp executor with its user-event pump and client-tag table, the order  *)
(* table of the SQLite store, start-up reconciliation and shutdown.  The   *)
(* exchange is external: it accepts, fills and ends orders, answers or     *)
(* fails to answer REST calls, and publishes every change of an order on   *)
(* the private websocket.                                                  *)
(*                                                                         *)
(* FilledSize and UpdatedAt travel with the status in every assignment of  *)
(* the code, so a row is its status and its exchange id.  A status the     *)
(* exchange reports is Submitted, PartialFilled, Filled or Cancelled.      *)
(***************************************************************************)
EXTENDS Naturals, Sequences, FiniteSets

CONSTANTS
  Orders,       \* local order ids: fresh UUIDs of the decision engine
  NoOrder,      \* "no local id": an event whose client tag is unknown
  ExIds,        \* exchange order ids; bounds the placements of a behaviour
  NoId,         \* the empty ExchangeID
  MaxRetries,   \* ExecutionEngine.maxRetries
  CmdCap,       \* capacity of cmdCh
  UserCap,      \* capacity of the exchange client's user-event channel
  DropAt,       \* capacity of PerpExecutor.orderEvents
  EventCap,     \* orderEvents, the event the fan-in holds, and eventCh together
  MaxFaults,    \* bound: lost answers, lost pushes and failed saves
  MaxDowns      \* bound: crashes and shutdowns

ASSUME OrdersAssumption == NoOrder \notin Orders
ASSUME ExIdsAssumption == NoId \notin ExIds
ASSUME BoundsAssumption ==
  /\ MaxRetries \in Nat /\ MaxFaults \in Nat /\ MaxDowns \in Nat
  /\ CmdCap \in Nat \ {0} /\ UserCap \in Nat \ {0}
  /\ DropAt \in Nat \ {0} /\ EventCap \in Nat /\ DropAt < EventCap

VARIABLES
  phase,     \* of the process, see Phase
  orders,    \* ExecutionEngine.orders: local id -> row
  store,     \* the orders table: local id -> row
  oms,       \* the Place call the run loop is blocked in, if any
  cmdCh,     \* ExecutionEngine.cmdCh
  events,    \* orderEvents, fan-in and eventCh: one FIFO of order events
  userCh,    \* the exchange client's user-event channel
  tags,      \* local ids that PerpExecutor.tagToLocal can resolve
  todo,      \* loaded orders that start-up has not reconciled yet
  owner,     \* the exchange: the local id each exchange order was placed for
  xstat,     \* the exchange: the status of each exchange order
  submitted, \* history: local ids ever handed to SubmitOrder
  ambiguous, \* history: local ids with an accepted Place whose answer was lost
  missed,    \* history: exchange orders with an update the OMS will never see
  unsaved,   \* history: local ids whose last SaveOrder failed
  faults, downs

exchange == <<owner, xstat>>
queues == <<cmdCh, events, userCh>>
bounds == <<faults, downs>>
vars == <<phase, orders, store, oms, cmdCh, events, userCh, tags, todo, owner,
          xstat, submitted, ambiguous, missed, unsaved, faults, downs>>

Live == {"Submitted", "PartialFilled"}
NonFinal == {"Pending"} \cup Live
XStatus == Live \cup {"Filled", "Cancelled"}
Status == NonFinal \cup {"Filled", "Cancelled", "Rejected"}
Row == [status : Status \cup {"None"}, exid : ExIds \cup {NoId}]
NoRow == [status |-> "None", exid |-> NoId]

\* down: no process.  recovering: websocket connected, snapshot being reconciled.
\* flushing: Engine.Stop has stopped the markets and queued the flush.
\* cancelled: runCtx is cancelled, the run loop has not returned yet.
Phase == {"down", "recovering", "up", "flushing", "cancelled"}
Running == phase \in {"up", "flushing", "cancelled"}

Cmd == [op : {"submit", "cancel", "sync", "flush"}, order : Orders \cup {NoOrder}]
UserEvent == [exid : ExIds, status : XStatus]
OrderEvent == [client : Orders \cup {NoOrder}, exid : ExIds, status : XStatus]

\* pc waiting: the request is out; answered: got is the exchange id, NoId an error.
Idle == [pc |-> "idle", order |-> NoOrder, attempt |-> 0, got |-> NoId]
OmsState == [pc : {"idle", "waiting", "answered"}, order : Orders \cup {NoOrder},
             attempt : 0..MaxRetries, got : ExIds \cup {NoId}]

\* Types of every variable, with the bounds of the channels.
TypeOK ==
  /\ phase \in Phase
  /\ orders \in [Orders -> Row]
  /\ store \in [Orders -> Row]
  /\ oms \in OmsState
  /\ cmdCh \in Seq(Cmd) /\ Len(cmdCh) <= CmdCap
  /\ events \in Seq(OrderEvent) /\ Len(events) <= EventCap
  /\ userCh \in Seq(UserEvent) /\ Len(userCh) <= UserCap
  /\ tags \subseteq Orders
  /\ todo \subseteq Orders
  /\ owner \in [ExIds -> Orders \cup {NoOrder}]
  /\ xstat \in [ExIds -> XStatus \cup {"None"}]
  /\ submitted \subseteq Orders
  /\ ambiguous \subseteq Orders
  /\ missed \subseteq ExIds
  /\ unsaved \subseteq Orders
  /\ faults \in 0..MaxFaults
  /\ downs \in 0..MaxDowns

-----------------------------------------------------------------------------
(* Helpers *)

Cost(b) == IF b THEN 1 ELSE 0
Spend(n) == faults + n <= MaxFaults /\ faults' = faults + n

\* syncOrderToStore: saves with runCtx, so nothing is saved once it is cancelled;
\* a failed save is only logged.
Save(o, row, fails) ==
  IF phase = "cancelled"
  THEN UNCHANGED <<store, unsaved>>
  ELSE /\ store' = IF fails THEN store ELSE [store EXCEPT ![o] = row]
       /\ unsaved' = IF fails THEN unsaved \cup {o} ELSE unsaved \ {o}

\* Assign the row in memory, then sendOrderUpdate.
Update(o, row, fails) ==
  /\ orders' = [orders EXCEPT ![o] = row]
  /\ Save(o, row, fails)

\* The exchange publishes the status of x.  The push is lost when nobody is
\* connected, when the connection fails, and when userCh is full.
Publish(x, status, lost) ==
  IF phase = "down" \/ lost \/ Len(userCh) >= UserCap
  THEN UNCHANGED userCh /\ missed' = missed \cup {x}
  ELSE /\ userCh' = Append(userCh, [exid |-> x, status |-> status])
       /\ UNCHANGED missed

\* The OMS takes over the exchange's view of x.  An older update still queued
\* will overwrite it, so a gap in the updates of x is closed only without one.
Refresh(x) ==
  IF \E q \in {events, userCh} : \E i \in DOMAIN q : q[i].exid = x
  THEN UNCHANGED missed
  ELSE missed' = missed \ {x}

Serving(op, o) ==
  /\ Running
  /\ oms.pc = "idle"
  /\ cmdCh # <<>>
  /\ Head(cmdCh) = [op |-> op, order |-> o]
  /\ cmdCh' = Tail(cmdCh)

-----------------------------------------------------------------------------
(* Callers: dispatchOrder, the kill switch and the gRPC handlers *)

Enqueue(op, o) ==
  /\ phase \in {"up", "flushing"}
  /\ Len(cmdCh) < CmdCap
  /\ cmdCh' = Append(cmdCh, [op |-> op, order |-> o])

\* An id is minted once; a caller may repeat it while the OMS knows it.
SubmitOrder(o) ==
  /\ o \notin submitted \/ orders[o].status # "None"
  /\ Enqueue("submit", o)
  /\ submitted' = submitted \cup {o}
  /\ UNCHANGED <<phase, orders, store, oms, events, userCh, tags, todo, exchange,
                 ambiguous, missed, unsaved, bounds>>

CancelOrder(o) ==
  /\ Enqueue("cancel", o)
  /\ UNCHANGED <<phase, orders, store, oms, events, userCh, tags, todo, exchange,
                 submitted, ambiguous, missed, unsaved, bounds>>

SyncOrderStatus(o) ==
  /\ Enqueue("sync", o)
  /\ UNCHANGED <<phase, orders, store, oms, events, userCh, tags, todo, exchange,
                 submitted, ambiguous, missed, unsaved, bounds>>

-----------------------------------------------------------------------------
(* The OMS run loop: submissions *)

execSubmitDuplicate(o) ==
  /\ Serving("submit", o)
  /\ orders[o].status # "None"
  /\ UNCHANGED <<phase, orders, store, oms, events, userCh, tags, todo, exchange,
                 submitted, ambiguous, missed, unsaved, bounds>>

\* Mutant: the duplicate check is lost.
execSubmitUnchecked(o, valid, fails) ==
  /\ Serving("submit", o)
  /\ Spend(Cost(fails))
  /\ valid /\ phase # "cancelled"
  /\ Update(o, [status |-> "Pending", exid |-> NoId], fails)
  /\ oms' = [pc |-> "waiting", order |-> o, attempt |-> 0, got |-> NoId]
  /\ UNCHANGED <<phase, events, userCh, tags, todo, exchange, submitted,
                 ambiguous, missed, downs>>

\* Mutant: the order is first saved when Place has answered.
execSubmitUnsaved(o, valid, fails) ==
  /\ Serving("submit", o)
  /\ orders[o].status = "None"
  /\ valid /\ phase # "cancelled" /\ ~fails
  /\ orders' = [orders EXCEPT ![o] = [status |-> "Pending", exid |-> NoId]]
  /\ oms' = [pc |-> "waiting", order |-> o, attempt |-> 0, got |-> NoId]
  /\ UNCHANGED <<phase, store, events, userCh, tags, todo, exchange, submitted,
                 ambiguous, missed, unsaved, bounds>>

\* The row is saved as Pending before Place.  validateOrderForPlace or a
\* cancelled runCtx rejects it at once.
execSubmit(o, valid, fails) ==
  /\ Serving("submit", o)
  /\ orders[o].status = "None"
  /\ Spend(Cost(fails))
  /\ IF valid /\ phase # "cancelled"
     THEN /\ Update(o, [status |-> "Pending", exid |-> NoId], fails)
          /\ oms' = [pc |-> "waiting", order |-> o, attempt |-> 0, got |-> NoId]
     ELSE /\ Update(o, [status |-> "Rejected", exid |-> NoId], fails)
          /\ UNCHANGED oms
  /\ UNCHANGED <<phase, events, userCh, tags, todo, exchange, submitted,
                 ambiguous, missed, downs>>

handleSubmitSuccess(fails) ==
  /\ Running
  /\ oms.pc = "answered" /\ oms.got # NoId
  /\ Spend(Cost(fails))
  /\ tags' = tags \cup {oms.order}          \* registerClientTag
  /\ Update(oms.order, [status |-> "Submitted", exid |-> oms.got], fails)
  /\ oms' = Idle
  /\ UNCHANGED <<phase, queues, todo, exchange, submitted, ambiguous, missed, downs>>

submitRetry ==
  /\ Running /\ phase # "cancelled"
  /\ oms.pc = "answered" /\ oms.got = NoId
  /\ oms.attempt < MaxRetries
  /\ oms' = [oms EXCEPT !.pc = "waiting", !.attempt = @ + 1]
  /\ UNCHANGED <<phase, orders, store, queues, tags, todo, exchange, submitted,
                 ambiguous, missed, unsaved, bounds>>

handleSubmitError(fails) ==
  /\ Running
  /\ oms.pc = "answered" /\ oms.got = NoId
  /\ oms.attempt = MaxRetries \/ phase = "cancelled"
  /\ Spend(Cost(fails))
  /\ Update(oms.order, [orders[oms.order] EXCEPT !.status = "Rejected"], fails)
  /\ oms' = Idle
  /\ UNCHANGED <<phase, queues, tags, todo, exchange, submitted, ambiguous,
                 missed, downs>>

-----------------------------------------------------------------------------
(* The OMS run loop: cancels, syncs, flush and order events *)

\* Mutant: the error of the exchange's cancel is ignored.
execCancelUnconfirmed(o) ==
  /\ Serving("cancel", o)
  /\ orders[o].status \in NonFinal
  /\ Update(o, [orders[o] EXCEPT !.status = "Cancelled"], FALSE)
  /\ UNCHANGED <<phase, oms, events, userCh, tags, todo, exchange, submitted,
                 ambiguous, missed, bounds>>

\* Not found, already final, without an exchange id, or failed by the exchange.
execCancelRefused(o) ==
  /\ Serving("cancel", o)
  /\ UNCHANGED <<phase, orders, store, oms, events, userCh, tags, todo, exchange,
                 submitted, ambiguous, missed, unsaved, bounds>>

\* The exchange cancels the order; answered says whether the OMS learns it.
execCancel(o, answered, lost, fails) ==
  LET x == orders[o].exid IN
  /\ Serving("cancel", o)
  /\ orders[o].status \in NonFinal
  /\ x # NoId
  /\ xstat[x] \in Live
  /\ Spend(Cost(~answered) + Cost(lost) + Cost(fails))
  /\ xstat' = [xstat EXCEPT ![x] = "Cancelled"]
  /\ Publish(x, "Cancelled", lost)
  /\ IF answered
     THEN Update(o, [orders[o] EXCEPT !.status = "Cancelled"], fails)
     ELSE UNCHANGED <<orders, store, unsaved>>
  /\ UNCHANGED <<phase, oms, events, tags, todo, owner, submitted, ambiguous, downs>>

\* Not found, without an exchange id, or GetOrder failed.
execSyncFailed(o) ==
  /\ Serving("sync", o)
  /\ UNCHANGED <<phase, orders, store, oms, events, userCh, tags, todo, exchange,
                 submitted, ambiguous, missed, unsaved, bounds>>

execSync(o, fails) ==
  LET x == orders[o].exid IN
  /\ Serving("sync", o)
  /\ orders[o].status # "None"
  /\ x # NoId
  /\ Spend(Cost(fails))
  /\ Update(o, [orders[o] EXCEPT !.status = xstat[x]], fails)
  /\ Refresh(x)
  /\ UNCHANGED <<phase, oms, events, userCh, tags, todo, exchange, submitted,
                 ambiguous, downs>>

\* Saves every order with the flush context; the first failed save ends it.
execFlush(saved) ==
  LET present == {o \in Orders : orders[o].status # "None"} IN
  /\ Serving("flush", NoOrder)
  /\ saved \subseteq present
  /\ Spend(Cost(saved # present))
  /\ store' = [o \in Orders |-> IF o \in saved THEN orders[o] ELSE store[o]]
  /\ unsaved' = unsaved \ saved
  /\ UNCHANGED <<phase, orders, oms, events, userCh, tags, todo, exchange,
                 submitted, ambiguous, missed, downs>>

\* Mutant: no fallback to the exchange id.
MatchesClientOnly(e) ==
  IF e.client # NoOrder /\ orders[e.client].status # "None" THEN {e.client} ELSE {}

\* By client id, else by exchange id.
Matches(e) ==
  IF e.client # NoOrder /\ orders[e.client].status # "None"
  THEN {e.client}
  ELSE {o \in Orders : orders[o].status # "None" /\ orders[o].exid = e.exid}

applyOrderEvent(fails) ==
  /\ Running
  /\ oms.pc = "idle"
  /\ events # <<>>
  /\ events' = Tail(events)
  /\ LET e == Head(events) IN
       \/ /\ Matches(e) = {}
          /\ ~fails
          /\ UNCHANGED <<orders, store, unsaved>>
       \/ \E o \in Matches(e) :
            Update(o, [orders[o] EXCEPT !.status = e.status], fails)
  /\ Spend(Cost(fails))
  /\ UNCHANGED <<phase, oms, cmdCh, userCh, tags, todo, exchange, submitted,
                 ambiguous, missed, downs>>

-----------------------------------------------------------------------------
(* The executor's user-event pump *)

\* Mutant: two local ids share one tag.
resolveLocalClientIDShared(o) == IF tags = {} THEN NoOrder ELSE CHOOSE t \in tags : TRUE

\* TagFromLocal hashes a UUID, so a tag is resolved by the table or not at all.
resolveLocalClientID(o) == IF o \in tags THEN o ELSE NoOrder

\* Mutant: the pump hands an event on without regard to the buffers' capacity.
pumpUnbounded(drop) ==
  /\ phase = "up"
  /\ userCh # <<>>
  /\ userCh' = Tail(userCh)
  /\ events' = Append(events, [client |-> resolveLocalClientID(owner[Head(userCh).exid]),
                               exid |-> Head(userCh).exid,
                               status |-> Head(userCh).status])
  /\ UNCHANGED <<phase, orders, store, oms, cmdCh, tags, todo, exchange, submitted,
                 ambiguous, missed, unsaved, bounds>>

\* emitOrderEvent drops the event when orderEvents is full: it may be once
\* DropAt events are queued, and it is when every buffer behind it is full.
pump(drop) ==
  LET u == Head(userCh)
      o == owner[u.exid]
  IN
  /\ phase = "up"
  /\ userCh # <<>>
  /\ userCh' = Tail(userCh)
  /\ IF drop
     THEN /\ Len(events) >= DropAt
          /\ missed' = missed \cup {u.exid}
          /\ UNCHANGED events
     ELSE /\ Len(events) < EventCap
          /\ events' = Append(events, [client |-> resolveLocalClientID(o),
                                       exid |-> u.exid, status |-> u.status])
          /\ UNCHANGED missed
  /\ tags' = IF u.status \in Live THEN tags ELSE tags \ {o}
  /\ UNCHANGED <<phase, orders, store, oms, cmdCh, todo, exchange, submitted,
                 ambiguous, unsaved, bounds>>

-----------------------------------------------------------------------------
(* The exchange *)

\* Place accepted: a new exchange order for the local id, answered or not.
ExchangeAccepts(x, answered, lost) ==
  /\ oms.pc = "waiting"
  /\ xstat[x] = "None"
  /\ Spend(Cost(~answered) + Cost(lost))
  /\ owner' = [owner EXCEPT ![x] = oms.order]
  /\ xstat' = [xstat EXCEPT ![x] = "Submitted"]
  /\ Publish(x, "Submitted", lost)
  /\ oms' = [oms EXCEPT !.pc = "answered", !.got = IF answered THEN x ELSE NoId]
  /\ ambiguous' = IF answered THEN ambiguous ELSE ambiguous \cup {oms.order}
  /\ UNCHANGED <<phase, orders, store, cmdCh, events, tags, todo, submitted,
                 unsaved, downs>>

\* Place refused, or the request never reached the exchange.
ExchangeRefuses ==
  /\ oms.pc = "waiting"
  /\ oms' = [oms EXCEPT !.pc = "answered", !.got = NoId]
  /\ UNCHANGED <<phase, orders, store, queues, tags, todo, exchange, submitted,
                 ambiguous, missed, unsaved, bounds>>

\* A fill, or an end of the order that the OMS did not ask for.
ExchangeMoves(x, status, lost) ==
  /\ xstat[x] \in Live
  /\ status \in {"PartialFilled", "Filled", "Cancelled"} \ {xstat[x]}
  /\ Spend(Cost(lost))
  /\ xstat' = [xstat EXCEPT ![x] = status]
  /\ Publish(x, status, lost)
  /\ UNCHANGED <<phase, orders, store, oms, cmdCh, events, tags, todo, owner,
                 submitted, ambiguous, unsaved, downs>>

-----------------------------------------------------------------------------
(* Start-up, shutdown and crash *)

\* loadSnapshotAndReconcile reads the non-terminal rows; what was in flight when
\* the process ended is gone, so no exchange order is known to be up to date.
loadSnapshot ==
  /\ phase = "down"
  /\ phase' = "recovering"
  /\ orders' = [o \in Orders |-> IF store[o].status \in NonFinal THEN store[o] ELSE NoRow]
  /\ todo' = {o \in Orders : store[o].status \in NonFinal /\ store[o].exid # NoId}
  /\ missed' = ExIds
  /\ UNCHANGED <<store, oms, queues, tags, exchange, submitted, ambiguous,
                 unsaved, bounds>>

\* Sync answered: the exchange's view is applied and saved.
reconcile(o, fails) ==
  LET x == orders[o].exid IN
  /\ phase = "recovering"
  /\ o \in todo
  /\ todo' = todo \ {o}
  /\ Spend(Cost(fails))
  /\ Update(o, [orders[o] EXCEPT !.status = xstat[x]], fails)
  /\ Refresh(x)
  /\ UNCHANGED <<phase, oms, queues, tags, exchange, submitted, ambiguous, downs>>

\* The exchange no longer knows an order it cancelled.
reconcileNotFound(o, fails) ==
  /\ phase = "recovering"
  /\ o \in todo
  /\ xstat[orders[o].exid] = "Cancelled"
  /\ todo' = todo \ {o}
  /\ Spend(Cost(fails))
  /\ Update(o, [orders[o] EXCEPT !.status = "Cancelled"], fails)
  /\ Refresh(orders[o].exid)
  /\ UNCHANGED <<phase, oms, queues, tags, exchange, submitted, ambiguous, downs>>

\* Mutant: a row that could not be synced starts over as Pending.
reconcileAgain(o) ==
  /\ phase = "recovering"
  /\ o \in todo
  /\ todo' = todo \ {o}
  /\ Spend(1)
  /\ Update(o, [status |-> "Pending", exid |-> NoId], FALSE)
  /\ UNCHANGED <<phase, oms, queues, tags, exchange, submitted, ambiguous, missed, downs>>

\* Sync failed: the saved view is kept and start-up goes on.
reconcileFailed(o) ==
  /\ phase = "recovering"
  /\ o \in todo
  /\ todo' = todo \ {o}
  /\ Spend(1)
  /\ UNCHANGED <<phase, orders, store, oms, queues, tags, exchange, submitted,
                 ambiguous, missed, unsaved, downs>>

\* HydrateFromSnapshot, then the executor's pump and the OMS loop are started.
Start ==
  /\ phase = "recovering"
  /\ todo = {}
  /\ phase' = "up"
  /\ UNCHANGED <<orders, store, oms, queues, tags, todo, exchange, submitted,
                 ambiguous, missed, unsaved, bounds>>

\* Engine.Stop: the markets stop, then FlushOrdersToStore is queued.
StopMarkets ==
  /\ phase = "up"
  /\ downs < MaxDowns
  /\ Len(cmdCh) < CmdCap
  /\ cmdCh' = Append(cmdCh, [op |-> "flush", order |-> NoOrder])
  /\ phase' = "flushing"
  /\ UNCHANGED <<orders, store, oms, events, userCh, tags, todo, exchange,
                 submitted, ambiguous, missed, unsaved, bounds>>

\* e.cancel(), after the flush answered or its 20 s ran out.
CancelRunCtx ==
  /\ phase = "flushing"
  /\ phase' = "cancelled"
  /\ UNCHANGED <<orders, store, oms, queues, tags, todo, exchange, submitted,
                 ambiguous, missed, unsaved, bounds>>

\* The process ends, and its memory and its channels with it.
GoDown ==
  /\ downs < MaxDowns
  /\ downs' = downs + 1
  /\ phase' = "down"
  /\ orders' = [o \in Orders |-> NoRow]
  /\ oms' = Idle
  /\ cmdCh' = <<>> /\ events' = <<>> /\ userCh' = <<>>
  /\ tags' = {} /\ todo' = {}
  /\ UNCHANGED <<store, exchange, submitted, ambiguous, missed, unsaved, faults>>

Exit == phase = "cancelled" /\ oms.pc = "idle" /\ GoDown

Crash == phase # "down" /\ GoDown

-----------------------------------------------------------------------------
Init ==
  /\ phase = "up"
  /\ orders = [o \in Orders |-> NoRow]
  /\ store = [o \in Orders |-> NoRow]
  /\ oms = Idle
  /\ cmdCh = <<>> /\ events = <<>> /\ userCh = <<>>
  /\ tags = {} /\ todo = {}
  /\ owner = [x \in ExIds |-> NoOrder]
  /\ xstat = [x \in ExIds |-> "None"]
  /\ submitted = {} /\ ambiguous = {} /\ missed = {} /\ unsaved = {}
  /\ faults = 0 /\ downs = 0

Callers == \E o \in Orders : SubmitOrder(o) \/ CancelOrder(o) \/ SyncOrderStatus(o)

RunLoop ==
  \/ \E o \in Orders :
       \/ execSubmitDuplicate(o)
       \/ \E valid, fails \in BOOLEAN : execSubmit(o, valid, fails)
       \/ execCancelRefused(o)
       \/ \E answered, lost, fails \in BOOLEAN : execCancel(o, answered, lost, fails)
       \/ execSyncFailed(o)
       \/ \E fails \in BOOLEAN : execSync(o, fails)
  \/ submitRetry
  \/ \E fails \in BOOLEAN :
       handleSubmitSuccess(fails) \/ handleSubmitError(fails) \/ applyOrderEvent(fails)
  \/ \E saved \in SUBSET Orders : execFlush(saved)

Pump == \E drop \in BOOLEAN : pump(drop)

Exchange ==
  \/ ExchangeRefuses
  \/ \E x \in ExIds, answered, lost \in BOOLEAN : ExchangeAccepts(x, answered, lost)
  \/ \E x \in ExIds, status \in XStatus, lost \in BOOLEAN : ExchangeMoves(x, status, lost)

StartUp ==
  \/ loadSnapshot
  \/ \E o \in Orders, fails \in BOOLEAN : reconcile(o, fails) \/ reconcileNotFound(o, fails)
  \/ \E o \in Orders : reconcileFailed(o)
  \/ Start

ShutDown == StopMarkets \/ CancelRunCtx \/ Exit \/ Crash

Next == Callers \/ RunLoop \/ Pump \/ Exchange \/ StartUp \/ ShutDown

Spec == Init /\ [][Next]_vars

\* The goroutines keep running and a REST call returns.  The run loop's select
\* picks a ready case at random: an event that is ready again and again is
\* taken (strong fairness).
PlaceReturns ==
  ExchangeRefuses \/ \E x \in ExIds : ExchangeAccepts(x, TRUE, FALSE)
AfterPlace ==
  \/ submitRetry
  \/ \E fails \in BOOLEAN : handleSubmitSuccess(fails) \/ handleSubmitError(fails)

Fairness ==
  /\ WF_vars(PlaceReturns)
  /\ WF_vars(AfterPlace)
  /\ WF_vars(Pump)
  /\ SF_vars(applyOrderEvent(FALSE))

FairSpec == Spec /\ Fairness

-----------------------------------------------------------------------------
(* Properties *)

KnownAs(x) == owner[x] # NoOrder /\ orders[owner[x]].exid = x

\* An order id reaches the exchange as one order only, through the duplicate
\* check, retries, restarts and repeated commands, unless the answer to an
\* accepted Place was lost (execSubmit, submitWithRetry, loadSnapshot).
PlacedOnce ==
  \A x, y \in ExIds :
    owner[x] = owner[y] /\ owner[x] # NoOrder /\ owner[x] \notin ambiguous => x = y

\* Write-ahead: while an order is live at the exchange, its saved row is not
\* final, so that a restart loads it, and the running OMS counts it as open;
\* except after a lost Place answer or a failed save (sendOrderUpdate before
\* Place, reconcileWithExecutors, ListNonTerminalOrders).
LiveOrdersOnRecord ==
  \A x \in ExIds :
    xstat[x] \in Live /\ owner[x] \notin ambiguous \cup unsaved =>
      /\ store[owner[x]].status \in NonFinal
      /\ phase # "down" => orders[owner[x]].status \in NonFinal

\* A final state in memory or on disk is one the exchange reached for an order
\* of that id: the OMS never makes up a fill or a cancellation, whichever of
\* the client tag and the exchange id matched the event (applyOrderEvent,
\* execCancel, execSync, reconcileWithExecutors).
FinalStatesAreReal ==
  \A o \in Orders : \A row \in {orders[o], store[o]} :
    row.status \in {"Filled", "Cancelled"} =>
      \E x \in ExIds : owner[x] = o /\ xstat[x] = row.status

\* Once no update of an order is queued, the OMS shows what the exchange shows,
\* whatever the order of Place answers, pushes, cancels, syncs and restarts;
\* except when an update was lost or a Place answer was lost (pump,
\* applyOrderEvent, handleSubmitSuccess, reconcileWithExecutors).
ViewConverges ==
  \A x \in ExIds :
    LET o == owner[x] IN
    /\ phase # "down"
    /\ KnownAs(x)
    /\ x \notin missed /\ o \notin ambiguous
    /\ \A q \in {events, userCh} : \A i \in DOMAIN q : q[i].exid # x
    => orders[o].status = xstat[x]

\* A final state of an order the OMS placed reaches the OMS, while the process is
\* up and unless an update or a Place answer was lost (pump, fan-in, run).
FinalStateArrives ==
  \A x \in ExIds, o \in Orders :
    (owner[x] = o /\ KnownAs(x) /\ xstat[x] \in {"Filled", "Cancelled"}) ~>
      \/ phase # "up" \/ x \in missed \/ o \in ambiguous
      \/ orders[o].status = xstat[x]

\* What the engine tells of an order: of its memory, else of its table.
Told == [o \in Orders |-> IF orders[o].status # "None"
                          THEN orders[o].status ELSE store[o].status]

Promise == INSTANCE OrderLifecycle WITH
  told <- Told, saved <- [o \in Orders |-> store[o].status],
  owner <- owner, real <- xstat, doubted <- ambiguous

\* The order path, with its queues, events, retries, tags and restarts, is the
\* order's life as a caller sees it: placed from Pending and once, rejected only
\* when nothing was placed (lost answers apart), told no end that is not real,
\* and after a restart told what was saved (execSubmit, submitWithRetry,
\* applyOrderEvent, reconcileWithExecutors).
KeepsPromise == Promise!Spec
=============================================================================
