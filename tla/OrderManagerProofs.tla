------------------------- MODULE OrderManagerProofs -------------------------
(***************************************************************************)
(* Theorems about OrderManager for every set of orders and exchange ids,   *)
(* every channel capacity, retry count and bound: an order id is placed    *)
(* once, what is told and saved of an order is true, and the whole is an   *)
(* OrderLifecycle.                                                         *)
(***************************************************************************)
EXTENDS OrderManager, SequenceTheorems, TLAPS

(***************************************************************************)
(* Types alone are not inductive: execSync and reconcile copy the status   *)
(* of an exchange id, and the answers of Place name an order.  Linked says *)
(* that those ids are real.                                                *)
(***************************************************************************)
RowsLinked(rows) == \A o \in Orders : rows[o].exid # NoId => xstat[rows[o].exid] # "None"

Linked ==
  /\ oms.pc # "idle" => oms.order \in Orders
  /\ oms.got # NoId => xstat[oms.got] # "None"
  /\ RowsLinked(orders)
  /\ RowsLinked(store)
  /\ phase # "recovering" => todo = {}
  /\ \A o \in todo : orders[o].exid # NoId

(***************************************************************************)
(* PlacedOnce is not inductive either.  An id can be placed when a submit  *)
(* for it is queued and the OMS does not know it, or when a Place call for *)
(* it is not answered with an exchange id: in both cases nothing was       *)
(* placed for it before.                                                   *)
(***************************************************************************)
Placing == oms.pc # "idle" /\ oms.got = NoId
Unplaced(o) == \A x \in ExIds : owner[x] # o

\* Without a running OMS nothing is queued and no call is out.
QuietWhileDown == phase \in {"down", "recovering"} => cmdCh = <<>> /\ oms.pc = "idle"
\* The order being placed is known, its id was handed in, and it has no answer yet.
CallKnown ==
  /\ oms.pc # "idle" => orders[oms.order].status # "None" /\ oms.order \in submitted
  /\ oms.pc = "waiting" => oms.got = NoId
OwnersSubmitted == \A x \in ExIds : owner[x] \in submitted \cup {NoOrder}
FreshSubmit(c) ==
  c.op = "submit" =>
    c.order \in submitted /\ (orders[c.order].status = "None" => Unplaced(c.order))
QueueFresh == \A i \in DOMAIN cmdCh : FreshSubmit(cmdCh[i])
CallFresh == Placing /\ oms.order \notin ambiguous => Unplaced(oms.order)

Placements ==
  QuietWhileDown /\ CallKnown /\ OwnersSubmitted /\ QueueFresh /\ CallFresh /\ PlacedOnce

IInv == TypeOK /\ Linked /\ Placements

-----------------------------------------------------------------------------
(* What the helpers of the actions do to the types *)

\* Every status an update writes makes a row.
LEMMA RowTypes ==
  ASSUME TypeOK, NEW o \in Orders
  PROVE  /\ NoRow \in Row
         /\ \A s \in Status : [orders[o] EXCEPT !.status = s] \in Row
         /\ \A s \in Status, x \in ExIds \cup {NoId} : [status |-> s, exid |-> x] \in Row
BY DEF TypeOK, Row, NoRow

LEMMA UpdateType ==
  ASSUME TypeOK, NEW o \in Orders, NEW row \in Row, NEW fails \in BOOLEAN,
         Update(o, row, fails)
  PROVE  /\ orders' \in [Orders -> Row]
         /\ store' \in [Orders -> Row]
         /\ unsaved' \subseteq Orders
BY DEF TypeOK, Update, Save

LEMMA SpendType ==
  ASSUME TypeOK, NEW n \in Nat, Spend(n)
  PROVE  faults' \in 0..MaxFaults
BY BoundsAssumption DEF TypeOK, Spend

LEMMA CostType == \A b \in BOOLEAN : Cost(b) \in Nat
BY DEF Cost

LEMMA PublishType ==
  ASSUME TypeOK, NEW x \in ExIds, NEW s \in XStatus, NEW lost \in BOOLEAN,
         Publish(x, s, lost)
  PROVE  /\ userCh' \in Seq(UserEvent) /\ Len(userCh') <= UserCap
         /\ missed' \subseteq ExIds
<1>. DEFINE u == [exid |-> x, status |-> s]
<1>1. u \in UserEvent
  BY DEF UserEvent
<1>2. /\ userCh \in Seq(UserEvent) /\ Len(userCh) <= UserCap
      /\ UserCap \in Nat /\ Len(userCh) \in Nat
      /\ missed \subseteq ExIds
  BY BoundsAssumption DEF TypeOK
<1>3. \/ userCh' = userCh /\ missed' = missed \cup {x}
      \/ /\ ~(Len(userCh) >= UserCap)
         /\ userCh' = Append(userCh, u) /\ missed' = missed
  BY Zenon DEF Publish
<1>4. Append(userCh, u) \in Seq(UserEvent) /\ Len(Append(userCh, u)) = Len(userCh) + 1
  <2>. HIDE DEF u
  <2>. QED  BY <1>1, <1>2
<1>. HIDE DEF u
<1>. QED
  BY <1>2, <1>3, <1>4

LEMMA RefreshType ==
  ASSUME TypeOK, NEW x \in ExIds, Refresh(x)
  PROVE  missed' \subseteq ExIds
BY DEF TypeOK, Refresh

LEMMA ServingType ==
  ASSUME TypeOK, NEW op, NEW o, Serving(op, o)
  PROVE  cmdCh' \in Seq(Cmd) /\ Len(cmdCh') <= CmdCap
<1>1. cmdCh \in Seq(Cmd) /\ cmdCh # <<>> /\ cmdCh' = Tail(cmdCh)
  BY DEF TypeOK, Serving
<1>2. Tail(cmdCh) \in Seq(Cmd) /\ Len(Tail(cmdCh)) = Len(cmdCh) - 1
  BY <1>1
<1>3. Len(cmdCh) \in Nat /\ Len(cmdCh) <= CmdCap /\ CmdCap \in Nat
  BY BoundsAssumption DEF TypeOK
<1>. QED
  BY <1>1, <1>2, <1>3

LEMMA EnqueueType ==
  ASSUME TypeOK, NEW c \in Cmd, Len(cmdCh) < CmdCap, cmdCh' = Append(cmdCh, c)
  PROVE  cmdCh' \in Seq(Cmd) /\ Len(cmdCh') <= CmdCap
BY BoundsAssumption DEF TypeOK

-----------------------------------------------------------------------------
(* Type correctness: one lemma per group of actions *)

LEMMA InitType == Init => TypeOK
BY BoundsAssumption, OrdersAssumption
   DEF Init, TypeOK, Row, NoRow, Idle, OmsState, Phase

LEMMA CallersType == TypeOK /\ Callers => TypeOK'
<1> SUFFICES ASSUME TypeOK, NEW o \in Orders,
                    SubmitOrder(o) \/ CancelOrder(o) \/ SyncOrderStatus(o)
             PROVE  TypeOK'
  BY DEF Callers
<1>1. PICK op \in {"submit", "cancel", "sync"} : Enqueue(op, o)
  BY DEF SubmitOrder, CancelOrder, SyncOrderStatus
<1>2. cmdCh' \in Seq(Cmd) /\ Len(cmdCh') <= CmdCap
  BY <1>1, EnqueueType DEF Enqueue, Cmd
<1>3. submitted' \subseteq Orders
  BY DEF TypeOK, SubmitOrder, CancelOrder, SyncOrderStatus
<1>. QED
  BY <1>2, <1>3
  DEF TypeOK, SubmitOrder, CancelOrder, SyncOrderStatus, exchange, bounds

LEMMA SubmitType ==
  ASSUME TypeOK, NEW o \in Orders, NEW valid \in BOOLEAN, NEW fails \in BOOLEAN,
         execSubmitDuplicate(o) \/ execSubmit(o, valid, fails)
  PROVE  TypeOK'
<1>1. CASE execSubmitDuplicate(o)
  <2>1. cmdCh' \in Seq(Cmd) /\ Len(cmdCh') <= CmdCap
    BY <1>1, ServingType DEF execSubmitDuplicate
  <2>. QED
    BY <1>1, <2>1 DEF TypeOK, execSubmitDuplicate, exchange, bounds
<1>2. CASE execSubmit(o, valid, fails)
  <2>1. cmdCh' \in Seq(Cmd) /\ Len(cmdCh') <= CmdCap
    BY <1>2, ServingType DEF execSubmit
  <2>2. faults' \in 0..MaxFaults
    BY <1>2, SpendType, CostType DEF execSubmit
  <2>3. PICK row \in Row : Update(o, row, fails)
    BY <1>2 DEF execSubmit, Row, Status, NonFinal
  <2>4. /\ orders' \in [Orders -> Row] /\ store' \in [Orders -> Row]
        /\ unsaved' \subseteq Orders
    BY <2>3, UpdateType
  <2>5. oms' \in OmsState
    BY <1>2, BoundsAssumption DEF execSubmit, TypeOK, OmsState
  <2>6. UNCHANGED <<phase, events, userCh, tags, todo, owner, xstat, submitted,
                    ambiguous, missed, downs>>
    BY <1>2, Zenon DEF execSubmit, exchange
  <2>. QED
    BY <2>1, <2>2, <2>4, <2>5, <2>6 DEF TypeOK
<1>. QED
  BY <1>1, <1>2

LEMMA PlaceResultType ==
  ASSUME TypeOK, oms.order \in Orders, NEW fails \in BOOLEAN,
         submitRetry \/ handleSubmitSuccess(fails) \/ handleSubmitError(fails)
  PROVE  TypeOK'
<1>1. CASE submitRetry
  <2>1. oms' \in OmsState
    <3>1. oms \in OmsState
      BY DEF TypeOK
    <3>2. oms.attempt + 1 \in 0..MaxRetries
      BY <1>1, <3>1, BoundsAssumption DEF submitRetry, OmsState
    <3>3. oms' = [oms EXCEPT !.pc = "waiting", !.attempt = oms.attempt + 1]
      BY <1>1 DEF submitRetry
    <3>. QED
      BY <3>1, <3>2, <3>3 DEF OmsState
  <2>. QED
    BY <1>1, <2>1 DEF TypeOK, submitRetry, exchange, bounds, queues
<1>2. CASE handleSubmitSuccess(fails)
  <2>1. faults' \in 0..MaxFaults
    BY <1>2, SpendType, CostType DEF handleSubmitSuccess
  <2>2. [status |-> "Submitted", exid |-> oms.got] \in Row
    BY DEF TypeOK, OmsState, Row, Status, NonFinal, Live
  <2>3. /\ orders' \in [Orders -> Row] /\ store' \in [Orders -> Row]
        /\ unsaved' \subseteq Orders
    BY <1>2, <2>2, UpdateType DEF handleSubmitSuccess
  <2>4. oms' \in OmsState
    BY <1>2, BoundsAssumption DEF handleSubmitSuccess, Idle, OmsState
  <2>. QED
    BY <1>2, <2>1, <2>3, <2>4 DEF TypeOK, handleSubmitSuccess, exchange, queues
<1>3. CASE handleSubmitError(fails)
  <2>1. faults' \in 0..MaxFaults
    BY <1>3, SpendType, CostType DEF handleSubmitError
  <2>2. [orders[oms.order] EXCEPT !.status = "Rejected"] \in Row
    BY RowTypes DEF Status
  <2>3. /\ orders' \in [Orders -> Row] /\ store' \in [Orders -> Row]
        /\ unsaved' \subseteq Orders
    BY <1>3, <2>2, UpdateType DEF handleSubmitError
  <2>4. oms' \in OmsState
    BY <1>3, BoundsAssumption DEF handleSubmitError, Idle, OmsState
  <2>. QED
    BY <1>3, <2>1, <2>3, <2>4 DEF TypeOK, handleSubmitError, exchange, queues
<1>. QED
  BY <1>1, <1>2, <1>3

LEMMA CancelType ==
  ASSUME TypeOK, NEW o \in Orders, NEW answered \in BOOLEAN, NEW lost \in BOOLEAN,
         NEW fails \in BOOLEAN,
         execCancelRefused(o) \/ execCancel(o, answered, lost, fails)
  PROVE  TypeOK'
<1>1. CASE execCancelRefused(o)
  <2>1. cmdCh' \in Seq(Cmd) /\ Len(cmdCh') <= CmdCap
    BY <1>1, ServingType DEF execCancelRefused
  <2>. QED
    BY <1>1, <2>1 DEF TypeOK, execCancelRefused, exchange, bounds
<1>2. CASE execCancel(o, answered, lost, fails)
  <2>. DEFINE x == orders[o].exid
  <2>1. cmdCh' \in Seq(Cmd) /\ Len(cmdCh') <= CmdCap
    BY <1>2, ServingType DEF execCancel
  <2>2. x \in ExIds
    BY <1>2 DEF execCancel, TypeOK, Row
  <2>3. faults' \in 0..MaxFaults
    <3>1. Cost(~answered) + Cost(lost) + Cost(fails) \in Nat
      BY DEF Cost
    <3>2. Spend(Cost(~answered) + Cost(lost) + Cost(fails))
      BY <1>2 DEF execCancel
    <3>. QED
      BY <3>1, <3>2, SpendType
  <2>4. userCh' \in Seq(UserEvent) /\ Len(userCh') <= UserCap /\ missed' \subseteq ExIds
    <3>1. Publish(x, "Cancelled", lost)
      BY <1>2 DEF execCancel
    <3>2. "Cancelled" \in XStatus
      BY DEF XStatus
    <3>. QED
      BY <2>2, <3>1, <3>2, PublishType
  <2>5. /\ orders' \in [Orders -> Row] /\ store' \in [Orders -> Row]
        /\ unsaved' \subseteq Orders
    <3>1. CASE answered
      <4>1. Update(o, [orders[o] EXCEPT !.status = "Cancelled"], fails)
        BY <1>2, <3>1, Zenon DEF execCancel
      <4>2. [orders[o] EXCEPT !.status = "Cancelled"] \in Row
        BY RowTypes DEF Status
      <4>. QED
        BY <4>1, <4>2, UpdateType
    <3>2. CASE ~answered
      <4>1. UNCHANGED <<orders, store, unsaved>>
        BY <1>2, <3>2, Zenon DEF execCancel
      <4>. QED
        BY <4>1 DEF TypeOK
    <3>. QED
      BY <3>1, <3>2
  <2>6. xstat' \in [ExIds -> XStatus \cup {"None"}]
    BY <1>2, <2>2 DEF execCancel, TypeOK, XStatus
  <2>7. UNCHANGED <<phase, oms, events, tags, todo, owner, submitted, ambiguous, downs>>
    BY <1>2, Zenon DEF execCancel
  <2>. HIDE DEF x
  <2>. QED
    BY <2>1, <2>3, <2>4, <2>5, <2>6, <2>7 DEF TypeOK
<1>. QED
  BY <1>1, <1>2

LEMMA SyncType ==
  ASSUME TypeOK, NEW o \in Orders, NEW fails \in BOOLEAN,
         execSyncFailed(o) \/ execSync(o, fails),
         orders[o].exid # NoId => xstat[orders[o].exid] # "None"
  PROVE  TypeOK'
<1>1. CASE execSyncFailed(o)
  <2>1. cmdCh' \in Seq(Cmd) /\ Len(cmdCh') <= CmdCap
    BY <1>1, ServingType DEF execSyncFailed
  <2>. QED
    BY <1>1, <2>1 DEF TypeOK, execSyncFailed, exchange, bounds
<1>2. CASE execSync(o, fails)
  <2>. DEFINE x == orders[o].exid
  <2>1. cmdCh' \in Seq(Cmd) /\ Len(cmdCh') <= CmdCap
    BY <1>2, ServingType DEF execSync
  <2>2. x \in ExIds /\ xstat[x] \in Status
    BY <1>2 DEF execSync, TypeOK, Row, XStatus, Status, NonFinal
  <2>3. faults' \in 0..MaxFaults
    BY <1>2, SpendType, CostType DEF execSync
  <2>4. missed' \subseteq ExIds
    BY <1>2, <2>2, RefreshType DEF execSync
  <2>5. /\ orders' \in [Orders -> Row] /\ store' \in [Orders -> Row]
        /\ unsaved' \subseteq Orders
    BY <1>2, <2>2, RowTypes, UpdateType DEF execSync
  <2>7. UNCHANGED <<phase, oms, events, userCh, tags, todo, owner, xstat, submitted,
                    ambiguous, downs>>
    BY <1>2 DEF execSync, exchange
  <2>. HIDE DEF x
  <2>. QED
    BY <2>1, <2>3, <2>4, <2>5, <2>7 DEF TypeOK
<1>. QED
  BY <1>1, <1>2

LEMMA FlushType ==
  ASSUME TypeOK, NEW saved \in SUBSET Orders, execFlush(saved)
  PROVE  TypeOK'
<1>1. cmdCh' \in Seq(Cmd) /\ Len(cmdCh') <= CmdCap
  BY ServingType DEF execFlush
<1>2. faults' \in 0..MaxFaults
  <2>1. PICK b \in BOOLEAN : Spend(Cost(b))
    BY DEF execFlush
  <2>. QED
    BY <2>1, SpendType, CostType
<1>3. store' \in [Orders -> Row] /\ unsaved' \subseteq Orders
  BY DEF execFlush, TypeOK
<1>. QED
  BY <1>1, <1>2, <1>3 DEF TypeOK, execFlush, exchange

LEMMA EventType ==
  ASSUME TypeOK, NEW fails \in BOOLEAN, applyOrderEvent(fails)
  PROVE  TypeOK'
<1>1. /\ events # <<>> /\ events' = Tail(events)
      /\ events \in Seq(OrderEvent) /\ Len(events) \in Nat
      /\ Len(events) <= EventCap /\ EventCap \in Nat
  BY BoundsAssumption DEF applyOrderEvent, TypeOK
<1>2. events' \in Seq(OrderEvent) /\ Len(events') <= EventCap
  BY <1>1
<1>3. faults' \in 0..MaxFaults
  BY SpendType, CostType DEF applyOrderEvent
<1>4. Head(events) \in OrderEvent
  BY <1>1
<1>5. /\ orders' \in [Orders -> Row] /\ store' \in [Orders -> Row]
      /\ unsaved' \subseteq Orders
  <2>1. CASE UNCHANGED <<orders, store, unsaved>>
    BY <2>1 DEF TypeOK
  <2>2. ASSUME NEW o \in Matches(Head(events)),
               Update(o, [orders[o] EXCEPT !.status = Head(events).status], fails)
        PROVE  /\ orders' \in [Orders -> Row] /\ store' \in [Orders -> Row]
               /\ unsaved' \subseteq Orders
    <3>1. o \in Orders
      BY <1>4 DEF Matches, OrderEvent
    <3>2. [orders[o] EXCEPT !.status = Head(events).status] \in Row
      BY <1>4, <3>1, RowTypes DEF OrderEvent, XStatus, Status, NonFinal
    <3>. QED
      BY <2>2, <3>1, <3>2, UpdateType
  <2>. QED
    BY <2>1, <2>2 DEF applyOrderEvent
<1>6. UNCHANGED <<phase, oms, cmdCh, userCh, tags, todo, owner, xstat, submitted,
                  ambiguous, missed, downs>>
  BY DEF applyOrderEvent, exchange
<1>. QED
  BY <1>2, <1>3, <1>5, <1>6 DEF TypeOK

LEMMA PumpType ==
  ASSUME TypeOK, NEW drop \in BOOLEAN, pump(drop)
  PROVE  TypeOK'
<1>. DEFINE u == Head(userCh)
            e == [client |-> resolveLocalClientID(owner[u.exid]),
                  exid |-> u.exid, status |-> u.status]
<1>1. /\ userCh # <<>> /\ userCh' = Tail(userCh)
      /\ userCh \in Seq(UserEvent) /\ Len(userCh) \in Nat
      /\ Len(userCh) <= UserCap /\ UserCap \in Nat
  BY BoundsAssumption DEF pump, TypeOK
<1>2. userCh' \in Seq(UserEvent) /\ Len(userCh') <= UserCap
  BY <1>1
<1>3. u \in UserEvent
  BY <1>1
<1>4. e \in OrderEvent
  BY <1>3 DEF UserEvent, OrderEvent, resolveLocalClientID, TypeOK
<1>5. /\ events \in Seq(OrderEvent) /\ Len(events) <= EventCap
      /\ Len(events) \in Nat /\ EventCap \in Nat /\ missed \subseteq ExIds
  BY BoundsAssumption DEF TypeOK
<1>6. \/ missed' = missed \cup {u.exid} /\ events' = events
      \/ Len(events) < EventCap /\ events' = Append(events, e) /\ missed' = missed
  BY Zenon DEF pump
<1>7. /\ events' \in Seq(OrderEvent) /\ Len(events') <= EventCap
      /\ missed' \subseteq ExIds
  <2>1. u.exid \in ExIds
    BY <1>3 DEF UserEvent
  <2>. HIDE DEF e, u
  <2>. QED
    BY <1>4, <1>5, <1>6, <2>1
<1>8. tags' \subseteq Orders
  BY DEF pump, TypeOK
<1>9. UNCHANGED <<phase, orders, store, oms, cmdCh, todo, owner, xstat, submitted,
                  ambiguous, unsaved, downs, faults>>
  BY DEF pump, exchange, bounds
<1>. HIDE DEF e, u
<1>. QED
  BY <1>2, <1>7, <1>8, <1>9 DEF TypeOK

LEMMA AcceptType ==
  ASSUME TypeOK, Linked, NEW x \in ExIds, NEW answered \in BOOLEAN,
         NEW lost \in BOOLEAN, ExchangeAccepts(x, answered, lost)
  PROVE  TypeOK'
<1>1. userCh' \in Seq(UserEvent) /\ Len(userCh') <= UserCap /\ missed' \subseteq ExIds
  BY PublishType DEF ExchangeAccepts, XStatus, Live
<1>2. faults' \in 0..MaxFaults
  <2>1. Cost(~answered) + Cost(lost) \in Nat
    BY DEF Cost
  <2>2. Spend(Cost(~answered) + Cost(lost))
    BY Zenon DEF ExchangeAccepts
  <2>. QED
    BY <2>1, <2>2, SpendType
<1>3. /\ owner' \in [ExIds -> Orders \cup {NoOrder}]
      /\ xstat' \in [ExIds -> XStatus \cup {"None"}]
      /\ oms.order \in Orders
  BY DEF ExchangeAccepts, TypeOK, XStatus, Live, Linked
<1>4. PICK g \in ExIds \cup {NoId} : oms' = [oms EXCEPT !.pc = "answered", !.got = g]
  <2>1. CASE answered
    BY <2>1 DEF ExchangeAccepts
  <2>2. CASE ~answered
    BY <2>2 DEF ExchangeAccepts
  <2>. QED
    BY <2>1, <2>2
<1>5. oms' \in OmsState
  BY <1>4 DEF TypeOK, OmsState
<1>6. ambiguous' \subseteq Orders
  <2>1. ambiguous' = ambiguous \/ ambiguous' = ambiguous \cup {oms.order}
    BY Zenon DEF ExchangeAccepts
  <2>. QED
    BY <1>3, <2>1 DEF TypeOK
<1>7. UNCHANGED <<phase, orders, store, cmdCh, events, tags, todo, submitted,
                  unsaved, downs>>
  BY Zenon DEF ExchangeAccepts
<1>. QED
  BY <1>1, <1>2, <1>3, <1>5, <1>6, <1>7 DEF TypeOK

LEMMA RefuseType ==
  ASSUME TypeOK, ExchangeRefuses
  PROVE  TypeOK'
<1>1. oms' \in OmsState
  BY DEF ExchangeRefuses, TypeOK, OmsState
<1>. QED
  BY <1>1 DEF TypeOK, ExchangeRefuses, exchange, bounds, queues

LEMMA MoveType ==
  ASSUME TypeOK, NEW x \in ExIds, NEW status \in XStatus, NEW lost \in BOOLEAN,
         ExchangeMoves(x, status, lost)
  PROVE  TypeOK'
<1>1. userCh' \in Seq(UserEvent) /\ Len(userCh') <= UserCap /\ missed' \subseteq ExIds
  BY PublishType DEF ExchangeMoves
<1>2. faults' \in 0..MaxFaults
  BY SpendType, CostType DEF ExchangeMoves
<1>3. xstat' \in [ExIds -> XStatus \cup {"None"}]
  BY DEF ExchangeMoves, TypeOK
<1>. QED
  BY <1>1, <1>2, <1>3 DEF TypeOK, ExchangeMoves

LEMMA StartUpType == TypeOK /\ Linked /\ StartUp => TypeOK'
<1> SUFFICES ASSUME TypeOK, Linked, StartUp  PROVE TypeOK'
  OBVIOUS
<1>1. CASE loadSnapshot
  <2>1. orders' \in [Orders -> Row] /\ todo' \subseteq Orders /\ missed' \subseteq ExIds
    BY <1>1 DEF loadSnapshot, TypeOK, Row, NoRow
  <2>. QED
    BY <1>1, <2>1 DEF TypeOK, loadSnapshot, Phase, exchange, queues, bounds
<1>2. ASSUME NEW o \in Orders, NEW fails \in BOOLEAN,
             reconcile(o, fails) \/ reconcileNotFound(o, fails)
      PROVE  TypeOK'
  <2>. DEFINE x == orders[o].exid
  <2>1. x \in ExIds /\ xstat[x] \in XStatus
    BY <1>2 DEF reconcile, reconcileNotFound, Linked, RowsLinked, TypeOK, Row
  <2>2. faults' \in 0..MaxFaults
    BY <1>2, SpendType, CostType DEF reconcile, reconcileNotFound
  <2>3. missed' \subseteq ExIds
    BY <1>2, <2>1, RefreshType DEF reconcile, reconcileNotFound
  <2>4. PICK s \in XStatus : Update(o, [orders[o] EXCEPT !.status = s], fails)
    BY <1>2, <2>1 DEF reconcile, reconcileNotFound, XStatus
  <2>5. s \in Status
    BY DEF XStatus, Status, NonFinal
  <2>6. /\ orders' \in [Orders -> Row] /\ store' \in [Orders -> Row]
        /\ unsaved' \subseteq Orders
    BY <2>4, <2>5, RowTypes, UpdateType
  <2>7. todo' \subseteq Orders
    BY <1>2 DEF reconcile, reconcileNotFound, TypeOK
  <2>8. UNCHANGED <<phase, oms, cmdCh, events, userCh, tags, owner, xstat, submitted,
                    ambiguous, downs>>
    BY <1>2 DEF reconcile, reconcileNotFound, queues, exchange
  <2>. HIDE DEF x
  <2>. QED
    BY <2>2, <2>3, <2>6, <2>7, <2>8 DEF TypeOK
<1>3. ASSUME NEW o \in Orders, reconcileFailed(o)
      PROVE  TypeOK'
  <2>1. faults' \in 0..MaxFaults
    BY <1>3, SpendType DEF reconcileFailed
  <2>2. todo' \subseteq Orders
    BY <1>3 DEF reconcileFailed, TypeOK
  <2>. QED
    BY <1>3, <2>1, <2>2 DEF TypeOK, reconcileFailed, exchange, queues
<1>4. CASE Start
  BY <1>4 DEF TypeOK, Start, Phase, exchange, queues, bounds
<1>. QED
  BY <1>1, <1>2, <1>3, <1>4 DEF StartUp

LEMMA ShutDownType == TypeOK /\ ShutDown => TypeOK'
<1> SUFFICES ASSUME TypeOK, ShutDown  PROVE TypeOK'
  OBVIOUS
<1>1. CASE StopMarkets
  <2>1. cmdCh' \in Seq(Cmd) /\ Len(cmdCh') <= CmdCap
    BY <1>1, EnqueueType DEF StopMarkets, Cmd
  <2>. QED
    BY <1>1, <2>1 DEF TypeOK, StopMarkets, Phase, exchange, bounds
<1>2. CASE CancelRunCtx
  BY <1>2 DEF TypeOK, CancelRunCtx, Phase, exchange, queues, bounds
<1>3. CASE GoDown
  <2>1. orders' \in [Orders -> Row] /\ oms' \in OmsState /\ downs' \in 0..MaxDowns
    BY <1>3, BoundsAssumption
    DEF GoDown, TypeOK, Row, NoRow, OmsState, Idle
  <2>2. /\ cmdCh' \in Seq(Cmd) /\ Len(cmdCh') <= CmdCap
        /\ events' \in Seq(OrderEvent) /\ Len(events') <= EventCap
        /\ userCh' \in Seq(UserEvent) /\ Len(userCh') <= UserCap
    BY <1>3, BoundsAssumption DEF GoDown
  <2>. QED
    BY <1>3, <2>1, <2>2 DEF TypeOK, GoDown, Phase, exchange
<1>. QED
  BY <1>1, <1>2, <1>3 DEF ShutDown, Exit, Crash

LEMMA TypeStep == TypeOK /\ Linked /\ [Next]_vars => TypeOK'
<1> SUFFICES ASSUME TypeOK, Linked, [Next]_vars  PROVE TypeOK'
  OBVIOUS
<1>1. CASE Callers
  BY <1>1, CallersType
<1>2. CASE RunLoop
  <2>1. oms.pc # "idle" => oms.order \in Orders
    BY DEF Linked
  <2>2. \A o \in Orders : orders[o].exid # NoId => xstat[orders[o].exid] # "None"
    BY DEF Linked, RowsLinked
  <2>. QED
    BY <1>2, <2>1, <2>2, SubmitType, PlaceResultType, CancelType, SyncType, FlushType,
       EventType
    DEF RunLoop, submitRetry, handleSubmitSuccess, handleSubmitError
<1>3. CASE Pump
  BY <1>3, PumpType DEF Pump
<1>4. CASE Exchange
  BY <1>4, AcceptType, RefuseType, MoveType DEF Exchange
<1>5. CASE StartUp
  BY <1>5, StartUpType
<1>6. CASE ShutDown
  BY <1>6, ShutDownType
<1>7. CASE UNCHANGED vars
  BY <1>7 DEF vars, TypeOK, exchange, queues, bounds
<1>. QED
  BY <1>1, <1>2, <1>3, <1>4, <1>5, <1>6, <1>7 DEF Next

-----------------------------------------------------------------------------
(* Linked is preserved *)

\* An update whose row names a real exchange order, or none, keeps the rows linked.
LEMMA UpdateLinked ==
  ASSUME TypeOK, Linked, NEW o \in Orders, NEW row \in Row, NEW fails \in BOOLEAN,
         Update(o, row, fails), row.exid # NoId => xstat[row.exid] # "None"
  PROVE  RowsLinked(orders') /\ RowsLinked(store')
BY DEF TypeOK, Linked, RowsLinked, Update, Save

LEMMA StatusLinked ==
  ASSUME TypeOK, Linked, NEW o \in Orders, NEW s \in Status, NEW fails \in BOOLEAN,
         Update(o, [orders[o] EXCEPT !.status = s], fails)
  PROVE  RowsLinked(orders') /\ RowsLinked(store')
<1>. DEFINE row == [orders[o] EXCEPT !.status = s]
<1>1. row \in Row /\ row.exid = orders[o].exid /\ Update(o, row, fails)
  BY RowTypes DEF TypeOK, Row
<1>. HIDE DEF row
<1>. QED
  BY <1>1, UpdateLinked DEF Linked, RowsLinked

\* An exchange order never disappears.
LEMMA XstatKept ==
  ASSUME TypeOK, Linked, [Next]_vars
  PROVE  \A x \in ExIds : xstat[x] # "None" => xstat'[x] # "None"
<1>1. CASE xstat' = xstat
  BY <1>1
<1>2. ASSUME NEW x \in ExIds, NEW s \in XStatus, xstat' = [xstat EXCEPT ![x] = s]
      PROVE  \A y \in ExIds : xstat[y] # "None" => xstat'[y] # "None"
  BY <1>2 DEF TypeOK, XStatus, Live
<1>3. \/ xstat' = xstat
      \/ \E x \in ExIds, s \in XStatus : xstat' = [xstat EXCEPT ![x] = s]
  <2>1. CASE Callers
    BY <2>1 DEF Callers, SubmitOrder, CancelOrder, SyncOrderStatus, exchange
  <2>2. ASSUME NEW o \in Orders, NEW answered \in BOOLEAN, NEW lost \in BOOLEAN,
               NEW fails \in BOOLEAN, execCancel(o, answered, lost, fails)
        PROVE  \E x \in ExIds, s \in XStatus : xstat' = [xstat EXCEPT ![x] = s]
    <3>1. orders[o].exid \in ExIds /\ "Cancelled" \in XStatus
      BY <2>2 DEF execCancel, TypeOK, Row, XStatus
    <3>. QED
      BY <2>2, <3>1, Zenon DEF execCancel
  <2>3. CASE RunLoop /\ xstat' # xstat
    <3>1. PICK o \in Orders, answered \in BOOLEAN, lost \in BOOLEAN, fails \in BOOLEAN :
            execCancel(o, answered, lost, fails)
      BY <2>3 DEF RunLoop, execSubmitDuplicate, execSubmit, execCancelRefused,
         execSyncFailed, execSync, submitRetry, handleSubmitSuccess, handleSubmitError,
         applyOrderEvent, execFlush, exchange
    <3>. QED
      BY <2>2, <3>1
  <2>4. CASE Pump
    BY <2>4 DEF Pump, pump, exchange
  <2>5. CASE Exchange
    BY <2>5, Zenon
    DEF Exchange, ExchangeRefuses, ExchangeAccepts, ExchangeMoves, exchange, XStatus, Live
  <2>6. CASE StartUp
    BY <2>6 DEF StartUp, loadSnapshot, reconcile, reconcileNotFound, reconcileFailed,
       Start, exchange
  <2>7. CASE ShutDown
    BY <2>7 DEF ShutDown, StopMarkets, CancelRunCtx, Exit, Crash, GoDown, exchange
  <2>8. CASE UNCHANGED vars
    BY <2>8 DEF vars, exchange
  <2>. QED
    BY <2>1, <2>3, <2>4, <2>5, <2>6, <2>7, <2>8 DEF Next
<1>. QED
  BY <1>1, <1>2, <1>3

\* The rows after a step are linked to the exchange orders there were before it.
LEMMA RunLoopRows ==
  ASSUME TypeOK, Linked, RunLoop
  PROVE  RowsLinked(orders') /\ RowsLinked(store')
<1>1. CASE UNCHANGED <<orders, store>>
  BY <1>1 DEF Linked
<1>2. ASSUME NEW o \in Orders, NEW valid \in BOOLEAN, NEW fails \in BOOLEAN,
             execSubmit(o, valid, fails)
      PROVE  RowsLinked(orders') /\ RowsLinked(store')
  <2>1. PICK row \in Row : row.exid = NoId /\ Update(o, row, fails)
    BY <1>2 DEF execSubmit, Row, Status, NonFinal
  <2>. QED
    BY <2>1, UpdateLinked
<1>3. ASSUME NEW o \in Orders, NEW answered \in BOOLEAN, NEW lost \in BOOLEAN,
             NEW fails \in BOOLEAN, execCancel(o, answered, lost, fails)
      PROVE  RowsLinked(orders') /\ RowsLinked(store')
  <2>1. \/ UNCHANGED <<orders, store>>
        \/ Update(o, [orders[o] EXCEPT !.status = "Cancelled"], fails)
    BY <1>3, Zenon DEF execCancel
  <2>. QED
    BY <1>1, <2>1, StatusLinked DEF Status
<1>4. ASSUME NEW o \in Orders, NEW fails \in BOOLEAN, execSync(o, fails)
      PROVE  RowsLinked(orders') /\ RowsLinked(store')
  <2>1. xstat[orders[o].exid] \in Status
    BY <1>4 DEF execSync, Linked, RowsLinked, TypeOK, Row, XStatus, Status, NonFinal
  <2>. QED
    BY <1>4, <2>1, StatusLinked DEF execSync
<1>5. ASSUME NEW fails \in BOOLEAN, handleSubmitSuccess(fails)
      PROVE  RowsLinked(orders') /\ RowsLinked(store')
  <2>1. /\ oms.order \in Orders /\ xstat[oms.got] # "None"
        /\ [status |-> "Submitted", exid |-> oms.got] \in Row
    BY <1>5 DEF handleSubmitSuccess, Linked, TypeOK, OmsState, Row, Status, NonFinal, Live
  <2>. QED
    BY <1>5, <2>1, UpdateLinked DEF handleSubmitSuccess
<1>6. ASSUME NEW fails \in BOOLEAN, handleSubmitError(fails)
      PROVE  RowsLinked(orders') /\ RowsLinked(store')
  BY <1>6, StatusLinked DEF handleSubmitError, Linked, Status
<1>7. ASSUME NEW fails \in BOOLEAN, applyOrderEvent(fails)
      PROVE  RowsLinked(orders') /\ RowsLinked(store')
  <2>1. Head(events) \in OrderEvent
    BY <1>7 DEF applyOrderEvent, TypeOK
  <2>2. \A o \in Matches(Head(events)) : o \in Orders
    BY <2>1 DEF Matches, OrderEvent
  <2>3. Head(events).status \in Status
    BY <2>1 DEF OrderEvent, XStatus, Status, NonFinal
  <2>. QED
    BY <1>1, <1>7, <2>2, <2>3, StatusLinked DEF applyOrderEvent
<1>8. ASSUME NEW saved \in SUBSET Orders, execFlush(saved)
      PROVE  RowsLinked(orders') /\ RowsLinked(store')
  BY <1>8 DEF execFlush, Linked, RowsLinked
<1>9. ASSUME NEW o \in Orders,
             execSubmitDuplicate(o) \/ execCancelRefused(o) \/ execSyncFailed(o)
      PROVE  RowsLinked(orders') /\ RowsLinked(store')
  BY <1>1, <1>9 DEF execSubmitDuplicate, execCancelRefused, execSyncFailed
<1>10. CASE submitRetry
  BY <1>1, <1>10 DEF submitRetry
<1>. QED
  BY <1>2, <1>3, <1>4, <1>5, <1>6, <1>7, <1>8, <1>9, <1>10 DEF RunLoop

LEMMA StartUpRows ==
  ASSUME TypeOK, Linked, StartUp
  PROVE  RowsLinked(orders') /\ RowsLinked(store')
<1>1. CASE UNCHANGED <<orders, store>>
  BY <1>1 DEF Linked
<1>2. CASE loadSnapshot
  BY <1>2 DEF loadSnapshot, Linked, RowsLinked, NoRow
<1>3. ASSUME NEW o \in Orders, NEW fails \in BOOLEAN,
             reconcile(o, fails) \/ reconcileNotFound(o, fails)
      PROVE  RowsLinked(orders') /\ RowsLinked(store')
  <2>1. PICK s \in XStatus : Update(o, [orders[o] EXCEPT !.status = s], fails)
    BY <1>3 DEF reconcile, reconcileNotFound, XStatus, Linked, RowsLinked, TypeOK, Row
  <2>2. s \in Status
    BY DEF XStatus, Status, NonFinal
  <2>. QED
    BY <2>1, <2>2, StatusLinked
<1>. QED
  BY <1>1, <1>2, <1>3 DEF StartUp, reconcileFailed, Start

LEMMA StepRows ==
  ASSUME TypeOK, Linked, [Next]_vars
  PROVE  RowsLinked(orders') /\ RowsLinked(store')
<1>1. CASE UNCHANGED <<orders, store>>
  BY <1>1 DEF Linked
<1>2. CASE GoDown
  BY <1>2 DEF GoDown, Linked, RowsLinked, NoRow
<1>3. CASE Callers \/ Pump \/ Exchange \/ StopMarkets \/ CancelRunCtx \/ UNCHANGED vars
  BY <1>1, <1>3, Zenon
  DEF Callers, SubmitOrder, CancelOrder, SyncOrderStatus, Pump, pump, Exchange,
      ExchangeAccepts, ExchangeRefuses, ExchangeMoves, StopMarkets, CancelRunCtx, vars
<1>. QED
  BY <1>2, <1>3, RunLoopRows, StartUpRows DEF Next, ShutDown, Exit, Crash

\* The Place call in progress names an order, and its answer an exchange order.
LEMMA CallLinked ==
  ASSUME TypeOK, Linked, [Next]_vars
  PROVE  /\ oms'.pc # "idle" => oms'.order \in Orders
         /\ oms'.got # NoId => xstat'[oms'.got] # "None"
<1>1. CASE UNCHANGED oms
  BY <1>1, XstatKept DEF Linked, TypeOK, OmsState
<1>2. CASE oms' = Idle
  BY <1>2 DEF Idle
<1>3. ASSUME NEW o \in Orders, NEW valid \in BOOLEAN, NEW fails \in BOOLEAN,
             execSubmit(o, valid, fails)
      PROVE  /\ oms'.pc # "idle" => oms'.order \in Orders
             /\ oms'.got # NoId => xstat'[oms'.got] # "None"
  <2>1. \/ UNCHANGED oms
        \/ oms' = [pc |-> "waiting", order |-> o, attempt |-> 0, got |-> NoId]
    BY <1>3, Zenon DEF execSubmit
  <2>. QED
    BY <1>1, <2>1
<1>4. CASE submitRetry \/ ExchangeRefuses
  <2>1. oms' \in OmsState /\ oms'.order = oms.order /\ oms'.got = NoId
    BY <1>4, TypeStep DEF submitRetry, ExchangeRefuses, TypeOK, OmsState
  <2>. QED
    BY <1>4, <2>1 DEF Linked, submitRetry, ExchangeRefuses
<1>5. ASSUME NEW x \in ExIds, NEW answered \in BOOLEAN, NEW lost \in BOOLEAN,
             ExchangeAccepts(x, answered, lost)
      PROVE  /\ oms'.pc # "idle" => oms'.order \in Orders
             /\ oms'.got # NoId => xstat'[oms'.got] # "None"
  <2>1. PICK g \in {x, NoId} : oms' = [oms EXCEPT !.pc = "answered", !.got = g]
    BY <1>5, Zenon DEF ExchangeAccepts
  <2>2. oms.order \in Orders /\ oms'.order = oms.order /\ oms'.got = g
    BY <1>5, <2>1 DEF ExchangeAccepts, Linked, TypeOK, OmsState
  <2>3. xstat'[x] = "Submitted"
    BY <1>5 DEF ExchangeAccepts, TypeOK
  <2>. QED
    BY <2>2, <2>3
<1>6. CASE Callers \/ Pump \/ StartUp \/ ShutDown \/ UNCHANGED vars
  <2>1. oms' = oms \/ oms' = Idle
    BY <1>6, Zenon
    DEF Callers, SubmitOrder, CancelOrder, SyncOrderStatus, Pump, pump, StartUp,
        loadSnapshot, reconcile, reconcileNotFound, reconcileFailed, Start, ShutDown,
        StopMarkets, CancelRunCtx, Exit, Crash, GoDown, vars
  <2>. QED
    BY <1>1, <1>2, <2>1
<1>7. ASSUME NEW x \in ExIds, NEW status \in XStatus, NEW lost \in BOOLEAN,
             ExchangeMoves(x, status, lost)
      PROVE  UNCHANGED oms
  BY <1>7 DEF ExchangeMoves
<1>8. CASE RunLoop /\ ~submitRetry
  <2>1. ASSUME NEW o \in Orders, NEW answered \in BOOLEAN, NEW lost \in BOOLEAN,
               NEW fails \in BOOLEAN, execCancel(o, answered, lost, fails)
        PROVE  UNCHANGED oms
    BY <2>1, Zenon DEF execCancel
  <2>. QED
    BY <1>1, <1>2, <1>3, <1>8, <2>1
    DEF RunLoop, execSubmitDuplicate, execCancelRefused, execSyncFailed, execSync,
        handleSubmitSuccess, handleSubmitError, applyOrderEvent, execFlush
<1>. QED
  BY <1>1, <1>4, <1>5, <1>6, <1>7, <1>8 DEF Next, Exchange

\* Only start-up has orders left to reconcile, each with its exchange id.
LEMMA TodoLinked ==
  ASSUME TypeOK, Linked, [Next]_vars
  PROVE  /\ phase' # "recovering" => todo' = {}
         /\ \A o \in todo' : orders'[o].exid # NoId
<1>1. CASE loadSnapshot
  BY <1>1 DEF loadSnapshot, TypeOK
<1>2. ASSUME NEW o \in Orders, NEW fails \in BOOLEAN,
             reconcile(o, fails) \/ reconcileNotFound(o, fails)
      PROVE  /\ phase' # "recovering" => todo' = {}
             /\ \A p \in todo' : orders'[p].exid # NoId
  <2>1. /\ phase = "recovering" /\ phase' = phase /\ todo' = todo \ {o}
        /\ \E s : orders' = [orders EXCEPT ![o] = [orders[o] EXCEPT !.status = s]]
    BY <1>2 DEF reconcile, reconcileNotFound, Update
  <2>2. \A p \in todo' : p \in Orders /\ orders'[p] = orders[p]
    BY <2>1 DEF TypeOK
  <2>. QED
    BY <2>1, <2>2 DEF Linked
<1>3. ASSUME NEW o \in Orders, reconcileFailed(o)
      PROVE  /\ phase' # "recovering" => todo' = {}
             /\ \A p \in todo' : orders'[p].exid # NoId
  BY <1>3 DEF reconcileFailed, Linked
<1>4. CASE Start
  BY <1>4 DEF Start, Linked
<1>5. CASE ShutDown
  BY <1>5 DEF ShutDown, StopMarkets, CancelRunCtx, Exit, Crash, GoDown, Linked
<1>6. CASE Callers \/ Pump \/ Exchange \/ UNCHANGED vars
  <2>1. UNCHANGED <<phase, todo, orders>>
    BY <1>6, Zenon
    DEF Callers, SubmitOrder, CancelOrder, SyncOrderStatus, Pump, pump, Exchange,
        ExchangeAccepts, ExchangeRefuses, ExchangeMoves, vars
  <2>. QED
    BY <2>1 DEF Linked
<1>7. CASE RunLoop
  <2>1. UNCHANGED <<phase, todo>>
    BY <1>7, Zenon
    DEF RunLoop, execSubmitDuplicate, execSubmit, execCancelRefused, execCancel,
        execSyncFailed, execSync, submitRetry, handleSubmitSuccess, handleSubmitError,
        applyOrderEvent, execFlush
  <2>2. phase # "recovering"
    BY <1>7, Zenon
    DEF RunLoop, execSubmitDuplicate, execSubmit, execCancelRefused, execCancel,
        execSyncFailed, execSync, submitRetry, handleSubmitSuccess, handleSubmitError,
        applyOrderEvent, execFlush, Serving, Running
  <2>. QED
    BY <2>1, <2>2 DEF Linked
<1>. QED
  BY <1>1, <1>2, <1>3, <1>4, <1>5, <1>6, <1>7 DEF Next, StartUp

LEMMA LinkedStep == TypeOK /\ Linked /\ [Next]_vars => Linked'
<1> SUFFICES ASSUME TypeOK, Linked, [Next]_vars  PROVE Linked'
  OBVIOUS
<1>1. TypeOK'
  BY TypeStep
<1>2. RowsLinked(orders)' /\ RowsLinked(store)'
  BY <1>1, StepRows, XstatKept DEF RowsLinked, TypeOK, Row
<1>. QED
  BY <1>2, CallLinked, TodoLinked DEF Linked

LEMMA LinkedInit == Init => Linked
BY DEF Init, Linked, RowsLinked, Idle, NoRow

\* Types of every variable and the bounds of the channels hold in every reachable
\* state: cmdCh, the event buffers and the user channel never exceed their capacity
\* (cmdCh, emitOrderEvent, fan-in).
THEOREM TypeCorrect == Spec => []TypeOK
<1>1. Init => TypeOK /\ Linked
  BY InitType, LinkedInit
<1>2. TypeOK /\ Linked /\ [Next]_vars => (TypeOK /\ Linked)'
  BY TypeStep, LinkedStep
<1>. QED
  BY <1>1, <1>2, PTL DEF Spec

-----------------------------------------------------------------------------
(* One exchange order per local id *)

\* An order the OMS knows stays known until the process ends.
LEMMA KnownKept ==
  ASSUME TypeOK, Linked, [Next]_vars, phase # "down", phase' # "down"
  PROVE  \A o \in Orders : orders[o].status # "None" => orders'[o].status # "None"
<1>. DEFINE Kept == \A o \in Orders : orders[o].status # "None" => orders'[o].status # "None"
<1>1. CASE UNCHANGED orders
  BY <1>1
<1>2. ASSUME NEW o \in Orders, NEW row \in Row, row.status # "None",
             orders' = [orders EXCEPT ![o] = row]
      PROVE  Kept
  BY <1>2 DEF TypeOK
<1>3. ASSUME NEW o \in Orders, NEW s \in Status,
             orders' = [orders EXCEPT ![o] = [orders[o] EXCEPT !.status = s]]
      PROVE  Kept
  <2>1. [orders[o] EXCEPT !.status = s] \in Row
    BY RowTypes
  <2>2. [orders[o] EXCEPT !.status = s].status # "None"
    BY DEF TypeOK, Row, Status, NonFinal, Live
  <2>. QED
    BY <1>2, <1>3, <2>1, <2>2
<1>4. CASE RunLoop
  <2>1. ASSUME NEW o \in Orders, NEW valid \in BOOLEAN, NEW fails \in BOOLEAN,
               execSubmit(o, valid, fails)
        PROVE  Kept
    <3>1. PICK s \in {"Pending", "Rejected"} : Update(o, [status |-> s, exid |-> NoId], fails)
      BY <2>1 DEF execSubmit
    <3>2. [status |-> s, exid |-> NoId] \in Row
      BY DEF Row, Status, NonFinal
    <3>. QED
      BY <1>2, <3>1, <3>2 DEF Update
  <2>2. ASSUME NEW o \in Orders, NEW answered \in BOOLEAN, NEW lost \in BOOLEAN,
               NEW fails \in BOOLEAN, execCancel(o, answered, lost, fails)
        PROVE  Kept
    <3>1. \/ UNCHANGED orders
          \/ orders' = [orders EXCEPT ![o] = [orders[o] EXCEPT !.status = "Cancelled"]]
      BY <2>2, Zenon DEF execCancel, Update
    <3>2. "Cancelled" \in Status
      BY DEF Status
    <3>. QED
      BY <1>1, <1>3, <3>1, <3>2
  <2>3. ASSUME NEW o \in Orders, NEW fails \in BOOLEAN, execSync(o, fails)
        PROVE  Kept
    <3>1. xstat[orders[o].exid] \in Status
      BY <2>3 DEF execSync, Linked, RowsLinked, TypeOK, Row, XStatus, Status, NonFinal
    <3>. QED
      BY <1>3, <2>3, <3>1 DEF execSync, Update
  <2>4. ASSUME NEW fails \in BOOLEAN, handleSubmitSuccess(fails)
        PROVE  Kept
    <3>1. oms.order \in Orders /\ [status |-> "Submitted", exid |-> oms.got] \in Row
      BY <2>4 DEF handleSubmitSuccess, Linked, TypeOK, OmsState, Row, Status, NonFinal, Live
    <3>. QED
      BY <1>2, <2>4, <3>1 DEF handleSubmitSuccess, Update
  <2>5. ASSUME NEW fails \in BOOLEAN, handleSubmitError(fails)
        PROVE  Kept
    BY <1>3, <2>5 DEF handleSubmitError, Update, Linked, Status
  <2>6. ASSUME NEW fails \in BOOLEAN, applyOrderEvent(fails)
        PROVE  Kept
    <3>1. Head(events) \in OrderEvent
      BY <2>6 DEF applyOrderEvent, TypeOK
    <3>2. \A o \in Matches(Head(events)) : o \in Orders
      BY <3>1 DEF Matches, OrderEvent
    <3>3. Head(events).status \in Status
      BY <3>1 DEF OrderEvent, XStatus, Status, NonFinal
    <3>. QED
      BY <1>1, <1>3, <2>6, <3>2, <3>3 DEF applyOrderEvent, Update
  <2>7. ASSUME NEW o \in Orders,
               execSubmitDuplicate(o) \/ execCancelRefused(o) \/ execSyncFailed(o)
        PROVE  Kept
    BY <1>1, <2>7 DEF execSubmitDuplicate, execCancelRefused, execSyncFailed
  <2>8. ASSUME submitRetry \/ \E saved \in SUBSET Orders : execFlush(saved)
        PROVE  Kept
    BY <1>1, <2>8 DEF submitRetry, execFlush
  <2>. QED
    BY <1>4, <2>1, <2>2, <2>3, <2>4, <2>5, <2>6, <2>7, <2>8 DEF RunLoop
<1>5. CASE StartUp
  <2>1. ASSUME NEW o \in Orders, NEW fails \in BOOLEAN,
               reconcile(o, fails) \/ reconcileNotFound(o, fails)
        PROVE  Kept
    <3>1. PICK s \in XStatus :
            orders' = [orders EXCEPT ![o] = [orders[o] EXCEPT !.status = s]]
      BY <2>1
      DEF reconcile, reconcileNotFound, Update, XStatus, Linked, RowsLinked, TypeOK, Row
    <3>2. s \in Status
      BY DEF XStatus, Status, NonFinal
    <3>. QED
      BY <1>3, <3>1, <3>2
  <2>2. ASSUME (\E o \in Orders : reconcileFailed(o)) \/ Start
        PROVE  Kept
    BY <1>1, <2>2 DEF reconcileFailed, Start
  <2>3. ~loadSnapshot
    BY DEF loadSnapshot
  <2>. QED
    BY <1>5, <2>1, <2>2, <2>3 DEF StartUp
<1>6. CASE Callers \/ Pump \/ Exchange \/ ShutDown \/ UNCHANGED vars
  <2>1. UNCHANGED orders
    BY <1>6, Zenon
    DEF Callers, SubmitOrder, CancelOrder, SyncOrderStatus, Pump, pump, Exchange,
        ExchangeAccepts, ExchangeRefuses, ExchangeMoves, ShutDown, StopMarkets,
        CancelRunCtx, Exit, Crash, GoDown, vars
  <2>. QED
    BY <1>1, <2>1
<1>. QED
  BY <1>4, <1>5, <1>6 DEF Next

\* Only an accepted Place changes the owner of an exchange order.
LEMMA OwnerStep ==
  ASSUME [Next]_vars
  PROVE  \/ UNCHANGED <<owner, ambiguous>>
         \/ \E x \in ExIds, answered, lost \in BOOLEAN : ExchangeAccepts(x, answered, lost)
<1>1. CASE Callers \/ Pump \/ StartUp \/ ShutDown \/ UNCHANGED vars
  BY <1>1, Zenon
  DEF Callers, SubmitOrder, CancelOrder, SyncOrderStatus, Pump, pump, StartUp,
      loadSnapshot, reconcile, reconcileNotFound, reconcileFailed, Start, ShutDown,
      StopMarkets, CancelRunCtx, Exit, Crash, GoDown, vars, exchange
<1>2. CASE RunLoop
  BY <1>2, ZenonT(40)
  DEF RunLoop, execSubmitDuplicate, execSubmit, execCancelRefused, execCancel,
      execSyncFailed, execSync, submitRetry, handleSubmitSuccess, handleSubmitError,
      applyOrderEvent, execFlush, exchange
<1>3. CASE Exchange
  BY <1>3, Zenon DEF Exchange, ExchangeRefuses, ExchangeMoves, exchange
<1>. QED
  BY <1>1, <1>2, <1>3 DEF Next

LEMMA SubmittedGrows ==
  ASSUME [Next]_vars
  PROVE  \/ UNCHANGED submitted
         \/ \E o \in Orders : SubmitOrder(o) /\ submitted' = submitted \cup {o}
<1>1. CASE Callers \/ Pump \/ StartUp \/ ShutDown \/ UNCHANGED vars
  BY <1>1, Zenon
  DEF Callers, SubmitOrder, CancelOrder, SyncOrderStatus, Pump, pump, StartUp,
      loadSnapshot, reconcile, reconcileNotFound, reconcileFailed, Start, ShutDown,
      StopMarkets, CancelRunCtx, Exit, Crash, GoDown, vars
<1>2. CASE RunLoop
  BY <1>2, Zenon
  DEF RunLoop, execSubmitDuplicate, execSubmit, execCancelRefused, execCancel,
      execSyncFailed, execSync, submitRetry, handleSubmitSuccess, handleSubmitError,
      applyOrderEvent, execFlush
<1>3. CASE Exchange
  BY <1>3, Zenon DEF Exchange, ExchangeRefuses, ExchangeAccepts, ExchangeMoves
<1>. QED
  BY <1>1, <1>2, <1>3 DEF Next

\* How the Place call in progress changes.
LEMMA OmsStep ==
  ASSUME [Next]_vars
  PROVE  \/ UNCHANGED oms
         \/ oms' = Idle
         \/ submitRetry
         \/ ExchangeRefuses
         \/ \E x \in ExIds, answered, lost \in BOOLEAN : ExchangeAccepts(x, answered, lost)
         \/ \E o \in Orders, valid, fails \in BOOLEAN :
              /\ execSubmit(o, valid, fails)
              /\ Update(o, [status |-> "Pending", exid |-> NoId], fails)
              /\ oms' = [pc |-> "waiting", order |-> o, attempt |-> 0, got |-> NoId]
<1>1. CASE Callers \/ Pump \/ StartUp \/ ShutDown \/ UNCHANGED vars
  BY <1>1, Zenon
  DEF Callers, SubmitOrder, CancelOrder, SyncOrderStatus, Pump, pump, StartUp,
      loadSnapshot, reconcile, reconcileNotFound, reconcileFailed, Start, ShutDown,
      StopMarkets, CancelRunCtx, Exit, Crash, GoDown, vars
<1>2. ASSUME NEW o \in Orders, NEW valid \in BOOLEAN, NEW fails \in BOOLEAN,
             execSubmit(o, valid, fails)
      PROVE  \/ UNCHANGED oms
             \/ /\ Update(o, [status |-> "Pending", exid |-> NoId], fails)
                /\ oms' = [pc |-> "waiting", order |-> o, attempt |-> 0, got |-> NoId]
  BY <1>2, Zenon DEF execSubmit
<1>3. CASE RunLoop
  <2>1. \/ UNCHANGED oms
        \/ oms' = Idle
        \/ submitRetry
        \/ \E o \in Orders, valid, fails \in BOOLEAN : execSubmit(o, valid, fails)
    BY <1>3, Zenon
    DEF RunLoop, execSubmitDuplicate, execCancelRefused, execCancel, execSyncFailed,
        execSync, handleSubmitSuccess, handleSubmitError, applyOrderEvent, execFlush
  <2>. QED
    BY <1>2, <2>1, Zenon
<1>4. CASE Exchange
  BY <1>4, Zenon DEF Exchange, ExchangeMoves
<1>. QED
  BY <1>1, <1>3, <1>4 DEF Next

\* The process runs, is being started, or is gone; what each phase leaves alone.
LEMMA PhaseStep ==
  ASSUME [Next]_vars
  PROVE  \/ UNCHANGED phase
         \/ loadSnapshot
         \/ phase = "recovering" /\ phase' = "up" /\ UNCHANGED <<cmdCh, oms>>
         \/ phase \in {"up", "flushing"} /\ phase' \in {"flushing", "cancelled"}
         \/ GoDown
<1>1. CASE Callers \/ Pump \/ Exchange \/ UNCHANGED vars
  BY <1>1, Zenon
  DEF Callers, SubmitOrder, CancelOrder, SyncOrderStatus, Pump, pump, Exchange,
      ExchangeRefuses, ExchangeAccepts, ExchangeMoves, vars
<1>2. CASE RunLoop
  BY <1>2, Zenon
  DEF RunLoop, execSubmitDuplicate, execSubmit, execCancelRefused, execCancel,
      execSyncFailed, execSync, submitRetry, handleSubmitSuccess, handleSubmitError,
      applyOrderEvent, execFlush
<1>3. CASE StartUp
  BY <1>3, Zenon DEF StartUp, reconcile, reconcileNotFound, reconcileFailed, Start, queues
<1>4. CASE ShutDown
  BY <1>4, Zenon DEF ShutDown, StopMarkets, CancelRunCtx, Exit, Crash
<1>. QED
  BY <1>1, <1>2, <1>3, <1>4 DEF Next

LEMMA CmdStep ==
  ASSUME [Next]_vars
  PROVE  \/ UNCHANGED cmdCh
         \/ cmdCh' = <<>> /\ GoDown
         \/ cmdCh # <<>> /\ cmdCh' = Tail(cmdCh) /\ Running
         \/ /\ phase \in {"up", "flushing"}
            /\ \E c \in Cmd :
                 /\ cmdCh' = Append(cmdCh, c)
                 /\ c.op = "submit" => c.order \in Orders /\ SubmitOrder(c.order)
<1>1. CASE Callers
  <2>1. PICK o \in Orders : SubmitOrder(o) \/ CancelOrder(o) \/ SyncOrderStatus(o)
    BY <1>1 DEF Callers
  <2>2. PICK op \in {"submit", "cancel", "sync"} :
          Enqueue(op, o) /\ (op = "submit" => SubmitOrder(o))
    BY <2>1 DEF SubmitOrder, CancelOrder, SyncOrderStatus
  <2>3. /\ [op |-> op, order |-> o] \in Cmd
        /\ [op |-> op, order |-> o].op = op /\ [op |-> op, order |-> o].order = o
    BY DEF Cmd
  <2>. QED
    BY <2>2, <2>3 DEF Enqueue
<1>2. CASE RunLoop
  BY <1>2, ZenonT(40)
  DEF RunLoop, execSubmitDuplicate, execSubmit, execCancelRefused, execCancel,
      execSyncFailed, execSync, submitRetry, handleSubmitSuccess, handleSubmitError,
      applyOrderEvent, execFlush, Serving, queues
<1>3. CASE StopMarkets
  <2>1. [op |-> "flush", order |-> NoOrder] \in Cmd
    BY DEF Cmd
  <2>. QED
    BY <1>3, <2>1 DEF StopMarkets
<1>4. CASE CancelRunCtx \/ GoDown
  BY <1>4 DEF CancelRunCtx, GoDown, queues
<1>5. CASE Pump \/ Exchange \/ StartUp \/ UNCHANGED vars
  BY <1>5, Zenon
  DEF Pump, pump, Exchange, ExchangeRefuses, ExchangeAccepts, ExchangeMoves, StartUp,
      loadSnapshot, reconcile, reconcileNotFound, reconcileFailed, Start, vars, queues
<1>. QED
  BY <1>1, <1>2, <1>3, <1>4, <1>5 DEF Next, ShutDown, Exit, Crash

LEMMA QuietStep ==
  ASSUME IInv, [Next]_vars
  PROVE  QuietWhileDown'
<1>1. CASE phase \in {"down", "recovering"} /\ phase' \in {"down", "recovering"} /\ ~GoDown
  <2>1. cmdCh = <<>> /\ oms.pc = "idle"
    BY <1>1 DEF IInv, Placements, QuietWhileDown
  <2>2. UNCHANGED cmdCh
    BY <1>1, <2>1, CmdStep DEF Running
  <2>3. UNCHANGED oms \/ oms' = Idle
    BY <1>1, <2>1, OmsStep
    DEF submitRetry, ExchangeRefuses, ExchangeAccepts, execSubmit, Serving, Running
  <2>. QED
    BY <2>1, <2>2, <2>3 DEF QuietWhileDown, Idle
<1>2. CASE GoDown
  BY <1>2 DEF GoDown, Idle, QuietWhileDown
<1>3. CASE phase \notin {"down", "recovering"} /\ ~GoDown
  <2>1. phase' \notin {"down", "recovering"}
    BY <1>3, PhaseStep DEF loadSnapshot
  <2>. QED
    BY <2>1 DEF QuietWhileDown
<1>4. CASE phase' \notin {"down", "recovering"}
  BY <1>4 DEF QuietWhileDown
<1>. QED
  BY <1>1, <1>2, <1>3, <1>4

LEMMA CallKnownStep ==
  ASSUME IInv, [Next]_vars
  PROVE  CallKnown'
<1>. USE DEF IInv
<1>1. CASE oms' = Idle
  BY <1>1 DEF CallKnown, Idle
<1>2. ASSUME phase # "down", phase' # "down", oms.pc # "idle", oms'.order = oms.order
      PROVE  orders'[oms'.order].status # "None" /\ oms'.order \in submitted'
  <2>1. /\ orders[oms.order].status # "None" /\ oms.order \in submitted
        /\ oms.order \in Orders
    BY <1>2 DEF Placements, CallKnown, Linked
  <2>2. submitted \subseteq submitted'
    BY SubmittedGrows
  <2>. QED
    BY <1>2, <2>1, <2>2, KnownKept
<1>3. ASSUME phase' = "down"
      PROVE  oms'.pc = "idle" /\ CallKnown'
  <2>1. oms'.pc = "idle"
    BY <1>3, QuietStep DEF QuietWhileDown
  <2>. QED
    BY <2>1 DEF CallKnown
<1>4. ASSUME phase = "down"
      PROVE  oms.pc = "idle"
  BY <1>4 DEF Placements, QuietWhileDown
<1>5. CASE UNCHANGED oms
  BY <1>2, <1>3, <1>4, <1>5 DEF Placements, CallKnown
<1>6. CASE submitRetry \/ ExchangeRefuses
  <2>1. /\ oms.pc # "idle" /\ oms'.order = oms.order /\ oms'.got = NoId
    BY <1>6 DEF submitRetry, ExchangeRefuses, Placements, CallKnown, TypeOK, OmsState
  <2>. QED
    BY <1>2, <1>3, <1>4, <2>1 DEF CallKnown
<1>7. ASSUME NEW x \in ExIds, NEW answered \in BOOLEAN, NEW lost \in BOOLEAN,
             ExchangeAccepts(x, answered, lost)
      PROVE  CallKnown'
  <2>1. PICK g \in {x, NoId} : oms' = [oms EXCEPT !.pc = "answered", !.got = g]
    BY <1>7, Zenon DEF ExchangeAccepts
  <2>2. oms.pc # "idle" /\ oms'.order = oms.order /\ oms'.pc = "answered"
    BY <1>7, <2>1 DEF ExchangeAccepts, TypeOK, OmsState
  <2>. QED
    BY <1>2, <1>3, <1>4, <2>2 DEF CallKnown
<1>8. ASSUME NEW o \in Orders, NEW valid \in BOOLEAN, NEW fails \in BOOLEAN,
             execSubmit(o, valid, fails),
             Update(o, [status |-> "Pending", exid |-> NoId], fails),
             oms' = [pc |-> "waiting", order |-> o, attempt |-> 0, got |-> NoId]
      PROVE  CallKnown'
  <2>1. orders'[o].status = "Pending"
    BY <1>8 DEF Update, TypeOK
  <2>2. cmdCh # <<>> /\ Head(cmdCh) = [op |-> "submit", order |-> o]
    BY <1>8 DEF execSubmit, Serving
  <2>3. 1 \in DOMAIN cmdCh /\ cmdCh[1] = [op |-> "submit", order |-> o]
    BY <2>2 DEF TypeOK
  <2>4. o \in submitted /\ submitted \subseteq submitted'
    BY <2>3, SubmittedGrows DEF Placements, QueueFresh, FreshSubmit
  <2>. QED
    BY <1>8, <2>1, <2>4 DEF CallKnown
<1>. QED
  BY <1>1, <1>5, <1>6, <1>7, <1>8, OmsStep

LEMMA OwnersStep ==
  ASSUME IInv, [Next]_vars
  PROVE  OwnersSubmitted'
<1>1. submitted \subseteq submitted'
  BY SubmittedGrows
<1>2. CASE UNCHANGED owner
  BY <1>1, <1>2 DEF IInv, Placements, OwnersSubmitted
<1>3. ASSUME NEW x \in ExIds, NEW answered \in BOOLEAN, NEW lost \in BOOLEAN,
             ExchangeAccepts(x, answered, lost)
      PROVE  OwnersSubmitted'
  <2>1. owner' = [owner EXCEPT ![x] = oms.order] /\ oms.pc = "waiting"
    BY <1>3, Zenon DEF ExchangeAccepts
  <2>2. oms.order \in submitted
    BY <2>1 DEF IInv, Placements, CallKnown
  <2>. QED
    BY <1>1, <2>1, <2>2 DEF IInv, Placements, OwnersSubmitted, TypeOK
<1>. QED
  BY <1>2, <1>3, OwnerStep

\* While the process runs, an order that is unknown and unplaced after its submit
\* was queued stays so, or becomes known.
LEMMA FreshKept ==
  ASSUME IInv, [Next]_vars, phase # "down", phase' # "down", NEW c \in Cmd, FreshSubmit(c)
  PROVE  FreshSubmit(c)'
<1> SUFFICES ASSUME c.op = "submit"
             PROVE  /\ c.order \in submitted'
                    /\ orders'[c.order].status = "None" => Unplaced(c.order)'
  BY DEF FreshSubmit
<1>1. c.order \in submitted /\ submitted \subseteq submitted'
  BY SubmittedGrows DEF FreshSubmit
<1>2. ASSUME orders'[c.order].status = "None"
      PROVE  Unplaced(c.order)'
  <2>1. c.order \in Orders
    BY <1>1 DEF IInv, TypeOK
  <2>2. orders[c.order].status = "None"
    BY <1>2, <2>1, KnownKept DEF IInv
  <2>3. Unplaced(c.order)
    BY <2>2 DEF FreshSubmit
  <2>4. CASE UNCHANGED owner
    BY <2>3, <2>4 DEF Unplaced
  <2>5. ASSUME NEW x \in ExIds, NEW answered \in BOOLEAN, NEW lost \in BOOLEAN,
               ExchangeAccepts(x, answered, lost)
        PROVE  Unplaced(c.order)'
    <3>1. owner' = [owner EXCEPT ![x] = oms.order] /\ oms.pc = "waiting"
      BY <2>5, Zenon DEF ExchangeAccepts
    <3>2. oms.order # c.order
      BY <2>2, <3>1 DEF IInv, Placements, CallKnown
    <3>. QED
      BY <2>3, <3>1, <3>2 DEF Unplaced, IInv, TypeOK
  <2>. QED
    BY <2>4, <2>5, OwnerStep
<1>. QED
  BY <1>1, <1>2

LEMMA QueueStep ==
  ASSUME IInv, [Next]_vars
  PROVE  QueueFresh'
<1>1. CASE cmdCh' = <<>>
  BY <1>1 DEF QueueFresh
<1>2. CASE cmdCh' # <<>>
  <2>1. phase' \notin {"down", "recovering"}
    BY <1>2, QuietStep DEF QuietWhileDown
  <2>2. phase # "down"
    BY <2>1, PhaseStep DEF loadSnapshot, GoDown
  <2>3. cmdCh \in Seq(Cmd) /\ \A i \in DOMAIN cmdCh : cmdCh[i] \in Cmd /\ FreshSubmit(cmdCh[i])
    BY DEF IInv, TypeOK, Placements, QueueFresh
  <2>4. ASSUME NEW c \in Cmd, \E i \in DOMAIN cmdCh : cmdCh[i] = c
        PROVE  FreshSubmit(c)'
    BY <1>2, <2>1, <2>2, <2>3, <2>4, FreshKept
  <2>5. ASSUME NEW o \in Orders, SubmitOrder(o)
        PROVE  o \in submitted' /\ (orders'[o].status = "None" => Unplaced(o)')
    <3>1. UNCHANGED <<orders, owner>> /\ o \in submitted'
      BY <2>5 DEF SubmitOrder, exchange
    <3>2. ASSUME orders[o].status = "None"
          PROVE  Unplaced(o)
      BY <2>5, <3>2, OrdersAssumption
      DEF SubmitOrder, Unplaced, IInv, Placements, OwnersSubmitted
    <3>. QED
      BY <3>1, <3>2 DEF Unplaced
  <2>6. cmdCh' \in Seq(Cmd)
    BY TypeStep DEF IInv, TypeOK
  <2>7. SUFFICES ASSUME NEW j \in DOMAIN cmdCh', NEW c \in Cmd, c = cmdCh'[j]
                 PROVE  FreshSubmit(c)'
    BY <2>6 DEF QueueFresh, FreshSubmit, Unplaced
  <2>8. CASE \E i \in DOMAIN cmdCh : cmdCh[i] = c
    BY <2>4, <2>8
  <2>9. CASE UNCHANGED cmdCh
    BY <2>7, <2>8, <2>9
  <2>10. CASE cmdCh # <<>> /\ cmdCh' = Tail(cmdCh)
    <3>1. j \in 1..(Len(cmdCh) - 1) /\ cmdCh'[j] = cmdCh[j + 1]
      BY <2>3, <2>7, <2>10
    <3>2. j + 1 \in DOMAIN cmdCh
      BY <2>3, <3>1
    <3>. QED
      BY <2>7, <2>8, <3>1, <3>2
  <2>11. ASSUME NEW d \in Cmd, cmdCh' = Append(cmdCh, d),
                d.op = "submit" => d.order \in Orders /\ SubmitOrder(d.order)
         PROVE  FreshSubmit(c)'
    <3>1. (\E i \in DOMAIN cmdCh : cmdCh[i] = c) \/ c = d
      BY <2>3, <2>7, <2>11
    <3>2. CASE c = d
      BY <2>5, <2>11, <3>2 DEF FreshSubmit
    <3>. QED
      BY <2>8, <3>1, <3>2
  <2>12. \/ UNCHANGED cmdCh
         \/ cmdCh # <<>> /\ cmdCh' = Tail(cmdCh)
         \/ \E d \in Cmd :
              /\ cmdCh' = Append(cmdCh, d)
              /\ d.op = "submit" => d.order \in Orders /\ SubmitOrder(d.order)
    BY <1>2, CmdStep
  <2>. QED
    BY <2>9, <2>10, <2>11, <2>12
<1>. QED
  BY <1>1, <1>2

LEMMA CallFreshStep ==
  ASSUME IInv, [Next]_vars
  PROVE  CallFresh'
<1>. USE DEF IInv
<1>1. CASE oms' = Idle
  BY <1>1 DEF CallFresh, Placing, Idle
<1>2. ASSUME NEW x \in ExIds, NEW answered \in BOOLEAN, NEW lost \in BOOLEAN,
             ExchangeAccepts(x, answered, lost)
      PROVE  CallFresh'
  <2>1. CASE answered
    <3>1. oms' = [oms EXCEPT !.pc = "answered", !.got = x]
      BY <1>2, <2>1, Zenon DEF ExchangeAccepts
    <3>2. oms'.got # NoId
      BY <3>1, ExIdsAssumption DEF TypeOK, OmsState
    <3>. QED
      BY <3>2 DEF CallFresh, Placing
  <2>2. CASE ~answered
    <3>1. /\ oms' = [oms EXCEPT !.pc = "answered", !.got = NoId]
          /\ ambiguous' = ambiguous \cup {oms.order}
      BY <1>2, <2>2, Zenon DEF ExchangeAccepts
    <3>2. oms'.order \in ambiguous'
      BY <3>1 DEF TypeOK, OmsState
    <3>. QED
      BY <3>2 DEF CallFresh
  <2>. QED
    BY <2>1, <2>2
<1>3. CASE UNCHANGED <<owner, ambiguous>>
  <2>1. CASE UNCHANGED oms
    BY <1>3, <2>1 DEF Placements, CallFresh, Placing, Unplaced
  <2>2. CASE submitRetry \/ ExchangeRefuses
    <3>1. oms.pc # "idle" /\ oms.got = NoId /\ oms'.order = oms.order
      BY <2>2 DEF submitRetry, ExchangeRefuses, Placements, CallKnown, TypeOK, OmsState
    <3>. QED
      BY <1>3, <3>1 DEF Placements, CallFresh, Placing, Unplaced
  <2>3. ASSUME NEW o \in Orders, NEW valid \in BOOLEAN, NEW fails \in BOOLEAN,
               execSubmit(o, valid, fails),
               oms' = [pc |-> "waiting", order |-> o, attempt |-> 0, got |-> NoId]
        PROVE  CallFresh'
    <3>1. /\ cmdCh # <<>> /\ Head(cmdCh) = [op |-> "submit", order |-> o]
          /\ orders[o].status = "None"
      BY <2>3 DEF execSubmit, Serving
    <3>2. 1 \in DOMAIN cmdCh /\ cmdCh[1] = [op |-> "submit", order |-> o]
      BY <3>1 DEF TypeOK
    <3>3. Unplaced(o)
      BY <3>1, <3>2 DEF Placements, QueueFresh, FreshSubmit
    <3>. QED
      BY <1>3, <2>3, <3>3 DEF CallFresh, Unplaced
  <2>. QED
    BY <1>1, <1>2, <2>1, <2>2, <2>3, OmsStep
<1>. QED
  BY <1>2, <1>3, OwnerStep

LEMMA PlacedOnceStep ==
  ASSUME IInv, [Next]_vars
  PROVE  PlacedOnce'
<1>1. CASE UNCHANGED <<owner, ambiguous>>
  BY <1>1 DEF IInv, Placements, PlacedOnce
<1>2. ASSUME NEW x \in ExIds, NEW answered \in BOOLEAN, NEW lost \in BOOLEAN,
             ExchangeAccepts(x, answered, lost)
      PROVE  PlacedOnce'
  <2>1. /\ owner' = [owner EXCEPT ![x] = oms.order]
        /\ oms.pc = "waiting"
        /\ ambiguous \subseteq ambiguous'
    BY <1>2, Zenon DEF ExchangeAccepts
  <2>2. oms.order \notin ambiguous => Unplaced(oms.order)
    BY <2>1 DEF IInv, Placements, CallKnown, CallFresh, Placing
  <2>. QED
    BY <2>1, <2>2 DEF PlacedOnce, Unplaced, IInv, Placements, TypeOK
<1>. QED
  BY <1>1, <1>2, OwnerStep

LEMMA InitIInv == Init => IInv
<1> SUFFICES ASSUME Init  PROVE IInv
  OBVIOUS
<1>1. TypeOK /\ Linked
  BY InitType, LinkedInit
<1>2. Placements
  BY DEF Init, Placements, QuietWhileDown, CallKnown, OwnersSubmitted, QueueFresh,
     CallFresh, PlacedOnce, Placing, Idle
<1>. QED
  BY <1>1, <1>2 DEF IInv

LEMMA StepIInv == IInv /\ [Next]_vars => IInv'
<1> SUFFICES ASSUME IInv, [Next]_vars  PROVE IInv'
  OBVIOUS
<1>1. TypeOK' /\ Linked'
  BY TypeStep, LinkedStep DEF IInv
<1>2. Placements'
  BY QuietStep, CallKnownStep, OwnersStep, QueueStep, CallFreshStep, PlacedOnceStep
  DEF Placements
<1>. QED
  BY <1>1, <1>2 DEF IInv

\* An order id is one exchange order, for any number of orders, retries, restarts and
\* repeated commands, unless the answer to an accepted Place was lost (execSubmit,
\* submitWithRetry, loadSnapshot).
THEOREM OneExchangeOrderPerId == Spec => []PlacedOnce
<1>1. IInv => PlacedOnce
  BY DEF IInv, Placements
<1>. QED
  BY <1>1, InitIInv, StepIInv, PTL DEF Spec

-----------------------------------------------------------------------------
(***************************************************************************)
(* What the engine tells and saves of an order is true, on top of the      *)
(* invariant above, and the proof, step by step, that OrderManager         *)
(* implements OrderLifecycle.                                              *)
(***************************************************************************)

EndStatus == {"Filled", "Cancelled"}

(***************************************************************************)
(* Ids: an exchange id in a row, an answer or a queued event belongs to    *)
(* the order it is filed under, and an order with one was not rejected.    *)
(***************************************************************************)
RowsOwned(rows) ==
  \A o \in Orders : rows[o].exid # NoId =>
    owner[rows[o].exid] = o /\ rows[o].status \notin {"None", "Rejected"}
AnswerOwned == oms.got # NoId => oms.pc = "answered" /\ owner[oms.got] = oms.order
PlacedOwned == \A x \in ExIds : xstat[x] = "None" <=> owner[x] = NoOrder
TagsKnown == \A o \in tags : orders[o].exid # NoId
EventsOwned ==
  \A i \in DOMAIN events : events[i].client # NoOrder =>
    owner[events[i].exid] = events[i].client /\ orders[events[i].client].exid # NoId

Ids == RowsOwned(orders) /\ RowsOwned(store) /\ AnswerOwned /\ PlacedOwned
       /\ TagsKnown /\ EventsOwned

(***************************************************************************)
(* Ends: an end in a row or on its way in a queue is real, and a rejected  *)
(* order was not placed.                                                   *)
(***************************************************************************)
RowsReal(rows) ==
  \A o \in Orders :
    /\ rows[o].status \in EndStatus => \E x \in ExIds : owner[x] = o /\ xstat[x] = rows[o].status
    /\ rows[o].status = "Rejected" /\ o \notin ambiguous => Unplaced(o)
UpdatesReal(q) ==
  \A i \in DOMAIN q :
    /\ xstat[q[i].exid] # "None"
    /\ q[i].status \in EndStatus => xstat[q[i].exid] = q[i].status

Ends == RowsReal(orders) /\ RowsReal(store) /\ UpdatesReal(events) /\ UpdatesReal(userCh)

(***************************************************************************)
(* Saves: what is in memory and on disk at each stage of an order.         *)
(***************************************************************************)
DownEmpty ==
  /\ phase = "down" => orders = [o \in Orders |-> NoRow] /\ tags = {}
  /\ phase \in {"down", "recovering"} => events = <<>>
CallPending ==
  oms.pc # "idle" =>
    /\ orders[oms.order] = [status |-> "Pending", exid |-> NoId]
    /\ \/ store[oms.order].status = "Pending"
       \/ oms.order \in unsaved /\ store[oms.order].status = "None"
RowsSubmitted(rows) == \A o \in Orders : rows[o].status # "None" => o \in submitted
QueueUnsaved ==
  \A i \in DOMAIN cmdCh :
    cmdCh[i].op = "submit" /\ orders[cmdCh[i].order].status = "None" =>
      store[cmdCh[i].order].status = "None"
OpenLoaded ==
  phase # "down" =>
    \A o \in Orders : store[o].status \in NonFinal => orders[o].status # "None"
PlacedSaved ==
  \A x \in ExIds : owner[x] \in Orders \ unsaved => store[owner[x]].status # "None"

Saves == DownEmpty /\ CallPending /\ RowsSubmitted(orders) /\ RowsSubmitted(store)
         /\ QueueUnsaved /\ OpenLoaded /\ PlacedSaved

(***************************************************************************)
(* News: unless an update of x was missed, the newest one on its way       *)
(* carries the status of x, and when none is on its way the row does.      *)
(***************************************************************************)
Newest(q, i) == \A j \in DOMAIN q : j > i => q[j].exid # q[i].exid
Has(q, x) == \E i \in DOMAIN q : q[i].exid = x

UserNews ==
  \A i \in DOMAIN userCh :
    userCh[i].exid \notin missed /\ Newest(userCh, i) =>
      userCh[i].status = xstat[userCh[i].exid]
EventNews ==
  \A i \in DOMAIN events :
    events[i].exid \notin missed /\ Newest(events, i) /\ ~Has(userCh, events[i].exid) =>
      events[i].status = xstat[events[i].exid]
AnswerNews ==
  oms.got # NoId /\ oms.got \notin missed => Has(events, oms.got) \/ Has(userCh, oms.got)

News == UserNews /\ EventNews /\ AnswerNews /\ ViewConverges

RecInv == IInv /\ Ids /\ Ends /\ Saves /\ News
-----------------------------------------------------------------------------
(* What a step can do to the rows *)

\* Where a status comes from: the exchange's answer, a Place answer, or an event.
Informs(p, r) ==
  \/ r.status = xstat'[r.exid]
  \/ r.exid = oms.got
  \/ events # <<>> /\ owner[Head(events).exid] = p

\* A row that is written without a placement, or for an exchange order of p.
NewRow(p, r) ==
  /\ p \in submitted
  /\ orders[p].exid \in {NoId, r.exid}
  /\ \/ /\ r.exid = NoId /\ r.status \in {"Pending", "Rejected"}
        /\ Unplaced(p) \/ p \in ambiguous
     \/ /\ r.exid \in ExIds /\ owner[r.exid] = p /\ r.status \in XStatus
        /\ \E x \in ExIds : owner[x] = p /\ (r.status \in Live \/ r.status = xstat'[x])
        /\ Informs(p, r)

\* The order a submit command names, when the run loop takes it up.
LEMMA SubmitTaken ==
  ASSUME RecInv, NEW o \in Orders, Serving("submit", o), orders[o].status = "None"
  PROVE  o \in submitted /\ Unplaced(o) /\ store[o].status = "None" /\ orders[o].exid = NoId
<1>1. cmdCh # <<>> /\ Head(cmdCh) = [op |-> "submit", order |-> o]
  BY DEF Serving
<1>2. 1 \in DOMAIN cmdCh /\ cmdCh[1] = [op |-> "submit", order |-> o]
  BY <1>1, SMTT(30) DEF RecInv, IInv, TypeOK
<1>. QED
  BY <1>2 DEF RecInv, IInv, Placements, QueueFresh, FreshSubmit, Saves, QueueUnsaved,
     Ids, RowsOwned

\* A row with an exchange id that follows the exchange's view s of x.
LEMMA FollowsRow ==
  ASSUME RecInv, NEW o \in Orders, orders[o].exid # NoId, NEW s \in XStatus,
         NEW x \in ExIds, owner[x] = o, s \in Live \/ s = xstat'[x],
         NEW r, r = [orders[o] EXCEPT !.status = s],
         s = xstat'[orders[o].exid] \/ (events # <<>> /\ owner[Head(events).exid] = o)
  PROVE  r \in Row /\ NewRow(o, r)
<1>1. r \in Row /\ r.exid = orders[o].exid /\ r.status = s /\ r.exid \in ExIds
  BY RowTypes DEF RecInv, IInv, TypeOK, Row, XStatus, Status, NonFinal
<1>2. o \in submitted /\ owner[orders[o].exid] = o
  BY <1>1, OrdersAssumption DEF RecInv, IInv, Placements, OwnersSubmitted, Ids, RowsOwned
<1>. QED
  BY <1>1, <1>2 DEF NewRow, Informs

\* An event matches the order that its exchange order was placed for.
LEMMA MatchesOwner ==
  ASSUME RecInv, events # <<>>, NEW o \in Matches(Head(events))
  PROVE  LET e == Head(events) IN
         /\ e \in OrderEvent /\ o \in Orders
         /\ owner[e.exid] = o /\ orders[o].exid # NoId
         /\ e.status \in Live \/ e.status = xstat[e.exid]
<1>. DEFINE e == Head(events)
<1>1. e \in OrderEvent /\ 1 \in DOMAIN events /\ e = events[1]
  BY DEF RecInv, IInv, TypeOK
<1>2. e.status \in Live \/ e.status = xstat[e.exid]
  BY <1>1 DEF RecInv, Ends, UpdatesReal, OrderEvent, XStatus, EndStatus
<1>3. CASE o = e.client /\ e.client # NoOrder
  BY <1>1, <1>2, <1>3 DEF RecInv, Ids, EventsOwned, OrderEvent
<1>4. CASE o \in Orders /\ orders[o].exid = e.exid
  <2>1. e.exid # NoId
    BY <1>1, ExIdsAssumption DEF OrderEvent
  <2>. QED
    BY <1>1, <1>2, <1>4, <2>1 DEF RecInv, Ids, RowsOwned
<1>5. (o = e.client /\ e.client # NoOrder) \/ (o \in Orders /\ orders[o].exid = e.exid)
  <2>. HIDE DEF e
  <2>. QED  BY DEF Matches, e
<1>. QED
  BY <1>3, <1>4, <1>5

\* Every way a step changes rows: a restart, the end of the process, a flush, or
\* the update of one row.
LEMMA RowStep ==
  ASSUME RecInv, [Next]_vars
  PROVE  \/ UNCHANGED <<orders, store, unsaved>>
         \/ loadSnapshot
         \/ GoDown
         \/ \E saved \in SUBSET Orders : execFlush(saved)
         \/ \E o \in Orders, r \in Row, fails \in BOOLEAN :
              NewRow(o, r) /\ Update(o, r, fails) /\ phase # "down" /\ phase' # "down"
<1>. DEFINE Same == UNCHANGED <<orders, store, unsaved>>
            Updated == \E o \in Orders, r \in Row, fails \in BOOLEAN :
              NewRow(o, r) /\ Update(o, r, fails) /\ phase # "down" /\ phase' # "down"
<1>1. ASSUME NEW o \in Orders, NEW valid \in BOOLEAN, NEW fails \in BOOLEAN,
             execSubmit(o, valid, fails)
      PROVE  Updated
  <2>1. PICK s \in {"Pending", "Rejected"} : Update(o, [status |-> s, exid |-> NoId], fails)
    BY <1>1 DEF execSubmit
  <2>2. [status |-> s, exid |-> NoId] \in Row
    BY DEF Row, Status, NonFinal
  <2>3. NewRow(o, [status |-> s, exid |-> NoId])
    BY <1>1, SubmitTaken DEF NewRow, execSubmit
  <2>. QED
    BY <1>1, <2>1, <2>2, <2>3 DEF execSubmit, Serving, Running
<1>2. ASSUME NEW o \in Orders, NEW answered \in BOOLEAN, NEW lost \in BOOLEAN,
             NEW fails \in BOOLEAN, execCancel(o, answered, lost, fails)
      PROVE  Same \/ Updated
  <2>. DEFINE r == [orders[o] EXCEPT !.status = "Cancelled"]
  <2>1. CASE answered
    <3>1. Update(o, r, fails)
      BY <1>2, <2>1, Zenon DEF execCancel
    <3>2. orders[o].exid \in ExIds /\ xstat'[orders[o].exid] = "Cancelled"
          /\ owner[orders[o].exid] = o
      BY <1>2 DEF execCancel, RecInv, IInv, TypeOK, Row, Ids, RowsOwned
    <3>3. r \in Row /\ NewRow(o, r)
      BY <3>2, FollowsRow, ExIdsAssumption DEF XStatus
    <3>. QED
      BY <1>2, <3>1, <3>3 DEF execCancel, Serving, Running
  <2>2. CASE ~answered
    BY <1>2, <2>2, Zenon DEF execCancel
  <2>. QED
    BY <2>1, <2>2
<1>3. ASSUME NEW o \in Orders, NEW fails \in BOOLEAN,
             \/ execSync(o, fails)
             \/ reconcile(o, fails) \/ reconcileNotFound(o, fails)
      PROVE  Updated
  <2>. DEFINE x == orders[o].exid
              r == [orders[o] EXCEPT !.status = xstat[x]]
  <2>1. /\ Update(o, r, fails) /\ UNCHANGED <<xstat, phase>> /\ phase # "down"
        /\ orders[o].exid # NoId
    BY <1>3 DEF execSync, reconcile, reconcileNotFound, exchange, Serving, Running,
       RecInv, IInv, Linked
  <2>2. x \in ExIds /\ xstat[x] \in XStatus /\ owner[x] = o /\ xstat'[x] = xstat[x]
    BY <2>1 DEF RecInv, IInv, Linked, RowsLinked, TypeOK, Row, Ids, RowsOwned
  <2>3. r \in Row /\ NewRow(o, r)
    BY <2>1, <2>2, FollowsRow
  <2>. QED
    BY <2>1, <2>3
<1>4. ASSUME NEW fails \in BOOLEAN, handleSubmitSuccess(fails)
      PROVE  Updated
  <2>. DEFINE r == [status |-> "Submitted", exid |-> oms.got]
  <2>1. /\ oms.order \in Orders /\ oms.got \in ExIds /\ owner[oms.got] = oms.order
        /\ oms.order \in submitted /\ orders[oms.order].exid = NoId
    BY <1>4 DEF handleSubmitSuccess, RecInv, IInv, TypeOK, OmsState, Linked, Ids,
       AnswerOwned, Placements, CallKnown, Saves, CallPending
  <2>2. r \in Row /\ NewRow(oms.order, r)
    BY <2>1 DEF NewRow, Informs, Row, Status, XStatus, NonFinal, Live
  <2>3. Update(oms.order, r, fails) /\ phase # "down" /\ phase' = phase
    BY <1>4 DEF handleSubmitSuccess, Running
  <2>. QED
    BY <2>1, <2>2, <2>3
<1>5. ASSUME NEW fails \in BOOLEAN, handleSubmitError(fails)
      PROVE  Updated
  <2>. DEFINE r == [orders[oms.order] EXCEPT !.status = "Rejected"]
  <2>1. /\ oms.order \in Orders /\ oms.order \in submitted
        /\ orders[oms.order] = [status |-> "Pending", exid |-> NoId]
        /\ Unplaced(oms.order) \/ oms.order \in ambiguous
    BY <1>5 DEF handleSubmitError, RecInv, IInv, Linked, Placements, CallKnown, Saves,
       CallPending, CallFresh, Placing
  <2>2. r \in Row /\ NewRow(oms.order, r)
    BY <2>1 DEF NewRow, Row, Status, NonFinal
  <2>3. Update(oms.order, r, fails) /\ phase # "down" /\ phase' = phase
    BY <1>5 DEF handleSubmitError, Running
  <2>. QED
    BY <2>1, <2>2, <2>3
<1>6. ASSUME NEW fails \in BOOLEAN, applyOrderEvent(fails)
      PROVE  Same \/ Updated
  <2>1. CASE ~Same
    <3>1. PICK o \in Matches(Head(events)) :
            Update(o, [orders[o] EXCEPT !.status = Head(events).status], fails)
      BY <1>6, <2>1 DEF applyOrderEvent
    <3>2. /\ Head(events) \in OrderEvent /\ o \in Orders
          /\ owner[Head(events).exid] = o /\ orders[o].exid # NoId
          /\ Head(events).status \in Live \/ Head(events).status = xstat[Head(events).exid]
      BY <1>6, MatchesOwner DEF applyOrderEvent
    <3>3. UNCHANGED <<xstat, phase>> /\ phase # "down" /\ events # <<>>
      BY <1>6 DEF applyOrderEvent, exchange, Running
    <3>4. [orders[o] EXCEPT !.status = Head(events).status] \in Row
          /\ NewRow(o, [orders[o] EXCEPT !.status = Head(events).status])
      BY <3>2, <3>3, FollowsRow DEF OrderEvent
    <3>. QED
      BY <3>1, <3>2, <3>3, <3>4
  <2>. QED
    BY <2>1
<1>7. ASSUME \/ Callers \/ Pump \/ Exchange \/ UNCHANGED vars \/ submitRetry \/ Start
             \/ StopMarkets \/ CancelRunCtx
             \/ \E o \in Orders : \/ execSubmitDuplicate(o) \/ execCancelRefused(o)
                                  \/ execSyncFailed(o) \/ reconcileFailed(o)
      PROVE  Same
  BY <1>7, Zenon
  DEF Callers, SubmitOrder, CancelOrder, SyncOrderStatus, Pump, pump, Exchange,
      ExchangeRefuses, ExchangeAccepts, ExchangeMoves, vars, submitRetry, Start,
      StopMarkets, CancelRunCtx, execSubmitDuplicate, execCancelRefused, execSyncFailed,
      reconcileFailed
<1>. HIDE DEF Same, Updated
<1>. QED
  BY <1>1, <1>2, <1>3, <1>4, <1>5, <1>6, <1>7, Zenon
  DEF Next, RunLoop, StartUp, ShutDown, Exit, Crash, Same, Updated

\* What memory and disk hold of p after a step: what they held, nothing, or a new row.
LEMMA RowSource ==
  ASSUME RecInv, [Next]_vars, NEW p \in Orders
  PROVE  /\ orders'[p] \in {orders[p], store[p], NoRow} \/ NewRow(p, orders'[p])
         /\ store'[p] \in {orders[p], store[p], NoRow} \/ NewRow(p, store'[p])
<1>. DEFINE Sourced(r) == r \in {orders[p], store[p], NoRow} \/ NewRow(p, r)
<1>1. CASE UNCHANGED <<orders, store, unsaved>>
  BY <1>1
<1>2. CASE loadSnapshot
  BY <1>2 DEF loadSnapshot
<1>3. CASE GoDown
  BY <1>3 DEF GoDown
<1>4. ASSUME NEW saved \in SUBSET Orders, execFlush(saved)
      PROVE  Sourced(orders'[p]) /\ Sourced(store'[p])
  BY <1>4 DEF execFlush
<1>5. ASSUME NEW o \in Orders, NEW r \in Row, NEW fails \in BOOLEAN,
             NewRow(o, r), Update(o, r, fails)
      PROVE  Sourced(orders'[p]) /\ Sourced(store'[p])
  <2>1. /\ orders'[p] = IF p = o THEN r ELSE orders[p]
        /\ store'[p] = store[p] \/ (p = o /\ store'[p] = r)
    BY <1>5 DEF Update, Save, RecInv, IInv, TypeOK
  <2>. QED
    BY <1>5, <2>1
<1>. HIDE DEF Sourced
<1>. QED
  BY <1>1, <1>2, <1>3, <1>4, <1>5, RowStep DEF Sourced

\* Disk follows memory: a step saves nothing but the row memory has after it, and an
\* order stops being unsaved only by a save.
LEMMA StoreStep ==
  ASSUME RecInv, [Next]_vars, NEW o \in Orders
  PROVE  /\ \/ store'[o] = store[o]
            \/ store'[o] = orders'[o] /\ orders'[o].status # "None"
         /\ o \in unsaved \ unsaved' => store'[o].status # "None"
<1>1. CASE UNCHANGED <<orders, store, unsaved>> \/ loadSnapshot \/ GoDown
  BY <1>1 DEF loadSnapshot, GoDown
<1>2. ASSUME NEW saved \in SUBSET Orders, execFlush(saved)
      PROVE  /\ \/ store'[o] = store[o]
                \/ store'[o] = orders'[o] /\ orders'[o].status # "None"
             /\ o \in unsaved \ unsaved' => store'[o].status # "None"
  BY <1>2 DEF execFlush
<1>3. ASSUME NEW p \in Orders, NEW r \in Row, NEW fails \in BOOLEAN,
             NewRow(p, r), Update(p, r, fails)
      PROVE  /\ \/ store'[o] = store[o]
                \/ store'[o] = orders'[o] /\ orders'[o].status # "None"
             /\ o \in unsaved \ unsaved' => store'[o].status # "None"
  <2>1. r.status # "None"
    BY <1>3 DEF NewRow, XStatus, Live
  <2>2. /\ orders'[p] = r
        /\ \/ UNCHANGED <<store, unsaved>>
           \/ store' = store /\ unsaved' = unsaved \cup {p}
           \/ store' = [store EXCEPT ![p] = r] /\ unsaved' = unsaved \ {p}
    BY <1>3 DEF Update, Save, RecInv, IInv, TypeOK
  <2>. QED
    BY <2>1, <2>2 DEF RecInv, IInv, TypeOK
<1>. QED
  BY <1>1, <1>2, <1>3, RowStep

\* While the process runs, memory never forgets the exchange id of an order.
LEMMA ExidKept ==
  ASSUME RecInv, [Next]_vars, phase # "down", phase' # "down",
         NEW o \in Orders, orders[o].exid # NoId
  PROVE  orders'[o].exid = orders[o].exid
<1>1. CASE UNCHANGED <<orders, store, unsaved>>
  BY <1>1
<1>2. ~loadSnapshot /\ ~GoDown
  BY DEF loadSnapshot, GoDown
<1>3. ASSUME NEW saved \in SUBSET Orders, execFlush(saved)
      PROVE  orders' = orders
  BY <1>3 DEF execFlush
<1>4. ASSUME NEW p \in Orders, NEW r \in Row, NEW fails \in BOOLEAN,
             NewRow(p, r), Update(p, r, fails)
      PROVE  orders'[o].exid = orders[o].exid
  BY <1>4 DEF NewRow, Update, RecInv, IInv, TypeOK
<1>. QED
  BY <1>1, <1>2, <1>3, <1>4, RowStep

\* The exchange order x takes the status s and publishes it.
Publishes(x, s) ==
  /\ xstat' = [xstat EXCEPT ![x] = s]
  /\ \E lost \in BOOLEAN : Publish(x, s, lost)
  /\ UNCHANGED <<events, phase>>

\* An exchange order changes when it is placed, filled or ended, and only so.
LEMMA ExchangeStep ==
  ASSUME RecInv, [Next]_vars
  PROVE  \/ UNCHANGED <<owner, xstat, ambiguous>>
         \/ \E x \in ExIds, answered, lost \in BOOLEAN :
              ExchangeAccepts(x, answered, lost) /\ Publishes(x, "Submitted")
         \/ \E x \in ExIds, s \in {"PartialFilled", "Filled", "Cancelled"} :
              /\ xstat[x] \in Live
              /\ Publishes(x, s)
              /\ UNCHANGED <<owner, ambiguous, oms>>
<1>1. ASSUME NEW o \in Orders, NEW answered \in BOOLEAN, NEW lost \in BOOLEAN,
             NEW fails \in BOOLEAN, execCancel(o, answered, lost, fails)
      PROVE  /\ orders[o].exid \in ExIds
             /\ xstat[orders[o].exid] \in Live
             /\ Publishes(orders[o].exid, "Cancelled")
             /\ UNCHANGED <<owner, ambiguous, oms>>
  <2>1. orders[o].exid \in ExIds
    BY <1>1 DEF execCancel, RecInv, IInv, TypeOK, Row
  <2>. QED
    BY <1>1, <2>1, Zenon DEF execCancel, Publishes
<1>2. ASSUME NEW x \in ExIds, NEW s \in XStatus, NEW lost \in BOOLEAN,
             ExchangeMoves(x, s, lost)
      PROVE  /\ s \in {"PartialFilled", "Filled", "Cancelled"}
             /\ xstat[x] \in Live
             /\ Publishes(x, s)
             /\ UNCHANGED <<owner, ambiguous, oms>>
  BY <1>2, Zenon DEF ExchangeMoves, Publishes
<1>3. ASSUME NEW x \in ExIds, NEW answered \in BOOLEAN, NEW lost \in BOOLEAN,
             ExchangeAccepts(x, answered, lost)
      PROVE  Publishes(x, "Submitted")
  BY <1>3, Zenon DEF ExchangeAccepts, Publishes
<1>4. CASE Callers \/ Pump \/ StartUp \/ ShutDown \/ UNCHANGED vars \/ ExchangeRefuses
  BY <1>4, Zenon
  DEF Callers, SubmitOrder, CancelOrder, SyncOrderStatus, Pump, pump, StartUp,
      loadSnapshot, reconcile, reconcileNotFound, reconcileFailed, Start, ShutDown,
      StopMarkets, CancelRunCtx, Exit, Crash, GoDown, vars, exchange, ExchangeRefuses
<1>5. CASE RunLoop
  <2>1. \/ UNCHANGED <<owner, xstat, ambiguous>>
        \/ \E o \in Orders, answered, lost, fails \in BOOLEAN :
             execCancel(o, answered, lost, fails)
    BY <1>5, Zenon
    DEF RunLoop, execSubmitDuplicate, execSubmit, execCancelRefused,
        execSyncFailed, execSync, submitRetry, handleSubmitSuccess, handleSubmitError,
        applyOrderEvent, execFlush, exchange
  <2>. QED
    BY <1>1, <2>1
<1>6. CASE Exchange
  BY <1>2, <1>3, <1>4, <1>6, Zenon DEF Exchange
<1>. QED
  BY <1>4, <1>5, <1>6 DEF Next

\* What is settled about an exchange order stays: whose it is, its end, and that an
\* order nothing was placed for is still unplaced unless it is being placed.
LEMMA SettledStays ==
  ASSUME RecInv, [Next]_vars
  PROVE  /\ \A x \in ExIds : owner[x] # NoOrder => owner'[x] = owner[x]
         /\ \A x \in ExIds : xstat[x] # "None" => xstat'[x] # "None"
         /\ \A x \in ExIds : xstat[x] \in EndStatus => xstat'[x] = xstat[x]
         /\ ambiguous \subseteq ambiguous'
         /\ \A o \in Orders : Unplaced(o) /\ ~Unplaced(o)' =>
              /\ oms.pc = "waiting" /\ oms.order = o
              /\ UNCHANGED <<orders, store, unsaved>>
<1>1. CASE UNCHANGED <<owner, xstat, ambiguous>>
  BY <1>1 DEF Unplaced
<1>2. ASSUME NEW x \in ExIds, NEW answered \in BOOLEAN, NEW lost \in BOOLEAN,
             ExchangeAccepts(x, answered, lost)
      PROVE  /\ owner' = [owner EXCEPT ![x] = oms.order]
             /\ xstat' = [xstat EXCEPT ![x] = "Submitted"]
             /\ owner[x] = NoOrder /\ xstat[x] = "None"
             /\ ambiguous \subseteq ambiguous'
             /\ oms.pc = "waiting"
             /\ UNCHANGED <<orders, store, unsaved>>
  BY <1>2, Zenon DEF ExchangeAccepts, RecInv, Ids, PlacedOwned
<1>3. CASE \E x \in ExIds, answered, lost \in BOOLEAN : ExchangeAccepts(x, answered, lost)
  BY <1>2, <1>3 DEF EndStatus, Unplaced, RecInv, IInv, TypeOK
<1>4. ASSUME NEW x \in ExIds, NEW s \in {"PartialFilled", "Filled", "Cancelled"},
             xstat[x] \in Live, Publishes(x, s), UNCHANGED <<owner, ambiguous>>
      PROVE  /\ \A y \in ExIds : xstat[y] # "None" => xstat'[y] # "None"
             /\ \A y \in ExIds : xstat[y] \in EndStatus => xstat'[y] = xstat[y]
             /\ \A o \in Orders : Unplaced(o) => Unplaced(o)'
  BY <1>4 DEF Publishes, EndStatus, Live, Unplaced, RecInv, IInv, TypeOK
<1>. QED
  BY <1>1, <1>3, <1>4, ExchangeStep

-----------------------------------------------------------------------------
(* How the queues of updates change *)

LEMMA UserQueueStep ==
  ASSUME RecInv, [Next]_vars
  PROVE  \/ UNCHANGED userCh
         \/ userCh' = <<>> /\ GoDown
         \/ userCh # <<>> /\ userCh' = Tail(userCh) /\ Pump
         \/ \E x \in ExIds, s \in XStatus :
              /\ userCh' = Append(userCh, [exid |-> x, status |-> s])
              /\ Publishes(x, s)
<1>1. CASE Callers \/ RunLoop \/ Exchange \/ StartUp \/ ShutDown \/ UNCHANGED vars
  <2>1. \/ UNCHANGED userCh
        \/ GoDown
        \/ \E x \in ExIds, answered, lost \in BOOLEAN : ExchangeAccepts(x, answered, lost)
        \/ \E x \in ExIds, s \in XStatus, lost \in BOOLEAN : ExchangeMoves(x, s, lost)
        \/ \E o \in Orders, answered, lost, fails \in BOOLEAN :
             execCancel(o, answered, lost, fails)
    BY <1>1, Zenon
    DEF Callers, SubmitOrder, CancelOrder, SyncOrderStatus, RunLoop, execSubmitDuplicate,
        execSubmit, execCancelRefused, execSyncFailed, execSync, submitRetry,
        handleSubmitSuccess, handleSubmitError, applyOrderEvent, execFlush, Exchange,
        ExchangeRefuses, StartUp, loadSnapshot, reconcile, reconcileNotFound,
        reconcileFailed, Start, ShutDown, StopMarkets, CancelRunCtx, Exit, Crash, vars,
        queues
  <2>2. ASSUME NEW x \in ExIds, NEW s \in XStatus, NEW lost \in BOOLEAN,
               Publish(x, s, lost), Publishes(x, s)
        PROVE  \/ UNCHANGED userCh
               \/ /\ userCh' = Append(userCh, [exid |-> x, status |-> s])
                  /\ Publishes(x, s)
    BY <2>2, Zenon DEF Publish
  <2>3. ASSUME NEW x \in ExIds, NEW answered \in BOOLEAN, NEW lost \in BOOLEAN,
               ExchangeAccepts(x, answered, lost)
        PROVE  Publish(x, "Submitted", lost) /\ Publishes(x, "Submitted")
    BY <2>3, Zenon DEF ExchangeAccepts, Publishes
  <2>4. ASSUME NEW x \in ExIds, NEW s \in XStatus, NEW lost \in BOOLEAN,
               ExchangeMoves(x, s, lost)
        PROVE  Publish(x, s, lost) /\ Publishes(x, s)
    BY <2>4, Zenon DEF ExchangeMoves, Publishes
  <2>5. ASSUME NEW o \in Orders, NEW answered \in BOOLEAN, NEW lost \in BOOLEAN,
               NEW fails \in BOOLEAN, execCancel(o, answered, lost, fails)
        PROVE  /\ orders[o].exid \in ExIds
               /\ Publish(orders[o].exid, "Cancelled", lost)
               /\ Publishes(orders[o].exid, "Cancelled")
    <3>1. orders[o].exid \in ExIds
      BY <2>5 DEF execCancel, RecInv, IInv, TypeOK, Row
    <3>. QED
      BY <2>5, <3>1, Zenon DEF execCancel, Publishes
  <2>6. "Submitted" \in XStatus /\ "Cancelled" \in XStatus
    BY DEF XStatus, Live
  <2>7. GoDown => userCh' = <<>>
    BY DEF GoDown
  <2>. QED
    BY <2>1, <2>2, <2>3, <2>4, <2>5, <2>6, <2>7
<1>2. CASE Pump
  BY <1>2 DEF Pump, pump
<1>. QED
  BY <1>1, <1>2 DEF Next

\* The event that the pump makes of the first update of the user channel.
PumpedEvent ==
  [client |-> resolveLocalClientID(owner[Head(userCh).exid]),
   exid |-> Head(userCh).exid, status |-> Head(userCh).status]

LEMMA PumpedType ==
  ASSUME TypeOK, userCh # <<>>
  PROVE  PumpedEvent \in OrderEvent
<1>1. Head(userCh) \in UserEvent
  BY DEF TypeOK
<1>. QED
  BY <1>1 DEF PumpedEvent, OrderEvent, UserEvent, resolveLocalClientID, TypeOK

LEMMA EventQueueStep ==
  ASSUME RecInv, [Next]_vars
  PROVE  \/ UNCHANGED events
         \/ events' = <<>> /\ GoDown
         \/ /\ events # <<>> /\ events' = Tail(events)
            /\ \E fails \in BOOLEAN : applyOrderEvent(fails)
         \/ userCh # <<>> /\ events' = Append(events, PumpedEvent) /\ Pump
<1>1. CASE Pump
  BY <1>1 DEF Pump, pump, PumpedEvent
<1>2. CASE Exchange
  BY <1>2, Zenon DEF Exchange, ExchangeRefuses, ExchangeAccepts, ExchangeMoves, queues
<1>3. CASE Callers \/ RunLoop \/ StartUp \/ ShutDown \/ UNCHANGED vars
  <2>1. \/ UNCHANGED events \/ GoDown
        \/ \E fails \in BOOLEAN : applyOrderEvent(fails)
    BY <1>3, Zenon
    DEF Callers, SubmitOrder, CancelOrder, SyncOrderStatus, RunLoop, execSubmitDuplicate,
        execSubmit, execCancelRefused, execCancel, execSyncFailed, execSync, submitRetry,
        handleSubmitSuccess, handleSubmitError, execFlush, StartUp, loadSnapshot,
        reconcile, reconcileNotFound, reconcileFailed, Start, ShutDown, StopMarkets,
        CancelRunCtx, Exit, Crash, vars, queues
  <2>. QED
    BY <2>1 DEF GoDown, applyOrderEvent
<1>. QED
  BY <1>1, <1>2, <1>3 DEF Next

\* Events are queued only while the process runs, and only the pump leaves tags.
LEMMA TagStep ==
  ASSUME RecInv, [Next]_vars
  PROVE  \/ tags' \subseteq tags
         \/ /\ tags' = tags \cup {oms.order} /\ oms.got # NoId /\ oms.pc = "answered"
            /\ phase' = phase /\ phase # "down"
            /\ \E fails \in BOOLEAN :
                 Update(oms.order, [status |-> "Submitted", exid |-> oms.got], fails)
<1>1. ASSUME NEW fails \in BOOLEAN, handleSubmitSuccess(fails)
      PROVE  /\ tags' = tags \cup {oms.order} /\ oms.got # NoId /\ oms.pc = "answered"
             /\ phase' = phase /\ phase # "down"
             /\ Update(oms.order, [status |-> "Submitted", exid |-> oms.got], fails)
  BY <1>1 DEF handleSubmitSuccess, Running
<1>2. CASE Callers \/ RunLoop \/ Exchange \/ StartUp \/ ShutDown \/ UNCHANGED vars
  <2>1. \/ UNCHANGED tags \/ GoDown
        \/ \E fails \in BOOLEAN : handleSubmitSuccess(fails)
    BY <1>2, Zenon
    DEF Callers, SubmitOrder, CancelOrder, SyncOrderStatus, RunLoop, execSubmitDuplicate,
        execSubmit, execCancelRefused, execCancel, execSyncFailed, execSync, submitRetry,
        handleSubmitError, applyOrderEvent, execFlush, Exchange, ExchangeRefuses,
        ExchangeAccepts, ExchangeMoves, StartUp, loadSnapshot, reconcile,
        reconcileNotFound, reconcileFailed, Start, ShutDown, StopMarkets, CancelRunCtx,
        Exit, Crash, vars
  <2>. QED
    BY <1>1, <2>1 DEF GoDown
<1>3. CASE Pump
  BY <1>3 DEF Pump, pump
<1>. QED
  BY <1>2, <1>3 DEF Next

-----------------------------------------------------------------------------
(* Ids *)

LEMMA IdsStep ==
  ASSUME RecInv, [Next]_vars
  PROVE  Ids'
<1>1. TypeOK /\ TypeOK'
  BY StepIInv DEF RecInv, IInv
<1>2. RowsOwned(orders)' /\ RowsOwned(store)'
  <2>1. SUFFICES ASSUME NEW o \in Orders,
                        NEW r \in {orders'[o], store'[o]}, r.exid # NoId
                 PROVE  owner'[r.exid] = o /\ r.status \notin {"None", "Rejected"}
    BY DEF RowsOwned
  <2>2. CASE r \in {orders[o], store[o]}
    BY <1>1, <2>1, <2>2, SettledStays, OrdersAssumption
    DEF RecInv, Ids, RowsOwned, TypeOK, Row
  <2>3. CASE r = NoRow
    BY <2>1, <2>3 DEF NoRow
  <2>4. CASE NewRow(o, r)
    <3>1. r.exid \in ExIds /\ owner[r.exid] = o /\ r.status \in XStatus
      BY <2>1, <2>4 DEF NewRow
    <3>. QED
      BY <3>1, SettledStays, OrdersAssumption DEF XStatus, Live
  <2>. QED
    BY <2>2, <2>3, <2>4, RowSource
<1>3. AnswerOwned'
  <2>1. CASE oms' = Idle
    BY <2>1 DEF AnswerOwned, Idle
  <2>2. CASE UNCHANGED oms
    <3>1. oms.got # NoId => oms.got \in ExIds /\ oms.pc = "answered" /\ oms.order \in Orders
      BY <1>1 DEF TypeOK, OmsState, RecInv, Ids, AnswerOwned, IInv, Linked
    <3>. QED
      BY <2>2, <3>1, SettledStays, OrdersAssumption DEF RecInv, Ids, AnswerOwned
  <2>3. CASE submitRetry \/ ExchangeRefuses
    BY <1>1, <2>3
    DEF submitRetry, ExchangeRefuses, AnswerOwned, TypeOK, OmsState
  <2>4. ASSUME NEW x \in ExIds, NEW answered \in BOOLEAN, NEW lost \in BOOLEAN,
               ExchangeAccepts(x, answered, lost)
        PROVE  AnswerOwned'
    <3>1. /\ owner' = [owner EXCEPT ![x] = oms.order]
          /\ \E g \in {x, NoId} : oms' = [oms EXCEPT !.pc = "answered", !.got = g]
      BY <2>4, Zenon DEF ExchangeAccepts
    <3>. QED
      BY <1>1, <3>1 DEF AnswerOwned, TypeOK, OmsState
  <2>. QED
    BY <2>1, <2>2, <2>3, <2>4, OmsStep DEF AnswerOwned
<1>4. PlacedOwned'
  <2>1. CASE UNCHANGED <<owner, xstat, ambiguous>>
    BY <2>1 DEF PlacedOwned, RecInv, Ids
  <2>2. ASSUME NEW x \in ExIds, NEW answered \in BOOLEAN, NEW lost \in BOOLEAN,
               ExchangeAccepts(x, answered, lost)
        PROVE  PlacedOwned'
    <3>1. /\ owner' = [owner EXCEPT ![x] = oms.order]
          /\ xstat' = [xstat EXCEPT ![x] = "Submitted"]
          /\ oms.pc = "waiting"
      BY <2>2, Zenon DEF ExchangeAccepts
    <3>2. oms.order \in Orders
      BY <3>1 DEF RecInv, IInv, Linked
    <3>. QED
      BY <1>1, <3>1, <3>2, OrdersAssumption DEF PlacedOwned, RecInv, Ids, TypeOK
  <2>3. ASSUME NEW x \in ExIds, NEW s \in {"PartialFilled", "Filled", "Cancelled"},
               xstat[x] \in Live, Publishes(x, s), UNCHANGED <<owner, ambiguous>>
        PROVE  PlacedOwned'
    BY <1>1, <2>3 DEF PlacedOwned, RecInv, Ids, Publishes, Live, TypeOK
  <2>. QED
    BY <2>1, <2>2, <2>3, ExchangeStep
<1>5. TagsKnown'
  <2>1. SUFFICES ASSUME NEW o \in tags'
                 PROVE  orders'[o].exid # NoId
    BY DEF TagsKnown
  <2>2. phase # "down" /\ phase' # "down"
    <3>1. phase = "down" => tags' \subseteq {}
      BY TagStep DEF RecInv, Saves, DownEmpty
    <3>2. phase' = "down" => tags' = {} \/ phase = "down"
      BY PhaseStep DEF loadSnapshot, GoDown
    <3>. QED
      BY <2>1, <3>1, <3>2
  <2>3. CASE o \in tags
    BY <1>1, <2>2, <2>3, ExidKept DEF RecInv, Ids, TagsKnown, TypeOK
  <2>4. ASSUME o = oms.order, oms.got # NoId, NEW fails \in BOOLEAN,
               Update(oms.order, [status |-> "Submitted", exid |-> oms.got], fails)
        PROVE  orders'[o].exid # NoId
    BY <1>1, <2>1, <2>4 DEF Update, TypeOK
  <2>. QED
    BY <2>1, <2>3, <2>4, TagStep
<1>6. EventsOwned'
  <2>1. CASE events' = <<>>
    BY <2>1 DEF EventsOwned
  <2>2. CASE events' # <<>>
    <3>1. phase # "down" /\ phase' # "down"
      <4>1. phase = "down" => events = <<>>
        BY DEF RecInv, Saves, DownEmpty
      <4>2. Pump => phase = "up" /\ phase' = "up"
        BY DEF Pump, pump
      <4>3. phase = "down" => phase' # "down" \/ UNCHANGED events \/ Pump
        BY <4>1, EventQueueStep, PhaseStep DEF GoDown, loadSnapshot
      <4>4. phase' = "down" => phase = "down"
        BY <2>2, PhaseStep DEF GoDown, loadSnapshot
      <4>5. phase = "down" => events' = <<>> \/ Pump
        BY <4>1, EventQueueStep
      <4>. QED
        BY <2>2, <4>2, <4>4, <4>5
    <3>2. ASSUME NEW e \in OrderEvent, e.client # NoOrder, owner[e.exid] = e.client,
                 orders[e.client].exid # NoId
          PROVE  owner'[e.exid] = e.client /\ orders'[e.client].exid # NoId
      BY <3>1, <3>2, SettledStays, ExidKept DEF OrderEvent
    <3>3. \A i \in DOMAIN events : events[i] \in OrderEvent
      BY <1>1 DEF TypeOK
    <3>4. ASSUME NEW i \in DOMAIN events', NEW j \in DOMAIN events, events'[i] = events[j],
                 events'[i].client # NoOrder
          PROVE  /\ owner'[events'[i].exid] = events'[i].client
                 /\ orders'[events'[i].client].exid # NoId
      BY <3>2, <3>3, <3>4 DEF RecInv, Ids, EventsOwned
    <3>5. CASE UNCHANGED events
      BY <3>4, <3>5 DEF EventsOwned
    <3>6. CASE events # <<>> /\ events' = Tail(events)
      <4>1. \A i \in DOMAIN events' : i + 1 \in DOMAIN events /\ events'[i] = events[i + 1]
        BY <1>1, <3>6 DEF TypeOK
      <4>. QED
        BY <3>4, <4>1 DEF EventsOwned
    <3>7. CASE userCh # <<>> /\ events' = Append(events, PumpedEvent) /\ Pump
      <4>2. PumpedEvent \in OrderEvent
        BY <1>1, <3>7, PumpedType
      <4>3. PumpedEvent.client # NoOrder =>
              /\ owner[PumpedEvent.exid] = PumpedEvent.client
              /\ orders[PumpedEvent.client].exid # NoId
        BY DEF PumpedEvent, resolveLocalClientID, RecInv, Ids, TagsKnown
      <4>4. \A i \in DOMAIN events' :
              (i \in DOMAIN events /\ events'[i] = events[i]) \/ events'[i] = PumpedEvent
        BY <1>1, <3>7, <4>2 DEF TypeOK
      <4>. QED
        BY <3>2, <3>4, <4>2, <4>3, <4>4 DEF EventsOwned
    <3>. QED
      BY <2>2, <3>5, <3>6, <3>7, EventQueueStep
  <2>. QED
    BY <2>1, <2>2
<1>. QED
  BY <1>2, <1>3, <1>4, <1>5, <1>6 DEF Ids

-----------------------------------------------------------------------------
(* Ends *)

\* A queue whose updates were there before the step, or are news of a change.
LEMMA UpdatesKept ==
  ASSUME RecInv, [Next]_vars,
         NEW u, u.exid \in ExIds, xstat[u.exid] # "None",
         u.status \in EndStatus => xstat[u.exid] = u.status
  PROVE  /\ xstat'[u.exid] # "None"
         /\ u.status \in EndStatus => xstat'[u.exid] = u.status
BY SettledStays

LEMMA EndsStep ==
  ASSUME RecInv, [Next]_vars
  PROVE  Ends'
<1>1. TypeOK /\ TypeOK'
  BY StepIInv DEF RecInv, IInv
<1>2. RowsReal(orders)' /\ RowsReal(store)'
  <2>1. SUFFICES ASSUME NEW o \in Orders, NEW r \in {orders'[o], store'[o]}
                 PROVE  /\ r.status \in EndStatus =>
                             \E x \in ExIds : owner'[x] = o /\ xstat'[x] = r.status
                        /\ r.status = "Rejected" /\ o \notin ambiguous' => Unplaced(o)'
    BY DEF RowsReal
  <2>2. ASSUME NEW x \in ExIds, owner[x] = o, xstat[x] \in EndStatus
        PROVE  owner'[x] = o /\ xstat'[x] = xstat[x]
    BY <2>2, SettledStays, OrdersAssumption
  <2>3. CASE r \in {orders[o], store[o]}
    <3>1. /\ r.status \in EndStatus => \E x \in ExIds : owner[x] = o /\ xstat[x] = r.status
          /\ r.status = "Rejected" /\ o \notin ambiguous => Unplaced(o)
      BY <2>3 DEF RecInv, Ends, RowsReal
    <3>2. ASSUME r.status = "Rejected", o \notin ambiguous'
          PROVE  Unplaced(o)'
      <4>1. Unplaced(o)
        BY <3>1, <3>2, SettledStays
      <4>2. ASSUME ~Unplaced(o)'
            PROVE  orders[o].status = "Pending" /\ store[o].status \in {"Pending", "None"}
        BY <4>1, <4>2, SettledStays DEF RecInv, Saves, CallPending
      <4>. QED
        BY <2>3, <3>2, <4>2
    <3>. QED
      BY <2>2, <3>1, <3>2
  <2>4. CASE r = NoRow
    BY <2>4 DEF NoRow, EndStatus
  <2>5. CASE NewRow(o, r) /\ r \notin {orders[o], store[o]}
    <3>1. CASE r.status \in {"Pending", "Rejected"}
      <4>1. r.status = "Rejected" => Unplaced(o) \/ o \in ambiguous
        BY <2>5, <3>1 DEF NewRow, XStatus, Live
      <4>2. ~UNCHANGED <<orders, store, unsaved>>
        BY <2>1, <2>5
      <4>. QED
        BY <3>1, <4>1, <4>2, SettledStays DEF EndStatus
    <3>2. ASSUME NEW x \in ExIds, owner[x] = o, r.status \in XStatus,
                 r.status \in Live \/ r.status = xstat'[x]
          PROVE  /\ r.status \in EndStatus =>
                      \E y \in ExIds : owner'[y] = o /\ xstat'[y] = r.status
                 /\ r.status # "Rejected"
      BY <3>2, SettledStays, OrdersAssumption DEF XStatus, Live, EndStatus
    <3>. QED
      BY <2>5, <3>1, <3>2 DEF NewRow
  <2>. QED
    BY <2>1, <2>3, <2>4, <2>5, RowSource
<1>3. UpdatesReal(userCh)'
  <2>1. /\ userCh \in Seq(UserEvent) /\ userCh' \in Seq(UserEvent)
        /\ \A i \in DOMAIN userCh : userCh[i] \in UserEvent
    BY <1>1 DEF TypeOK
  <2>2. SUFFICES ASSUME NEW i \in DOMAIN userCh'
                 PROVE  /\ xstat'[userCh'[i].exid] # "None"
                        /\ userCh'[i].status \in EndStatus =>
                             xstat'[userCh'[i].exid] = userCh'[i].status
    BY DEF UpdatesReal
  <2>3. ASSUME NEW j \in DOMAIN userCh, userCh'[i] = userCh[j]
        PROVE  /\ xstat'[userCh'[i].exid] # "None"
               /\ userCh'[i].status \in EndStatus =>
                    xstat'[userCh'[i].exid] = userCh'[i].status
    <3>1. /\ userCh[j].exid \in ExIds /\ xstat[userCh[j].exid] # "None"
          /\ userCh[j].status \in EndStatus => xstat[userCh[j].exid] = userCh[j].status
      BY <2>1 DEF RecInv, Ends, UpdatesReal, UserEvent
    <3>. QED
      BY <2>3, <3>1, UpdatesKept
  <2>4. CASE UNCHANGED userCh
    BY <2>2, <2>3, <2>4
  <2>5. CASE userCh' = <<>>
    BY <2>2, <2>5
  <2>6. CASE userCh # <<>> /\ userCh' = Tail(userCh)
    <3>1. i + 1 \in DOMAIN userCh /\ userCh'[i] = userCh[i + 1]
      BY <2>1, <2>2, <2>6
    <3>. QED
      BY <2>3, <3>1
  <2>7. ASSUME NEW x \in ExIds, NEW s \in XStatus,
               userCh' = Append(userCh, [exid |-> x, status |-> s]), Publishes(x, s)
        PROVE  /\ xstat'[userCh'[i].exid] # "None"
               /\ userCh'[i].status \in EndStatus =>
                    xstat'[userCh'[i].exid] = userCh'[i].status
    <3>1. [exid |-> x, status |-> s] \in UserEvent
      BY DEF UserEvent
    <3>2. \/ i \in DOMAIN userCh /\ userCh'[i] = userCh[i]
          \/ userCh'[i] = [exid |-> x, status |-> s]
      BY <2>1, <2>2, <2>7, <3>1
    <3>3. xstat'[x] = s /\ s # "None"
      BY <1>1, <2>7 DEF Publishes, TypeOK, XStatus, Live
    <3>. QED
      BY <2>3, <3>2, <3>3
  <2>. QED
    BY <2>4, <2>5, <2>6, <2>7, UserQueueStep
<1>4. UpdatesReal(events)'
  <2>1. /\ events \in Seq(OrderEvent) /\ events' \in Seq(OrderEvent)
        /\ \A i \in DOMAIN events : events[i] \in OrderEvent
    BY <1>1 DEF TypeOK
  <2>2. SUFFICES ASSUME NEW i \in DOMAIN events'
                 PROVE  /\ xstat'[events'[i].exid] # "None"
                        /\ events'[i].status \in EndStatus =>
                             xstat'[events'[i].exid] = events'[i].status
    BY DEF UpdatesReal
  <2>3. ASSUME NEW j \in DOMAIN events, events'[i] = events[j]
        PROVE  /\ xstat'[events'[i].exid] # "None"
               /\ events'[i].status \in EndStatus =>
                    xstat'[events'[i].exid] = events'[i].status
    <3>1. /\ events[j].exid \in ExIds /\ xstat[events[j].exid] # "None"
          /\ events[j].status \in EndStatus => xstat[events[j].exid] = events[j].status
      BY <2>1 DEF RecInv, Ends, UpdatesReal, OrderEvent
    <3>. QED
      BY <2>3, <3>1, UpdatesKept
  <2>4. CASE UNCHANGED events
    BY <2>2, <2>3, <2>4
  <2>5. CASE events' = <<>>
    BY <2>2, <2>5
  <2>6. CASE events # <<>> /\ events' = Tail(events)
    <3>1. i + 1 \in DOMAIN events /\ events'[i] = events[i + 1]
      BY <2>1, <2>2, <2>6
    <3>. QED
      BY <2>3, <3>1
  <2>7. CASE userCh # <<>> /\ events' = Append(events, PumpedEvent) /\ Pump
    <3>1. Head(userCh) \in UserEvent /\ 1 \in DOMAIN userCh /\ Head(userCh) = userCh[1]
      BY <1>1, <2>7 DEF TypeOK
    <3>2. PumpedEvent \in OrderEvent
      BY <1>1, <2>7, PumpedType
    <3>3. (i \in DOMAIN events /\ events'[i] = events[i]) \/ events'[i] = PumpedEvent
      BY <2>1, <2>2, <2>7, <3>2
    <3>4. /\ PumpedEvent.exid \in ExIds /\ xstat[PumpedEvent.exid] # "None"
          /\ PumpedEvent.status \in EndStatus => xstat[PumpedEvent.exid] = PumpedEvent.status
      BY <3>1 DEF PumpedEvent, RecInv, Ends, UpdatesReal, UserEvent
    <3>5. /\ xstat'[PumpedEvent.exid] # "None"
          /\ PumpedEvent.status \in EndStatus => xstat'[PumpedEvent.exid] = PumpedEvent.status
      <4>. DEFINE u == PumpedEvent
      <4>. HIDE DEF u
      <4>. QED  BY <3>4, UpdatesKept DEF u
    <3>. QED
      BY <2>3, <3>3, <3>5
  <2>. QED
    BY <2>4, <2>5, <2>6, <2>7, EventQueueStep
<1>. QED
  BY <1>2, <1>3, <1>4 DEF Ends

-----------------------------------------------------------------------------
(* Saves *)

\* While a Place call is out, nothing touches a row.
LEMMA RowsStillWhileCalling ==
  ASSUME RecInv, [Next]_vars, oms.pc # "idle", oms'.pc # "idle"
  PROVE  UNCHANGED <<orders, store, unsaved>>
<1>1. phase \notin {"down", "recovering"}
  BY DEF RecInv, IInv, Placements, QuietWhileDown
<1>2. CASE RunLoop
  <2>1. oms' # Idle
    BY DEF Idle
  <2>2. submitRetry
    BY <1>2, <2>1, Zenon
    DEF RunLoop, execSubmitDuplicate, execSubmit, execCancelRefused, execCancel,
        execSyncFailed, execSync, handleSubmitSuccess, handleSubmitError,
        applyOrderEvent, execFlush, Serving
  <2>. QED
    BY <2>2 DEF submitRetry
<1>3. CASE StartUp
  BY <1>1, <1>3
  DEF StartUp, loadSnapshot, reconcile, reconcileNotFound, reconcileFailed, Start
<1>4. CASE ShutDown
  <2>1. ~GoDown
    BY DEF GoDown, Idle
  <2>. QED
    BY <1>4, <2>1 DEF ShutDown, StopMarkets, CancelRunCtx, Exit, Crash
<1>5. CASE Callers \/ Pump \/ Exchange \/ UNCHANGED vars
  BY <1>5, Zenon
  DEF Callers, SubmitOrder, CancelOrder, SyncOrderStatus, Pump, pump, Exchange,
      ExchangeRefuses, ExchangeAccepts, ExchangeMoves, vars
<1>. QED
  BY <1>2, <1>3, <1>4, <1>5 DEF Next

LEMMA CallPendingStep ==
  ASSUME RecInv, [Next]_vars
  PROVE  CallPending'
<1>1. TypeOK /\ TypeOK'
  BY StepIInv DEF RecInv, IInv
<1>2. ASSUME oms.pc # "idle", oms'.pc # "idle", oms'.order = oms.order
      PROVE  CallPending'
  BY <1>2, RowsStillWhileCalling DEF RecInv, Saves, CallPending
<1>3. CASE oms' = Idle
  BY <1>3 DEF CallPending, Idle
<1>4. CASE submitRetry \/ ExchangeRefuses
  BY <1>1, <1>2, <1>4 DEF submitRetry, ExchangeRefuses, TypeOK, OmsState
<1>5. ASSUME NEW x \in ExIds, NEW answered \in BOOLEAN, NEW lost \in BOOLEAN,
             ExchangeAccepts(x, answered, lost)
      PROVE  CallPending'
  <2>1. oms.pc = "waiting" /\ \E g : oms' = [oms EXCEPT !.pc = "answered", !.got = g]
    BY <1>5, Zenon DEF ExchangeAccepts
  <2>. QED
    BY <1>1, <1>2, <2>1 DEF TypeOK, OmsState
<1>6. ASSUME NEW o \in Orders, NEW valid \in BOOLEAN, NEW fails \in BOOLEAN,
             execSubmit(o, valid, fails),
             Update(o, [status |-> "Pending", exid |-> NoId], fails),
             oms' = [pc |-> "waiting", order |-> o, attempt |-> 0, got |-> NoId]
      PROVE  CallPending'
  <2>1. store[o].status = "None"
    BY <1>6, SubmitTaken DEF execSubmit
  <2>2. phase # "cancelled"
    BY <1>6 DEF execSubmit, Serving, Idle
  <2>3. /\ orders'[o] = [status |-> "Pending", exid |-> NoId]
        /\ \/ store'[o] = [status |-> "Pending", exid |-> NoId]
           \/ store'[o] = store[o] /\ o \in unsaved'
    BY <1>1, <1>6, <2>2 DEF Update, Save, TypeOK
  <2>. QED
    BY <1>6, <2>1, <2>3 DEF CallPending
<1>7. CASE UNCHANGED oms
  BY <1>2, <1>7 DEF CallPending
<1>. QED
  BY <1>3, <1>4, <1>5, <1>6, <1>7, OmsStep

LEMMA QueueUnsavedStep ==
  ASSUME RecInv, [Next]_vars
  PROVE  QueueUnsaved'
<1>1. TypeOK /\ TypeOK'
  BY StepIInv DEF RecInv, IInv
<1>2. CASE cmdCh' = <<>>
  BY <1>2 DEF QueueUnsaved
<1>3. CASE cmdCh' # <<>>
  <2>1. phase # "down" /\ phase' # "down"
    <3>1. phase' \notin {"down", "recovering"}
      BY <1>3, StepIInv DEF RecInv, IInv, Placements, QuietWhileDown
    <3>. QED
      BY <3>1, PhaseStep DEF loadSnapshot, GoDown
  <2>2. ASSUME NEW o \in Orders, orders[o].status = "None" => store[o].status = "None",
               orders'[o].status = "None"
        PROVE  store'[o].status = "None"
    <3>1. orders[o].status = "None"
      BY <2>1, <2>2, KnownKept DEF RecInv, IInv
    <3>. QED
      BY <2>2, <3>1, StoreStep
  <2>3. \A i \in DOMAIN cmdCh : cmdCh[i] \in Cmd
    BY <1>1 DEF TypeOK
  <2>4. \A i \in DOMAIN cmdCh : FreshSubmit(cmdCh[i])
    BY DEF RecInv, IInv, Placements, QueueFresh
  <2>5. SUFFICES ASSUME NEW i \in DOMAIN cmdCh', cmdCh'[i].op = "submit",
                        orders'[cmdCh'[i].order].status = "None"
                 PROVE  store'[cmdCh'[i].order].status = "None"
    BY DEF QueueUnsaved
  <2>6. ASSUME NEW j \in DOMAIN cmdCh, cmdCh'[i] = cmdCh[j]
        PROVE  store'[cmdCh'[i].order].status = "None"
    <3>1. cmdCh[j].order \in Orders
      BY <1>1, <2>4, <2>5, <2>6 DEF FreshSubmit, TypeOK
    <3>. QED
      BY <2>2, <2>5, <2>6, <3>1 DEF RecInv, Saves, QueueUnsaved
  <2>7. CASE UNCHANGED cmdCh
    BY <2>5, <2>6, <2>7
  <2>8. CASE cmdCh # <<>> /\ cmdCh' = Tail(cmdCh)
    <3>1. i + 1 \in DOMAIN cmdCh /\ cmdCh'[i] = cmdCh[i + 1]
      BY <1>1, <2>5, <2>8 DEF TypeOK
    <3>. QED
      BY <2>6, <3>1
  <2>9. ASSUME NEW c \in Cmd, cmdCh' = Append(cmdCh, c),
               c.op = "submit" => c.order \in Orders /\ SubmitOrder(c.order)
        PROVE  store'[cmdCh'[i].order].status = "None"
    <3>1. (i \in DOMAIN cmdCh /\ cmdCh'[i] = cmdCh[i]) \/ cmdCh'[i] = c
      BY <1>1, <2>5, <2>9 DEF TypeOK
    <3>2. ASSUME cmdCh'[i] = c
          PROVE  store'[c.order].status = "None"
      <4>1. c.order \in Orders /\ SubmitOrder(c.order)
        BY <2>5, <2>9, <3>2
      <4>2. orders[c.order].status = "None" => store[c.order].status = "None"
        BY <4>1 DEF SubmitOrder, RecInv, Saves, RowsSubmitted
      <4>. QED
        BY <2>2, <2>5, <3>2, <4>1, <4>2
    <3>. QED
      BY <2>6, <3>1, <3>2
  <2>. QED
    BY <1>3, <2>7, <2>8, <2>9, CmdStep DEF GoDown
<1>. QED
  BY <1>2, <1>3

LEMMA SavesStep ==
  ASSUME RecInv, [Next]_vars
  PROVE  Saves'
<1>1. TypeOK /\ TypeOK'
  BY StepIInv DEF RecInv, IInv
<1>2. DownEmpty'
  <2>1. CASE GoDown
    BY <2>1 DEF GoDown, DownEmpty
  <2>2. CASE ~GoDown /\ phase' = "down"
    <3>1. phase = "down"
      BY <2>2, PhaseStep DEF loadSnapshot
    <3>2. UNCHANGED <<orders, events>> /\ tags' \subseteq tags
      <4>1. UNCHANGED orders
        <5>1. \A saved : ~execFlush(saved)
          BY <3>1 DEF execFlush, Serving, Running
        <5>. QED
          BY <2>2, <3>1, <5>1, RowStep DEF loadSnapshot
      <4>2. UNCHANGED events
        BY <2>2, <3>1, EventQueueStep DEF applyOrderEvent, Running, Pump, pump
      <4>3. tags' \subseteq tags
        BY <3>1, TagStep
      <4>. QED
        BY <4>1, <4>2, <4>3
    <3>. QED
      BY <2>2, <3>1, <3>2 DEF RecInv, Saves, DownEmpty
  <2>3. CASE phase' = "recovering"
    <3>1. phase \in {"down", "recovering"}
      BY <2>3, PhaseStep DEF GoDown, loadSnapshot
    <3>2. events' = <<>>
      BY <3>1, EventQueueStep
      DEF RecInv, Saves, DownEmpty, applyOrderEvent, Running, Pump, pump
    <3>. QED
      BY <2>3, <3>2 DEF DownEmpty
  <2>. QED
    BY <2>1, <2>2, <2>3 DEF DownEmpty
<1>3. RowsSubmitted(orders)' /\ RowsSubmitted(store)'
  <2>1. ASSUME NEW o \in Orders, NEW r \in {orders'[o], store'[o]}, r.status # "None"
        PROVE  o \in submitted'
    <3>1. o \in submitted
      <4>1. CASE r \in {orders[o], store[o], NoRow}
        BY <2>1, <4>1 DEF RecInv, Saves, RowsSubmitted, NoRow
      <4>2. CASE NewRow(o, r)
        BY <4>2 DEF NewRow
      <4>. QED
        BY <2>1, <4>1, <4>2, RowSource
    <3>. QED
      BY <3>1, SubmittedGrows
  <2>. QED
    BY <2>1 DEF RowsSubmitted
<1>4. OpenLoaded'
  <2>1. SUFFICES ASSUME phase' # "down", NEW o \in Orders, store'[o].status \in NonFinal
                 PROVE  orders'[o].status # "None"
    BY DEF OpenLoaded
  <2>2. CASE store'[o] = store[o]
    <3>1. CASE phase = "down"
      <4>1. loadSnapshot
        BY <2>1, <3>1, PhaseStep DEF GoDown
      <4>. QED
        BY <2>1, <2>2, <4>1 DEF loadSnapshot, NonFinal, Live
    <3>2. CASE phase # "down"
      BY <2>1, <2>2, <3>2, KnownKept DEF RecInv, IInv, Saves, OpenLoaded
    <3>. QED
      BY <3>1, <3>2
  <2>. QED
    BY <2>2, StoreStep
<1>5. PlacedSaved'
  <2>1. SUFFICES ASSUME NEW x \in ExIds, owner'[x] \in Orders \ unsaved'
                 PROVE  store'[owner'[x]].status # "None"
    BY DEF PlacedSaved
  <2>2. CASE owner'[x] = owner[x]
    BY <2>1, <2>2, StoreStep DEF RecInv, Saves, PlacedSaved
  <2>3. CASE owner'[x] # owner[x]
    <3>1. PICK y \in ExIds, answered \in BOOLEAN, lost \in BOOLEAN :
            ExchangeAccepts(y, answered, lost)
      BY <2>3, OwnerStep
    <3>2. owner' = [owner EXCEPT ![y] = oms.order] /\ oms.pc = "waiting"
          /\ UNCHANGED <<store, unsaved>>
      BY <3>1, Zenon DEF ExchangeAccepts
    <3>3. owner'[x] = oms.order
      BY <1>1, <2>3, <3>2 DEF TypeOK
    <3>. QED
      BY <2>1, <3>2, <3>3 DEF RecInv, Saves, CallPending
  <2>. QED
    BY <2>2, <2>3
<1>. QED
  BY <1>2, <1>3, <1>4, <1>5, CallPendingStep, QueueUnsavedStep DEF Saves

-----------------------------------------------------------------------------
(* News *)

\* Whoever changes an exchange order publishes it, or the update is missed.
LEMMA ChangeIsNews ==
  ASSUME RecInv, [Next]_vars, NEW x \in ExIds, x \notin missed', xstat'[x] # xstat[x]
  PROVE  userCh' = Append(userCh, [exid |-> x, status |-> xstat'[x]])
<1>1. PICK y \in ExIds, s \in XStatus : Publishes(y, s)
  BY ExchangeStep DEF XStatus, Live
<1>2. y = x /\ xstat'[x] = s
  BY <1>1 DEF Publishes, RecInv, IInv, TypeOK
<1>. QED
  BY <1>1, <1>2, Zenon DEF Publishes, Publish, RecInv, IInv, TypeOK

\* A gap in the updates of x is closed only by taking over the exchange's view of x,
\* with no update of x on its way.
LEMMA GapClosed ==
  ASSUME RecInv, [Next]_vars, NEW x \in ExIds, x \in missed, x \notin missed'
  PROVE  /\ ~Has(events, x) /\ ~Has(userCh, x)
         /\ UNCHANGED <<events, userCh, xstat, owner, oms>>
         /\ \E o \in Orders : /\ owner[x] = o /\ orders[o].exid = x
                              /\ orders'[o].exid = x /\ orders'[o].status = xstat[x]
<1>1. ASSUME NEW o \in Orders, NEW fails \in BOOLEAN,
             execSync(o, fails) \/ reconcile(o, fails) \/ reconcileNotFound(o, fails)
      PROVE  /\ Update(o, [orders[o] EXCEPT !.status = xstat[orders[o].exid]], fails)
             /\ Refresh(orders[o].exid) /\ orders[o].exid # NoId
             /\ UNCHANGED <<events, userCh, xstat, owner, oms>>
  BY <1>1 DEF execSync, reconcile, reconcileNotFound, exchange, queues, RecInv, IInv, Linked
<1>2. PICK o \in Orders, fails \in BOOLEAN :
        execSync(o, fails) \/ reconcile(o, fails) \/ reconcileNotFound(o, fails)
  <2>1. ASSUME NEW y, NEW s, NEW lost \in BOOLEAN, Publish(y, s, lost)
        PROVE  x \in missed'
    BY <2>1, Zenon DEF Publish
  <2>2. ASSUME NEW o \in Orders, NEW answered \in BOOLEAN, NEW lost \in BOOLEAN,
               NEW fails \in BOOLEAN, execCancel(o, answered, lost, fails)
        PROVE  x \in missed'
    BY <2>1, <2>2, Zenon DEF execCancel
  <2>3. ~Exchange
    <3>1. ~ExchangeRefuses
      BY DEF ExchangeRefuses
    <3>2. ASSUME NEW y \in ExIds, NEW answered \in BOOLEAN, NEW lost \in BOOLEAN,
                 ExchangeAccepts(y, answered, lost)
          PROVE  FALSE
      <4>1. Publish(y, "Submitted", lost)
        BY <3>2, Zenon DEF ExchangeAccepts
      <4>. QED
        BY <2>1, <4>1
    <3>3. ASSUME NEW y \in ExIds, NEW s \in XStatus, NEW lost \in BOOLEAN
          PROVE  ~ExchangeMoves(y, s, lost)
      BY <2>1, Zenon DEF ExchangeMoves
    <3>. QED
      BY <3>1, <3>2, <3>3, Zenon DEF Exchange
  <2>4. ~Pump /\ ~loadSnapshot
    BY DEF Pump, pump, loadSnapshot
  <2>. QED
    BY <2>2, <2>3, <2>4, Zenon
    DEF Next, Callers, SubmitOrder, CancelOrder, SyncOrderStatus, RunLoop,
        execSubmitDuplicate, execSubmit, execCancelRefused, execSyncFailed, submitRetry,
        handleSubmitSuccess, handleSubmitError, applyOrderEvent, execFlush, StartUp,
        reconcileFailed, Start, ShutDown, StopMarkets, CancelRunCtx, Exit, Crash, GoDown,
        vars
<1>3. x = orders[o].exid /\ ~Has(events, x) /\ ~Has(userCh, x)
  BY <1>1, <1>2 DEF Refresh, Has
<1>4. /\ orders'[o].exid = orders[o].exid
      /\ orders'[o].status = xstat[orders[o].exid]
      /\ owner[orders[o].exid] = o
  <2>1. orders[o].exid # NoId => owner[orders[o].exid] = o
    BY DEF RecInv, Ids, RowsOwned
  <2>2. orders[o] \in Row /\ orders \in [Orders -> Row]
    BY DEF RecInv, IInv, TypeOK
  <2>3. Update(o, [orders[o] EXCEPT !.status = xstat[orders[o].exid]], fails)
    BY <1>1, <1>2
  <2>. QED
    BY <1>1, <1>2, <2>1, <2>2, <2>3 DEF Update, Row
<1>. QED
  BY <1>1, <1>2, <1>3, <1>4

\* Steps at the two ends of the queues leave the other one and the exchange alone.
LEMMA PumpAlone ==
  ASSUME RecInv, Pump, NEW x \in ExIds, x \notin missed'
  PROVE  /\ userCh # <<>> /\ userCh' = Tail(userCh)
         /\ UNCHANGED <<xstat, oms>>
         /\ Head(userCh) = userCh[1] /\ 1 \in DOMAIN userCh
         /\ PumpedEvent.exid = userCh[1].exid /\ PumpedEvent.status = userCh[1].status
         /\ \/ events' = Append(events, PumpedEvent)
            \/ events' = events /\ userCh[1].exid # x
BY DEF Pump, pump, PumpedEvent, exchange, RecInv, IInv, TypeOK

LEMMA UserNewsStep ==
  ASSUME RecInv, [Next]_vars
  PROVE  UserNews'
<1>1. /\ userCh \in Seq(UserEvent) /\ userCh' \in Seq(UserEvent)
      /\ \A i \in DOMAIN userCh' : userCh'[i].exid \in ExIds
  <2>1. userCh \in Seq(UserEvent) /\ userCh' \in Seq(UserEvent)
    BY StepIInv DEF RecInv, IInv, TypeOK
  <2>2. \A i \in DOMAIN userCh' : userCh'[i] \in UserEvent
    BY <2>1
  <2>. QED
    BY <2>1, <2>2 DEF UserEvent
<1>2. SUFFICES ASSUME NEW i \in DOMAIN userCh', NEW x \in ExIds, x = userCh'[i].exid,
                      x \notin missed', Newest(userCh, i)'
               PROVE  userCh'[i].status = xstat'[x]
  BY <1>1 DEF UserNews, Newest
<1>3. CASE xstat'[x] # xstat[x]
  <2>. DEFINE u == [exid |-> x, status |-> xstat'[x]]
              n == Len(userCh) + 1
  <2>1. userCh' = Append(userCh, u)
    BY <1>2, <1>3, ChangeIsNews
  <2>2. n \in DOMAIN userCh' /\ userCh'[n] = u
    BY <1>1, <2>1
  <2>3. i = n
    BY <1>1, <1>2, <2>1, <2>2 DEF Newest
  <2>. QED
    BY <2>2, <2>3
<1>4. CASE x \in missed
  BY <1>2, <1>4, GapClosed DEF Has
<1>5. CASE x \notin missed /\ xstat'[x] = xstat[x]
  <2>1. ASSUME NEW j \in DOMAIN userCh, userCh[j] = userCh'[i], Newest(userCh, j)
        PROVE  userCh'[i].status = xstat'[x]
    BY <1>2, <1>5, <2>1 DEF RecInv, News, UserNews
  <2>2. CASE UNCHANGED userCh
    BY <1>2, <2>1, <2>2 DEF Newest
  <2>3. CASE userCh' = <<>>
    BY <1>2, <2>3
  <2>4. CASE userCh # <<>> /\ userCh' = Tail(userCh)
    <3>1. /\ i + 1 \in DOMAIN userCh /\ userCh[i + 1] = userCh'[i]
          /\ \A j \in DOMAIN userCh : j > i + 1 =>
               j - 1 \in DOMAIN userCh' /\ j - 1 > i /\ userCh'[j - 1] = userCh[j]
      BY <1>1, <1>2, <2>4
    <3>2. Newest(userCh, i + 1)
      BY <1>2, <3>1 DEF Newest
    <3>. QED
      BY <2>1, <3>1, <3>2
  <2>5. ASSUME NEW y \in ExIds, NEW s \in XStatus,
               userCh' = Append(userCh, [exid |-> y, status |-> s]), Publishes(y, s)
        PROVE  userCh'[i].status = xstat'[x]
    <3>1. /\ \A j \in DOMAIN userCh : j \in DOMAIN userCh' /\ userCh'[j] = userCh[j]
          /\ \/ i \in DOMAIN userCh
             \/ userCh'[i] = [exid |-> y, status |-> s]
      <4>1. [exid |-> y, status |-> s] \in UserEvent
        BY DEF UserEvent
      <4>. QED
        BY <1>1, <1>2, <2>5, <4>1
    <3>2. CASE i \in DOMAIN userCh
      <4>1. Newest(userCh, i)
        BY <1>2, <3>1, <3>2 DEF Newest
      <4>. QED
        BY <2>1, <3>1, <3>2, <4>1
    <3>3. CASE userCh'[i] = [exid |-> y, status |-> s]
      BY <1>2, <2>5, <3>3 DEF Publishes, RecInv, IInv, TypeOK
    <3>. QED
      BY <3>1, <3>2, <3>3
  <2>. QED
    BY <2>2, <2>3, <2>4, <2>5, UserQueueStep
<1>. QED
  BY <1>3, <1>4, <1>5

\* An update of x that was on its way, and is neither missed nor applied, is still on
\* its way.
LEMMA StillOnItsWay ==
  ASSUME RecInv, [Next]_vars, ~GoDown, NEW x \in ExIds, x \notin missed', Has(userCh, x)
  PROVE  Has(userCh, x)' \/ Has(events, x)'
<1>1. userCh \in Seq(UserEvent) /\ events \in Seq(OrderEvent) /\ TypeOK /\ TypeOK'
  BY StepIInv DEF RecInv, IInv, TypeOK
<1>2. PICK i \in DOMAIN userCh : userCh[i].exid = x
  BY DEF Has
<1>3. CASE UNCHANGED userCh
  BY <1>2, <1>3 DEF Has
<1>4. CASE Pump
  <2>1. CASE i = 1
    <3>1. events' = Append(events, PumpedEvent) /\ PumpedEvent.exid = x
      BY <1>2, <1>4, <2>1, PumpAlone
    <3>2. Len(events) + 1 \in DOMAIN events' /\ events'[Len(events) + 1] = PumpedEvent
      BY <1>1, <3>1
    <3>. QED
      BY <3>1, <3>2 DEF Has
  <2>2. CASE i # 1
    <3>1. userCh # <<>> /\ userCh' = Tail(userCh)
      BY <1>4, PumpAlone
    <3>2. i - 1 \in DOMAIN userCh' /\ userCh'[i - 1] = userCh[i]
      BY <1>1, <1>2, <2>2, <3>1
    <3>. QED
      BY <1>2, <3>2 DEF Has
  <2>. QED
    BY <2>1, <2>2
<1>5. ASSUME NEW u \in UserEvent, userCh' = Append(userCh, u)
      PROVE  Has(userCh, x)'
  <2>1. i \in DOMAIN userCh' /\ userCh'[i] = userCh[i]
    BY <1>1, <1>2, <1>5
  <2>. QED
    BY <1>2, <2>1 DEF Has
<1>. QED
  BY <1>3, <1>4, <1>5, UserQueueStep DEF UserEvent

LEMMA EventNewsStep ==
  ASSUME RecInv, [Next]_vars
  PROVE  EventNews'
<1>1. /\ events \in Seq(OrderEvent) /\ events' \in Seq(OrderEvent)
      /\ \A i \in DOMAIN events' : events'[i].exid \in ExIds
  <2>1. events \in Seq(OrderEvent) /\ events' \in Seq(OrderEvent)
    BY StepIInv DEF RecInv, IInv, TypeOK
  <2>2. \A i \in DOMAIN events' : events'[i] \in OrderEvent
    BY <2>1
  <2>. QED
    BY <2>1, <2>2 DEF OrderEvent
<1>2. SUFFICES ASSUME NEW i \in DOMAIN events', NEW x \in ExIds, x = events'[i].exid,
                      x \notin missed', Newest(events, i)', ~Has(userCh, x)'
               PROVE  events'[i].status = xstat'[x]
  BY <1>1 DEF EventNews, Newest, Has
<1>3. xstat'[x] = xstat[x]
  <2>. DEFINE u == [exid |-> x, status |-> xstat'[x]]
  <2>1. SUFFICES ASSUME xstat'[x] # xstat[x]
                 PROVE  FALSE
    OBVIOUS
  <2>2. userCh' = Append(userCh, u) /\ userCh \in Seq(UserEvent)
    BY <1>2, <2>1, ChangeIsNews DEF RecInv, IInv, TypeOK
  <2>3. Len(userCh) + 1 \in DOMAIN userCh' /\ userCh'[Len(userCh) + 1] = u
    BY <2>2
  <2>. QED
    BY <1>2, <2>3 DEF Has
<1>4. CASE x \in missed
  BY <1>2, <1>4, GapClosed DEF Has
<1>5. CASE x \notin missed
  <2>1. ASSUME NEW j \in DOMAIN events, events[j] = events'[i], Newest(events, j),
               ~Has(userCh, x)
        PROVE  events'[i].status = xstat'[x]
    BY <1>2, <1>3, <1>5, <2>1 DEF RecInv, News, EventNews
  <2>2. CASE UNCHANGED events
    <3>1. ~GoDown
      BY <1>2, <2>2 DEF GoDown
    <3>2. ~Has(events, x)' => ~Has(userCh, x)
      BY <1>2, <3>1, StillOnItsWay
    <3>3. CASE ~Has(userCh, x)
      BY <1>2, <2>1, <2>2, <3>3 DEF Newest
    <3>4. CASE Has(userCh, x)
      <4>1. CASE Pump
        <5>1. userCh # <<>> /\ userCh' = Tail(userCh) /\ userCh[1].exid # x
          <6>1. events' # Append(events, PumpedEvent)
            <7>1. Len(Append(events, PumpedEvent)) = Len(events) + 1 /\ Len(events) \in Nat
              BY <1>1
            <7>. QED
              BY <2>2, <7>1
          <6>. QED
            BY <1>2, <4>1, <6>1, PumpAlone
        <5>2. PICK j \in DOMAIN userCh : userCh[j].exid = x
          BY <3>4 DEF Has
        <5>3. j - 1 \in DOMAIN userCh' /\ userCh'[j - 1] = userCh[j]
          BY <5>1, <5>2 DEF RecInv, IInv, TypeOK
        <5>. QED
          BY <1>2, <5>2, <5>3 DEF Has
      <4>2. CASE UNCHANGED userCh
        BY <1>2, <3>4, <4>2 DEF Has
      <4>3. ASSUME NEW y \in ExIds, NEW s \in XStatus,
                   userCh' = Append(userCh, [exid |-> y, status |-> s])
            PROVE  FALSE
        <5>1. PICK j \in DOMAIN userCh : userCh[j].exid = x
          BY <3>4 DEF Has
        <5>2. [exid |-> y, status |-> s] \in UserEvent
          BY DEF UserEvent
        <5>3. j \in DOMAIN userCh' /\ userCh'[j] = userCh[j]
          BY <4>3, <5>1, <5>2 DEF RecInv, IInv, TypeOK
        <5>. QED
          BY <1>2, <5>1, <5>3 DEF Has
      <4>. QED
        BY <3>1, <4>1, <4>2, <4>3, UserQueueStep
    <3>. QED
      BY <3>3, <3>4
  <2>3. CASE events' = <<>>
    BY <1>2, <2>3
  <2>4. ASSUME events # <<>>, events' = Tail(events), NEW fails \in BOOLEAN,
               applyOrderEvent(fails)
        PROVE  events'[i].status = xstat'[x]
    <3>1. /\ i + 1 \in DOMAIN events /\ events[i + 1] = events'[i]
          /\ \A j \in DOMAIN events : j > i + 1 =>
               j - 1 \in DOMAIN events' /\ j - 1 > i /\ events'[j - 1] = events[j]
      BY <1>1, <1>2, <2>4
    <3>2. Newest(events, i + 1)
      BY <1>2, <3>1 DEF Newest
    <3>3. ~Has(userCh, x)
      BY <1>2, <2>4 DEF applyOrderEvent, Has
    <3>. QED
      BY <2>1, <3>1, <3>2, <3>3
  <2>5. CASE userCh # <<>> /\ events' = Append(events, PumpedEvent) /\ Pump
    <3>1. /\ userCh' = Tail(userCh) /\ 1 \in DOMAIN userCh
          /\ PumpedEvent.exid = userCh[1].exid /\ PumpedEvent.status = userCh[1].status
      BY <1>2, <2>5, PumpAlone
    <3>2. ~Has(userCh, x) \/ userCh[1].exid = x
      <4>1. ASSUME NEW j \in DOMAIN userCh, userCh[j].exid = x, j # 1
            PROVE  FALSE
        <5>1. j - 1 \in DOMAIN userCh' /\ userCh'[j - 1] = userCh[j]
          BY <2>5, <3>1, <4>1 DEF RecInv, IInv, TypeOK
        <5>. QED
          BY <1>2, <4>1, <5>1 DEF Has
      <4>. QED
        BY <4>1 DEF Has
    <3>3. PumpedEvent \in OrderEvent
      BY <2>5, PumpedType DEF RecInv, IInv
    <3>4. /\ \A j \in DOMAIN events : j \in DOMAIN events' /\ events'[j] = events[j]
          /\ Len(events) + 1 \in DOMAIN events' /\ events'[Len(events) + 1] = PumpedEvent
          /\ \A j \in DOMAIN events : j < Len(events) + 1
          /\ i \in DOMAIN events \/ i = Len(events) + 1
      BY <1>1, <1>2, <2>5, <3>3
    <3>5. CASE i \in DOMAIN events
      <4>1. Newest(events, i) /\ PumpedEvent.exid # x
        BY <1>1, <1>2, <3>4, <3>5 DEF Newest
      <4>. QED
        BY <2>1, <3>1, <3>2, <3>4, <3>5, <4>1
    <3>6. CASE i = Len(events) + 1
      <4>1. userCh[1].exid = x /\ userCh[1].status = events'[i].status
        BY <1>2, <3>1, <3>4, <3>6
      <4>2. Newest(userCh, 1)
        <5>1. ASSUME NEW j \in DOMAIN userCh, j > 1
              PROVE  userCh[j].exid # x
          <6>1. j - 1 \in DOMAIN userCh' /\ userCh'[j - 1] = userCh[j]
            BY <2>5, <3>1, <5>1 DEF RecInv, IInv, TypeOK
          <6>. QED
            BY <1>2, <6>1 DEF Has
        <5>. QED
          BY <4>1, <5>1 DEF Newest
      <4>. QED
        BY <1>3, <1>5, <3>1, <4>1, <4>2 DEF RecInv, News, UserNews
    <3>. QED
      BY <3>4, <3>5, <3>6
  <2>. QED
    BY <2>2, <2>3, <2>4, <2>5, EventQueueStep
<1>. QED
  BY <1>4, <1>5

\* The first update of a placed order waits until the answer to Place is handled.
LEMMA AnswerNewsStep ==
  ASSUME RecInv, [Next]_vars
  PROVE  AnswerNews'
<1>1. TypeOK /\ TypeOK' /\ Ids'
  BY StepIInv, IdsStep DEF RecInv, IInv
<1>2. SUFFICES ASSUME NEW x \in ExIds, oms'.got = x, x \notin missed'
               PROVE  Has(events, x)' \/ Has(userCh, x)'
  BY <1>1 DEF AnswerNews, TypeOK, OmsState, Has
<1>3. CASE xstat'[x] # xstat[x]
  <2>. DEFINE u == [exid |-> x, status |-> xstat'[x]]
  <2>1. userCh' = Append(userCh, u) /\ userCh \in Seq(UserEvent)
    BY <1>2, <1>3, ChangeIsNews DEF RecInv, IInv, TypeOK
  <2>2. Len(userCh) + 1 \in DOMAIN userCh' /\ userCh'[Len(userCh) + 1] = u
    BY <2>1
  <2>. QED
    BY <2>2 DEF Has
<1>4. CASE UNCHANGED oms
  <2>1. oms.pc = "answered" /\ owner[x] = oms.order /\ oms.order \in Orders /\ ~GoDown
    <3>1. oms.got # NoId
      BY <1>2, <1>4, ExIdsAssumption
    <3>2. oms.pc = "answered" /\ owner[x] = oms.order /\ oms.order \in Orders
      BY <1>2, <1>4, <3>1 DEF RecInv, Ids, AnswerOwned, IInv, Linked
    <3>3. GoDown => oms'.pc = "idle"
      BY DEF GoDown, Idle
    <3>. QED
      BY <1>4, <3>2, <3>3
  <2>2. x \notin missed
    <3>1. orders[oms.order].exid = NoId
      BY <2>1 DEF RecInv, Saves, CallPending
    <3>. QED
      BY <1>2, <2>1, <3>1, GapClosed, ExIdsAssumption
  <2>3. Has(events, x) \/ Has(userCh, x)
    BY <1>2, <1>4, <2>2, ExIdsAssumption DEF RecInv, News, AnswerNews
  <2>4. CASE Has(userCh, x)
    BY <1>2, <2>1, <2>4, StillOnItsWay
  <2>5. CASE Has(events, x)
    <3>1. PICK j \in DOMAIN events : events[j].exid = x
      BY <2>5 DEF Has
    <3>2. \A fails : ~applyOrderEvent(fails)
      BY <2>1 DEF applyOrderEvent
    <3>3. UNCHANGED events \/ (userCh # <<>> /\ events' = Append(events, PumpedEvent))
      BY <2>1, <3>2, EventQueueStep
    <3>4. j \in DOMAIN events' /\ events'[j] = events[j]
      <4>1. CASE userCh # <<>> /\ events' = Append(events, PumpedEvent)
        BY <1>1, <3>1, <4>1, PumpedType DEF TypeOK
      <4>. QED
        BY <3>1, <3>3, <4>1
    <3>. QED
      BY <3>1, <3>4 DEF Has
  <2>. QED
    BY <2>3, <2>4, <2>5
<1>5. ASSUME NEW y \in ExIds, NEW answered \in BOOLEAN, NEW lost \in BOOLEAN,
             ExchangeAccepts(y, answered, lost)
      PROVE  xstat'[x] # xstat[x]
  <2>1. /\ xstat[y] = "None" /\ xstat' = [xstat EXCEPT ![y] = "Submitted"]
        /\ \E g \in {y, NoId} : oms' = [oms EXCEPT !.pc = "answered", !.got = g]
    BY <1>5, Zenon DEF ExchangeAccepts
  <2>2. x = y
    BY <1>1, <1>2, <2>1, ExIdsAssumption DEF TypeOK, OmsState
  <2>. QED
    BY <1>1, <2>1, <2>2 DEF TypeOK
<1>6. oms' # Idle /\ ~submitRetry /\ ~ExchangeRefuses
      /\ ~\E o \in Orders : oms' = [pc |-> "waiting", order |-> o, attempt |-> 0, got |-> NoId]
  <2>1. oms'.got # NoId /\ oms'.pc = "answered"
    BY <1>1, <1>2, ExIdsAssumption DEF Ids, AnswerOwned
  <2>2. ~submitRetry /\ ~ExchangeRefuses
    BY <1>1, <2>1 DEF submitRetry, ExchangeRefuses, TypeOK, OmsState
  <2>. QED
    BY <2>1, <2>2 DEF Idle
<1>. QED
  BY <1>3, <1>4, <1>5, <1>6, OmsStep

\* An event of x tells the OMS what the exchange shows, and reaches its order only.
LEMMA EventApplied ==
  ASSUME RecInv, NEW fails \in BOOLEAN, applyOrderEvent(fails),
         NEW x \in ExIds, Head(events).exid = x, Head(events).status = xstat[x],
         NEW o \in Orders, owner[x] = o, orders[o].exid = x
  PROVE  orders'[o].status = xstat[x]
<1>. DEFINE e == Head(events)
<1>1. \A p \in Matches(e) : p = o
  BY MatchesOwner DEF applyOrderEvent
<1>2. o \in Matches(e)
  <2>1. orders[o].status # "None"
    BY ExIdsAssumption DEF RecInv, Ids, RowsOwned
  <2>2. e.client # NoOrder /\ orders[e.client].status # "None" => Matches(e) = {e.client}
    BY DEF Matches
  <2>3. ~(e.client # NoOrder /\ orders[e.client].status # "None") => o \in Matches(e)
    BY <2>1 DEF Matches
  <2>. QED
    BY <1>1, <2>2, <2>3
<1>3. Update(o, [orders[o] EXCEPT !.status = e.status], fails)
  <2>. HIDE DEF e
  <2>. QED  BY <1>1, <1>2 DEF applyOrderEvent, e
<1>. QED
  BY <1>3 DEF Update, RecInv, IInv, TypeOK, Row

LEMMA ViewStep ==
  ASSUME RecInv, [Next]_vars
  PROVE  ViewConverges'
<1>1. TypeOK /\ TypeOK' /\ Ids'
  BY StepIInv, IdsStep DEF RecInv, IInv
<1>2. SUFFICES ASSUME NEW x \in ExIds, NEW o, o = owner'[x], phase' # "down",
                      o # NoOrder, orders'[o].exid = x,
                      x \notin missed', o \notin ambiguous',
                      ~Has(events, x)', ~Has(userCh, x)'
               PROVE  orders'[o].status = xstat'[x]
  BY DEF ViewConverges, KnownAs, Has
<1>3. o \in Orders
  BY <1>1, <1>2 DEF TypeOK
<1>4. xstat'[x] = xstat[x]
  <2>. DEFINE u == [exid |-> x, status |-> xstat'[x]]
  <2>1. SUFFICES ASSUME xstat'[x] # xstat[x]
                 PROVE  FALSE
    OBVIOUS
  <2>2. userCh' = Append(userCh, u) /\ userCh \in Seq(UserEvent)
    BY <1>2, <2>1, ChangeIsNews DEF RecInv, IInv, TypeOK
  <2>3. Len(userCh) + 1 \in DOMAIN userCh' /\ userCh'[Len(userCh) + 1] = u
    BY <2>2
  <2>. QED
    BY <1>2, <2>3 DEF Has
<1>5. CASE x \in missed
  <2>1. PICK p \in Orders : owner[x] = p /\ orders'[p].status = xstat[x] /\ owner' = owner
    BY <1>2, <1>5, GapClosed
  <2>. QED
    BY <1>2, <1>4, <2>1
<1>6. CASE x \notin missed
  <2>1. phase # "down" /\ ~GoDown /\ ~loadSnapshot
    BY <1>2, PhaseStep DEF loadSnapshot, GoDown
  <2>2. owner[x] = o /\ o \notin ambiguous
    <3>1. owner[x] # NoOrder
      BY <1>1, <1>2, <1>3, <1>4, OrdersAssumption DEF Ids, PlacedOwned, RecInv
    <3>. QED
      BY <1>2, <3>1, SettledStays
  <2>3. ~Has(userCh, x)
    BY <1>2, <2>1, StillOnItsWay
  <2>4. CASE Has(events, x)
    <3>1. PICK j \in DOMAIN events : events[j].exid = x
      BY <2>4 DEF Has
    <3>2. events # <<>> /\ events' = Tail(events)
      <4>1. CASE UNCHANGED events
        BY <1>2, <3>1, <4>1 DEF Has
      <4>2. CASE userCh # <<>> /\ events' = Append(events, PumpedEvent)
        <5>1. j \in DOMAIN events' /\ events'[j] = events[j]
          BY <1>1, <3>1, <4>2, PumpedType DEF TypeOK
        <5>. QED
          BY <1>2, <3>1, <5>1 DEF Has
      <4>. QED
        BY <2>1, <4>1, <4>2, EventQueueStep
    <3>3. PICK fails \in BOOLEAN : applyOrderEvent(fails)
      BY <2>1, <3>2, EventQueueStep, <1>1, PumpedType DEF TypeOK
    <3>4. \A k \in DOMAIN events : k > 1 => events[k].exid # x
      <4>1. ASSUME NEW k \in DOMAIN events, k > 1, events[k].exid = x
            PROVE  FALSE
        <5>1. k - 1 \in DOMAIN events' /\ events'[k - 1] = events[k]
          BY <1>1, <3>2, <4>1 DEF TypeOK
        <5>. QED
          BY <1>2, <4>1, <5>1 DEF Has
      <4>. QED
        BY <4>1
    <3>5. j = 1 /\ 1 \in DOMAIN events /\ Head(events) = events[1]
      BY <1>1, <3>1, <3>2, <3>4 DEF TypeOK
    <3>6. Newest(events, 1) /\ Head(events).exid = x
      BY <3>1, <3>4, <3>5 DEF Newest
    <3>7. Head(events).status = xstat[x]
      BY <1>6, <2>3, <3>5, <3>6 DEF RecInv, News, EventNews
    <3>8. orders[o].exid = x
      <4>1. CASE UNCHANGED orders
        BY <1>2, <4>1
      <4>2. ASSUME NEW p \in Orders, NEW s,
                   orders' = [orders EXCEPT ![p] = [orders[p] EXCEPT !.status = s]]
            PROVE  orders[o].exid = x
        BY <1>1, <1>2, <1>3, <4>2 DEF TypeOK, Row
      <4>. QED
        BY <3>3, <3>5, <4>1, <4>2, MatchesOwner, <3>2 DEF applyOrderEvent, Update
    <3>. QED
      BY <1>3, <1>4, <2>2, <3>3, <3>6, <3>7, <3>8, EventApplied
  <2>5. CASE ~Has(events, x)
    <3>1. ASSUME orders'[o] = orders[o]
          PROVE  orders'[o].status = xstat'[x]
      BY <1>2, <1>4, <1>6, <2>1, <2>2, <2>3, <2>5, <3>1
      DEF RecInv, News, ViewConverges, KnownAs, Has
    <3>2. ASSUME NEW p \in Orders, NEW r \in Row, NEW fails \in BOOLEAN,
                 NewRow(p, r), Update(p, r, fails)
          PROVE  orders'[o].status = xstat'[x]
      <4>1. CASE p # o
        BY <1>1, <1>3, <3>1, <3>2, <4>1 DEF Update, TypeOK
      <4>2. CASE p = o
        <5>1. orders'[o] = r /\ r.exid = x
          BY <1>1, <1>2, <1>3, <3>2, <4>2 DEF Update, TypeOK
        <5>2. Informs(o, r)
          BY <3>2, <4>2, <5>1, ExIdsAssumption DEF NewRow
        <5>3. x # oms.got
          BY <1>6, <2>3, <2>5, ExIdsAssumption DEF RecInv, News, AnswerNews
        <5>4. ASSUME events # <<>>, owner[Head(events).exid] = o
              PROVE  FALSE
          <6>1. 1 \in DOMAIN events /\ Head(events) = events[1] /\ Head(events) \in OrderEvent
            BY <1>1, <5>4 DEF TypeOK
          <6>2. Head(events).exid \in ExIds /\ Head(events).exid # x
            BY <2>5, <6>1 DEF Has, OrderEvent
          <6>. QED
            BY <1>2, <2>2, <5>4, <6>2 DEF RecInv, IInv, Placements, PlacedOnce
        <5>. QED
          BY <5>1, <5>2, <5>3, <5>4 DEF Informs
      <4>. QED
        BY <4>1, <4>2
    <3>3. ASSUME NEW saved \in SUBSET Orders, execFlush(saved)
          PROVE  orders' = orders
      BY <3>3 DEF execFlush
    <3>. QED
      BY <2>1, <3>1, <3>2, <3>3, RowStep
  <2>. QED
    BY <2>4, <2>5
<1>. QED
  BY <1>5, <1>6

-----------------------------------------------------------------------------
(* The theorems *)

LEMMA InitRecInv == Init => RecInv
<1> SUFFICES ASSUME Init  PROVE RecInv
  OBVIOUS
<1>1. IInv
  BY InitIInv
<1>2. Ids
  BY DEF Init, Ids, RowsOwned, AnswerOwned, PlacedOwned, TagsKnown, EventsOwned, NoRow, Idle
<1>3. Ends
  BY DEF Init, Ends, RowsReal, UpdatesReal, NoRow, EndStatus
<1>4. Saves
  BY OrdersAssumption
  DEF Init, Saves, DownEmpty, CallPending, RowsSubmitted, QueueUnsaved, OpenLoaded,
      PlacedSaved, NoRow, Idle, NonFinal, Live
<1>5. News
  BY DEF Init, News, UserNews, EventNews, AnswerNews, ViewConverges, KnownAs, Idle
<1>. QED
  BY <1>1, <1>2, <1>3, <1>4, <1>5 DEF RecInv

LEMMA StepRecInv == RecInv /\ [Next]_vars => RecInv'
<1> SUFFICES ASSUME RecInv, [Next]_vars  PROVE RecInv'
  OBVIOUS
<1>1. IInv'
  BY StepIInv DEF RecInv
<1>2. News'
  BY UserNewsStep, EventNewsStep, AnswerNewsStep, ViewStep DEF News
<1>. QED
  BY <1>1, <1>2, IdsStep, EndsStep, SavesStep DEF RecInv

\* The engine never makes up an end: a Filled or Cancelled row, in memory or in the
\* table, is what the exchange shows of an order placed for that id, for any number of
\* orders, lost answers, retries, restarts and queue sizes (applyOrderEvent, execCancel,
\* execSync, reconcileWithExecutors).
THEOREM EndsAreReal == Spec => []FinalStatesAreReal
<1>1. RecInv => FinalStatesAreReal
  BY DEF RecInv, Ends, RowsReal, FinalStatesAreReal, EndStatus
<1>. QED
  BY <1>1, InitRecInv, StepRecInv, PTL DEF Spec

\* Write-ahead: an order that is live at the exchange has a saved row that a restart
\* loads, and counts as open in the running engine, except after a lost Place answer or
\* a failed save (execSubmit, sendOrderUpdate, loadSnapshotAndReconcile).
THEOREM LiveOrdersRecorded == Spec => []LiveOrdersOnRecord
<1>1. ASSUME RecInv
      PROVE  LiveOrdersOnRecord
  <2>. USE <1>1
  <2>1. SUFFICES ASSUME NEW x \in ExIds, NEW o, o = owner[x], xstat[x] \in Live,
                        o \notin ambiguous \cup unsaved
                 PROVE  /\ store[o].status \in NonFinal
                        /\ phase # "down" => orders[o].status \in NonFinal
    BY DEF LiveOrdersOnRecord
  <2>2. o \in Orders
    BY <2>1 DEF RecInv, IInv, TypeOK, Ids, PlacedOwned, Live
  <2>3. ASSUME NEW row \in Row, row \in {orders[o], store[o]}, row.status # "None"
        PROVE  row.status \in NonFinal
    <3>1. row.status # "Rejected"
      BY <2>1, <2>2, <2>3 DEF RecInv, Ends, RowsReal, Unplaced
    <3>2. ASSUME row.status \in EndStatus
          PROVE  FALSE
      <4>1. PICK y \in ExIds : owner[y] = o /\ xstat[y] = row.status
        BY <2>2, <2>3, <3>2 DEF RecInv, Ends, RowsReal
      <4>2. y = x
        BY <2>1, <2>2, <4>1, OrdersAssumption DEF RecInv, IInv, Placements, PlacedOnce
      <4>. QED
        BY <2>1, <3>2, <4>1, <4>2 DEF EndStatus, Live
    <3>. QED
      BY <2>3, <3>1, <3>2 DEF Row, Status, EndStatus
  <2>4. orders[o] \in Row /\ store[o] \in Row
    BY <2>2 DEF RecInv, IInv, TypeOK
  <2>5. store[o].status \in NonFinal
    BY <2>1, <2>2, <2>3, <2>4 DEF RecInv, Saves, PlacedSaved
  <2>6. phase # "down" => orders[o].status # "None"
    BY <2>2, <2>5 DEF RecInv, Saves, OpenLoaded
  <2>. QED
    BY <2>3, <2>4, <2>5, <2>6
<1>. QED
  BY <1>1, InitRecInv, StepRecInv, PTL DEF Spec

\* Once no update of an order is on its way the engine shows what the exchange shows,
\* in any order of answers, pushes, cancels, syncs and restarts, unless an update or a
\* Place answer was lost (pump, applyOrderEvent, handleSubmitSuccess, reconcile).
THEOREM ViewIsTrue == Spec => []ViewConverges
<1>1. RecInv => ViewConverges
  BY DEF RecInv, News
<1>. QED
  BY <1>1, InitRecInv, StepRecInv, PTL DEF Spec

-----------------------------------------------------------------------------
(* OrderManager implements OrderLifecycle *)

Saved == [o \in Orders |-> store[o].status]

\* The update of a row is a Tell of its status, saved or not.
LEMMA UpdateTells ==
  ASSUME RecInv, NEW o \in Orders, NEW r \in Row, r.status # "None",
         NEW fails \in BOOLEAN, Update(o, r, fails)
  PROVE  Promise!Tell(o, r.status)
<1>1. orders \in [Orders -> Row] /\ store \in [Orders -> Row]
  BY DEF RecInv, IInv, TypeOK
<1>2. /\ orders' = [orders EXCEPT ![o] = r]
      /\ store' = store \/ store' = [store EXCEPT ![o] = r]
  BY DEF Update, Save
<1>3. Told' = [Told EXCEPT ![o] = r.status]
  <2>1. \A p \in Orders : Told'[p] = IF p = o THEN r.status ELSE Told[p]
    BY <1>1, <1>2 DEF Told
  <2>. QED
    BY <2>1 DEF Told
<1>4. Saved' \in {Saved, [Saved EXCEPT ![o] = r.status]}
  <2>1. CASE store' = store
    BY <2>1 DEF Saved
  <2>2. CASE store' = [store EXCEPT ![o] = r]
    <3>1. \A p \in Orders : Saved'[p] = IF p = o THEN r.status ELSE Saved[p]
      BY <1>1, <2>2 DEF Saved
    <3>. QED
      BY <3>1 DEF Saved
  <2>. QED
    BY <1>2, <2>1, <2>2
<1>. QED
  BY <1>3, <1>4 DEF Promise!Tell, Saved

LEMMA StatusSet ==
  ASSUME RecInv, NEW o \in Orders, NEW s \in Status,
         NEW r, r = [orders[o] EXCEPT !.status = s]
  PROVE  r \in Row /\ r.status = s
<1>1. orders[o] \in Row
  BY DEF RecInv, IInv, TypeOK
<1>. QED
  BY <1>1, RowTypes DEF RecInv, IInv, Row

\* The status of an order that is being placed is told as Pending.
LEMMA PendingTold ==
  ASSUME RecInv, oms.pc # "idle"
  PROVE  /\ oms.order \in Orders /\ orders[oms.order].status = "Pending"
         /\ Told[oms.order] = "Pending"
<1>1. oms.order \in Orders /\ orders[oms.order].status = "Pending"
  BY DEF RecInv, IInv, Linked, Saves, CallPending
<1>. QED
  BY <1>1 DEF Told

\* A row with an exchange id is told with its own status, which is not a rejection.
LEMMA PlacedTold ==
  ASSUME RecInv, NEW o \in Orders, orders[o].exid # NoId
  PROVE  Told[o] \notin {"None", "Rejected"} /\ owner[orders[o].exid] = o
BY DEF RecInv, Ids, RowsOwned, Told

\* The step learns the status s of x, an exchange order of o.
LEMMA LearnStep ==
  ASSUME RecInv, NEW o \in Orders, NEW x \in ExIds, owner[x] = o,
         Told[o] \notin {"None", "Rejected"},
         NEW r \in Row, r.status \in Live \/ r.status = xstat[x], r.status # "None",
         NEW fails \in BOOLEAN, Update(o, r, fails), UNCHANGED <<owner, xstat, ambiguous>>
  PROVE  Promise!Learn(o, x)
<1>1. Promise!Tell(o, r.status)
  BY UpdateTells
<1>2. r.status \in Promise!Open \cup {xstat[x]}
  BY DEF Promise!Open, Live
<1>. QED
  BY <1>1, <1>2 DEF Promise!Learn

LEMMA SubmitPromised ==
  ASSUME RecInv, NEW o \in Orders, NEW valid \in BOOLEAN, NEW fails \in BOOLEAN,
         execSubmit(o, valid, fails)
  PROVE  Promise!Ask(o)
<1>1. store[o].status = "None" /\ orders[o].status = "None"
  BY SubmitTaken DEF execSubmit
<1>2. PICK s \in {"Pending", "Rejected"} : Update(o, [status |-> s, exid |-> NoId], fails)
  BY DEF execSubmit
<1>3. [status |-> s, exid |-> NoId] \in Row
  BY DEF Row, Status, NonFinal
<1>4. Promise!Tell(o, s)
  BY <1>2, <1>3, UpdateTells
<1>5. Told[o] = "None"
  BY <1>1 DEF Told
<1>6. UNCHANGED <<owner, xstat, ambiguous>>
  BY DEF execSubmit, exchange
<1>. QED
  BY <1>4, <1>5, <1>6 DEF Promise!Ask

LEMMA AnswerPromised ==
  ASSUME RecInv, NEW fails \in BOOLEAN,
         handleSubmitSuccess(fails) \/ handleSubmitError(fails)
  PROVE  Promise!Next
<1>1. CASE handleSubmitSuccess(fails)
  <2>. DEFINE r == [status |-> "Submitted", exid |-> oms.got]
  <2>1. /\ oms.got \in ExIds /\ owner[oms.got] = oms.order /\ oms.pc # "idle"
    BY <1>1 DEF handleSubmitSuccess, RecInv, IInv, TypeOK, OmsState, Ids, AnswerOwned
  <2>2. r \in Row /\ r.status \in Live /\ r.status # "None"
    BY <2>1 DEF Row, Status, NonFinal, Live
  <2>3. Update(oms.order, r, fails) /\ UNCHANGED <<owner, xstat, ambiguous>>
    BY <1>1 DEF handleSubmitSuccess, exchange
  <2>. HIDE DEF r
  <2>4. Promise!Learn(oms.order, oms.got)
    BY <2>1, <2>2, <2>3, PendingTold, LearnStep
  <2>. QED
    BY <2>1, <2>4, PendingTold DEF Promise!Next
<1>2. CASE handleSubmitError(fails)
  <2>0. PICK o \in Orders : o = oms.order
    BY <1>2, PendingTold DEF handleSubmitError
  <2>. DEFINE r == [orders[o] EXCEPT !.status = "Rejected"]
  <2>1. Told[o] = "Pending" /\ (Unplaced(o) \/ o \in ambiguous)
    BY <1>2, <2>0, PendingTold
    DEF handleSubmitError, RecInv, IInv, Placements, CallFresh, Placing
  <2>2. r \in Row /\ r.status = "Rejected"
    BY <2>1, StatusSet DEF Status
  <2>3. Update(o, r, fails) /\ UNCHANGED <<owner, xstat, ambiguous>>
    BY <1>2, <2>0 DEF handleSubmitError, exchange
  <2>. HIDE DEF r
  <2>4. Promise!Tell(o, "Rejected")
    BY <2>1, <2>2, <2>3, UpdateTells
  <2>5. Promise!Refuse(o)
    BY <2>1, <2>3, <2>4 DEF Promise!Refuse, Promise!Unplaced, Unplaced
  <2>. QED
    BY <2>5 DEF Promise!Next
<1>. QED
  BY <1>1, <1>2

LEMMA CancelPromised ==
  ASSUME RecInv, NEW o \in Orders, NEW answered \in BOOLEAN, NEW lost \in BOOLEAN,
         NEW fails \in BOOLEAN, execCancel(o, answered, lost, fails)
  PROVE  Promise!Next
<1>. DEFINE x == orders[o].exid
            r == [orders[o] EXCEPT !.status = "Cancelled"]
<1>1. /\ xstat[x] \in Live /\ xstat' = [xstat EXCEPT ![x] = "Cancelled"]
      /\ UNCHANGED <<owner, ambiguous>> /\ x # NoId
  BY Zenon DEF execCancel
<1>2. x \in ExIds /\ owner[x] = o
  BY <1>1 DEF RecInv, IInv, TypeOK, Row, Ids, RowsOwned
<1>3. CASE answered
  <2>1. Update(o, r, fails)
    BY <1>3, Zenon DEF execCancel
  <2>2. r \in Row /\ r.status = "Cancelled"
    BY StatusSet DEF Status
  <2>3. Promise!Tell(o, "Cancelled")
    BY <2>1, <2>2, UpdateTells
  <2>4. Promise!CancelReal(o, x)
    BY <1>1, <1>2, <2>3 DEF Promise!CancelReal, Promise!Open, Live
  <2>. QED
    BY <1>2, <2>4 DEF Promise!Next
<1>4. CASE ~answered
  <2>1. UNCHANGED <<orders, store>>
    BY <1>4, Zenon DEF execCancel
  <2>2. Promise!Move(x)
    BY <1>1, <2>1 DEF Promise!Move, Promise!Open, Promise!Ended, Live, Told
  <2>. QED
    BY <1>2, <2>2 DEF Promise!Next
<1>. QED
  BY <1>3, <1>4

\* Syncs, reconciliation and events learn of an exchange order of their own order.
LEMMA LearnPromised ==
  ASSUME RecInv, NEW o \in Orders, NEW fails \in BOOLEAN,
         execSync(o, fails) \/ reconcile(o, fails) \/ reconcileNotFound(o, fails)
  PROVE  Promise!Next
<1>. DEFINE x == orders[o].exid
            r == [orders[o] EXCEPT !.status = xstat[x]]
<1>1. Update(o, r, fails) /\ UNCHANGED <<owner, xstat, ambiguous>> /\ x # NoId
  BY DEF execSync, reconcile, reconcileNotFound, exchange, RecInv, IInv, Linked
<1>2. x \in ExIds /\ xstat[x] \in XStatus
  BY <1>1 DEF RecInv, IInv, Linked, RowsLinked, TypeOK, Row
<1>3. r \in Row /\ r.status = xstat[x] /\ r.status # "None"
  BY <1>2, StatusSet DEF Status, XStatus, NonFinal, Live
<1>4. owner[x] = o /\ Told[o] \notin {"None", "Rejected"}
  BY <1>1, PlacedTold
<1>. HIDE DEF x, r
<1>5. Promise!Learn(o, x)
  BY <1>1, <1>2, <1>3, <1>4, LearnStep
<1>. QED
  BY <1>2, <1>5 DEF Promise!Next

LEMMA EventPromised ==
  ASSUME RecInv, NEW fails \in BOOLEAN, applyOrderEvent(fails)
  PROVE  Promise!Next \/ UNCHANGED <<orders, store, owner, xstat, ambiguous>>
<1>. DEFINE e == Head(events)
<1>1. UNCHANGED <<owner, xstat, ambiguous>> /\ events # <<>>
  BY DEF applyOrderEvent, exchange
<1>2. ASSUME NEW o \in Matches(e),
             Update(o, [orders[o] EXCEPT !.status = e.status], fails)
      PROVE  Promise!Next
  <2>. DEFINE r == [orders[o] EXCEPT !.status = e.status]
  <2>1. /\ e \in OrderEvent /\ o \in Orders /\ owner[e.exid] = o /\ orders[o].exid # NoId
        /\ e.status \in Live \/ e.status = xstat[e.exid]
    BY <1>1, <1>2, MatchesOwner
  <2>2. e.exid \in ExIds /\ e.status \in XStatus
    BY <2>1 DEF OrderEvent
  <2>3. r \in Row /\ r.status = e.status /\ r.status # "None"
    BY <2>1, <2>2, StatusSet DEF Status, XStatus, NonFinal, Live
  <2>. HIDE DEF r
  <2>4. Promise!Learn(o, e.exid)
    BY <1>1, <1>2, <2>1, <2>2, <2>3, PlacedTold, LearnStep, ZenonT(40) DEF r
  <2>. QED
    BY <2>1, <2>2, <2>4 DEF Promise!Next
<1>3. \/ UNCHANGED <<orders, store, unsaved>>
      \/ \E o \in Matches(e) : Update(o, [orders[o] EXCEPT !.status = e.status], fails)
  BY DEF applyOrderEvent
<1>. QED
  BY <1>1, <1>2, <1>3

LEMMA AcceptPromised ==
  ASSUME RecInv, NEW x \in ExIds, NEW answered \in BOOLEAN, NEW lost \in BOOLEAN,
         ExchangeAccepts(x, answered, lost)
  PROVE  Promise!Next
<1>. DEFINE o == oms.order
<1>1. /\ oms.pc = "waiting" /\ xstat[x] = "None"
      /\ owner' = [owner EXCEPT ![x] = o] /\ xstat' = [xstat EXCEPT ![x] = "Submitted"]
      /\ ambiguous' \in {ambiguous, ambiguous \cup {o}}
      /\ UNCHANGED <<orders, store>>
  BY Zenon DEF ExchangeAccepts
<1>2. o \in Orders /\ Told[o] = "Pending"
  BY <1>1, PendingTold
<1>3. Unplaced(o) \/ o \in ambiguous
  BY <1>1 DEF RecInv, IInv, Placements, CallKnown, CallFresh, Placing
<1>4. Told' = Told /\ Saved' = Saved
  BY <1>1 DEF Told, Saved
<1>5. Promise!Accept(o, x)
  BY <1>1, <1>2, <1>3, <1>4 DEF Promise!Accept, Promise!Unplaced, Unplaced, Saved
<1>. QED
  BY <1>2, <1>5 DEF Promise!Next

LEMMA MovePromised ==
  ASSUME RecInv, NEW x \in ExIds, NEW s \in XStatus, NEW lost \in BOOLEAN,
         ExchangeMoves(x, s, lost)
  PROVE  Promise!Next
<1>1. /\ xstat[x] \in Live /\ xstat' = [xstat EXCEPT ![x] = s]
      /\ s \in {"PartialFilled", "Filled", "Cancelled"}
      /\ UNCHANGED <<orders, store, owner, ambiguous>>
  BY Zenon DEF ExchangeMoves
<1>2. Promise!Move(x)
  BY <1>1 DEF Promise!Move, Promise!Open, Promise!Ended, Live, Told
<1>. QED
  BY <1>2 DEF Promise!Next

LEMMA FlushPromised ==
  ASSUME RecInv, NEW saved \in SUBSET Orders, execFlush(saved)
  PROVE  Promise!Next
<1>1. /\ \A o \in saved : orders[o].status # "None"
      /\ store' = [o \in Orders |-> IF o \in saved THEN orders[o] ELSE store[o]]
      /\ UNCHANGED <<orders, owner, xstat, ambiguous>>
  BY DEF execFlush, exchange
<1>2. Saved' = [o \in Orders |-> IF o \in saved THEN Told[o] ELSE Saved[o]]
  BY <1>1 DEF Saved, Told
<1>3. Told' = Told
  <2>1. \A o \in Orders : Told'[o] = Told[o]
    <3>1. SUFFICES ASSUME NEW o \in Orders
                   PROVE  Told'[o] = Told[o]
      OBVIOUS
    <3>2. CASE o \in saved
      BY <1>1, <3>2 DEF Told
    <3>3. CASE o \notin saved
      BY <1>1, <3>3 DEF Told
    <3>. QED
      BY <3>2, <3>3
  <2>. QED
    BY <2>1 DEF Told
<1>4. Promise!Flush
  BY <1>1, <1>2, <1>3 DEF Promise!Flush, Saved
<1>. QED
  BY <1>4 DEF Promise!Next

LEMMA RestartPromised ==
  ASSUME RecInv, loadSnapshot \/ GoDown
  PROVE  Promise!Next \/ UNCHANGED Promise!vars
<1>1. CASE GoDown
  <2>1. /\ orders' = [o \in Orders |-> NoRow]
        /\ UNCHANGED <<store, owner, xstat, ambiguous>>
    BY <1>1 DEF GoDown, exchange
  <2>2. Told' = Saved /\ Saved' = Saved
    BY <2>1 DEF Told, Saved, NoRow
  <2>3. Promise!FallBack
    BY <2>1, <2>2 DEF Promise!FallBack, Saved
  <2>. QED
    BY <2>3 DEF Promise!Next
<1>2. CASE loadSnapshot
  <2>1. /\ orders = [o \in Orders |-> NoRow]
        /\ orders' = [o \in Orders |->
                        IF store[o].status \in NonFinal THEN store[o] ELSE NoRow]
        /\ UNCHANGED <<store, owner, xstat, ambiguous>>
    BY <1>2 DEF loadSnapshot, exchange, RecInv, Saves, DownEmpty
  <2>2. \A o \in Orders : Told'[o] = store[o].status /\ Told[o] = store[o].status
    BY <2>1 DEF Told, NoRow
  <2>3. Told' = Told
    BY <2>2 DEF Told
  <2>. QED
    BY <2>1, <2>3 DEF Promise!vars
<1>. QED
  BY <1>1, <1>2

LEMMA PromiseInit == Init => Promise!Init
BY DEF Init, Promise!Init, Told, NoRow

LEMMA PromiseStep ==
  ASSUME RecInv, [Next]_vars
  PROVE  Promise!Next \/ UNCHANGED Promise!vars
<1>1. CASE UNCHANGED <<orders, store, owner, xstat, ambiguous>>
  BY <1>1 DEF Promise!vars, Told
<1>2. CASE RunLoop
  <2>1. ASSUME NEW o \in Orders, NEW valid \in BOOLEAN, NEW fails \in BOOLEAN,
               execSubmit(o, valid, fails)
        PROVE  Promise!Next
    BY <2>1, SubmitPromised DEF Promise!Next
  <2>2. \/ UNCHANGED <<orders, store, owner, xstat, ambiguous>>
        \/ \E o \in Orders, valid, fails \in BOOLEAN : execSubmit(o, valid, fails)
        \/ \E o \in Orders, answered, lost, fails \in BOOLEAN :
             execCancel(o, answered, lost, fails)
        \/ \E o \in Orders, fails \in BOOLEAN : execSync(o, fails)
        \/ \E fails \in BOOLEAN : \/ handleSubmitSuccess(fails) \/ handleSubmitError(fails)
                                  \/ applyOrderEvent(fails)
        \/ \E saved \in SUBSET Orders : execFlush(saved)
    BY <1>2, Zenon
    DEF RunLoop, execSubmitDuplicate, execCancelRefused, execSyncFailed, submitRetry,
        exchange
  <2>. QED
    BY <1>1, <2>1, <2>2, AnswerPromised, CancelPromised, LearnPromised, EventPromised,
       FlushPromised
<1>3. CASE Exchange
  BY <1>1, <1>3, AcceptPromised, MovePromised DEF Exchange, ExchangeRefuses, exchange
<1>4. CASE StartUp
  BY <1>1, <1>4, RestartPromised, LearnPromised
  DEF StartUp, reconcileFailed, Start, exchange
<1>5. CASE ShutDown
  BY <1>1, <1>5, RestartPromised
  DEF ShutDown, Exit, Crash, StopMarkets, CancelRunCtx, exchange
<1>6. CASE Callers \/ Pump \/ UNCHANGED vars
  <2>1. UNCHANGED <<orders, store, owner, xstat, ambiguous>>
    BY <1>6, Zenon
    DEF Callers, SubmitOrder, CancelOrder, SyncOrderStatus, Pump, pump, vars, exchange
  <2>. QED
    BY <1>1, <2>1
<1>. QED
  BY <1>2, <1>3, <1>4, <1>5, <1>6 DEF Next

\* The order path, with its queues, events, tags, retries and restarts, implements the
\* life of an order as a caller sees it: every step is one of OrderLifecycle's, or
\* changes nothing of what is told, saved or real (execSubmit, submitWithRetry,
\* applyOrderEvent, reconcileWithExecutors).
THEOREM OrderPathImplements == Spec => KeepsPromise
<1>1. RecInv /\ [Next]_vars => [Promise!Next]_(Promise!vars)
  BY PromiseStep
<1>. QED
  BY <1>1, InitRecInv, StepRecInv, PromiseInit, PTL DEF Spec, KeepsPromise, Promise!Spec
============================================================================
