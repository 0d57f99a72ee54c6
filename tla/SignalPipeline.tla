---------------------------- MODULE SignalPipeline ----------------------------
(***************************************************************************)
(* From a strategy's signal to an order at the exchange: the signal        *)
(* channel, dispatchSignal with its kill switch and risk checks, the order *)
(* channel, dispatchOrder and the run loop of the OMS, with the kill       *)
(* switch switched by operators in between.                                *)
(*                                                                         *)
(* A signal and the order decided from it have the same number.  Decision  *)
(* and risk rules other than the limit on open orders may reject any       *)
(* signal.  What happens to an order inside the OMS is OrderManager's.     *)
(***************************************************************************)
EXTENDS Naturals, Sequences, FiniteSets, Functions

CONSTANTS
  Signals,
  Opening,          \* the signals that open exposure (long or short); the others close
  SignalBuf,        \* capacity of signalCh
  OrderBuf,         \* capacity of orderCh
  MaxOpenOrders,    \* risk rule, 0: no limit
  CancelOnActivate, \* the activation asks for open orders to be cancelled
  ListLimit,        \* orders an activation lists at most (500 in the code)
  MaxActivations    \* bound: activations of the kill switch

ASSUME PipelineAssumption ==
  /\ Opening \subseteq Signals
  /\ {SignalBuf, OrderBuf, ListLimit} \subseteq Nat \ {0}
  /\ {MaxOpenOrders, MaxActivations} \subseteq Nat
  /\ CancelOnActivate \in BOOLEAN

VARIABLES
  stage,       \* where each signal or its order is
  signalCh,
  orderCh,
  counted,     \* open orders dispatchSignal has read
  killSwitch,
  listing,     \* activations that have switched and not listed the open orders yet
  toCancel,    \* listed, cancel not executed yet
  activations,
  slipped,     \* opening orders the OMS took since the activation
  spared,      \* orders whose cancel failed
  unlisted     \* open orders the last listing had no room for (no variables of the code, these three)

pipe == <<signalCh, orderCh, counted>>
switch == <<killSwitch, listing, toCancel, activations>>
seen == <<slipped, spared, unlisted>>
vars == <<stage, pipe, switch, seen>>

\* decided, counted: in the hands of dispatchSignal.  submitting: in dispatchOrder's, the
\* command queued.  pending: the run loop is placing it.  live: placed and not final.
Stage == {"none", "queued", "decided", "counted", "ordered", "submitting",
          "pending", "live", "final", "dropped"}

At(st) == {i \in Signals : stage[i] \in st}
NonFinal == At({"pending", "live"})

\* Types; the channels hold what their stage says, once, and each goroutine has one signal.
TypeOK ==
  /\ stage \in [Signals -> Stage]
  /\ signalCh \in Seq(Signals) /\ orderCh \in Seq(Signals)
  /\ Len(signalCh) <= SignalBuf /\ Len(orderCh) <= OrderBuf
  /\ Range(signalCh) = At({"queued"}) /\ Cardinality(At({"queued"})) = Len(signalCh)
  /\ Range(orderCh) = At({"ordered"}) /\ Cardinality(At({"ordered"})) = Len(orderCh)
  /\ Cardinality(At({"decided", "counted"})) <= 1
  /\ Cardinality(At({"submitting", "pending"})) <= 1
  /\ counted \in Nat
  /\ killSwitch \in BOOLEAN
  /\ activations \in 0..MaxActivations /\ listing \in 0..activations
  /\ toCancel \subseteq Signals
  /\ {slipped, spared, unlisted} \subseteq SUBSET Signals

Moves(i, st) == stage' = [stage EXCEPT ![i] = st]

-----------------------------------------------------------------------------
(* A strategy sends a signal; its reader waits for room *)

SendSignal(i) ==
  /\ stage[i] = "none"
  /\ Len(signalCh) < SignalBuf
  /\ signalCh' = Append(signalCh, i)
  /\ Moves(i, "queued")
  /\ UNCHANGED <<orderCh, counted, switch, seen>>

-----------------------------------------------------------------------------
(* dispatchSignal *)

\* Mutant: the kill switch is not asked.
receiveUnchecked(i, ok) ==
  /\ At({"decided", "counted"}) = {}
  /\ signalCh # <<>> /\ Head(signalCh) = i
  /\ signalCh' = Tail(signalCh)
  /\ Moves(i, IF ok THEN "decided" ELSE "dropped")
  /\ UNCHANGED <<orderCh, counted, switch, seen>>

\* Kill switch, then Decide, which may produce no order.
receive(i, ok) ==
  /\ At({"decided", "counted"}) = {}
  /\ signalCh # <<>> /\ Head(signalCh) = i
  /\ signalCh' = Tail(signalCh)
  /\ Moves(i, IF ok /\ ~(killSwitch /\ i \in Opening) THEN "decided" ELSE "dropped")
  /\ UNCHANGED <<orderCh, counted, switch, seen>>

\* A strategy rule that reduces the size reads the count again: this is the last reading.
buildRiskContext(i) ==
  /\ stage[i] = "decided"
  /\ counted' = Cardinality(NonFinal)
  /\ Moves(i, "counted")
  /\ UNCHANGED <<signalCh, orderCh, switch, seen>>

\* Mutant: one more than the limit passes.
WithinLimitBeyond == MaxOpenOrders > 0 => counted <= MaxOpenOrders

WithinLimit == MaxOpenOrders > 0 => counted < MaxOpenOrders

evaluateRejects(i) ==
  /\ stage[i] = "counted"
  /\ counted' = 0
  /\ Moves(i, "dropped")
  /\ UNCHANGED <<signalCh, orderCh, switch, seen>>

\* Waits for room in orderCh.
evaluateAllows(i) ==
  /\ stage[i] = "counted"
  /\ WithinLimit
  /\ Len(orderCh) < OrderBuf
  /\ orderCh' = Append(orderCh, i)
  /\ counted' = 0
  /\ Moves(i, "ordered")
  /\ UNCHANGED <<signalCh, switch, seen>>

-----------------------------------------------------------------------------
(* dispatchOrder and the run loop *)

\* Mutant: the dispatcher does not wait for the reply of the run loop.
SubmitOrderAsync(i) ==
  /\ orderCh # <<>> /\ Head(orderCh) = i
  /\ orderCh' = Tail(orderCh)
  /\ Moves(i, "submitting")
  /\ UNCHANGED <<signalCh, counted, switch, seen>>

\* SubmitOrder returns when the order is placed or given up.
SubmitOrder(i) ==
  /\ At({"submitting", "pending"}) = {}
  /\ orderCh # <<>> /\ Head(orderCh) = i
  /\ orderCh' = Tail(orderCh)
  /\ Moves(i, "submitting")
  /\ UNCHANGED <<signalCh, counted, switch, seen>>

execSubmit(i) ==
  /\ stage[i] = "submitting"
  /\ Moves(i, "pending")
  /\ slipped' = IF killSwitch /\ i \in Opening THEN slipped \cup {i} ELSE slipped
  /\ UNCHANGED <<pipe, switch, spared, unlisted>>

\* Placed, or rejected after the retries.
submitted(i, st) ==
  /\ stage[i] = "pending"
  /\ Moves(i, st)
  /\ UNCHANGED <<pipe, switch, seen>>

\* The exchange fills or cancels the order, and the run loop hears of it.
applyOrderEvent(i) ==
  /\ stage[i] = "live"
  /\ At({"pending"}) = {}
  /\ Moves(i, "final")
  /\ UNCHANGED <<pipe, switch, seen>>

\* Refused for a final order, and when the exchange or the network refuses.
execCancel(i, ok) ==
  /\ i \in toCancel
  /\ At({"pending"}) = {}
  /\ toCancel' = toCancel \ {i}
  /\ Moves(i, IF ok THEN "final" ELSE stage[i])
  /\ spared' = IF ok THEN spared ELSE spared \cup {i}
  /\ UNCHANGED <<pipe, killSwitch, listing, activations, slipped, unlisted>>

-----------------------------------------------------------------------------
(* The kill switch *)

\* On an active switch it changes nothing.
ActivateKillSwitch ==
  /\ ~killSwitch
  /\ activations < MaxActivations
  /\ activations' = activations + 1
  /\ killSwitch' = TRUE
  /\ listing' = IF CancelOnActivate THEN listing + 1 ELSE listing
  /\ slipped' = {} /\ spared' = {} /\ unlisted' = {}
  /\ UNCHANGED <<stage, pipe, toCancel>>

\* What a listing may return: it stops at its limit, and the orders are in a map, so that
\* any of them may be the ones left out.
ListOpenOrdersSnapshot ==
  {l \in SUBSET NonFinal :
     \/ l = NonFinal /\ Cardinality(l) <= ListLimit
     \/ Cardinality(l) = ListLimit}

\* Mutant: an order being placed is not listed.
cancelAllOpenOrdersPlaced(listed) ==
  /\ listing > 0
  /\ listing' = listing - 1
  /\ toCancel' = toCancel \cup (listed \cap At({"live"}))
  /\ unlisted' = NonFinal \ listed
  /\ UNCHANGED <<stage, pipe, killSwitch, activations, slipped, spared>>

cancelAllOpenOrders(listed) ==
  /\ listing > 0
  /\ listing' = listing - 1
  /\ toCancel' = toCancel \cup listed
  /\ unlisted' = NonFinal \ listed
  /\ UNCHANGED <<stage, pipe, killSwitch, activations, slipped, spared>>

DeactivateKillSwitch ==
  /\ killSwitch
  /\ killSwitch' = FALSE
  /\ UNCHANGED <<stage, pipe, listing, toCancel, activations, seen>>

-----------------------------------------------------------------------------
Init ==
  /\ stage = [i \in Signals |-> "none"]
  /\ signalCh = <<>> /\ orderCh = <<>> /\ counted = 0
  /\ killSwitch = FALSE /\ listing = 0 /\ toCancel = {} /\ activations = 0
  /\ slipped = {} /\ spared = {} /\ unlisted = {}

Dispatch(i) ==
  \/ \E ok \in BOOLEAN : receive(i, ok)
  \/ buildRiskContext(i) \/ evaluateRejects(i) \/ evaluateAllows(i)

Submit(i) ==
  \/ SubmitOrder(i) \/ execSubmit(i)
  \/ \E st \in {"live", "final"} : submitted(i, st)

Dispatches == \E i \in Signals : Dispatch(i)
Submits == \E i \in Signals : Submit(i)

Operators ==
  \/ ActivateKillSwitch \/ DeactivateKillSwitch
  \/ \E listed \in ListOpenOrdersSnapshot : cancelAllOpenOrders(listed)

Next ==
  \/ Operators \/ Dispatches \/ Submits
  \/ \E i \in Signals :
       \/ SendSignal(i) \/ applyOrderEvent(i)
       \/ \E ok \in BOOLEAN : execCancel(i, ok)

Spec == Init /\ [][Next]_vars

-----------------------------------------------------------------------------
(* Properties *)

\* What slips past the kill switch was in the pipeline when it came on: one signal in the
\* hands of dispatchSignal, a full orderCh, one order in the hands of dispatchOrder.
SlipBounded == Cardinality(slipped) <= OrderBuf + 2

\* The limit on open orders is exceeded by what dispatchSignal cannot see yet at most: a
\* full orderCh and the order in the hands of dispatchOrder (dispatchSignal, NonFinalOrderCount).
OpenOrdersBounded ==
  MaxOpenOrders > 0 => Cardinality(NonFinal) <= MaxOpenOrders + OrderBuf + 1

\* When an activation is done cancelling, the open orders left that open exposure are those
\* that slipped past it, those whose cancel failed and those its listing had no room for; an
\* order that was being placed is not overlooked (cancelAllOpenOrders, CancelOrder behind
\* SubmitOrder in the run loop's queue).  With a limit on open orders, no more are left out
\* than limit, orderCh and dispatchOrder together exceed the listing's; without one any number.
ActivationClears ==
  /\ CancelOnActivate /\ killSwitch /\ listing = 0 /\ toCancel = {} =>
       NonFinal \cap Opening \subseteq slipped \cup spared \cup unlisted
  /\ MaxOpenOrders > 0 /\ unlisted # {} =>
       Cardinality(unlisted) + ListLimit <= MaxOpenOrders + OrderBuf + 1
=============================================================================
