---------------------------- MODULE OrderPathProofs ----------------------------
(***************************************************************************)
(* Proofs about the path of an order, from a strategy's signal to the      *)
(* exchange and back.                                                      *)
(*                                                                         *)
(* SignalPipeline: its types, the bound on the orders that slip past the   *)
(* kill switch, the bound on open orders, and what an activation that      *)
(* cancels leaves open.  They hold for any set of signals, an infinite one *)
(* included: only finitely many are ever sent.                             *)
(*                                                                         *)
(* GateClient: what a session says of an order is what the order is, and   *)
(* what the caller took adds up.  They hold for any amount, any requests   *)
(* and client order ids, any way of writing rows and any capacity.         *)
(***************************************************************************)
EXTENDS SignalPipeline, GateClient, FiniteSetTheorems, TLAPS

Sent == {i \in Signals : stage[i] # "none"}

\* One goroutine's hands.
Single(S) == \A i, j \in S : i = j

\* A channel holds what its stage says, once, within its capacity.
Holds(ch, cap, st) ==
  /\ Len(ch) <= cap
  /\ IsInjective(ch)
  /\ Range(ch) = At({st})

Sorts ==
  /\ stage \in [Signals -> Stage]
  /\ signalCh \in Seq(Signals) /\ orderCh \in Seq(Signals)
  /\ counted \in Nat
  /\ killSwitch \in BOOLEAN
  /\ activations \in 0..MaxActivations /\ listing \in 0..activations
  /\ toCancel \subseteq Signals
  /\ slipped \subseteq Signals /\ spared \subseteq Signals /\ unlisted \subseteq Signals

Carried == Holds(signalCh, SignalBuf, "queued") /\ Holds(orderCh, OrderBuf, "ordered")

Hands == Single(At({"decided", "counted"})) /\ Single(At({"submitting", "pending"}))

\* What slipped, and what may still slip.
Slipping == slipped \cup (At({"decided", "counted", "ordered", "submitting"}) \cap Opening)

Slips == Cardinality(IF killSwitch THEN Slipping ELSE slipped) <= OrderBuf + 2

\* Open orders, and orders that dispatchSignal no longer holds back.
Allowed == At({"ordered", "submitting", "pending", "live"})

Opens ==
  /\ MaxOpenOrders > 0 => Cardinality(Allowed) <= MaxOpenOrders + OrderBuf + 1
  /\ At({"counted"}) # {} => Cardinality(Allowed) <= counted + OrderBuf + 1

\* An activation's listing of the open orders.
Lists == \E listed \in ListOpenOrdersSnapshot : cancelAllOpenOrders(listed)

\* While the kill switch is on and its listing is done, an open order that opens exposure
\* slipped, was spared, had no room in the listing or is about to be cancelled.
Clears ==
  CancelOnActivate /\ killSwitch /\ listing = 0 =>
    NonFinal \cap Opening \subseteq slipped \cup spared \cup unlisted \cup toCancel

\* A listing leaves out no more than the limit on open orders lets exceed it.
Leaves ==
  MaxOpenOrders > 0 /\ unlisted # {} =>
    Cardinality(unlisted) + ListLimit <= MaxOpenOrders + OrderBuf + 1

\* What is listed to be cancelled was open.
Listed == toCancel \subseteq At({"pending", "live", "final"})

Base == Sorts /\ IsFiniteSet(Sent) /\ IsFiniteSet(slipped) /\ Listed /\ Carried /\ Hands

IInv == Base /\ Slips /\ Opens /\ Clears /\ Leaves

-----------------------------------------------------------------------------
(* Sets of signals and channels *)

\* A dispatcher holds one signal at most.
LEMMA SingleIsSmall ==
  ASSUME NEW S, Single(S)
  PROVE  IsFiniteSet(S) /\ Cardinality(S) \in 0..1
<1>1. CASE S = {}
  BY <1>1, FS_EmptySet
<1>2. CASE S # {}
  <2>1. PICK i \in S : TRUE
    BY <1>2
  <2>2. S = {i}
    BY <2>1 DEF Single
  <2>3. IsFiniteSet({i}) /\ Cardinality({i}) = 1
    BY FS_Singleton
  <2> QED
    BY <2>2, <2>3
<1> QED
  BY <1>1, <1>2

\* As many signals in the stage of a channel as the channel holds.
LEMMA HeldIsLength ==
  ASSUME NEW ch \in Seq(Signals), NEW cap, NEW st, Holds(ch, cap, st)
  PROVE  IsFiniteSet(At({st})) /\ Cardinality(At({st})) = Len(ch)
<1>1. ch \in Surjection(1..Len(ch), Range(ch)) /\ ch \in Injection(1..Len(ch), Range(ch))
  BY DEF Holds, Surjection, Injection, IsInjective, Range
<1>2. IsFiniteSet(1..Len(ch)) /\ Cardinality(1..Len(ch)) = Len(ch)
  <2>1. Len(ch) \in Nat
    OBVIOUS
  <2> QED
    BY <2>1, FS_Interval
<1>3. Range(ch) = At({st})
  BY DEF Holds
<1> QED
  BY <1>1, <1>2, <1>3, FS_Surjection

\* Sending puts a signal that is not in the channel at its end.
LEMMA PushHeld ==
  ASSUME NEW ch \in Seq(Signals), NEW i \in Signals, IsInjective(ch), i \notin Range(ch)
  PROVE  /\ IsInjective(Append(ch, i))
         /\ Range(Append(ch, i)) = Range(ch) \cup {i}
         /\ Len(Append(ch, i)) = Len(ch) + 1
<1> DEFINE q == Append(ch, i)
<1>1. /\ DOMAIN ch = 1..Len(ch)
      /\ DOMAIN q = 1..(Len(ch) + 1)
      /\ Len(ch) \in Nat
      /\ q[Len(ch) + 1] = i
      /\ \A k \in 1..Len(ch) : q[k] = ch[k]
  OBVIOUS
<1> HIDE DEF q
<1>2. \A k \in DOMAIN q : k \in DOMAIN ch \/ k = Len(ch) + 1
  BY <1>1
<1>3. \A k \in DOMAIN ch : ch[k] # i
  BY DEF Range
<1>4. IsInjective(q)
  BY <1>1, <1>2, <1>3 DEF IsInjective
<1>5. Range(q) = Range(ch) \cup {i}
  BY <1>1, <1>2 DEF Range
<1> QED
  BY <1>4, <1>5 DEF q

\* Receiving takes the first signal from the channel.
LEMMA PopHeld ==
  ASSUME NEW ch \in Seq(Signals), ch # <<>>, IsInjective(ch)
  PROVE  /\ Tail(ch) \in Seq(Signals)
         /\ IsInjective(Tail(ch))
         /\ Head(ch) \in Range(ch)
         /\ Range(Tail(ch)) = Range(ch) \ {Head(ch)}
         /\ Len(Tail(ch)) = Len(ch) - 1
<1> DEFINE q == Tail(ch)
<1>1. /\ DOMAIN ch = 1..Len(ch)
      /\ DOMAIN q = 1..(Len(ch) - 1)
      /\ Len(ch) \in Nat \ {0}
      /\ Head(ch) = ch[1]
      /\ \A k \in 1..(Len(ch) - 1) : q[k] = ch[k + 1]
      /\ q \in Seq(Signals) /\ Len(q) = Len(ch) - 1
  OBVIOUS
<1> HIDE DEF q
<1>2. \A k \in DOMAIN ch : k = 1 \/ k - 1 \in DOMAIN q
  BY <1>1
<1>3. \A k \in DOMAIN q : k + 1 \in DOMAIN ch /\ k + 1 # 1 /\ k \in Nat
  BY <1>1
<1>4. IsInjective(q)
  <2> SUFFICES ASSUME NEW j \in DOMAIN q, NEW k \in DOMAIN q, q[j] = q[k] PROVE j = k
    BY DEF IsInjective
  <2>1. ch[j + 1] = ch[k + 1]
    BY <1>1
  <2>2. j + 1 = k + 1
    BY <1>3, <2>1 DEF IsInjective
  <2> QED
    BY <2>2, <1>3
<1>5. Range(q) \subseteq Range(ch) \ {Head(ch)}
  <2> SUFFICES ASSUME NEW k \in DOMAIN q PROVE q[k] \in Range(ch) \ {Head(ch)}
    BY DEF Range
  <2>1. k + 1 \in DOMAIN ch /\ 1 \in DOMAIN ch /\ k + 1 # 1 /\ q[k] = ch[k + 1]
    BY <1>1, <1>3
  <2> QED
    BY <2>1, <1>1 DEF Range, IsInjective
<1>6. Range(ch) \ {Head(ch)} \subseteq Range(q)
  <2> SUFFICES ASSUME NEW k \in DOMAIN ch, ch[k] # Head(ch) PROVE ch[k] \in Range(q)
    BY DEF Range
  <2>1. k - 1 \in DOMAIN q /\ q[k - 1] = ch[k]
    BY <1>1, <1>2
  <2> QED
    BY <2>1 DEF Range
<1>7. Head(ch) \in Range(ch)
  <2>1. 1 \in DOMAIN ch
    BY <1>1
  <2> QED
    BY <2>1, <1>1 DEF Range
<1> QED
  BY <1>1, <1>4, <1>5, <1>6, <1>7 DEF q

\* What a move does to the sets of signals by stage.
LEMMA MovedSets ==
  ASSUME Sorts, NEW i \in Signals, NEW st \in Stage, Moves(i, st)
  PROVE  /\ stage' \in [Signals -> Stage]
         /\ stage'[i] = st
         /\ \A j \in Signals : j # i => stage'[j] = stage[j]
BY DEF Sorts, Moves

-----------------------------------------------------------------------------
(* How a step changes the variables *)

\* A step is an action of one signal, of the operators, or a stutter.
LEMMA StepKinds ==
  ASSUME [Next]_vars
  PROVE  \/ \E i \in Signals, ok \in BOOLEAN : receive(i, ok) \/ execCancel(i, ok)
         \/ \E i \in Signals :
              \/ SendSignal(i) \/ buildRiskContext(i) \/ evaluateRejects(i) \/ evaluateAllows(i)
              \/ SubmitOrder(i) \/ execSubmit(i) \/ applyOrderEvent(i)
              \/ submitted(i, "live") \/ submitted(i, "final")
         \/ ActivateKillSwitch \/ Lists \/ DeactivateKillSwitch
         \/ UNCHANGED vars
BY Zenon DEF Next, Operators, Lists, Dispatches, Dispatch, Submits, Submit

\* Every step keeps the variables in their sets.
LEMMA SortsStep ==
  ASSUME Sorts, IsFiniteSet(Sent), [Next]_vars
  PROVE  Sorts'
<1> USE DEF Sorts, pipe, switch, seen
<1>1. ASSUME NEW i \in Signals, NEW ok \in BOOLEAN, receive(i, ok) PROVE Sorts'
  BY <1>1 DEF receive, Moves, Stage
<1>2. ASSUME NEW i \in Signals, NEW ok \in BOOLEAN, execCancel(i, ok) PROVE Sorts'
  BY <1>2 DEF execCancel, Moves, Stage
<1>3. ASSUME NEW i \in Signals, SendSignal(i) PROVE Sorts'
  BY <1>3 DEF SendSignal, Moves, Stage
<1>4. ASSUME NEW i \in Signals, buildRiskContext(i) PROVE Sorts'
  <2>1. IsFiniteSet(NonFinal)
    BY FS_Subset DEF NonFinal, At, Sent
  <2>2. counted' \in Nat
    BY <1>4, <2>1, FS_CardinalityType DEF buildRiskContext
  <2> QED
    BY <1>4, <2>2 DEF buildRiskContext, Moves, Stage
<1>5. ASSUME NEW i \in Signals, evaluateRejects(i) PROVE Sorts'
  BY <1>5 DEF evaluateRejects, Moves, Stage
<1>6. ASSUME NEW i \in Signals, evaluateAllows(i) PROVE Sorts'
  BY <1>6 DEF evaluateAllows, Moves, Stage
<1>7. ASSUME NEW i \in Signals, SubmitOrder(i) PROVE Sorts'
  BY <1>7 DEF SubmitOrder, Moves, Stage
<1>8. ASSUME NEW i \in Signals, execSubmit(i) PROVE Sorts'
  BY <1>8 DEF execSubmit, Moves, Stage
<1>9. ASSUME NEW i \in Signals, NEW st \in {"live", "final"},
             applyOrderEvent(i) \/ submitted(i, st)
      PROVE  Sorts'
  BY <1>9 DEF applyOrderEvent, submitted, Moves, Stage
<1>10. CASE ActivateKillSwitch
  BY <1>10, PipelineAssumption DEF ActivateKillSwitch
<1>11. CASE Lists
  BY <1>11 DEF Lists, cancelAllOpenOrders, ListOpenOrdersSnapshot, NonFinal, At
<1>12. CASE DeactivateKillSwitch \/ UNCHANGED vars
  BY <1>12 DEF DeactivateKillSwitch, vars
<1> QED
  BY <1>1, <1>2, <1>3, <1>4, <1>5, <1>6, <1>7, <1>8, <1>9, <1>10, <1>11, <1>12, StepKinds

\* The head of a channel is in its stage.
LEMMA Heads ==
  ASSUME Sorts, Carried
  PROVE  /\ signalCh # <<>> => stage[Head(signalCh)] = "queued"
         /\ orderCh # <<>> => stage[Head(orderCh)] = "ordered"
BY PopHeld DEF Sorts, Carried, Holds, At

\* signalCh, the queued signals and those in the hands of dispatchSignal.
LEMMA SignalFlow ==
  ASSUME Base, [Next]_vars
  PROVE  \/ \E i \in Signals : SendSignal(i)
         \/ \E i \in Signals, ok \in BOOLEAN : receive(i, ok)
         \/ /\ signalCh' = signalCh /\ At({"queued"})' = At({"queued"})
            /\ At({"decided", "counted"})' \subseteq At({"decided", "counted"})
<1> USE DEF Base, Sorts, pipe, switch, seen, Listed, At, Moves
<1>1. ASSUME NEW i \in Signals, NEW ok \in BOOLEAN, execCancel(i, ok)
      PROVE  /\ signalCh' = signalCh /\ At({"queued"})' = At({"queued"})
             /\ At({"decided", "counted"})' \subseteq At({"decided", "counted"})
  BY <1>1 DEF execCancel
<1>2. ASSUME NEW i \in Signals, buildRiskContext(i) \/ evaluateRejects(i) \/ evaluateAllows(i)
      PROVE  /\ signalCh' = signalCh /\ At({"queued"})' = At({"queued"})
             /\ At({"decided", "counted"})' \subseteq At({"decided", "counted"})
  BY <1>2 DEF buildRiskContext, evaluateRejects, evaluateAllows
<1>3. ASSUME NEW i \in Signals, SubmitOrder(i) \/ execSubmit(i)
      PROVE  /\ signalCh' = signalCh /\ At({"queued"})' = At({"queued"})
             /\ At({"decided", "counted"})' \subseteq At({"decided", "counted"})
  <2>1. CASE SubmitOrder(i)
    BY <2>1, Heads DEF SubmitOrder
  <2>2. CASE execSubmit(i)
    BY <2>2 DEF execSubmit
  <2> QED
    BY <2>1, <2>2, <1>3
<1>4. ASSUME NEW i \in Signals, NEW st \in {"live", "final"},
             applyOrderEvent(i) \/ submitted(i, st)
      PROVE  /\ signalCh' = signalCh /\ At({"queued"})' = At({"queued"})
             /\ At({"decided", "counted"})' \subseteq At({"decided", "counted"})
  BY <1>4 DEF applyOrderEvent, submitted
<1>5. CASE ActivateKillSwitch \/ Lists \/ DeactivateKillSwitch \/ UNCHANGED vars
  BY <1>5 DEF ActivateKillSwitch, Lists, cancelAllOpenOrders, DeactivateKillSwitch, vars
<1> QED
  BY <1>1, <1>2, <1>3, <1>4, <1>5, StepKinds, Zenon

\* orderCh, the orders in it and those in the hands of dispatchOrder and the run loop.
LEMMA OrderFlow ==
  ASSUME Base, [Next]_vars
  PROVE  \/ \E i \in Signals : evaluateAllows(i)
         \/ \E i \in Signals : SubmitOrder(i)
         \/ /\ orderCh' = orderCh /\ At({"ordered"})' = At({"ordered"})
            /\ At({"submitting", "pending"})' \subseteq At({"submitting", "pending"})
<1> USE DEF Base, Sorts, pipe, switch, seen, Listed, At, Moves
<1>1. ASSUME NEW i \in Signals, NEW ok \in BOOLEAN, execCancel(i, ok)
      PROVE  /\ orderCh' = orderCh /\ At({"ordered"})' = At({"ordered"})
             /\ At({"submitting", "pending"})' \subseteq At({"submitting", "pending"})
  BY <1>1 DEF execCancel
<1>2. ASSUME NEW i \in Signals, NEW ok \in BOOLEAN, receive(i, ok)
      PROVE  /\ orderCh' = orderCh /\ At({"ordered"})' = At({"ordered"})
             /\ At({"submitting", "pending"})' \subseteq At({"submitting", "pending"})
  BY <1>2, Heads DEF receive
<1>3. ASSUME NEW i \in Signals, SendSignal(i) \/ buildRiskContext(i) \/ evaluateRejects(i)
      PROVE  /\ orderCh' = orderCh /\ At({"ordered"})' = At({"ordered"})
             /\ At({"submitting", "pending"})' \subseteq At({"submitting", "pending"})
  BY <1>3 DEF SendSignal, buildRiskContext, evaluateRejects
<1>4. ASSUME NEW i \in Signals, NEW st \in {"live", "final"},
             execSubmit(i) \/ applyOrderEvent(i) \/ submitted(i, st)
      PROVE  /\ orderCh' = orderCh /\ At({"ordered"})' = At({"ordered"})
             /\ At({"submitting", "pending"})' \subseteq At({"submitting", "pending"})
  BY <1>4 DEF execSubmit, applyOrderEvent, submitted
<1>5. CASE ActivateKillSwitch \/ Lists \/ DeactivateKillSwitch \/ UNCHANGED vars
  BY <1>5 DEF ActivateKillSwitch, Lists, cancelAllOpenOrders, DeactivateKillSwitch, vars
<1> QED
  BY <1>1, <1>2, <1>3, <1>4, <1>5, StepKinds, Zenon

\* What slipped or may still slip grows by an activation or while the kill switch is off.
LEMMA SlipFlow ==
  ASSUME Base, [Next]_vars
  PROVE  \/ ActivateKillSwitch
         \/ /\ ~killSwitch /\ ~killSwitch'
            /\ slipped' = slipped
         \/ /\ killSwitch
            /\ slipped' \subseteq slipped \cup At({"submitting"})
            /\ Slipping' \subseteq Slipping
<1> DEFINE Flow == \/ /\ ~killSwitch /\ ~killSwitch'
                      /\ slipped' = slipped
                   \/ /\ killSwitch
                      /\ slipped' \subseteq slipped \cup At({"submitting"})
                      /\ Slipping' \subseteq Slipping
<1> USE DEF Base, Sorts, pipe, switch, seen, Listed, At, Moves, Slipping
<1>1. ASSUME NEW i \in Signals, NEW ok \in BOOLEAN, execCancel(i, ok)
      PROVE  Flow
  BY <1>1 DEF execCancel
<1>2. ASSUME NEW i \in Signals, NEW ok \in BOOLEAN, receive(i, ok)
      PROVE  Flow
  BY <1>2, Heads DEF receive
<1>3. ASSUME NEW i \in Signals, SendSignal(i) \/ buildRiskContext(i)
      PROVE  Flow
  BY <1>3 DEF SendSignal, buildRiskContext
<1>4. ASSUME NEW i \in Signals, evaluateRejects(i) \/ evaluateAllows(i)
      PROVE  Flow
  BY <1>4 DEF evaluateRejects, evaluateAllows
<1>5. ASSUME NEW i \in Signals, SubmitOrder(i)
      PROVE  Flow
  BY <1>5, Heads DEF SubmitOrder
<1>6. ASSUME NEW i \in Signals, execSubmit(i)
      PROVE  Flow
  BY <1>6 DEF execSubmit
<1>7. ASSUME NEW i \in Signals, NEW st \in {"live", "final"},
             applyOrderEvent(i) \/ submitted(i, st)
      PROVE  Flow
  BY <1>7 DEF applyOrderEvent, submitted
<1>8. CASE Lists \/ DeactivateKillSwitch \/ UNCHANGED vars
  BY <1>8 DEF Lists, cancelAllOpenOrders, DeactivateKillSwitch, vars
<1> QED
  BY <1>1, <1>2, <1>3, <1>4, <1>5, <1>6, <1>7, <1>8, StepKinds, Zenon

\* The orders allowed and what dispatchSignal has read of them.
LEMMA OpenFlow ==
  ASSUME Base, [Next]_vars
  PROVE  \/ \E i \in Signals : evaluateAllows(i)
         \/ \E i \in Signals : buildRiskContext(i)
         \/ /\ Allowed' \subseteq Allowed
            /\ At({"counted"})' # {} => At({"counted"}) # {} /\ counted' = counted
<1> DEFINE Flow == /\ Allowed' \subseteq Allowed
                   /\ At({"counted"})' # {} => At({"counted"}) # {} /\ counted' = counted
<1> USE DEF Base, Sorts, pipe, switch, seen, Listed, At, Moves, Allowed
<1>1. ASSUME NEW i \in Signals, NEW ok \in BOOLEAN, execCancel(i, ok)
      PROVE  Flow
  BY <1>1 DEF execCancel
<1>2. ASSUME NEW i \in Signals, NEW ok \in BOOLEAN, receive(i, ok)
      PROVE  Flow
  BY <1>2, Heads DEF receive
<1>3. ASSUME NEW i \in Signals, SendSignal(i)
      PROVE  Flow
  BY <1>3 DEF SendSignal
<1>4. ASSUME NEW i \in Signals, evaluateRejects(i)
      PROVE  Flow
  BY <1>4 DEF evaluateRejects, Hands, Single
<1>5. ASSUME NEW i \in Signals, SubmitOrder(i)
      PROVE  Flow
  BY <1>5, Heads DEF SubmitOrder
<1>6. ASSUME NEW i \in Signals, execSubmit(i)
      PROVE  Flow
  BY <1>6 DEF execSubmit
<1>7. ASSUME NEW i \in Signals, NEW st \in {"live", "final"},
             applyOrderEvent(i) \/ submitted(i, st)
      PROVE  Flow
  BY <1>7 DEF applyOrderEvent, submitted
<1>8. CASE ActivateKillSwitch \/ Lists \/ DeactivateKillSwitch \/ UNCHANGED vars
  BY <1>8 DEF ActivateKillSwitch, Lists, cancelAllOpenOrders, DeactivateKillSwitch, vars
<1> QED
  BY <1>1, <1>2, <1>3, <1>4, <1>5, <1>6, <1>7, <1>8, StepKinds, Zenon

-----------------------------------------------------------------------------
(* The invariant *)

\* A step sends one more signal at most, and one more slips at most.
LEMMA FiniteStep ==
  ASSUME Base, [Next]_vars
  PROVE  IsFiniteSet(Sent)' /\ IsFiniteSet(slipped)'
<1> USE DEF Base, Sorts
<1>1. CASE \E i \in Signals : SendSignal(i)
  <2>1. PICK i \in Signals : SendSignal(i)
    BY <1>1
  <2>2. IsFiniteSet(Sent \cup {i})
    BY FS_AddElement
  <2>3. Sent' \subseteq Sent \cup {i} /\ slipped' = slipped
    BY <2>1 DEF SendSignal, Moves, Sent, seen
  <2> QED
    BY <2>2, <2>3, FS_Subset
<1>2. CASE ~ \E i \in Signals : SendSignal(i)
  <2>1. Sent' \subseteq Sent
    <3> USE DEF Sent, At, pipe, switch, seen, Moves, Listed
    <3>1. ASSUME NEW i \in Signals, NEW ok \in BOOLEAN, receive(i, ok) PROVE Sent' \subseteq Sent
      BY <3>1, Heads DEF receive
    <3>2. ASSUME NEW i \in Signals, NEW ok \in BOOLEAN, execCancel(i, ok) PROVE Sent' \subseteq Sent
      BY <3>2 DEF execCancel
    <3>3. ASSUME NEW i \in Signals, buildRiskContext(i) \/ evaluateRejects(i) \/ evaluateAllows(i)
          PROVE  Sent' \subseteq Sent
      BY <3>3 DEF buildRiskContext, evaluateRejects, evaluateAllows
    <3>4. ASSUME NEW i \in Signals, SubmitOrder(i) PROVE Sent' \subseteq Sent
      BY <3>4, Heads DEF SubmitOrder
    <3>5. ASSUME NEW i \in Signals, NEW st \in {"live", "final"},
                 execSubmit(i) \/ applyOrderEvent(i) \/ submitted(i, st)
          PROVE  Sent' \subseteq Sent
      BY <3>5 DEF execSubmit, applyOrderEvent, submitted
    <3>6. CASE ActivateKillSwitch \/ Lists \/ DeactivateKillSwitch \/ UNCHANGED vars
      BY <3>6 DEF ActivateKillSwitch, Lists, cancelAllOpenOrders, DeactivateKillSwitch, vars
    <3> QED
      BY <1>2, <3>1, <3>2, <3>3, <3>4, <3>5, <3>6, StepKinds, Zenon
  <2>2. IsFiniteSet(Sent')
    BY <2>1, FS_Subset
  <2>3. IsFiniteSet(slipped \cup At({"submitting"})) /\ IsFiniteSet({})
    <3>1. IsFiniteSet(At({"submitting"}))
      BY SingleIsSmall DEF Hands, At, Single
    <3> QED
      BY <3>1, FS_Union, FS_EmptySet
  <2>4. slipped' \subseteq slipped \cup At({"submitting"})
    BY SlipFlow DEF ActivateKillSwitch
  <2> QED
    BY <2>2, <2>3, <2>4, FS_Subset
<1> QED
  BY <1>1, <1>2

\* Every step keeps what the listing of a cancelling activation has seen.
LEMMA ListedStep ==
  ASSUME Base, [Next]_vars
  PROVE  Listed'
<1> USE DEF Base, Sorts, pipe, switch, seen, Listed, At, Moves
<1>1. ASSUME NEW i \in Signals, NEW ok \in BOOLEAN, receive(i, ok) PROVE Listed'
  BY <1>1, Heads DEF receive
<1>2. ASSUME NEW i \in Signals, NEW ok \in BOOLEAN, execCancel(i, ok) PROVE Listed'
  BY <1>2 DEF execCancel
<1>3. ASSUME NEW i \in Signals, SendSignal(i) PROVE Listed'
  BY <1>3 DEF SendSignal
<1>4. ASSUME NEW i \in Signals, buildRiskContext(i) \/ evaluateRejects(i) \/ evaluateAllows(i)
      PROVE  Listed'
  BY <1>4 DEF buildRiskContext, evaluateRejects, evaluateAllows
<1>5. ASSUME NEW i \in Signals, SubmitOrder(i) PROVE Listed'
  BY <1>5, Heads DEF SubmitOrder
<1>6. ASSUME NEW i \in Signals, NEW st \in {"live", "final"},
             execSubmit(i) \/ applyOrderEvent(i) \/ submitted(i, st)
      PROVE  Listed'
  BY <1>6 DEF execSubmit, applyOrderEvent, submitted
<1>7. CASE ActivateKillSwitch \/ Lists \/ DeactivateKillSwitch \/ UNCHANGED vars
  BY <1>7 DEF ActivateKillSwitch, Lists, cancelAllOpenOrders, ListOpenOrdersSnapshot, DeactivateKillSwitch, vars, NonFinal
<1> QED
  BY <1>1, <1>2, <1>3, <1>4, <1>5, <1>6, <1>7, StepKinds, Zenon

\* signalCh and the hands of dispatchSignal.
LEMMA SignalStep ==
  ASSUME Base, [Next]_vars
  PROVE  Holds(signalCh, SignalBuf, "queued")' /\ Single(At({"decided", "counted"}))'
<1> DEFINE Good == Holds(signalCh, SignalBuf, "queued")' /\ Single(At({"decided", "counted"}))'
<1> USE DEF Base, Sorts, Carried, Hands, Moves
<1>1. Holds(signalCh, SignalBuf, "queued") /\ Single(At({"decided", "counted"}))
  OBVIOUS
<1>2. ASSUME NEW i \in Signals, SendSignal(i) PROVE Good
  <2>1. i \notin Range(signalCh)
    BY <1>2 DEF SendSignal, Holds, At
  <2>2. /\ IsInjective(signalCh') /\ Range(signalCh') = Range(signalCh) \cup {i}
        /\ Len(signalCh') = Len(signalCh) + 1
    BY <1>2, <2>1, PushHeld DEF SendSignal, Holds
  <2>3. At({"queued"})' = At({"queued"}) \cup {i} /\ At({"decided", "counted"})' = At({"decided", "counted"})
    BY <1>2 DEF SendSignal, At
  <2>4. Len(signalCh') <= SignalBuf
    BY <1>2, <2>2, PipelineAssumption DEF SendSignal
  <2> QED
    BY <2>2, <2>3, <2>4 DEF Holds, Single
<1>3. ASSUME NEW i \in Signals, NEW ok \in BOOLEAN, receive(i, ok) PROVE Good
  <2>1. stage[i] = "queued"
    BY <1>3, Heads DEF receive
  <2>2. /\ IsInjective(signalCh') /\ Range(signalCh') = Range(signalCh) \ {i}
        /\ Len(signalCh') = Len(signalCh) - 1
    BY <1>3, PopHeld DEF receive, Holds
  <2>3. At({"queued"})' = At({"queued"}) \ {i} /\ At({"decided", "counted"})' \subseteq {i}
    BY <1>3 DEF receive, At
  <2>4. Len(signalCh') <= SignalBuf
    BY <1>1, <2>2, PipelineAssumption DEF Holds
  <2> QED
    BY <2>2, <2>3, <2>4 DEF Holds, Single
<1>4. CASE /\ signalCh' = signalCh /\ At({"queued"})' = At({"queued"})
           /\ At({"decided", "counted"})' \subseteq At({"decided", "counted"})
  BY <1>1, <1>4 DEF Holds, Single
<1> QED
  BY <1>2, <1>3, <1>4, SignalFlow

\* orderCh, and the hands of dispatchOrder and of the run loop.
LEMMA OrderStep ==
  ASSUME Base, [Next]_vars
  PROVE  Holds(orderCh, OrderBuf, "ordered")' /\ Single(At({"submitting", "pending"}))'
<1> DEFINE Good == Holds(orderCh, OrderBuf, "ordered")' /\ Single(At({"submitting", "pending"}))'
<1> USE DEF Base, Sorts, Carried, Hands, Moves
<1>1. Holds(orderCh, OrderBuf, "ordered") /\ Single(At({"submitting", "pending"}))
  OBVIOUS
<1>2. ASSUME NEW i \in Signals, evaluateAllows(i) PROVE Good
  <2>1. i \notin Range(orderCh)
    BY <1>2 DEF evaluateAllows, Holds, At
  <2>2. /\ IsInjective(orderCh') /\ Range(orderCh') = Range(orderCh) \cup {i}
        /\ Len(orderCh') = Len(orderCh) + 1
    BY <1>2, <2>1, PushHeld DEF evaluateAllows, Holds
  <2>3. At({"ordered"})' = At({"ordered"}) \cup {i} /\ At({"submitting", "pending"})' = At({"submitting", "pending"})
    BY <1>2 DEF evaluateAllows, At
  <2>4. Len(orderCh') <= OrderBuf
    BY <1>2, <2>2, PipelineAssumption DEF evaluateAllows
  <2> QED
    BY <2>2, <2>3, <2>4 DEF Holds, Single
<1>3. ASSUME NEW i \in Signals, SubmitOrder(i) PROVE Good
  <2>1. stage[i] = "ordered"
    BY <1>3, Heads DEF SubmitOrder
  <2>2. /\ IsInjective(orderCh') /\ Range(orderCh') = Range(orderCh) \ {i}
        /\ Len(orderCh') = Len(orderCh) - 1
    BY <1>3, PopHeld DEF SubmitOrder, Holds
  <2>3. At({"ordered"})' = At({"ordered"}) \ {i} /\ At({"submitting", "pending"})' \subseteq {i}
    BY <1>3 DEF SubmitOrder, At
  <2>4. Len(orderCh') <= OrderBuf
    BY <1>1, <2>2, PipelineAssumption DEF Holds
  <2> QED
    BY <2>2, <2>3, <2>4 DEF Holds, Single
<1>4. CASE /\ orderCh' = orderCh /\ At({"ordered"})' = At({"ordered"})
           /\ At({"submitting", "pending"})' \subseteq At({"submitting", "pending"})
  BY <1>1, <1>4 DEF Holds, Single
<1> QED
  BY <1>2, <1>3, <1>4, OrderFlow

\* Every step keeps what the counts below rest on.
LEMMA BaseStep ==
  ASSUME Base, [Next]_vars
  PROVE  Base'
BY SortsStep, FiniteStep, ListedStep, SignalStep, OrderStep DEF Base, Carried, Hands

\* Under Base, every set of sent signals is finite, and the pipeline is bounded.
LEMMA Sizes ==
  ASSUME Base
  PROVE  /\ IsFiniteSet(At({"decided", "counted"})) /\ Cardinality(At({"decided", "counted"})) \in 0..1
         /\ IsFiniteSet(At({"ordered"})) /\ Cardinality(At({"ordered"})) \in 0..OrderBuf
         /\ IsFiniteSet(At({"submitting"})) /\ Cardinality(At({"submitting"})) \in 0..1
         /\ IsFiniteSet(NonFinal) /\ IsFiniteSet(Allowed) /\ IsFiniteSet(Slipping)
<1> USE DEF Base, Hands, Carried
<1>1. IsFiniteSet(At({"decided", "counted"})) /\ Cardinality(At({"decided", "counted"})) \in 0..1
  BY SingleIsSmall
<1>2. Single(At({"submitting"}))
  BY DEF Single, At
<1>3. IsFiniteSet(At({"ordered"})) /\ Cardinality(At({"ordered"})) = Len(orderCh)
  BY HeldIsLength DEF Sorts
<1>4. Len(orderCh) \in 0..OrderBuf
  BY PipelineAssumption DEF Holds, Sorts
<1>5. IsFiniteSet(NonFinal) /\ IsFiniteSet(Allowed)
  BY FS_Subset DEF NonFinal, Allowed, At, Sent
<1>6. IsFiniteSet(At({"decided", "counted", "ordered", "submitting"}) \cap Opening)
  BY FS_Subset DEF At, Sent
<1>7. IsFiniteSet(Slipping)
  BY <1>6, FS_Union DEF Slipping
<1> QED
  BY <1>1, <1>2, <1>3, <1>4, <1>5, <1>7, SingleIsSmall

\* An activation finds one signal with dispatchSignal, a full orderCh and one order with
\* dispatchOrder at most; from then on nothing joins them.
LEMMA SlipsStep ==
  ASSUME Base, Slips, [Next]_vars
  PROVE  Slips'
<1>1. Base'
  BY BaseStep
<1>2. OrderBuf \in Nat
  BY PipelineAssumption
<1>3. IsFiniteSet(Slipping) /\ IsFiniteSet(slipped)
  BY Sizes DEF Base
<1>4. CASE ActivateKillSwitch
  <2> DEFINE A == At({"decided", "counted"})  B == At({"ordered"})  C == At({"submitting"})
  <2>1. killSwitch' /\ Slipping' \subseteq A \cup B \cup C
    BY <1>4 DEF ActivateKillSwitch, Slipping, At
  <2>2. /\ IsFiniteSet(A) /\ Cardinality(A) \in 0..1
        /\ IsFiniteSet(B) /\ Cardinality(B) \in 0..OrderBuf
        /\ IsFiniteSet(C) /\ Cardinality(C) \in 0..1
    BY Sizes
  <2> HIDE DEF A, B, C
  <2>3. /\ IsFiniteSet(A \cup B)
        /\ Cardinality(A \cup B) = Cardinality(A) + Cardinality(B) - Cardinality(A \cap B)
        /\ Cardinality(A \cap B) \in Nat
    BY <2>2, FS_Union, FS_Intersection, FS_CardinalityType
  <2>4. /\ IsFiniteSet(A \cup B \cup C)
        /\ Cardinality(A \cup B \cup C) = Cardinality(A \cup B) + Cardinality(C) - Cardinality((A \cup B) \cap C)
        /\ Cardinality((A \cup B) \cap C) \in Nat /\ Cardinality(A \cup B) \in Nat
    BY <2>2, <2>3, FS_Union, FS_Intersection, FS_CardinalityType
  <2>5. Cardinality(A \cup B \cup C) <= OrderBuf + 2
    BY <1>2, <2>2, <2>3, <2>4
  <2>6. Cardinality(Slipping') <= Cardinality(A \cup B \cup C)
    BY <2>1, <2>4, FS_Subset
  <2>7. Cardinality(Slipping') \in Nat /\ Cardinality(A \cup B \cup C) \in Nat
    BY <2>1, <2>4, FS_Subset, FS_CardinalityType
  <2>8. Cardinality(Slipping') <= OrderBuf + 2
    BY <1>2, <2>5, <2>6, <2>7
  <2> QED
    BY <2>1, <2>8 DEF Slips
<1>5. CASE /\ ~killSwitch /\ ~killSwitch'
           /\ slipped' = slipped
  BY <1>5 DEF Slips
<1>6. CASE /\ killSwitch
           /\ slipped' \subseteq slipped \cup At({"submitting"})
           /\ Slipping' \subseteq Slipping
  <2> DEFINE new == IF killSwitch' THEN Slipping' ELSE slipped'
  <2>1. new \subseteq Slipping
    BY <1>6 DEF Slipping
  <2>2. Cardinality(new) <= Cardinality(Slipping) /\ IsFiniteSet(new)
    BY <2>1, <1>3, FS_Subset
  <2>3. Cardinality(new) \in Nat /\ Cardinality(Slipping) \in Nat
    BY <2>2, <1>3, FS_CardinalityType
  <2>4. Cardinality(Slipping) <= OrderBuf + 2
    BY <1>6 DEF Slips
  <2>5. Cardinality(new) <= OrderBuf + 2
    BY <1>2, <2>2, <2>3, <2>4
  <2> QED
    BY <2>5 DEF Slips
<1> QED
  BY <1>4, <1>5, <1>6, SlipFlow

\* The reading of dispatchSignal misses a full orderCh and one order of dispatchOrder at most.
LEMMA OpensStep ==
  ASSUME Base, Opens, [Next]_vars
  PROVE  Opens'
<1>1. OrderBuf \in Nat /\ MaxOpenOrders \in Nat /\ counted \in Nat
  BY PipelineAssumption DEF Base, Sorts
<1>2. IsFiniteSet(Allowed) /\ Cardinality(Allowed) \in Nat
  BY Sizes, FS_CardinalityType
<1>3. CASE \E i \in Signals : evaluateAllows(i)
  <2>1. PICK i \in Signals : evaluateAllows(i)
    BY <1>3
  <2>2. Allowed' = Allowed \cup {i} /\ At({"counted"})' = {} /\ At({"counted"}) # {}
    BY <2>1 DEF evaluateAllows, Moves, Allowed, At, Base, Sorts, Hands, Single
  <2>3. MaxOpenOrders > 0 => counted < MaxOpenOrders
    BY <2>1 DEF evaluateAllows, WithinLimit
  <2>4. Cardinality(Allowed) <= counted + OrderBuf + 1
    BY <2>2 DEF Opens
  <2>5. Cardinality(Allowed \cup {i}) \in {Cardinality(Allowed), Cardinality(Allowed) + 1}
    BY <1>2, FS_AddElement
  <2>6. MaxOpenOrders > 0 => Cardinality(Allowed \cup {i}) <= MaxOpenOrders + OrderBuf + 1
    BY <1>1, <1>2, <2>3, <2>4, <2>5
  <2> QED
    BY <2>2, <2>6 DEF Opens
<1>4. CASE \E i \in Signals : buildRiskContext(i)
  <2>1. PICK i \in Signals : buildRiskContext(i)
    BY <1>4
  <2> DEFINE A == At({"ordered"})  B == At({"submitting"})
  <2>2. counted' = Cardinality(NonFinal) /\ Allowed' = Allowed
    BY <2>1 DEF buildRiskContext, Moves, Allowed, At, Base, Sorts
  <2>3. Allowed = NonFinal \cup A \cup B
    BY DEF Allowed, NonFinal, At
  <2>4. /\ IsFiniteSet(A) /\ Cardinality(A) \in 0..OrderBuf
        /\ IsFiniteSet(B) /\ Cardinality(B) \in 0..1
        /\ IsFiniteSet(NonFinal) /\ Cardinality(NonFinal) \in Nat
    BY Sizes, FS_CardinalityType
  <2> HIDE DEF A, B
  <2>5. /\ IsFiniteSet(NonFinal \cup A)
        /\ Cardinality(NonFinal \cup A) = Cardinality(NonFinal) + Cardinality(A) - Cardinality(NonFinal \cap A)
        /\ Cardinality(NonFinal \cap A) \in Nat
    BY <2>4, FS_Union, FS_Intersection, FS_CardinalityType
  <2>6. /\ Cardinality(NonFinal \cup A \cup B)
             = Cardinality(NonFinal \cup A) + Cardinality(B) - Cardinality((NonFinal \cup A) \cap B)
        /\ Cardinality((NonFinal \cup A) \cap B) \in Nat /\ Cardinality(NonFinal \cup A) \in Nat
    BY <2>4, <2>5, FS_Union, FS_Intersection, FS_CardinalityType
  <2>7. Cardinality(NonFinal \cup A \cup B) <= Cardinality(NonFinal) + OrderBuf + 1
    BY <1>1, <2>4, <2>5, <2>6
  <2> QED
    BY <2>2, <2>3, <2>7 DEF Opens
<1>5. CASE /\ Allowed' \subseteq Allowed
           /\ At({"counted"})' # {} => At({"counted"}) # {} /\ counted' = counted
  <2>1. Cardinality(Allowed') <= Cardinality(Allowed) /\ Cardinality(Allowed') \in Nat
    BY <1>2, <1>5, FS_Subset, FS_CardinalityType
  <2>2. MaxOpenOrders > 0 => Cardinality(Allowed') <= MaxOpenOrders + OrderBuf + 1
    BY <1>1, <1>2, <2>1 DEF Opens
  <2>3. At({"counted"})' # {} => Cardinality(Allowed') <= counted' + OrderBuf + 1
    BY <1>1, <1>2, <1>5, <2>1 DEF Opens
  <2> QED
    BY <2>2, <2>3 DEF Opens
<1> QED
  BY <1>3, <1>4, <1>5, OpenFlow

\* An order opened while the kill switch is on slipped; the others were listed.
LEMMA ClearsStep ==
  ASSUME Base, Clears, [Next]_vars
  PROVE  Clears'
<1> USE DEF Base, Sorts, pipe, switch, seen, NonFinal, At, Moves, Clears
<1>1. ASSUME NEW i \in Signals, NEW ok \in BOOLEAN, receive(i, ok) PROVE Clears'
  BY <1>1, Heads DEF receive
<1>2. ASSUME NEW i \in Signals, NEW ok \in BOOLEAN, execCancel(i, ok) PROVE Clears'
  BY <1>2 DEF execCancel
<1>3. ASSUME NEW i \in Signals, SendSignal(i) PROVE Clears'
  BY <1>3 DEF SendSignal
<1>4. ASSUME NEW i \in Signals, buildRiskContext(i) \/ evaluateRejects(i) \/ evaluateAllows(i)
      PROVE  Clears'
  BY <1>4 DEF buildRiskContext, evaluateRejects, evaluateAllows
<1>5. ASSUME NEW i \in Signals, SubmitOrder(i) PROVE Clears'
  BY <1>5, Heads DEF SubmitOrder
<1>6. ASSUME NEW i \in Signals, execSubmit(i) PROVE Clears'
  BY <1>6 DEF execSubmit
<1>7. ASSUME NEW i \in Signals, NEW st \in {"live", "final"},
             applyOrderEvent(i) \/ submitted(i, st)
      PROVE  Clears'
  BY <1>7 DEF applyOrderEvent, submitted
<1>8. CASE ActivateKillSwitch
  BY <1>8 DEF ActivateKillSwitch
<1>9. CASE Lists \/ DeactivateKillSwitch \/ UNCHANGED vars
  BY <1>9 DEF Lists, cancelAllOpenOrders, ListOpenOrdersSnapshot, DeactivateKillSwitch, vars
<1> QED
  BY <1>1, <1>2, <1>3, <1>4, <1>5, <1>6, <1>7, <1>8, <1>9, StepKinds, Zenon

\* What a listing leaves out: more than the limit was open then.
LEMMA LeavesStep ==
  ASSUME Base, Opens, Leaves, [Next]_vars
  PROVE  Leaves'
<1>1. CASE Lists
  <2>1. PICK l \in ListOpenOrdersSnapshot : cancelAllOpenOrders(l)
    BY <1>1 DEF Lists
  <2>2. unlisted' = NonFinal \ l /\ l \subseteq NonFinal /\ (NonFinal \ l # {} => Cardinality(l) = ListLimit)
    BY <2>1 DEF cancelAllOpenOrders, ListOpenOrdersSnapshot
  <2>3. IsFiniteSet(NonFinal) /\ IsFiniteSet(Allowed) /\ NonFinal \subseteq Allowed
    BY Sizes DEF Allowed, NonFinal, At
  <2>4. NonFinal \cap l = l /\ IsFiniteSet(l)
    BY <2>2, <2>3, FS_Subset
  <2>5. Cardinality(NonFinal \ l) = Cardinality(NonFinal) - Cardinality(l)
    BY <2>3, <2>4, FS_Difference
  <2>6. Cardinality(NonFinal) <= Cardinality(Allowed)
    BY <2>3, FS_Subset
  <2>7. /\ Cardinality(NonFinal) \in Nat /\ Cardinality(Allowed) \in Nat
        /\ OrderBuf \in Nat /\ MaxOpenOrders \in Nat /\ ListLimit \in Nat
    BY <2>3, FS_CardinalityType, PipelineAssumption
  <2>8. ASSUME MaxOpenOrders > 0, NonFinal \ l # {}
        PROVE  Cardinality(NonFinal \ l) + ListLimit <= MaxOpenOrders + OrderBuf + 1
    <3>1. Cardinality(Allowed) <= MaxOpenOrders + OrderBuf + 1 /\ Cardinality(l) = ListLimit
      BY <2>2, <2>8 DEF Opens
    <3> QED
      BY <2>5, <2>6, <2>7, <3>1
  <2> QED
    BY <2>2, <2>8 DEF Leaves
<1>2. CASE unlisted' \in {unlisted, {}}
  BY <1>2 DEF Leaves
<1>3. Lists \/ unlisted' \in {unlisted, {}}
  BY StepKinds DEF receive, execCancel, SendSignal, buildRiskContext, evaluateRejects, evaluateAllows,
     SubmitOrder, execSubmit, applyOrderEvent, submitted, ActivateKillSwitch, DeactivateKillSwitch,
     vars, seen
<1> QED
  BY <1>1, <1>2, <1>3

\* The invariant holds at the start: nothing was sent yet.
LEMMA InitIInv == Init => IInv
<1> SUFFICES ASSUME Init PROVE IInv
  OBVIOUS
<1>1. /\ Sent = {} /\ Slipping = {} /\ slipped = {} /\ Allowed = {} /\ NonFinal = {}
      /\ \A S \in SUBSET {"queued", "ordered", "decided", "counted", "submitting", "pending"} : At(S) = {}
  BY DEF Init, Sent, Slipping, Allowed, NonFinal, At
<1>2. Sorts
  <2>1. MaxActivations \in Nat /\ activations \in 0..MaxActivations /\ listing \in 0..activations
    BY PipelineAssumption DEF Init
  <2>2. signalCh \in Seq(Signals) /\ orderCh \in Seq(Signals)
    BY DEF Init
  <2> QED
    BY <2>1, <2>2 DEF Init, Sorts, Stage
<1>3. Carried
  BY <1>1, PipelineAssumption DEF Init, Carried, Holds, IsInjective, Range
<1>4. Base
  BY <1>1, <1>2, <1>3, FS_EmptySet DEF Base, Hands, Single, Listed, Init
<1>5. Slips /\ Opens /\ Clears /\ Leaves
  BY <1>1, FS_EmptySet, PipelineAssumption DEF Slips, Opens, Clears, Leaves, Init
<1> QED
  BY <1>4, <1>5 DEF IInv

\* The inductive invariant holds in every state, over activations and deactivations between
\* any two steps of the dispatchers (dispatchSignal, dispatchOrder, activateKillSwitch).
THEOREM Invariance == Spec => []IInv
<1>1. IInv /\ [Next]_vars => IInv'
  BY BaseStep, SlipsStep, OpensStep, ClearsStep, LeavesStep DEF IInv
<1> QED
  BY <1>1, InitIInv, PTL DEF Spec

-----------------------------------------------------------------------------
(* The properties *)

\* Types of the pipeline: the channels hold what their stage says, once and within their
\* capacity, and each goroutine has one signal (signalCh, orderCh, dispatchSignal,
\* dispatchOrder, the run loop).
THEOREM TypeCorrect == Spec => []TypeOK
<1>1. IInv => TypeOK
  <2> SUFFICES ASSUME IInv PROVE TypeOK
    OBVIOUS
  <2> USE DEF IInv, Base, Carried, Hands
  <2>1. Cardinality(At({"queued"})) = Len(signalCh) /\ Cardinality(At({"ordered"})) = Len(orderCh)
    BY HeldIsLength DEF Sorts
  <2>2. Cardinality(At({"decided", "counted"})) <= 1 /\ Cardinality(At({"submitting", "pending"})) <= 1
    BY SingleIsSmall
  <2> QED
    BY <2>1, <2>2 DEF TypeOK, Sorts, Holds
<1> QED
  BY <1>1, Invariance, PTL

\* No more opening orders slip past the kill switch than dispatchSignal, a full orderCh and
\* dispatchOrder held when it came on (ActivateKillSwitch against dispatchSignal).
THEOREM FewSlip == Spec => []SlipBounded
<1>1. IInv => SlipBounded
  <2> SUFFICES ASSUME IInv PROVE SlipBounded
    OBVIOUS
  <2>1. OrderBuf \in Nat /\ IsFiniteSet(Slipping) /\ slipped \subseteq Slipping
    BY Sizes, PipelineAssumption DEF IInv, Slipping
  <2>2. Cardinality(slipped) <= Cardinality(Slipping) /\ IsFiniteSet(slipped)
    BY <2>1, FS_Subset
  <2>3. Cardinality(slipped) \in Nat /\ Cardinality(Slipping) \in Nat
    BY <2>1, <2>2, FS_CardinalityType
  <2> QED
    BY <2>1, <2>2, <2>3 DEF IInv, Slips, SlipBounded
<1> QED
  BY <1>1, Invariance, PTL

\* The limit on open orders is exceeded by a full orderCh and one order at most
\* (dispatchSignal, evaluate, NonFinalOrderCount).
THEOREM LimitNearlyKept == Spec => []OpenOrdersBounded
<1>1. IInv => OpenOrdersBounded
  <2> SUFFICES ASSUME IInv, MaxOpenOrders > 0 PROVE Cardinality(NonFinal) <= MaxOpenOrders + OrderBuf + 1
    BY DEF OpenOrdersBounded
  <2>1. OrderBuf \in Nat /\ MaxOpenOrders \in Nat /\ IsFiniteSet(Allowed) /\ NonFinal \subseteq Allowed
    BY Sizes, PipelineAssumption DEF IInv, Allowed, NonFinal, At
  <2>2. Cardinality(NonFinal) <= Cardinality(Allowed) /\ IsFiniteSet(NonFinal)
    BY <2>1, FS_Subset
  <2>3. Cardinality(NonFinal) \in Nat /\ Cardinality(Allowed) \in Nat
    BY <2>1, <2>2, FS_CardinalityType
  <2> QED
    BY <2>1, <2>2, <2>3 DEF IInv, Opens
<1> QED
  BY <1>1, Invariance, PTL

\* An activation that cancels leaves open no opening order but those that slipped past it,
\* those whose cancel failed and those beyond the length of its listing, which are none when
\* the limit on open orders, orderCh and dispatchOrder together do not exceed that length
\* (cancelAllOpenOrders behind SubmitOrder in the run loop, ListOpenOrdersSnapshot).
THEOREM ClearedByActivation == Spec => []ActivationClears
<1>1. IInv => ActivationClears
  BY DEF IInv, Clears, Leaves, ActivationClears
<1> QED
  BY <1>1, Invariance, PTL

-----------------------------------------------------------------------------
(* GateClient: the invariant *)

Tags == {NoTag} \cup {normalizeGateOrderText(id) : id \in Ids}

\* The solver has no empty text: it is kept under a name.
Empty == ""

Finishes == {"filled", "ioc", "cancelled", "liquidated", "reduce_only", "stp"}

OrderRow ==
  [id : {ExchangeId}, contract : {Btc}, side : {Empty, "buy", "sell"}, type : {Empty, "market", "limit"}, size : Int,
   left : Int, filled : 0 .. Size, price : Int \cup {Blank}, tif : {"ioc", "fok", "poc", "gtc"},
   text : Tags,
   status : {"open", "finished", "closed", "cancelled"}, finish : {Empty} \cup Finishes, created : {Placed}, updated : Int]

OrderEvents == [kind : {"orders"}, payload : Views]
TradeEvents == [kind : {"usertrades"}, payload : [side : {"Buy", "Sell"}, size : Nat]]
PositionEvents ==
  [kind : {"positions"}, payload : [side : {"Long", "Short"}, size : Nat, leverage : Int]]
BalanceEvents ==
  [kind : {"balances"}, payload : [total : Int, available : Int, frozen : Int \cup {Blank}]]
UserEvents ==
  IF market = "perp" THEN OrderEvents \cup TradeEvents \cup PositionEvents ELSE OrderEvents \cup BalanceEvents

BalanceRow == [free : Int, locked : Int]

\* The connection, the loop and the subscriptions.
Sessions ==
  /\ market \in Markets /\ market \in {"perp", "spot"}
  /\ conn \in {"up", "cut", "none"} /\ reader \in {"reading", "backoff", "dialled", "off"}
  /\ closing \in {"no", "waiting", "closed"} /\ cuts \in 0 .. MaxCuts
  /\ \A k \in activeSubs \cup server : k[1] \in Registered(market)
  /\ conn # "up" => server = {}
  /\ reader = "backoff" => conn = "none"
  /\ reader = "reading" /\ conn = "up" => activeSubs \subseteq server

\* o is a state of the order that was asked for.
Kept(o) ==
  /\ o \in OrderRow /\ o.text = normalizeGateOrderText(req.id)
  /\ o.updated \in Placed .. Placed + o.filled + 1
  /\ o.status = "open" => o.filled < Size /\ o.updated <= Placed + o.filled
  /\ o.left = o.size - Unit(o.filled)

KeptPerp(o) ==
  /\ o.size = Signed(Size)
  /\ o.price = IF req.type = "Market" THEN 0 ELSE req.price
  /\ o.tif = IF req.type = "Market" THEN "ioc" ELSE mapTIF(req.tif)
  /\ o.status \in {"open", "finished"}
  /\ o.status = "finished" => o.finish \in IF o.filled = Size THEN {"filled", "ioc"}
                                          ELSE {"ioc", "cancelled", "liquidated", "reduce_only"}

KeptSpot(o) ==
  /\ o.side = Spot!mapGateSide(req.side) /\ o.type = IF req.type = "Market" THEN "market" ELSE "limit"
  /\ o.size = IF MarketBuy THEN req.quote ELSE req.size
  /\ o.price = IF req.type = "Market" THEN Blank ELSE req.price
  /\ o.status \in {"open", "closed", "cancelled"}
  /\ o.status = "closed" <=> o.filled = Size

OrderKept(o) == Kept(o) /\ IF market = "perp" THEN KeptPerp(o) ELSE KeptSpot(o)

KeptOrders == {o \in OrderRow : OrderKept(o)}

OrderIs ==
  /\ ord = NoOrder => rows = Nothing /\ userCh = <<>> /\ traded = 0
  /\ ord # NoOrder => req \in Requests /\ Placeable(req) /\ ord \in KeptOrders
  /\ stopper # NoRequest => stopper \in Ids /\ ord # NoOrder /\ normalizeGateOrderText(stopper) = ord.text

\* What is on its way.
Queues ==
  /\ DOMAIN rows = Channels
  /\ rows["orders"] \in Seq(KeptOrders)
  /\ rows["usertrades"] \in Seq(Int) /\ rows["positions"] \in Seq(Int) /\ rows["balances"] \in Seq(BalanceRow)
  /\ \A c \in Channels : Len(rows[c]) <= FrameCap
  /\ rows = [c \in Channels |-> rows[c]]
  /\ IF market = "perp" THEN rows["balances"] = <<>> ELSE rows["usertrades"] = <<>> /\ rows["positions"] = <<>>
  /\ userCh \in Seq(UserEvents) /\ Len(userCh) <= UserCap
  /\ shown \in Views \cup {NoOrder} /\ traded \in Int /\ held \in Int

\* The newest row or event of a channel is right: the row in R, the event in E; or with none
\* on its way, it was taken.
Newest(c, q, u, R, E, taken) ==
  IF q # <<>> THEN q[Len(q)] \in R
  ELSE \/ \E i \in DOMAIN u : u[i] \in E /\ \A j \in DOMAIN u : j > i => u[j].kind # c
       \/ taken /\ \A i \in DOMAIN u : u[i].kind # c

Change(ev) ==
  IF ev.kind = "usertrades" THEN (IF ev.payload.side = "Buy" THEN 1 ELSE -1) * ev.payload.size ELSE 0

\* From m, the numbers of q lead to n.
LeadsTo(q, m, n) ==
  \E p \in [0 .. Len(q) -> Int] : p[0] = m /\ p[Len(q)] = n /\ \A i \in 1 .. Len(q) : p[i] = p[i - 1] + q[i]

\* What a sequence of events changes, one after the other.
Changes(u) == [i \in DOMAIN u |-> Change(u[i])]

Untraded == Changes(userCh) \o rows["usertrades"]

\* The events that tell an amount filled, a position, a total balance.
ToldFilled(n) == {e \in OrderEvents : e.payload.filled = n}
ToldHolding(h) == {e \in PositionEvents : (IF e.payload.side = "Long" THEN 1 ELSE -1) * e.payload.size = h}
ToldTotal(h) == {e \in BalanceEvents : e.payload.total = h}

OrderTold ==
  ~lost /\ ord # NoOrder =>
    Newest("orders", rows["orders"], userCh, {ord}, ToldFilled(ord.filled),
           shown # NoOrder /\ shown.filled = ord.filled)

TradesTold == ~lost /\ market = "perp" /\ ord # NoOrder => LeadsTo(Untraded, traded, Signed(ord.filled))

PositionTold ==
  ~lost /\ market = "perp" /\ ord # NoOrder /\ ord.filled > 0 =>
    Newest("positions", rows["positions"], userCh, {Holding(ord)}, ToldHolding(Holding(ord)), held = Holding(ord))

BalanceTold ==
  ~lost /\ market = "spot" /\ ord # NoOrder /\ ord.filled > 0 =>
    Newest("balances", rows["balances"], userCh, {r \in BalanceRow : r.free + r.locked = Holding(ord)},
           ToldTotal(Holding(ord)), held = Holding(ord))

ClientIInv == Sessions /\ OrderIs /\ Queues /\ OrderTold /\ TradesTold /\ PositionTold /\ BalanceTold

-----------------------------------------------------------------------------
(* Frames *)

\* Induction over an interval, from the finiteness of what would be left out: the
\* predecessor of each number left out would be left out too.
LEMMA UpTo ==
  ASSUME NEW n \in Nat, NEW S, 0 \in S, \A i \in 0..(n - 1) : i \in S => i + 1 \in S
  PROVE  0..n \subseteq S
<1> SUFFICES ASSUME NEW m \in 0..n, m \notin S
             PROVE  FALSE
  OBVIOUS
<1> DEFINE Left == (0..m) \ S
           f == [i \in Left |-> i - 1]
<1>1. IsFiniteSet(Left)
  <2>1. IsFiniteSet(0..m)
    BY FS_Interval
  <2> QED BY <2>1, FS_Subset
<1>2. \A i \in Left : i - 1 \in Left /\ i \in 0..m
  OBVIOUS
<1>3. f \in Injection(Left, Left)
  BY <1>2 DEF Injection, IsInjective
<1>4. f \in Surjection(Left, Left)
  BY <1>1, <1>3, FS_Injection
<1>5. m \in Left
  OBVIOUS
<1>6. PICK i \in Left : i - 1 = m
  BY <1>4, <1>5 DEF Surjection
<1> QED BY <1>2, <1>6

\* What Decoded has gathered after each row.
Gathered(frame) ==
  CHOOSE after :
    after = [i \in 0 .. Len(frame) |->
               IF i = 0 THEN <<>> ELSE IF frame[i].ok THEN Append(after[i - 1], frame[i]) ELSE after[i - 1]]

\* A frame of the first k rows of q, with one at bad that cannot be decoded.
FrameOf(q, k, bad) ==
  [i \in 1 .. (IF bad = 0 THEN k ELSE k + 1) |->
     IF i = bad THEN [ok |-> FALSE]
     ELSE [ok |-> TRUE, row |-> q[IF bad = 0 \/ i < bad THEN i ELSE i - 1]]]

\* The rows of a frame but for the one that cannot be decoded, wherever it stands.
LEMMA DecodedIs ==
  ASSUME NEW T, NEW q \in Seq(T), NEW k \in 1 .. Len(q), NEW bad \in 0 .. k + 1
  PROVE Decoded(FrameOf(q, k, bad)) = [i \in 1 .. k |-> [ok |-> TRUE, row |-> q[i]]]
<1> DEFINE frame == FrameOf(q, k, bad)
<1>1. frame = [i \in 1 .. (IF bad = 0 THEN k ELSE k + 1) |->
                 IF i = bad THEN [ok |-> FALSE]
                 ELSE [ok |-> TRUE, row |-> q[IF bad = 0 \/ i < bad THEN i ELSE i - 1]]]
  BY Zenon DEF FrameOf
<1> HIDE DEF frame
<1> DEFINE n == IF bad = 0 THEN k ELSE k + 1
           at(i) == IF bad = 0 \/ i < bad THEN i ELSE i - 1
           good(m) == [j \in 1 .. m |-> [ok |-> TRUE, row |-> q[j]]]
           Does(g) == g = [i \in 0 .. n |-> IF i = 0 THEN <<>>
                                           ELSE IF frame[i].ok THEN Append(g[i - 1], frame[i]) ELSE g[i - 1]]
           Step(i) == IF frame[i].ok THEN Append(good(at(i - 1)), frame[i]) ELSE good(at(i - 1))
           h == [i \in 0 .. n |-> good(at(i))]
<1>2. n \in Nat /\ n >= 1 /\ Len(frame) = n /\ at(n) = k /\ at(0) = 0 /\ k \in Nat
  BY <1>1
<1>3. good(0) = <<>>
  OBVIOUS
<1>4. ASSUME NEW i \in 1 .. n
      PROVE good(at(i)) = Step(i)
  <2>1. CASE i = bad
    <3>1. ~frame[i].ok /\ at(i) = at(i - 1)
      BY <1>1, <1>2, <2>1
    <3> HIDE DEF good, at
    <3> QED BY <3>1
  <2>2. CASE i # bad
    <3>1. at(i - 1) \in Nat /\ at(i) = at(i - 1) + 1
      BY <1>2, <2>2
    <3>2. frame[i] = [ok |-> TRUE, row |-> q[at(i)]]
      BY <1>1, <1>2, <2>2
    <3> DEFINE m == at(i - 1)
               F(j) == [ok |-> TRUE, row |-> q[j]]
    <3> HIDE DEF at
    <3>3. Append([j \in 1 .. m |-> F(j)], F(m + 1)) = [j \in 1 .. m + 1 |-> F(j)]
      <4> HIDE DEF m, F
      <4> QED BY <3>1 DEF m
    <3> QED BY <3>1, <3>2, <3>3
  <2> QED BY <2>1, <2>2
<1>5. Does(h)
  <2>1. \A i \in 0 .. n : h[i] = IF i = 0 THEN <<>>
                                 ELSE IF frame[i].ok THEN Append(h[i - 1], frame[i]) ELSE h[i - 1]
    <3> TAKE i \in 0 .. n
    <3>1. CASE i = 0
      BY <1>2, <1>3, <3>1
    <3>2. CASE i # 0
      <4>1. i \in 1 .. n /\ i - 1 \in 0 .. n
        BY <1>2, <3>2
      <4>2. h[i] = good(at(i)) /\ h[i - 1] = good(at(i - 1))
        BY <4>1
      <4> HIDE DEF good, at, h
      <4> QED BY <1>4, <3>2, <4>1, <4>2
    <3> QED BY <3>1, <3>2
  <2> HIDE DEF good, at
  <2> QED BY <2>1
<1> DEFINE g == Gathered(frame)
<1>6. Does(g)
  <2> HIDE DEF h
  <2>1. Gathered(frame) = CHOOSE x : Does(x)
    BY <1>2, Zenon DEF Gathered
  <2> HIDE DEF Does
  <2> QED BY <1>5, <2>1
<1> DEFINE S == {i \in 0 .. n : g[i] = h[i]}
<1>7. \A i \in 0 .. n : g[i] = IF i = 0 THEN <<>>
                               ELSE IF frame[i].ok THEN Append(g[i - 1], frame[i]) ELSE g[i - 1]
  <2> HIDE DEF g, n
  <2> QED BY <1>6
<1>8. \A i \in 0 .. n : h[i] = IF i = 0 THEN <<>>
                               ELSE IF frame[i].ok THEN Append(h[i - 1], frame[i]) ELSE h[i - 1]
  <2> HIDE DEF h, n
  <2> QED BY <1>5
<1> HIDE DEF g, h, n, good, at, Does
<1>9. 0 \in S
  <2>1. 0 \in 0 .. n
    BY <1>2
  <2>2. g[0] = <<>> /\ h[0] = <<>>
    BY <1>7, <1>8, <2>1, Zenon
  <2> QED BY <2>1, <2>2
<1>10. \A i \in 0 .. (n - 1) : i \in S => i + 1 \in S
  <2> SUFFICES ASSUME NEW i \in 0 .. (n - 1), i \in S PROVE i + 1 \in S
    OBVIOUS
  <2>1. i + 1 \in 0 .. n /\ i + 1 # 0 /\ (i + 1) - 1 = i /\ g[i] = h[i]
    BY <1>2
  <2> DEFINE m == i + 1
  <2>2. /\ g[m] = IF frame[m].ok THEN Append(g[m - 1], frame[m]) ELSE g[m - 1]
        /\ h[m] = IF frame[m].ok THEN Append(h[m - 1], frame[m]) ELSE h[m - 1]
    <3> HIDE DEF m
    <3> QED BY <1>7, <1>8, <2>1, Zenon DEF m
  <2>3. g[m] = h[m]
    BY <2>1, <2>2
  <2> QED BY <2>1, <2>3
<1>11. n \in S
  <2> HIDE DEF S
  <2>1. 0 .. n \subseteq S
    BY <1>2, <1>9, <1>10, UpTo
  <2> QED BY <1>2, <2>1
<1>12. Decoded(frame) = Gathered(frame)[Len(frame)]
  BY Zenon DEF Decoded, Gathered
<1>13. Decoded(frame) = good(k)
  <2>1. g[n] = h[n]
    BY <1>11
  <2>2. h[n] = good(at(n))
    BY <1>2 DEF h
  <2> QED BY <1>2, <1>12, <2>1, <2>2 DEF g
<1> QED BY <1>13 DEF good, frame

-----------------------------------------------------------------------------
(* Queues *)

\* Reading the first k rows of a channel, which become events, keeps its newest right.
LEMMA NewestRead ==
  ASSUME NEW c, NEW T, NEW q \in Seq(T), NEW k \in 1 .. Len(q), NEW U, NEW u \in Seq(U), NEW e \in Seq(U), Len(e) = k,
         NEW R, NEW E, NEW taken,
         \A i \in 1 .. k : e[i].kind = c /\ (q[i] \in R => e[i] \in E),
         Newest(c, q, u, R, E, taken)
  PROVE Newest(c, SubSeq(q, k + 1, Len(q)), u \o e, R, E, taken)
<1> DEFINE r == SubSeq(q, k + 1, Len(q))
           v == u \o e
<1>1. q[Len(q)] \in R /\ Len(q) \in Nat /\ k \in Nat
  BY DEF Newest
<1>2. Len(r) = Len(q) - k /\ \A i \in 1 .. Len(r) : r[i] = q[k + i]
  BY <1>1
<1>3. r = <<>> <=> Len(q) = k
  <2>1. r \in Seq(T)
    BY <1>1
  <2> HIDE DEF r
  <2>2. r = <<>> <=> Len(r) = 0
    BY <2>1
  <2> QED BY <1>1, <1>2, <2>2
<1>4. v \in Seq(U) /\ Len(v) = Len(u) + k /\ \A i \in 1 .. k : v[Len(u) + i] = e[i]
  BY <1>1, SMTT(30)
<1> HIDE DEF r, v
<1>5. CASE r # <<>>
  <2>1. Len(r) \in 1 .. Len(r) /\ k + Len(r) = Len(q)
    BY <1>1, <1>2, <1>3, <1>5
  <2>2. r[Len(r)] \in R
    BY <1>1, <1>2, <2>1
  <2> QED BY <1>5, <2>2 DEF Newest, r, v
<1>6. CASE r = <<>>
  <2>1. k \in 1 .. k /\ e[k] \in E
    BY <1>1, <1>3, <1>6
  <2>2. Len(v) \in DOMAIN v /\ v[Len(v)] \in E
    BY <1>4, <2>1
  <2>3. \A j \in DOMAIN v : ~(j > Len(v))
    BY <1>4
  <2> QED BY <1>6, <2>2, <2>3 DEF Newest, r, v
<1> QED BY <1>5, <1>6

\* Events of other channels change nothing for a channel.
LEMMA NewestOther ==
  ASSUME NEW c, NEW q, NEW U, NEW u \in Seq(U), NEW e \in Seq(U), NEW R, NEW E, NEW taken,
         \A i \in 1 .. Len(e) : e[i].kind # c,
         Newest(c, q, u, R, E, taken)
  PROVE Newest(c, q, u \o e, R, E, taken)
<1> DEFINE v == u \o e
<1>1. /\ Len(v) = Len(u) + Len(e) /\ Len(u) \in Nat /\ Len(e) \in Nat /\ DOMAIN v = 1 .. Len(v) /\ DOMAIN u = 1 .. Len(u)
      /\ \A i \in DOMAIN u : i \in DOMAIN v /\ v[i] = u[i]
  OBVIOUS
<1>2. \A j \in DOMAIN v : j \notin DOMAIN u => v[j].kind # c
  <2> SUFFICES ASSUME NEW j \in DOMAIN v, j \notin DOMAIN u PROVE v[j].kind # c
    OBVIOUS
  <2>1. j - Len(u) \in 1 .. Len(e) /\ v[j] = e[j - Len(u)]
    BY <1>1
  <2> QED BY <2>1
<1> HIDE DEF v
<1>3. CASE q # <<>>
  BY <1>3 DEF Newest
<1>4. CASE q = <<>> /\ \E i \in DOMAIN u : u[i] \in E /\ \A j \in DOMAIN u : j > i => u[j].kind # c
  <2>1. PICK i \in DOMAIN u : u[i] \in E /\ \A j \in DOMAIN u : j > i => u[j].kind # c
    BY <1>4
  <2>2. i \in DOMAIN v /\ v[i] \in E /\ \A j \in DOMAIN v : j > i => v[j].kind # c
    BY <1>1, <1>2, <2>1
  <2> QED BY <1>4, <2>2 DEF Newest, v
<1>5. CASE q = <<>> /\ taken /\ \A i \in DOMAIN u : u[i].kind # c
  <2>1. \A i \in DOMAIN v : v[i].kind # c
    BY <1>1, <1>2, <1>5
  <2> QED BY <1>5, <2>1 DEF Newest, v
<1> QED BY <1>3, <1>4, <1>5 DEF Newest

\* Taking the first event keeps the newest of a channel right.
LEMMA NewestTaken ==
  ASSUME NEW c, NEW q, NEW U, NEW u \in Seq(U), u # <<>>, NEW R, NEW E, NEW taken, NEW then,
         u[1] \in E => then, u[1].kind # c /\ taken => then,
         Newest(c, q, u, R, E, taken)
  PROVE Newest(c, q, Tail(u), R, E, then)
<1> DEFINE v == Tail(u)
<1>1. /\ DOMAIN u = 1 .. Len(u) /\ DOMAIN v = 1 .. Len(u) - 1 /\ Len(u) \in Nat /\ Len(u) >= 1
      /\ \A i \in DOMAIN v : v[i] = u[i + 1] /\ i + 1 \in DOMAIN u
  OBVIOUS
<1> HIDE DEF v
<1>2. CASE q # <<>>
  BY <1>2 DEF Newest
<1>3. CASE q = <<>> /\ \E i \in DOMAIN u : u[i] \in E /\ \A j \in DOMAIN u : j > i => u[j].kind # c
  <2>1. PICK i \in DOMAIN u : u[i] \in E /\ \A j \in DOMAIN u : j > i => u[j].kind # c
    BY <1>3
  <2>2. CASE i = 1
    <3>1. \A j \in DOMAIN v : v[j].kind # c
      <4> TAKE j \in DOMAIN v
      <4>1. v[j] = u[j + 1] /\ j + 1 \in DOMAIN u /\ j + 1 > i
        BY <1>1, <2>2
      <4> QED BY <2>1, <4>1
    <3>2. then
      BY <2>1, <2>2
    <3> QED BY <1>3, <3>1, <3>2 DEF Newest, v
  <2>3. CASE i # 1
    <3>1. i - 1 \in DOMAIN v /\ v[i - 1] = u[i]
      BY <1>1, <2>1, <2>3
    <3>2. \A j \in DOMAIN v : j > i - 1 => v[j].kind # c
      <4> TAKE j \in DOMAIN v
      <4>1. v[j] = u[j + 1] /\ j + 1 \in DOMAIN u /\ (j > i - 1 => j + 1 > i)
        BY <1>1, <2>1
      <4> QED BY <2>1, <4>1
    <3> QED BY <1>3, <2>1, <3>1, <3>2 DEF Newest, v
  <2> QED BY <2>2, <2>3
<1>4. CASE q = <<>> /\ taken /\ \A i \in DOMAIN u : u[i].kind # c
  <2>1. \A j \in DOMAIN v : v[j].kind # c
    BY <1>1, <1>4
  <2>2. then
    BY <1>1, <1>4
  <2> QED BY <1>4, <2>1, <2>2 DEF Newest, v
<1> QED BY <1>2, <1>3, <1>4 DEF Newest

-----------------------------------------------------------------------------
(* Sequences *)

\* One more at the end of a queue, or nothing.
LEMMA OneMore ==
  ASSUME NEW T, NEW s \in Seq(T), NEW x \in T
  PROVE s \o <<x>> = Append(s, x) /\ <<x>> # <<>> /\ s \o <<>> = s
OBVIOUS

\* The newest of two queues in a row is the newest of the second.
LEMMA OneMoreAfter ==
  ASSUME NEW u \in Seq(Int), NEW s \in Seq(Int), NEW x \in Int
  PROVE u \o Append(s, x) = Append(u \o s, x)
OBVIOUS

\* The order placed has nothing of either sign filled.
LEMMA MinusZero == -0 = 0
<1>1. \A n \in Int : -n = 0 - n
  OBVIOUS
<1>2. 0 \in Int /\ 0 - 0 = 0
  OBVIOUS
<1> QED BY <1>1, <1>2, Zenon

\* Sequences with the same elements are one.
LEMMA SameSeq ==
  ASSUME NEW x \in Seq(Int), NEW y \in Seq(Int), NEW n \in Nat, Len(x) = n, Len(y) = n, \A i \in 1 .. n : x[i] = y[i]
  PROVE x = y
OBVIOUS

\* Where the elements of two sequences stand in both.
LEMMA Joined ==
  ASSUME NEW T, NEW a \in Seq(T), NEW b \in Seq(T)
  PROVE /\ a \o b \in Seq(T) /\ Len(a \o b) = Len(a) + Len(b)
        /\ \A i \in 1 .. Len(a) : (a \o b)[i] = a[i]
        /\ \A i \in Len(a) + 1 .. Len(a) + Len(b) : (a \o b)[i] = b[i - Len(a)]
OBVIOUS

\* The first numbers of a sequence, and the rest of it.
LEMMA TwoParts ==
  ASSUME NEW u \in Seq(Int), NEW q \in Seq(Int), NEW k \in 1 .. Len(q), NEW a \in Seq(Int), Len(a) = k,
         \A i \in 1 .. k : a[i] = q[i]
  PROVE (u \o a) \o SubSeq(q, k + 1, Len(q)) = u \o q
<1> DEFINE l == Len(u)
           m == Len(q)
           r == SubSeq(q, k + 1, m)
           x == (u \o a) \o r
           y == u \o q
<1>1. /\ r \in Seq(Int) /\ Len(r) = m - k /\ \A i \in 1 .. m - k : r[i] = q[k + i]
      /\ l \in Nat /\ m \in Nat /\ k \in Nat /\ k <= m
  OBVIOUS
<1> DEFINE w == u \o a
<1>2. /\ w \in Seq(Int) /\ Len(w) = l + k /\ \A i \in 1 .. l : w[i] = u[i]
      /\ \A i \in l + 1 .. l + k : w[i] = a[i - l]
  <2>1. u \in Seq(Int) /\ a \in Seq(Int) /\ Len(a) = k
    OBVIOUS
  <2>2. /\ u \o a \in Seq(Int) /\ Len(u \o a) = Len(u) + Len(a) /\ \A i \in 1 .. Len(u) : (u \o a)[i] = u[i]
        /\ \A i \in Len(u) + 1 .. Len(u) + Len(a) : (u \o a)[i] = a[i - Len(u)]
    BY <2>1, Joined, Zenon
  <2> QED BY <2>1, <2>2, Zenon
<1>3. /\ y \in Seq(Int) /\ Len(y) = l + m /\ \A i \in 1 .. l : y[i] = u[i]
      /\ \A i \in l + 1 .. l + m : y[i] = q[i - l]
  BY Joined
<1> HIDE DEF r, y, w, l, m
<1>4. /\ x \in Seq(Int) /\ Len(x) = l + m /\ \A i \in 1 .. l + k : x[i] = w[i]
      /\ \A i \in l + k + 1 .. l + m : x[i] = r[i - (l + k)]
  <2>1. /\ w \o r \in Seq(Int) /\ Len(w \o r) = Len(w) + Len(r) /\ \A i \in 1 .. Len(w) : (w \o r)[i] = w[i]
        /\ \A i \in Len(w) + 1 .. Len(w) + Len(r) : (w \o r)[i] = r[i - Len(w)]
    <3>1. w \in Seq(Int) /\ r \in Seq(Int)
      BY <1>1, <1>2
    <3> QED BY <3>1, Joined
  <2>2. Len(w) = l + k /\ Len(w) + Len(r) = l + m
    BY <1>1, <1>2
  <2>3. x = w \o r
    BY DEF w
  <2> HIDE DEF x
  <2> QED BY <2>1, <2>2, <2>3
<1> HIDE DEF x
<1>5. \A i \in 1 .. l + m : x[i] = y[i]
  <2> TAKE i \in 1 .. l + m
  <2>1. CASE i <= l
    BY <1>1, <1>2, <1>3, <1>4, <2>1 DEF w
  <2>2. CASE i > l /\ i <= l + k
    <3>1. i \in l + 1 .. l + k /\ i \in 1 .. l + k /\ i \in l + 1 .. l + m /\ i - l \in 1 .. k
      BY <1>1, <2>2
    <3>2. x[i] = a[i - l] /\ y[i] = q[i - l]
      BY <1>2, <1>3, <1>4, <3>1 DEF w
    <3> QED BY <3>1, <3>2
  <2>3. CASE i > l + k
    <3>1. i \in l + k + 1 .. l + m /\ i \in l + 1 .. l + m /\ i - (l + k) \in 1 .. m - k /\ k + (i - (l + k)) = i - l
      BY <1>1, <2>3
    <3>2. x[i] = r[i - (l + k)] /\ y[i] = q[i - l]
      BY <1>3, <1>4, <3>1
    <3>3. r[i - (l + k)] = q[k + (i - (l + k))]
      BY <1>1, <3>1
    <3> QED BY <3>1, <3>2, <3>3
  <2> QED BY <1>1, <2>1, <2>2, <2>3
<1>6. x = y
  BY <1>3, <1>4, <1>5
<1> QED BY <1>6 DEF x, y, r, m

-----------------------------------------------------------------------------
(* Trades *)

\* What the events of a queue change, and of two queues.
LEMMA ChangesOf ==
  ASSUME NEW U, NEW u \in Seq(U), \A i \in DOMAIN u : Change(u[i]) \in Int
  PROVE /\ Changes(u) \in Seq(Int) /\ Len(Changes(u)) = Len(u)
        /\ \A i \in DOMAIN u : Changes(u)[i] = Change(u[i])
<1>1. DOMAIN u = 1 .. Len(u) /\ Len(u) \in Nat
  OBVIOUS
<1>2. Changes(u) = [i \in 1 .. Len(u) |-> Change(u[i])]
  BY <1>1, Zenon DEF Changes
<1> QED BY <1>1, <1>2

\* The changes that a queue of trade events tells of, one after the other.
LEMMA ChangesIs ==
  ASSUME NEW U, NEW u \in Seq(U), NEW e \in Seq(U), \A i \in DOMAIN u : Change(u[i]) \in Int,
         \A i \in DOMAIN e : Change(e[i]) \in Int
  PROVE /\ Changes(u) \in Seq(Int) /\ Len(Changes(u)) = Len(u) /\ Changes(e) \in Seq(Int) /\ Len(Changes(e)) = Len(e)
        /\ Changes(u \o e) = Changes(u) \o Changes(e)
<1> DEFINE v == u \o e
           a == Changes(u)
           b == Changes(e)
           x == Changes(v)
<1>1. /\ a \in Seq(Int) /\ Len(a) = Len(u) /\ \A i \in DOMAIN u : a[i] = Change(u[i])
      /\ b \in Seq(Int) /\ Len(b) = Len(e) /\ \A i \in DOMAIN e : b[i] = Change(e[i])
  BY ChangesOf
<1>2. /\ Len(v) = Len(u) + Len(e) /\ Len(u) \in Nat /\ Len(e) \in Nat /\ DOMAIN v = 1 .. Len(v)
      /\ \A i \in 1 .. Len(u) : v[i] = u[i]
      /\ \A i \in Len(u) + 1 .. Len(u) + Len(e) : v[i] = e[i - Len(u)]
  OBVIOUS
<1>3. DOMAIN u = 1 .. Len(u) /\ DOMAIN e = 1 .. Len(e)
  OBVIOUS
<1>4. x = [i \in DOMAIN v |-> Change(v[i])]
  BY DEF Changes
<1> HIDE DEF v, a, b, x
<1>5. \A i \in 1 .. Len(v) : x[i] = (a \o b)[i]
  <2> TAKE i \in 1 .. Len(v)
  <2>1. x[i] = Change(v[i])
    BY <1>2, <1>4
  <2>2. CASE i <= Len(u)
    <3>1. i \in 1 .. Len(u) /\ (a \o b)[i] = a[i]
      BY <1>1, <1>2, <2>2
    <3> QED BY <1>1, <1>2, <1>3, <2>1, <3>1
  <2>3. CASE ~(i <= Len(u))
    <3>1. i \in Len(u) + 1 .. Len(u) + Len(e) /\ i - Len(u) \in 1 .. Len(e) /\ (a \o b)[i] = b[i - Len(u)]
      BY <1>1, <1>2, <2>3
    <3> QED BY <1>1, <1>2, <1>3, <2>1, <3>1
  <2> QED BY <2>2, <2>3
<1>6. x = a \o b
  <2>1. a \o b \in Seq(Int) /\ Len(a \o b) = Len(v)
    <3>1. a \in Seq(Int) /\ b \in Seq(Int) /\ Len(a) + Len(b) = Len(v)
      BY <1>1, <1>2
    <3>2. a \o b \in Seq(Int) /\ Len(a \o b) = Len(a) + Len(b)
      BY <3>1, Joined
    <3> QED BY <3>1, <3>2
  <2>2. \A i \in 1 .. Len(v) : x[i] \in Int
    <3>1. \A i \in 1 .. Len(v) : (a \o b)[i] \in Int
      <4> DEFINE y == a \o b
      <4> HIDE DEF y
      <4> QED BY <2>1 DEF y
    <3> QED BY <1>5, <3>1
  <2>3. x = [i \in 1 .. Len(v) |-> Change(v[i])]
    BY <1>2, <1>4
  <2>4. x \in Seq(Int) /\ Len(x) = Len(v)
    <3>1. \A i \in 1 .. Len(v) : Change(v[i]) \in Int
      BY <2>2, <2>3
    <3> QED BY <1>2, <2>3, <3>1
  <2> DEFINE y == a \o b
  <2> HIDE DEF y
  <2>5. x = y
    <3>1. y \in Seq(Int) /\ Len(y) = Len(x) /\ x \in Seq(Int) /\ Len(x) = Len(v)
      BY <2>1, <2>4 DEF y
    <3>2. \A i \in 1 .. Len(x) : x[i] = y[i]
      BY <1>5, <3>1 DEF y
    <3>3. Len(x) \in Nat
      BY <3>1
    <3> QED BY <3>1, <3>2, <3>3, SameSeq
  <2> QED BY <2>5 DEF y
<1> QED BY <1>1, <1>6 DEF v, a, b, x

\* Without the first event.
LEMMA ChangesTail ==
  ASSUME NEW U, NEW u \in Seq(U), u # <<>>, \A i \in DOMAIN u : Change(u[i]) \in Int, NEW t \in Seq(Int)
  PROVE /\ Changes(u) \o t \in Seq(Int) /\ Changes(u) \o t # <<>> /\ (Changes(u) \o t)[1] = Change(u[1])
        /\ Changes(Tail(u)) \o t = Tail(Changes(u) \o t)
<1> DEFINE a == Changes(u)
           v == Tail(u)
           b == Changes(v)
           l == Len(u)
           m == Len(t)
<1>1. DOMAIN u = 1 .. l /\ l \in Nat /\ l >= 1 /\ m \in Nat
  OBVIOUS
<1>2. a \in Seq(Int) /\ Len(a) = l /\ \A i \in 1 .. l : a[i] = Change(u[i])
  BY <1>1, ChangesOf
<1>3. v \in Seq(U) /\ Len(v) = l - 1 /\ DOMAIN v = 1 .. l - 1 /\ \A i \in 1 .. l - 1 : v[i] = u[i + 1]
  OBVIOUS
<1>4. \A i \in DOMAIN v : Change(v[i]) \in Int
  <2> SUFFICES ASSUME NEW i \in 1 .. l - 1 PROVE Change(v[i]) \in Int
    BY <1>3
  <2>1. v[i] = u[i + 1] /\ i + 1 \in DOMAIN u
    BY <1>1, <1>3
  <2> QED BY <2>1
<1>5. b \in Seq(Int) /\ Len(b) = l - 1 /\ \A i \in 1 .. l - 1 : b[i] = a[i + 1]
  <2>1. b \in Seq(Int) /\ Len(b) = Len(v) /\ \A i \in DOMAIN v : b[i] = Change(v[i])
    <3> HIDE DEF v
    <3> QED BY <1>3, <1>4, ChangesOf
  <2>2. ASSUME NEW i \in 1 .. l - 1
        PROVE b[i] = a[i + 1]
    <3>1. i \in DOMAIN v /\ v[i] = u[i + 1] /\ i + 1 \in 1 .. l
      BY <1>1, <1>3
    <3> HIDE DEF a, b, v
    <3> QED BY <1>2, <2>1, <3>1
  <2> QED BY <1>3, <2>1, <2>2
<1> HIDE DEF a, b, v, l
<1> DEFINE x == a \o t
           y == b \o t
<1>6. /\ x \in Seq(Int) /\ Len(x) = l + m /\ \A i \in 1 .. l : x[i] = a[i]
      /\ \A i \in l + 1 .. l + m : x[i] = t[i - l]
  <2>1. a \in Seq(Int) /\ t \in Seq(Int) /\ Len(a) = l
    BY <1>2
  <2> QED BY <2>1, Joined
<1>7. /\ y \in Seq(Int) /\ Len(y) = (l - 1) + m /\ \A i \in 1 .. l - 1 : y[i] = b[i]
      /\ \A i \in l .. (l - 1) + m : y[i] = t[i - (l - 1)]
  <2>1. b \in Seq(Int) /\ t \in Seq(Int) /\ Len(b) = l - 1
    BY <1>5
  <2>2. /\ b \o t \in Seq(Int) /\ Len(b \o t) = (l - 1) + m /\ \A i \in 1 .. l - 1 : (b \o t)[i] = b[i]
        /\ \A i \in (l - 1) + 1 .. (l - 1) + m : (b \o t)[i] = t[i - (l - 1)]
    <3>1. /\ b \o t \in Seq(Int) /\ Len(b \o t) = Len(b) + Len(t) /\ \A i \in 1 .. Len(b) : (b \o t)[i] = b[i]
          /\ \A i \in Len(b) + 1 .. Len(b) + Len(t) : (b \o t)[i] = t[i - Len(b)]
      BY <2>1, Joined
    <3> QED BY <2>1, <3>1, Zenon
  <2>3. (l - 1) + 1 = l
    BY <1>1
  <2> QED BY <2>2, <2>3
<1> HIDE DEF x, y, m
<1>8. Tail(x) \in Seq(Int) /\ Len(Tail(x)) = (l - 1) + m /\ \A i \in 1 .. (l - 1) + m : Tail(x)[i] = x[i + 1]
  <2>1. x \in Seq(Int) /\ Len(x) >= 1 /\ Len(x) - 1 = (l - 1) + m /\ x # <<>>
    BY <1>1, <1>6
  <2>2. Tail(x) \in Seq(Int) /\ Len(Tail(x)) = Len(x) - 1 /\ \A i \in 1 .. Len(x) - 1 : Tail(x)[i] = x[i + 1]
    BY <2>1
  <2> QED BY <2>1, <2>2
<1>9. \A i \in 1 .. (l - 1) + m : y[i] = Tail(x)[i]
  <2> SUFFICES ASSUME NEW i \in 1 .. (l - 1) + m PROVE y[i] = x[i + 1]
    BY <1>8
  <2>1. CASE i <= l - 1
    <3>1. i \in 1 .. l - 1 /\ i + 1 \in 1 .. l
      BY <1>1, <2>1
    <3> QED BY <1>5, <1>6, <1>7, <3>1
  <2>2. CASE ~(i <= l - 1)
    <3>1. i \in l .. (l - 1) + m /\ i + 1 \in l + 1 .. l + m /\ i - (l - 1) = (i + 1) - l
      BY <1>1, <2>2
    <3> QED BY <1>6, <1>7, <3>1
  <2> QED BY <2>1, <2>2
<1>10. y = Tail(x)
  <2>1. (l - 1) + m \in Nat
    BY <1>1
  <2> QED BY <1>7, <1>8, <1>9, <2>1, SameSeq
<1>11. x \in Seq(Int) /\ x # <<>> /\ x[1] = Change(u[1])
  BY <1>1, <1>2, <1>6
<1> QED BY <1>10, <1>11 DEF x, y, a, b, v

\* One more trade at the end.
LEMMA LeadsAppend ==
  ASSUME NEW s \in Seq(Int), NEW m, NEW n \in Int, NEW d \in Int, LeadsTo(s, m, n)
  PROVE LeadsTo(Append(s, d), m, n + d)
<1> DEFINE l == Len(s)
           t == Append(s, d)
<1>1. PICK p \in [0 .. l -> Int] : p[0] = m /\ p[l] = n /\ \A i \in 1 .. l : p[i] = p[i - 1] + s[i]
  BY DEF LeadsTo
<1> DEFINE r == [i \in 0 .. l + 1 |-> IF i = l + 1 THEN n + d ELSE p[i]]
<1>2. Len(t) = l + 1 /\ l \in Nat /\ t[l + 1] = d /\ \A i \in 1 .. l : t[i] = s[i]
  OBVIOUS
<1>3. r \in [0 .. l + 1 -> Int]
  BY <1>1, <1>2
<1>4. r[l + 1] = n + d /\ \A i \in 0 .. l : r[i] = p[i]
  BY <1>2
<1> HIDE DEF l, t, r
<1>5. r[0] = m
  BY <1>1, <1>2, <1>4
<1>6. ASSUME NEW i \in 1 .. l + 1
      PROVE r[i] = r[i - 1] + t[i]
  <2>1. CASE i = l + 1
    <3>1. l \in 0 .. l /\ i - 1 = l
      BY <1>2, <2>1
    <3> QED BY <1>1, <1>2, <1>4, <2>1, <3>1
  <2>2. CASE i # l + 1
    <3>1. i \in 1 .. l /\ i \in 0 .. l /\ i - 1 \in 0 .. l
      BY <1>2, <2>2
    <3> QED BY <1>1, <1>2, <1>4, <3>1
  <2> QED BY <2>1, <2>2
<1>7. \E x \in [0 .. Len(t) -> Int] : x[0] = m /\ x[Len(t)] = n + d /\ \A i \in 1 .. Len(t) : x[i] = x[i - 1] + t[i]
  BY <1>2, <1>3, <1>4, <1>5, <1>6
<1> QED BY <1>7, Zenon DEF LeadsTo, t

\* The first trade is taken.
LEMMA LeadsTail ==
  ASSUME NEW s \in Seq(Int), s # <<>>, NEW m, NEW n, LeadsTo(s, m, n)
  PROVE LeadsTo(Tail(s), m + s[1], n)
<1> DEFINE l == Len(s)
           t == Tail(s)
<1>1. PICK p \in [0 .. l -> Int] : p[0] = m /\ p[l] = n /\ \A i \in 1 .. l : p[i] = p[i - 1] + s[i]
  BY DEF LeadsTo
<1> DEFINE r == [i \in 0 .. l - 1 |-> p[i + 1]]
<1>2. Len(t) = l - 1 /\ l \in Nat /\ l >= 1 /\ \A i \in 1 .. l - 1 : t[i] = s[i + 1]
  OBVIOUS
<1>3. r \in [0 .. l - 1 -> Int] /\ \A i \in 0 .. l - 1 : r[i] = p[i + 1]
  BY <1>1, <1>2
<1> HIDE DEF l, t, r
<1>4. r[0] = m + s[1] /\ r[l - 1] = n
  BY <1>1, <1>2, <1>3
<1>5. ASSUME NEW i \in 1 .. l - 1
      PROVE r[i] = r[i - 1] + t[i]
  <2>1. /\ i \in 0 .. l - 1 /\ i - 1 \in 0 .. l - 1 /\ i + 1 \in 1 .. l /\ (i - 1) + 1 = i /\ (i + 1) - 1 = i
    BY <1>2
  <2>2. p[i + 1] = p[i] + s[i + 1]
    BY <1>1, <2>1
  <2> QED BY <1>2, <1>3, <2>1, <2>2
<1>6. \E x \in [0 .. Len(t) -> Int] : x[0] = m + s[1] /\ x[Len(t)] = n /\ \A i \in 1 .. Len(t) : x[i] = x[i - 1] + t[i]
  BY <1>2, <1>3, <1>4, <1>5
<1> QED BY <1>6, Zenon DEF LeadsTo, t

\* Zeros in between change nothing.
LEMMA LeadsZeros ==
  ASSUME NEW a \in Seq(Int), NEW b \in Seq(Int), NEW z \in Seq(Int), \A i \in 1 .. Len(z) : z[i] = 0,
         NEW m, NEW n, LeadsTo(a \o b, m, n)
  PROVE LeadsTo((a \o z) \o b, m, n)
<1> DEFINE k == Len(a)
           d == Len(z)
           l == k + Len(b)
           s == a \o b
           t == (a \o z) \o b
<1>1. /\ k \in Nat /\ d \in Nat /\ l \in Nat /\ k <= l /\ Len(s) = l /\ Len(t) = l + d
      /\ \A i \in 1 .. k : t[i] = s[i]
  OBVIOUS
<1>2. ASSUME NEW i \in k + 1 .. k + d
      PROVE t[i] = 0
  <2>1. i \in 1 .. Len(a \o z) /\ t[i] = (a \o z)[i] /\ (a \o z)[i] = z[i - k] /\ i - k \in 1 .. Len(z)
    OBVIOUS
  <2> QED BY <2>1
<1>3. ASSUME NEW i \in k + d + 1 .. l + d
      PROVE t[i] = s[i - d]
  <2>1. Len(a \o z) = k + d
    OBVIOUS
  <2>2. t[i] = b[i - (k + d)]
    BY <2>1
  <2>3. s[i - d] = b[(i - d) - k]
    OBVIOUS
  <2>4. i - (k + d) = (i - d) - k
    BY <1>1
  <2> QED BY <2>2, <2>3, <2>4
<1>4. PICK p \in [0 .. l -> Int] : p[0] = m /\ p[l] = n /\ \A i \in 1 .. l : p[i] = p[i - 1] + s[i]
  BY <1>1 DEF LeadsTo
<1> DEFINE r == [i \in 0 .. l + d |-> IF i <= k THEN p[i] ELSE IF i <= k + d THEN p[k] ELSE p[i - d]]
<1> HIDE DEF k, d, l, s, t
<1>5. r \in [0 .. l + d -> Int]
  BY <1>1, <1>4
<1>6. r[0] = m /\ r[l + d] = n
  BY <1>1, <1>4
<1>7. ASSUME NEW i \in 1 .. l + d
      PROVE r[i] = r[i - 1] + t[i]
  <2>1. CASE i <= k
    <3>1. i \in 1 .. l /\ i \in 0 .. l + d /\ i - 1 \in 0 .. l + d /\ i - 1 <= k /\ i \in 1 .. k
      BY <1>1, <2>1
    <3>2. r[i] = p[i] /\ r[i - 1] = p[i - 1]
      BY <2>1, <3>1
    <3> QED BY <1>1, <1>4, <3>1, <3>2
  <2>2. CASE i > k /\ i <= k + d
    <3>1. r[i] = p[k] /\ r[i - 1] = p[k] /\ p[k] \in Int
      BY <1>1, <1>4, <2>2
    <3>2. t[i] = 0
      BY <1>1, <1>2, <2>2
    <3> QED BY <3>1, <3>2
  <2>3. CASE i > k + d
    <3>1. i - d \in 1 .. l /\ (i - d) - 1 = (i - 1) - d
      BY <1>1, <2>3
    <3>2. r[i] = p[i - d]
      BY <1>1, <2>3
    <3>3. r[i - 1] = p[(i - 1) - d]
      <4>1. i - 1 \in 0 .. l + d /\ i - 1 >= k + d
        BY <1>1, <2>3
      <4>2. CASE i - 1 > k + d
        BY <1>1, <4>1, <4>2
      <4>3. CASE i - 1 = k + d
        <5>1. (i - 1) - d = k /\ (i - 1 <= k => i - 1 = k)
          BY <1>1, <4>3
        <5>2. r[i - 1] = IF i - 1 <= k THEN p[i - 1] ELSE p[k]
          BY <1>1, <4>1, <4>3
        <5> QED BY <5>1, <5>2
      <4> QED BY <1>1, <4>1, <4>2, <4>3
    <3>4. t[i] = s[i - d]
      <4>1. i \in k + d + 1 .. l + d
        BY <1>1, <2>3
      <4> QED BY <1>3, <4>1
    <3>5. p[i - d] = p[(i - d) - 1] + s[i - d]
      BY <1>4, <3>1
    <3> QED BY <3>1, <3>2, <3>3, <3>4, <3>5
  <2> QED BY <1>1, <2>1, <2>2, <2>3
<1> HIDE DEF r
<1>8. \E x \in [0 .. Len(t) -> Int] : x[0] = m /\ x[Len(t)] = n /\ \A i \in 1 .. Len(t) : x[i] = x[i - 1] + t[i]
  BY <1>1, <1>5, <1>6, <1>7
<1> QED BY <1>8, Zenon DEF LeadsTo, t

-----------------------------------------------------------------------------
(* The order and its rows *)

\* What a request of the caller holds.
LEMMA RequestIs ==
  ASSUME req \in Requests
  PROVE /\ req.side \in {"Buy", "Sell"} /\ req.type \in {"Market", "Limit"}
        /\ req.size = Size /\ req.quote = 2 * Size /\ req.price \in Nat /\ req.tif \in STRING
        /\ req.id \in Ids
BY SessionAssumption DEF Spot!Rate

\* A time of the session reads in milliseconds as it is, and in seconds to a thousandth.
LEMMA TimesAlike ==
  ASSUME NEW t \in Placed .. Placed + Size + 1
  PROVE /\ t \in Int /\ t > 0
        /\ Near(t, t) /\ Near(Perp!futuresTime(t), t) /\ Near(Perp!futuresTime(1000 * t), t)
        /\ Near(Spot!unixFromFloat(t), t)
<1>1. t \in Int /\ t > 0 /\ t < MilliFrom /\ 1000 * t >= MilliFrom
  BY SessionAssumption DEF Placed, MilliFrom
<1>2. Near(t, t) /\ Near(Perp!fromSeconds(t), t) /\ Near(Spot!fromSeconds(t), t)
  BY <1>1 DEF Near, Perp!fromSeconds, Spot!fromSeconds
<1>3. Perp!futuresTime(t) = Perp!fromSeconds(t) /\ Perp!futuresTime(1000 * t) = t
  BY <1>1 DEF Perp!futuresTime, Perp!MilliFrom, MilliFrom
<1>4. Spot!unixFromFloat(t) = Spot!fromSeconds(t)
  BY <1>1 DEF Spot!unixFromFloat, Spot!MilliFrom, MilliFrom
<1> QED BY <1>1, <1>2, <1>3, <1>4

\* Whatever is near a number is a number.
LEMMA NearIs ==
  ASSUME NEW t \in Int, NEW v, Near(v, t)
  PROVE v \in Int
BY DEF Near

\* A signed amount is the amount with the sign of the side.
LEMMA SignedIs ==
  ASSUME NEW n \in Nat
  PROVE /\ Signed(n) \in Int /\ Perp!Abs(Signed(n)) = n
        /\ Signed(n) = IF Buys THEN n ELSE -n
BY DEF Signed, Perp!Abs

\* What an order of the session holds.
LEMMA KeptIs ==
  ASSUME NEW o, Kept(o)
  PROVE /\ o.id = ExchangeId /\ o.id \in Nat /\ o.contract = Btc /\ o.size \in Int /\ o.left \in Int
        /\ o.filled \in Nat /\ o.filled <= Size /\ Size \in Nat /\ o.text \in Tags
        /\ o.created = Placed /\ o.created \in Placed .. Placed + Size + 1
        /\ o.updated \in Placed .. Placed + Size + 1
        /\ o.status \in {"open", "finished", "closed", "cancelled"} /\ o.price \in Int \cup {Blank}
<1>1. o \in OrderRow /\ o.updated \in Placed .. Placed + o.filled + 1
  BY DEF Kept
<1>2. /\ o.id = ExchangeId /\ o.contract = Btc /\ o.size \in Int /\ o.left \in Int /\ o.filled \in 0 .. Size
      /\ o.text \in Tags /\ o.created = Placed
      /\ o.status \in {"open", "finished", "closed", "cancelled"} /\ o.price \in Int \cup {Blank}
  BY <1>1 DEF OrderRow
<1>3. Size \in Nat /\ ExchangeId \in Nat
  BY SessionAssumption
<1> QED BY <1>1, <1>2, <1>3 DEF Placed

\* The row of a perp order reads as REST gives it.
LEMMA PerpRowRead ==
  ASSUME NEW o, Kept(o), req \in Requests, NEW enc \in Encodings
  PROVE LET r == Perp!futuresOrderFromWSElement(o, enc)
        IN  /\ r = [id |-> o.id, contract |-> o.contract, size |-> o.size, left |-> o.left, price |-> o.price,
                    tif |-> o.tif, text |-> o.text, status |-> o.status, finish |-> o.finish,
                    create_time |-> r.create_time, update_time |-> r.update_time]
            /\ Near(Perp!futuresTime(r.create_time), o.created) /\ Near(Perp!futuresTime(r.update_time), o.updated)
<1> DEFINE row == Perp!wsOrderRow(o, enc)
<1>1. o.updated \in Placed .. Placed + Size + 1 /\ o.created \in Placed .. Placed + Size + 1 /\ o.id \in Nat
  BY KeptIs
<1>2. Perp!normalizeWSOrderMap(row) = o.id
  BY <1>1
  DEF Perp!normalizeWSOrderMap, Perp!wsOrderRow, Perp!Text, Perp!Number, Perp!Missing, Perp!Rounded, Perp!Exact, Encodings
<1>3. Perp!str(row.size) = o.size /\ Perp!str(row.left) = o.left /\ Perp!str(row.price) = o.price
  BY DEF Perp!str, Perp!wsOrderRow, Perp!Field, Perp!Text, Perp!Number
<1>4. /\ row.create_time = IF enc.millis THEN 1000 * o.created ELSE o.created
      /\ row.update_time = IF enc.millis THEN 1000 * o.updated ELSE o.updated
  BY DEF Perp!wsOrderRow
<1>5. Near(Perp!futuresTime(row.create_time), o.created)
  BY <1>1, <1>4, TimesAlike
<1>6. Near(Perp!futuresTime(row.update_time), o.updated)
  BY <1>1, <1>4, TimesAlike
<1>7. Perp!futuresOrderFromWSElement(o, enc) =
        [Perp!restOrder(o) EXCEPT
           !.id = o.id, !.size = o.size, !.left = o.left, !.price = o.price,
           !.create_time = row.create_time, !.update_time = row.update_time]
  BY <1>2, <1>3, Zenon DEF Perp!futuresOrderFromWSElement
<1> HIDE DEF row
<1>8. Perp!futuresOrderFromWSElement(o, enc) =
        [id |-> o.id, contract |-> o.contract, size |-> o.size, left |-> o.left, price |-> o.price,
         tif |-> o.tif, text |-> o.text, status |-> o.status, finish |-> o.finish,
         create_time |-> row.create_time, update_time |-> row.update_time]
  BY <1>7 DEF Perp!restOrder
<1> QED BY <1>5, <1>6, <1>8

\* What mapFuturesOrderStatus makes of an order, over REST.
LEMMA PerpStatus ==
  ASSUME NEW o, Kept(o), KeptPerp(o), market = "perp", req \in Requests
  PROVE LET s == Perp!mapFuturesOrderStatus(Perp!restOrder(o))
        IN  /\ s \in {"Submitted", "PartialFilled", "Filled", "Cancelled", "Rejected"}
            /\ s = "Filled" <=> o.filled = Size
            /\ s \in {"Filled", "Cancelled", "Rejected"} <=> o.status # "open"
<1> DEFINE r == Perp!restOrder(o)
<1>1. r.status = o.status /\ r.finish = o.finish /\ r.left = o.left /\ r.size = o.size
  BY DEF Perp!restOrder
<1>2. o.left = 0 <=> o.filled = Size
  <2>1. o.left = Signed(Size) - Signed(o.filled) /\ o.filled \in Nat /\ Size \in Nat
    BY KeptIs DEF Kept, KeptPerp, Unit
  <2> QED BY <2>1 DEF Signed
<1>3. o.status \in {"open", "finished"} /\ (o.status = "open" => o.filled < Size)
  BY DEF Kept, KeptPerp
<1>4. o.status = "finished" =>
        o.finish \in IF o.filled = Size THEN {"filled", "ioc"} ELSE {"ioc", "cancelled", "liquidated", "reduce_only"}
  BY DEF KeptPerp
<1>5. o.filled \in Nat /\ Size \in Nat
  BY KeptIs
<1> HIDE DEF r
<1>6. CASE o.status = "open"
  <2>1. Perp!mapFuturesOrderStatus(r) \in {"Submitted", "PartialFilled"}
    BY <1>1, <1>6 DEF Perp!mapFuturesOrderStatus
  <2> QED BY <1>3, <1>5, <1>6, <2>1 DEF r
<1>7. CASE o.status = "finished" /\ o.filled = Size
  <2>1. o.finish \in {"filled", "ioc"} /\ r.left = 0
    BY <1>1, <1>2, <1>4, <1>7
  <2>2. Perp!mapFuturesOrderStatus(r) = "Filled"
    <3>1. r.status = "finished" /\ r.finish \in {"filled", "ioc"} /\ r.left = 0
      BY <1>1, <1>7, <2>1
    <3>2. CASE r.finish = "filled"
      BY <3>1, <3>2 DEF Perp!mapFuturesOrderStatus
    <3>3. CASE r.finish = "ioc"
      BY <3>1, <3>3 DEF Perp!mapFuturesOrderStatus
    <3> QED BY <3>1, <3>2, <3>3
  <2> QED BY <1>7, <2>2 DEF r
<1>8. CASE o.status = "finished" /\ o.filled # Size
  <2>1. o.finish \in {"ioc", "cancelled", "liquidated", "reduce_only"} /\ r.left # 0
    BY <1>1, <1>2, <1>4, <1>8
  <2>2. Perp!mapFuturesOrderStatus(r) \in {"Cancelled", "Rejected"}
    BY <1>1, <1>8, <2>1 DEF Perp!mapFuturesOrderStatus
  <2> QED BY <1>8, <2>2 DEF r
<1> QED BY <1>3, <1>6, <1>7, <1>8

\* What REST says of a perp order.
LEMMA PerpTold ==
  ASSUME NEW o, Kept(o), KeptPerp(o), market = "perp", req \in Requests, Placeable(req)
  PROVE RestView(o) =
          [id |-> ExchangeId, contract |-> Btc, side |-> req.side, type |-> req.type, size |-> Size,
           price |-> IF o.price = 0 THEN Blank ELSE o.price, filled |-> o.filled,
           status |-> Perp!mapFuturesOrderStatus(Perp!restOrder(o)), tag |-> o.text,
           created |-> Perp!futuresTime(o.created), updated |-> Perp!futuresTime(o.updated)]
<1> DEFINE r == Perp!restOrder(o)
<1>1. /\ r.size = o.size /\ r.left = o.left /\ r.tif = o.tif /\ r.price = o.price /\ r.id = o.id
      /\ r.contract = o.contract /\ r.text = o.text /\ r.create_time = o.created /\ r.update_time = o.updated
  BY DEF Perp!restOrder
<1> HIDE DEF r
<1>2. o.size = Signed(Size) /\ o.left = Signed(Size) - Signed(o.filled)
  BY DEF Kept, KeptPerp, Unit
<1>3. Size \in Nat /\ Size > 0 /\ o.filled \in Nat /\ o.filled <= Size
  BY KeptIs, SessionAssumption
<1>4. req.side \in {"Buy", "Sell"} /\ req.type \in {"Market", "Limit"} /\ req.price \in Nat
  BY RequestIs
<1>5. Perp!gateSizeSide(r.size) = req.side
  BY <1>1, <1>2, <1>3, <1>4 DEF Perp!gateSizeSide, Signed, Buys
<1>6. Perp!Abs(r.size) = Size
  BY <1>1, <1>2, <1>3, SignedIs
<1>7. Perp!futuresFilled(r) = o.filled
  <2>1. Perp!Abs(r.left) = Size - o.filled
    BY <1>1, <1>2, <1>3 DEF Perp!Abs, Signed
  <2> QED BY <1>3, <1>6, <2>1 DEF Perp!futuresFilled
<1>8. Perp!orderTypeFromGate(r) = req.type
  <2>1. req.type = "Limit" => req.price > 0
    BY DEF Placeable, Perp!Placeable
  <2>2. /\ r.price = IF req.type = "Market" THEN 0 ELSE req.price
        /\ req.type = "Market" => r.tif = "ioc"
    BY <1>1 DEF KeptPerp
  <2> QED BY <1>4, <2>1, <2>2 DEF Perp!orderTypeFromGate
<1>9. r.id = ExchangeId /\ r.contract = Btc
  BY <1>1, KeptIs
<1>10. RestView(o) = Perp!orderViewFromFutures(r)
  BY DEF RestView, r
<1>11. RestView(o) =
          [id |-> ExchangeId, contract |-> Btc, side |-> req.side, type |-> req.type, size |-> Size,
           price |-> IF o.price = 0 THEN Blank ELSE o.price, filled |-> o.filled,
           status |-> Perp!mapFuturesOrderStatus(r), tag |-> o.text,
           created |-> Perp!futuresTime(o.created), updated |-> Perp!futuresTime(o.updated)]
  BY <1>1, <1>5, <1>6, <1>7, <1>8, <1>9, <1>10 DEF Perp!orderViewFromFutures
<1> QED BY <1>11 DEF r

\* The websocket says of a perp order what REST says of it.
LEMMA PerpSaidAlike ==
  ASSUME NEW o, Kept(o), market = "perp", req \in Requests, NEW enc \in Encodings
  PROVE LET v == PushView(o, enc)
        IN  /\ v = [RestView(o) EXCEPT !.created = v.created, !.updated = v.updated]
            /\ Near(v.created, o.created) /\ Near(v.updated, o.updated)
<1> DEFINE r == Perp!restOrder(o)
           w == Perp!futuresOrderFromWSElement(o, enc)
<1>1. /\ w.id = r.id /\ w.contract = r.contract /\ w.size = r.size /\ w.left = r.left /\ w.price = r.price
      /\ w.tif = r.tif /\ w.text = r.text /\ w.status = r.status /\ w.finish = r.finish
  BY PerpRowRead DEF Perp!restOrder
<1>2. Near(Perp!futuresTime(w.create_time), o.created) /\ Near(Perp!futuresTime(w.update_time), o.updated)
  BY PerpRowRead
<1>3. PushView(o, enc) = Perp!orderViewFromFutures(w) /\ RestView(o) = Perp!orderViewFromFutures(r)
  BY DEF PushView, RestView
<1> HIDE DEF r, w
<1>4. /\ Perp!futuresFilled(w) = Perp!futuresFilled(r)
      /\ Perp!orderTypeFromGate(w) = Perp!orderTypeFromGate(r)
  BY <1>1 DEF Perp!futuresFilled, Perp!orderTypeFromGate
<1>5. Perp!mapFuturesOrderStatus(w) = Perp!mapFuturesOrderStatus(r)
  BY <1>1 DEF Perp!mapFuturesOrderStatus
<1> DEFINE side == Perp!gateSizeSide(r.size)
           type == Perp!orderTypeFromGate(r)
           size == Perp!Abs(r.size)
           price == IF r.price = 0 THEN Blank ELSE r.price
           filled == Perp!futuresFilled(r)
           status == Perp!mapFuturesOrderStatus(r)
           V(tc, tu) ==
             [id |-> r.id, contract |-> r.contract, side |-> side, type |-> type, size |-> size, price |-> price,
              filled |-> filled, status |-> status, tag |-> r.text, created |-> tc, updated |-> tu]
           pc == Perp!futuresTime(w.create_time)
           pu == Perp!futuresTime(w.update_time)
           rc == Perp!futuresTime(r.create_time)
           ru == Perp!futuresTime(r.update_time)
<1>6. PushView(o, enc) = V(pc, pu) /\ RestView(o) = V(rc, ru)
  BY <1>1, <1>3, <1>4, <1>5, Zenon DEF Perp!orderViewFromFutures
<1>7. /\ V(pc, pu) = [V(rc, ru) EXCEPT !.created = V(pc, pu).created, !.updated = V(pc, pu).updated]
      /\ V(pc, pu).created = pc /\ V(pc, pu).updated = pu
  <2> HIDE DEF pc, pu, rc, ru, side, type, price, filled, status, size
  <2>1. [V(rc, ru) EXCEPT !.created = pc] = V(pc, ru)
    OBVIOUS
  <2>2. [V(pc, ru) EXCEPT !.updated = pu] = V(pc, pu)
    OBVIOUS
  <2>3. V(pc, pu).created = pc /\ V(pc, pu).updated = pu
    OBVIOUS
  <2> HIDE DEF V
  <2>4. [V(rc, ru) EXCEPT !.created = pc, !.updated = pu] = [[V(rc, ru) EXCEPT !.created = pc] EXCEPT !.updated = pu]
    OBVIOUS
  <2> QED BY <2>1, <2>2, <2>3, <2>4
<1>8. Near(pc, o.created) /\ Near(pu, o.updated)
  BY <1>2
<1> HIDE DEF V, pc, pu, rc, ru
<1> QED BY <1>6, <1>7, <1>8

\* What mapSpotOrderStatus makes of an order, over REST.
LEMMA SpotStatus ==
  ASSUME NEW o, Kept(o), KeptSpot(o)
  PROVE LET s == Spot!mapSpotOrderStatus(Spot!restOrder(o))
        IN  /\ s \in {"Submitted", "PartialFilled", "Filled", "Cancelled"}
            /\ s = "Filled" <=> o.filled = Size
            /\ s \in {"Filled", "Cancelled", "Rejected"} <=> o.status # "open"
<1> DEFINE r == Spot!restOrder(o)
<1>1. r.status = o.status
  BY DEF Spot!restOrder
<1>2. o.status \in {"open", "closed", "cancelled"} /\ (o.status = "closed" <=> o.filled = Size)
  BY DEF KeptSpot
<1> HIDE DEF r
<1>3. CASE o.status = "open"
  <2>1. Spot!mapSpotOrderStatus(r) \in {"Submitted", "PartialFilled"}
    BY <1>1, <1>3 DEF Spot!mapSpotOrderStatus
  <2> QED BY <1>2, <1>3, <2>1 DEF r
<1>4. CASE o.status = "closed"
  <2>1. Spot!mapSpotOrderStatus(r) = "Filled"
    BY <1>1, <1>4 DEF Spot!mapSpotOrderStatus
  <2> QED BY <1>2, <1>4, <2>1 DEF r
<1>5. CASE o.status = "cancelled"
  <2>1. Spot!mapSpotOrderStatus(r) = "Cancelled"
    BY <1>1, <1>5 DEF Spot!mapSpotOrderStatus
  <2> QED BY <1>2, <1>5, <2>1 DEF r
<1> QED BY <1>2, <1>3, <1>4, <1>5

\* What REST says of a spot order.
LEMMA SpotTold ==
  ASSUME NEW o, Kept(o), KeptSpot(o), market = "spot", req \in Requests, Placeable(req)
  PROVE /\ RestView(o) =
             [id |-> ExchangeId, contract |-> Btc, side |-> req.side, type |-> req.type, size |-> o.size,
              price |-> IF Spot!parseFloat(o.price) = 0 THEN Blank ELSE o.price, filled |-> o.filled,
              status |-> Spot!mapSpotOrderStatus(Spot!restOrder(o)), tag |-> NoTag,
              created |-> o.updated, updated |-> o.updated]
        /\ o.size = IF MarketBuy THEN req.quote ELSE Size
        /\ req.type = "Limit" => Spot!parseFloat(o.price) # 0 /\ o.price = req.price
<1> DEFINE r == Spot!restOrder(o)
<1>1. /\ r.id = o.id /\ r.pair = o.contract /\ r.side = o.side /\ r.type = o.type /\ r.amount = o.size
      /\ r.filled_amount = o.filled /\ r.price = o.price /\ r.update_time_ms = o.updated
  BY DEF Spot!restOrder
<1> HIDE DEF r
<1>2. req.side \in {"Buy", "Sell"} /\ req.type \in {"Market", "Limit"} /\ req.price \in Nat /\ req.size = Size
  BY RequestIs
<1>3. /\ o.side = Spot!mapGateSide(req.side) /\ o.type = IF req.type = "Market" THEN "market" ELSE "limit"
      /\ o.size = IF MarketBuy THEN req.quote ELSE req.size
      /\ o.price = IF req.type = "Market" THEN Blank ELSE req.price
  BY DEF KeptSpot
<1>4. Spot!mapSide(r.side) = req.side
  BY <1>1, <1>2, <1>3 DEF Spot!mapSide, Spot!mapGateSide
<1>5. Spot!orderTypeFromGate(r) = req.type
  BY <1>1, <1>2, <1>3 DEF Spot!orderTypeFromGate
<1>6. Spot!spotFilled(r) = o.filled
  <2>1. r.filled_amount = o.filled /\ o.filled # Blank
    BY <1>1, KeptIs, BlankAssumption
  <2> QED BY <2>1 DEF Spot!spotFilled
<1>7. Spot!spotOrderTime(r) = o.updated
  <2>1. r.update_time_ms > 0 /\ r.update_time_ms \in Int
    BY <1>1, KeptIs, TimesAlike
  <2> QED BY <1>1, <2>1 DEF Spot!spotOrderTime
<1>8. r.id = ExchangeId /\ r.pair = Btc
  BY <1>1, KeptIs
<1>9. RestView(o) = Spot!orderViewFromSpot(r)
  BY DEF RestView, r
<1>10. Spot!NoTag = NoTag
  BY DEF Spot!NoTag, NoTag
<1>11. RestView(o) =
             [id |-> ExchangeId, contract |-> Btc, side |-> req.side, type |-> req.type, size |-> o.size,
              price |-> IF Spot!parseFloat(o.price) = 0 THEN Blank ELSE o.price, filled |-> o.filled,
              status |-> Spot!mapSpotOrderStatus(r), tag |-> NoTag,
              created |-> o.updated, updated |-> o.updated]
  BY <1>1, <1>4, <1>5, <1>6, <1>7, <1>8, <1>9, <1>10 DEF Spot!orderViewFromSpot
<1>12. req.type = "Limit" => Spot!parseFloat(o.price) # 0 /\ o.price = req.price
  <2>1. req.type = "Limit" => req.price > 0
    BY DEF Placeable, Spot!Placeable
  <2> QED BY <1>2, <1>3, <2>1, BlankAssumption DEF Spot!parseFloat
<1> QED BY <1>2, <1>3, <1>11, <1>12 DEF r

\* The websocket says of a spot order what REST says of it.
LEMMA SpotSaidAlike ==
  ASSUME NEW o, Kept(o), market = "spot", NEW enc \in Encodings
  PROVE LET v == PushView(o, enc)
        IN  /\ v = [RestView(o) EXCEPT !.created = v.created, !.updated = v.updated]
            /\ Near(v.created, o.updated) /\ Near(v.updated, o.updated)
<1> DEFINE r == Spot!restOrder(o)
           w == Spot!spotOrderFromWSElement(o, enc)
<1>1. /\ Spot!str(Spot!Field(enc.numbers, o.size)) = o.size
      /\ Spot!str(Spot!Field(enc.numbers, o.left)) = o.left
      /\ Spot!str(Spot!Field(enc.numbers, o.filled)) = o.filled
      /\ Spot!str(Spot!Field(enc.numbers, o.price)) = o.price
  BY DEF Spot!str, Spot!Field, Spot!Text, Spot!Number
<1>2. w = [r EXCEPT !.amount = o.size, !.left = o.left, !.filled_amount = o.filled, !.price = o.price,
                    !.create_time_ms = IF enc.millis THEN o.created ELSE 0,
                    !.update_time_ms = IF enc.millis THEN o.updated ELSE 0]
  BY <1>1, Zenon DEF Spot!spotOrderFromWSElement, Spot!normalizeWSSpotOrderMap
<1> HIDE DEF w
<1>3. w = [id |-> o.id, pair |-> o.contract, side |-> o.side, type |-> o.type, amount |-> o.size,
           left |-> o.left, filled_amount |-> o.filled, price |-> o.price, status |-> o.status,
           create_time |-> o.created, update_time |-> o.updated,
           create_time_ms |-> IF enc.millis THEN o.created ELSE 0,
           update_time_ms |-> IF enc.millis THEN o.updated ELSE 0]
  BY <1>2 DEF Spot!restOrder
<1>4. /\ w.id = r.id /\ w.pair = r.pair /\ w.side = r.side /\ w.type = r.type /\ w.amount = r.amount
      /\ w.left = r.left /\ w.filled_amount = r.filled_amount /\ w.price = r.price /\ w.status = r.status
  BY <1>3 DEF Spot!restOrder
<1>5. Near(Spot!spotOrderTime(w), o.updated)
  <2>1. o.updated \in Placed .. Placed + Size + 1 /\ o.updated > 0 /\ o.updated \in Int /\ o.updated # Blank
    BY KeptIs, TimesAlike, BlankAssumption
  <2>2. /\ w.update_time = o.updated
        /\ w.update_time_ms = IF enc.millis THEN o.updated ELSE 0
        /\ w.create_time_ms = IF enc.millis THEN o.created ELSE 0
    BY <1>3
  <2>3. CASE enc.millis
    <3>1. Spot!spotOrderTime(w) = o.updated
      BY <2>1, <2>2, <2>3 DEF Spot!spotOrderTime
    <3> QED BY <3>1, KeptIs, TimesAlike
  <2>4. CASE ~enc.millis
    <3>1. w.update_time_ms = 0 /\ w.create_time_ms = 0 /\ Spot!parseFloat(w.update_time) = o.updated
      BY <2>1, <2>2, <2>4 DEF Spot!parseFloat
    <3>2. Spot!spotOrderTime(w) = Spot!unixFromFloat(w.update_time)
      BY <2>1, <3>1 DEF Spot!spotOrderTime
    <3> QED BY <2>1, <2>2, <3>2, KeptIs, TimesAlike
  <2> QED BY <2>3, <2>4
<1>6. PushView(o, enc) = Spot!orderViewFromSpot(w) /\ RestView(o) = Spot!orderViewFromSpot(r)
  BY DEF PushView, RestView, w
<1> HIDE DEF r
<1>7. /\ Spot!spotFilled(w) = Spot!spotFilled(r)
      /\ Spot!orderTypeFromGate(w) = Spot!orderTypeFromGate(r)
  BY <1>4 DEF Spot!spotFilled, Spot!orderTypeFromGate
<1>8. Spot!mapSpotOrderStatus(w) = Spot!mapSpotOrderStatus(r)
  BY <1>4 DEF Spot!mapSpotOrderStatus
<1> DEFINE side == Spot!mapSide(r.side)
           type == Spot!orderTypeFromGate(r)
           price == IF Spot!parseFloat(r.price) = 0 THEN Blank ELSE r.price
           filled == Spot!spotFilled(r)
           status == Spot!mapSpotOrderStatus(r)
           V(tc, tu) ==
             [id |-> r.id, contract |-> r.pair, side |-> side, type |-> type, size |-> r.amount, price |-> price,
              filled |-> filled, status |-> status, tag |-> Spot!NoTag, created |-> tc, updated |-> tu]
           p == Spot!spotOrderTime(w)
           q == Spot!spotOrderTime(r)
<1>9. PushView(o, enc) = V(p, p) /\ RestView(o) = V(q, q)
  BY <1>4, <1>6, <1>7, <1>8, Zenon DEF Spot!orderViewFromSpot
<1>10. /\ V(p, p) = [V(q, q) EXCEPT !.created = V(p, p).created, !.updated = V(p, p).updated]
       /\ V(p, p).created = p /\ V(p, p).updated = p
  <2> HIDE DEF p, q, side, type, price, filled, status
  <2>1. [V(q, q) EXCEPT !.created = p] = V(p, q)
    OBVIOUS
  <2>2. [V(p, q) EXCEPT !.updated = p] = V(p, p)
    OBVIOUS
  <2>3. V(p, p).created = p /\ V(p, p).updated = p
    OBVIOUS
  <2> HIDE DEF V
  <2>4. [V(q, q) EXCEPT !.created = p, !.updated = p] = [[V(q, q) EXCEPT !.created = p] EXCEPT !.updated = p]
    OBVIOUS
  <2> QED BY <2>1, <2>2, <2>3, <2>4
<1>11. Near(p, o.updated)
  BY <1>5
<1> HIDE DEF V, p, q
<1> QED BY <1>9, <1>10, <1>11

\* What REST says of an order of the session.
LEMMA OrderToldIs ==
  ASSUME NEW o, OrderKept(o), market \in {"perp", "spot"}, req \in Requests, Placeable(req)
  PROVE /\ RestView(o) \in Views /\ RestView(o).filled = o.filled
        /\ AsAsked(RestView(o))
        /\ RestView(o).status = "Filled" <=> o.filled = Size
        /\ RestView(o).status \in {"Filled", "Cancelled", "Rejected"} <=> o.status # "open"
        /\ RestView(o).contract = Btc
        /\ Near(RestView(o).created, IF market = "perp" THEN o.created ELSE o.updated)
        /\ Near(RestView(o).updated, o.updated)
<1>1. /\ req.side \in {"Buy", "Sell"} /\ req.type \in {"Market", "Limit"} /\ req.price \in Nat
      /\ req.size = Size /\ req.quote = 2 * Size /\ req.id \in Ids
  BY RequestIs
<1>2. /\ Kept(o) /\ o.text = normalizeGateOrderText(req.id)
      /\ market = "perp" => KeptPerp(o)
      /\ market = "spot" => KeptSpot(o)
  BY DEF OrderKept, Kept
<1>3. /\ o.filled \in 0 .. Size /\ o.created \in Int /\ o.updated \in Int /\ Size \in Nat /\ Size > 0
      /\ o.price \in Int \cup {Blank}
  BY <1>2, KeptIs, SessionAssumption DEF Placed
<1>4. Size \in 0 .. Size * Spot!Rate /\ 2 * Size \in 0 .. Size * Spot!Rate
  BY <1>3 DEF Spot!Rate
<1>5. CASE market = "perp"
  <2> DEFINE st == Perp!mapFuturesOrderStatus(Perp!restOrder(o))
             tc == Perp!futuresTime(o.created)
             tu == Perp!futuresTime(o.updated)
  <2>1. RestView(o) =
          [id |-> ExchangeId, contract |-> Btc, side |-> req.side, type |-> req.type, size |-> Size,
           price |-> IF o.price = 0 THEN Blank ELSE o.price, filled |-> o.filled,
           status |-> st, tag |-> o.text, created |-> tc, updated |-> tu]
    BY <1>2, <1>5, PerpTold
  <2>2. /\ st \in {"Submitted", "PartialFilled", "Filled", "Cancelled", "Rejected"}
        /\ st = "Filled" <=> o.filled = Size
        /\ st \in {"Filled", "Cancelled", "Rejected"} <=> o.status # "open"
    BY <1>2, <1>5, PerpStatus
  <2>7. Near(tc, o.created) /\ Near(tu, o.updated) /\ tc \in Int /\ tu \in Int
    BY <1>2, <1>3, KeptIs, TimesAlike, NearIs
  <2> HIDE DEF st, tc, tu
  <2>3. o.text \in {NoTag} \cup {normalizeGateOrderText(id) : id \in Ids}
    BY <1>1, <1>2
  <2>4. RestView(o) \in Views
    BY <1>1, <1>3, <1>4, <2>1, <2>2, <2>3, <2>7 DEF Views
  <2>5. req.type = "Limit" => o.price = req.price /\ o.price # 0
    BY <1>2, <1>5 DEF KeptPerp, Placeable, Perp!Placeable
  <2>6. AsAsked(RestView(o))
    BY <1>1, <1>2, <1>5, <2>1, <2>5 DEF AsAsked
  <2> QED BY <1>5, <2>1, <2>2, <2>4, <2>6, <2>7
<1>6. CASE market = "spot"
  <2> DEFINE st == Spot!mapSpotOrderStatus(Spot!restOrder(o))
             pr == IF Spot!parseFloat(o.price) = 0 THEN Blank ELSE o.price
  <2>1. /\ RestView(o) =
             [id |-> ExchangeId, contract |-> Btc, side |-> req.side, type |-> req.type, size |-> o.size,
              price |-> pr, filled |-> o.filled,
              status |-> st, tag |-> NoTag, created |-> o.updated, updated |-> o.updated]
        /\ o.size = IF MarketBuy THEN req.quote ELSE Size
        /\ req.type = "Limit" => Spot!parseFloat(o.price) # 0 /\ o.price = req.price
    BY <1>2, <1>6, SpotTold
  <2>2. /\ st \in {"Submitted", "PartialFilled", "Filled", "Cancelled"}
        /\ st = "Filled" <=> o.filled = Size
        /\ st \in {"Filled", "Cancelled", "Rejected"} <=> o.status # "open"
    BY <1>2, <1>6, SpotStatus
  <2>3. pr \in Int \cup {Blank} /\ (req.type = "Limit" => pr = req.price)
    BY <1>3, <2>1
  <2> HIDE DEF st, pr
  <2>4. o.size \in 0 .. Size * Spot!Rate
    BY <1>1, <1>4, <2>1
  <2>5. RestView(o) \in Views
    BY <1>1, <1>3, <2>1, <2>2, <2>3, <2>4 DEF Views
  <2>6. AsAsked(RestView(o))
    BY <1>1, <1>6, <2>1, <2>3 DEF AsAsked
  <2>7. Near(o.updated, o.updated)
    BY <1>3 DEF Near
  <2> QED BY <1>6, <2>1, <2>2, <2>5, <2>6, <2>7
<1> QED BY <1>5, <1>6

\* ... and what the websocket says of it.
LEMMA OrderSaidAlike ==
  ASSUME NEW o, OrderKept(o), market \in {"perp", "spot"}, req \in Requests, NEW enc \in Encodings
  PROVE LET v == PushView(o, enc)
        IN  /\ v = [RestView(o) EXCEPT !.created = v.created, !.updated = v.updated]
            /\ Near(v.created, IF market = "perp" THEN o.created ELSE o.updated) /\ Near(v.updated, o.updated)
BY PerpSaidAlike, SpotSaidAlike DEF OrderKept

LEMMA OrderPushedIs ==
  ASSUME NEW o, OrderKept(o), market \in {"perp", "spot"}, req \in Requests, Placeable(req),
         NEW enc \in Encodings
  PROVE PushView(o, enc) \in Views /\ PushView(o, enc).filled = o.filled
<1> DEFINE v == PushView(o, enc)
           w == RestView(o)
<1>1. w \in Views /\ w.filled = o.filled
  BY OrderToldIs
<1>2. v = [w EXCEPT !.created = v.created, !.updated = v.updated] /\ v.created \in Int /\ v.updated \in Int
  <2>1. o.created \in Int /\ o.updated \in Int
    BY KeptIs DEF OrderKept, Placed
  <2> QED BY <2>1, OrderSaidAlike, NearIs
<1> HIDE DEF v, w
<1>3. v \in Views
  BY <1>1, <1>2 DEF Views
<1>4. v.filled = w.filled
  <2>1. w = [w EXCEPT !.filled = w.filled]
    BY <1>1 DEF Views
  <2> QED BY <1>1, <1>2 DEF Views
<1> QED BY <1>1, <1>3, <1>4 DEF v, w

\* What the exchange says of the leverage in the session.
LEMMA MarginIs == Margin \in Margins
BY MarginsAssumption DEF Margin

\* A pushed position reads as over REST, but for a leverage that lever tells otherwise or
\* that comes as a text.
LEMMA PositionSaidAlike ==
  ASSUME NEW n \in Int, NEW margin \in Margins, NEW enc \in Encodings
  PROVE LET p == Perp!positionFromWSRow(n, margin, enc)
            v == Perp!positionView(n, margin)
        IN  /\ p = [side |-> IF n < 0 THEN "Short" ELSE "Long", size |-> Perp!Abs(n), leverage |-> p.leverage]
            /\ p.leverage \in Int
            /\ n # 0 => /\ p.side = v.side /\ p.size = v.size
                        /\ margin.lever \in {Blank, margin.leverage} /\ enc.levers => p.leverage = v.leverage
<1>1. Perp!parseFloat(Perp!str(Perp!Field(enc.numbers, n))) = n
  BY BlankAssumption DEF Perp!parseFloat, Perp!str, Perp!Field, Perp!Text, Perp!Number
<1>2. margin.leverage \in Nat /\ margin.lever \in Nat \cup {Blank}
  BY MarginsAssumption
<1>3. Perp!int64Val(Perp!Field(enc.levers, margin.leverage)) = IF enc.levers THEN margin.leverage ELSE 0
  BY DEF Perp!int64Val, Perp!Field, Perp!Text, Perp!Number
<1>4. margin.lever \in {Blank, margin.leverage} =>
        Perp!parseFloat(IF margin.lever # Blank THEN margin.lever ELSE margin.leverage) = margin.leverage
  BY <1>2, BlankAssumption DEF Perp!parseFloat
<1> QED BY <1>1, <1>2, <1>3, <1>4 DEF Perp!positionFromWSRow, Perp!positionView

\* A pushed balance reads as over REST, whatever fields its row has.
LEMMA BalanceSaidAlike ==
  ASSUME NEW free \in Int, NEW locked \in Int, NEW bal \in Spot!BalanceRows
  PROVE Spot!balanceUpdateFromWSRow(free, locked, bal) = Spot!balanceViewFromSpot(free, locked)
<1>1. /\ Spot!str(Spot!Text(free + locked)) = free + locked /\ Spot!str(Spot!Text(locked)) = locked
      /\ Spot!str(Spot!Missing) = Blank
  BY DEF Spot!str, Spot!Text, Spot!Missing
<1>2. Spot!parseFloat(locked) = locked /\ Spot!parseFloat(Blank) = 0 /\ locked # Blank /\ free + locked # Blank
  BY BlankAssumption DEF Spot!parseFloat
<1>3. CASE bal.freeze /\ bal.total
  BY <1>1, <1>2, <1>3 DEF Spot!balanceUpdateFromWSRow, Spot!balanceViewFromSpot
<1>4. CASE bal.freeze /\ ~bal.total
  BY <1>1, <1>2, <1>4 DEF Spot!balanceUpdateFromWSRow, Spot!balanceViewFromSpot
<1>5. CASE ~bal.freeze /\ bal.total
  BY <1>1, <1>2, <1>5 DEF Spot!balanceUpdateFromWSRow, Spot!balanceViewFromSpot
<1>6. CASE ~bal.freeze /\ ~bal.total
  BY <1>1, <1>2, <1>6 DEF Spot!balanceUpdateFromWSRow, Spot!balanceViewFromSpot
<1> QED BY <1>3, <1>4, <1>5, <1>6

\* What is held and what is locked of a kept order are numbers.
LEMMA HoldingIs ==
  ASSUME NEW o, o.filled \in Nat
  PROVE Size \in Nat /\ Before \in Nat /\ Holding(o) \in Int /\ Locked(o) \in Int
<1>1. Size \in Nat /\ Before \in Nat
  BY SessionAssumption DEF Before
<1>2. Signed(o.filled) \in Int
  BY SignedIs
<1> QED BY <1>1, <1>2 DEF Holding, Locked

\* Two ids with one tag differ at most by the prefix.
LEMMA OneTag ==
  ASSUME NEW a \in Ids, NEW b \in Ids, normalizeGateOrderText(a) = normalizeGateOrderText(b)
  PROVE [a EXCEPT !.prefixed = FALSE] = [b EXCEPT !.prefixed = FALSE]
<1>1. /\ a \in [head : STRING \ {""}, tail : STRING, prefixed : BOOLEAN, hex : BOOLEAN]
      /\ b \in [head : STRING \ {""}, tail : STRING, prefixed : BOOLEAN, hex : BOOLEAN]
      /\ (a.tail # "" => ~a.hex) /\ (b.tail # "" => ~b.hex)
  BY SessionAssumption DEF ClientIds
<1>2. a.head = b.head /\ a.tail = b.tail /\ ((Long(a) \/ a.hex) = (Long(b) \/ b.hex))
  BY DEF normalizeGateOrderText
<1>3. a.hex = b.hex
  BY <1>1, <1>2 DEF Long
<1> QED BY <1>1, <1>2, <1>3

-----------------------------------------------------------------------------
(* What the invariant gives *)

\* What no lost row, no row on its way and no event untaken leave: the caller knows all.
LEMMA AllTaken ==
  ASSUME ClientIInv
  PROVE ToldEverything
<1>1. reader = "reading" /\ conn = "up" => activeSubs \subseteq server
  BY DEF ClientIInv, Sessions
<1>2. ASSUME ~lost, rows = Nothing, userCh = <<>>, ord # NoOrder
      PROVE /\ shown # NoOrder /\ shown.filled = ord.filled
            /\ market = "perp" => traded = Signed(shown.filled)
            /\ shown.filled > 0 => held = Before + Signed(shown.filled)
  <2>1. /\ rows["orders"] = <<>> /\ rows["usertrades"] = <<>> /\ rows["positions"] = <<>> /\ rows["balances"] = <<>>
    BY <1>2 DEF Nothing, Channels
  <2>2. shown # NoOrder /\ shown.filled = ord.filled
    BY <1>2, <2>1 DEF ClientIInv, OrderTold, Newest
  <2>3. market = "perp" => traded = Signed(ord.filled)
    <3>1. SUFFICES ASSUME market = "perp" PROVE traded = Signed(ord.filled)
      OBVIOUS
    <3>2. LeadsTo(Untraded, traded, Signed(ord.filled))
      BY <1>2, <3>1 DEF ClientIInv, TradesTold
    <3>3. Untraded = <<>>
      BY <1>2, <2>1 DEF Untraded, Changes
    <3>4. Len(Untraded) = 0
      BY <3>3
    <3> QED BY <3>2, <3>4 DEF LeadsTo
  <2>4. ord.filled > 0 => held = Holding(ord)
    <3>1. market \in {"perp", "spot"}
      BY DEF ClientIInv, Sessions
    <3>2. CASE market = "perp"
      BY <1>2, <2>1, <3>2 DEF ClientIInv, PositionTold, Newest
    <3>3. CASE market = "spot"
      BY <1>2, <2>1, <3>3 DEF ClientIInv, BalanceTold, Newest
    <3> QED BY <3>1, <3>2, <3>3
  <2> QED BY <2>2, <2>3, <2>4 DEF Holding
<1> QED BY <1>1, <1>2 DEF ToldEverything

\* The order is told as it is.
LEMMA AsItIs ==
  ASSUME ClientIInv
  PROVE ToldAsItIs
<1>1. ClientTypeOK
  BY DEF ClientIInv, Sessions, Queues, ClientTypeOK
<1>2. ASSUME ord # NoOrder
      PROVE /\ SaidAlike /\ AsAsked(RestView(ord)) /\ EndedAsTraded(RestView(ord))
            /\ localIDFromGateText(ord.text) \in {"none", req.id.head}
            /\ ord.text = normalizeGateOrderText(req.id) /\ req.id \in Ids
  <2>1. req \in Requests /\ Placeable(req) /\ OrderKept(ord) /\ market \in {"perp", "spot"}
    BY <1>2 DEF ClientIInv, OrderIs, Sessions, KeptOrders
  <2>2. /\ AsAsked(RestView(ord))
        /\ RestView(ord).status = "Filled" <=> ord.filled = Size
        /\ RestView(ord).status \in {"Filled", "Cancelled", "Rejected"} <=> ord.status # "open"
        /\ RestView(ord).contract = Btc
        /\ Near(RestView(ord).created, IF market = "perp" THEN ord.created ELSE ord.updated)
        /\ Near(RestView(ord).updated, ord.updated)
    BY <2>1, OrderToldIs
  <2>3. EndedAsTraded(RestView(ord))
    BY <1>2, <2>2 DEF EndedAsTraded, Open
  <2>4. SaidAlike
    <3>1. GetOrder(Btc, ord) = RestView(ord)
      BY <2>2 DEF GetOrder
    <3>2. /\ InTime(GetOrder(Btc, ord))
          /\ \A enc \in Encodings :
               /\ InTime(PushView(ord, enc))
               /\ PushView(ord, enc) = [GetOrder(Btc, ord) EXCEPT !.created = PushView(ord, enc).created,
                                                                  !.updated = PushView(ord, enc).updated]
      BY <2>1, <2>2, <3>1, OrderSaidAlike DEF InTime
    <3>3. Holding(ord) \in Int /\ Locked(ord) \in Int
      <4>1. Kept(ord)
        BY <2>1 DEF OrderKept
      <4>2. ord.filled \in Nat
        BY <4>1, KeptIs
      <4> QED BY <4>2, HoldingIs
    <3>4. Holding(ord) # 0 => \A margin \in Margins, enc \in Encodings :
            LET view == Perp!positionView(Holding(ord), margin)
                pushed == Perp!positionFromWSRow(Holding(ord), margin, enc)
            IN  /\ pushed.side = view.side /\ pushed.size = view.size
                /\ margin.lever \in {Blank, margin.leverage} /\ enc.levers => pushed.leverage = view.leverage
      <4> DEFINE h == Holding(ord)
      <4>1. h \in Int
        BY <3>3
      <4> HIDE DEF h
      <4>2. h # 0 => \A margin \in Margins, enc \in Encodings :
              LET view == Perp!positionView(h, margin)
                  pushed == Perp!positionFromWSRow(h, margin, enc)
              IN  /\ pushed.side = view.side /\ pushed.size = view.size
                  /\ margin.lever \in {Blank, margin.leverage} /\ enc.levers => pushed.leverage = view.leverage
        BY <4>1, PositionSaidAlike
      <4> QED BY <4>2 DEF h
    <3>5. \A bal \in Spot!BalanceRows :
            Spot!balanceUpdateFromWSRow(Holding(ord) - Locked(ord), Locked(ord), bal)
              = Spot!balanceViewFromSpot(Holding(ord) - Locked(ord), Locked(ord))
      <4> DEFINE l == Locked(ord)
                 f == Holding(ord) - l
      <4>1. l \in Int /\ f \in Int
        BY <3>3
      <4> HIDE DEF l, f
      <4>2. \A bal \in Spot!BalanceRows : Spot!balanceUpdateFromWSRow(f, l, bal) = Spot!balanceViewFromSpot(f, l)
        BY <4>1, BalanceSaidAlike
      <4> QED BY <4>2 DEF f, l
    <3> QED BY <3>2, <3>4, <3>5 DEF SaidAlike
  <2>5. ord.text = normalizeGateOrderText(req.id) /\ req.id \in Ids
    BY <2>1, RequestIs DEF OrderKept, Kept
  <2>6. localIDFromGateText(ord.text) \in {"none", req.id.head}
    BY <2>5 DEF localIDFromGateText, normalizeGateOrderText
  <2> QED BY <2>2, <2>3, <2>4, <2>5, <2>6
<1>3. stopper # NoRequest => [stopper EXCEPT !.prefixed = FALSE] = [req.id EXCEPT !.prefixed = FALSE]
  <2>1. SUFFICES ASSUME stopper # NoRequest
                 PROVE [stopper EXCEPT !.prefixed = FALSE] = [req.id EXCEPT !.prefixed = FALSE]
    OBVIOUS
  <2>2. stopper \in Ids /\ ord # NoOrder /\ normalizeGateOrderText(stopper) = ord.text
    BY <2>1 DEF ClientIInv, OrderIs
  <2> QED BY <1>2, <2>2, OneTag
<1> QED BY <1>1, <1>2, <1>3 DEF ToldAsItIs

-----------------------------------------------------------------------------
(* Steps *)

\* What a request and the market mean stays while they stay.
LEMMA SameMeaning ==
  ASSUME UNCHANGED <<market, req>>
  PROVE /\ KeptOrders' = KeptOrders /\ UserEvents' = UserEvents /\ Placeable(req)' = Placeable(req)
        /\ Before' = Before
BY Zenon DEF KeptOrders, OrderKept, Kept, KeptPerp, KeptSpot, MarketBuy, Buys, Signed, Unit, UserEvents, Placeable, Before

\* What is traded and not taken is a sequence of numbers.
LEMMA UntradedIs ==
  ASSUME Queues
  PROVE /\ Untraded \in Seq(Int) /\ Changes(userCh) \in Seq(Int)
        /\ \A i \in DOMAIN userCh : Change(userCh[i]) \in Int
<1>1. userCh \in Seq(UserEvents) /\ rows["usertrades"] \in Seq(Int)
  BY DEF Queues
<1>2. ASSUME NEW ev \in UserEvents
      PROVE Change(ev) \in Int
  <2>1. CASE ev.kind = "usertrades"
    <3>1. ev \in TradeEvents
      BY <2>1 DEF UserEvents, OrderEvents, PositionEvents, BalanceEvents
    <3>2. ev.payload.size \in Nat
      BY <3>1 DEF TradeEvents
    <3> QED BY <2>1, <3>2 DEF Change
  <2>2. CASE ev.kind # "usertrades"
    BY <2>2 DEF Change
  <2> QED BY <2>1, <2>2
<1>3. \A i \in DOMAIN userCh : Change(userCh[i]) \in Int
  BY <1>1, <1>2
<1>4. Changes(userCh) \in Seq(Int)
  BY <1>1, <1>3, ChangesOf
<1> QED BY <1>1, <1>3, <1>4 DEF Untraded

\* A step of the session: the order stays, and what is on its way stays or is lost.
LEMMA SessionStep ==
  ASSUME ClientIInv, UNCHANGED <<market, exchange, userCh, caller>>, Sessions',
         rows' \in {rows, Nothing}, ~lost' => ~lost /\ rows' = rows
  PROVE ClientIInv'
<1>1. UNCHANGED <<market, req, ord, stopper, userCh, shown, traded, held>>
  BY DEF exchange, caller
<1>2. KeptOrders' = KeptOrders /\ UserEvents' = UserEvents /\ Placeable(req)' = Placeable(req) /\ Before' = Before
  BY <1>1, SameMeaning
<1>3. OrderIs'
  BY <1>1, <1>2 DEF ClientIInv, OrderIs
<1>4. Queues'
  <2>1. CASE rows' = rows
    BY <1>1, <1>2, <2>1 DEF ClientIInv, Queues
  <2>2. CASE rows' = Nothing
    <3>1. /\ DOMAIN rows' = Channels /\ \A c \in Channels : rows'[c] = <<>>
          /\ rows' = [c \in Channels |-> rows'[c]]
      BY <2>2 DEF Nothing
    <3>2. \A c \in Channels : Len(rows'[c]) <= FrameCap
      BY <3>1, BoundsAssumption
    <3>3. rows'["orders"] = <<>> /\ rows'["usertrades"] = <<>> /\ rows'["positions"] = <<>> /\ rows'["balances"] = <<>>
      BY <3>1 DEF Channels
    <3> QED BY <1>1, <1>2, <3>1, <3>2, <3>3 DEF ClientIInv, Queues
  <2> QED BY <2>1, <2>2
<1>5. \A n : Signed(n)' = Signed(n)
  BY <1>1 DEF Signed, Buys
<1>6. Holding(ord)' = Holding(ord)
  BY <1>1, <1>2, Zenon DEF Holding, Signed, Buys
<1>7. ASSUME ~lost'
      PROVE OrderTold' /\ TradesTold' /\ PositionTold' /\ BalanceTold'
  <2>1. ~lost /\ rows' = rows
    BY <1>7
  <2>2. OrderTold'
    BY <1>1, <2>1 DEF ClientIInv, OrderTold
  <2>3. TradesTold'
    BY <1>1, <2>1, Zenon DEF ClientIInv, TradesTold, Untraded, Changes, Signed, Buys
  <2>4. PositionTold'
    BY <1>1, <1>6, <2>1 DEF ClientIInv, PositionTold
  <2>5. BalanceTold'
    BY <1>1, <1>6, <2>1 DEF ClientIInv, BalanceTold
  <2> QED BY <2>2, <2>3, <2>4, <2>5
<1>8. OrderTold' /\ TradesTold' /\ PositionTold' /\ BalanceTold'
  BY <1>7 DEF OrderTold, TradesTold, PositionTold, BalanceTold
<1> QED BY <1>3, <1>4, <1>8 DEF ClientIInv

\* The keys of a subscription name its channel.
LEMMA KeysNamed ==
  ASSUME NEW sub
  PROVE \A k \in Keys(sub) : k[1] = sub.channel
BY DEF Keys, wsSubKey

\* The read loop after an error, the subscriptions of the caller, Close.
LEMMA SessionActions ==
  ASSUME ClientIInv,
         reconnects \/ Cut \/ CutSilent \/ Close \/ Closed
           \/ \E sub \in CallerSubs : subscribe(sub) \/ unsubscribe(sub) \/ subscribeCut(sub)
  PROVE ClientIInv'
<1> USE DEF ClientIInv, Sessions
<1>1. CASE reconnects
  <2>1. UNCHANGED <<market, exchange, userCh, caller, rows, lost>>
    BY <1>1 DEF reconnects, readError, redial, redialFailed, resubscribe, wakes
  <2>2. Sessions'
    <3>1. CASE readError
      BY <3>1 DEF readError
    <3>2. CASE redial
      BY <3>2 DEF redial
    <3>3. CASE redialFailed
      BY <3>3 DEF redialFailed, Loops
    <3>4. CASE resubscribe
      BY <3>4 DEF resubscribe, Loops
    <3>5. CASE wakes
      BY <3>5 DEF wakes
    <3> QED BY <1>1, <3>1, <3>2, <3>3, <3>4, <3>5 DEF reconnects
  <2> QED BY <2>1, <2>2, SessionStep
<1>2. CASE Cut \/ CutSilent
  <2>1. UNCHANGED <<market, exchange, userCh, caller>> /\ rows' = Nothing /\ lost' = (lost \/ rows # Nothing)
    BY <1>2 DEF Cut, CutSilent, CutOff
  <2>2. Sessions'
    BY <1>2, BoundsAssumption DEF Cut, CutSilent, CutOff
  <2>3. ~lost' => ~lost /\ rows' = rows
    BY <2>1
  <2> QED BY <2>1, <2>2, <2>3, SessionStep
<1>3. CASE Close
  <2>1. UNCHANGED <<market, exchange, userCh, caller, rows, lost>>
    BY <1>3 DEF Close
  <2>2. Sessions'
    BY <1>3 DEF Close
  <2> QED BY <2>1, <2>2, SessionStep
<1>4. CASE Closed
  <2>1. UNCHANGED <<market, exchange, userCh, caller>> /\ rows' = Nothing /\ lost' = (lost \/ rows # Nothing)
    BY <1>4 DEF Closed
  <2>2. Sessions'
    BY <1>4 DEF Closed
  <2>3. ~lost' => ~lost /\ rows' = rows
    BY <2>1
  <2> QED BY <2>1, <2>2, <2>3, SessionStep
<1>5. ASSUME NEW sub \in CallerSubs, subscribe(sub) \/ unsubscribe(sub) \/ subscribeCut(sub)
      PROVE ClientIInv'
  <2>1. UNCHANGED <<market, exchange, userCh, caller, rows, lost>>
    BY <1>5 DEF subscribe, unsubscribe, subscribeCut
  <2>2. \A k \in Keys(sub) : k[1] \in Registered(market)
    <3>1. sub \in Subs[market] /\ market \in Markets
      BY DEF CallerSubs, ClientIInv, Sessions
    <3> QED BY <3>1, SubsAssumption, KeysNamed
  <2>3. Sessions'
    <3>1. CASE subscribe(sub)
      BY <2>2, <3>1 DEF subscribe
    <3>2. CASE unsubscribe(sub)
      BY <2>2, <3>2 DEF unsubscribe
    <3>3. CASE subscribeCut(sub)
      BY <2>2, <3>3 DEF subscribeCut
    <3> QED BY <1>5, <3>1, <3>2, <3>3
  <2> QED BY <2>1, <2>3, SessionStep
<1> QED BY <1>1, <1>2, <1>3, <1>4, <1>5

\* What a report tells, by channel.
LEMMA ReportIs ==
  ASSUME NEW o, NEW n \in Nat, market \in {"perp", "spot"}
  PROVE LET new == Report(o, n)
        IN  /\ new["orders"] = <<o>>
            /\ new["usertrades"] = IF market = "perp" /\ n > 0 THEN <<Signed(n)>> ELSE <<>>
            /\ new["positions"] = IF market = "perp" /\ n > 0 THEN <<Holding(o)>> ELSE <<>>
            /\ new["balances"] = IF market = "spot" THEN <<[free |-> Holding(o) - Locked(o), locked |-> Locked(o)]>>
                                                    ELSE <<>>
<1> DEFINE new == Report(o, n)
<1>1. \A c \in Channels : new[c] =
        CASE c = "orders" -> <<o>>
          [] c = "usertrades" /\ market = "perp" /\ n > 0 -> <<Signed(n)>>
          [] c = "positions" /\ market = "perp" /\ n > 0 -> <<Holding(o)>>
          [] c = "balances" /\ market = "spot" -> <<[free |-> Holding(o) - Locked(o), locked |-> Locked(o)]>>
          [] OTHER -> <<>>
  BY Zenon DEF Report
<1> HIDE DEF new
<1>2. new["orders"] = <<o>>
  BY <1>1 DEF Channels
<1>3. new["usertrades"] = IF market = "perp" /\ n > 0 THEN <<Signed(n)>> ELSE <<>>
  BY <1>1 DEF Channels
<1>4. new["positions"] = IF market = "perp" /\ n > 0 THEN <<Holding(o)>> ELSE <<>>
  BY <1>1 DEF Channels
<1>5. new["balances"] = IF market = "spot" THEN <<[free |-> Holding(o) - Locked(o), locked |-> Locked(o)]>> ELSE <<>>
  BY <1>1 DEF Channels
<1> QED BY <1>2, <1>3, <1>4, <1>5 DEF new

\* A step of the exchange: n more of the order is filled, and the order is reported.
LEMMA ReportStep ==
  ASSUME ClientIInv, UNCHANGED <<market, session, req, userCh, caller>>, ord # NoOrder, ord' # NoOrder,
         ord' \in KeptOrders, NEW n \in Nat, ord'.filled = ord.filled + n,
         stopper' # NoRequest => stopper' \in Ids /\ normalizeGateOrderText(stopper') = ord.text,
         Push(Report(ord', n))
  PROVE ClientIInv'
<1> DEFINE new == Report(ord', n)
           h == Holding(ord')
           l == Locked(ord')
           b == [free |-> h - l, locked |-> l]
           d == Signed(n)
<1>1. /\ market' = market /\ req' = req /\ userCh' = userCh /\ shown' = shown /\ traded' = traded /\ held' = held
      /\ UNCHANGED <<conn, reader, activeSubs, server, closing, cuts>>
  BY DEF caller, session
<1>2. KeptOrders' = KeptOrders /\ UserEvents' = UserEvents /\ Placeable(req)' = Placeable(req) /\ Before' = Before
  BY <1>1, SameMeaning
<1>3. /\ market \in {"perp", "spot"} /\ Sessions' /\ req \in Requests /\ Placeable(req) /\ ord \in KeptOrders
  BY <1>1 DEF ClientIInv, Sessions, OrderIs
<1>4. /\ ord.filled \in Nat /\ ord'.filled \in Nat
      /\ ord.text = normalizeGateOrderText(req.id) /\ ord'.text = ord.text
  <2>1. Kept(ord) /\ Kept(ord')
    BY <1>3 DEF KeptOrders, OrderKept
  <2>2. ord.filled \in Nat /\ ord'.filled \in Nat
    BY <2>1, KeptIs
  <2> QED BY <2>1, <2>2 DEF Kept
<1>5. h \in Int /\ l \in Int /\ d \in Int /\ b \in BalanceRow /\ b.free + b.locked = h
  <2>1. h \in Int /\ l \in Int /\ d \in Int
    BY <1>4, HoldingIs, SignedIs
  <2> HIDE DEF h, l
  <2> QED BY <2>1 DEF BalanceRow
<1>6. Holding(ord)' = h /\ (n = 0 => Holding(ord) = h)
  <2>1. Holding(ord)' = h
    BY <1>1, <1>2, Zenon DEF Holding, Signed, Buys
  <2>2. n = 0 => ord'.filled = ord.filled
    BY <1>4
  <2> QED BY <2>1, <2>2 DEF Holding
<1>7. /\ new["orders"] = <<ord'>>
      /\ new["usertrades"] = IF market = "perp" /\ n > 0 THEN <<d>> ELSE <<>>
      /\ new["positions"] = IF market = "perp" /\ n > 0 THEN <<h>> ELSE <<>>
      /\ new["balances"] = IF market = "spot" THEN <<b>> ELSE <<>>
  BY <1>3, ReportIs
<1>8. /\ rows' = [c \in Channels |-> IF Served(c) THEN rows[c] \o new[c] ELSE rows[c]]
      /\ \A c \in Channels : Served(c) => Len(rows[c]) + Len(new[c]) <= FrameCap
      /\ lost' = (lost \/ \E c \in Channels : new[c] # <<>> /\ ~Served(c))
  BY DEF Push
<1> HIDE DEF new, h, l, b, d
<1>9. /\ rows["orders"] \in Seq(KeptOrders) /\ rows["usertrades"] \in Seq(Int) /\ rows["positions"] \in Seq(Int)
      /\ rows["balances"] \in Seq(BalanceRow) /\ \A c \in Channels : Len(rows[c]) <= FrameCap
      /\ IF market = "perp" THEN rows["balances"] = <<>> ELSE rows["usertrades"] = <<>> /\ rows["positions"] = <<>>
      /\ userCh \in Seq(UserEvents) /\ Len(userCh) <= UserCap
      /\ shown \in Views \cup {NoOrder} /\ traded \in Int /\ held \in Int
  BY DEF ClientIInv, Queues
<1>10. /\ new["orders"] \in Seq(KeptOrders) /\ new["usertrades"] \in Seq(Int) /\ new["positions"] \in Seq(Int)
       /\ new["balances"] \in Seq(BalanceRow)
  BY <1>3, <1>5, <1>7
<1>11. "orders" \in Channels /\ "usertrades" \in Channels /\ "positions" \in Channels /\ "balances" \in Channels
  BY DEF Channels
<1>12. Queues'
  <2>1. rows'["orders"] \in Seq(KeptOrders)
    BY <1>8, <1>9, <1>10, <1>11
  <2>2. rows'["usertrades"] \in Seq(Int)
    BY <1>8, <1>9, <1>10, <1>11
  <2>3. rows'["positions"] \in Seq(Int)
    BY <1>8, <1>9, <1>10, <1>11
  <2>4. rows'["balances"] \in Seq(BalanceRow)
    BY <1>8, <1>9, <1>10, <1>11
  <2>5. ASSUME NEW c \in Channels
        PROVE Len(rows'[c]) <= FrameCap
    <3>1. \E T : rows[c] \in Seq(T) /\ \E U : new[c] \in Seq(U)
      <4>1. c \in {"orders", "usertrades", "positions", "balances"}
        BY DEF Channels
      <4> QED BY <1>9, <1>10, <4>1
    <3>2. Len(rows[c] \o new[c]) = Len(rows[c]) + Len(new[c])
      BY <3>1
    <3> QED BY <1>8, <1>9, <3>2
  <2>6. DOMAIN rows' = Channels /\ rows' = [c \in Channels |-> rows'[c]]
    BY <1>8
  <2>7. IF market = "perp" THEN rows'["balances"] = <<>> ELSE rows'["usertrades"] = <<>> /\ rows'["positions"] = <<>>
    <3>1. CASE market = "perp"
      <4>1. new["balances"] = <<>> /\ rows["balances"] = <<>>
        BY <1>7, <1>9, <3>1
      <4> QED BY <1>8, <1>11, <3>1, <4>1
    <3>2. CASE market = "spot"
      <4>1. /\ new["usertrades"] = <<>> /\ rows["usertrades"] = <<>>
            /\ new["positions"] = <<>> /\ rows["positions"] = <<>>
        BY <1>7, <1>9, <3>2
      <4> QED BY <1>8, <1>11, <3>2, <4>1
    <3> QED BY <1>3, <3>1, <3>2
  <2> QED BY <1>1, <1>2, <1>9, <2>1, <2>2, <2>3, <2>4, <2>5, <2>6, <2>7 DEF Queues
<1>13. OrderIs'
  BY <1>1, <1>2, <1>3, <1>4 DEF OrderIs
<1>14. ASSUME ~lost'
       PROVE /\ ~lost /\ rows'["orders"] = Append(rows["orders"], ord')
             /\ market = "perp" /\ n > 0 => /\ rows'["usertrades"] = Append(rows["usertrades"], d)
                                           /\ rows'["positions"] = Append(rows["positions"], h)
             /\ market = "perp" /\ n = 0 => /\ rows'["usertrades"] = rows["usertrades"]
                                           /\ rows'["positions"] = rows["positions"]
             /\ market = "spot" => rows'["balances"] = Append(rows["balances"], b)
  <2>1. ~lost /\ \A c \in Channels : rows'[c] = rows[c] \o new[c] \/ (new[c] = <<>> /\ rows'[c] = rows[c])
    BY <1>8, <1>14
  <2>2. rows'["orders"] = Append(rows["orders"], ord')
    <3>1. rows["orders"] \o <<ord'>> = Append(rows["orders"], ord') /\ <<ord'>> # <<>>
      BY <1>3, <1>9, OneMore
    <3> QED BY <1>7, <1>11, <2>1, <3>1
  <2>3. ASSUME market = "perp", n > 0
        PROVE rows'["usertrades"] = Append(rows["usertrades"], d) /\ rows'["positions"] = Append(rows["positions"], h)
    <3>1. new["usertrades"] = <<d>> /\ new["positions"] = <<h>>
      BY <1>7, <2>3
    <3>2. /\ rows["usertrades"] \o <<d>> = Append(rows["usertrades"], d) /\ <<d>> # <<>>
          /\ rows["positions"] \o <<h>> = Append(rows["positions"], h) /\ <<h>> # <<>>
      BY <1>5, <1>9, OneMore
    <3> QED BY <1>11, <2>1, <3>1, <3>2
  <2>4. ASSUME market = "perp", n = 0
        PROVE rows'["usertrades"] = rows["usertrades"] /\ rows'["positions"] = rows["positions"]
    <3>1. new["usertrades"] = <<>> /\ new["positions"] = <<>>
      BY <1>7, <2>4
    <3>2. rows["usertrades"] \o <<>> = rows["usertrades"] /\ rows["positions"] \o <<>> = rows["positions"]
      BY <1>9
    <3> QED BY <1>11, <2>1, <3>1, <3>2
  <2>5. ASSUME market = "spot"
        PROVE rows'["balances"] = Append(rows["balances"], b)
    <3>1. new["balances"] = <<b>>
      BY <1>7, <2>5
    <3>2. rows["balances"] \o <<b>> = Append(rows["balances"], b) /\ <<b>> # <<>>
      BY <1>5, <1>9, OneMore
    <3> QED BY <1>11, <2>1, <3>1, <3>2
  <2> QED BY <2>1, <2>2, <2>3, <2>4, <2>5
<1>15. OrderTold'
  <2>1. ASSUME ~lost'
        PROVE rows'["orders"] # <<>> /\ rows'["orders"][Len(rows'["orders"])] = ord'
    BY <1>9, <1>14, <2>1
  <2> QED BY <2>1 DEF OrderTold, Newest
<1>16. TradesTold'
  <2> SUFFICES ASSUME ~lost', market = "perp"
               PROVE LeadsTo(Untraded, traded, Signed(ord.filled))'
    BY <1>1 DEF TradesTold
  <2>1. LeadsTo(Untraded, traded, Signed(ord.filled))
    BY <1>14 DEF ClientIInv, TradesTold
  <2>2. Signed(ord.filled)' = Signed(ord'.filled) /\ Signed(ord.filled) \in Int
    <3>1. Signed(ord.filled) \in Int
      BY <1>4, SignedIs
    <3> QED BY <1>1, <3>1, Zenon DEF Signed, Buys
  <2>3. CASE n = 0
    <3>1. Untraded' = Untraded
      BY <1>1, <1>14, <2>3, Zenon DEF Untraded, Changes
    <3>2. ord'.filled = ord.filled
      BY <1>4, <2>3
    <3> QED BY <1>1, <2>1, <2>2, <3>1, <3>2
  <2>4. CASE n > 0
    <3> DEFINE u == Changes(userCh)
    <3>1. u \in Seq(Int) /\ Untraded \in Seq(Int)
      BY UntradedIs DEF ClientIInv
    <3>2. Untraded = u \o rows["usertrades"] /\ Untraded' = u \o rows'["usertrades"]
      BY <1>1, Zenon DEF Untraded, Changes
    <3>3. rows'["usertrades"] = Append(rows["usertrades"], d)
      BY <1>14, <2>4
    <3> HIDE DEF u
    <3>4. Untraded' = Append(Untraded, d)
      <4>1. u \o Append(rows["usertrades"], d) = Append(u \o rows["usertrades"], d)
        BY <1>5, <1>9, <3>1, OneMoreAfter
      <4> QED BY <3>2, <3>3, <4>1
    <3>5. Signed(ord'.filled) = Signed(ord.filled) + d
      BY <1>4 DEF Signed, d
    <3>6. LeadsTo(Append(Untraded, d), traded, Signed(ord.filled) + d)
      BY <1>5, <2>1, <2>2, <3>1, LeadsAppend
    <3> QED BY <1>1, <2>2, <3>4, <3>5, <3>6
  <2> QED BY <2>3, <2>4
<1>17. PositionTold'
  <2> SUFFICES ASSUME ~lost', market = "perp", ord'.filled > 0
               PROVE Newest("positions", rows'["positions"], userCh', {h}, ToldHolding(h), held' = h)
    BY <1>1, <1>6 DEF PositionTold
  <2>1. CASE n > 0
    <3>1. rows'["positions"] # <<>> /\ rows'["positions"][Len(rows'["positions"])] = h
      BY <1>5, <1>9, <1>14, <2>1
    <3> QED BY <3>1 DEF Newest
  <2>2. CASE n = 0
    <3>1. rows'["positions"] = rows["positions"] /\ Holding(ord) = h /\ ord.filled > 0 /\ ~lost
      BY <1>4, <1>6, <1>14, <2>2
    <3>2. Newest("positions", rows["positions"], userCh, {h}, ToldHolding(h), held = h)
      BY <3>1 DEF ClientIInv, PositionTold
    <3> QED BY <1>1, <3>1, <3>2
  <2> QED BY <2>1, <2>2
<1>18. BalanceTold'
  <2> SUFFICES ASSUME ~lost', market = "spot"
               PROVE Newest("balances", rows'["balances"], userCh', {r \in BalanceRow : r.free + r.locked = h},
                            ToldTotal(h), held' = h)
    BY <1>1, <1>6 DEF BalanceTold
  <2>1. rows'["balances"] # <<>> /\ rows'["balances"][Len(rows'["balances"])] = b
    BY <1>5, <1>9, <1>14
  <2> QED BY <1>5, <2>1 DEF Newest
<1> QED BY <1>3, <1>12, <1>13, <1>15, <1>16, <1>17, <1>18 DEF ClientIInv

\* The order as it is placed.
LEMMA PlacedIs ==
  ASSUME NEW r \in Requests, req' = r, market' = market, market \in {"perp", "spot"}, Placeable(r),
         ord' = IF market = "perp" THEN PerpOrder(r) ELSE SpotOrder(r)
  PROVE ord' \in KeptOrders' /\ ord'.filled = 0
<1>1. /\ r.side \in {"Buy", "Sell"} /\ r.type \in {"Market", "Limit"} /\ r.size = Size /\ r.quote = 2 * Size
      /\ r.price \in Nat /\ r.id \in Ids /\ Size \in Nat /\ Size > 0 /\ ExchangeId \in Nat
  BY SessionAssumption DEF Spot!Rate
<1>2. normalizeGateOrderText(r.id) \in Tags
  BY <1>1 DEF Tags
<1>3. mapTIF(r.tif) \in {"ioc", "fok", "poc", "gtc"}
  BY DEF mapTIF
<1>4. Placed \in Int /\ Placed \in Placed .. Placed + 0 + 1 /\ Placed <= Placed + 0
  BY DEF Placed
<1>5. CASE market = "perp"
  <2> DEFINE fo == Perp!Place(r)
  <2>1. /\ fo.size = IF r.side = "Sell" THEN -r.size ELSE r.size
        /\ fo.price = IF r.type = "Market" THEN 0 ELSE r.price
        /\ fo.tif = IF r.type = "Market" THEN "ioc" ELSE mapTIF(r.tif)
    BY Zenon DEF Perp!Place, Perp!gateOrderSizeString, Perp!mapTIF, mapTIF
  <2>2. fo.text = normalizeGateOrderText(r.id)
    BY Zenon DEF Perp!Place, Perp!normalizeGateOrderText, normalizeGateOrderText, Perp!Long, Long
  <2> HIDE DEF fo
  <2>3. fo.size \in Int /\ fo.price \in Int /\ fo.tif \in {"ioc", "fok", "poc", "gtc"}
    BY <1>1, <1>3, <2>1
  <2> DEFINE o == PerpOrder(r)
  <2>4. o = [id |-> ExchangeId, contract |-> Btc, side |-> Empty, type |-> Empty, size |-> fo.size, left |-> fo.size,
                filled |-> 0, price |-> fo.price, tif |-> fo.tif, text |-> fo.text,
                status |-> "open", finish |-> Empty, created |-> Placed, updated |-> Placed]
    BY DEF PerpOrder, fo, Empty
  <2> HIDE DEF o
  <2>5. o \in OrderRow
    <3>1. fo.text \in Tags /\ 0 \in 0 .. Size /\ Empty \in {Empty} \cup Finishes
      BY <1>1, <1>2, <2>2
    <3> QED BY <1>4, <2>3, <3>1, <2>4 DEF OrderRow
  <2>6. Signed(Size)' = fo.size /\ Unit(0)' = 0
    <3>1. Signed(Size)' = (IF r.side = "Buy" THEN Size ELSE -Size) /\ Unit(0)' = (IF r.side = "Buy" THEN 0 ELSE -0)
      BY <1>5, Zenon DEF Signed, Buys, Unit
    <3> QED BY <1>1, <2>1, <3>1
  <2>7. /\ o.text = normalizeGateOrderText(r.id) /\ o.updated = Placed /\ o.filled = 0 /\ o.status = "open"
        /\ o.left = fo.size /\ o.size = fo.size /\ o.price = fo.price /\ o.tif = fo.tif
    BY <2>2, <2>4
  <2>8. ord' = o
    BY <1>5 DEF o
  <2>9. Kept(ord)'
    BY <1>1, <1>4, <2>8, <2>3, <2>5, <2>6, <2>7 DEF Kept
  <2>10. KeptPerp(ord)'
    BY <2>8, <2>1, <2>6, <2>7 DEF KeptPerp
  <2> QED BY <1>5, <2>8, <2>5, <2>7, <2>9, <2>10 DEF KeptOrders, OrderKept
<1>6. CASE market = "spot"
  <2> DEFINE fo == Spot!buildGateOrder(r)
  <2>1. /\ fo.side = Spot!mapGateSide(r.side) /\ fo.type = IF r.type = "Market" THEN "market" ELSE "limit"
        /\ fo.amount = IF r.type = "Market" /\ r.side = "Buy" THEN r.quote ELSE r.size
        /\ fo.price = IF r.type = "Market" THEN Blank ELSE r.price
        /\ fo.tif = IF r.type = "Market" THEN "ioc" ELSE mapTIF(r.tif)
    BY Zenon DEF Spot!buildGateOrder, Spot!mapTIF, mapTIF
  <2>2. fo.text = normalizeGateOrderText(r.id)
    BY Zenon DEF Spot!buildGateOrder, Spot!normalizeGateOrderText, normalizeGateOrderText, Spot!Long, Long
  <2> HIDE DEF fo
  <2>3. /\ fo.side \in {"buy", "sell"} /\ fo.type \in {"market", "limit"} /\ fo.amount \in Int
        /\ fo.price \in Int \cup {Blank} /\ fo.tif \in {"ioc", "fok", "poc", "gtc"}
    BY <1>1, <1>3, <2>1 DEF Spot!mapGateSide
  <2> DEFINE o == SpotOrder(r)
  <2>4. o = [id |-> ExchangeId, contract |-> Btc, side |-> fo.side, type |-> fo.type, size |-> fo.amount,
                left |-> fo.amount, filled |-> 0, price |-> fo.price, tif |-> fo.tif, text |-> fo.text,
                status |-> "open", finish |-> Empty, created |-> Placed, updated |-> Placed]
    BY DEF SpotOrder, fo, Empty
  <2> HIDE DEF o
  <2>5. o \in OrderRow
    <3>1. fo.text \in Tags /\ 0 \in 0 .. Size /\ Empty \in {Empty} \cup Finishes
      BY <1>1, <1>2, <2>2
    <3> QED BY <1>4, <2>3, <3>1, <2>4 DEF OrderRow
  <2>6. /\ Unit(0)' = 0
        /\ MarketBuy' = (r.type = "Market" /\ r.side = "Buy")
    <3>1. Unit(0)' \in {0 * Spot!Rate, 0}
      BY <1>6, Zenon DEF Unit
    <3> QED BY <3>1 DEF MarketBuy, Buys, Spot!Rate
  <2>7. /\ o.text = normalizeGateOrderText(r.id) /\ o.updated = Placed /\ o.filled = 0 /\ o.status = "open"
        /\ o.left = fo.amount /\ o.size = fo.amount /\ o.price = fo.price /\ o.tif = fo.tif
        /\ o.side = fo.side /\ o.type = fo.type
    BY <2>2, <2>4
  <2>8. ord' = o
    BY <1>6 DEF o
  <2>9. Kept(ord)'
    BY <1>1, <1>4, <2>8, <2>3, <2>5, <2>6, <2>7 DEF Kept
  <2>10. KeptSpot(ord)'
    <3>1. /\ "open" \in {"open", "closed", "cancelled"} /\ ("open" = "closed" <=> 0 = Size)
          /\ fo.amount = IF MarketBuy' THEN r.quote ELSE r.size
      <4>1. 0 # Size
        BY <1>1
      <4>2. fo.amount = IF MarketBuy' THEN r.quote ELSE r.size
        BY <2>1, <2>6, Zenon
      <4> QED BY <4>1, <4>2, Zenon
    <3>2. /\ ord'.side = Spot!mapGateSide(req'.side)
          /\ ord'.type = IF req'.type = "Market" THEN "market" ELSE "limit"
      BY <2>8, <2>1, <2>7, Zenon
    <3>3. ord'.size = IF MarketBuy' THEN req'.quote ELSE req'.size
      BY <2>8, <2>7, <3>1, Zenon
    <3>4. ord'.price = IF req'.type = "Market" THEN Blank ELSE req'.price
      BY <2>8, <2>1, <2>7, Zenon
    <3>5. ord'.status \in {"open", "closed", "cancelled"} /\ (ord'.status = "closed" <=> ord'.filled = Size)
      BY <2>8, <2>7, <3>1, Zenon
    <3> QED BY <3>2, <3>3, <3>4, <3>5, Zenon DEF KeptSpot
  <2> QED BY <1>6, <2>8, <2>5, <2>7, <2>9, <2>10 DEF KeptOrders, OrderKept
<1> QED BY <1>5, <1>6

\* No kept order is NoOrder.
LEMMA KeptIsOrder ==
  ASSUME NEW o, o \in OrderRow
  PROVE o # NoOrder
<1>1. o.status \in {"open", "finished", "closed", "cancelled"}
  BY DEF OrderRow
<1> QED BY <1>1 DEF NoOrder

\* The order is placed: its row is the first.
LEMMA PlaceStep ==
  ASSUME ClientIInv, NEW r \in Requests, Place(r)
  PROVE ClientIInv'
<1>1. /\ ord = NoOrder /\ Placeable(r) /\ req' = r /\ ord' = IF market = "perp" THEN PerpOrder(r) ELSE SpotOrder(r)
      /\ market' = market /\ UNCHANGED <<conn, reader, activeSubs, server, closing, cuts>>
      /\ stopper' = stopper /\ userCh' = userCh /\ shown' = shown /\ traded' = traded /\ held' = held
  BY DEF Place, session, caller
<1>2. /\ rows = Nothing /\ userCh = <<>> /\ traded = 0 /\ stopper = NoRequest
      /\ shown \in Views \cup {NoOrder} /\ held \in Int
  BY <1>1 DEF ClientIInv, OrderIs, Queues
<1>3. Sessions' /\ market \in {"perp", "spot"}
  BY <1>1 DEF ClientIInv, Sessions
<1>4. ord' \in KeptOrders' /\ ord'.filled = 0
  BY <1>1, <1>3, PlacedIs
<1>5. ord' # NoOrder
  BY <1>4, KeptIsOrder DEF KeptOrders
<1> DEFINE o == ord'
           new == [Nothing EXCEPT !["orders"] = <<o>>]
<1>6. /\ rows' = [c \in Channels |-> IF Served(c) THEN rows[c] \o new[c] ELSE rows[c]]
      /\ lost' = (lost \/ \E c \in Channels : new[c] # <<>> /\ ~Served(c))
  BY DEF Place, Push
<1> HIDE DEF o
<1>7. new["orders"] = <<o>> /\ \A c \in Channels \ {"orders"} : new[c] = <<>>
  BY DEF Nothing, Channels
<1>8. \A c \in Channels : rows[c] = <<>>
  BY <1>2 DEF Nothing
<1> HIDE DEF new
<1>9. "orders" \in Channels /\ "usertrades" \in Channels /\ "positions" \in Channels /\ "balances" \in Channels
  BY DEF Channels
<1>10. <<o>> # <<>> /\ <<>> \o <<o>> = <<o>>
  OBVIOUS
<1>11. rows'["orders"] \in {<<>>, <<o>>} /\ (~lost' => rows'["orders"] = <<o>>)
  BY <1>6, <1>7, <1>8, <1>9, <1>10
<1>12. \A c \in Channels \ {"orders"} : rows'[c] = <<>>
  BY <1>6, <1>7, <1>8
<1>13. OrderIs'
  BY <1>1, <1>2, <1>4, <1>5 DEF OrderIs, Placeable
<1>14. Queues'
  <2>1. rows'["orders"] \in Seq(KeptOrders')
    <3>1. <<o>> \in Seq(KeptOrders') /\ <<>> \in Seq(KeptOrders')
      <4>1. o \in KeptOrders'
        BY <1>4 DEF o
      <4> QED BY <4>1
    <3> QED BY <1>11, <3>1
  <2>2. rows'["usertrades"] = <<>> /\ rows'["positions"] = <<>> /\ rows'["balances"] = <<>>
    BY <1>9, <1>12
  <2>3. \A c \in Channels : Len(rows'[c]) <= FrameCap
    <3> TAKE c \in Channels
    <3>1. rows'[c] = <<>> \/ rows'[c] = <<o>>
      BY <1>11, <1>12
    <3>2. Len(<<>>) = 0 /\ Len(<<o>>) = 1
      OBVIOUS
    <3>3. FrameCap >= 1 /\ FrameCap >= 0
      BY BoundsAssumption
    <3>4. Len(rows'[c]) = 0 \/ Len(rows'[c]) = 1
      BY <3>1, <3>2
    <3> QED BY <3>3, <3>4
  <2>4. DOMAIN rows' = Channels /\ rows' = [c \in Channels |-> rows'[c]]
    BY <1>6
  <2>5. Len(userCh) <= UserCap
    BY <1>2, BoundsAssumption
  <2> QED BY <1>1, <1>2, <2>1, <2>2, <2>3, <2>4, <2>5 DEF Queues
<1>15. OrderTold'
  <2>1. ASSUME ~lost'
        PROVE rows'["orders"] # <<>> /\ rows'["orders"][Len(rows'["orders"])] = o
    BY <1>11, <2>1
  <2> QED BY <2>1 DEF OrderTold, Newest, o
<1>16. TradesTold'
  <2>1. Untraded' = <<>>
    <3>1. rows'["usertrades"] = <<>>
      BY <1>9, <1>12
    <3>2. userCh' = <<>>
      BY <1>1, <1>2
    <3> QED BY <3>1, <3>2 DEF Untraded, Changes
  <2>2. Signed(ord.filled)' = 0
    <3>1. Signed(ord.filled)' = 0 \/ Signed(ord.filled)' = -0
      BY <1>4, Zenon DEF Signed
    <3> QED BY <3>1, MinusZero, Zenon
  <2>3. LeadsTo(<<>>, 0, 0)
    <3> DEFINE p == [i \in 0 .. 0 |-> 0]
    <3>1. p \in [0 .. 0 -> Int] /\ p[0] = 0 /\ Len(<<>>) = 0
      OBVIOUS
    <3> HIDE DEF p
    <3>2. \E x \in [0 .. Len(<<>>) -> Int] :
            x[0] = 0 /\ x[Len(<<>>)] = 0 /\ \A i \in 1 .. Len(<<>>) : x[i] = x[i - 1] + <<>>[i]
      BY <3>1
    <3> QED BY <3>2, Zenon DEF LeadsTo
  <2> QED BY <1>1, <1>2, <2>1, <2>2, <2>3 DEF TradesTold
<1>17. PositionTold' /\ BalanceTold'
  BY <1>4 DEF PositionTold, BalanceTold
<1> QED BY <1>3, <1>13, <1>14, <1>15, <1>16, <1>17 DEF ClientIInv

\* The exchange ends an order before it is all traded.
LEMMA FinishedIs ==
  ASSUME ord \in KeptOrders, market \in {"perp", "spot"}, ord.status = "open",
         NEW finish \in {"ioc", "cancelled", "liquidated", "reduce_only", "stp"},
         market = "perp" => finish # "stp"
  PROVE Finished(finish) \in KeptOrders /\ Finished(finish).filled = ord.filled
<1> DEFINE o == Finished(finish)
           status == IF market = "perp" THEN "finished" ELSE "cancelled"
<1>1. Kept(ord) /\ ord \in OrderRow
  BY DEF KeptOrders, OrderKept
<1>2. ord.updated \in Int /\ ord.filled \in Nat /\ ord.filled < Size /\ Size \in Nat
  BY <1>1, KeptIs DEF Kept
<1>3. o = [ord EXCEPT !.status = status, !.finish = finish, !.updated = ord.updated + 1]
  BY Zenon DEF Finished
<1>4. status \in {"open", "finished", "closed", "cancelled"} /\ finish \in {Empty} \cup Finishes /\ ord.updated + 1 \in Int
  BY <1>2 DEF Finishes
<1>5. o \in OrderRow
  <2> HIDE DEF o, status
  <2> QED BY <1>1, <1>3, <1>4 DEF OrderRow
<1>6. /\ o.status = status /\ o.finish = finish /\ o.updated = ord.updated + 1
      /\ o.filled = ord.filled /\ o.left = ord.left /\ o.size = ord.size /\ o.text = ord.text
      /\ o.price = ord.price /\ o.tif = ord.tif /\ o.side = ord.side /\ o.type = ord.type
  <2> HIDE DEF o, status
  <2> QED BY <1>1, <1>3 DEF OrderRow
<1> HIDE DEF o
<1>7. Kept(o)
  <2>1. o.text = normalizeGateOrderText(req.id) /\ o.left = o.size - Unit(o.filled)
    BY <1>1, <1>6 DEF Kept
  <2>2. ord.updated \in Placed .. Placed + ord.filled + 1 /\ ord.updated <= Placed + ord.filled
    BY <1>1 DEF Kept
  <2>3. o.updated \in Placed .. Placed + o.filled + 1
    BY <1>2, <1>6, <2>2 DEF Placed
  <2>4. o.status # "open"
    BY <1>6
  <2> QED BY <1>5, <2>1, <2>3, <2>4 DEF Kept
<1>8. CASE market = "perp"
  <2>1. KeptPerp(ord)
    BY <1>8 DEF KeptOrders, OrderKept
  <2>2. o.status = "finished" /\ o.finish \in {"ioc", "cancelled", "liquidated", "reduce_only"} /\ o.filled # Size
    BY <1>2, <1>6, <1>8
  <2>3. KeptPerp(o)
    BY <1>6, <2>1, <2>2 DEF KeptPerp
  <2> QED BY <1>5, <1>6, <1>7, <1>8, <2>3 DEF KeptOrders, OrderKept, o
<1>9. CASE market = "spot"
  <2>1. KeptSpot(ord)
    BY <1>9 DEF KeptOrders, OrderKept
  <2>2. o.status = "cancelled" /\ o.filled # Size
    BY <1>2, <1>6, <1>9
  <2>3. KeptSpot(o)
    BY <1>6, <2>1, <2>2 DEF KeptSpot
  <2> QED BY <1>5, <1>6, <1>7, <1>9, <2>3 DEF KeptOrders, OrderKept, o
<1> QED BY <1>8, <1>9

\* A trade of part of an open order.
LEMMA FilledIs ==
  ASSUME ord \in KeptOrders, market \in {"perp", "spot"}, ord.status = "open", req \in Requests,
         NEW as \in {"filled", "ioc"}, NEW n \in 1 .. Size - ord.filled, NEW o,
         LET left == ord.left - Unit(n)
             filled == [ord EXCEPT !.left = left, !.filled = @ + n, !.updated = @ + 1]
         IN  o = IF left # 0 THEN filled
                 ELSE [filled EXCEPT !.status = IF market = "perp" THEN "finished" ELSE "closed", !.finish = as]
  PROVE o \in KeptOrders /\ o.filled = ord.filled + n
<1> DEFINE left == ord.left - Unit(n)
           fd == [ord EXCEPT !.left = left, !.filled = @ + n, !.updated = @ + 1]
           status == IF market = "perp" THEN "finished" ELSE "closed"
<1>1. Kept(ord) /\ ord \in OrderRow
  BY DEF KeptOrders, OrderKept
<1>2. /\ ord.updated \in Int /\ ord.filled \in Nat /\ ord.left \in Int /\ ord.size \in Int /\ Size \in Nat /\ n \in Nat /\ n > 0
      /\ ord.filled + n \in 0 .. Size /\ ord.left = ord.size - Unit(ord.filled)
      /\ ord.updated \in Placed .. Placed + ord.filled + 1 /\ ord.updated <= Placed + ord.filled
  <2>1. /\ ord.updated \in Placed .. Placed + ord.filled + 1 /\ ord.updated <= Placed + ord.filled
        /\ ord.left = ord.size - Unit(ord.filled)
    BY <1>1 DEF Kept
  <2>2. ord.filled \in Nat /\ ord.left \in Int /\ ord.size \in Int /\ Size \in Nat
    BY <1>1, KeptIs
  <2> QED BY <2>1, <2>2 DEF Placed
<1>3. /\ Unit(n) \in Int /\ Unit(ord.filled) \in Int /\ Unit(ord.filled + n) = Unit(ord.filled) + Unit(n)
      /\ ord.size - Unit(ord.filled + n) = 0 <=> ord.filled + n = Size
  <2>1. CASE market = "perp"
    <3>1. ord.size = Signed(Size)
      BY <2>1 DEF KeptOrders, OrderKept, KeptPerp
    <3> QED BY <1>2, <2>1, <3>1 DEF Unit, Signed
  <2>2. CASE market = "spot"
    <3>1. ord.size = IF MarketBuy THEN 2 * Size ELSE Size
      <4>1. req.quote = 2 * Size /\ req.size = Size
        BY RequestIs
      <4> QED BY <2>2, <4>1 DEF KeptOrders, OrderKept, KeptSpot
    <3> QED BY <1>2, <2>2, <3>1 DEF Unit, Spot!Rate
  <2> QED BY <2>1, <2>2
<1>4. left \in Int /\ left = ord.size - Unit(ord.filled + n)
  BY <1>2, <1>3
<1>5. o = IF left # 0 THEN fd ELSE [fd EXCEPT !.status = status, !.finish = as]
  BY Zenon
<1> HIDE DEF left
<1>6. /\ fd \in OrderRow /\ fd.left = left /\ fd.filled = ord.filled + n /\ fd.updated = ord.updated + 1
      /\ fd.size = ord.size /\ fd.text = ord.text /\ fd.price = ord.price /\ fd.tif = ord.tif /\ fd.side = ord.side
      /\ fd.type = ord.type /\ fd.status = "open" /\ fd.finish = ord.finish
  <2>1. fd = [ord EXCEPT !.left = left, !.filled = ord.filled + n, !.updated = ord.updated + 1]
    BY Zenon
  <2>2. ord.updated + 1 \in Int
    BY <1>2
  <2> HIDE DEF fd
  <2> QED BY <1>1, <1>2, <1>4, <2>1, <2>2 DEF OrderRow
<1>7. status \in {"open", "finished", "closed", "cancelled"} /\ as \in {Empty} \cup Finishes
  BY DEF Finishes
<1> HIDE DEF fd, status
<1>8. /\ o \in OrderRow /\ o.left = left /\ o.filled = ord.filled + n /\ o.updated = ord.updated + 1
      /\ o.size = ord.size /\ o.text = ord.text /\ o.price = ord.price /\ o.tif = ord.tif /\ o.side = ord.side
      /\ o.type = ord.type
      /\ IF left # 0 THEN o.status = "open" ELSE o.status = status /\ o.finish = as
  <2>1. CASE left # 0
    BY <1>5, <1>6, <2>1
  <2>2. CASE left = 0
    <3>1. o = [fd EXCEPT !.status = status, !.finish = as]
      BY <1>5, <2>2
    <3>2. o \in OrderRow
      BY <1>6, <1>7, <3>1 DEF OrderRow
    <3>3. /\ o.left = fd.left /\ o.filled = fd.filled /\ o.updated = fd.updated
          /\ o.size = fd.size /\ o.text = fd.text /\ o.price = fd.price /\ o.tif = fd.tif /\ o.side = fd.side
          /\ o.type = fd.type /\ o.status = status /\ o.finish = as
      BY <1>6, <3>1 DEF OrderRow
    <3> QED BY <1>6, <2>2, <3>2, <3>3
  <2> QED BY <2>1, <2>2
<1>9. Kept(o)
  <2>1. o.text = normalizeGateOrderText(req.id)
    BY <1>1, <1>8 DEF Kept
  <2>2. o.left = o.size - Unit(o.filled)
    BY <1>4, <1>8
  <2>3. o.updated \in Placed .. Placed + o.filled + 1 /\ o.updated <= Placed + o.filled
    BY <1>2, <1>8 DEF Placed
  <2>4. o.status = "open" => o.filled < Size
    <3>1. left = 0 => o.status # "open"
      BY <1>8 DEF status
    <3> QED BY <1>2, <1>3, <1>4, <1>8, <3>1
  <2> QED BY <1>8, <2>1, <2>2, <2>3, <2>4 DEF Kept
<1>10. CASE market = "perp"
  <2>1. KeptPerp(ord)
    BY <1>10 DEF KeptOrders, OrderKept
  <2>2. o.status \in {"open", "finished"} /\ (o.status = "finished" => o.finish = as /\ o.filled = Size)
    BY <1>3, <1>4, <1>8, <1>10 DEF status
  <2>3. KeptPerp(o)
    BY <1>8, <2>1, <2>2 DEF KeptPerp
  <2> QED BY <1>8, <1>9, <1>10, <2>3 DEF KeptOrders, OrderKept
<1>11. CASE market = "spot"
  <2>1. KeptSpot(ord)
    BY <1>11 DEF KeptOrders, OrderKept
  <2>2. o.status \in {"open", "closed"} /\ (o.status = "closed" <=> o.filled = Size)
    BY <1>3, <1>4, <1>8, <1>11 DEF status
  <2>3. KeptSpot(o)
    BY <1>8, <2>1, <2>2 DEF KeptSpot
  <2> QED BY <1>8, <1>9, <1>11, <2>3 DEF KeptOrders, OrderKept
<1> QED BY <1>8, <1>10, <1>11

\* What holds of an open order.
LEMMA OpenIs ==
  ASSUME ClientIInv, Open
  PROVE /\ ord # NoOrder /\ ord.status = "open" /\ ord \in KeptOrders /\ req \in Requests
        /\ market \in {"perp", "spot"}
        /\ stopper # NoRequest => stopper \in Ids /\ normalizeGateOrderText(stopper) = ord.text
BY DEF ClientIInv, Open, OrderIs, Sessions

\* Part of the order is traded.
LEMMA FillStep ==
  ASSUME ClientIInv, NEW n \in 1 .. Size, NEW as \in {"filled", "ioc"}, Fill(n, as)
  PROVE ClientIInv'
<1> DEFINE left == ord.left - Unit(n)
           filled == [ord EXCEPT !.left = left, !.filled = @ + n, !.updated = @ + 1]
           o == IF left # 0 THEN filled
                ELSE [filled EXCEPT !.status = IF market = "perp" THEN "finished" ELSE "closed", !.finish = as]
<1>1. /\ Open /\ n \in 1 .. Size - ord.filled /\ ord' = o /\ Push(Report(ord', n))
      /\ UNCHANGED <<market, session, req, stopper, userCh, caller>>
  BY Zenon DEF Fill
<1>2. o \in KeptOrders /\ o.filled = ord.filled + n
  <2> HIDE DEF o
  <2>1. /\ ord.status = "open" /\ ord \in KeptOrders /\ req \in Requests /\ market \in {"perp", "spot"}
    BY <1>1, OpenIs
  <2> QED BY <1>1, <2>1, FilledIs, Zenon DEF o
<1> HIDE DEF o
<1>3. o # NoOrder
  BY <1>2, KeptIsOrder DEF KeptOrders
<1>4. stopper' # NoRequest => stopper' \in Ids /\ normalizeGateOrderText(stopper') = ord.text
  BY <1>1, OpenIs
<1>5. ord # NoOrder /\ n \in Nat
  BY <1>1, OpenIs, SessionAssumption
<1> QED BY <1>1, <1>2, <1>3, <1>4, <1>5, ReportStep

\* The exchange or the caller ends the order.
LEMMA EndStep ==
  ASSUME ClientIInv, Open, NEW finish \in {"ioc", "cancelled", "liquidated", "reduce_only", "stp"},
         market = "perp" => finish # "stp",
         ord' = Finished(finish), Push(Report(ord', 0)), UNCHANGED <<market, session, req, userCh, caller>>,
         stopper' # NoRequest => stopper' \in Ids /\ normalizeGateOrderText(stopper') = ord.text
  PROVE ClientIInv'
<1> DEFINE o == Finished(finish)
<1>1. ord # NoOrder /\ ord.status = "open" /\ ord \in KeptOrders /\ market \in {"perp", "spot"}
  BY OpenIs
<1>2. o \in KeptOrders /\ o.filled = ord.filled
  BY <1>1, FinishedIs
<1>3. ord' = o
  OBVIOUS
<1> HIDE DEF o
<1>4. o # NoOrder
  BY <1>2, KeptIsOrder DEF KeptOrders
<1>5. ord'.filled = ord.filled + 0 /\ 0 \in Nat
  <2>1. ord.filled \in Nat
    BY <1>1, KeptIs DEF KeptOrders, OrderKept
  <2> QED BY <1>2, <1>3, <2>1
<1> QED BY <1>1, <1>2, <1>3, <1>4, <1>5, ReportStep

\* What the exchange and the caller do to the order.
LEMMA OrderActions ==
  ASSUME ClientIInv,
         \/ \E n \in 1 .. Size, as \in {"filled", "ioc"} : Fill(n, as)
         \/ \E reason \in Reasons : Finish(reason)
         \/ CancelById
         \/ \E id \in Ids : Cancel(id)
         \/ \E r \in Requests : Place(r)
  PROVE ClientIInv'
<1>1. CASE \E n \in 1 .. Size, as \in {"filled", "ioc"} : Fill(n, as)
  BY <1>1, FillStep
<1>2. ASSUME NEW reason \in Reasons, Finish(reason)
      PROVE ClientIInv'
  <2>1. /\ Open /\ ord' = Finished(reason) /\ Push(Report(ord', 0))
        /\ UNCHANGED <<market, session, req, stopper, userCh, caller>>
    BY <1>2, Zenon DEF Finish
  <2>2. reason \in {"ioc", "cancelled", "liquidated", "reduce_only", "stp"} /\ (market = "perp" => reason # "stp")
    BY <1>2 DEF Reasons
  <2>3. stopper' # NoRequest => stopper' \in Ids /\ normalizeGateOrderText(stopper') = ord.text
    BY <2>1, OpenIs
  <2> QED BY <2>1, <2>2, <2>3, EndStep
<1>3. CASE CancelById
  <2>1. /\ Open /\ ord' = Finished("cancelled") /\ Push(Report(ord', 0))
        /\ UNCHANGED <<market, session, req, stopper, userCh, caller>>
    BY <1>3, Zenon DEF CancelById
  <2>2. stopper' # NoRequest => stopper' \in Ids /\ normalizeGateOrderText(stopper') = ord.text
    BY <2>1, OpenIs
  <2> QED BY <2>1, <2>2, EndStep
<1>4. ASSUME NEW id \in Ids, Cancel(id)
      PROVE ClientIInv'
  <2>1. /\ Open /\ ord' = Finished("cancelled") /\ Push(Report(ord', 0))
        /\ UNCHANGED <<market, session, req, userCh, caller>>
        /\ stopper' = id /\ normalizeGateOrderText(id) = ord.text
    BY <1>4, Zenon DEF Cancel
  <2>2. stopper' # NoRequest => stopper' \in Ids /\ normalizeGateOrderText(stopper') = ord.text
    BY <1>4, <2>1
  <2> QED BY <2>1, <2>2, EndStep
<1>5. CASE \E r \in Requests : Place(r)
  BY <1>5, PlaceStep
<1> QED BY <1>1, <1>2, <1>3, <1>4, <1>5

-----------------------------------------------------------------------------
(* Reading a frame *)

\* The rows of a frame that can be decoded are the rows read.
LEMMA FrameIs ==
  ASSUME NEW c, NEW T, rows[c] \in Seq(T), NEW k \in 1 .. Len(rows[c]), NEW bad \in 0 .. k + 1
  PROVE LET good == [i \in 1 .. k |-> [ok |-> TRUE, row |-> rows[c][i]]]
        IN  Perp!Decoded(Frame(c, k, bad)) = good /\ Spot!Decoded(Frame(c, k, bad)) = good
<1> DEFINE q == rows[c]
           f == Frame(c, k, bad)
<1>1. f = FrameOf(q, k, bad)
  BY Zenon DEF Frame, FrameOf
<1>2. q \in Seq(T) /\ k \in 1 .. Len(q)
  OBVIOUS
<1> HIDE DEF f, q
<1>3. Decoded(f) = [i \in 1 .. k |-> [ok |-> TRUE, row |-> q[i]]]
  BY <1>1, <1>2, DecodedIs
<1>4. Perp!Decoded(f) = Decoded(f) /\ Spot!Decoded(f) = Decoded(f)
  BY Zenon DEF Perp!Decoded, Spot!Decoded, Decoded
<1> QED BY <1>3, <1>4, Zenon DEF f, q

\* An event for each row of the orders, as the websocket says it.
LEMMA OrderEventsAre ==
  ASSUME market \in {"perp", "spot"}, NEW T, rows["orders"] \in Seq(T), NEW k \in 1 .. Len(rows["orders"]),
         NEW bad \in 0 .. k + 1, NEW enc, NEW bal
  PROVE Events("orders", Frame("orders", k, bad), enc, bal)
          = [i \in 1 .. k |-> [kind |-> "orders", payload |-> PushView(rows["orders"][i], enc)]]
<1> DEFINE f == Frame("orders", k, bad)
           q == rows["orders"]
           good == [i \in 1 .. k |-> [ok |-> TRUE, row |-> q[i]]]
           told == [i \in 1 .. k |-> PushView(q[i], enc)]
<1>1. Perp!Decoded(f) = good /\ Spot!Decoded(f) = good
  BY FrameIs
<1>2. DOMAIN good = 1 .. k /\ \A i \in 1 .. k : good[i].row = q[i]
  OBVIOUS
<1> HIDE DEF f, q, good
<1>3. Handled("orders", f, enc, bal) = told
  <2>1. CASE market = "perp"
    <3>1. Handled("orders", f, enc, bal) = Perp!handleOrder(f, enc)
      BY <2>1 DEF Handled
    <3>2. Perp!handleOrder(f, enc)
            = [i \in DOMAIN good |-> Perp!orderViewFromFutures(Perp!futuresOrderFromWSElement(good[i].row, enc))]
      BY <1>1, Zenon DEF Perp!handleOrder
    <3>3. \A i \in 1 .. k : Perp!orderViewFromFutures(Perp!futuresOrderFromWSElement(good[i].row, enc)) = PushView(q[i], enc)
      BY <1>2, <2>1, Zenon DEF PushView
    <3> QED BY <1>2, <3>1, <3>2, <3>3, Zenon
  <2>2. CASE market = "spot"
    <3>1. Handled("orders", f, enc, bal) = Spot!handleOrder(f, enc)
      BY <2>2 DEF Handled
    <3>2. Spot!handleOrder(f, enc)
            = [i \in DOMAIN good |-> Spot!orderViewFromSpot(Spot!spotOrderFromWSElement(good[i].row, enc))]
      BY <1>1, Zenon DEF Spot!handleOrder
    <3>3. market # "perp"
      BY <2>2
    <3>4. \A i \in 1 .. k : Spot!orderViewFromSpot(Spot!spotOrderFromWSElement(good[i].row, enc)) = PushView(q[i], enc)
      BY <1>2, <3>3, Zenon DEF PushView
    <3> QED BY <1>2, <3>1, <3>2, <3>4, Zenon
  <2> QED BY <2>1, <2>2
<1>4. DOMAIN told = 1 .. k /\ \A i \in 1 .. k : told[i] = PushView(q[i], enc)
  OBVIOUS
<1>5. Events("orders", f, enc, bal) = [i \in DOMAIN told |-> [kind |-> "orders", payload |-> told[i]]]
  <2>1. "orders" \in (IF market = "perp" THEN perpUserKinds ELSE spotUserKinds)
    BY DEF perpUserKinds, spotUserKinds
  <2> HIDE DEF told
  <2> QED BY <1>3, <2>1, Zenon DEF Events
<1> HIDE DEF told
<1> QED BY <1>4, <1>5, Zenon DEF f, q

\* An event for each trade and each position.
LEMMA PerpEventsAre ==
  ASSUME market = "perp", NEW c \in {"usertrades", "positions"}, NEW T, rows[c] \in Seq(T),
         NEW k \in 1 .. Len(rows[c]), NEW bad \in 0 .. k + 1, NEW enc, NEW bal
  PROVE Events(c, Frame(c, k, bad), enc, bal)
          = [i \in 1 .. k |-> [kind |-> c, payload |-> IF c = "usertrades" THEN Perp!userTradeFromWSRow(rows[c][i], enc)
                                                      ELSE Perp!positionFromWSRow(rows[c][i], Margin, enc)]]
<1> DEFINE f == Frame(c, k, bad)
           q == rows[c]
           good == [i \in 1 .. k |-> [ok |-> TRUE, row |-> q[i]]]
           P(i) == IF c = "usertrades" THEN Perp!userTradeFromWSRow(q[i], enc)
                   ELSE Perp!positionFromWSRow(q[i], Margin, enc)
           told == [i \in 1 .. k |-> P(i)]
<1>1. Perp!Decoded(f) = good
  BY FrameIs
<1>2. DOMAIN good = 1 .. k /\ \A i \in 1 .. k : good[i].row = q[i]
  OBVIOUS
<1> HIDE DEF f, q, good
<1>3. Handled(c, f, enc, bal) = told
  <2>1. CASE c = "usertrades"
    <3>1. Handled(c, f, enc, bal) = Perp!handleUserTrades(f, enc)
      BY <2>1 DEF Handled
    <3>2. Perp!handleUserTrades(f, enc) = [i \in DOMAIN good |-> Perp!userTradeFromWSRow(good[i].row, enc)]
      BY <1>1, Zenon DEF Perp!handleUserTrades
    <3> QED BY <1>2, <2>1, <3>1, <3>2, Zenon
  <2>2. CASE c = "positions"
    <3>1. Handled(c, f, enc, bal) = Perp!handlePositions(f, Margin, enc) /\ c # "usertrades"
      BY <2>2 DEF Handled
    <3>2. Perp!handlePositions(f, Margin, enc) = [i \in DOMAIN good |-> Perp!positionFromWSRow(good[i].row, Margin, enc)]
      BY <1>1, Zenon DEF Perp!handlePositions
    <3> QED BY <1>2, <3>1, <3>2, Zenon
  <2> QED BY <2>1, <2>2
<1>4. DOMAIN told = 1 .. k /\ \A i \in 1 .. k : told[i] = P(i)
  OBVIOUS
<1>5. Events(c, f, enc, bal) = [i \in DOMAIN told |-> [kind |-> c, payload |-> told[i]]]
  <2>1. c \in (IF market = "perp" THEN perpUserKinds ELSE spotUserKinds)
    BY DEF perpUserKinds
  <2> HIDE DEF told
  <2> QED BY <1>3, <2>1, Zenon DEF Events
<1> HIDE DEF told
<1> QED BY <1>4, <1>5, Zenon DEF f, q

\* An event for each balance.
LEMMA BalanceEventsAre ==
  ASSUME market = "spot", NEW T, rows["balances"] \in Seq(T),
         NEW k \in 1 .. Len(rows["balances"]), NEW bad \in 0 .. k + 1, NEW enc, NEW bal
  PROVE Events("balances", Frame("balances", k, bad), enc, bal)
          = [i \in 1 .. k |->
               [kind |-> "balances",
                payload |-> Spot!balanceUpdateFromWSRow(rows["balances"][i].free, rows["balances"][i].locked, bal)]]
<1> DEFINE f == Frame("balances", k, bad)
           q == rows["balances"]
           good == [i \in 1 .. k |-> [ok |-> TRUE, row |-> q[i]]]
           told == [i \in 1 .. k |-> Spot!balanceUpdateFromWSRow(q[i].free, q[i].locked, bal)]
<1>1. Spot!Decoded(f) = good
  BY FrameIs
<1>2. DOMAIN good = 1 .. k /\ \A i \in 1 .. k : good[i].row = q[i]
  OBVIOUS
<1> HIDE DEF f, q, good
<1>3. Handled("balances", f, enc, bal) = told
  <2>1. Handled("balances", f, enc, bal) = Spot!handleBalances(f, bal)
    BY DEF Handled
  <2>2. Spot!handleBalances(f, bal)
          = [i \in DOMAIN good |-> Spot!balanceUpdateFromWSRow(good[i].row.free, good[i].row.locked, bal)]
    BY <1>1, Zenon DEF Spot!handleBalances
  <2> QED BY <1>2, <2>1, <2>2, Zenon
<1>4. DOMAIN told = 1 .. k
      /\ \A i \in 1 .. k : told[i] = Spot!balanceUpdateFromWSRow(q[i].free, q[i].locked, bal)
  OBVIOUS
<1>5. Events("balances", f, enc, bal) = [i \in DOMAIN told |-> [kind |-> "balances", payload |-> told[i]]]
  <2>1. "balances" \in (IF market = "perp" THEN perpUserKinds ELSE spotUserKinds)
    BY DEF spotUserKinds
  <2> HIDE DEF told
  <2> QED BY <1>3, <2>1, Zenon DEF Events
<1> HIDE DEF told
<1> QED BY <1>4, <1>5, Zenon DEF f, q

\* What the events of a frame tell, by its rows.
LEMMA EventsTell ==
  ASSUME ClientIInv, NEW c \in Channels, NEW enc \in Written, NEW bal \in BalancesWritten,
         NEW k \in 1 .. Len(rows[c]), NEW bad \in 0 .. k + 1
  PROVE LET e == Events(c, Frame(c, k, bad), enc, bal)
        IN  /\ e \in Seq(UserEvents) /\ Len(e) = k /\ ord # NoOrder
            /\ \A i \in 1 .. k :
                 /\ e[i].kind = c
                 /\ c = "orders" => e[i] \in ToldFilled(rows[c][i].filled)
                 /\ c = "usertrades" => Change(e[i]) = rows[c][i]
                 /\ c = "positions" => e[i] \in ToldHolding(rows[c][i])
                 /\ c = "balances" => e[i] \in ToldTotal(rows[c][i].free + rows[c][i].locked)
<1> DEFINE e == Events(c, Frame(c, k, bad), enc, bal)
           q == rows[c]
<1>1. /\ rows["orders"] \in Seq(KeptOrders) /\ rows["usertrades"] \in Seq(Int) /\ rows["positions"] \in Seq(Int)
      /\ rows["balances"] \in Seq(BalanceRow)
      /\ IF market = "perp" THEN rows["balances"] = <<>> ELSE rows["usertrades"] = <<>> /\ rows["positions"] = <<>>
      /\ market \in {"perp", "spot"}
  BY DEF ClientIInv, Queues, Sessions
<1>2. ord # NoOrder /\ req \in Requests /\ Placeable(req)
  <2>1. rows # Nothing
    <3>1. Nothing[c] = <<>> /\ Len(<<>>) = 0
      BY DEF Nothing
    <3> QED BY <3>1
  <2> QED BY <2>1 DEF ClientIInv, OrderIs
<1>3. enc \in Encodings /\ bal \in Spot!BalanceRows
  BY WrittenAssumption
<1>4. Len(<<>>) = 0 /\ k >= 1 /\ k \in Nat /\ k <= Len(q)
  <2>1. \E T : q \in Seq(T)
    <3>1. c \in {"orders", "usertrades", "positions", "balances"}
      BY DEF Channels
    <3> QED BY <1>1, <3>1
  <2> QED BY <2>1
<1>5. CASE c = "orders"
  <2>1. e = [i \in 1 .. k |-> [kind |-> "orders", payload |-> PushView(q[i], enc)]]
    <3>1. rows["orders"] \in Seq(KeptOrders) /\ k \in 1 .. Len(rows["orders"]) /\ market \in {"perp", "spot"}
      BY <1>1, <1>5
    <3>2. Events("orders", Frame("orders", k, bad), enc, bal)
            = [i \in 1 .. k |-> [kind |-> "orders", payload |-> PushView(rows["orders"][i], enc)]]
      <4> HIDE DEF e, q
      <4> QED BY <3>1, OrderEventsAre
    <3> QED BY <1>5, <3>2, Zenon
  <2> HIDE DEF e
  <2>2. ASSUME NEW i \in 1 .. k
        PROVE e[i] \in UserEvents /\ e[i].kind = c /\ e[i] \in ToldFilled(q[i].filled)
    <3>1. q[i] \in KeptOrders
      BY <1>1, <1>4, <1>5, SMTT(30)
    <3>2. OrderKept(q[i])
      BY <3>1 DEF KeptOrders
    <3>3. PushView(q[i], enc) \in Views /\ PushView(q[i], enc).filled = q[i].filled
      BY <1>1, <1>2, <1>3, <3>2, OrderPushedIs
    <3> DEFINE v == PushView(q[i], enc)
    <3>4. e[i] = [kind |-> "orders", payload |-> v] /\ v \in Views /\ v.filled = q[i].filled
      BY <2>1, <3>3
    <3> HIDE DEF v, q
    <3>5. e[i].kind = "orders" /\ e[i].payload = v /\ e[i] \in OrderEvents
      BY <3>4 DEF OrderEvents
    <3> QED BY <1>5, <3>4, <3>5 DEF ToldFilled, UserEvents
  <2>3. e \in Seq(UserEvents) /\ Len(e) = k
    BY <1>4, <2>1, <2>2
  <2> QED BY <1>2, <1>5, <2>2, <2>3 DEF e
<1>6. CASE c = "usertrades"
  <2>1. market = "perp" /\ q \in Seq(Int)
    BY <1>1, <1>4, <1>6
  <2>2. e = [i \in 1 .. k |-> [kind |-> "usertrades", payload |-> Perp!userTradeFromWSRow(q[i], enc)]]
    <3>1. Events(c, Frame(c, k, bad), enc, bal)
            = [i \in 1 .. k |-> [kind |-> c, payload |-> IF c = "usertrades" THEN Perp!userTradeFromWSRow(rows[c][i], enc)
                                                        ELSE Perp!positionFromWSRow(rows[c][i], Margin, enc)]]
      BY <1>6, <2>1, PerpEventsAre
    <3> HIDE DEF e, q
    <3> QED BY <1>6, <3>1, Zenon DEF e, q
  <2> HIDE DEF e
  <2>3. ASSUME NEW i \in 1 .. k
        PROVE e[i] \in UserEvents /\ e[i].kind = c /\ Change(e[i]) = q[i]
    <3> DEFINE n == q[i]
               v == Perp!userTradeFromWSRow(n, enc)
    <3>1. n \in Int
      BY <1>4, <2>1
    <3>2. e[i] = [kind |-> "usertrades", payload |-> v]
      BY <2>2
    <3> HIDE DEF n
    <3>3. Perp!str(Perp!Field(enc.numbers, n)) = n /\ Perp!parseFloat(n) = n
      BY <3>1, BlankAssumption DEF Perp!parseFloat, Perp!str, Perp!Field, Perp!Text, Perp!Number
    <3>4. v = [side |-> IF n < 0 THEN "Sell" ELSE "Buy", size |-> IF n < 0 THEN -n ELSE n]
      BY <3>3 DEF Perp!userTradeFromWSRow, Perp!gateSizeSide, Perp!Abs
    <3> HIDE DEF v
    <3>5. v \in [side : {"Buy", "Sell"}, size : Nat] /\ (IF v.side = "Buy" THEN 1 ELSE -1) * v.size = n
      <4>1. CASE n < 0
        BY <3>1, <3>4, <4>1
      <4>2. CASE ~(n < 0)
        BY <3>1, <3>4, <4>2
      <4> QED BY <4>1, <4>2
    <3>6. e[i].kind = "usertrades" /\ e[i].payload = v /\ e[i] \in TradeEvents
      BY <3>2, <3>5 DEF TradeEvents
    <3> QED BY <1>6, <2>1, <3>5, <3>6 DEF Change, UserEvents, n
  <2>4. e \in Seq(UserEvents) /\ Len(e) = k
    BY <1>4, <2>2, <2>3
  <2> QED BY <1>2, <1>6, <2>3, <2>4 DEF e
<1>7. CASE c = "positions"
  <2>1. market = "perp" /\ q \in Seq(Int)
    BY <1>1, <1>4, <1>7
  <2>2. e = [i \in 1 .. k |-> [kind |-> "positions", payload |-> Perp!positionFromWSRow(q[i], Margin, enc)]]
    BY <1>7, <2>1, PerpEventsAre
  <2> HIDE DEF e
  <2>3. ASSUME NEW i \in 1 .. k
        PROVE e[i] \in UserEvents /\ e[i].kind = c /\ e[i] \in ToldHolding(q[i])
    <3> DEFINE n == q[i]
               v == Perp!positionFromWSRow(n, Margin, enc)
    <3>1. n \in Int
      BY <1>4, <2>1
    <3>2. e[i] = [kind |-> "positions", payload |-> v]
      BY <2>2
    <3> HIDE DEF n
    <3> HIDE DEF v
    <3>3. /\ v = [side |-> IF n < 0 THEN "Short" ELSE "Long", size |-> IF n < 0 THEN -n ELSE n, leverage |-> v.leverage]
          /\ v.leverage \in Int
      BY <1>3, <3>1, MarginIs, PositionSaidAlike DEF Perp!Abs, v
    <3>4. /\ v \in [side : {"Long", "Short"}, size : Nat, leverage : Int]
          /\ (IF v.side = "Long" THEN 1 ELSE -1) * v.size = n
      <4>1. CASE n < 0
        BY <3>1, <3>3, <4>1
      <4>2. CASE ~(n < 0)
        BY <3>1, <3>3, <4>2
      <4> QED BY <4>1, <4>2
    <3>5. e[i].kind = "positions" /\ e[i].payload = v /\ e[i] \in PositionEvents
      BY <3>2, <3>4 DEF PositionEvents
    <3> QED BY <1>7, <2>1, <3>4, <3>5 DEF ToldHolding, UserEvents, n
  <2>4. e \in Seq(UserEvents) /\ Len(e) = k
    BY <1>4, <2>2, <2>3
  <2> QED BY <1>2, <1>7, <2>3, <2>4 DEF e
<1>8. CASE c = "balances"
  <2>1. market = "spot" /\ q \in Seq(BalanceRow)
    BY <1>1, <1>4, <1>8
  <2>2. e = [i \in 1 .. k |->
               [kind |-> "balances", payload |-> Spot!balanceUpdateFromWSRow(q[i].free, q[i].locked, bal)]]
    BY <1>8, <2>1, BalanceEventsAre
  <2> HIDE DEF e
  <2>3. ASSUME NEW i \in 1 .. k
        PROVE e[i] \in UserEvents /\ e[i].kind = c /\ e[i] \in ToldTotal(q[i].free + q[i].locked)
    <3> DEFINE f == q[i].free
               l == q[i].locked
               v == Spot!balanceUpdateFromWSRow(f, l, bal)
    <3>1. f \in Int /\ l \in Int
      <4>1. q[i] \in BalanceRow
        BY <1>4, <2>1
      <4> QED BY <4>1 DEF BalanceRow
    <3>2. e[i] = [kind |-> "balances", payload |-> v]
      BY <2>2
    <3> HIDE DEF f, l
    <3>3. v = [total |-> f + l, available |-> f, frozen |-> l]
      BY <1>3, <3>1, BalanceSaidAlike DEF Spot!balanceViewFromSpot
    <3> HIDE DEF v
    <3>4. e[i].kind = "balances" /\ e[i].payload = v /\ v.total = f + l /\ e[i] \in BalanceEvents
      BY <3>1, <3>2, <3>3 DEF BalanceEvents
    <3> QED BY <1>8, <2>1, <3>4 DEF ToldTotal, UserEvents, f, l
  <2>4. e \in Seq(UserEvents) /\ Len(e) = k
    <3>1. k \in Nat /\ \A i \in 1 .. k : e[i] \in UserEvents
      BY <1>4, <2>3
    <3>2. e = [i \in 1 .. k |-> e[i]]
      BY <2>2
    <3> QED BY <3>1, <3>2
  <2> QED BY <1>2, <1>8, <2>3, <2>4 DEF e
<1> QED BY <1>5, <1>6, <1>7, <1>8 DEF Channels

\* A frame is read: its rows leave the channel and become events, in their order.
LEMMA ReadStep ==
  ASSUME ClientIInv, NEW c \in Channels, NEW enc \in Written, NEW bal \in BalancesWritten,
         NEW k \in 1 .. Len(rows[c]), NEW bad \in 0 .. k + 1, ReadFrame(c, k, bad, enc, bal)
  PROVE ClientIInv'
<1> DEFINE e == Events(c, Frame(c, k, bad), enc, bal)
           q == rows[c]
           r == SubSeq(q, k + 1, Len(q))
           all == userCh \o e
<1>1. /\ reader = "reading" /\ conn = "up" /\ rows' = [rows EXCEPT ![c] = r]
      /\ userCh' = IF Len(all) <= UserCap THEN all ELSE SubSeq(all, 1, UserCap)
      /\ lost' = (lost \/ Len(userCh) + Len(e) > UserCap) /\ reader' = Loops
  BY Zenon DEF ReadFrame, Emit
<1>2. UNCHANGED <<market, conn, activeSubs, server, closing, cuts, req, ord, stopper, shown, traded, held>>
  BY DEF ReadFrame, exchange, caller
<1>3. /\ e \in Seq(UserEvents) /\ Len(e) = k /\ ord # NoOrder
      /\ \A i \in 1 .. k :
           /\ e[i].kind = c
           /\ c = "orders" => e[i] \in ToldFilled(q[i].filled)
           /\ c = "usertrades" => Change(e[i]) = q[i]
           /\ c = "positions" => e[i] \in ToldHolding(q[i])
           /\ c = "balances" => e[i] \in ToldTotal(q[i].free + q[i].locked)
  BY EventsTell
<1> HIDE DEF e
<1>4. /\ DOMAIN rows = Channels /\ rows["orders"] \in Seq(KeptOrders)
      /\ rows["usertrades"] \in Seq(Int) /\ rows["positions"] \in Seq(Int) /\ rows["balances"] \in Seq(BalanceRow)
      /\ \A d \in Channels : Len(rows[d]) <= FrameCap
      /\ IF market = "perp" THEN rows["balances"] = <<>> ELSE rows["usertrades"] = <<>> /\ rows["positions"] = <<>>
      /\ userCh \in Seq(UserEvents) /\ Len(userCh) <= UserCap
      /\ shown \in Views \cup {NoOrder} /\ traded \in Int /\ held \in Int
  BY DEF ClientIInv, Queues
<1>5. KeptOrders' = KeptOrders /\ UserEvents' = UserEvents /\ Placeable(req)' = Placeable(req) /\ Before' = Before
  BY <1>2, SameMeaning
<1>6. Sessions'
  BY <1>1, <1>2 DEF ClientIInv, Sessions, Loops
<1>7. OrderIs'
  BY <1>2, <1>3, <1>5 DEF ClientIInv, OrderIs
<1>8. /\ DOMAIN rows' = Channels /\ rows'[c] = r /\ \A d \in Channels : d # c => rows'[d] = rows[d]
  BY <1>1, <1>4
<1>9. c \in {"orders", "usertrades", "positions", "balances"}
  BY DEF Channels
<1>10. ASSUME NEW T, q \in Seq(T)
       PROVE r \in Seq(T) /\ Len(r) <= Len(q)
  BY <1>10
<1>11. all \in Seq(UserEvents) /\ Len(all) = Len(userCh) + k /\ k \in Nat
  <2>1. \E T : q \in Seq(T)
    BY <1>4, <1>9
  <2>2. k \in Nat
    BY <2>1
  <2>3. all \in Seq(UserEvents) /\ Len(all) = Len(userCh) + Len(e)
    BY <1>3, <1>4, Joined
  <2> QED BY <1>3, <2>2, <2>3
<1> HIDE DEF all, r
<1>12. Queues'
  <2>1. rows'["orders"] \in Seq(KeptOrders)
    BY <1>4, <1>8, <1>10 DEF Channels
  <2>2. rows'["usertrades"] \in Seq(Int)
    BY <1>4, <1>8, <1>10 DEF Channels
  <2>3. rows'["positions"] \in Seq(Int)
    BY <1>4, <1>8, <1>10 DEF Channels
  <2>4. rows'["balances"] \in Seq(BalanceRow)
    BY <1>4, <1>8, <1>10 DEF Channels
  <2>5. \A d \in Channels : Len(rows'[d]) <= FrameCap
    <3>1. Len(r) <= FrameCap
      <4>1. PICK T : q \in Seq(T)
        BY <1>4, <1>9
      <4>2. Len(r) <= Len(q) /\ Len(q) <= FrameCap /\ Len(r) \in Nat /\ Len(q) \in Nat /\ FrameCap \in Nat
        <5>1. r \in Seq(T) /\ Len(r) <= Len(q)
          BY <1>10, <4>1
        <5>2. Len(r) \in Nat /\ Len(q) \in Nat
          <6> HIDE DEF q
          <6> QED BY <4>1, <5>1
        <5> QED BY <1>4, <5>1, <5>2, BoundsAssumption
      <4> QED BY <4>2
    <3> QED BY <1>4, <1>8, <3>1
  <2>6. rows' = [d \in Channels |-> rows'[d]]
    BY <1>1, <1>4
  <2>7. IF market = "perp" THEN rows'["balances"] = <<>> ELSE rows'["usertrades"] = <<>> /\ rows'["positions"] = <<>>
    <3>1. q # <<>>
      <4>1. k >= 1
        BY <1>11
      <4> QED BY <4>1
    <3> QED BY <1>4, <1>8, <3>1 DEF Channels
  <2>8. userCh' \in Seq(UserEvents) /\ Len(userCh') <= UserCap
    <3>1. CASE Len(all) <= UserCap
      BY <1>1, <1>11, <3>1
    <3>2. CASE ~(Len(all) <= UserCap)
      <4>1. UserCap \in Nat /\ UserCap \in 1 .. Len(all)
        BY <1>11, <3>2, BoundsAssumption
      <4>2. userCh' = SubSeq(all, 1, UserCap)
        BY <1>1, <3>2
      <4> QED BY <1>11, <4>1, <4>2
    <3> QED BY <3>1, <3>2
  <2> QED BY <1>2, <1>4, <1>5, <1>8, <2>1, <2>2, <2>3, <2>4, <2>5, <2>6, <2>7, <2>8 DEF Queues
<1>13. ASSUME ~lost'
       PROVE ~lost /\ userCh' = all
  <2>1. ~lost /\ Len(all) <= UserCap
    <3>1. Len(userCh) \in Nat /\ UserCap \in Nat
      BY <1>4, BoundsAssumption
    <3>2. ~lost /\ ~(Len(userCh) + Len(e) > UserCap)
      BY <1>1, <1>13, Zenon
    <3>3. Len(all) = Len(userCh) + Len(e) /\ Len(e) \in Nat
      BY <1>3, <1>11
    <3>4. Len(all) <= UserCap
      BY <3>1, <3>2, <3>3
    <3> QED BY <3>2, <3>4
  <2> QED BY <1>1, <2>1
<1>14. ASSUME NEW d \in Channels, NEW T, rows[d] \in Seq(T), NEW R, NEW E, NEW taken,
              c = d => \A i \in 1 .. k : q[i] \in R => e[i] \in E,
              Newest(d, rows[d], userCh, R, E, taken)
       PROVE Newest(d, rows'[d], all, R, E, taken)
  <2>1. CASE c = d
    <3>1. /\ q \in Seq(T) /\ k \in 1 .. Len(q) /\ userCh \in Seq(UserEvents) /\ e \in Seq(UserEvents) /\ Len(e) = k
          /\ \A i \in 1 .. k : e[i].kind = c /\ (q[i] \in R => e[i] \in E)
          /\ Newest(c, q, userCh, R, E, taken)
      BY <1>3, <1>4, <1>14, <2>1
    <3> HIDE DEF q
    <3>2. Newest(c, SubSeq(q, k + 1, Len(q)), userCh \o e, R, E, taken)
      BY <3>1, NewestRead
    <3> QED BY <1>8, <2>1, <3>2 DEF r, all
  <2>2. CASE c # d
    <3>1. \A i \in 1 .. Len(e) : e[i].kind # d
      BY <1>3, <2>2
    <3>2. Newest(d, rows[d], userCh \o e, R, E, taken)
      BY <1>3, <1>4, <1>14, <3>1, NewestOther
    <3> QED BY <1>8, <2>2, <3>2 DEF all
  <2> QED BY <2>1, <2>2
<1>15. OrderTold'
  <2> SUFFICES ASSUME ~lost'
               PROVE Newest("orders", rows'["orders"], all, {ord}, ToldFilled(ord.filled),
                            shown # NoOrder /\ shown.filled = ord.filled)
    BY <1>2, <1>13 DEF OrderTold
  <2> DEFINE taken == shown # NoOrder /\ shown.filled = ord.filled
             E == ToldFilled(ord.filled)
  <2>1. Newest("orders", rows["orders"], userCh, {ord}, E, taken)
    BY <1>3, <1>13 DEF ClientIInv, OrderTold
  <2>2. c = "orders" => \A i \in 1 .. k : q[i] \in {ord} => e[i] \in E
    BY <1>3
  <2> HIDE DEF taken, E
  <2>3. Newest("orders", rows'["orders"], all, {ord}, E, taken)
    <3>1. "orders" \in Channels
      BY DEF Channels
    <3> QED BY <1>4, <1>14, <2>1, <2>2, <3>1
  <2> QED BY <2>3 DEF taken, E
<1>16. Holding(ord)' = Holding(ord) /\ Signed(ord.filled)' = Signed(ord.filled)
  BY <1>2, <1>5, Zenon DEF Holding, Signed, Buys
<1>17. PositionTold'
  <2> SUFFICES ASSUME ~lost', market = "perp", ord.filled > 0
               PROVE Newest("positions", rows'["positions"], all, {Holding(ord)}, ToldHolding(Holding(ord)),
                            held = Holding(ord))
    BY <1>2, <1>13, <1>16 DEF PositionTold
  <2> DEFINE h == Holding(ord)
             taken == held = h
             E == ToldHolding(h)
  <2>1. Newest("positions", rows["positions"], userCh, {h}, E, taken)
    BY <1>3, <1>13 DEF ClientIInv, PositionTold
  <2>2. c = "positions" => \A i \in 1 .. k : q[i] \in {h} => e[i] \in E
    BY <1>3
  <2> HIDE DEF taken, E, h
  <2>3. Newest("positions", rows'["positions"], all, {h}, E, taken)
    <3>1. "positions" \in Channels
      BY DEF Channels
    <3> QED BY <1>4, <1>14, <2>1, <2>2, <3>1
  <2> QED BY <2>3 DEF taken, E, h
<1>18. BalanceTold'
  <2> SUFFICES ASSUME ~lost', market = "spot", ord.filled > 0
               PROVE Newest("balances", rows'["balances"], all, {b \in BalanceRow : b.free + b.locked = Holding(ord)},
                            ToldTotal(Holding(ord)), held = Holding(ord))
    BY <1>2, <1>13, <1>16 DEF BalanceTold
  <2> DEFINE h == Holding(ord)
             taken == held = h
             E == ToldTotal(h)
             R == {b \in BalanceRow : b.free + b.locked = h}
  <2>1. Newest("balances", rows["balances"], userCh, R, E, taken)
    BY <1>3, <1>13 DEF ClientIInv, BalanceTold
  <2>2. c = "balances" => \A i \in 1 .. k : q[i] \in R => e[i] \in E
    <3>1. \A i \in 1 .. k : q[i] \in R => q[i].free + q[i].locked = h
      BY Zenon
    <3> HIDE DEF R, h
    <3> QED BY <1>3, <3>1
  <2> HIDE DEF taken, E, R
  <2>3. Newest("balances", rows'["balances"], all, R, E, taken)
    <3>1. "balances" \in Channels
      BY DEF Channels
    <3> QED BY <1>4, <1>14, <2>1, <2>2, <3>1
  <2> QED BY <2>3 DEF taken, E, R
<1>19. TradesTold'
  <2> SUFFICES ASSUME ~lost', market = "perp"
               PROVE LeadsTo(Untraded', traded, Signed(ord.filled))
    BY <1>2, <1>16, Zenon DEF TradesTold
  <2> DEFINE u == Changes(userCh)
             z == Changes(e)
             t == rows["usertrades"]
  <2>1. LeadsTo(Untraded, traded, Signed(ord.filled))
    BY <1>3, <1>13 DEF ClientIInv, TradesTold
  <2>2. \A i \in DOMAIN userCh : Change(userCh[i]) \in Int
    BY UntradedIs DEF ClientIInv
  <2>3. \A i \in DOMAIN e : Change(e[i]) \in Int /\ (c # "usertrades" => Change(e[i]) = 0)
    <3> SUFFICES ASSUME NEW i \in 1 .. k
                 PROVE Change(e[i]) \in Int /\ (c # "usertrades" => Change(e[i]) = 0)
      BY <1>3
    <3>1. CASE c = "usertrades"
      BY <1>3, <1>4, <3>1
    <3>2. CASE c # "usertrades"
      BY <1>3, <3>2 DEF Change
    <3> QED BY <3>1, <3>2
  <2>4. /\ u \in Seq(Int) /\ z \in Seq(Int) /\ Len(z) = k /\ Changes(all) = u \o z
    BY <1>3, <1>4, <2>2, <2>3, ChangesIs DEF all
  <2>5. \A i \in 1 .. k : z[i] = Change(e[i])
    BY <1>3 DEF Changes
  <2>6. Untraded = u \o t /\ Untraded' = (u \o z) \o rows'["usertrades"]
    BY <1>13, <2>4, Zenon DEF Untraded, Changes
  <2>7. t \in Seq(Int)
    BY <1>4
  <2> HIDE DEF u, z, t
  <2>8. CASE c = "usertrades"
    <3>1. \A i \in 1 .. k : z[i] = t[i]
      BY <1>3, <2>5, <2>8 DEF t
    <3>2. k \in 1 .. Len(t)
      BY <2>8 DEF t
    <3>3. (u \o z) \o SubSeq(t, k + 1, Len(t)) = u \o t
      BY <2>4, <2>7, <3>1, <3>2, TwoParts
    <3>4. rows'["usertrades"] = SubSeq(t, k + 1, Len(t))
      BY <1>8, <2>8 DEF r, t
    <3> QED BY <2>1, <2>6, <3>3, <3>4
  <2>9. CASE c # "usertrades"
    <3>1. \A i \in 1 .. Len(z) : z[i] = 0
      <4>1. \A i \in 1 .. k : z[i] = 0
        <5> SUFFICES ASSUME NEW i \in 1 .. k PROVE z[i] = 0
          OBVIOUS
        <5>1. i \in DOMAIN e
          BY <1>3
        <5> QED BY <2>3, <2>5, <2>9, <5>1
      <4> QED BY <2>4, <4>1
    <3>2. rows'["usertrades"] = t
      BY <1>8, <2>9 DEF t, Channels
    <3>3. LeadsTo(u \o t, traded, Signed(ord.filled))
      BY <2>1, <2>6
    <3>4. LeadsTo((u \o z) \o t, traded, Signed(ord.filled))
      BY <2>4, <2>7, <3>1, <3>3, LeadsZeros
    <3> QED BY <2>6, <3>2, <3>4
  <2> QED BY <2>8, <2>9
<1> QED BY <1>6, <1>7, <1>12, <1>15, <1>17, <1>18, <1>19 DEF ClientIInv

\* The caller takes an event: what it tells is now known.
LEMMA ConsumeStep ==
  ASSUME ClientIInv, Consume
  PROVE ClientIInv'
<1> DEFINE ev == userCh[1]
<1>1. /\ userCh # <<>> /\ userCh' = Tail(userCh)
      /\ shown' = IF ev.kind = "orders" THEN ev.payload ELSE shown
      /\ traded' = IF ev.kind = "usertrades" THEN traded + (IF ev.payload.side = "Buy" THEN 1 ELSE -1) * ev.payload.size
                   ELSE traded
      /\ held' = CASE ev.kind = "positions" -> (IF ev.payload.side = "Long" THEN 1 ELSE -1) * ev.payload.size
                   [] ev.kind = "balances" -> ev.payload.total
                   [] OTHER -> held
  <2>1. Head(userCh) = userCh[1]
    <3>1. userCh \in Seq(UserEvents)
      BY DEF ClientIInv, Queues
    <3> QED BY <3>1
  <2> QED BY <2>1, Zenon DEF Consume
<1>2. UNCHANGED <<market, conn, reader, activeSubs, server, closing, cuts, req, ord, stopper, rows, lost>>
  BY DEF Consume, session, exchange
<1> HIDE DEF ev
<1>3. /\ DOMAIN rows = Channels /\ rows["orders"] \in Seq(KeptOrders)
      /\ rows["usertrades"] \in Seq(Int) /\ rows["positions"] \in Seq(Int) /\ rows["balances"] \in Seq(BalanceRow)
      /\ userCh \in Seq(UserEvents) /\ Len(userCh) <= UserCap
      /\ shown \in Views \cup {NoOrder} /\ traded \in Int /\ held \in Int /\ market \in {"perp", "spot"}
  BY DEF ClientIInv, Queues, Sessions
<1>4. KeptOrders' = KeptOrders /\ UserEvents' = UserEvents /\ Placeable(req)' = Placeable(req) /\ Before' = Before
  BY <1>2, SameMeaning
<1>5. ev \in UserEvents
  BY <1>1, <1>3 DEF ev
<1>6. ord # NoOrder
  BY <1>1 DEF ClientIInv, OrderIs
<1>7. ASSUME ev.kind = "orders"
      PROVE ev \in OrderEvents /\ ev.payload \in Views /\ ev.payload # NoOrder
  <2>1. ev \in OrderEvents
    BY <1>5, <1>7 DEF UserEvents, OrderEvents, TradeEvents, PositionEvents, BalanceEvents
  <2>2. ev.payload \in Views
    BY <2>1 DEF OrderEvents
  <2>3. ev.payload.status # "none"
    <3> DEFINE v == ev.payload
    <3> HIDE DEF v
    <3>1. v \in Views
      BY <2>2 DEF v
    <3> QED BY <3>1 DEF Views, v
  <2>4. NoOrder.status = "none"
    BY DEF NoOrder
  <2> QED BY <2>1, <2>2, <2>3, <2>4
<1>8. /\ ev.kind \in {"orders", "usertrades", "positions", "balances"}
      /\ market = "perp" => ev.kind # "balances"
      /\ market = "spot" => ev.kind # "positions"
  BY <1>5 DEF UserEvents, OrderEvents, TradeEvents, PositionEvents, BalanceEvents
<1>9. held' \in Int
  <2>1. CASE ev.kind = "positions"
    <3>1. ev \in PositionEvents
      BY <1>5, <2>1 DEF UserEvents, OrderEvents, TradeEvents, PositionEvents, BalanceEvents
    <3>2. ev.payload.size \in Nat
      BY <3>1 DEF PositionEvents
    <3>3. held' = (IF ev.payload.side = "Long" THEN 1 ELSE -1) * ev.payload.size
      BY <1>1, <2>1
    <3> QED BY <3>2, <3>3
  <2>2. CASE ev.kind = "balances"
    <3>1. ev \in BalanceEvents
      BY <1>5, <2>2 DEF UserEvents, OrderEvents, TradeEvents, PositionEvents, BalanceEvents
    <3>2. ev.payload.total \in Int
      BY <3>1 DEF BalanceEvents
    <3> QED BY <1>1, <2>2, <3>2
  <2>3. CASE ev.kind \notin {"positions", "balances"}
    BY <1>1, <1>3, <2>3
  <2> QED BY <2>1, <2>2, <2>3
<1>10. \A i \in DOMAIN userCh : Change(userCh[i]) \in Int
  BY UntradedIs DEF ClientIInv
<1>11. traded' = traded + Change(ev) /\ Change(ev) \in Int
  <2>1. Change(ev) \in Int
    BY <1>1, <1>3, <1>10 DEF ev
  <2>2. CASE ev.kind = "usertrades"
    BY <1>1, <2>1, <2>2 DEF Change
  <2>3. CASE ev.kind # "usertrades"
    BY <1>1, <1>3, <2>1, <2>3 DEF Change
  <2> QED BY <2>1, <2>2, <2>3
<1>12. Sessions'
  BY <1>2 DEF ClientIInv, Sessions
<1>13. OrderIs'
  BY <1>2, <1>4, <1>6 DEF ClientIInv, OrderIs
<1>14. userCh' \in Seq(UserEvents) /\ Len(userCh') <= UserCap
  <2>1. Tail(userCh) \in Seq(UserEvents) /\ Len(Tail(userCh)) = Len(userCh) - 1 /\ Len(userCh) \in Nat
    BY <1>1, <1>3
  <2> QED BY <1>1, <1>3, <2>1, BoundsAssumption
<1>15. shown' \in Views \cup {NoOrder}
  BY <1>1, <1>3, <1>7
<1>16. Queues'
  <2>1. traded' \in Int
    BY <1>3, <1>11
  <2> QED BY <1>2, <1>4, <1>9, <1>14, <1>15, <2>1 DEF ClientIInv, Queues
<1>17. Holding(ord)' = Holding(ord) /\ Signed(ord.filled)' = Signed(ord.filled)
  BY <1>2, <1>4, Zenon DEF Holding, Signed, Buys
<1>18. ASSUME NEW c, NEW q, NEW R, NEW E, NEW taken, NEW then, ev \in E => then, ev.kind # c /\ taken => then,
              Newest(c, q, userCh, R, E, taken)
       PROVE Newest(c, q, Tail(userCh), R, E, then)
  BY <1>1, <1>3, <1>18, NewestTaken DEF ev
<1>19. OrderTold'
  <2> SUFFICES ASSUME ~lost
               PROVE Newest("orders", rows["orders"], Tail(userCh), {ord}, ToldFilled(ord.filled),
                            shown' # NoOrder /\ shown'.filled = ord.filled)
    BY <1>1, <1>2 DEF OrderTold
  <2> DEFINE taken == shown # NoOrder /\ shown.filled = ord.filled
             then == shown' # NoOrder /\ shown'.filled = ord.filled
             E == ToldFilled(ord.filled)
             q == rows["orders"]
  <2>1. Newest("orders", q, userCh, {ord}, E, taken)
    BY <1>6 DEF ClientIInv, OrderTold
  <2>2. ev \in E => then
    <3>1. SUFFICES ASSUME ev \in E PROVE then
      OBVIOUS
    <3>2. ev.payload.filled = ord.filled /\ ev.kind = "orders"
      BY <3>1 DEF ToldFilled, OrderEvents
    <3> QED BY <1>1, <1>7, <3>2
  <2>3. ev.kind # "orders" /\ taken => then
    BY <1>1
  <2> HIDE DEF taken, then, E, q
  <2>4. Newest("orders", q, Tail(userCh), {ord}, E, then)
    BY <1>18, <2>1, <2>2, <2>3
  <2> QED BY <2>4 DEF then, E, q
<1>20. PositionTold'
  <2> SUFFICES ASSUME ~lost, market = "perp", ord.filled > 0
               PROVE Newest("positions", rows["positions"], Tail(userCh), {Holding(ord)}, ToldHolding(Holding(ord)),
                            held' = Holding(ord))
    BY <1>1, <1>2, <1>17 DEF PositionTold
  <2> DEFINE h == Holding(ord)
             taken == held = h
             then == held' = h
             E == ToldHolding(h)
             q == rows["positions"]
  <2>1. Newest("positions", q, userCh, {h}, E, taken)
    BY <1>6 DEF ClientIInv, PositionTold
  <2>2. ev \in E => then
    <3>1. SUFFICES ASSUME ev \in E PROVE then
      OBVIOUS
    <3> HIDE DEF h
    <3>2. (IF ev.payload.side = "Long" THEN 1 ELSE -1) * ev.payload.size = h /\ ev.kind = "positions"
      BY <3>1 DEF ToldHolding, PositionEvents
    <3> QED BY <1>1, <3>2
  <2>3. ev.kind # "positions" /\ taken => then
    <3> HIDE DEF h
    <3> QED BY <1>1, <1>8
  <2> HIDE DEF taken, then, E, q, h
  <2>4. Newest("positions", q, Tail(userCh), {h}, E, then)
    BY <1>18, <2>1, <2>2, <2>3
  <2> QED BY <2>4 DEF then, E, q, h
<1>21. BalanceTold'
  <2> SUFFICES ASSUME ~lost, market = "spot", ord.filled > 0
               PROVE Newest("balances", rows["balances"], Tail(userCh),
                            {b \in BalanceRow : b.free + b.locked = Holding(ord)}, ToldTotal(Holding(ord)),
                            held' = Holding(ord))
    BY <1>1, <1>2, <1>17 DEF BalanceTold
  <2> DEFINE h == Holding(ord)
             taken == held = h
             then == held' = h
             E == ToldTotal(h)
             q == rows["balances"]
             R == {b \in BalanceRow : b.free + b.locked = h}
  <2>1. Newest("balances", q, userCh, R, E, taken)
    BY <1>6 DEF ClientIInv, BalanceTold
  <2>2. ev \in E => then
    <3>1. SUFFICES ASSUME ev \in E PROVE then
      OBVIOUS
    <3> HIDE DEF h
    <3>2. ev.payload.total = h /\ ev.kind = "balances"
      BY <3>1 DEF ToldTotal, BalanceEvents
    <3> QED BY <1>1, <3>2
  <2>3. ev.kind # "balances" /\ taken => then
    <3> HIDE DEF h
    <3> QED BY <1>1, <1>8
  <2> HIDE DEF taken, then, E, q, R
  <2>4. Newest("balances", q, Tail(userCh), R, E, then)
    BY <1>18, <2>1, <2>2, <2>3
  <2> QED BY <2>4 DEF then, E, q, R
<1>22. TradesTold'
  <2> SUFFICES ASSUME ~lost, market = "perp"
               PROVE LeadsTo(Untraded', traded', Signed(ord.filled))
    BY <1>2, <1>17, Zenon DEF TradesTold
  <2> DEFINE t == rows["usertrades"]
             s == Changes(userCh) \o t
  <2>1. LeadsTo(s, traded, Signed(ord.filled))
    BY <1>6, Zenon DEF ClientIInv, TradesTold, Untraded, Changes
  <2>2. /\ s \in Seq(Int) /\ s # <<>> /\ s[1] = Change(ev)
        /\ Changes(Tail(userCh)) \o t = Tail(s)
    <3>1. t \in Seq(Int)
      BY <1>3
    <3> HIDE DEF t
    <3> QED BY <1>1, <1>3, <1>10, <3>1, ChangesTail DEF ev
  <2>3. Untraded' = Changes(Tail(userCh)) \o t
    BY <1>1, <1>2, Zenon DEF Untraded, Changes
  <2> HIDE DEF s, t
  <2>4. LeadsTo(Tail(s), traded + s[1], Signed(ord.filled))
    BY <2>1, <2>2, LeadsTail
  <2> QED BY <1>11, <2>2, <2>3, <2>4
<1> QED BY <1>12, <1>13, <1>16, <1>19, <1>20, <1>21, <1>22 DEF ClientIInv

-----------------------------------------------------------------------------
(* The theorems *)

\* Connect leaves nothing on its way.
LEMMA ClientStart ==
  ASSUME ClientInit
  PROVE ClientIInv
<1>1. /\ market \in Markets /\ conn = "up" /\ reader = "reading" /\ closing = "no" /\ cuts = 0
      /\ activeSubs = UNION {Keys(s) : s \in connectSubs(market)} /\ server = activeSubs
      /\ stopper = NoRequest /\ ord = NoOrder /\ shown = NoOrder
      /\ rows = Nothing /\ userCh = <<>> /\ traded = 0 /\ held = 0 /\ lost = FALSE
  BY DEF ClientInit
<1>2. market \in {"perp", "spot"}
  BY <1>1, SessionAssumption
<1>3. \A k \in activeSubs : k[1] \in Registered(market)
  <2> SUFFICES ASSUME NEW s \in connectSubs(market), NEW k \in Keys(s) PROVE k[1] \in Registered(market)
    BY <1>1
  <2>1. s.channel \in Registered(market)
    <3>1. PICK channel \in (IF market = "perp" THEN {"orders", "usertrades", "positions", "balances"}
                                                ELSE {"balances"}) : s = Sub(channel, {}, <<>>)
      BY DEF connectSubs
    <3>2. s.channel = channel
      BY <3>1, Zenon DEF Sub
    <3>3. channel \in Registered(market)
      BY <1>2, <3>1 DEF Registered
    <3> QED BY <3>2, <3>3
  <2>2. k[1] = s.channel
    BY KeysNamed
  <2> QED BY <2>1, <2>2
<1>4. Sessions
  BY <1>1, <1>2, <1>3, BoundsAssumption DEF Sessions
<1>5. OrderIs
  BY <1>1 DEF OrderIs
<1>6. Queues
  <2>1. /\ DOMAIN rows = Channels /\ \A c \in Channels : rows[c] = <<>>
        /\ rows = [c \in Channels |-> rows[c]]
    BY <1>1 DEF Nothing
  <2>2. \A c \in Channels : Len(rows[c]) <= FrameCap
    BY <2>1, BoundsAssumption
  <2>3. rows["orders"] = <<>> /\ rows["usertrades"] = <<>> /\ rows["positions"] = <<>> /\ rows["balances"] = <<>>
    BY <2>1 DEF Channels
  <2>4. Len(userCh) <= UserCap
    BY <1>1, BoundsAssumption
  <2>5. /\ rows["orders"] \in Seq(KeptOrders) /\ rows["usertrades"] \in Seq(Int) /\ rows["positions"] \in Seq(Int)
        /\ rows["balances"] \in Seq(BalanceRow)
    BY <2>3
  <2>6. userCh \in Seq(UserEvents) /\ shown \in Views \cup {NoOrder} /\ traded \in Int /\ held \in Int
    BY <1>1
  <2> QED BY <2>1, <2>2, <2>3, <2>4, <2>5, <2>6 DEF Queues
<1>7. OrderTold /\ TradesTold /\ PositionTold /\ BalanceTold
  BY <1>1 DEF OrderTold, TradesTold, PositionTold, BalanceTold
<1> QED BY <1>4, <1>5, <1>6, <1>7 DEF ClientIInv

\* Every step keeps the invariant.
LEMMA ClientStep ==
  ASSUME ClientIInv, [ClientNext]_clientVars
  PROVE ClientIInv'
<1>1. CASE Reads
  <2>1. PICK c \in Channels, enc \in Written, bal \in BalancesWritten :
           \E k \in 1 .. Len(rows[c]) : \E bad \in 0 .. k + 1 : ReadFrame(c, k, bad, enc, bal)
    BY <1>1 DEF Reads
  <2>2. PICK k \in 1 .. Len(rows[c]) : \E bad \in 0 .. k + 1 : ReadFrame(c, k, bad, enc, bal)
    BY <2>1
  <2>3. PICK bad \in 0 .. k + 1 : ReadFrame(c, k, bad, enc, bal)
    BY <2>2
  <2> QED BY <2>1, <2>2, <2>3, ReadStep
<1>2. CASE reconnects
  BY <1>2, SessionActions
<1>3. CASE Exchange
  BY <1>3, OrderActions, SessionActions DEF Exchange
<1>4. CASE Caller
  BY <1>4, OrderActions, SessionActions, ConsumeStep DEF Caller
<1>5. CASE UNCHANGED clientVars
  <2>1. UNCHANGED <<market, exchange, userCh, caller, rows, lost>>
    BY <1>5 DEF clientVars
  <2>2. Sessions'
    BY <1>5 DEF clientVars, session, ClientIInv, Sessions
  <2> QED BY <2>1, <2>2, SessionStep
<1> QED BY <1>1, <1>2, <1>3, <1>4, <1>5 DEF ClientNext

\* The invariant holds.
LEMMA ClientInvariant == ClientSpec => []ClientIInv
BY ClientStart, ClientStep, PTL DEF ClientSpec

\* In every session the order is told as it is, by REST and by websocket, in every form a row
\* may come in: as it was asked for, ended as it was traded, its times up to a thousandth of
\* a second and the leverage of its position where the row has it; and a cancel by client
\* order id stops only an order placed with that id (normalizeWSOrderMap, futuresTime,
\* mapFuturesOrderStatus, mapSpotOrderStatus, positionView, positionFromWSRow,
\* normalizeGateOrderText and the conversions around them).
THEOREM OrderToldAsItIs == ClientSpec => []ToldAsItIs
BY ClientInvariant, AsItIs, PTL

\* Whatever is cut off, dropped, undecodable or pushed to another channel first: with no row
\* lost and every event taken, trades, position or balance and the last snapshot agree; and a
\* loop that reads a working connection is served every recorded subscription (handleOrder,
\* handleUserTrades, handlePositions, handleBalances, setSubscriptions, reconnectAfterError).
THEOREM CallerToldEverything == ClientSpec => []ToldEverything
BY ClientInvariant, AllTaken, PTL
=============================================================================
