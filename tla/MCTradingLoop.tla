----------------------------- MODULE MCTradingLoop -----------------------------
(* One contract, two strategies of which one has overrides of its own. *)
EXTENDS TradingLoop, TLC

CONSTANTS c1, s1, s2

PerUnitMC == c1 :> 2
HeldMC == c1 :> 1
SymbolsMC == s1 :> {c1} @@ s2 :> {c1}

\* A loss of one stops opening; s2 may hold less than the size limit allows it to order.
RulesMC ==
  [enable |-> TRUE, maxOrderSize |-> 3, maxOpenOrders |-> 2, maxPositions |-> 0, maxPositionSize |-> 0,
   maxDailyLoss |-> 1, maxDrawdown |-> 0, maxLeverage |-> 4, positionLock |-> FALSE]
OverridesMC == s1 :> << >> @@ s2 :> [maxOrderSize |-> 2, maxPositionSize |-> 2]

SignalsMC ==
  {[contract |-> c1, dir |-> "long", mode |-> "custom", value |-> 4],
   [contract |-> c1, dir |-> "short", mode |-> "default", value |-> 0],
   [contract |-> c1, dir |-> "flat", mode |-> "default", value |-> 0]}
=============================================================================
