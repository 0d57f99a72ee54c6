------------------------------- MODULE RiskRules -------------------------------
(***************************************************************************)
(* Decision and risk rules as operators: the order a signal asks for, the  *)
(* rule chain of Evaluate and the merge of a strategy's overrides.         *)
(*                                                                         *)
(* Quantities are whole contracts, money is whole units of the quote       *)
(* currency, ratios are per cent.  A limit of 0 is no limit.  A position   *)
(* is its size, negative for a short one.                                  *)
(***************************************************************************)
EXTENDS Integers

CONSTANTS
  PerUnit,    \* notional of one contract of each kind: mark price by multiplier
  MinSize, MaxSize, \* order sizes the exchange accepts
  Divisor     \* part of the available balance a signal without sizing uses

ASSUME RulesAssumption ==
  /\ \A c \in DOMAIN PerUnit : PerUnit[c] \in Nat \ {0}
  /\ MinSize \in Nat \ {0} /\ MaxSize \in Nat /\ MinSize <= MaxSize
  /\ Divisor \in Nat \ {0}

Abs(n) == IF n < 0 THEN -n ELSE n
AtMost(n, limit) == IF n > limit THEN limit ELSE n

-----------------------------------------------------------------------------
(* Decide *)

Sign(dir) == CASE dir = "long" -> 1 [] dir = "short" -> -1 [] dir = "flat" -> 0

OpensExposure(sig) == sig.dir \in {"long", "short"}

\* Same direction as the position, or no position.
IsIncreasingExposure(sig, held) == OpensExposure(sig) /\ Sign(sig.dir) * held >= 0

\* The notional a signal asks for; none when its value is out of range.
Notionals(sig, available) ==
  CASE sig.mode = "default" -> {available \div Divisor}
    [] sig.mode = "percent" -> IF sig.value > 100 THEN {} ELSE {(available * sig.value) \div 100}
    [] sig.mode = "fixed"   -> IF sig.value > available THEN {} ELSE {sig.value}

\* Too small a notional is raised to the smallest order, too large an order is cut.
ContractsFor(c, notional) ==
  LET raw == notional \div PerUnit[c]
  IN IF raw < MinSize THEN MinSize ELSE AtMost(raw, MaxSize)

\* The sizes of the order for a signal: one, or none.  priced: a mark price is known.
OrderSizes(sig, held, available, priced) ==
  IF sig.dir = "flat" THEN {Abs(held)} \ {0}
  ELSE IF Sign(sig.dir) * held > 0 THEN {}
  ELSE IF sig.mode = "custom" THEN {sig.value}
  ELSE {ContractsFor(sig.contract, n) : n \in {n \in Notionals(sig, available) : n > 0 /\ priced}}

\* Long buys, short sells, flat goes against the position.
OrderSign(sig, held) == IF sig.dir # "flat" THEN Sign(sig.dir) ELSE IF held > 0 THEN -1 ELSE 1

-----------------------------------------------------------------------------
(* The rule chain *)

\* risk.Rules
RuleSet ==
  [enable : BOOLEAN, positionLock : BOOLEAN, maxOrderSize : Nat, maxOpenOrders : Nat, maxPositions : Nat,
   maxPositionSize : Nat, maxDailyLoss : Nat, maxDrawdown : Nat, maxLeverage : Nat]

Verdict == [kind : {"allow", "reject", "reduce"}, size : Nat]
Allow == [kind |-> "allow", size |-> 0]
Reject == [kind |-> "reject", size |-> 0]
ReduceTo(n) == [kind |-> "reduce", size |-> n]

\* A strategy's overrides hold the fields it sets.
MergeRules(global, overrides) ==
  [f \in DOMAIN global |-> IF f \in DOMAIN overrides THEN overrides[f] ELSE global[f]]

\* Opening exposure asks for a known, positive equity within the loss limits.
RejectsOpening(r, in) ==
  \/ ~in.ready
  \/ r.positionLock
  \/ in.equity <= 0
  \/ r.maxDailyLoss > 0 /\ in.loss >= r.maxDailyLoss
  \/ r.maxDrawdown > 0 /\ in.drawdown >= r.maxDrawdown

\* Positions of -1 are not known.
RejectsCounts(r, in) ==
  \/ r.maxOpenOrders > 0 /\ in.openOrders >= r.maxOpenOrders
  \/ r.maxPositions > 0 /\ in.opens /\ in.positions >= 0 /\ in.positions >= r.maxPositions

\* The order's own notional counts only when it increases the position.
PostExposure(in) == in.exposure + IF in.increasing THEN in.size * in.perUnit ELSE 0

RejectsLeverage(r, in) ==
  /\ in.opens /\ r.maxLeverage > 0
  /\ ~in.priced \/ (in.equity > 0 /\ PostExposure(in) > r.maxLeverage * in.equity)

PositionVerdict(r, in) ==
  LET room == (r.maxPositionSize - in.held) \div in.perUnit
  IN IF ~in.priced THEN Reject
     ELSE IF in.held + in.size * in.perUnit <= r.maxPositionSize THEN Allow
     ELSE IF room <= 0 THEN Reject
     ELSE ReduceTo(room)

\* Mutant: a loss equal to the limit and above is not looked at.
EvaluateNoLoss(r, in) ==
  IF ~r.enable THEN Allow
  ELSE IF RejectsCounts(r, in) \/ RejectsLeverage(r, in) THEN Reject
  ELSE IF r.maxOrderSize > 0 /\ in.size > r.maxOrderSize THEN ReduceTo(r.maxOrderSize)
  ELSE IF in.increasing /\ r.maxPositionSize > 0 THEN PositionVerdict(r, in)
  ELSE Allow

\* The size limit answers before the position limit is looked at.
Evaluate(r, in) ==
  IF ~r.enable THEN Allow
  ELSE IF in.size <= 0 \/ (in.opens /\ RejectsOpening(r, in)) THEN Reject
  ELSE IF RejectsCounts(r, in) \/ RejectsLeverage(r, in) THEN Reject
  ELSE IF r.maxOrderSize > 0 /\ in.size > r.maxOrderSize THEN ReduceTo(r.maxOrderSize)
  ELSE IF in.increasing /\ r.maxPositionSize > 0 THEN PositionVerdict(r, in)
  ELSE Allow
=============================================================================
