------------------------------ MODULE TradingLoop ------------------------------
(***************************************************************************)
(* One turn of dispatchSignal in detail, closed over the account: the      *)
(* decision from a snapshot of the projection, the risk context read piece *)
(* by piece, the strategy's rules and the global rules, the order on its   *)
(* way to the OMS, and its fill, which changes the account and comes back  *)
(* to the projection as a push.  Kill switch and signal channel are        *)
(* SignalPipeline's, an order's life in the OMS is OrderManager's.         *)
(***************************************************************************)
EXTENDS AccountProjection, RiskRules, SequencesExt, FiniteSets

CONSTANTS
  Signals,    \* [contract, dir, mode, value]
  Strategies,
  Rules,      \* the global rules
  Overrides,  \* the overrides of each strategy
  Symbols,    \* the contracts of each strategy
  OrderBuf,   \* capacity of orderCh
  MaxOrders   \* bound: orders decided

ASSUME LoopAssumption ==
  /\ DOMAIN PerUnit = Contracts
  /\ \A sig \in Signals : /\ sig.contract \in Contracts /\ sig.dir \in {"long", "short", "flat"}
                          /\ sig.mode = "custom" => sig.value \in Nat \ {0}
                          /\ sig.mode \in {"percent", "fixed"} => sig.value \in Nat
                          /\ sig.mode \in {"default", "percent", "fixed", "custom"}
  /\ Rules \in RuleSet
  /\ \A s \in Strategies : /\ MergeRules(Rules, Overrides[s]) \in RuleSet
                           /\ "enable" \notin DOMAIN Overrides[s]
  /\ DOMAIN Overrides = Strategies /\ Symbols \in [Strategies -> SUBSET Contracts]
  /\ OrderBuf \in Nat \ {0} /\ MaxOrders \in Nat

VARIABLES
  job,      \* what dispatchSignal works on
  priced,   \* contracts with a mark price, from the ticker cache
  orderCh,
  live,     \* placed orders, not final
  decided,
  slipped   \* opening orders let through since the day's loss is at its limit (no variable of the code)

loop == <<job, priced, orderCh, live, decided, slipped>>
vars == <<proj, loop>>

NoInput == [size |-> 0, opens |-> FALSE, increasing |-> FALSE, openOrders |-> 0, positions |-> 0,
            ready |-> FALSE, priced |-> TRUE, perUnit |-> 1, held |-> 0, exposure |-> 0,
            equity |-> 0, loss |-> 0, drawdown |-> 0]

\* tier: whose rules are asked next.
NoJob == [pc |-> "idle", tier |-> "strategy", strategy |-> CHOOSE s \in Strategies : TRUE,
          signal |-> CHOOSE sig \in Signals : TRUE, sign |-> 1, in |-> NoInput]

Order(j) == [contract |-> j.signal.contract, size |-> j.sign * j.in.size,
             opens |-> j.in.opens, strategy |-> j.strategy]

Orders == [contract : Contracts, size : Int, opens : BOOLEAN, strategy : Strategies]

\* Types; an order that was let through has a size.
TypeOK ==
  /\ job.pc \in {"idle", "decided", "counted", "ready"} /\ job.tier \in {"strategy", "global"}
  /\ DOMAIN job.in = DOMAIN NoInput
  /\ priced \subseteq Contracts
  /\ orderCh \in Seq(Orders) /\ Len(orderCh) <= OrderBuf /\ live \in Seq(Orders)
  /\ decided \in 0..MaxOrders /\ slipped \in 0..MaxOrders
  /\ \A o \in Range(orderCh \o live) : o.size # 0

-----------------------------------------------------------------------------
(* Decide *)

GetsPrice(c) ==
  /\ c \notin priced
  /\ priced' = priced \cup {c}
  /\ UNCHANGED <<proj, job, orderCh, live, decided, slipped>>

\* One consistent snapshot of the projection; nothing before it is ready.
Decide(s, sig) ==
  /\ job.pc = "idle" /\ ready
  /\ decided < MaxOrders
  /\ LET held == entries[sig.contract]
     IN \E n \in OrderSizes(sig, held, available, sig.contract \in priced) :
          job' = [NoJob EXCEPT !.pc = "decided", !.strategy = s, !.signal = sig,
                               !.sign = OrderSign(sig, held),
                               !.in = [NoInput EXCEPT !.size = n, !.opens = OpensExposure(sig)]]
  /\ decided' = decided + 1
  /\ UNCHANGED <<proj, priced, orderCh, live, slipped>>

-----------------------------------------------------------------------------
(* BuildRiskContext: every value is read under a lock of its own *)

Positions(contracts) == {c \in contracts : entries[c] # 0}

readCounts ==
  /\ job.pc = "decided"
  /\ job' = [job EXCEPT
       !.pc = "counted",
       !.in = [@ EXCEPT !.openOrders = Len(live), !.ready = ready,
                        !.positions = Cardinality(Positions(Contracts)),
                        !.equity = entries[Cash], !.loss = DailyLoss, !.drawdown = DrawdownRatio]]
  /\ UNCHANGED <<proj, priced, orderCh, live, decided, slipped>>

\* A rule of any tier asks for notionals.
AllRules == {Rules} \cup {MergeRules(Rules, Overrides[s]) : s \in Strategies}

NeedsNotional(increasing) ==
  \E r \in AllRules : r.maxLeverage > 0 \/ (increasing /\ r.maxPositionSize > 0)

Notional(c) == Abs(entries[c]) * PerUnit[c]

\* totalExposure
TotalExposure == FoldFunctionOnSet(+, 0, [c \in Contracts |-> Notional(c)], Contracts)

readExposure ==
  /\ job.pc = "counted"
  /\ LET c == job.signal.contract
         increasing == IsIncreasingExposure(job.signal, entries[c])
     IN job' = [job EXCEPT
          !.pc = "ready",
          !.in = [@ EXCEPT !.increasing = increasing,
                           !.priced = ~job.in.opens \/ ~NeedsNotional(increasing)
                                        \/ Positions(Contracts) \cup {c} \subseteq priced,
                           !.perUnit = PerUnit[c],
                           !.held = Notional(c),
                           !.exposure = TotalExposure]]
  /\ UNCHANGED <<proj, priced, orderCh, live, decided, slipped>>

-----------------------------------------------------------------------------
(* The two tiers *)

\* The strategy's own open orders and positions are read here.
Scoped ==
  [job.in EXCEPT
     !.openOrders = Len(SelectSeq(live, LAMBDA o : o.strategy = job.strategy)),
     !.positions = IF ready THEN Cardinality(Positions(Symbols[job.strategy])) ELSE -1]

StrategyVerdict ==
  IF DOMAIN Overrides[job.strategy] = {} THEN Allow
  ELSE Evaluate(MergeRules(Rules, Overrides[job.strategy]), Scoped)

\* A reduced order has its context read again, for the global rules.
evaluateStrategyRisk ==
  /\ job.pc = "ready" /\ job.tier = "strategy"
  /\ job' = CASE StrategyVerdict.kind = "reject" -> NoJob
              [] StrategyVerdict.kind = "allow"  -> [job EXCEPT !.tier = "global"]
              [] StrategyVerdict.kind = "reduce" ->
                   [job EXCEPT !.pc = "decided", !.tier = "global", !.in.size = StrategyVerdict.size]
  /\ UNCHANGED <<proj, priced, orderCh, live, decided, slipped>>

LossAtLimit == Rules.enable /\ Rules.maxDailyLoss > 0 /\ DailyLoss >= Rules.maxDailyLoss

\* riskEvaluator.Evaluate, and the order goes to orderCh when there is room.
evaluateGlobal ==
  /\ job.pc = "ready" /\ job.tier = "global"
  /\ LET v == Evaluate(Rules, job.in)
     IN IF v.kind = "reject" THEN UNCHANGED <<orderCh, slipped>>
        ELSE /\ Len(orderCh) < OrderBuf
             /\ orderCh' = Append(orderCh, Order(
                  IF v.kind = "reduce" THEN [job EXCEPT !.in.size = v.size] ELSE job))
             /\ slipped' = IF LossAtLimit /\ job.in.opens THEN slipped + 1 ELSE slipped
  /\ job' = NoJob
  /\ UNCHANGED <<proj, priced, live, decided>>

-----------------------------------------------------------------------------
(* The OMS and the exchange *)

\* validateOrderForPlace, then Place, which may fail.
SubmitOrder(placed) ==
  /\ orderCh # <<>>
  /\ orderCh' = Tail(orderCh)
  /\ LET o == Head(orderCh)
         ok == placed /\ Abs(o.size) \in MinSize..MaxSize
     IN live' = IF ok THEN Append(live, o) ELSE live
  /\ UNCHANGED <<proj, job, priced, decided, slipped>>

\* An order is filled, and not only as far as it reduces the position: ReduceOnly is false.
Fills(i) ==
  /\ live' = RemoveAt(live, i)
  /\ Changes(live[i].contract, account[live[i].contract] + live[i].size)
  /\ UNCHANGED <<moves, days, job, priced, orderCh, decided, slipped>>

Cancelled(i) ==
  /\ live' = RemoveAt(live, i)
  /\ UNCHANGED <<proj, job, priced, orderCh, decided, slipped>>

-----------------------------------------------------------------------------
Init ==
  /\ ProjectionInit
  /\ job = NoJob /\ priced = {} /\ orderCh = <<>> /\ live = <<>>
  /\ decided = 0 /\ slipped = 0

Carries ==
  /\ slipped' = IF LossAtLimit' THEN slipped ELSE 0
  /\ UNCHANGED <<job, priced, orderCh, live, decided>>

Projects == ProjectionStep /\ Carries

Dispatches == readCounts \/ readExposure \/ evaluateStrategyRisk \/ evaluateGlobal

Submits == \E placed \in BOOLEAN : SubmitOrder(placed)

Next ==
  \/ Projects \/ Dispatches \/ Submits
  \/ \E s \in Strategies, sig \in Signals : Decide(s, sig)
  \/ \E c \in Contracts : GetsPrice(c)
  \/ \E i \in DOMAIN live : Fills(i) \/ Cancelled(i)

Spec == Init /\ [][Next]_vars

\* The pump and the refresh loop go on, and REST answers again and again.
FairSpec ==
  /\ Spec
  /\ WF_vars(OnUserEvent /\ Carries)
  /\ WF_vars(Refresh /\ Carries)
  /\ SF_vars(readBalance /\ Carries) /\ SF_vars(readPositions /\ Carries)

-----------------------------------------------------------------------------
(* Properties *)

\* Every order on its way or at the exchange is within the size limit of both tiers,
\* whichever of them reduced it and for whatever reason; and while the day's loss stays at
\* its limit, over refreshes and pushes, at most one order that opens exposure is let
\* through: the one whose risk context was read before (evaluateStrategyRisk, Evaluate,
\* BuildRiskContext, OnEquityUpdate).
LimitsKept ==
  /\ ProjectionTypeOK /\ TypeOK
  /\ \A o \in Range(orderCh \o live) :
       \A r \in {Rules, MergeRules(Rules, Overrides[o.strategy])} :
         r.enable /\ r.maxOrderSize > 0 => Abs(o.size) <= r.maxOrderSize
  /\ slipped <= 1

\* Once trading ends, a projection that was ever ready shows the account, whatever pushes
\* were lost and whatever refreshes raced them (OnUserEvent, refresh).
Converges == <>[](ready => entries = account)
=============================================================================
