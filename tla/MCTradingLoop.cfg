SPECIFICATION FairSpec
CONSTANTS
  c1 = c1
  s1 = s1
  s2 = s2
  Contracts = {c1}
  Cash = Cash
  Strategies = {s1, s2}
  Signals <- SignalsMC
  PerUnit <- PerUnitMC
  Held <- HeldMC
  Symbols <- SymbolsMC
  Rules <- RulesMC
  Overrides <- OverridesMC
  MinSize = 1
  MaxSize = 3
  Divisor = 2
  UserBuf = 1
  StartTotal = 4
  MaxMoves = 1
  MaxDays = 1
  OrderBuf = 1
  MaxOrders = 2
CHECK_DEADLOCK FALSE
INVARIANTS
  FreshUnlessBehind
  LimitsKept
PROPERTIES
  Converges
