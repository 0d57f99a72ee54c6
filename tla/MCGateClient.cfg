SPECIFICATION ClientFairSpec
CONSTANTS
  Blank = Blank
  FloatBelow = {1001}
  Size = 2
  Markets = {"perp", "spot"}
  Requests <- MCRequests
  Ids <- MCIds
  Written <- MCWritten
  BalancesWritten <- MCBalancesWritten
  Margins <- MCMargins
  Subs <- MCSubs
  ExchangeId = 11
  FrameCap = 2
  UserCap = 2
  MaxCuts = 1
CHECK_DEADLOCK FALSE
INVARIANTS
  ToldAsItIs
  ToldEverything
PROPERTIES
  CloseEnds
