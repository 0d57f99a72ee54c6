SPECIFICATION FeedSpec
CONSTANTS
  s1 = s1
  s2 = s2
  Listeners = {s1, s2}
  TickerSubs = {s2}
  HistoryBars <- HistoryBarsMC
  KlineHistMax = 3
  PubBuf = 2
  MarketBuf = 2
  LastWindow = 4
  MaxTicks = 1
  MaxLaunches = 3
CHECK_DEADLOCK FALSE
INVARIANTS
  HistorySound
  CompleteView
