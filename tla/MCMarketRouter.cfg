SPECIFICATION RouterSpec
CONSTANTS
  TickerOnly = TickerOnly
  Streams <- AllStreams
  a = a
  b = b
  btc = btc
  m1 = m1
  m5 = m5
  Strategies = {a, b}
  Contracts = {btc}
  Intervals = {m1, m5}
  MaxRef = 4
  MaxCuts = 2
SYMMETRY Symmetry
INVARIANTS
  RouterTypeOK
  ActiveSubsAreLive
  NeverCutOff
  StreamsServed
