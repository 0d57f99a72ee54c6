SPECIFICATION LogSpec
CONSTANTS
  s1 = s1
  s2 = s2
  AllStrategies = AllStrategies
  NoTime = NoTime
  Strategies = {s1, s2}
  LogQueue = 1
  StreamBuf = 1
  DefaultTail = 1
  MaxTail = 2
  Tails = {0, 3}
  Retention = 3
  MaxInstant = 3
  MaxRows = 3
  MaxWriteFailures = 1
SYMMETRY Symmetry
CHECK_DEADLOCK FALSE
INVARIANTS
  StreamedOnce
  FoundToTheSecond
