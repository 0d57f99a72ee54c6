SPECIFICATION FairSpec
CONSTANTS
  Unset = Unset
  Blank = Blank
  Bad = Bad
  Numbers <- NumbersMC
  Attempts = 3
  Files <- FilesMC
  Strategies = {"s1"}
  Subscribers = {"k1"}
  LogCap = 1
  MaxSets = 2
  MaxEvents = 2
  MaxFaults = 1
  MaxBoots = 2
CHECK_DEADLOCK FALSE
INVARIANTS
  AcceptedConfigWorks
  AckedStateSurvives
  WholeWhileNeeded
PROPERTIES
  ShutdownEnds
