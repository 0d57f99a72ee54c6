SPECIFICATION FairSpec
CONSTANTS
  MaxCrashes = 2
  MaxFailures = 2
  MaxStarts = 1
  MaxStops = 1
  MaxFaults = 2
  MaxProcs = 7
  MaxRecords = 8
INVARIANTS
  TypeOK
  RegisteredSubscribed
  CrashLoopCut
  StopLeavesNothing
PROPERTIES
  CrashedComesBack
