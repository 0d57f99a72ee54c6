SPECIFICATION Spec
CONSTANTS
  MaxCrashes = 3
  MaxFailures = 2
  MaxStarts = 1
  MaxStops = 0
  MaxFaults = 1
  MaxProcs = 8
  MaxRecords = 10
INVARIANTS
  OneProcessPerStrategy
