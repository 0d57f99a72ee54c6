SPECIFICATION Spec
CONSTANTS
  Dirs <- DirsMC
  Callers = {c1, c2}
  Initial <- InitialMC
  Written <- WrittenMC
  Requests <- RequestsMC
  DefaultInterval = ""
  NoLimit = NoLimit
  NoOption = NoOption
  Absent = Absent
  Garbled = Garbled
  MaxEdits = 1
  MaxFaults = 2
  MaxCrashes = 2
  MaxCalls = 2
SYMMETRY Symmetry
CHECK_DEADLOCK FALSE
INVARIANTS
  CreationIsWhole
  SyncedIsListing
PROPERTIES
  DisabledStaysDown
