SPECIFICATION FairSpec
CONSTANTS
  o1 = o1
  x1 = x1
  x2 = x2
  NoOrder = NoOrder
  NoId = NoId
  Orders = {o1}
  ExIds = {x1, x2}
  MaxRetries = 1
  CmdCap = 1
  UserCap = 1
  DropAt = 1
  EventCap = 2
  MaxFaults = 1
  MaxDowns = 1
INVARIANTS
  TypeOK
  PlacedOnce
  LiveOrdersOnRecord
  FinalStatesAreReal
  ViewConverges
PROPERTIES
  FinalStateArrives
  KeepsPromise
