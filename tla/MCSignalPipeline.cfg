SPECIFICATION Spec
CONSTANTS
  i1 = i1
  i2 = i2
  i3 = i3
  i4 = i4
  c1 = c1
  Signals = {i1, i2, i3, i4, c1}
  Opening = {i1, i2, i3, i4}
  SignalBuf = 1
  OrderBuf = 1
  MaxOpenOrders = 1
  CancelOnActivate = TRUE
  ListLimit = 2
  MaxActivations = 2
SYMMETRY Symmetry
CHECK_DEADLOCK FALSE
INVARIANTS
  TypeOK
  SlipBounded
  OpenOrdersBounded
  ActivationClears
