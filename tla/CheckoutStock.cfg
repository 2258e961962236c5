SPECIFICATION Spec
CONSTANTS
  p1 = p1
  p2 = p2
  l1 = l1
  l2 = l2
  s1 = s1
  s2 = s2
  Products = {p1}
  Lots = {l1, l2}
  ProductOf <- OneProduct
  FefoRank <- FirstIsOlder
  Sales = {s1, s2}
  MaxUnits = 2
  MaxLine = 2
  MaxAdjustments = 1
  EventTypes <- SucceededOnly
  Offline = FALSE
  MaxRestarts = 0
SYMMETRY Symmetry
INVARIANTS
  TypeOK
  StockRollup
  HoldsMatchPending
  HoldsBacked
  ChargedSaleCanSettle
  UnitsAccounted
PROPERTIES
  FefoOrder
  ImplementsLedger
CHECK_DEADLOCK FALSE
