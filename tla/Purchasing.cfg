SPECIFICATION Spec
CONSTANTS
  p1 = p1
  p2 = p2
  l1 = l1
  l2 = l2
  l3 = l3
  o1 = o1
  r1 = r1
  r2 = r2
  Products <- TwoProducts
  Lots <- ThreeLots
  ProductOf <- LotProduct
  FefoRank <- LotRank
  Orders = {o1}
  Requests = {r1, r2}
  PoLines <- LineSets
  MaxUnits = 1
  UnitCosts = {2, 5}
SYMMETRY Symmetry
INVARIANTS
  OrdersTruthful
  ReceivedNeverOverstated
  CostWithinPrices
CHECK_DEADLOCK FALSE
