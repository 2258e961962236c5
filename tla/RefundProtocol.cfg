SPECIFICATION FairSpec
CONSTANTS
  p1 = p1
  l1 = l1
  l2 = l2
  s1 = s1
  s2 = s2
  r1 = r1
  r2 = r2
  Products = {p1}
  Lots = {l1, l2}
  ProductOf <- OneProduct
  FefoRank <- FirstIsOlder
  MaxUnits = 3
  MaxAdjustments = 0
  Sales = {s1, s2}
  CashSales = {s2}
  Allocated <- SoldFromBoth
  OnHand <- FirstIsEmpty
  Refunds = {r1, r2}
  NoRefund = NoRefund
  Overlap = FALSE
  LostReplies = TRUE
  MaxFaults = 2
INVARIANTS
  RefundsConsistent
  BooksMatchRefunds
PROPERTIES
  RefundSettles
CHECK_DEADLOCK FALSE
