SPECIFICATION FairSpec
CONSTANTS
  p1 = p1
  p2 = p2
  l1 = l1
  l2 = l2
  s1 = s1
  s2 = s2
  Products = {p1}
  Lots = {l1}
  ProductOf <- OneProduct
  FefoRank <- FirstIsOlder
  Sales = {s1, s2}
  MaxUnits = 2
  MaxLine = 1
  MaxAdjustments = 0
  EventTypes <- TerminalEvents
  Offline = FALSE
  MaxRestarts = 1
INVARIANTS
  PaidMeansCharged
PROPERTIES
  EverySaleSettles
  LostWebhookRecovered
CHECK_DEADLOCK FALSE
