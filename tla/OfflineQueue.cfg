SPECIFICATION QueueSpec
CONSTANTS
  p1 = p1
  l1 = l1
  s1 = s1
  Products = {p1}
  Lots = {l1}
  ProductOf <- MCProductOf
  FefoRank <- MCFefoRank
  Sales = {s1, 1, 2}
  MaxUnits = 2
  MaxLine = 1
  MaxAdjustments = 0
  EventTypes = {}
  Offline = TRUE
  MaxRestarts = 0
  Keys = {1, 2}
  Tabs = {t1, t2}
  Baskets = {1, 2}
  CartOf <- MCCartOf
  NoBasket = NoBasket
  NoKey = NoKey
  Till = Till
  MaxLosses = 2
INVARIANTS
  QueueFaithful
  OversellAccounted
  LastChanceRefused
PROPERTIES
  QueueDrains
CHECK_DEADLOCK FALSE
