SPECIFICATION Spec
CONSTANTS
  p1 = p1
  p2 = p2
  lot1 = lot1
  lot2 = lot2
  dear = dear
  plain = plain
  slow = slow
  recall1 = recall1
  recall2 = recall2
  here = here
  there = there
  batch = batch
  ann = ann
  bob = bob
  s1 = s1
  s2 = s2
  Items = {i1}
  Listings = {p1, p2}
  Requests = {r1, r2}
  Stores = {shop, dc}
  Warehouses = {dc}
  Skus = {k1, k2}
  Prices = {1, 2}
  Changes <- MCChanges
  Nothing = Nothing
  minLength = 4
  maxInterKeyMs = 60
  maxAvgInterKeyMs = 35
  endTimeoutMs = 100
  Gaps = {20, 50, 80, 110}
  MaxKeys = 9
  Counted = {dear, plain, slow}
  Value <- MCValue
  Sold <- MCSold
  HighValue = 20
  Size = 3
  Products = {p1}
  Lots = {lot1, lot2}
  ProductOf <- MCProductOf
  FefoRank <- MCFefoRank
  MaxUnits = 2
  MaxAdjustments = 1
  Recalls = {recall1, recall2}
  ScopeOf <- MCScopeOf
  Members = {m1}
  Concurrent = FALSE
  StoreProducts = {here, there}
  ItemOf <- MCItemOf
  Numbers = {batch}
  Customers = {ann, bob}
  Anonymous = Anonymous
  Purchases = {s1, s2}
  Recalled <- MCRecalled
  Histories <- MCHistories
  HasEmail = {ann}
  HasPhone = {bob}
  Admins = {a1, a2}
  Channels = {"EMAIL", "SMS"}
  MaxRuns = 2
  MaxRecorded = 1
  LegacyGoods = {p1, p2}
  MaxShelf = 2
  NoLot = NoLot
  Locations = {1, 2, 3}
  Names = {1, 2, 3}
  Tags = {1, 2}
  MaxEdits = 1
  NoItem = NoItem
  Holders = {h1, h2, h3}
  Treasurers = {t1, t2}
  Pool = 10
  Holdings = {0, 1, 3}
  MaxTransfers = 2
  NoRun = NoRun
INVARIANTS
  CatalogConsistent
  
  MigrationExact
  CyclesKept
  OutreachHonest
  DividendSound
  CalculationsCorrect
PROPERTIES
  KeysHandled
  RecallEffective
CHECK_DEADLOCK FALSE
