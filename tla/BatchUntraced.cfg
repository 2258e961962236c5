SPECIFICATION OutreachSpec
CONSTANTS
  here = here
  there = there
  batch = batch
  ann = ann
  bob = bob
  s1 = s1
  s2 = s2
  StoreProducts = {here, there}
  ItemOf <- MCItemOf
  Numbers = {batch}
  Customers = {ann, bob}
  Anonymous = Anonymous
  Purchases = {s1, s2}
  Recalled <- MCRecalled
  Histories <- MCHistories
  HasEmail = {ann}
  HasPhone = {bob}
  Admins = {a1, a2}
  Channels = {"EMAIL", "SMS"}
  MaxRuns = 2
  MaxRecorded = 1
INVARIANT
  BatchBuyersListed
CHECK_DEADLOCK FALSE
