SPECIFICATION Spec
CONSTANTS
  a = a
  b = b
  SettledSales = {s1}
  Carts <- MCCarts
  Settings <- MCSettings
  Payers = {payer1, payer2}
  PayoutAmounts = {4}
  MaxPaidOut = 8
  m1 = m1
  i1 = i1
  i2 = i2
  r1 = r1
  r2 = r2
  Members = {m1}
  Investments = {i1, i2}
  InvestorOf <- Investor
  Amount <- Invested
  Thresholds = {1, 2}
  Requests = {r1, r2}
  MaxChanges = 1
SYMMETRY Symmetry
INVARIANTS
  RefundsAddUp
  
PROPERTIES
  StoreConsoleNeverOverpays
CHECK_DEADLOCK FALSE
