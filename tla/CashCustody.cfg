SPECIFICATION Spec
CONSTANTS
  online = online
  offline = offline
  MaxShifts = 2
  Sales = {online, offline}
  Synced = {offline}
  Price <- Prices
  Float = 1
  MaxDeposits = 1
  Amounts = {1, 3}
  MaxOpeners = 2
  GraceDays = 0
  LastDay = 1
INVARIANTS
  CashAccounted
PROPERTIES
  ConfirmedStaysBanked
  KeptCashIsFlagged
CHECK_DEADLOCK FALSE
