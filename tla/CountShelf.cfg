SPECIFICATION CountingSpec
CONSTANTS
  p1 = p1
  l1 = l1
  c1 = c1
  c2 = c2
  k1 = k1
  k2 = k2
  u1 = u1
  u2 = u2
  NoKey = NoKey
  Products = {p1}
  ProductOf <- OneProduct
  FefoRank <- OneRank
  Lots = {l1}
  MaxUnits = 2
  MaxAdjustments = 1
  Counts = {c1, c2}
  Keys = {k1, k2}
  Staff = {u1, u2}
  OnHand <- TwoOfOne
  MaxLosses = 1
  Racing = FALSE
  good1 = good1
  good2 = good2
  label1 = label1
  label2 = label2
  upcShort = upcShort
  upcLong = upcLong
  Goods = {good1, good2}
  LabelLots = {label1, label2}
  GoodsOf <- OneLotEach
  Codes = {upcShort, upcLong, other}
  SkuCodes = {upcLong, other}
  Expansion <- ShortForLong
  Gtins = {upcShort, upcLong}
  Clerks = {clerk1, clerk2}
  Nobody = Nobody
SYMMETRY Symmetry
INVARIANTS
  CountsConsistent
  BooksCoverShelf
  
PROPERTIES
  ApprovalFaithful
CHECK_DEADLOCK FALSE
