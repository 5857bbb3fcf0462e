SPECIFICATION Spec
CONSTANTS
  s1 = s1
  s2 = s2
  Symbols = {s1, s2}
  OrderIds = {o1, o2, o3}
  Ticks <- EngineTicks
  Requests <- LongRequests
  InitialBalance = 1000
  CommissionRate = 1
  Slippage = 0
  RejectShortWithoutPosition = TRUE
  MarketOrderPriceSource = "opposite"
  NoOrder = NoOrder
  NoTick = NoTick
  NoSymbol = NoSymbol
SYMMETRY SymmetricIds
INVARIANT ClosesAreCovered
