SPECIFICATION Spec
CONSTANTS
  s1 = s1
  o1 = o1
  o2 = o2
  o3 = o3
  c1 = c1
  c2 = c2
  s2 = s2
  Symbols = {s1, s2}
  OrderIds = {o1, o2, o3}
  Clients = {c1}
  Feed = feed
  Ticks <- RaceTicks
  Requests <- Buys
  InitialBalance = 1000
  CommissionRate = 1
  Slippage = 0
  RejectShortWithoutPosition = TRUE
  MarketOrderPriceSource = "opposite"
  NoOrder = NoOrder
  NoTick = NoTick
  NoSymbol = NoSymbol
INVARIANT CrossedNeverRests
SYMMETRY Symmetric
