SPECIFICATION Spec
CONSTANTS
  s1 = s1
  s2 = s2
  Symbols = {s1, s2}
  OrderIds = {o1, o2}
  Ticks <- PaperTicks
  Requests <- PaperRequests
  Strategies = {"demo", "any"}
  InitialCash = 100
  Volume = 2
  LotSize = 2
  MaxTicks = 3
  MaxSessions <- DemoReplays
  NoOrder = NoOrder
CHECK_DEADLOCK FALSE
INVARIANTS
  LedgerAgrees
  FilledOnce
  ReplayReproduces
