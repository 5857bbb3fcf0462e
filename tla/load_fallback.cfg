SPECIFICATION DesktopSpec
CONSTANTS
  Parts = {"load"}
  l1 = l1
  l2 = l2
  f1 = f1
  f2 = f2
  f3 = f3
  Loads = {l1, l2}
  Requests <- TestRequests
  LastBar = 3
  ChunkBars = 2
  OverlapBars = 1
  MaxRetries = 1
  CacheFiles = {f1, f2, f3}
  Listing <- TestListing
  Sizes = {1, 2}
  Configs <- TestConfigs
  MaxDays = 2
  StrategyDefaults <- TestDefaults
  Templates <- TestTemplates
  DataForms <- TestDataForms
  SymbolForms <- TestSymbolForms
  Imports <- TestImports
  ParamValues = {3}
  Accounts = {"fut"}
  MaxRows = 2
  MaxActions = 4
  Workers = {"m1", "m2", "s1", "s2"}
  WindowOf <- TestWindows
  KindOf <- TestKinds
  Combos = 2
  LastSecond = 2
  NoDir = NoDir
  NoWorker = NoWorker
  Stems <- TestStems
  Sources <- TestSources
  Paths = {"p"}
  BuiltIn <- TestBuiltIn
  MinuteLen = 2
  HourLen = 4
  DayLen = 8
  WeekLen = 16
  Items <- TestItems
  Tables <- TestTables
  Files <- TestFiles
  MaxLoads = 2
CHECK_DEADLOCK FALSE
INVARIANT FallbackAggregates
