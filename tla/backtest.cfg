SPECIFICATION BacktestSpec
CONSTANTS
  s1 = s1
  s2 = s2
  Symbols = {s1, s2}
  SymbolOrder <- Ordered
  StartingCash = 2000
  SlipPercent = 10
  Mult = 1
  SizeStep = 1
  MinSize = 1
  AccountSpecs <- ThreeAccounts
  Calendars <- TwoCalendars
  Bars <- ThreeBars
  LastTime = 5
  Fast = 1
  Slow = 2
  AtrPeriod = 1
  AtrStopMult = 1
  RiskPercent = 20
  MaxPositions = 1
  NoValue = NoValue
  TrendCash = 100
  TickSize = 2
  BarsPerDay = 2
  TrendAtrMult = 2
  DonSymbols = {s1}
  DonOrder <- OnlyOne
  DonBars <- TrendBars
  DonAccounts <- TrendAccounts
  DonLastBar = 6
  Channels <- TrendChannels
  EntryModes = {"range", "range_then_close"}
  BreakoutAddTicks = 0
  TrailLv1 = 1
  TrailLv2 = 2
  TrailLock = 1
  RiskCash = 30
  CtaBars <- QuietOrFalling
  CtaAccounts <- AtTheOpen
  CtaLastBar = 4
  Feeds = 4
  Signals <- TrendSignals
  CtaRiskPercent = 30
CHECK_DEADLOCK FALSE
INVARIANTS
  AcceptedIsFilled
  BooksAgree
  StaticEquityAgrees
  WaitingOrdersCounted
  StopsMatchPosition
PROPERTY StopsOnlyTighten
