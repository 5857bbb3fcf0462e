SPECIFICATION LiveSpec
CONSTANTS
  t1 = t1
  t2 = t2
  Servers = {"mock", "csv", "binance"}
  Tasks = {t1, t2}
  SymbolCounts = {0, 2}
  Files <- TestFiles
  Bursts <- TestBursts
  MaxRows = 4
  MaxAttempts = 6
  NoTask = NoTask
  Sources <- Preferred
  MayRefuse = {"mootdx", "tushare"}
  Chunks <- Requests
  Batches <- Replies
  MaxErrors = 2
  AShareSymbols = {"one", "two"}
  CtpSymbols = {"rb.SHFE", "au"}
  Instrument <- TestInstrument
  InstrumentIds = {"ag"}
  MaxQueue = 2
  Streams = {{}, {"a"}, {"b"}}
CHECK_DEADLOCK FALSE
INVARIANTS
  OneSource
  LateTicksBounded
  RunningIsTruthful
  FallbackOnFailure
  SubscriptionReaches
  CtpSubscribed
  LateTickAtMostOne
PROPERTIES
  TasksEnd
  ClosedStreamsEnd
