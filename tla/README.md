# Verification of quant_simulation_frame

TLA+ models of this repository, the TLC configurations that check them, and theorems about
them that TLAPS proves. Definitions are translations of the source; `PROJECT.json` maps each
to its lines. Paths below are relative to the repository, with `LAB/` for
`my_bt_lab_institutional_starter_new/my_bt_lab_institutional_starter/my_bt_lab/`.

Run a check with `tlc -config engine.cfg MCSimulationEngine`, and a proof with
`tlapm LiveProofs.tla`, in this directory.

## 1. The system

The repository holds two programs that share no code.

**python-bridge** is an HTTP and WebSocket server. A market-data source feeds ticks into a
paper-trading engine; clients submit and cancel orders.

| part | state | operations | hard about it |
|---|---|---|---|
| `simulation/engine.py`, `models.py` | account, positions, orders, `active_order_ids`, trades, last ticks | `submit_order`, `cancel_order`, `on_tick` | matching at submission and at each tick must leave no gap; average-cost accounting; derived sums kept beside the data |
| `bridge_server.py`, `csv_replay_server.py`, `binance_bridge_server.py`: endpoints | one `BridgeState`: engine, lock, flags | submit, cancel, reset, snapshots | `publish_tick` holds `state.lock` on the event loop; the plain `def` endpoints run on worker threads and never take it |
| the same files: sources | task, running flag, counters, backoff | start and stop of mock, CSV, Binance | a task is cancelled at its next await only; reconnection; end of file; a restart overlaps the old task |
| the same files: events | WebSocket clients | broadcast | payloads are serialised at emission and sent later; a client is added before its snapshot is sent |
| CTP gateway (`run_gateway_md.py`, `connect_gateway`) | flags | connect, subscribe | external library |

**my_bt_lab** is a backtesting and live-paper laboratory.

| part | state | operations | hard about it |
|---|---|---|---|
| `LAB/live/` paper trading: `run_paper.py`, `sim_broker.py`, `matching.py`, `recorder.py`, `replay_gateway.py`, `demo_strategy.py` | cash, positions, order book, recorded file | `run_loop`, submit, cancel, match | the process may die at any await; the file outlives it; a replay must reproduce the session |
| `LAB/live/auto_ashare.py` and four polling sources | current source, subscriptions, stop flags, error counts | `ticks`, `close`, `subscribe` | other tasks call `close` and `subscribe` while a poll is awaited |
| `LAB/live/simnow_ctp.py` | subscriptions, login status, queue | connect, subscribe, close, callbacks | the CTP library calls back on a thread of its own |
| `LAB/live/binance_spot.py` | symbols, connection, stop flag | ticks, subscribe, close | reconnection with `close()` at any await |
| `LAB/engines/simple_engine.py`, `LAB/core/` | `SimpleBroker`, strategy, schedule of orders, equity curve | one bar of one timeline at a time | orders execute at the next bar *of their symbol*; two account modes; statistics kept beside the ledger |
| `LAB/engines/backtrader_engine.py`, `LAB/brokers/`, `LAB/strategies/`, `LAB/analyzers/`, `LAB/market_rules/` | orders at work, per-symbol strategy state, trailing stops, fill and snapshot ledgers | the library's callbacks | the life of an order is seen through notifications that come before `next()`; books are kept three times over |
| `LAB/data/tushare_loader.py`, `cache_cleanup.py` | cache files | cached, incremental, full load; clean-up | files outlive the process, are rewritten in place and read by others meanwhile |
| `LAB/data/loaders_bt.py`, `loaders_df.py`, `normalize.py`, `tick_aggregator.py` | connection and tunnel of a load | loads from files and PostgreSQL | ticks become bars in the database or, if that fails, in the program; the two must agree |
| `LAB/app/mt4_desktop.py`, `desktop_support.py` | one configuration, shown as widgets and as JSON | templates, tables, fields, sync | a handler runs in the middle of loading a template; fields that no button has stored |
| `LAB/app/mt4_desktop.py`, `simple_desktop.py`, `LAB/reporting/writer.py` | worker threads, run directories, `__simple_runtime.yaml` | start, finish, show, open history | several runs in one second, in one window or two; signals arrive in any order |
| `LAB/registry/strategy_registry.py` | explicit, discovered, external strategies | refresh, load a file, choose | names compete for keys; files change under a running application |
| `LAB/config/`, `LAB/reporting/html_report.py`, other `LAB/app/`, `scripts/`, SQL | none between calls | | |

What could go wrong in each part without a test noticing is listed line by line under
`hazards` in `PROJECT.json`, with the property that would show it.

## 2. Modules

| module | models | how it corresponds |
|---|---|---|
| `SimulationRules` | `models.py` and the pure parts of `engine.py` | data classes are sets of records; validation, match price, slippage, booking and average-cost accounting are operators shared by the two modules below |
| `SimulationEngine` | `SimulationEngine` driven by one caller | `SubmitOrder`, `CancelOrder` are whole calls. `on_tick` is a loop: `TickArrives` stores the tick, marks and lists the active ids, `MatchNext` is one turn, in any order of the ids because they come from a set, `TickDone` emits the account |
| `OrderMatching` | what `on_tick` promises (abstract) | a tick executes, at one moment, all the orders it reaches |
| `BridgeSimulation` | `publish_tick` and the endpoints as threads around the engine | `pc` and `frame` are the position and the locals of each thread; a step is the code between two switch points. `held` are the keys of `positions`: the walk over them at the start of `on_tick` and after each trade is a step at whose end they must be what they were at its beginning, or the tick ends in `MarkingFails` |
| `TickSource` | start, stop and loops of the three servers' sources | each asyncio task has a `pc`; `inside` is the task that the event loop runs, so nothing else happens until it awaits; CPython objects of asyncio are external definitions |
| `PaperTrading` | `run_paper.py` and what it calls | `pc` follows `run_loop` from await to await; `Killed` ends the process at any await; `file` survives; the next session is live or a replay of the file |
| `AShareGateway` | `auto_ashare.py` and the polling loop of its four sources | `pc` follows the generator from await to await; `Close` and `Subscribe` come from other tasks at every await |
| `CtpGateway` | `simnow_ctp.py` | `ctp` and `loop` belong to the event loop, `api.callback` is where the callback thread is: `subscribe()` replaces the list, looks for the login and sends in three steps, `on_rsp_user_login` sets the status and sends in two |
| `BinanceGateway` | `binance_spot.py` | `spot.at` is the await at which `ticks()` stands; `subscribe()` and `close()` come at each |
| `SimpleBroker`, `SimpleEngine` | `simple_engine.py`, `core/`: the broker's arithmetic; the strategy and the bar loop | `phase` follows one turn of the loop: execute the orders due, show the bars to the strategy, take the snapshot |
| `Backtrader` | the account set-up, commission scheme and analyzers of the lab, and the library's broker as far as the lab relies on it (external) | a turn is two steps: the bars, in which orders fill and are notified, and `next()` with the snapshot. An account is any of both modes with any multiplier, as `_build_comminfo_from_cfg` takes it: a cash account pays price times size and earns profit times multiplier |
| `DonchianDailyMtf`, `CtaTrend` | the two strategies | `Backtrader` extended with their state; `notify_order` is part of the fill that calls it, `next()` goes over the symbols in their order. `CtaTrend` sizes an entry by what `getvalue()` of `safe_backbroker.py` returns, for a single feed the starting value for ever |
| `DonchianInvariants`, `CtaInvariants` | the same two, with what is proved of their broker | `Protected` and `Matching` say what the state of a symbol and the note of an order (`order_meta`) are for a position of a given size |
| `Backtests` | the engines that `engines/factory.py` starts, as one specification | `engine` is chosen at the start; the parts that a run does not use stay where they began |
| `TushareCache`, `CacheCleanup` | one cached series and the loads that share its file; what a backtest deletes | `load[l].at` is the position in `fetch_tushare_ohlcv`, a chunk at a time; `CrashWriting` leaves a part of the file; a table is the set of its bars' times |
| `DataLoad` | both loaders, tick aggregation, queries, connection and tunnel | `job.at` follows one load; `session` is what is open; bars are computed by two definitions, `PostgresTickToBar` and `AggregateTickToBar`, as the SQL and pandas do: where the order of rows of one time is open, the SQL's bars are a set of which any may come |
| `DesktopEditor` | the form of the strategy tester | an action is one thing the user does, with all the handlers it sets off; a table has its rows, its selected row and the fields beside it; `DataRowOf` and `ItemOf` are the two conversions of an item, `BuildCfg` says which sections are written over, made anew or kept |
| `DesktopRuns` | runs from the button to the view, and `reporting/writer.py` | a worker is a thread with a position; `cfg_files` are the files that configurations are written to, one for each backtest of the strategy tester and one for all simple windows; the slots of a window are steps of their own, which the event loop takes when it gets to them |
| `Rows` | rows of a table, frame or form that a condition picks (`Where`) | a fold from left to right, as the loops and masks of `DataLoad` and `DesktopEditor` are |
| `StrategyRegistry` | the registry and the list in the simple window | `package` is what is on disk, `modules` what the process has imported, `registry` what it can find |

`MC*` modules give TLC its values. Three modules compose parts that share no state: `MCSources`
the live tick sources, `Backtests` the engines of the laboratory, `MCDesktop` what the desktop
applications use. In each a behaviour is of one part and the others stay at their first state,
so that one run covers them all. `*Proofs` modules
hold the theorems.

Composition proper: `SimulationEngine` and `BridgeSimulation` extend `SimulationRules`, so the
races are checked with the accounting that the sequential theorems are about; both strategies
extend `Backtrader`; `SimulationEngine` instantiates `OrderMatching` with a refinement mapping:
while the loop of `on_tick` runs, the abstract book (`bookAtTick`) already shows every order
that is still `Ahead` of the loop and that the tick reaches as executed.

### Abstractions

- Prices and volumes are integers. `Slippage` and `CommissionRate` are constants; floating
  point is left out, so rounding is out of scope, except the rounding to ticks and steps that
  the strategies do themselves.
- Message texts, ids' spelling and display rounding are left out. A reason of refusal is
  reduced to the fact of it.
- The unlocked threads may switch at calls and at loop back edges, where CPython 3.13 (the
  version that `python-bridge/README.md:16` names) checks for it. A single attribute update
  is one step. `BridgeSimulation` leaves out the events and the number that the marking of
  positions computes, not the walk over them.
- In `TickSource` and the gateways the content of a row is "tick" or "bad"; prices and column
  names are not modelled. That the engine raises inside `publish_tick` is (`EngineRaises`).
- In `SimpleEngine` prices are scaled integers and percentages are whole; the loading of
  data, short margins and the report are left out.
- In `DonchianDailyMtf` and `CtaTrend` the values of the indicators are arbitrary; how feeds
  are resampled is left out.
- In `DesktopEditor` widgets that are copied to the configuration and back one by one are one
  value, `account`; what stays without a widget is `hidden`, what is dropped `unshown`. In `DesktopRuns` a result is two files, `config.yaml` and the rest.
- In `DataLoad` an hour has `HourLen` parts of a minute and so on; a row is a time and a price,
  0 for a price that is missing or cannot be read. Rows without a time are left out: the program
  drops them, and the bars the database makes of them fail in the normalisation.

## 3. Runs

| run | shows | bounds |
|---|---|---|
| `engine` | `ActiveIffOpen`, `OneTradePerOrder`, `NoRestingCross`, `UnrealizedFresh`, `EventsComplete`, `CashFlowIdentity` and the refinement `AtTheTick` | three orders, two symbols, any number of ticks of five kinds: two spreads, a limit-down tick without a bid, a limit-up tick without an ask, and one tick of the second symbol. Three orders are the fewest with which a position is opened, increased and closed, or with which a tick meets two orders and a third follows. Prices are multiples of 840 * 840, so that two successive averages divide exactly |
| `engine_overclose` (violation) | `ClosesAreCovered`: two resting closes pass the position check one after the other | the same, long requests only |
| `engine_determinism` (violation) | `Deterministic`: the account depends on the order in which a set is walked | the same, one symbol, no slippage |
| `bridge` | `BalanceIdentity` in every state; `ActiveIffOpenWhenQuiet`, `NoRestingCrossWhenQuiet`, `TradesSettledWhenQuiet` when no call is in progress; `CrossedIsTraded` | two workers and the feed, two symbols, two orders, any number of ticks of a low and of a high market. Three threads meet in every pair of places; a race in this code is between two calls on one order, on one position or, in the marking, on two symbols. `BoundedSpec` cuts what repeats: ids come in order, the second worker keeps to the first symbol, and a third order comes only while a tick marks the positions, in a low market without cancellations: it is the fewest with which a tick that has traded one order breaks off before it visits another, while a third enters the second symbol |
| `bridge_abandoned` (violation) | `CrossedNeverRests`: the same without the exception of `NoRestingCrossWhenQuiet` | one worker, three purchases, both markets |
| `bridge_double_fill` (violation) | `OneTradePerOrder`: a worker and the loop trade the same order | one worker and the feed |
| `sources` | bridge servers: `OneSource`, `LateTicksBounded`, `RunningIsTruthful`, `TasksEnd`; gateways: `FallbackOnFailure`, `SubscriptionReaches`, `CtpSubscribed`, `LateTickAtMostOne`, `ClosedStreamsEnd` | two tasks, files of at most two rows (`MaxRows` 4 rows replayed in all), `MaxAttempts` 6 failed connections, one more than the delay needs to reach its limit; four A-share sources in the code's order, two of which may refuse to connect, at most `MaxErrors` 2 failed polls; two CTP symbols and one of the configuration, `MaxQueue` 2 ticks nobody has taken, which is one more than may come late |
| `paper` | `LedgerAgrees`, `FilledOnce`, `ReplayReproduces` | two orders, two symbols, four kinds of tick, `MaxTicks` 3 per session, three sessions of the demo strategy, one of any strategy |
| `backtest` | `AcceptedIsFilled`, `BooksAgree`, `StaticEquityAgrees`, `WaitingOrdersCounted`, `StopsMatchPosition`, `StopsOnlyTighten` | simple engine: two symbols, five times, three shapes of bar, two calendars (one with a gap), three accounts; five bars are the fewest in which a position is entered, left, and entered again. Donchian: one symbol, six bars of two a day, four shapes of bar, so that an exit and an entry meet a new day. cta_trend: two symbols, four turns. The backtrader accounts include cash with a multiplier |
| `backtest_reentry` (violation) | `ReentryBreaksTheDay` | the Donchian part of the same |
| `desktop` | `LoadIsComplete`, `CleanupTakesTheOldest`; `FormAndConfigurationAgree`; `RunsAreSeparate`, `WindowShowsWholeRun`, `RunButtonReturns`; `NoStrategyIsLost`, `ChosenIsRegistered`; `BarsAreTheTicks`, `NothingLeftOpen` | two loads of a series of `LastBar` 3 bars in chunks of 2 that overlap by 1, so that a window has a border between chunks; three files and `MaxDays` 2; three templates, tables of `MaxRows` 2, `MaxActions` 4 things the user does; two backtests at a time in three windows, `LastSecond` 2, two combinations; two modules of the package and one file outside; tables and files of ticks over two hours and two days, with rows of one time, rows without a price and rows out of order, `MaxLoads` 2 one after another |
| `load_fallback` (violation) | `FallbackAggregates` | the loading part of the same |

Symmetry is declared for the ids of orders (and for workers) in runs without liveness only; ids
are random strings that the code compares for equality.

Every property of a passing run has a mutant in `PROJECT.json`: a definition of the model
changed as a plausible bug would change the code, with which TLC finds the property violated.

### Conditions inside the properties

- `WaitingOrdersCounted` speaks of equal data in the simple engine: with a gap in one symbol the
  strategy decides on another without counting the order that waits.
- `NoRestingCrossWhenQuiet` and `CrossedIsTraded` except the orders in `abandoned`: those that a
  tick of their symbol had still to visit when it broke off, until the next tick of the symbol.
- `StaticEquityAgrees` covers both modes of the simple engine but only cash accounts on
  backtrader. There the snapshot counts what is held at cost times multiplier, of which the broker
  was paid the cost only (`LAB/analyzers/snapshot_ledger.py:124`): the property names the
  difference, `(mult - 1) * PaidCost`, by which the equity is off while a position is held. In
  futures mode the snapshot adds the whole notional to a cash that has lost the margin only
  (section 5).
- `BarsAreTheTicks` is about ticks in PostgreSQL and in csv files and about periods that divide
  the hour or the day. For others the two aggregations count from different origins (two days, 40
  minutes), and the database leaves the ticks of a weekly or monthly item as they are. It allows
  two differences that the code has: nothing orders ticks of one time (`ROW_NUMBER` sorts by day,
  time and milliseconds, and no key in `LAB/sql/ddl.sql` excludes equal ones), so either may give
  the open or the close; and of ticks without a price the database makes a count but no bar that
  begins or ends with one, while the program drops them.
- `ClosedStreamsEnd` excepts a Binance `close()` while a connection is being opened: it closes
  the previous connection, and the new one is used until it ends by itself.
- `TasksEnd` excepts one state, `LoopIsStuck`: replaying an empty file in a loop never awaits,
  and the server serves nothing from then on.
- `RunsAreSeparate` excepts the configuration, not the directory, of a simple window's run whose
  runtime file another simple run overwrote after it was written and before it was copied
  (`disturbed`). Runs that do not overlap in that stretch are not excepted.
- `LoadsTheTemplate`, a part of `FormAndConfigurationAgree`, names what `build_cfg_from_form` and
  the table do not take over: the HTML report is switched off (`LAB/app/mt4_desktop.py:1807`); of
  the sections postgres and tushare the keys without a widget are dropped and an overlap of 0 days
  becomes 3 (`:1765-1796`); a file's `ts_code` comes back as its `code`
  (`LAB/app/desktop_support.py:480`, `:609`) and its column mapping not at all; a period that the
  box of the shown row does not list, such as hours, becomes the one the box showed before
  (`LAB/app/mt4_desktop.py:1210`), and a missing one becomes days. Parameters that a template does
  not give may stay from the former strategy.

### Deadlock

`paper` and the runs named `backtest` may stop because their programs end; `sources`,
`desktop` and `load_fallback` because their bounds are used up. The others check for deadlock.

### Fairness, and why

- `bridge`: weak fairness of each thread inside a call. The interpreter runs every runnable thread, and the lock is only ever held by the feed. Nothing makes a client call or a tick come.
- `sources`: strong fairness of the event loop for each task, since asyncio serves ready
  tasks in turn and a task becomes ready again and again; and of the outcome of a connection
  attempt, which has `open_timeout`. For the gateways weak fairness of the generator's own
  steps: a request returns or raises, a pause ends; and strong fairness of the end of a
  connection that was closed. Nothing makes the exchange send anything or anybody call `close`.
- `desktop`: weak fairness of a worker's own steps, since an engine and its files take finite
  time, and of the slots, since the window's event loop serves every signal. Nothing makes a
  user start a run.

## 4. Proofs

All theorems are for every value of the constants that meets the named assumptions. These say
what the code takes for granted of its configuration and data: `ConfigAssumption` (prices and
volumes are integers, requests and ticks are well typed), `SymbolsAreFinite`, `ThreadAssumption` (the feed is not a
worker, and the value for "no order" is not a trade), `SourceAssumption` (limits are natural
numbers, and the largest of them is one),
`PaperAssumption`, `BrokerAssumption` and `EngineAssumption` (slippage between 0 and 100 %, a
multiplier and steps that are not 0, a calendar for every symbol, every symbol configured once),
`TrendAssumption` (the same of a backtrader run, prices that are positive and a stop that is a
positive multiple of the ATR away),
`GatewayAssumption`, `BoundsAssumption` (chunks are not empty), `RunsAssumption`,
`RegistryAssumption` (the package has strategy files, none is also a built-in or an outside
one, and the built-in ones are finitely many), `CleanupAssumption` (finitely many files, no two
at one place of the listing), `LoadAssumption` (a day has whole hours and an hour whole minutes,
and rows are well typed; any number of them may have one time or no price) and
`EditorAssumption` (rows and templates are well typed, the items of a template have one of the
sources the loaders know, and its items and symbols have names: rows without one are dropped,
`LAB/app/desktop_support.py:537` and `:663`). `BacktraderAssumption` and its part in
`TrendAssumption` leave the multiplier of an account free in both modes. Each is
evaluated by TLC in the run of its module.

| module | theorem | argument |
|---|---|---|
| `FoldLemmas` | `FoldAppend`, `SequenceInduction`, `SetInduction`, `FoldOverAny` | what a left fold over a sequence and a sum over a finite set compute. The community modules define both by a `CHOOSE` of a recursive function; that there is one is proved from the least number of a set of naturals. Modules that reason about a loop instantiate this one with its step |
| `LiveProofs` | `TypeCorrect`, `PositionsSound`, `BalanceConserved`, `ActiveSetExact`, `TradedOnce`, `FinishedStays`, `NoGapInMatching`, `UnrealizedNeverStale`, `EventsSuffice` | first what each rule returns, by its definition (the bridge's proofs state the same of the rules they use). `Inv` = types, no negative position, a flat side forgets its price, and `LoopSound` (what the loop still has to visit). The others follow from it, each with its own strengthening: `NoRestingCross` needs that an order that is crossed in mid-loop is still to be visited |
| | `TicksAreMoments`: `Spec => AtTheTick` | the arrival of a tick is the abstract step; a turn of the loop leaves the abstract state as it is, because an order that is visited goes from `Ahead` to booked; `ActiveIffOpen` says that nothing outside the active ids could have been reached, and `OwnTicks` that a symbol's last tick is its own |
| | `CashExplained`: `Spec /\ [][AveragesAreExact]_vars => []CashFlowIdentity` | `CashInv` adds to the identity that a position never holds less than what was opened and not closed (`NothingMissing`). So if closes are covered after a trade they were before it, and a closing trade took its whole volume; then a trade's profit less the change of what the positions cost is what its cash flow was (`ProfitIsFlow`). The code divides floats, the model integers: the identity is about behaviours in which the averages of opening trades are whole numbers. In the run every one of them is |
| | `OneSourceAtATime`, `LateTicksEnd`, `RunningFlagExplained` | tasks that are neither cancelled nor done are the one that `state.source_task` names; a cancelled task has as many late ticks left as its burst at the cancellation, which its label bounds |
| | `SubscribedOnBothThreads`, `OneLateTick` | `InHand`: an instrument that a logged-in session has not been asked for is in the hands of the login callback (yet to send) or of `subscribe()` (yet to look, or to send). Each of the two writes before it looks at what the other has written, so they cannot both miss it |
| | `FallbackIsOrdered`, `SubscriptionIsUsed`, `FailureIsReported` | what each `pc` implies of the current index, of the sources that raised and of the subscription; `FailureIsReported`: the error "all sources failed" needs failures of all of them, or a `close` |
| `BridgeSimulationProofs` | `TypeCorrect`, `BalanceConserved`, `PositionsNatural` | what a thread at each label knows of its locals, and that no other thread can take it back: stored orders stay stored, trades are never removed |
| | `ActiveOrdersAreOpen`, `NoOrderIsForgotten` | `RaceInv` names who is responsible. An open order that is not active, or an active one that is finished, is in the hands of a thread at `drop` or before. A crossed open order is in the hands of the thread that submits it (not past the look at the last tick), of the feed (marking, listing, or with the id still to do) or among those that a tick has abandoned: at the labels `value` and `walk` the feed still has everything to visit, and `MarkingFails` hands exactly that over to `abandoned` |
| | `EveryTradeIsSettled` | `RecordInv`: a trade that is recorded and not yet in the position or the balance is in the hands of one thread, whose label says which of the two is left to do; positions, margins and fees are sums over the trades, less what the threads still hold. When no call is in progress nothing is held |
| `PaperTradingProofs` | `OrdersFillOnce`, `LedgerAddsUp` | an order that waits is in the book once and has no fill; a tick's matching is a fold over the book that moves an order to the fills with its money |
| | `ReplayIsFaithful` | a session of the demo strategy is a fold of a pure function over the ticks it has read; the file holds the ticks of the recorded session in order; so two sessions over a common prefix of ticks place the same orders |
| `SimpleEngineProofs` | `QueuesAreSound`, `AcceptedOrdersAreFilled`, `PositionsAreBounded` | `EngineInv`: the queue of each time holds the orders accepted for it, each once, each for the next bar of its symbol; no symbol has two orders under way; a sale is of all that is held and a purchase of what is not held. When the strategy decides at a bar of a symbol, no order of that symbol waits, since it would have been due at that bar. `SlotsOK` counts positions, new orders and waiting orders together |
| | `StaticEquityExplained`, `ClosedTradesAddUp` | `MoneyInv`: static equity plus the commissions of the open trades is the starting cash plus the profit of the closed ones, in every state; an equality that only holds when nothing is held is not inductive. The average price of a position is exact because a purchase is made from nothing |
| | `StopsOnlyRise` | while a position is held its stop becomes the greatest of the old one and the new one, by a fold over the symbols of `on_bar`; that needs no more than types |
| `BacktraderProofs` | lemmas | what the account and the analyzers' books do with an order that fits: it enters from flat, is refused, or leaves with all that is held. `BookInv(E)`, for entries of sizes in `E`: the broker's cash and what is tied up in its positions add up to the starting cash plus the fills' profit less their fees, and the closed trades lag behind by the opening fees of the open ones only (`Books`); the ledger's positions are the broker's (`Follows`); every order that waits fits the position it is for and has not been filled (`QueueRead`). Tied up is what was paid for them in a cash account, whatever the multiplier, and in a futures account the margin less what the marking has already paid. A turn with any number of orders is a fold that keeps it, and so is marking to the market |
| `BacktestProofs` | `BacktestBooksAgree`, `BacktestStaticEquity`, `BacktestOrdersCounted` | `AllInv` puts the invariants of the three kinds of runs together. For backtrader they are `BookInv` for both strategies: one order for each symbol in a turn, and none while another is at work, makes every order fit when its bar comes. cta_trend's `E` is the positive sizes, which is why it is never short |
| | `StopsBelongToPositions`, `BacktestStopsTighten` | `DonInv`: the fields of a symbol's state follow the size of its position (`Protected`), and the note of an order that waits says what the fill will make of it (`Matching`). `notify_order` is a fold over a turn's notes that goes with the fold over its orders. A stop is a whole number of ticks, so a price at or beyond it stays there when it is rounded (`NoTickPassed`): the rounding of every bar gives nothing back |
| `DesktopProofs` | `LoadsAreComplete` | `CacheInv`: what a load has merged reaches from the start of its window to where its chunks are, whatever another load, a crash or a clean-up does to the file, because a load goes on from the rows it has read itself and writes what it holds |
| | `RunsNeverMix`, `WindowsShowWholeRuns` | `OwnDir`: who is at work in a directory is its only user, which a new directory cannot change because it was not there before; `OwnConfig`: from writing its configuration to copying it, and no longer, the file a run reads holds what it wrote for this combination, or another simple window has overwritten it in just that stretch (`Exempt`); `CopyKept` says the same of the copies. The strategy tester's files are never anybody else's; `WindowInv`: a result waits in a slot only after its run has written all its files |
| | `RegistryIsWhole`, `NothingIsLost` | `RegInv`: what Python keeps of its imports has strategies of those files only; the registry is a fold over files and classes, and by induction over them every class found comes from a file that imported. `Yields` says that a registry keeps every key of another or puts a named strategy over it: each class and each file added does so, since a class without a name gets a key that nothing has (one of the first n + 1 numbers is free among n keys) |
| | `NothingStaysOpen` | `OpenInv`: what is open at each label of a load, on its ways out as well |
| | `BarsTellTheTicks` | `BarsInv` says what each label of a load holds: bars that tell the rows of the item's own window, or those rows in an order that the database may give them, a permutation by time. The first and the last rows of a period are sets, of which either definition takes a member; a permutation maps them, the prices and the counts of a period to themselves. That the buckets of the database and those of pandas are the multiples of the period follows from the period dividing the hour or the day |
| | `CleanupsTakeTheOldest` | the order in which files are tried exists and is the only one, because ages and places in the listing order them strictly. The second pass is a fold over it; its invariant is that the total is that of the files not yet gone, that every file in front of one that is gone is gone or stuck itself, and that while the total is above the cap every file so far is one or the other (`Swept`). The rest is about sums over sets and their cardinality |
| | `FormsAgree` | `EdInv` is the agreement and what the widgets hold (`WidgetsOK`: each table has rows, and the selected one is among them or there is none). What a table shows, stored and read back, is a chain of `Where` and folds; that rows with names survive it, the shown one as its box lets it, is an induction over the rows; `ItemComesBack` follows an item through its row and back. That the configuration built in the middle of loading leaves the new template alone is seen by following `load_template` from one widget to the next |

Only model-checked: liveness (`CrossedIsTraded`, `TasksEnd`, `ClosedStreamsEnd`,
`RunButtonReturns`), because fairness and ENABLED are out of the prover's reach.

Every invariant and every action property of a passing run is stated by a theorem above.
That the books of cta_trend agree on a single feed as well (`Feeds` 1) is proved only: the run has two
symbols.

## 5. What the checks found

Six runs show the code at odds with what its comments, docs or tests say:

1. `engine_overclose`: a closing order reserves nothing, so a second one passes the check
   "not enough position to close" and is filled in full against what is left (`engine.py:218`).
2. `engine_determinism`: "intentionally deterministic" (`engine.py:31`), but the loop walks a
   set of random ids (`engine.py:105`).
3. `bridge_double_fill`: without `state.lock` in the endpoints an order trades twice
   (`bridge_server.py:533`).
4. `bridge_abandoned`: a client's first trade in a second symbol changes `positions` while a tick
   walks over it to mark them. `on_tick` raises, the orders it had still to visit stay at rest
   although they are crossed, and in the servers the source's task fails or reconnects
   (`python-bridge/simulation/engine.py:243`).
5. `backtest_reentry`: an exit filled at the first bar of a day is forgotten when `next()` begins
   that day, and the strategy enters again without the break that its docstring asks for
   (`LAB/strategies/donchian_daily_mtf.py:270`).
6. `load_fallback`: the loader of the simple engine announces a fallback to local aggregation and
   does not aggregate (`LAB/data/loaders_df.py:131`).

Two more disagreements are plain from one line of the code and have no run. A limit order fills at
the last price though the tick has both quotes (`LAB/live/matching.py:95`), where the docstring
asks for the quote to be reached (`:14`). The snapshot's static equity of a futures account is the
cash without the margin plus the whole notional, and plunges when a short position is opened
(`LAB/analyzers/snapshot_ledger.py:129`), which the comment beside it excludes.

Observed while modelling, with no text of the repository that says otherwise: `close()` during
the last A-share source's wait ends the stream with "all A-share free realtime sources failed"
(`LAB/live/auto_ashare.py:73`); a CTP login that is refused is not tried again before the front
reconnects; `ticks()` of the CTP gateway waits for ever after `close()` if no tick is queued;
`max_positions` counts what is held and not what is ordered; switching the strategy in the
editor keeps the parameters of the former one in the configuration (`LAB/app/mt4_desktop.py:1743`);
a csv item that is edited loses the `ts_code` with which its loader would fetch a missing file
(`LAB/data/loaders_bt.py:150`); with a single feed an entry is always sized by the starting cash
(`LAB/brokers/safe_backbroker.py:28`); the static equity of a cash account with a multiplier jumps
while a position is held (`LAB/analyzers/snapshot_ledger.py:124`).

Everything else that was stated holds. In particular the unlocked threads, although they can
trade an order twice and break a tick off, lose no order otherwise: submission stores before it
looks, a tick is stored before the orders are listed, and the next tick of the symbol that does not
break off visits what an abandoned one has left.

## 6. Plan

Done: the engine and its rules, the threads around it, the tick sources and the gateways, paper
trading, the backtests on both engines with the strategies and analyzers on backtrader, the
cache and its clean-up, the loaders, the editor, the runs and the registry behind the desktop
applications, all with proofs.

Left, in this order:

1. `BridgeSimulation` with `reset_simulation` (it replaces the engine under submissions in
   progress); the event stream of the WebSocket clients (order of snapshot and events).
2. The 5-minute CSV import: one transaction per file against an external database.

## 7. Not modelled

`PROJECT.json` lists every component with its reason. In short: the backtrader library, the
CTP library, pandas conversions beyond times and prices, HTML reports, charts, dashboards and
layout, preferences and result tables of the windows, the two demonstration strategies
(`LAB/strategies/demo_strategy.py`), argument parsing, the database schema
and the one-shot inspection scripts keep no state that the program's own logic depends on; the
rest is in the plan above.
