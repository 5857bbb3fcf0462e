------------------------------ MODULE Backtrader ------------------------------
(***************************************************************************)
(* What the trend strategies run on: backtrader's broker, which is a       *)
(* library and is modelled from the way the lab sets it up and reads it    *)
(* (market orders, filled at the next bar of their symbol, notified before *)
(* next()), and the lab's own parts around it: the account set-up, the     *)
(* commission scheme and the analyzers that keep books of their own.       *)
(*                                                                         *)
(* The strategies are in DonchianDailyMtf and CtaTrend.                    *)
(***************************************************************************)
EXTENDS Integers, Sequences, FiniteSets, SequencesExt

CONSTANTS
    Symbols,        \* the execution feeds
    Bars,           \* [open, high, low, close] a bar may have
    Accounts,       \* the broker sections considered
    StartingCash,
    TickSize, SizeStep, MinSize,    \* symbol_specs
    BarsPerDay,
    LastBar,        \* bound: the turns of a run
    None            \* Python's None

Bar == [open : Nat \ {0}, high : Nat \ {0}, low : Nat \ {0}, close : Nat \ {0}]
Account == [account_mode : {"cash", "futures"}, coc : BOOLEAN, commtype : {"perc", "fixed"},
            commission : Nat, mult : Nat \ {0}, margin : Nat, margin_rate : Nat \union {None}]

\* What the constants have to be, assumed where values are given to them.
BacktraderAssumption ==
    /\ None \notin Int
    /\ IsFiniteSet(Symbols) /\ Bars \subseteq Bar /\ Accounts \subseteq Account
    /\ StartingCash \in Nat /\ BarsPerDay \in Nat \ {0} /\ LastBar \in Nat
    /\ TickSize \in Nat \ {0} /\ SizeStep \in Nat \ {0} /\ MinSize \in Nat \ {0}

VARIABLES
    turn,           \* "bars" or "next"
    account,        \* the account_mode, commission and coc that setup_broker chose
    clock,
    bar,            \* the last bar of each symbol with its dt, 0 before the first
    broker,         \* backtrader: cash, positions, open trades
    queue,          \* orders submitted and not yet executed
    last_ref,       \* the last number given to an order
    orders,         \* self.orders of the strategy: the order at work for each symbol
    ledger,         \* OrderFillLedgerAnalyzer, TradeStatsAnalyzer
    snapshot        \* the last row of SnapshotLedgerAnalyzer

btVars == <<turn, account, clock, bar, broker, queue, last_ref, orders, ledger, snapshot>>

Abs(n) == IF n < 0 THEN -n ELSE n
Least(a, b) == IF a < b THEN a ELSE b
Greatest(a, b) == IF a < b THEN b ELSE a
Day(dt) == (dt - 1) \div BarsPerDay

-----------------------------------------------------------------------------
(* utils/market_rules.py                                                    *)

RoundDown(price) == (price \div TickSize) * TickSize
RoundUp(price) == -RoundDown(-price)
RoundSize(size) ==
    LET rounded == (size \div SizeStep) * SizeStep
    IN IF size <= 0 \/ rounded < MinSize THEN 0 ELSE rounded

-----------------------------------------------------------------------------
(* brokers/backtrader_setup.py, commission/futures_comm.py                  *)

\* _build_comminfo_from_cfg: a cash account has no margin and is stock-like.
StockLike == account.account_mode = "cash"

GetMargin(price) ==
    IF StockLike THEN 0
    ELSE IF account.margin_rate # None THEN (price * account.mult * account.margin_rate) \div 100
    ELSE account.margin

GetCommission(size, price) ==
    IF account.commtype = "fixed" THEN Abs(size) * account.commission
    ELSE (Abs(size) * price * account.mult * account.commission) \div 100

-----------------------------------------------------------------------------
(* The library's broker: one order executed at a price.  The part that      *)
(* opens is refused when it leaves no cash.                                 *)

Flat == [size |-> 0, price |-> 0, adjbase |-> 0]
NewTrade == [pnl |-> 0, comm |-> 0]

\* What the cash becomes when part of an order is closed.  The multiplier is in the
\* profit, but not in what a cash account pays and gets back.
ClosedCash(cash, p, closed, price) ==
    IF StockLike THEN cash - closed * p.price - closed * (price - p.price) * account.mult
    ELSE cash + Abs(closed) * GetMargin(p.price) - closed * (price - p.adjbase) * account.mult

OpenedCash(cash, opened, price) ==
    cash - (IF StockLike THEN opened * price ELSE Abs(opened) * GetMargin(price))
         - GetCommission(opened, price)

Execute(b, order, price) ==
    LET sym == order.symbol
        p == b.positions[sym]
        closed == IF p.size * order.size < 0
                  THEN (IF order.size > 0 THEN 1 ELSE -1) * Least(Abs(order.size), Abs(p.size))
                  ELSE 0
        wanted == order.size - closed
        pnl == (p.price - price) * closed * account.mult
        afterClose == ClosedCash(b.cash, p, closed, price) - GetCommission(closed, price)
        opened == IF OpenedCash(afterClose, wanted, price) < 0 THEN 0 ELSE wanted
        size == p.size + closed + opened
        comm == GetCommission(closed, price) + GetCommission(opened, price)
        trade == [pnl |-> b.trades[sym].pnl + pnl, comm |-> b.trades[sym].comm + comm]
        marked == ~StockLike /\ closed = 0
        held == [size |-> size, adjbase |-> price,
                 price |-> IF opened = 0 THEN p.price
                           ELSE (Abs(p.size + closed) * p.price + Abs(opened) * price) \div Abs(size)]
    IN [broker |->
          [cash |-> (IF opened = 0 THEN afterClose ELSE OpenedCash(afterClose, opened, price))
                    + (IF marked THEN p.size * (price - p.adjbase) * account.mult ELSE 0),
           positions |-> [b.positions EXCEPT ![sym] = IF size = 0 THEN Flat ELSE held],
           trades |-> [b.trades EXCEPT ![sym] = IF size = 0 THEN NewTrade ELSE trade]],
        note |-> [order |-> order, price |-> price, size |-> closed + opened, comm |-> comm,
                  status |-> IF wanted # 0 /\ opened = 0 THEN "margin" ELSE "completed",
                  closedTrade |-> closed # 0 /\ size = 0, pnlcomm |-> trade.pnl - trade.comm]]

\* A futures account is marked to the market at every bar.
MarkToMarket(b, last) ==
    IF StockLike THEN b
    ELSE [b EXCEPT
        !.cash = @ + SumFunction([s \in Symbols |->
                         b.positions[s].size * (last[s].close - b.positions[s].adjbase) * account.mult]),
        !.positions = [s \in Symbols |->
            IF @[s].size = 0 THEN @[s] ELSE [@[s] EXCEPT !.adjbase = last[s].close]]]

\* One order after the others: it is executed if its symbol is in fresh.
RunOrder(acc, o, fresh, before, now) ==
    LET r == Execute(acc.broker, o, IF account.coc THEN before[o.symbol].close ELSE now[o.symbol].open)
    IN IF o.symbol \in fresh THEN [broker |-> r.broker, notes |-> Append(acc.notes, r.note)] ELSE acc

\* The orders of the symbols that have a new bar, in the order of submission.
RunOrders(b, waiting, fresh, before, now) ==
    FoldLeft(LAMBDA acc, o : RunOrder(acc, o, fresh, before, now), [broker |-> b, notes |-> <<>>], waiting)

\* The orders that wait on.
StillWaiting(waiting, fresh) ==
    FoldLeft(LAMBDA rest, o : IF o.symbol \in fresh THEN rest ELSE Append(rest, o), <<>>, waiting)

-----------------------------------------------------------------------------
(* analyzers/order_fill_ledger.py, trade_stats.py: notify_order, notify_trade *)

BookedBuy(p, qty, price, mult) ==
    IF p.size < 0
    THEN LET close_qty == Least(-p.size, qty)
             remain_short == -p.size - close_qty
         IN [pos |-> IF remain_short > 0 THEN [p EXCEPT !.size = -remain_short]
                     ELSE [size |-> 0, avg_price |-> 0],
             realized |-> (p.avg_price - price) * close_qty * mult, type |-> "BUY_CLOSE"]
    ELSE [pos |-> [size |-> p.size + qty, avg_price |-> (p.size * p.avg_price + qty * price) \div (p.size + qty)],
          realized |-> 0, type |-> "BUY_OPEN"]

\* Variant: a sale that closes leaves the average price behind.
BookedSellKeepsPrice(p, qty, price, mult) ==
    [pos |-> [size |-> p.size - qty, avg_price |-> IF p.size > 0 THEN p.avg_price ELSE price],
     realized |-> IF p.size > 0 THEN (price - p.avg_price) * qty * mult ELSE 0, type |-> "SELL"]

BookedSell(p, qty, price, mult) ==
    IF p.size > 0
    THEN LET close_qty == Least(p.size, qty)
             remain_long == p.size - close_qty
         IN [pos |-> IF remain_long > 0 THEN [p EXCEPT !.size = remain_long]
                     ELSE [size |-> 0, avg_price |-> 0],
             realized |-> (price - p.avg_price) * close_qty * mult, type |-> "SELL_CLOSE"]
    ELSE [pos |-> [size |-> p.size - qty, avg_price |-> (-p.size * p.avg_price + qty * price) \div (qty - p.size)],
          realized |-> 0, type |-> "SELL_OPEN"]

BuildFill(l, note) ==
    LET sym == note.order.symbol
        booked == IF note.size > 0 THEN BookedBuy(l.positions[sym], note.size, note.price, account.mult)
                  ELSE BookedSell(l.positions[sym], -note.size, note.price, account.mult)
    IN IF note.order.ref \in l.filled \/ note.size = 0 \/ note.price <= 0 THEN l
       ELSE [l EXCEPT !.positions[sym] = booked.pos, !.filled = @ \union {note.order.ref},
                      !.realized = @ + booked.realized]

NotifyAnalyzers(l, note) ==
    LET row == [l EXCEPT !.status = [r \in DOMAIN @ \union {note.order.ref} |->
                    IF r = note.order.ref THEN note.status ELSE @[r]]]
        done == IF note.status # "completed" THEN row
                ELSE [BuildFill(row, note) EXCEPT !.fees = @ + note.comm]
    IN IF ~note.closedTrade THEN done
       ELSE [done EXCEPT !.total_closed = @ + 1, !.total_net_pnl = @ + note.pnlcomm]

-----------------------------------------------------------------------------
(* analyzers/snapshot_ledger.py, equity_curve.py: next()                    *)

Held(b) == {s \in Symbols : b.positions[s].size # 0}
PositionValue(b) == SumFunction([s \in Symbols |-> b.positions[s].size * bar[s].close * account.mult])
FloatingPnl(b) ==
    SumFunction([s \in Symbols |-> (bar[s].close - b.positions[s].price) * b.positions[s].size * account.mult])
\* Variant: what is held is valued at the market.
PositionCostAtMarket(b) == SumFunction([s \in Symbols |-> b.positions[s].size * bar[s].close * account.mult])

PositionCost(b) ==
    SumFunction([s \in Symbols |-> b.positions[s].size * b.positions[s].price * account.mult])
SideMargin(b, sign) ==
    SumFunction([s \in Symbols |-> Greatest(0, sign * b.positions[s].size) * GetMargin(bar[s].close)])

EquityCurveValue(b) == b.cash + SumFunction([s \in Symbols |-> b.positions[s].size * bar[s].close])

Snapshot(b) ==
    LET dynamic == b.cash + PositionValue(b)
        futures == account.account_mode = "futures"
    IN [cash |-> b.cash, dynamic_equity |-> dynamic, floating_pnl |-> FloatingPnl(b),
        static_equity |-> IF futures THEN dynamic - FloatingPnl(b) ELSE b.cash + PositionCost(b),
        available |-> IF futures THEN dynamic - SideMargin(b, 1) - SideMargin(b, -1) ELSE b.cash,
        pos_count |-> Cardinality(Held(b)), equity_curve |-> EquityCurveValue(b)]

-----------------------------------------------------------------------------
(* One turn of the library's loop.  Bars come, orders are executed,         *)
(* analyzers and then the strategy are notified, next() runs, and the       *)
(* snapshot is taken; the strategy's part is in the modules that extend     *)
(* this one.                                                                *)

BtInit ==
    /\ turn = "bars"
    /\ account \in Accounts
    /\ clock = 0
    /\ bar = [s \in Symbols |-> [open |-> 0, high |-> 0, low |-> 0, close |-> 0, dt |-> 0]]
    /\ broker = [cash |-> StartingCash, positions |-> [s \in Symbols |-> Flat],
                 trades |-> [s \in Symbols |-> NewTrade]]
    /\ queue = <<>> /\ last_ref = 0
    /\ orders = [s \in Symbols |-> None]
    /\ ledger = [positions |-> [s \in Symbols |-> [size |-> 0, avg_price |-> 0]], filled |-> {},
                 status |-> <<>>, realized |-> 0, fees |-> 0, total_closed |-> 0, total_net_pnl |-> 0]
    /\ snapshot = [cash |-> StartingCash, dynamic_equity |-> StartingCash, floating_pnl |-> 0,
                   static_equity |-> StartingCash, available |-> StartingCash, pos_count |-> 0,
                   equity_curve |-> StartingCash]

\* The bars that come with this turn: a symbol may have none.
NewBars(fresh) ==
    \E chosen \in [fresh -> Bars] :
        bar' = [s \in Symbols |->
            IF s \in fresh
            THEN [open |-> chosen[s].open, high |-> chosen[s].high, low |-> chosen[s].low,
                  close |-> chosen[s].close, dt |-> clock']
            ELSE bar[s]]

\* What the broker does with them, and the notifications that result.
Ran(fresh) == RunOrders(broker, queue, fresh, bar, bar')

BrokerTurn(fresh) ==
    /\ turn = "bars" /\ turn' = "next"
    /\ clock < LastBar
    /\ clock' = clock + 1
    /\ NewBars(fresh)
    /\ broker' = MarkToMarket(Ran(fresh).broker, bar')
    /\ ledger' = FoldLeft(NotifyAnalyzers, ledger, Ran(fresh).notes)
    /\ queue' = StillWaiting(queue, fresh)
    /\ orders' = [s \in Symbols |-> IF s \in fresh THEN None ELSE orders[s]]
    /\ UNCHANGED <<account, last_ref, snapshot>>

\* next() goes over the symbols in their order: what it decides for one is an order or none.
Sent(order, decided) == FoldLeft(LAMBDA sent, s : sent \o decided[s], <<>>, order)

\* The orders that next() submitted, numbered; then the analyzers' next().
Submitted(wanted) ==
    LET numbered == [i \in DOMAIN wanted |->
                        [ref |-> last_ref + i, symbol |-> wanted[i].symbol, size |-> wanted[i].size]]
    IN /\ turn = "next" /\ turn' = "bars"
       /\ queue' = queue \o numbered
       /\ last_ref' = last_ref + Len(wanted)
       /\ orders' = [s \in Symbols |->
                        FoldLeft(LAMBDA at, o : IF o.symbol = s THEN o.ref ELSE at, orders[s], numbered)]
       /\ snapshot' = Snapshot(broker)
       /\ UNCHANGED <<account, clock, bar, broker, ledger>>

-----------------------------------------------------------------------------
\* The fill ledger keeps positions of its own; they are the broker's, whatever was
\* refused or notified twice.
LedgerFollowsBroker ==
    \A s \in Symbols :
        /\ ledger.positions[s].size = broker.positions[s].size
        /\ ledger.positions[s].avg_price = broker.positions[s].price

\* The profit of the fills, the statistics of the closed trades and the account agree
\* whenever nothing is held.
ResultsAgreeWhenFlat ==
    Held(broker) = {} =>
        /\ ledger.total_net_pnl = ledger.realized - ledger.fees
        /\ broker.cash = StartingCash + ledger.total_net_pnl

\* The static equity of a cash account is what was realized, net of fees, wherever the
\* market went, except that the ledger counts the cost of a position with the contract
\* multiplier and the broker has paid it without: what is held raises it by the difference.
PaidCost(b) == SumFunction([s \in Symbols |-> b.positions[s].size * b.positions[s].price])

CashStaticEquity ==
    StockLike /\ turn = "bars" =>
        snapshot.static_equity =
            StartingCash + ledger.realized - ledger.fees + (account.mult - 1) * PaidCost(broker)
=============================================================================
