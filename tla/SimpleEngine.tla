---------------------------- MODULE SimpleEngine ----------------------------
(***************************************************************************)
(* run_simple of the lab's backtest engine (my_bt_lab/engines/             *)
(* simple_engine.py) with its strategy SimpleMaAtrTrend: at every time of  *)
(* the timeline the orders due are executed at the open, the strategy sees *)
(* the bars, its orders are checked and scheduled at the next bar of their *)
(* symbol, and a snapshot is taken.                                        *)
(*                                                                         *)
(* The data are arbitrary: which symbol has a bar at which time, and what  *)
(* the bars are.  Stops are kept in units of 1 / AtrPeriod.                *)
(***************************************************************************)
EXTENDS SimpleBroker, SequencesExt

CONSTANTS
    SymbolOrder,    \* the order of the configured data
    AccountSpecs,   \* the account configurations to check
    Calendars,      \* the times at which each symbol has a bar
    Bars,
    LastTime,
    Fast, Slow, AtrPeriod, AtrStopMult,
    RiskPercent,    \* risk_per_trade
    MaxPositions

Times == 1 .. LastTime
Bar == [open : Nat, high : Nat, low : Nat, close : Nat]

ASSUME EngineAssumption ==
    /\ SymbolOrder \in Seq(Symbols) /\ IsInjective(SymbolOrder) /\ ToSet(SymbolOrder) = Symbols
    /\ AccountSpecs \subseteq AccountSpec
    /\ \A c \in Calendars : c \in [Symbols -> SUBSET Times] /\ UNION {c[s] : s \in Symbols} = Times
    /\ Bars \subseteq Bar
    /\ {LastTime, Fast, Slow, AtrPeriod, AtrStopMult, MaxPositions} \subseteq Nat \ {0}
    /\ RiskPercent \in Nat

VARIABLES
    account,        \* the configured account
    calendar,
    dt, phase,      \* where the loop over the timeline is
    bars,           \* the bars at dt, by the symbols that have one
    broker,
    hist, stop,     \* SimpleMaAtrTrend
    new_orders,     \* returned by on_bar and not yet submitted
    scheduled, last_close,
    orders, fills, snapshots,       \* the ledger
    peak, max_dd    \* the drawdown as [down, of]

strategy == <<hist, stop>>
ledger == <<orders, fills, snapshots>>
vars == <<account, calendar, dt, phase, bars, broker, strategy, new_orders, scheduled,
          last_close, ledger, peak, max_dd>>

OrderIds == 1 .. LastTime * Cardinality(Symbols)

Init ==
    /\ account \in AccountSpecs
    /\ calendar \in Calendars
    /\ dt = 0 /\ phase = "next"
    /\ bars = <<>>
    /\ broker = NewBroker
    /\ hist = [s \in Symbols |-> <<>>]
    /\ stop = [s \in Symbols |-> 0]
    /\ new_orders = <<>>
    /\ scheduled = [t \in Times |-> <<>>]
    /\ last_close = [s \in Symbols |-> None]
    /\ orders = <<>> /\ fills = <<>> /\ snapshots = <<>>
    /\ peak = StartingCash
    /\ max_dd = [down |-> 0, of |-> 1]

-----------------------------------------------------------------------------
(* SimpleMaAtrTrend.on_bar.                                                 *)

SumLast(n, s) == SumFunction(SubSeq(s, Len(s) - n + 1, Len(s)))

TrueRange(cur, prev) ==
    Max({cur.high - cur.low, cur.high - prev.close, prev.close - cur.high,
         cur.low - prev.close, prev.close - cur.low})

\* The average true range, times AtrPeriod.
Atr(h) == SumLast(AtrPeriod, [i \in 1 .. Len(h) - 1 |-> TrueRange(h[i + 1], h[i])])

Ready(h) == Len(h) >= Max({Fast, Slow, AtrPeriod + 1}) /\ Atr(h) > 0

\* The fast average less the slow one, times Fast * Slow.
Trend(h) ==
    LET close == [i \in DOMAIN h |-> h[i].close] IN Slow * SumLast(Fast, close) - Fast * SumLast(Slow, close)

StopBelow(h) == AtrPeriod * Last(h).close - AtrStopMult * Atr(h)

Trailed(h, before) == Larger(before, StopBelow(h))

BuySize(b, s, h, equity) ==
    Smaller(RoundSize(equity * RiskPercent * AtrPeriod, 100 * AtrStopMult * Atr(h) * Mult),
            MaxAffordableSize(account, b, s, Last(h).close))

Intent(s, side, size) == [symbol |-> s, side |-> side, size |-> size]

\* Variant: an exit at the stop goes on to the exit at the crossing.
ExitsWithoutContinue(s, h, size, stop_price) ==
    (IF AtrPeriod * Last(h).close < stop_price THEN <<Intent(s, "sell", size)>> ELSE <<>>)
      \o (IF Trend(h) < 0 THEN <<Intent(s, "sell", size)>> ELSE <<>>)

\* One order, whether the stop or the crossing asks for it.
Exits(s, h, size, stop_price) ==
    IF AtrPeriod * Last(h).close < stop_price \/ Trend(h) < 0
    THEN <<Intent(s, "sell", size)>> ELSE <<>>

Hold(did, b, s, h) ==
    LET stop_price == Trailed(h, did.stop[s])
    IN [did EXCEPT !.stop[s] = stop_price,
                   !.orders = @ \o Exits(s, h, b.pos_size[s], stop_price)]

\* Variant: the orders of this bar do not count as positions.
EnterUncounted(did, s, h, size) ==
    [did EXCEPT !.stop[s] = StopBelow(h), !.orders = Append(@, Intent(s, "buy", size))]

Enter(did, s, h, size) ==
    [did EXCEPT !.stop[s] = StopBelow(h), !.open = @ + 1,
                !.orders = Append(@, Intent(s, "buy", size))]

DecideFor(did, b, s, h, equity) ==
    IF ~Ready(h) THEN did
    ELSE IF b.pos_size[s] > 0 THEN Hold(did, b, s, h)
    ELSE IF did.open < MaxPositions /\ Trend(h) > 0 /\ BuySize(b, s, h, equity) > 0
    THEN Enter(did, s, h, BuySize(b, s, h, equity))
    ELSE did

OnBar(b, h) ==
    LET closes == [s \in Symbols |-> IF s \in DOMAIN bars THEN bars[s].close ELSE None]
        equity == DynamicEquity(account, b, closes)
    IN FoldLeft(LAMBDA did, s : IF s \in DOMAIN bars THEN DecideFor(did, b, s, h[s], equity) ELSE did,
                [orders |-> <<>>, stop |-> stop, open |-> OpenPositionsCount(b)], SymbolOrder)

-----------------------------------------------------------------------------
(* run_simple.                                                              *)

NextBar ==
    /\ phase = "next"
    /\ dt < LastTime
    /\ dt' = dt + 1
    /\ bars' \in [{s \in Symbols : dt + 1 \in calendar[s]} -> Bars]
    /\ phase' = "execute"
    /\ UNCHANGED <<account, calendar, broker, strategy, new_orders, scheduled, last_close,
                   ledger, peak, max_dd>>

FillOf(id, size) ==
    LET s == orders[id].symbol
        side == orders[id].side
    IN [order_id |-> id, symbol |-> s, side |-> side, qty |-> size,
        realized_pnl |-> IF side = "buy" THEN 0 ELSE RealizedPnl(broker, s, size, bars[s].open),
        commission |-> ChargeComm(account, size * ExecPrice(side, bars[s].open) * Mult)]

\* The next of the orders due at dt, at the open of its symbol.
Execute ==
    /\ phase = "execute"
    /\ scheduled[dt] # <<>>
    /\ LET id == Head(scheduled[dt])
           order == orders[id]
           s == order.symbol
           no_position == order.side = "sell" /\ broker.pos_size[s] = 0
           size == IF order.side = "buy" THEN order.qty ELSE Smaller(broker.pos_size[s], order.qty)
       IN /\ broker' = IF no_position THEN broker
                       ELSE IF order.side = "buy"
                       THEN Bought(account, broker, s, order.qty, bars[s].open)
                       ELSE Sold(account, broker, s, order.qty, bars[s].open)
          /\ fills' = IF no_position THEN fills ELSE Append(fills, FillOf(id, size))
          /\ orders' = [orders EXCEPT ![id].status = IF no_position THEN "Failed" ELSE "Filled"]
    /\ scheduled' = [scheduled EXCEPT ![dt] = Tail(@)]
    /\ UNCHANGED <<account, calendar, dt, phase, bars, strategy, new_orders, last_close,
                   snapshots, peak, max_dd>>

\* The bars join the history, and the strategy decides.
Decide ==
    /\ phase = "execute"
    /\ scheduled[dt] = <<>>
    /\ LET h == [s \in Symbols |-> IF s \in DOMAIN bars THEN Append(hist[s], bars[s]) ELSE hist[s]]
           did == OnBar(broker, h)
       IN /\ hist' = h
          /\ stop' = did.stop
          /\ new_orders' = did.orders
    /\ last_close' = [s \in Symbols |-> IF s \in DOMAIN bars THEN bars[s].close ELSE last_close[s]]
    /\ phase' = "submit"
    /\ UNCHANGED <<account, calendar, dt, bars, broker, scheduled, ledger, peak, max_dd>>

\* The times at which an order of s may be executed: none, or its next bar.
NextBarOf(s) ==
    LET later == {t \in calendar[s] : t > dt} IN {t \in later : \A u \in later : t <= u}

\* An order without a next bar leaves no trace; one that fails the check is
\* entered in the ledger and not scheduled.
Submit ==
    /\ phase = "submit"
    /\ new_orders # <<>>
    /\ LET od == Head(new_orders)
           ok == Accepted(account, broker, od.symbol, od.side, od.size,
                          bars[od.symbol].close, last_close)
           entry(t) == [symbol |-> od.symbol, side |-> od.side, qty |-> od.size,
                        submit_dt |-> dt, exec_dt |-> t,
                        status |-> IF ok THEN "Submitted" ELSE "Refused"]
       IN \/ /\ NextBarOf(od.symbol) = {}
             /\ UNCHANGED <<orders, scheduled>>
          \/ \E t \in NextBarOf(od.symbol) :
               /\ orders' = Append(orders, entry(t))
               /\ scheduled' = IF ok THEN [scheduled EXCEPT ![t] = Append(@, Len(orders) + 1)]
                               ELSE scheduled
    /\ new_orders' = Tail(new_orders)
    /\ UNCHANGED <<account, calendar, dt, phase, bars, broker, strategy, last_close,
                   fills, snapshots, peak, max_dd>>

Drawdown(value, top) == [down |-> top - value, of |-> top]
\* Drawdowns are compared in percent.
Deeper(d, e) == d.down * e.of > e.down * d.of

DrawnDown(value) ==
    LET top == Larger(peak, value)
    IN /\ peak' = top
       /\ max_dd' = IF top > 0 /\ Deeper(Drawdown(value, top), max_dd)
                    THEN Drawdown(value, top) ELSE max_dd

Snapshot ==
    /\ phase = "submit"
    /\ new_orders = <<>>
    /\ snapshots' = Append(snapshots, DynamicEquity(account, broker, last_close))
    /\ DrawnDown(DynamicEquity(account, broker, last_close))
    /\ phase' = "next"
    /\ UNCHANGED <<account, calendar, dt, bars, broker, strategy, new_orders, scheduled,
                   last_close, orders, fills>>

Next == NextBar \/ Execute \/ Decide \/ Submit \/ Snapshot

Spec == Init /\ [][Next]_vars

-----------------------------------------------------------------------------
(* Safety.                                                                  *)

SumFills(f(_)) == FoldLeft(LAMBDA sum, fill : sum + f(fill), 0, fills)

\* "Should not happen often": with this strategy an accepted order never fails at
\* its execution, because a symbol never has two orders under way.
AcceptedIsFilled == \A id \in DOMAIN orders : orders[id].status # "Failed"

\* In both account modes the static equity is the starting cash plus what the
\* fills realized less what they cost, and the positions are what the fills left.
StaticEquityIdentity ==
    /\ StaticEquity(account, broker)
         = StartingCash + SumFills(LAMBDA f : f.realized_pnl - f.commission)
    /\ \A s \in Symbols :
         broker.pos_size[s] = SumFills(LAMBDA f : IF f.symbol # s THEN 0
                                                  ELSE IF f.side = "buy" THEN f.qty ELSE -f.qty)

\* The statistics of closed trades are kept apart from the ledger: when no
\* position is open they tell the same profit as the cash does.
NetPnlWhenFlat ==
    OpenPositionsCount(broker) = 0 => broker.cash = StartingCash + broker.net_pnl

\* If all symbols have the same bars, no more than MaxPositions positions are
\* open or about to be: an order of this bar counts, and the orders of earlier
\* bars are positions by now.
PositionsBounded ==
    (\A s, u \in Symbols : calendar[s] = calendar[u])
        => OpenPositionsCount(broker) <= MaxPositions

\* The stop of an open position never moves down.
StopRatchets ==
    [][\A s \in Symbols : broker.pos_size[s] > 0 /\ broker'.pos_size[s] > 0
                            => stop'[s] >= stop[s]]_vars
=============================================================================
