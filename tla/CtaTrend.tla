------------------------------- MODULE CtaTrend -------------------------------
(***************************************************************************)
(* strategies/cta_trend.py on backtrader: a long-only crossing of moving   *)
(* averages on a signal feed, with a stop of so many ATR below the price   *)
(* of the position.  The steps are those of DonchianDailyMtf.              *)
(***************************************************************************)
EXTENDS Backtrader

CONSTANTS
    SymbolOrder,        \* sorted(all_symbols)
    Feeds,              \* how many feeds there are, those that resampling adds included
    Signals,            \* [close, atr, cross] a bar of the signal feed may show
    AtrStopMult, RiskPercent, MaxPositions

Signal == [close : Nat, atr : Nat, cross : Int]

\* What the constants have to be, assumed where values are given to them.
CtaAssumption ==
    /\ BacktraderAssumption
    /\ SymbolOrder \in Seq(Symbols) /\ IsInjective(SymbolOrder)
    /\ Feeds \in Nat \ {0} /\ Cardinality(Symbols) <= Feeds
    /\ Signals \subseteq Signal
    /\ AtrStopMult \in Nat \ {0} /\ RiskPercent \in Nat /\ MaxPositions \in Nat

VARIABLES
    signal,             \* the last bar of each signal feed, with its dt
    last_signal_dt, stop_price

ctaVars == <<signal, last_signal_dt, stop_price>>
vars == <<btVars, ctaVars>>

\* The only feed is the signal feed too.
SingleFeed == Feeds = 1

\* broker.getvalue(): asked for a single feed, the library returns before it brings the
\* value of the account up to date, which stays what it was at the start.
GetValue(b) ==
    IF SingleFeed THEN StartingCash
    ELSE b.cash + SumFunction([s \in Symbols |->
             IF StockLike THEN b.positions[s].size * bar[s].close
             ELSE Abs(b.positions[s].size) * GetMargin(bar[s].close)])

CalcSizeByRisk(sym) ==
    LET risk_per_contract == signal[sym].atr * AtrStopMult * account.mult
        margin == GetMargin(bar[sym].close)
        by_risk == (GetValue(broker) * RiskPercent) \div (100 * risk_per_contract)
    IN IF signal[sym].atr <= 0 THEN 0
       ELSE RoundSize(IF margin > 0 THEN Least(by_risk, broker.cash \div margin) ELSE by_risk)

\* next() for one symbol: nothing before both feeds have bars, once per signal bar, not
\* while an order works.
Considered(sym) ==
    /\ signal[sym].dt # 0 /\ bar[sym].dt # 0
    /\ last_signal_dt[sym] # signal[sym].dt
    /\ orders[sym] = None
    /\ signal[sym].atr > 0

StopOf(sym) ==
    RoundDown((IF broker.positions[sym].size = 0 THEN signal[sym].close ELSE broker.positions[sym].price)
              - AtrStopMult * signal[sym].atr)

Enters(sym) ==
    /\ Considered(sym) /\ broker.positions[sym].size = 0
    /\ Cardinality(Held(broker)) < MaxPositions
    /\ signal[sym].cross > 0
    /\ CalcSizeByRisk(sym) >= MinSize

Leaves(sym) ==
    /\ Considered(sym) /\ broker.positions[sym].size # 0
    /\ signal[sym].close < StopOf(sym) \/ signal[sym].cross < 0

Protects(sym) == Enters(sym) \/ (Considered(sym) /\ broker.positions[sym].size # 0)

OrderFor(sym) ==
    [symbol |-> sym, size |-> IF Enters(sym) THEN CalcSizeByRisk(sym) ELSE -broker.positions[sym].size]

StrategyInit ==
    /\ signal = [s \in Symbols |-> [close |-> 0, atr |-> 0, cross |-> 0, dt |-> 0]]
    /\ last_signal_dt = [s \in Symbols |-> 0]
    /\ stop_price = [s \in Symbols |-> None]

Init == BtInit /\ StrategyInit

\* A new bar of the signal feed, on some turns; a single feed has one, once it has enough
\* bars, whenever the broker has one.
NewSignals(fresh) ==
    \E ready \in SUBSET Symbols, chosen \in [Symbols -> Signals] :
        /\ SingleFeed => {s \in fresh : signal[s].dt # 0} \subseteq ready /\ ready \subseteq fresh
        /\ signal' = [s \in Symbols |->
               IF s \in ready
               THEN [close |-> IF SingleFeed THEN bar'[s].close ELSE chosen[s].close,
                     atr |-> chosen[s].atr, cross |-> chosen[s].cross, dt |-> clock']
               ELSE signal[s]]

BarsCome ==
    /\ \E fresh \in SUBSET Symbols \ {{}} : BrokerTurn(fresh) /\ NewSignals(fresh)
    /\ UNCHANGED <<last_signal_dt, stop_price>>

StrategyNext ==
    LET decided == [s \in Symbols |-> IF Enters(s) \/ Leaves(s) THEN <<OrderFor(s)>> ELSE <<>>]
    IN /\ last_signal_dt' = [s \in Symbols |-> IF bar[s].dt = 0 THEN last_signal_dt[s] ELSE signal[s].dt]
       /\ stop_price' = [s \in Symbols |-> IF Protects(s) THEN StopOf(s) ELSE stop_price[s]]
       /\ Submitted(Sent(SymbolOrder, decided))
       /\ UNCHANGED signal

Next == BarsCome \/ StrategyNext
Spec == Init /\ [][Next]_vars
-----------------------------------------------------------------------------
\* The strategy buys and sells what it holds: a sale ordered again while the first one
\* waits for a bar of its symbol would leave a short position behind.
LongOnly == \A s \in Symbols : broker.positions[s].size >= 0
=============================================================================
