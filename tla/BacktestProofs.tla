---------------------------- MODULE BacktestProofs ----------------------------
(***************************************************************************)
(* What a backtest promises, proved for every set of symbols, every data   *)
(* and every account configuration.                                        *)
(*                                                                         *)
(* SimpleEngineProofs and BacktraderProofs say what the two engines do,    *)
(* the second one with orders that fit.  Here the two strategies that run  *)
(* on backtrader are shown to send only such orders, and the stops of the  *)
(* Donchian strategy to stay with their positions.  AllInv then puts the   *)
(* three kinds of backtests together.                                      *)
(***************************************************************************)
EXTENDS Backtests, SimpleEngineProofs

-----------------------------------------------------------------------------
(* cta_trend orders what fits: a purchase where nothing is held, or a sale   *)
(* of all that is held.                                                      *)

Long == Nat \ {0}
SignalRow == [close : Int, atr : Nat, cross : Int, dt : Nat]
CtaInv == Cta!BookInv(Long) /\ signal \in [Symbols -> SignalRow]

\* What the parameters of cta_trend satisfy.
LEMMA CtaConfigured ==
    /\ Cta!Configured /\ Cta!CtaAssumption
    /\ TickSize \in Nat \ {0} /\ SizeStep \in Nat \ {0} /\ MinSize \in Nat \ {0}
    /\ TrendAtrMult \in Nat \ {0} /\ CtaRiskPercent \in Nat
BY TrendAssumption DEF Cta!Configured, Cta!CtaAssumption, Cta!BacktraderAssumption

\* A size is a number of steps.
LEMMA CtaRounded == ASSUME NEW n \in Int PROVE Cta!RoundSize(n) \in Int
BY CtaConfigured DEF Cta!RoundSize

\* The value of the account is a number.
LEMMA CtaValue == ASSUME CtaInv PROVE Cta!GetValue(bt_broker) \in Int
<1> DEFINE worth == [s \in Symbols |->
              IF Cta!StockLike THEN bt_broker.positions[s].size * bar[s].close
              ELSE Cta!Abs(bt_broker.positions[s].size) * Cta!GetMargin(bar[s].close)]
<1>1. bt_broker \in Cta!Broker /\ bt_account \in CtaAccounts /\ bar \in Cta!LastBars /\ Cta!IsFiniteSet(Symbols)
  BY CtaConfigured DEF CtaInv, Cta!BookInv, Cta!InStep, Cta!BarsRead, Cta!Configured, Cta!BacktraderAssumption
<1>2. ASSUME NEW s \in Symbols PROVE worth[s] \in Int
  <2> DEFINE p == bt_broker.positions[s]
  <2>1. p.size \in Int /\ bar[s].close \in Nat /\ Cta!Abs(p.size) \in Int
    BY <1>1 DEF Cta!Broker, Cta!BrokerPosition, Cta!LastBars, Cta!Abs
  <2>2. Cta!GetMargin(bar[s].close) \in Int
    BY <1>1, <2>1, CtaConfigured, Cta!Margins
  <2>3. p.size * bar[s].close \in Int /\ Cta!Abs(p.size) * Cta!GetMargin(bar[s].close) \in Int
    BY <2>1, <2>2, Cta!IntProducts
  <2> QED
    BY <2>3
<1>3. worth \in [Symbols -> Int]
  BY <1>2
<1>4. Cta!SumFunction(worth) \in Int
  BY <1>1, <1>3, Cta!SumWithout
<1>5. bt_broker.cash \in Int /\ TrendCash \in Int
  BY <1>1, CtaConfigured DEF Cta!Broker, Cta!Configured, Cta!BacktraderAssumption
<1>6. Cta!GetValue(bt_broker) = IF Cta!SingleFeed THEN TrendCash ELSE bt_broker.cash + Cta!SumFunction(worth)
  BY DEF Cta!GetValue
<1> QED
  BY <1>4, <1>5, <1>6

\* So is the size of an entry.
LEMMA CtaSize == ASSUME CtaInv, NEW s \in Symbols, Cta!Considered(s) PROVE Cta!CalcSizeByRisk(s) \in Int
<1> DEFINE m == bt_account.mult
           risk == signal[s].atr * TrendAtrMult * m
           margin == Cta!GetMargin(bar[s].close)
           worth == Cta!GetValue(bt_broker) * CtaRiskPercent
<1>1. bt_broker \in Cta!Broker /\ bt_account \in CtaAccounts /\ bar \in Cta!LastBars
  BY DEF CtaInv, Cta!BookInv, Cta!InStep, Cta!BarsRead
<1>2. m \in Nat \ {0} /\ signal[s].atr \in Nat \ {0} /\ TrendAtrMult \in Nat \ {0} /\ CtaRiskPercent \in Nat
  BY <1>1, CtaConfigured, Cta!AccountTypes DEF CtaInv, SignalRow, Cta!Considered
<1>3. \A a, b \in Nat \ {0} : a * b \in Nat \ {0}
  OBVIOUS
<1>4. risk \in Nat \ {0}
  <2>1. signal[s].atr * TrendAtrMult \in Nat \ {0}
    BY <1>2, <1>3
  <2> QED
    BY <1>2, <1>3, <2>1
<1>5. worth \in Int
  BY <1>2, CtaValue, Cta!IntProducts
<1>6. margin \in Int /\ bt_broker.cash \in Int
  <2>1. bar[s].close \in Nat
    BY <1>1 DEF Cta!LastBars
  <2>2. bt_broker.cash \in Int
    BY <1>1 DEF Cta!Broker
  <2> QED
    BY <1>1, <2>1, <2>2, CtaConfigured, Cta!Margins
<1>7. Cta!CalcSizeByRisk(s) = IF signal[s].atr <= 0 THEN 0
        ELSE Cta!RoundSize(IF margin > 0 THEN Cta!Least(worth \div (100 * risk), bt_broker.cash \div margin)
                           ELSE worth \div (100 * risk))
  BY DEF Cta!CalcSizeByRisk
<1> HIDE DEF risk, margin, worth
<1>8. worth \div (100 * risk) \in Int /\ (margin > 0 => bt_broker.cash \div margin \in Int)
  <2>1. 100 * risk \in Nat \ {0}
    BY <1>4
  <2>2. \A a \in Int, b \in Nat \ {0} : a \div b \in Int
    OBVIOUS
  <2> QED
    BY <1>5, <1>6, <2>1, <2>2
<1> QED
  BY <1>7, <1>8, CtaRounded DEF Cta!Least

\* What cta_trend decides fits.
LEMMA CtaSound ==
    ASSUME CtaInv
    PROVE  Cta!Sound(Long, [s \in Symbols |-> IF Cta!Enters(s) \/ Cta!Leaves(s) THEN <<Cta!OrderFor(s)>> ELSE <<>>])
<1> DEFINE decided == [s \in Symbols |-> IF Cta!Enters(s) \/ Cta!Leaves(s) THEN <<Cta!OrderFor(s)>> ELSE <<>>]
<1>1. bt_broker \in Cta!Broker
  BY DEF CtaInv, Cta!BookInv, Cta!InStep
<1>2. ASSUME NEW s \in Symbols, Cta!Enters(s) \/ Cta!Leaves(s)
      PROVE  /\ Cta!OrderFor(s) \in Cta!Wanted /\ Cta!OrderFor(s).symbol = s /\ Cta!Fits(Long, bt_broker, Cta!OrderFor(s))
             /\ bar[s].dt # 0 /\ bt_orders[s] = NoValue
  <2> DEFINE size == bt_broker.positions[s].size
             o == Cta!OrderFor(s)
  <2>1. Cta!Considered(s) /\ bar[s].dt # 0 /\ bt_orders[s] = NoValue
    BY <1>2 DEF Cta!Enters, Cta!Leaves, Cta!Considered
  <2>2. size \in Int
    BY <1>1 DEF Cta!Broker, Cta!BrokerPosition
  <2>3. CASE Cta!Enters(s)
    <3>1. size = 0 /\ Cta!CalcSizeByRisk(s) \in Int /\ Cta!CalcSizeByRisk(s) >= MinSize /\ MinSize \in Nat \ {0}
      BY <2>1, <2>3, CtaSize, CtaConfigured DEF Cta!Enters
    <3>2. o.symbol = s /\ o.size = Cta!CalcSizeByRisk(s) /\ o = [symbol |-> s, size |-> Cta!CalcSizeByRisk(s)]
      BY <2>3 DEF Cta!OrderFor
    <3> HIDE DEF o
    <3>3. o.size \in Long /\ o \in Cta!Wanted
      BY <3>1, <3>2 DEF Long, Cta!Wanted
    <3>4. Cta!Fits(Long, bt_broker, o)
      BY <3>1, <3>2, <3>3 DEF Cta!Fits, Long
    <3> QED
      BY <2>1, <3>2, <3>3, <3>4 DEF o
  <2>4. CASE Cta!Leaves(s)
    <3>1. size # 0 /\ ~Cta!Enters(s)
      BY <2>4 DEF Cta!Leaves, Cta!Enters
    <3>2. o.symbol = s /\ o.size = -size /\ o = [symbol |-> s, size |-> -size]
      BY <3>1 DEF Cta!OrderFor
    <3> HIDE DEF o
    <3>3. o \in Cta!Wanted /\ Cta!Fits(Long, bt_broker, o)
      BY <2>2, <3>1, <3>2 DEF Cta!Fits, Cta!Wanted
    <3> QED
      BY <2>1, <3>2, <3>3 DEF o
  <2> QED
    BY <1>2, <2>3, <2>4
<1>3. ASSUME NEW s \in Symbols PROVE decided[s] = <<>> \/ (decided[s] = <<Cta!OrderFor(s)>> /\ (Cta!Enters(s) \/ Cta!Leaves(s)))
  OBVIOUS
<1> HIDE DEF decided
<1>4. Cta!Decided(decided)
  BY <1>2, <1>3 DEF Cta!Decided
<1>5. ASSUME NEW s \in Symbols, NEW o \in Cta!Wanted, decided[s] = <<o>>
      PROVE  Cta!Fits(Long, bt_broker, o) /\ bar[s].dt # 0 /\ bt_orders[s] = NoValue
  <2>1. <<o>> # <<>>
    OBVIOUS
  <2>2. \A x, y : <<x>> = <<y>> => x = y
    OBVIOUS
  <2> QED
    BY <1>2, <1>3, <1>5, <2>1, <2>2
<1>6. Cta!Sound(Long, decided)
  BY <1>4, <1>5 DEF Cta!Sound
<1> QED
  BY <1>6 DEF decided

\* A run of cta_trend begins in order.
LEMMA CtaBegins == ASSUME Cta!BtInit, Cta!StrategyInit PROVE CtaInv
BY CtaConfigured, Cta!BooksBegin DEF Cta!StrategyInit, CtaInv, SignalRow

\* A step of a cta_trend run, of the broker or of the strategy, keeps its books.
LEMMA CtaKeeps == ASSUME CtaInv, Cta!Next PROVE CtaInv'
<1>0. Long \in SUBSET (Int \ {0}) /\ Cta!BookInv(Long)
  BY DEF CtaInv, Long
<1>1. CASE Cta!BarsCome
  <2>1. PICK fresh \in SUBSET Symbols : Cta!BrokerTurn(fresh)
    BY <1>1 DEF Cta!BarsCome
  <2>2. Cta!BookInv(Long)'
    BY <1>0, <2>1, CtaConfigured, Cta!BooksTurn
  <2>3. signal' \in [Symbols -> SignalRow]
    <3>1. PICK ready \in SUBSET Symbols, chosen \in [Symbols -> Signals] :
            signal' = [s \in Symbols |->
                IF s \in ready
                THEN [close |-> IF Cta!SingleFeed THEN bar'[s].close ELSE chosen[s].close,
                      atr |-> chosen[s].atr, cross |-> chosen[s].cross, dt |-> clock']
                ELSE signal[s]]
      BY <1>1 DEF Cta!BarsCome, Cta!NewSignals
    <3>2. clock' \in Nat
      BY <2>1 DEF CtaInv, Cta!BookInv, Cta!BarsRead, Cta!BrokerTurn
    <3>3. \A s \in Symbols : chosen[s] \in Cta!Signal
      BY CtaConfigured DEF Cta!CtaAssumption
    <3>4. \A s \in Symbols : bar'[s].close \in Nat
      BY <2>2 DEF Cta!BookInv, Cta!BarsRead, Cta!LastBars
    <3> QED
      BY <3>1, <3>2, <3>3, <3>4 DEF Cta!Signal, SignalRow, CtaInv
  <2> QED
    BY <2>2, <2>3 DEF CtaInv
<1>2. CASE Cta!StrategyNext
  <2> DEFINE decided == [s \in Symbols |-> IF Cta!Enters(s) \/ Cta!Leaves(s) THEN <<Cta!OrderFor(s)>> ELSE <<>>]
             wanted == Cta!Sent(SymbolOrder, decided)
  <2>1. Cta!Sound(Long, decided)
    BY CtaSound
  <2>2. Cta!Submitted(wanted) /\ signal' = signal
    BY <1>2 DEF Cta!StrategyNext
  <2> HIDE DEF decided
  <2>3. SymbolOrder \in Seq(Symbols) /\ Cta!IsInjective(SymbolOrder)
    BY CtaConfigured DEF Cta!CtaAssumption
  <2>4. Cta!Disciplined(Long, wanted)
    BY <2>1, <2>3, Cta!SoundIsDisciplined
  <2> HIDE DEF wanted
  <2>5. Cta!BookInv(Long)'
    BY <1>0, <2>2, <2>4, CtaConfigured, Cta!BooksOrdered
  <2> QED
    BY <2>2, <2>5 DEF CtaInv
<1> QED
  BY <1>1, <1>2 DEF Cta!Next

\* What the invariant of the books says of cta_trend.
LEMMA CtaSays == ASSUME CtaInv PROVE Cta!LedgerFollowsBroker /\ Cta!ResultsAgreeWhenFlat /\ Cta!CashStaticEquity /\ Cta!LongOnly
<1>0. Long \in SUBSET (Int \ {0}) /\ Cta!BookInv(Long)
  BY DEF CtaInv, Long
<1>1. Cta!LedgerFollowsBroker /\ Cta!ResultsAgreeWhenFlat /\ Cta!CashStaticEquity
  BY <1>0, CtaConfigured, Cta!BooksSay
<1>2. Cta!LongOnly
  BY DEF Cta!LongOnly, CtaInv, Cta!BookInv, Cta!InStep, Long
<1> QED
  BY <1>1, <1>2

-----------------------------------------------------------------------------
(* What the Donchian strategy does to the state of a symbol.                *)

\* What the parameters of the Donchian strategy satisfy.
LEMMA DonConfigured ==
    /\ Don!Configured /\ Don!DonchianAssumption
    /\ TickSize \in Nat \ {0} /\ SizeStep \in Nat \ {0} /\ MinSize \in Nat \ {0}
    /\ TrendAtrMult \in Nat \ {0} /\ RiskCash \in Nat /\ MaxPositions \in Nat
    /\ TrailLv1 \in Nat /\ TrailLv2 \in Nat /\ TrailLock \in Nat
    /\ NoValue \notin Int
BY TrendAssumption DEF Don!Configured, Don!DonchianAssumption, Don!BacktraderAssumption

Fields == {"signal_ready", "signal", "entry_atr_long", "entry_atr_short", "stop_long", "stop_short",
           "pending", "pending_price", "pending_day", "trade_day", "today_high", "today_low", "last_exec_dt",
           "last_exit_dt_long", "wait_reentry_long", "last_exit_dt_short", "wait_reentry_short"}

\* The fields of SymbolState, those of the stops and the others.
LEMMA StateFields == DOMAIN Don!NewState = Fields
BY DEF Don!NewState, Fields

\* The signal and the stops, of both sides.
SameStops(x, y) ==
    /\ DOMAIN y = Fields /\ y.signal_ready = x.signal_ready /\ y.signal = x.signal
    /\ y.stop_long = x.stop_long /\ y.entry_atr_long = x.entry_atr_long
    /\ y.stop_short = x.stop_short /\ y.entry_atr_short = x.entry_atr_short

\* A state with the same stops protects the same position.
LEMMA KeepsProtection ==
    ASSUME NEW x, NEW y, NEW size \in Int, Don!Protected(x, size), SameStops(x, y)
    PROVE  Don!Protected(y, size)
BY StateFields DEF Don!Protected, SameStops

\* Days, touches and the time of the last bar have nothing to do with them.
LEMMA OtherFields ==
    ASSUME NEW x, DOMAIN x = Fields, NEW b, NEW prev
    PROVE  /\ SameStops(x, Don!NoPendings(x)) /\ SameStops(x, [x EXCEPT !.last_exec_dt = b.dt])
           /\ SameStops(x, Don!SyncTradeDay(x, b)) /\ SameStops(x, Don!Touched(x, b, prev))
<1>1. SameStops(x, Don!NoPendings(x))
  BY DEF SameStops, Fields, Don!NoPendings
<1>2. SameStops(x, [x EXCEPT !.last_exec_dt = b.dt])
  BY DEF SameStops, Fields
<1>3. SameStops(x, Don!SyncTradeDay(x, b))
  <2> DEFINE y == Don!NoPendings(x)
             z == [y EXCEPT !.trade_day = Don!Day(b.dt), !.today_high = b.high, !.today_low = b.low,
                            !.wait_reentry_long = FALSE, !.wait_reentry_short = FALSE]
             w == [x EXCEPT !.today_high = Don!Greatest(@, b.high), !.today_low = Don!Least(@, b.low)]
  <2>1. Don!SyncTradeDay(x, b) = z \/ Don!SyncTradeDay(x, b) = w
    BY DEF Don!SyncTradeDay
  <2>2. SameStops(x, w)
    BY DEF SameStops, Fields
  <2>3. SameStops(x, y) /\ DOMAIN y = Fields
    BY <1>1 DEF SameStops
  <2> HIDE DEF y
  <2>4. SameStops(y, z)
    BY <2>3 DEF SameStops, Fields
  <2> QED
    BY <2>1, <2>2, <2>3, <2>4 DEF SameStops
<1>4. SameStops(x, Don!Touched(x, b, prev))
  <2> DEFINE long == Don!EntryLong(x)
             short == Don!EntryShort(x)
             day == Don!Day(b.dt)
             y == [x EXCEPT !.pending = "long", !.pending_price = long, !.pending_day = day]
             z == [x EXCEPT !.pending = "short", !.pending_price = short, !.pending_day = day]
  <2>1. Don!Touched(x, b, prev) = x \/ Don!Touched(x, b, prev) = y \/ Don!Touched(x, b, prev) = z
    BY DEF Don!Touched
  <2> HIDE DEF long, short, day
  <2>2. SameStops(x, x) /\ SameStops(x, y) /\ SameStops(x, z)
    BY DEF SameStops, Fields
  <2> QED
    BY <2>1, <2>2
<1> QED
  BY <1>1, <1>2, <1>3, <1>4

\* So has a new signal.
LEMMA SignalTaken ==
    ASSUME NEW x, NEW size \in Int, Don!Protected(x, size), NEW ch \in Don!Channel
    PROVE  LET y == Don!UpdateSignalCache(x, ch)
           IN /\ Don!Protected(y, size) /\ y.stop_long = x.stop_long /\ y.stop_short = x.stop_short
<1> DEFINE y == [x EXCEPT !.signal = ch, !.signal_ready = TRUE]
<1>1. CASE ch.atr <= 0
  BY <1>1 DEF Don!UpdateSignalCache
<1>2. CASE ~(ch.atr <= 0)
  <2>1. Don!UpdateSignalCache(x, ch) = y
    BY <1>2 DEF Don!UpdateSignalCache
  <2>2. DOMAIN x = Fields
    BY StateFields DEF Don!Protected
  <2>3. /\ DOMAIN y = Fields /\ y.signal_ready = TRUE /\ y.signal = ch
        /\ y.stop_long = x.stop_long /\ y.entry_atr_long = x.entry_atr_long
        /\ y.stop_short = x.stop_short /\ y.entry_atr_short = x.entry_atr_short
    BY <2>2 DEF Fields
  <2>4. ch.atr > 0
    BY <1>2 DEF Don!Channel
  <2> HIDE DEF y
  <2>5. Don!Protected(y, size)
    BY <2>3, <2>4, StateFields DEF Don!Protected
  <2> QED
    BY <2>1, <2>3, <2>5
<1> QED
  BY <1>1, <1>2

-----------------------------------------------------------------------------
(* Ticks.                                                                   *)

\* Rounding gives whole ticks.
LEMMA Whole == ASSUME NEW n \in Int PROVE Don!RoundDown(n) \in Don!Ticks /\ Don!RoundUp(n) \in Don!Ticks
<1>1. TickSize \in Nat \ {0} /\ n \div TickSize \in Int /\ (-n) \div TickSize \in Int
  BY DonConfigured
<1>2. \A k \in Int : k * TickSize \in Don!Ticks /\ -(k * TickSize) \in Don!Ticks
  <2> TAKE k \in Int
  <2>1. -(k * TickSize) = (-k) * TickSize /\ -k \in Int
    BY <1>1
  <2> QED
    BY <2>1 DEF Don!Ticks
<1> QED
  BY <1>1, <1>2 DEF Don!RoundDown, Don!RoundUp

\* Whole ticks are numbers.
LEMMA TicksAreInt == Don!Ticks \subseteq Int
BY DonConfigured DEF Don!Ticks

\* Rounding down passes no tick below, rounding up none above.
LEMMA NoTickPassed ==
    ASSUME NEW n \in Int, NEW t \in Don!Ticks
    PROVE  (t <= n => t <= Don!RoundDown(n)) /\ (t >= n => t >= Don!RoundUp(n))
<1> DEFINE T == TickSize
<1>1. T \in Nat \ {0}
  BY DonConfigured
<1>2. PICK k \in Int : t = k * T
  BY DEF Don!Ticks
<1> HIDE DEF T
<1>3. ASSUME NEW m \in Int, NEW j \in Int, j * T <= m PROVE j * T <= (m \div T) * T
  <2> DEFINE q == m \div T
  <2>1. q \in Int /\ m < q * T + T
    BY <1>1
  <2> HIDE DEF q
  <2>2. CASE j <= q
    <3>1. (q - j) * T \in Nat
      <4>1. q - j \in Nat
        BY <2>1, <2>2
      <4>2. \A a, b \in Nat : a * b \in Nat
        OBVIOUS
      <4> QED
        BY <1>1, <4>1, <4>2
    <3>2. (q - j) * T = q * T - j * T /\ q * T \in Int /\ j * T \in Int
      BY <1>1, <2>1
    <3> QED
      BY <3>1, <3>2 DEF q
  <2>3. CASE q < j
    <3>1. (j - q - 1) * T \in Nat
      <4>1. j - q - 1 \in Nat
        BY <2>1, <2>3
      <4>2. \A a, b \in Nat : a * b \in Nat
        OBVIOUS
      <4> QED
        BY <1>1, <4>1, <4>2
    <3>2. (j - q - 1) * T = j * T - q * T - T /\ q * T \in Int /\ j * T \in Int
      BY <1>1, <2>1
    <3> QED
      BY <1>1, <1>3, <2>1, <3>1, <3>2
  <2> QED
    BY <2>1, <2>2, <2>3
<1>4. t <= n => t <= Don!RoundDown(n)
  BY <1>2, <1>3 DEF Don!RoundDown, T
<1>5. t >= n => t >= Don!RoundUp(n)
  <2>1. (-k) * T = -(k * T) /\ k * T \in Int /\ -k \in Int /\ -n \in Int
    BY <1>1
  <2>2. ((-n) \div T) * T \in Int
    BY <1>1
  <2>3. (-k) * T <= -n => (-k) * T <= ((-n) \div T) * T
    BY <1>3, <2>1
  <2>4. Don!RoundUp(n) = -(((-n) \div T) * T)
    BY DEF Don!RoundUp, Don!RoundDown, T
  <2> QED
    BY <1>2, <2>1, <2>2, <2>3, <2>4
<1> QED
  BY <1>4, <1>5

-----------------------------------------------------------------------------
(* A position that is held.                                                 *)

\* The next state of a symbol without a new position: as well protected, and its stops not looser.
Tighter(x, y, size) ==
    /\ Don!Protected(y, size) /\ y.signal_ready = x.signal_ready /\ y.signal = x.signal
    /\ size > 0 => y.stop_long >= x.stop_long
    /\ size < 0 => y.stop_short <= x.stop_short

\* A stop that stays where it is is not looser.
LEMMA SameIsTighter ==
    ASSUME NEW x, NEW y, NEW size \in Int, Don!Protected(x, size), SameStops(x, y)
    PROVE  Tighter(x, y, size)
<1>1. Don!Protected(y, size)
  BY KeepsProtection
<1>2. (size > 0 => x.stop_long \in Int) /\ (size < 0 => x.stop_short \in Int)
  BY TicksAreInt DEF Don!Protected
<1> QED
  BY <1>1, <1>2 DEF Tighter, SameStops

\* Trailing the stop of a long position: it exists already, and never falls.
LEMMA LongTrailed ==
    ASSUME NEW x, NEW size \in Int, size > 0, Don!Protected(x, size), NEW price \in Nat, NEW b, b.high \in Nat
    PROVE  Don!EnsuredLong(x, price) = x /\ Tighter(x, Don!TrailedLong(x, price, b), size)
<1> DEFINE profit == b.high - price
           lv1 == IF profit >= TrailLv1 * x.entry_atr_long THEN Don!Greatest(x.stop_long, price) ELSE x.stop_long
           lv2 == IF profit >= TrailLv2 * x.entry_atr_long
                  THEN Don!Greatest(lv1, price + TrailLock * x.entry_atr_long) ELSE lv1
           level == Don!RoundDown(lv2)
           y == Don!TrailedLong(x, price, b)
<1>1. /\ x.entry_atr_long \in Nat /\ x.stop_long \in Don!Ticks /\ x.stop_long \in Int
      /\ x.stop_short = NoValue /\ x.entry_atr_short = NoValue /\ DOMAIN x = Fields
      /\ x.signal_ready \in BOOLEAN /\ (x.signal_ready => x.signal \in Don!Channel /\ x.signal.atr > 0)
  <2>1. ~(size < 0)
    OBVIOUS
  <2>2. x.entry_atr_long \in Nat /\ x.stop_long \in Don!Ticks /\ x.stop_short = NoValue /\ x.entry_atr_short = NoValue
    BY <2>1 DEF Don!Protected
  <2>3. /\ DOMAIN x = Fields /\ x.signal_ready \in BOOLEAN
        /\ (x.signal_ready => x.signal \in Don!Channel /\ x.signal.atr > 0)
    BY StateFields DEF Don!Protected
  <2> QED
    BY <2>2, <2>3, TicksAreInt
<1>2. Don!EnsuredLong(x, price) = x
  BY <1>1, DonConfigured DEF Don!EnsuredLong
<1>3. lv1 \in Int /\ lv1 >= x.stop_long
  BY <1>1 DEF Don!Greatest
<1> HIDE DEF lv1
<1>4. TrailLock * x.entry_atr_long \in Int
  BY <1>1, DonConfigured, Don!IntProducts
<1>5. lv2 \in Int /\ lv2 >= x.stop_long
  BY <1>1, <1>3, <1>4 DEF Don!Greatest
<1> HIDE DEF lv2
<1>6. level \in Don!Ticks /\ level >= x.stop_long /\ level \in Int
  <2>1. level \in Don!Ticks /\ level \in Int
    BY <1>5, Whole, TicksAreInt
  <2>2. x.stop_long <= level
    BY <1>1, <1>5, NoTickPassed
  <2> QED
    BY <1>1, <2>1, <2>2
<1>7. y = [x EXCEPT !.stop_long = level]
  BY DEF Don!TrailedLong, lv1, lv2
<1> HIDE DEF level, y
<1>8. /\ DOMAIN y = Fields /\ y.stop_long = level /\ y.entry_atr_long = x.entry_atr_long
      /\ y.stop_short = x.stop_short /\ y.entry_atr_short = x.entry_atr_short
      /\ y.signal = x.signal /\ y.signal_ready = x.signal_ready
  BY <1>1, <1>7 DEF Fields
<1>9. Tighter(x, y, size)
  BY <1>1, <1>6, <1>8, StateFields DEF Tighter, Don!Protected
<1> QED
  BY <1>2, <1>9 DEF y

\* Trailing the stop of a short position: it exists already, and never rises.
LEMMA ShortTrailed ==
    ASSUME NEW x, NEW size \in Int, size < 0, Don!Protected(x, size), NEW price \in Nat, NEW b, b.low \in Nat
    PROVE  Don!EnsuredShort(x, price) = x /\ Tighter(x, Don!TrailedShort(x, price, b), size)
<1> DEFINE profit == price - b.low
           lv1 == IF profit >= TrailLv1 * x.entry_atr_short THEN Don!Least(x.stop_short, price) ELSE x.stop_short
           lv2 == IF profit >= TrailLv2 * x.entry_atr_short
                  THEN Don!Least(lv1, price - TrailLock * x.entry_atr_short) ELSE lv1
           level == Don!RoundUp(lv2)
           y == Don!TrailedShort(x, price, b)
<1>1. /\ x.entry_atr_short \in Nat /\ x.stop_short \in Don!Ticks /\ x.stop_short \in Int
      /\ x.stop_long = NoValue /\ x.entry_atr_long = NoValue /\ DOMAIN x = Fields
      /\ x.signal_ready \in BOOLEAN /\ (x.signal_ready => x.signal \in Don!Channel /\ x.signal.atr > 0)
  <2>1. ~(size > 0)
    OBVIOUS
  <2>2. x.entry_atr_short \in Nat /\ x.stop_short \in Don!Ticks /\ x.stop_long = NoValue /\ x.entry_atr_long = NoValue
    BY <2>1 DEF Don!Protected
  <2>3. /\ DOMAIN x = Fields /\ x.signal_ready \in BOOLEAN
        /\ (x.signal_ready => x.signal \in Don!Channel /\ x.signal.atr > 0)
    BY StateFields DEF Don!Protected
  <2> QED
    BY <2>2, <2>3, TicksAreInt
<1>2. Don!EnsuredShort(x, price) = x
  BY <1>1, DonConfigured DEF Don!EnsuredShort
<1>3. lv1 \in Int /\ lv1 <= x.stop_short
  BY <1>1 DEF Don!Least
<1> HIDE DEF lv1
<1>4. TrailLock * x.entry_atr_short \in Int
  BY <1>1, DonConfigured, Don!IntProducts
<1>5. lv2 \in Int /\ lv2 <= x.stop_short
  BY <1>1, <1>3, <1>4 DEF Don!Least
<1> HIDE DEF lv2
<1>6. level \in Don!Ticks /\ level <= x.stop_short /\ level \in Int
  <2>1. level \in Don!Ticks /\ level \in Int
    BY <1>5, Whole, TicksAreInt
  <2>2. x.stop_short >= level
    BY <1>1, <1>5, NoTickPassed
  <2> QED
    BY <1>1, <2>1, <2>2
<1>7. y = [x EXCEPT !.stop_short = level]
  BY DEF Don!TrailedShort, lv1, lv2
<1> HIDE DEF level, y
<1>8. /\ DOMAIN y = Fields /\ y.stop_short = level /\ y.entry_atr_short = x.entry_atr_short
      /\ y.stop_long = x.stop_long /\ y.entry_atr_long = x.entry_atr_long
      /\ y.signal = x.signal /\ y.signal_ready = x.signal_ready
  BY <1>1, <1>7 DEF Fields
<1>9. Tighter(x, y, size)
  BY <1>1, <1>6, <1>8, StateFields DEF Tighter, Don!Protected
<1> QED
  BY <1>2, <1>9 DEF y

-----------------------------------------------------------------------------
(* What next() decides for one symbol.                                      *)

\* The size of an entry is a number.
LEMMA DonSize ==
    ASSUME Don!BookInv(Don!AnySize), NEW s \in DonSymbols, NEW atr \in Nat \ {0}
    PROVE  Don!CalcSizeByRisk(s, atr) \in Int
<1> DEFINE m == bt_account.mult
           risk == TrendAtrMult * atr * m
           margin == Don!GetMargin(bar[s].close)
<1>1. bt_broker \in Don!Broker /\ bt_account \in DonAccounts /\ bar \in Don!LastBars
  BY DEF Don!BookInv, Don!InStep, Don!BarsRead
<1>2. m \in Nat \ {0} /\ TrendAtrMult \in Nat \ {0} /\ RiskCash \in Nat
  BY <1>1, DonConfigured, Don!AccountTypes
<1>3. \A a, b \in Nat \ {0} : a * b \in Nat \ {0}
  OBVIOUS
<1>4. risk \in Nat \ {0}
  <2>1. TrendAtrMult * atr \in Nat \ {0}
    BY <1>2, <1>3
  <2> QED
    BY <1>2, <1>3, <2>1
<1>5. margin \in Int /\ bt_broker.cash \in Int
  <2>1. bar[s].close \in Nat
    BY <1>1 DEF Don!LastBars
  <2>2. bt_broker.cash \in Int
    BY <1>1 DEF Don!Broker
  <2> QED
    BY <1>1, <2>1, <2>2, DonConfigured, Don!Margins
<1>6. Don!CalcSizeByRisk(s, atr)
        = Don!RoundSize(IF margin > 0 THEN Don!Least(RiskCash \div risk, bt_broker.cash \div margin) ELSE RiskCash \div risk)
  BY DEF Don!CalcSizeByRisk
<1> HIDE DEF risk, margin
<1>7. RiskCash \div risk \in Int /\ (margin > 0 => bt_broker.cash \div margin \in Int)
  <2>1. \A a \in Int, b \in Nat \ {0} : a \div b \in Int
    OBVIOUS
  <2> QED
    BY <1>2, <1>4, <1>5, <2>1
<1>8. \A n \in Int : Don!RoundSize(n) \in Int
  BY DonConfigured DEF Don!RoundSize
<1> QED
  BY <1>6, <1>7, <1>8 DEF Don!Least

\* A decision: the state it leaves, and what may be ordered for a position of that size.
Considered(x, d, size, s) ==
    /\ Tighter(x, d.st, size)
    /\ IF size > 0 THEN d.kind \in {"none", "exit_long"}
       ELSE IF size < 0 THEN d.kind \in {"none", "exit_short"}
       ELSE d.kind \in {"none", "entry_long", "entry_short"}
    /\ size = 0 /\ d.kind # "none" => Don!CalcSizeByRisk(s, x.signal.atr) >= MinSize

\* No order is a decision like any other.
LEMMA StaysOut ==
    ASSUME NEW x, NEW y, NEW size \in Int, NEW s, Don!Protected(x, size), SameStops(x, y)
    PROVE  Considered(x, Don!Decision(y, "none"), size, s)
<1>1. Tighter(x, y, size)
  BY SameIsTighter
<1>2. Don!Decision(y, "none").st = y /\ Don!Decision(y, "none").kind = "none"
  BY DEF Don!Decision
<1> QED
  BY <1>1, <1>2 DEF Considered

\* With a long position: trail the stop, leave when it is passed or the channel is.
LEMMA ConsiderLong ==
    ASSUME NEW x, NEW size \in Int, NEW s, size > 0, Don!Protected(x, size), NEW price \in Nat, NEW b, b.high \in Nat
    PROVE  Considered(x, Don!WhenLong(x, price, b), size, s)
<1> DEFINE t == Don!TrailedLong(x, price, b)
           d == Don!WhenLong(x, price, b)
<1>1. Don!EnsuredLong(x, price) = x /\ Tighter(x, t, size)
  BY LongTrailed
<1> HIDE DEF t
<1>2. d.st = t /\ d.kind \in {"none", "exit_long"}
  <2>1. d = Don!Decision(t, IF b.low <= t.stop_long \/ b.low <= Don!ExitLong(x) THEN "exit_long" ELSE "none")
    BY <1>1 DEF Don!WhenLong, t
  <2> QED
    BY <2>1 DEF Don!Decision
<1> HIDE DEF d
<1> QED
  BY <1>1, <1>2 DEF Considered, d

\* With a short position: leave at the channel, else trail the stop and leave when it is passed.
LEMMA ConsiderShort ==
    ASSUME NEW x, NEW size \in Int, NEW s, size < 0, Don!Protected(x, size), NEW price \in Nat, NEW b, b.low \in Nat
    PROVE  Considered(x, Don!WhenShort(x, price, b), size, s)
<1> DEFINE t == Don!TrailedShort(x, price, b)
           d == Don!WhenShort(x, price, b)
<1>1. Don!EnsuredShort(x, price) = x /\ Tighter(x, t, size)
  BY ShortTrailed
<1>2. Tighter(x, x, size)
  <2>1. SameStops(x, x)
    BY StateFields DEF SameStops, Don!Protected
  <2> QED
    BY <2>1, SameIsTighter
<1> HIDE DEF t
<1>3. (d.st = t \/ d.st = x) /\ d.kind \in {"none", "exit_short"}
  <2>1. d = IF b.high >= Don!ExitShort(x) THEN Don!Decision(x, "exit_short")
            ELSE Don!Decision(t, IF b.high >= t.stop_short THEN "exit_short" ELSE "none")
    BY <1>1 DEF Don!WhenShort, t
  <2> QED
    BY <2>1 DEF Don!Decision
<1> HIDE DEF d
<1> QED
  BY <1>1, <1>2, <1>3 DEF Considered, d

\* With no position: an entry where the range is left and the size fits, or none.
LEMMA ConsiderFlat ==
    ASSUME NEW x, Don!Protected(x, 0), NEW s, Don!CalcSizeByRisk(s, x.signal.atr) \in Int, NEW b, NEW prev
    PROVE  Considered(x, Don!WhenFlat(x, s, b, prev), 0, s)
<1> DEFINE d == Don!WhenFlat(x, s, b, prev)
           t == Don!Touched(x, b, prev)
           big == Don!CalcSizeByRisk(s, x.signal.atr) < MinSize
<1>1. SameStops(x, x) /\ SameStops(x, Don!NoPendings(x)) /\ SameStops(x, t) /\ SameStops(x, Don!NoPendings(t))
  <2>1. DOMAIN x = Fields
    BY StateFields DEF Don!Protected
  <2>2. SameStops(x, t) /\ SameStops(x, Don!NoPendings(x))
    BY <2>1, OtherFields
  <2>3. DOMAIN t = Fields
    BY <2>2 DEF SameStops
  <2> HIDE DEF t
  <2>4. SameStops(t, Don!NoPendings(t))
    BY <2>3, OtherFields
  <2> QED
    BY <2>1, <2>2, <2>4 DEF SameStops
<1>2. /\ d.st \in {x, Don!NoPendings(x), t, Don!NoPendings(t)} /\ d.kind \in {"none", "entry_long", "entry_short"}
      /\ d.kind # "none" => ~big
  <2>1. \A kind, y : Don!Decision(y, kind).st = y /\ Don!Decision(y, kind).kind = kind
    BY DEF Don!Decision
  <2>2. \/ d = Don!Decision(x, "none") \/ d = Don!Decision(Don!NoPendings(x), "none")
        \/ ~big /\ d = Don!EnterAtTouch(x, b, prev)
        \/ ~big /\ d = Don!EnterAfterClose(x, b, prev)
    BY DEF Don!WhenFlat
  <2>3. \E kind \in {"none", "entry_long", "entry_short"} : Don!EnterAtTouch(x, b, prev) = Don!Decision(x, kind)
    BY DEF Don!EnterAtTouch
  <2>4. \/ \E kind \in {"entry_long", "entry_short"} : Don!EnterAfterClose(x, b, prev) = Don!Decision(Don!NoPendings(t), kind)
        \/ Don!EnterAfterClose(x, b, prev) = Don!Decision(t, "none")
    BY DEF Don!EnterAfterClose
  <2> HIDE DEF d, t, big
  <2>5. CASE d = Don!Decision(x, "none")
    BY <2>1, <2>5
  <2>6. CASE d = Don!Decision(Don!NoPendings(x), "none")
    BY <2>1, <2>6
  <2>7. CASE ~big /\ d = Don!EnterAtTouch(x, b, prev)
    BY <2>1, <2>3, <2>7
  <2>8. CASE ~big /\ d = Don!EnterAfterClose(x, b, prev)
    BY <2>1, <2>4, <2>8
  <2> QED
    BY <2>2, <2>5, <2>6, <2>7, <2>8
<1> HIDE DEF d, t
<1>3. Tighter(x, d.st, 0)
  BY <1>1, <1>2, SameIsTighter
<1>4. d.kind # "none" => Don!CalcSizeByRisk(s, x.signal.atr) >= MinSize
  <2>1. ASSUME d.kind # "none" PROVE ~(Don!CalcSizeByRisk(s, x.signal.atr) < MinSize)
    BY <1>2, <2>1
  <2> QED
    BY <2>1, DonConfigured
<1> QED
  BY <1>2, <1>3, <1>4 DEF Considered, d

\* What next() decides for a symbol keeps its protection, and orders only what fits.
Chosen(s, d) ==
    LET size == bt_broker.positions[s].size
    IN /\ Don!Protected(d.st, size)
       /\ (size > 0 => d.st.stop_long >= st[s].stop_long) /\ (size < 0 => d.st.stop_short <= st[s].stop_short)
       /\ d.kind # "none" =>
             /\ bar[s].dt # 0 /\ bt_orders[s] = NoValue /\ d.st.signal.atr \in Nat \ {0}
             /\ IF size > 0 THEN d.kind = "exit_long"
                ELSE IF size < 0 THEN d.kind = "exit_short"
                ELSE /\ d.kind \in {"entry_long", "entry_short"}
                     /\ Don!CalcSizeByRisk(s, d.st.signal.atr) \in Int
                     /\ Don!CalcSizeByRisk(s, d.st.signal.atr) >= MinSize

\* Whatever is held, the decision for a symbol fits it.
LEMMA DonDecides == ASSUME Don!DonInv, NEW sym \in DonSymbols PROVE Chosen(sym, Don!DecideFor(sym))
<1> DEFINE b == bar[sym]
           z == Don!UpdateSignalCache(st[sym], channel[sym])
           x == IF b.dt = 0 THEN st[sym] ELSE z
           seen == [x EXCEPT !.last_exec_dt = b.dt]
           synced == Don!SyncTradeDay(seen, b)
           prev == Don!PrevToday(seen, b)
           p == bt_broker.positions[sym]
           d == Don!DecideFor(sym)
<1>1. /\ p.size \in Int /\ p.price \in Nat /\ b.high \in Nat /\ b.low \in Nat
      /\ channel[sym] \in Don!Channel /\ Don!Protected(st[sym], p.size)
  <2>1. Don!BookInv(Don!AnySize) /\ Don!StopInv
    BY DEF Don!DonInv
  <2>2. bt_broker \in Don!Broker /\ bar \in Don!LastBars
    BY <2>1 DEF Don!BookInv, Don!InStep, Don!BarsRead
  <2> QED
    BY <2>1, <2>2 DEF Don!StopInv, Don!Broker, Don!BrokerPosition, Don!LastBars
<1>2. Don!Protected(x, p.size) /\ x.stop_long = st[sym].stop_long /\ x.stop_short = st[sym].stop_short
  <2>1. Don!Protected(z, p.size) /\ z.stop_long = st[sym].stop_long /\ z.stop_short = st[sym].stop_short
    BY <1>1, SignalTaken
  <2> HIDE DEF z
  <2> QED
    BY <1>1, <2>1
<1> HIDE DEF x, p
<1>3. SameStops(x, x) /\ SameStops(x, seen) /\ SameStops(x, synced)
  <2>1. DOMAIN x = Fields
    BY <1>2, StateFields DEF Don!Protected
  <2>2. SameStops(x, x)
    BY <2>1 DEF SameStops
  <2>3. SameStops(x, seen)
    BY <2>1, OtherFields
  <2> HIDE DEF seen
  <2>4. DOMAIN seen = Fields
    BY <2>3 DEF SameStops
  <2>5. SameStops(seen, synced)
    BY <2>4, OtherFields
  <2> HIDE DEF synced
  <2> QED
    BY <2>2, <2>3, <2>5 DEF SameStops
<1>4. \/ d = Don!Decision(x, "none")
      \/ d = Don!Decision(seen, "none")
      \/ /\ b.dt # 0 /\ x.signal_ready /\ bt_orders[sym] = NoValue
         /\ d = (IF p.size > 0 THEN Don!WhenLong(synced, p.price, b)
                 ELSE IF p.size < 0 THEN Don!WhenShort(synced, p.price, b)
                 ELSE Don!WhenFlat(synced, sym, b, prev))
  BY DEF Don!DecideFor, x, p
<1> HIDE DEF seen, synced, prev, d, b
<1>5. Don!Protected(synced, p.size)
  BY <1>1, <1>2, <1>3, KeepsProtection
<1>6. ASSUME x.signal_ready PROVE x.signal.atr \in Nat \ {0} /\ Don!CalcSizeByRisk(sym, x.signal.atr) \in Int
  <2>1. x.signal.atr \in Nat \ {0}
    BY <1>2, <1>6 DEF Don!Protected, Don!Channel
  <2> QED
    BY <2>1, DonSize DEF Don!DonInv
<1>7. ASSUME NEW y, SameStops(x, y), d = Don!Decision(y, "none") PROVE Considered(x, d, p.size, sym)
  BY <1>1, <1>2, <1>7, StaysOut
<1>8. ASSUME b.dt # 0, x.signal_ready, bt_orders[sym] = NoValue,
             d = (IF p.size > 0 THEN Don!WhenLong(synced, p.price, b)
                  ELSE IF p.size < 0 THEN Don!WhenShort(synced, p.price, b)
                  ELSE Don!WhenFlat(synced, sym, b, prev))
      PROVE  Considered(synced, d, p.size, sym)
  <2>1. CASE p.size > 0
    BY <1>1, <1>5, <1>8, <2>1, ConsiderLong
  <2>2. CASE p.size < 0
    <3>1. ~(p.size > 0)
      BY <1>1, <2>2
    <3> QED
      BY <1>1, <1>5, <1>8, <2>2, <3>1, ConsiderShort
  <2>3. CASE p.size = 0
    <3>1. synced.signal = x.signal
      BY <1>3 DEF SameStops
    <3> QED
      BY <1>5, <1>6, <1>8, <2>3, <3>1, ConsiderFlat
  <2> QED
    BY <1>1, <2>1, <2>2, <2>3
<1>9. ASSUME NEW y, SameStops(x, y), Considered(y, d, p.size, sym),
             d.kind # "none" => b.dt # 0 /\ x.signal_ready /\ bt_orders[sym] = NoValue
      PROVE  Chosen(sym, d)
  <2>1. /\ Don!Protected(d.st, p.size) /\ d.st.signal = x.signal
        /\ (p.size > 0 => d.st.stop_long >= x.stop_long) /\ (p.size < 0 => d.st.stop_short <= x.stop_short)
    BY <1>9 DEF Considered, Tighter, SameStops
  <2>2. IF p.size > 0 THEN d.kind \in {"none", "exit_long"}
        ELSE IF p.size < 0 THEN d.kind \in {"none", "exit_short"}
        ELSE d.kind \in {"none", "entry_long", "entry_short"}
    BY <1>9 DEF Considered
  <2>3. p.size = 0 /\ d.kind # "none" => Don!CalcSizeByRisk(sym, x.signal.atr) >= MinSize
    BY <1>9 DEF Considered, SameStops
  <2>4. d.kind # "none" => b.dt # 0 /\ bt_orders[sym] = NoValue /\ x.signal.atr \in Nat \ {0} /\ Don!CalcSizeByRisk(sym, x.signal.atr) \in Int
    BY <1>6, <1>9
  <2> QED
    BY <1>1, <1>2, <2>1, <2>2, <2>3, <2>4 DEF Chosen, p, b
<1>10. CASE d = Don!Decision(x, "none") \/ d = Don!Decision(seen, "none")
  <2>1. d.kind = "none"
    BY <1>10 DEF Don!Decision
  <2>2. Considered(x, d, p.size, sym)
    BY <1>3, <1>7, <1>10
  <2> QED
    BY <1>3, <1>9, <2>1, <2>2 DEF d
<1>11. CASE ~(d = Don!Decision(x, "none") \/ d = Don!Decision(seen, "none"))
  BY <1>3, <1>4, <1>8, <1>9, <1>11 DEF d
<1> QED
  BY <1>10, <1>11 DEF d

DonDecision == [s \in DonSymbols |-> Don!DecideFor(s)]
DonOrderFor(s, d) == [symbol |-> s, size |-> Don!OrderSize(s, d)]
DonMetaFor(d) == [kind |-> d.kind, atr |-> d.st.signal.atr]
DonDecided ==
    [s \in DonSymbols |-> IF DonDecision[s].kind = "none" THEN <<>> ELSE <<DonOrderFor(s, DonDecision[s])>>]

\* An order fits its position, and order_meta says what it is for.
LEMMA DonOrders ==
    ASSUME Don!DonInv, NEW s \in DonSymbols, NEW d, Chosen(s, d), d.kind # "none"
    PROVE  LET o == DonOrderFor(s, d)
           IN /\ o \in Don!Wanted /\ o.symbol = s /\ Don!Fits(Don!AnySize, bt_broker, o)
              /\ bar[s].dt # 0 /\ bt_orders[s] = NoValue
              /\ Don!Matching(DonMetaFor(d), bt_broker.positions[s].size, o)
<1> DEFINE size == bt_broker.positions[s].size
           o == DonOrderFor(s, d)
           calc == Don!CalcSizeByRisk(s, d.st.signal.atr)
<1>1. size \in Int
  BY DEF Don!DonInv, Don!BookInv, Don!InStep, Don!Broker, Don!BrokerPosition
<1>2. /\ bar[s].dt # 0 /\ bt_orders[s] = NoValue /\ d.st.signal.atr \in Nat \ {0}
      /\ IF size > 0 THEN d.kind = "exit_long"
         ELSE IF size < 0 THEN d.kind = "exit_short"
         ELSE d.kind \in {"entry_long", "entry_short"} /\ calc \in Int /\ calc >= MinSize
  BY DEF Chosen
<1>3. o.symbol = s /\ o.size = Don!OrderSize(s, d) /\ o = [symbol |-> s, size |-> Don!OrderSize(s, d)]
  BY DEF DonOrderFor
<1>4. DonMetaFor(d).kind = d.kind /\ DonMetaFor(d).atr \in Nat
  BY <1>2 DEF DonMetaFor
<1>5. Don!OrderSize(s, d) = CASE d.kind = "entry_long" -> calc [] d.kind = "entry_short" -> -calc [] OTHER -> -size
  BY DEF Don!OrderSize
<1> HIDE DEF o, calc, size
<1>6. CASE size # 0
  <2>1. d.kind \in {"exit_long", "exit_short"} /\ o.size = -size
    BY <1>1, <1>2, <1>3, <1>5, <1>6
  <2>2. o \in Don!Wanted
    BY <1>1, <1>3, <2>1 DEF Don!Wanted
  <2>3. Don!Fits(Don!AnySize, bt_broker, o)
    BY <1>1, <1>3, <1>6, <2>1 DEF Don!Fits, size
  <2>4. Don!Matching(DonMetaFor(d), size, o)
    BY <1>1, <1>2, <1>4, <1>6 DEF Don!Matching
  <2> QED
    BY <1>2, <1>3, <2>2, <2>3, <2>4 DEF o, size
<1>7. CASE size = 0
  <2>1. d.kind \in {"entry_long", "entry_short"} /\ calc \in Int /\ calc > 0
    BY <1>2, <1>7, DonConfigured
  <2>2. o.size \in Int \ {0} /\ (d.kind = "entry_long" <=> o.size > 0)
    <3>1. CASE d.kind = "entry_long"
      BY <1>3, <1>5, <2>1, <3>1
    <3>2. CASE d.kind = "entry_short"
      <4>1. Don!OrderSize(s, d) = -calc
        BY <1>5, <3>2
      <4> QED
        BY <1>3, <2>1, <3>2, <4>1
    <3> QED
      BY <2>1, <3>1, <3>2
  <2>3. o \in Don!Wanted
    BY <1>3, <2>2 DEF Don!Wanted
  <2>4. Don!Fits(Don!AnySize, bt_broker, o)
    BY <1>3, <1>7, <2>2 DEF Don!Fits, Don!AnySize, size
  <2>5. Don!Matching(DonMetaFor(d), size, o)
    BY <1>4, <1>7, <2>1, <2>2 DEF Don!Matching
  <2> QED
    BY <1>2, <1>3, <2>3, <2>4, <2>5 DEF o, size
<1> QED
  BY <1>6, <1>7

\* So the strategy is disciplined.
LEMMA DonSound == ASSUME Don!DonInv PROVE Don!Sound(Don!AnySize, DonDecided)
<1>1. ASSUME NEW s \in DonSymbols PROVE DonDecision[s] = Don!DecideFor(s) /\ Chosen(s, DonDecision[s])
  BY DonDecides DEF DonDecision
<1>2. ASSUME NEW s \in DonSymbols
      PROVE  DonDecided[s] = <<>> \/ (DonDecided[s] = <<DonOrderFor(s, DonDecision[s])>> /\ DonDecision[s].kind # "none")
  BY DEF DonDecided
<1>3. Don!Decided(DonDecided)
  BY <1>1, <1>2, DonOrders DEF Don!Decided
<1>4. ASSUME NEW s \in DonSymbols, NEW o \in Don!Wanted, DonDecided[s] = <<o>>
      PROVE  Don!Fits(Don!AnySize, bt_broker, o) /\ bar[s].dt # 0 /\ bt_orders[s] = NoValue
  <2>1. <<o>> # <<>>
    OBVIOUS
  <2>2. \A x, y : <<x>> = <<y>> => x = y
    OBVIOUS
  <2>3. o = DonOrderFor(s, DonDecision[s]) /\ DonDecision[s].kind # "none"
    BY <1>2, <1>4, <2>1, <2>2
  <2> QED
    BY <1>1, <2>3, DonOrders
<1> QED
  BY <1>3, <1>4 DEF Don!Sound

\* An order that is sent has its word in order_meta.
LEMMA DonSent ==
    ASSUME Don!DonInv, NEW k \in DOMAIN Don!Sent(DonOrder, DonDecided)
    PROVE  LET o == Don!Sent(DonOrder, DonDecided)[k]
               d == DonDecision[o.symbol]
           IN /\ o \in Don!Wanted /\ o.symbol \in DonSymbols /\ d.kind # "none"
              /\ Don!Matching(DonMetaFor(d), bt_broker.positions[o.symbol].size, o)
<1> DEFINE w == Don!Sent(DonOrder, DonDecided)
<1>1. DonOrder \in Seq(DonSymbols)
  BY DonConfigured DEF Don!DonchianAssumption
<1>2. Don!Decided(DonDecided)
  BY DonSound DEF Don!Sound
<1>3. Don!SentOf(DonDecided, DonOrder, w)
  BY <1>1, <1>2, Don!AllSent
<1> HIDE DEF w
<1> DEFINE o == w[k]
           s == o.symbol
<1>4. k \in DOMAIN w /\ w \in Seq(Don!Wanted) /\ DonDecided[s] = <<o>>
  BY <1>3 DEF w, Don!SentOf
<1>5. o \in Don!Wanted /\ s \in DonSymbols
  <2>1. o \in Don!Wanted
    BY <1>4
  <2> QED
    BY <2>1 DEF Don!Wanted
<1> HIDE DEF o, s
<1>6. o = DonOrderFor(s, DonDecision[s]) /\ DonDecision[s].kind # "none"
  <2>1. <<o>> # <<>>
    OBVIOUS
  <2>2. \A x, y : <<x>> = <<y>> => x = y
    OBVIOUS
  <2>3. DonDecided[s] = <<>> \/ (DonDecided[s] = <<DonOrderFor(s, DonDecision[s])>> /\ DonDecision[s].kind # "none")
    BY <1>5 DEF DonDecided
  <2> QED
    BY <1>4, <2>1, <2>2, <2>3
<1>7. Chosen(s, DonDecision[s])
  BY <1>5, DonDecides DEF DonDecision
<1> QED
  BY <1>5, <1>6, <1>7, DonOrders DEF o, s, w

-----------------------------------------------------------------------------
(* notify_order().                                                          *)

OneNotified(p, states, note) == Don!NotifyOrder(p[1], p[2], states, note)
NoneNotified(p) == p[3]
NF == INSTANCE FoldLemmas WITH op <- OneNotified, base <- NoneNotified

\* notify_order is called for one note after the other: a fold.
LEMMA NotifiedIsFold ==
    \A metas, last, states, notes : Don!Notified(metas, last, states, notes) = NF!Fold(<<metas, last, states>>, notes)
BY DEF Don!Notified, OneNotified, NoneNotified, NF!Fold, Don!FoldLeft, Don!MapThenFoldSet, Don!Max,
       NF!MapThenFoldSet, NF!Max

\* Without notes the states stay.
LEMMA NotifiedNothing == \A metas, last, states : Don!Notified(metas, last, states, <<>>) = states
<1> TAKE metas, last, states
<1> DEFINE p == <<metas, last, states>>
<1>1. NoneNotified(p) = states
  BY DEF NoneNotified
<1> HIDE DEF p
<1>2. NF!Fold(p, <<>>) = NoneNotified(p)
  BY NF!FoldEmpty
<1> QED
  BY <1>1, <1>2, NotifiedIsFold DEF p

\* One more note is notified after the others.
LEMMA NotifiedAppend ==
    ASSUME NEW metas, NEW last, NEW states, NEW notes \in Seq(Don!Note), NEW note \in Don!Note
    PROVE  Don!Notified(metas, last, states, Append(notes, note))
             = Don!NotifyOrder(metas, last, Don!Notified(metas, last, states, notes), note)
<1> DEFINE p == <<metas, last, states>>
<1>1. \A ss, n : OneNotified(p, ss, n) = Don!NotifyOrder(metas, last, ss, n)
  BY DEF OneNotified
<1> HIDE DEF p
<1>2. NF!Fold(p, Append(notes, note)) = OneNotified(p, NF!Fold(p, notes), note)
  BY NF!FoldAppend
<1> QED
  BY <1>1, <1>2, NotifiedIsFold DEF p

\* An entry that was filled: the stop and the ATR of its side, none of the other.
LEMMA EntryProtects ==
    ASSUME NEW x, NEW atr \in Nat, NEW price \in Nat, NEW size \in Int \ {0}, Don!Protected(x, 0),
           NEW kind, kind = IF size > 0 THEN "entry_long" ELSE "entry_short"
    PROVE  Don!Protected(Don!EntryNotified(x, kind, atr, price), size)
<1> DEFINE down == Don!RoundDown(price - TrendAtrMult * atr)
           up == Don!RoundUp(price + TrendAtrMult * atr)
           long == kind = "entry_long"
           short == kind = "entry_short"
           y == Don!EntryNotified(x, kind, atr, price)
<1>1. down \in Don!Ticks /\ up \in Don!Ticks
  <2>1. TrendAtrMult * atr \in Int
    BY DonConfigured, Don!IntProducts
  <2>2. price - TrendAtrMult * atr \in Int /\ price + TrendAtrMult * atr \in Int
    BY <2>1
  <2> QED
    BY <2>2, Whole
<1>2. DOMAIN x = Fields /\ SameStops(x, Don!NoPendings(x))
  <2>1. DOMAIN x = Fields
    BY StateFields DEF Don!Protected
  <2> QED
    BY <2>1, OtherFields
<1>3. y = [Don!NoPendings(x) EXCEPT
             !.entry_atr_long = IF long THEN atr ELSE NoValue, !.entry_atr_short = IF short THEN atr ELSE NoValue,
             !.stop_long = IF long THEN down ELSE NoValue, !.stop_short = IF short THEN up ELSE NoValue,
             !.wait_reentry_long = FALSE, !.wait_reentry_short = FALSE]
  BY DEF Don!EntryNotified
<1> DEFINE z == Don!NoPendings(x)
<1>4. DOMAIN z = Fields /\ z.signal = x.signal /\ z.signal_ready = x.signal_ready
  BY <1>2 DEF SameStops
<1> HIDE DEF y, z, down, up
<1>5. /\ DOMAIN y = Fields /\ y.signal = x.signal /\ y.signal_ready = x.signal_ready
      /\ y.entry_atr_long = (IF long THEN atr ELSE NoValue) /\ y.entry_atr_short = (IF short THEN atr ELSE NoValue)
      /\ y.stop_long = (IF long THEN down ELSE NoValue) /\ y.stop_short = (IF short THEN up ELSE NoValue)
  BY <1>3, <1>4 DEF Fields, z
<1>6. (long <=> size > 0) /\ (short <=> size < 0)
  OBVIOUS
<1> HIDE DEF long, short
<1>7. x.signal_ready \in BOOLEAN /\ (x.signal_ready => x.signal \in Don!Channel /\ x.signal.atr > 0)
  BY DEF Don!Protected
<1>8. Don!Protected(y, size)
  BY <1>1, <1>5, <1>6, <1>7, StateFields DEF Don!Protected
<1> QED
  BY <1>8 DEF y

\* An exit that was filled: nothing of either side.
LEMMA ExitUnprotects ==
    ASSUME NEW x, NEW size \in Int \ {0}, Don!Protected(x, size), NEW now,
           NEW kind, kind = IF size > 0 THEN "exit_long" ELSE "exit_short"
    PROVE  Don!Protected(Don!ExitNotified(x, kind, now), 0)
<1> DEFINE y == Don!ExitNotified(x, kind, now)
<1>1. /\ DOMAIN x = Fields /\ x.signal_ready \in BOOLEAN
      /\ (x.signal_ready => x.signal \in Don!Channel /\ x.signal.atr > 0)
  BY StateFields DEF Don!Protected
<1>2. CASE size > 0
  <2>1. y = [x EXCEPT !.entry_atr_long = NoValue, !.stop_long = NoValue,
                      !.last_exit_dt_long = now, !.wait_reentry_long = TRUE]
    BY <1>2 DEF Don!ExitNotified
  <2>2. x.stop_short = NoValue /\ x.entry_atr_short = NoValue
    <3>1. ~(size < 0)
      BY <1>2
    <3> QED
      BY <3>1 DEF Don!Protected
  <2> HIDE DEF y
  <2>3. /\ DOMAIN y = Fields /\ y.signal = x.signal /\ y.signal_ready = x.signal_ready
        /\ y.stop_long = NoValue /\ y.entry_atr_long = NoValue /\ y.stop_short = NoValue /\ y.entry_atr_short = NoValue
    BY <1>1, <2>1, <2>2 DEF Fields
  <2>4. Don!Protected(y, 0)
    BY <1>1, <2>3, StateFields DEF Don!Protected
  <2> QED
    BY <2>4 DEF y
<1>3. CASE ~(size > 0)
  <2>1. y = [x EXCEPT !.entry_atr_short = NoValue, !.stop_short = NoValue,
                      !.last_exit_dt_short = now, !.wait_reentry_short = TRUE]
    BY <1>3 DEF Don!ExitNotified
  <2>2. x.stop_long = NoValue /\ x.entry_atr_long = NoValue
    BY <1>3 DEF Don!Protected
  <2> HIDE DEF y
  <2>3. /\ DOMAIN y = Fields /\ y.signal = x.signal /\ y.signal_ready = x.signal_ready
        /\ y.stop_long = NoValue /\ y.entry_atr_long = NoValue /\ y.stop_short = NoValue /\ y.entry_atr_short = NoValue
    BY <1>1, <2>1, <2>2 DEF Fields
  <2>4. Don!Protected(y, 0)
    BY <1>1, <2>3, StateFields DEF Don!Protected
  <2> QED
    BY <2>4 DEF y
<1> QED
  BY <1>2, <1>3

\* One execution and its notification: the symbol's state fits its new position, the others stay.
StatesFollow(sym, b, ss, c, tt) ==
    /\ DOMAIN tt = DonSymbols /\ Don!Protected(tt[sym], c.positions[sym].size)
    /\ b.positions[sym].size = 0 \/ c.positions[sym].size = 0
    /\ \A s \in DonSymbols \ {sym} : tt[s] = ss[s]

\* notify_order leaves the state of a symbol as the position that the order left needs it.
LEMMA OneOrderNotified ==
    ASSUME NEW metas, NEW last, NEW ss, NEW b \in Don!Broker, NEW o \in Don!WaitingOrder, NEW price \in Nat, NEW r,
           Don!Outcome(b, o, price, r), Don!Fits(Don!AnySize, b, o),
           Don!Matching(metas[o.symbol], b.positions[o.symbol].size, o),
           DOMAIN ss = DonSymbols, Don!Protected(ss[o.symbol], b.positions[o.symbol].size)
    PROVE  StatesFollow(o.symbol, b, ss, r.broker, Don!NotifyOrder(metas, last, ss, r.note))
<1> DEFINE sym == o.symbol
           m == metas[sym]
           before == b.positions[sym].size
           after == r.broker.positions[sym].size
           tt == Don!NotifyOrder(metas, last, ss, r.note)
<1>1. sym \in DonSymbols /\ before \in Int /\ o.size \in Int /\ DOMAIN b.positions = DonSymbols
  BY DEF Don!WaitingOrder, Don!Broker, Don!BrokerPosition
<1>2. /\ m.atr \in Nat
      /\ m.kind = IF before > 0 THEN "exit_long" ELSE IF before < 0 THEN "exit_short"
                  ELSE IF o.size > 0 THEN "entry_long" ELSE "entry_short"
  BY DEF Don!Matching
<1>3. Don!Protected(ss[sym], before)
  OBVIOUS
<1>4. CASE before = 0 /\ r = Don!TurnedDown(b, o, price)
  <2>1. r.broker = b /\ r.note.status = "margin"
    BY <1>4 DEF Don!TurnedDown, Don!Noted
  <2>2. tt = ss
    BY <2>1 DEF Don!NotifyOrder
  <2> QED
    BY <1>3, <1>4, <2>1, <2>2 DEF StatesFollow
<1>5. CASE before = 0 /\ r = Don!EntersAt(b, o, price)
  <2> DEFINE y == Don!EntryNotified(ss[sym], m.kind, m.atr, price)
  <2>1. /\ r.note.status = "completed" /\ r.note.order = o /\ r.note.price = price
        /\ r.broker.positions = [b.positions EXCEPT ![sym] = [size |-> o.size, adjbase |-> price, price |-> price]]
    BY <1>5 DEF Don!EntersAt, Don!Noted
  <2>2. after = o.size
    BY <1>1, <2>1
  <2>3. o.size \in Int \ {0} /\ m.kind = (IF o.size > 0 THEN "entry_long" ELSE "entry_short")
    BY <1>1, <1>2, <1>5 DEF Don!Fits
  <2>4. Don!Protected(y, o.size)
    BY <1>2, <1>3, <1>5, <2>3, EntryProtects
  <2>5. tt = [ss EXCEPT ![sym] = y]
    BY <2>1, <2>3 DEF Don!NotifyOrder
  <2> HIDE DEF y, tt
  <2>6. DOMAIN tt = DonSymbols /\ tt[sym] = y /\ \A s \in DonSymbols \ {sym} : tt[s] = ss[s]
    BY <1>1, <2>5
  <2> QED
    BY <1>5, <2>2, <2>4, <2>6 DEF tt, StatesFollow
<1>6. CASE before # 0 /\ r = Don!LeavesAt(b, o, price)
  <2> DEFINE y == Don!ExitNotified(ss[sym], m.kind, last[sym].dt)
  <2>1. /\ r.note.status = "completed" /\ r.note.order = o
        /\ r.broker.positions = [b.positions EXCEPT ![sym] = Don!Flat]
    BY <1>6 DEF Don!LeavesAt, Don!Noted
  <2>2. after = 0
    BY <1>1, <2>1 DEF Don!Flat
  <2>3. before \in Int \ {0} /\ m.kind = (IF before > 0 THEN "exit_long" ELSE "exit_short")
    BY <1>1, <1>2, <1>6
  <2>4. Don!Protected(y, 0)
    BY <1>3, <2>3, ExitUnprotects
  <2>5. tt = [ss EXCEPT ![sym] = y]
    BY <2>1, <2>3 DEF Don!NotifyOrder
  <2> HIDE DEF y, tt
  <2>6. DOMAIN tt = DonSymbols /\ tt[sym] = y /\ \A s \in DonSymbols \ {sym} : tt[s] = ss[s]
    BY <1>1, <2>5
  <2> QED
    BY <2>2, <2>4, <2>6 DEF tt, StatesFollow
<1> QED
  BY <1>4, <1>5, <1>6 DEF Don!Outcome

\* The states after the notifications of a run of orders fit the positions after it; a symbol
\* held before and after has kept its own.
NotedWell(b, states, metas, last, c) ==
    LET ss == Don!Notified(metas, last, states, c.notes)
    IN /\ DOMAIN ss = DonSymbols
       /\ \A s \in DonSymbols :
            /\ Don!Protected(ss[s], c.broker.positions[s].size)
            /\ ss[s] = states[s] \/ b.positions[s].size = 0 \/ c.broker.positions[s].size = 0

Matched(b, metas, q) ==
    \A i \in DOMAIN q : Don!Matching(metas[q[i].symbol], b.positions[q[i].symbol].size, q[i])

\* So does the note of one more order of a turn.
LEMMA OneNotedWell ==
    ASSUME bt_account \in DonAccounts, NEW b, NEW c, NEW l, NEW q \in Seq(Don!WaitingOrder),
           NEW o \in Don!WaitingOrder, NEW fresh, NEW before, NEW now, NEW metas, NEW states,
           Don!MayRun(Don!AnySize, b, Append(q, o), l.filled, fresh, before, now),
           Don!HasRun(Don!AnySize, b, q, fresh, l, c),
           Don!Matching(metas[o.symbol], b.positions[o.symbol].size, o), NotedWell(b, states, metas, now, c)
    PROVE  NotedWell(b, states, metas, now, Don!RunOrder(c, o, fresh, before, now))
<1> DEFINE next == Don!RunOrder(c, o, fresh, before, now)
           price == Don!Price(o, before, now)
           r == Don!Execute(c.broker, o, price)
           ss == Don!Notified(metas, now, states, c.notes)
           sym == o.symbol
<1>1. CASE sym \notin fresh
  <2>1. next = c
    BY <1>1 DEF Don!RunOrder
  <2> QED
    BY <2>1
<1>2. CASE sym \in fresh
  <2>1. next = [broker |-> r.broker, notes |-> Append(c.notes, r.note)]
    BY <1>2 DEF Don!RunOrder, Don!Price
  <2>2. Don!AnySize \in SUBSET (Int \ {0}) /\ Don!Configured
    BY DonConfigured DEF Don!AnySize
  <2>3. /\ Don!Outcome(c.broker, o, price, r) /\ price \in Nat /\ r.note \in Don!Note
        /\ Don!OnlyAt(c.broker, r.broker, sym) /\ c.broker.positions[sym] = b.positions[sym]
    <3>1. LET x == Don!Execute(c.broker, o, Don!Price(o, before, now))
          IN /\ Don!Outcome(c.broker, o, Don!Price(o, before, now), x) /\ Don!Price(o, before, now) \in Nat \ {0}
             /\ x.note \in Don!Note
             /\ Don!OnlyAt(c.broker, x.broker, o.symbol)
             /\ c.broker.positions[o.symbol] = b.positions[o.symbol]
      BY <1>2, <2>2, Don!OneOrder
    <3> QED
      BY <3>1
  <2> HIDE DEF r, price
  <2>4. c.broker \in Don!Broker /\ c.notes \in Seq(Don!Note)
    BY DEF Don!HasRun, Don!InStep
  <2>5. Don!Fits(Don!AnySize, c.broker, o)
    <3>1. Don!Fits(Don!AnySize, b, o)
      BY Don!FirstMayRun
    <3> QED
      BY <2>3, <3>1 DEF Don!Fits
  <2>6. /\ DOMAIN ss = DonSymbols /\ sym \in DonSymbols
        /\ \A s \in DonSymbols :
             /\ Don!Protected(ss[s], c.broker.positions[s].size)
             /\ ss[s] = states[s] \/ b.positions[s].size = 0 \/ c.broker.positions[s].size = 0
    BY DEF NotedWell, Don!WaitingOrder
  <2> DEFINE tt == Don!NotifyOrder(metas, now, ss, r.note)
  <2>7. tt = Don!Notified(metas, now, states, Append(c.notes, r.note))
    BY <2>3, <2>4, NotifiedAppend
  <2> HIDE DEF ss
  <2>8. /\ DOMAIN tt = DonSymbols /\ Don!Protected(tt[sym], r.broker.positions[sym].size)
        /\ b.positions[sym].size = 0 \/ r.broker.positions[sym].size = 0
        /\ \A s \in DonSymbols \ {sym} : tt[s] = ss[s]
    <3> DEFINE d == c.broker
    <3>1. /\ d \in Don!Broker /\ price \in Nat /\ Don!Outcome(d, o, price, r) /\ Don!Fits(Don!AnySize, d, o)
          /\ Don!Matching(metas[o.symbol], d.positions[o.symbol].size, o) /\ DOMAIN ss = DonSymbols
          /\ Don!Protected(ss[o.symbol], d.positions[o.symbol].size)
      BY <2>3, <2>4, <2>5, <2>6
    <3> HIDE DEF d
    <3>2. StatesFollow(o.symbol, d, ss, r.broker, Don!NotifyOrder(metas, now, ss, r.note))
      BY <3>1, OneOrderNotified
    <3> QED
      BY <2>3, <3>2 DEF d, StatesFollow
  <2>9. \A s \in DonSymbols \ {sym} : r.broker.positions[s] = c.broker.positions[s]
    BY <2>3 DEF Don!OnlyAt
  <2> HIDE DEF tt, next, sym
  <2>10. next.broker = r.broker /\ tt = Don!Notified(metas, now, states, next.notes)
    BY <2>1, <2>7
  <2>11. ASSUME NEW s \in DonSymbols
         PROVE  /\ Don!Protected(tt[s], r.broker.positions[s].size)
                /\ tt[s] = states[s] \/ b.positions[s].size = 0 \/ r.broker.positions[s].size = 0
    <3>1. CASE s = sym
      BY <2>8, <3>1
    <3>2. CASE s # sym
      BY <2>6, <2>8, <2>9, <3>2
    <3> QED
      BY <3>1, <3>2
  <2>12. NotedWell(b, states, metas, now, next)
    BY <2>8, <2>10, <2>11 DEF NotedWell
  <2> QED
    BY <2>12 DEF next
<1> QED
  BY <1>1, <1>2

\* So do the notes of all the orders of a turn.
LEMMA AllNotedWell ==
    ASSUME bt_account \in DonAccounts, NEW b, NEW l, Don!InStep(Don!AnySize, b, l),
           NEW fresh, NEW before, NEW now, NEW metas, NEW states, DOMAIN states = DonSymbols,
           \A s \in DonSymbols : Don!Protected(states[s], b.positions[s].size),
           NEW q \in Seq(Don!WaitingOrder), Don!MayRun(Don!AnySize, b, q, l.filled, fresh, before, now), Matched(b, metas, q)
    PROVE  NotedWell(b, states, metas, now, Don!RunOrders(b, q, fresh, before, now))
<1> DEFINE Run(w) == Don!RunOrders(b, w, fresh, before, now)
           May(w) == Don!MayRun(Don!AnySize, b, w, l.filled, fresh, before, now)
           Good == {w \in Seq(Don!WaitingOrder) : May(w) /\ Matched(b, metas, w) => NotedWell(b, states, metas, now, Run(w))}
<1>1. <<>> \in Good
  <2> DEFINE none == [broker |-> b, notes |-> <<>>]
  <2>1. Run(<<>>) = none /\ Don!Notified(metas, now, states, <<>>) = states
    BY Don!RunNothing, NotifiedNothing
  <2>2. none.broker = b /\ none.notes = <<>>
    OBVIOUS
  <2> HIDE DEF none, Run
  <2>3. NotedWell(b, states, metas, now, none)
    BY <2>1, <2>2 DEF NotedWell
  <2> QED
    BY <2>1, <2>3
<1>2. ASSUME NEW w \in Seq(Don!WaitingOrder), NEW o \in Don!WaitingOrder, w \in Good
      PROVE  Append(w, o) \in Good
  <2>1. Append(w, o) \in Seq(Don!WaitingOrder)
    OBVIOUS
  <2>2. ASSUME May(Append(w, o)), Matched(b, metas, Append(w, o))
        PROVE  NotedWell(b, states, metas, now, Run(Append(w, o)))
    <3>1. May(w)
      BY <2>2, Don!FirstMayRun
    <3>2. Matched(b, metas, w) /\ Don!Matching(metas[o.symbol], b.positions[o.symbol].size, o)
      <4> DEFINE v == Append(w, o)
                 n == Len(w) + 1
      <4>1. n \in DOMAIN v /\ v[n] = o /\ \A i \in DOMAIN w : i \in DOMAIN v /\ v[i] = w[i]
        OBVIOUS
      <4>2. Matched(b, metas, v)
        BY <2>2
      <4> HIDE DEF v, n
      <4> QED
        BY <4>1, <4>2 DEF Matched
    <3>3. NotedWell(b, states, metas, now, Run(w))
      BY <1>2, <3>1, <3>2
    <3>4. Don!HasRun(Don!AnySize, b, w, fresh, l, Run(w))
      <4>1. Don!AnySize \in SUBSET (Int \ {0}) /\ Don!Configured
        BY DonConfigured DEF Don!AnySize
      <4> QED
        BY <3>1, <4>1, Don!AllHaveRun
    <3>5. Run(Append(w, o)) = Don!RunOrder(Run(w), o, fresh, before, now)
      BY Don!RunAppend
    <3> HIDE DEF Run
    <3> QED
      BY <2>2, <3>2, <3>3, <3>4, <3>5, OneNotedWell
  <2> QED
    BY <2>1, <2>2
<1> HIDE DEF Good
<1>3. Seq(Don!WaitingOrder) \subseteq Good
  BY <1>1, <1>2, NF!SequenceInduction
<1> QED
  BY <1>3 DEF Good

-----------------------------------------------------------------------------
(* The invariant of the Donchian strategy.                                  *)

\* The parts of the invariant, each in the form that is used.
LEMMA DonParts ==
    ASSUME Don!DonInv
    PROVE  /\ Don!BookInv(Don!AnySize) /\ bt_account \in DonAccounts
           /\ bt_broker \in Don!Broker /\ queue \in Seq(Don!WaitingOrder) /\ last_ref \in Nat
           /\ channel \in [DonSymbols -> Don!Channel] /\ DOMAIN st = DonSymbols
           /\ \A s \in DonSymbols : Don!Protected(st[s], bt_broker.positions[s].size) /\ bt_broker.positions[s].size \in Int
           /\ Matched(bt_broker, meta, queue)
<1>1. Don!BookInv(Don!AnySize) /\ Don!StopInv
  BY DEF Don!DonInv
<1>2. /\ bt_account \in DonAccounts /\ bt_broker \in Don!Broker /\ queue \in Seq(Don!WaitingOrder) /\ last_ref \in Nat
  BY <1>1 DEF Don!BookInv, Don!InStep, Don!QueueRead
<1>3. \A s \in DonSymbols : bt_broker.positions[s].size \in Int
  BY <1>2 DEF Don!Broker, Don!BrokerPosition
<1>4. Matched(bt_broker, meta, queue)
  BY <1>1 DEF Don!StopInv, Matched
<1> QED
  BY <1>1, <1>2, <1>3, <1>4 DEF Don!StopInv

\* A run of the Donchian strategy begins in order: nothing held and no stop.
LEMMA DonBegins == ASSUME Don!BtInit, Don!StrategyInit PROVE Don!DonInv
<1>1. Don!BookInv(Don!AnySize)
  BY DonConfigured, Don!BooksBegin
<1>2. channel \in [DonSymbols -> Don!Channel]
  BY DonConfigured DEF Don!StrategyInit, Don!DonchianAssumption
<1>3. DOMAIN st = DonSymbols /\ \A s \in DonSymbols : st[s] = Don!NewState
  BY DEF Don!StrategyInit
<1>4. Don!Protected(Don!NewState, 0)
  <2>1. /\ Don!NewState.signal_ready = FALSE /\ Don!NewState.stop_long = NoValue /\ Don!NewState.entry_atr_long = NoValue
        /\ Don!NewState.stop_short = NoValue /\ Don!NewState.entry_atr_short = NoValue
    BY DEF Don!NewState
  <2> DEFINE x == Don!NewState
  <2> HIDE DEF x
  <2>2. ~(0 > 0) /\ ~(0 < 0)
    OBVIOUS
  <2>3. x.signal_ready = FALSE
    BY <2>1 DEF x
  <2>4. x.signal_ready \in BOOLEAN /\ (x.signal_ready => x.signal \in Don!Channel /\ x.signal.atr > 0)
    BY <2>3, Zenon
  <2> QED
    BY <2>1, <2>2, <2>4 DEF Don!Protected, x
<1>5. \A s \in DonSymbols : bt_broker.positions[s].size = 0
  BY DEF Don!BtInit, Don!Flat
<1>6. DOMAIN queue = {}
  BY DEF Don!BtInit
<1>7. Don!StopInv
  BY <1>2, <1>3, <1>4, <1>5, <1>6 DEF Don!StopInv
<1> QED
  BY <1>1, <1>7 DEF Don!DonInv

\* Each symbol's new state fits its new position, and its stop is not looser.
StatesKept ==
    /\ DOMAIN st' = DonSymbols
    /\ \A s \in DonSymbols :
         /\ Don!Protected(st'[s], bt_broker'.positions[s].size) /\ bt_broker'.positions[s].size \in Int
         /\ bt_broker.positions[s].size > 0 /\ bt_broker'.positions[s].size > 0 => st'[s].stop_long >= st[s].stop_long
         /\ bt_broker.positions[s].size < 0 /\ bt_broker'.positions[s].size < 0 => st'[s].stop_short <= st[s].stop_short
WordsKept ==
    \A i \in DOMAIN queue' : Don!Matching(meta'[queue'[i].symbol], bt_broker'.positions[queue'[i].symbol].size, queue'[i])

\* The broker's turn on a new bar: orders executed and notified, positions marked.
LEMMA DonTurn ==
    ASSUME Don!DonInv, Don!BarsCome
    PROVE  Don!BookInv(Don!AnySize)' /\ channel' \in [DonSymbols -> Don!Channel] /\ StatesKept /\ WordsKept
<1> DEFINE E == Don!AnySize
<1>0. E \in SUBSET (Int \ {0}) /\ Don!Configured
  BY DonConfigured DEF Don!AnySize
<1> HIDE DEF E
<1>1. PICK fresh \in SUBSET DonSymbols :
        /\ Don!BrokerTurn(fresh)
        /\ st' = Don!Notified(meta, bar', st, Don!Ran(fresh).notes)
        /\ meta' = [s \in DonSymbols |-> IF s \in fresh THEN Don!NoMeta ELSE meta[s]]
  BY DEF Don!BarsCome
<1> DEFINE c == Don!Ran(fresh)
<1>2. Don!BookInv(E)
  BY DonParts DEF E
<1>3. Don!BookInv(E)'
  BY <1>0, <1>1, <1>2, Don!BooksTurn
<1>4. channel' \in [DonSymbols -> Don!Channel]
  BY DonConfigured, DonParts DEF Don!BarsCome, Don!NewChannels, Don!DonchianAssumption
<1>5. NotedWell(bt_broker, st, meta, bar', c)
  <2>1. Don!MayRun(E, bt_broker, queue, bt_ledger.filled, fresh, bar, bar')
    BY <1>0, <1>1, <1>2, Don!QueueMayRun
  <2>2. Don!InStep(E, bt_broker, bt_ledger)
    BY <1>2 DEF Don!BookInv
  <2>3. c = Don!RunOrders(bt_broker, queue, fresh, bar, bar')
    BY DEF Don!Ran
  <2> HIDE DEF c
  <2> QED
    BY <2>1, <2>2, <2>3, DonParts, AllNotedWell DEF E
<1>6. \A s \in DonSymbols : bt_broker'.positions[s].size = c.broker.positions[s].size
  BY <1>0, <1>1, <1>2, Don!TurnIsTaken DEF Don!TurnTaken
<1>7. \A s \in DonSymbols : bt_broker'.positions[s].size \in Int
  <2>1. bt_broker' \in Don!Broker
    BY <1>3 DEF Don!BookInv, Don!InStep, Don!Broker, Don!BrokerPosition, Don!OpenTrade
  <2> QED
    BY <2>1 DEF Don!Broker, Don!BrokerPosition
<1> HIDE DEF c
<1>8. DOMAIN st' = DonSymbols /\ \A s \in DonSymbols :
        /\ Don!Protected(st'[s], bt_broker'.positions[s].size)
        /\ st'[s] = st[s] \/ bt_broker.positions[s].size = 0 \/ bt_broker'.positions[s].size = 0
  BY <1>1, <1>5, <1>6 DEF NotedWell, c
<1>9. StatesKept
  <2>1. ASSUME NEW s \in DonSymbols, bt_broker.positions[s].size > 0, bt_broker'.positions[s].size > 0
        PROVE  st'[s].stop_long >= st[s].stop_long
    <3>1. st'[s] = st[s]
      BY <1>7, <1>8, <2>1, DonParts
    <3>2. st[s].stop_long \in Int
      BY <2>1, DonParts, TicksAreInt DEF Don!Protected
    <3> QED
      BY <3>1, <3>2
  <2>2. ASSUME NEW s \in DonSymbols, bt_broker.positions[s].size < 0, bt_broker'.positions[s].size < 0
        PROVE  st'[s].stop_short <= st[s].stop_short
    <3>1. st'[s] = st[s]
      BY <1>7, <1>8, <2>2, DonParts
    <3>2. st[s].stop_short \in Int
      BY <2>2, DonParts, TicksAreInt DEF Don!Protected
    <3> QED
      BY <3>1, <3>2
  <2> QED
    BY <1>7, <1>8, <2>1, <2>2 DEF StatesKept
<1>10. WordsKept
  <2>1. ASSUME NEW i \in DOMAIN queue'
        PROVE  Don!Matching(meta'[queue'[i].symbol], bt_broker'.positions[queue'[i].symbol].size, queue'[i])
    <3>1. PICK k \in DOMAIN queue : /\ queue'[i] = queue[k] /\ queue[k].symbol \in DonSymbols \ fresh
                                    /\ bt_broker'.positions[queue[k].symbol].size = bt_broker.positions[queue[k].symbol].size
      BY <1>0, <1>1, <1>2, <2>1, Don!QueueAfterTurn
    <3>2. meta'[queue[k].symbol] = meta[queue[k].symbol]
      BY <1>1, <3>1
    <3>3. Don!Matching(meta[queue[k].symbol], bt_broker.positions[queue[k].symbol].size, queue[k])
      BY DonParts DEF Matched
    <3> QED
      BY <3>1, <3>2, <3>3
  <2> QED
    BY <2>1 DEF WordsKept
<1> QED
  BY <1>3, <1>4, <1>9, <1>10 DEF E

\* What next() of the strategy changes, in terms of its decisions.
LEMMA DonDecisionsTaken ==
    ASSUME Don!DonInv, Don!StrategyNext
    PROVE  /\ st' = [s \in DonSymbols |-> DonDecision[s].st]
           /\ Don!Submitted(Don!Sent(DonOrder, DonDecided))
           /\ meta' = [s \in DonSymbols |-> IF DonDecision[s].kind = "none" THEN meta[s] ELSE DonMetaFor(DonDecision[s])]
           /\ channel' = channel /\ bt_broker' = bt_broker
BY DEF Don!StrategyNext, Don!Submitted, DonDecision, DonDecided, DonMetaFor, DonOrderFor

\* next() of the strategy: the decisions, and the orders that follow from them.
LEMMA DonNext ==
    ASSUME Don!DonInv, Don!StrategyNext
    PROVE  Don!BookInv(Don!AnySize)' /\ channel' \in [DonSymbols -> Don!Channel] /\ StatesKept /\ WordsKept
<1> DEFINE E == Don!AnySize
           w == Don!Sent(DonOrder, DonDecided)
<1>0. E \in SUBSET (Int \ {0}) /\ Don!Configured
  BY DonConfigured DEF Don!AnySize
<1> HIDE DEF E
<1>1. /\ st' = [s \in DonSymbols |-> DonDecision[s].st]
      /\ Don!Submitted(w)
      /\ meta' = [s \in DonSymbols |-> IF DonDecision[s].kind = "none" THEN meta[s] ELSE DonMetaFor(DonDecision[s])]
      /\ channel' = channel /\ bt_broker' = bt_broker
  BY DonDecisionsTaken
<1>2. Don!BookInv(E)
  BY DonParts DEF E
<1>3. Don!Disciplined(E, w)
  <2>1. DonOrder \in Seq(DonSymbols) /\ Don!IsInjective(DonOrder)
    BY DonConfigured DEF Don!DonchianAssumption
  <2>2. Don!Sound(E, DonDecided)
    BY DonSound DEF E
  <2> QED
    BY <2>1, <2>2, Don!SoundIsDisciplined
<1> HIDE DEF w
<1>4. Don!BookInv(E)'
  BY <1>0, <1>1, <1>2, <1>3, Don!BooksOrdered
<1>5. channel' \in [DonSymbols -> Don!Channel]
  BY <1>1, DonParts
<1>6. \A s \in DonSymbols : Chosen(s, DonDecision[s])
  BY DonDecides DEF DonDecision
<1>7. StatesKept
  <2>1. \A s \in DonSymbols : st'[s] = DonDecision[s].st
    BY <1>1
  <2>2. DOMAIN st' = DonSymbols
    BY <1>1
  <2> QED
    BY <1>1, <1>6, <2>1, <2>2, DonParts DEF StatesKept, Chosen
<1>8. WordsKept
  <2>1. ASSUME NEW i \in DOMAIN queue'
        PROVE  Don!Matching(meta'[queue'[i].symbol], bt_broker'.positions[queue'[i].symbol].size, queue'[i])
    <3>1. \/ \E k \in DOMAIN queue : queue'[i] = queue[k]
          \/ \E k \in DOMAIN w : queue'[i].symbol = w[k].symbol /\ queue'[i].size = w[k].size
      <4>1. w \in Seq(Don!Wanted)
        BY <1>3 DEF Don!Disciplined
      <4> QED
        BY <1>1, <2>1, <4>1, DonParts, Don!QueueAfterOrders
    <3>2. ASSUME NEW k \in DOMAIN queue, queue'[i] = queue[k]
          PROVE  Don!Matching(meta'[queue'[i].symbol], bt_broker'.positions[queue'[i].symbol].size, queue'[i])
      <4> DEFINE s == queue[k].symbol
      <4>1. s \in DonSymbols
        BY DonParts, Don!WaitingOrders
      <4>2. bt_orders[s] # NoValue
        BY <1>2 DEF Don!BookInv, Don!QueueRead
      <4> HIDE DEF s
      <4>3. DonDecision[s].kind = "none"
        BY <1>6, <4>1, <4>2 DEF Chosen
      <4>4. meta'[s] = meta[s]
        BY <1>1, <4>1, <4>3
      <4>5. Don!Matching(meta[s], bt_broker.positions[s].size, queue[k])
        BY DonParts DEF Matched, s
      <4> QED
        BY <1>1, <3>2, <4>4, <4>5 DEF s
    <3>3. ASSUME NEW k \in DOMAIN w, queue'[i].symbol = w[k].symbol, queue'[i].size = w[k].size
          PROVE  Don!Matching(meta'[queue'[i].symbol], bt_broker'.positions[queue'[i].symbol].size, queue'[i])
      <4> DEFINE s == w[k].symbol
      <4>1. s \in DonSymbols /\ DonDecision[s].kind # "none"
            /\ Don!Matching(DonMetaFor(DonDecision[s]), bt_broker.positions[s].size, w[k])
        BY DonSent DEF w
      <4> HIDE DEF s
      <4>2. meta'[s] = DonMetaFor(DonDecision[s])
        BY <1>1, <4>1
      <4>3. Don!Matching(meta'[s], bt_broker'.positions[s].size, w[k])
        BY <1>1, <4>1, <4>2
      <4> QED
        BY <3>3, <4>3 DEF Don!Matching, s
    <3> QED
      BY <3>1, <3>2, <3>3
  <2> QED
    BY <2>1 DEF WordsKept
<1> QED
  BY <1>4, <1>5, <1>7, <1>8 DEF E

\* A step of a Donchian run keeps the invariant and loosens no stop.
LEMMA DonKeeps == ASSUME Don!DonInv, Don!Next PROVE Don!DonInv' /\ StatesKept
<1>1. Don!BookInv(Don!AnySize)' /\ channel' \in [DonSymbols -> Don!Channel] /\ StatesKept /\ WordsKept
  BY DonTurn, DonNext DEF Don!Next
<1>2. Don!StopInv'
  BY <1>1 DEF Don!StopInv, StatesKept, WordsKept
<1> QED
  BY <1>1, <1>2 DEF Don!DonInv

\* What the invariant says of the Donchian strategy.
LEMMA DonSays ==
    ASSUME Don!DonInv
    PROVE  Don!LedgerFollowsBroker /\ Don!ResultsAgreeWhenFlat /\ Don!CashStaticEquity /\ Don!StopsMatchPosition
<1>1. Don!LedgerFollowsBroker /\ Don!ResultsAgreeWhenFlat /\ Don!CashStaticEquity
  <2>1. Don!AnySize \in SUBSET (Int \ {0}) /\ Don!Configured
    BY DonConfigured DEF Don!AnySize
  <2> QED
    BY <2>1, DonParts, Don!BooksSay
<1>2. Don!StopsMatchPosition
  <2>1. ASSUME NEW s \in DonSymbols
        PROVE  LET size == bt_broker.positions[s].size
               IN /\ (size > 0) <=> (st[s].stop_long # NoValue)
                  /\ (size > 0) <=> (st[s].entry_atr_long # NoValue)
                  /\ (size < 0) <=> (st[s].stop_short # NoValue)
                  /\ (size < 0) <=> (st[s].entry_atr_short # NoValue)
    <3>1. Don!Protected(st[s], bt_broker.positions[s].size)
      BY DonParts
    <3>2. \A n \in Int : n # NoValue
      BY DonConfigured
    <3>3. Don!Ticks \subseteq Int /\ Nat \subseteq Int
      BY TicksAreInt
    <3> QED
      BY <3>1, <3>2, <3>3 DEF Don!Protected
  <2> QED
    BY <2>1 DEF Don!StopsMatchPosition
<1> QED
  BY <1>1, <1>2

-----------------------------------------------------------------------------
(* All three backtests.                                                     *)

\* What is used by the engine of the run is in order; what is not has no stop that could move.
AllInv ==
    /\ engine \in {"simple", "donchian", "cta"}
    /\ EngineInv /\ MoneyInv /\ StopsTypeOK
    /\ engine = "donchian" => Don!DonInv
    /\ engine # "donchian" => \A s \in DonSymbols : st[s].stop_long = NoValue /\ st[s].stop_short = NoValue
    /\ engine = "cta" => CtaInv

\* Every kind of run begins in order.
LEMMA AllBegin == BacktestInit => AllInv
<1> SUFFICES ASSUME BacktestInit PROVE AllInv
  OBVIOUS
<1>1. EngineInv /\ MoneyInv /\ StopsTypeOK
  BY InitEngine, InitMoney DEF BacktestInit, Init, StopsTypeOK
<1>2. engine = "donchian" => Don!DonInv
  BY DonBegins DEF BacktestInit
<1>3. engine = "cta" => CtaInv
  BY CtaBegins DEF BacktestInit
<1>4. \A s \in DonSymbols : st[s].stop_long = NoValue /\ st[s].stop_short = NoValue
  BY DEF BacktestInit, Don!StrategyInit, Don!NewState
<1> QED
  BY <1>1, <1>2, <1>3, <1>4 DEF AllInv, BacktestInit

\* Nothing becomes of a strategy's state while nothing happens to it.
LEMMA DonRests == ASSUME Don!DonInv, UNCHANGED <<btVars, donVars>> PROVE Don!DonInv'
<1>1. Don!BookInv(Don!AnySize)'
  <2>1. UNCHANGED Don!btVars
    BY DEF btVars, Don!btVars
  <2> QED
    BY <2>1, DonParts, Don!BooksRest
<1>2. Don!StopInv'
  BY DEF Don!DonInv, Don!StopInv, btVars, donVars
<1> QED
  BY <1>1, <1>2 DEF Don!DonInv

\* The same of cta_trend.
LEMMA CtaRests == ASSUME CtaInv, UNCHANGED <<btVars, ctaVars>> PROVE CtaInv'
<1>1. Cta!BookInv(Long)'
  <2>1. UNCHANGED Cta!btVars
    BY DEF btVars, Cta!btVars
  <2> QED
    BY <2>1, Cta!BooksRest DEF CtaInv
<1> QED
  BY <1>1 DEF CtaInv, ctaVars

\* Which step it was.
LEMMA StepOf ==
    ASSUME [BacktestNext]_allVars
    PROVE  /\ engine' = engine /\ [Next]_vars
           /\ engine = "donchian" => Don!Next \/ UNCHANGED <<btVars, donVars>>
           /\ engine # "donchian" => UNCHANGED donVars
           /\ engine = "cta" => Cta!Next \/ UNCHANGED <<btVars, ctaVars>>
<1>1. CASE UNCHANGED allVars
  BY <1>1 DEF allVars
<1>2. CASE engine = "simple" /\ Next /\ UNCHANGED <<btVars, donVars, ctaVars>>
  BY <1>2 DEF BacktestNext, allVars
<1>3. CASE engine = "donchian" /\ Don!Next /\ UNCHANGED <<vars, ctaVars>>
  BY <1>3 DEF BacktestNext, allVars
<1>4. CASE engine = "cta" /\ Cta!Next /\ UNCHANGED <<vars, donVars>>
  BY <1>4 DEF BacktestNext, allVars
<1> QED
  BY <1>1, <1>2, <1>3, <1>4 DEF BacktestNext

\* A step of the run keeps what its engine needs, and loosens no stop of the Donchian strategy.
LEMMA AllKeep ==
    ASSUME AllInv, [BacktestNext]_allVars
    PROVE  AllInv' /\ engine' = engine /\ (engine = "donchian" => StatesKept \/ UNCHANGED <<btVars, donVars>>)
<1>1. /\ engine' = engine /\ [Next]_vars
      /\ engine = "donchian" => Don!Next \/ UNCHANGED <<btVars, donVars>>
      /\ engine # "donchian" => UNCHANGED donVars
      /\ engine = "cta" => Cta!Next \/ UNCHANGED <<btVars, ctaVars>>
  BY StepOf
<1>2. EngineInv' /\ MoneyInv' /\ StopsTypeOK'
  BY <1>1, EngineStep, MoneyStep, EngineStops DEF AllInv
<1>3. engine = "donchian" => Don!DonInv' /\ (StatesKept \/ UNCHANGED <<btVars, donVars>>)
  BY <1>1, DonKeeps, DonRests DEF AllInv
<1>4. engine = "cta" => CtaInv'
  BY <1>1, CtaKeeps, CtaRests DEF AllInv
<1>5. engine # "donchian" => \A s \in DonSymbols : st'[s].stop_long = NoValue /\ st'[s].stop_short = NoValue
  BY <1>1 DEF AllInv, donVars
<1> QED
  BY <1>1, <1>2, <1>3, <1>4, <1>5 DEF AllInv

\* The inductive invariant of all three kinds of runs: the queue and the books of the simple
\* engine, the books and the waiting orders of backtrader, and the stops of the strategy.
THEOREM BacktestsAreSound == BacktestSpec => []AllInv
BY AllBegin, AllKeep, PTL DEF BacktestSpec

\* The books that are kept beside the broker are the broker's, in all three kinds of runs: the
\* fill ledger's positions at every moment; the profit of the fills, the statistics of the
\* closed trades and the account whenever nothing is held.
THEOREM BacktestBooksAgree == BacktestSpec => []BooksAgree
<1>1. AllInv => BooksAgree
  BY FlatNetPnl, DonSays, CtaSays DEF AllInv, BooksAgree
<1> QED
  BY <1>1, BacktestsAreSound, PTL

\* Static equity is the starting cash and what was realized, net of fees, whatever is held and
\* wherever the market went, in both account modes of the simple engine; in the cash accounts
\* of backtrader, with any multiplier, it is more by the multiplied part of what is held.
THEOREM BacktestStaticEquity == BacktestSpec => []StaticEquityAgrees
<1>1. AllInv => StaticEquityAgrees
  BY MoneySays, DonSays, CtaSays DEF AllInv, StaticEquityAgrees
<1> QED
  BY <1>1, BacktestsAreSound, PTL

\* The orders that wait for their bar are counted before the next is decided: the simple engine
\* never holds more than max_positions, and cta_trend sells nothing that is not held.
THEOREM BacktestOrdersCounted == BacktestSpec => []WaitingOrdersCounted
<1>1. AllInv => WaitingOrdersCounted
  BY SlotsBound, CtaSays DEF AllInv, WaitingOrdersCounted
<1> QED
  BY <1>1, BacktestsAreSound, PTL

\* The stop and the entry ATR that the Donchian strategy keeps for a symbol belong to the
\* position the broker holds: both or neither, on its side, whatever order was executed,
\* refused or waited in between.
THEOREM StopsBelongToPositions == BacktestSpec => []StopsMatchPosition
<1>1. AllInv => StopsMatchPosition
  BY DonSays DEF AllInv, StopsMatchPosition
<1> QED
  BY <1>1, BacktestsAreSound, PTL

\* A step moves no stop of the Donchian strategy away from its position's market.
LEMMA DonStopsTighten ==
    ASSUME AllInv, AllInv', [BacktestNext]_allVars
    PROVE  [\A s \in DonSymbols :
              /\ (st[s].stop_long # NoValue /\ st'[s].stop_long # NoValue) => st'[s].stop_long >= st[s].stop_long
              /\ (st[s].stop_short # NoValue /\ st'[s].stop_short # NoValue) => st'[s].stop_short <= st[s].stop_short]_(Don!vars)
<1>1. CASE engine # "donchian"
  <2>1. st' = st
    BY <1>1, StepOf DEF donVars
  <2> QED
    BY <1>1, <2>1 DEF AllInv
<1>2. CASE engine = "donchian"
  <2>1. StatesKept \/ UNCHANGED <<btVars, donVars>>
    BY <1>2, AllKeep
  <2>2. CASE UNCHANGED <<btVars, donVars>>
    BY <2>2 DEF btVars, donVars, Don!vars, Don!btVars, Don!donVars
  <2>3. CASE StatesKept
    <3> SUFFICES ASSUME NEW s \in DonSymbols
                 PROVE  /\ (st[s].stop_long # NoValue /\ st'[s].stop_long # NoValue) => st'[s].stop_long >= st[s].stop_long
                        /\ (st[s].stop_short # NoValue /\ st'[s].stop_short # NoValue) => st'[s].stop_short <= st[s].stop_short
      OBVIOUS
    <3>1. Don!Protected(st[s], bt_broker.positions[s].size)
      BY <1>2, DonParts DEF AllInv
    <3>2. Don!Protected(st'[s], bt_broker'.positions[s].size)
      BY <2>3 DEF StatesKept
    <3>3. /\ st[s].stop_long # NoValue => bt_broker.positions[s].size > 0
          /\ st[s].stop_short # NoValue => bt_broker.positions[s].size < 0
          /\ st'[s].stop_long # NoValue => bt_broker'.positions[s].size > 0
          /\ st'[s].stop_short # NoValue => bt_broker'.positions[s].size < 0
      BY <3>1, <3>2 DEF Don!Protected
    <3> QED
      BY <2>3, <3>3 DEF StatesKept
  <2> QED
    BY <2>1, <2>2, <2>3
<1> QED
  BY <1>1, <1>2

\* The stop of a position that is held only moves in its favour: up for the longs of the simple
\* engine's strategy, and for the longs and the shorts of the Donchian strategy up and down.
THEOREM BacktestStopsTighten == BacktestSpec => StopsOnlyTighten
<1>1. AllInv /\ [BacktestNext]_allVars
        => [\A s \in Symbols : broker.pos_size[s] > 0 /\ broker'.pos_size[s] > 0 => stop'[s] >= stop[s]]_vars
  BY StepOf, EngineStops DEF AllInv
<1>2. AllInv /\ AllInv' /\ [BacktestNext]_allVars
        => [\A s \in DonSymbols :
              /\ (st[s].stop_long # NoValue /\ st'[s].stop_long # NoValue) => st'[s].stop_long >= st[s].stop_long
              /\ (st[s].stop_short # NoValue /\ st'[s].stop_short # NoValue) => st'[s].stop_short <= st[s].stop_short]_(Don!vars)
  BY DonStopsTighten
<1> QED
  BY <1>1, <1>2, BacktestsAreSound, PTL DEF BacktestSpec, StopsOnlyTighten, StopRatchets, Don!StopsOnlyTighten
=============================================================================
