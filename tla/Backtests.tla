------------------------------ MODULE Backtests ------------------------------
(***************************************************************************)
(* The backtests that engines/factory.py can start: the simple engine with *)
(* its strategy, or backtrader with one of the trend strategies.  The      *)
(* parts that a run does not use stay where they began.                    *)
(***************************************************************************)
EXTENDS SimpleEngine

CONSTANTS
    NoValue,            \* the trend strategies' None
    TrendCash, TickSize, BarsPerDay, TrendAtrMult,
    DonSymbols, DonOrder, DonBars, DonAccounts, DonLastBar,
    Channels, EntryModes, BreakoutAddTicks, TrailLv1, TrailLv2, TrailLock, RiskCash,
    CtaBars, CtaAccounts, CtaLastBar, Feeds, Signals, CtaRiskPercent

VARIABLES
    engine,         \* "simple", "donchian" or "cta"
    turn, bt_account, clock, bar, bt_broker, queue, last_ref, bt_orders, bt_ledger, snapshot,
    entry_mode, channel, st, meta, earlier,
    signal, last_signal_dt, stop_price

btVars == <<turn, bt_account, clock, bar, bt_broker, queue, last_ref, bt_orders, bt_ledger, snapshot>>
donVars == <<entry_mode, channel, st, meta, earlier>>
ctaVars == <<signal, last_signal_dt, stop_price>>
allVars == <<engine, vars, btVars, donVars, ctaVars>>

Don == INSTANCE DonchianInvariants WITH
    Symbols <- DonSymbols, SymbolOrder <- DonOrder, Bars <- DonBars, Accounts <- DonAccounts,
    StartingCash <- TrendCash, LastBar <- DonLastBar, AtrMult <- TrendAtrMult, None <- NoValue,
    account <- bt_account, broker <- bt_broker, ledger <- bt_ledger, orders <- bt_orders

Cta == INSTANCE CtaInvariants WITH
    Bars <- CtaBars, Accounts <- CtaAccounts, StartingCash <- TrendCash, LastBar <- CtaLastBar,
    AtrStopMult <- TrendAtrMult, RiskPercent <- CtaRiskPercent, None <- NoValue,
    account <- bt_account, broker <- bt_broker, ledger <- bt_ledger, orders <- bt_orders

ASSUME TrendAssumption == Don!DonchianAssumption /\ Cta!CtaAssumption

\* What a run does not use: the choices that an initial state leaves are made.
IdleSimple == account = (CHOOSE a \in AccountSpecs : TRUE) /\ calendar = (CHOOSE c \in Calendars : TRUE)
IdleTrend == bt_account = (CHOOSE a \in CtaAccounts : TRUE)
IdleDonchian ==
    /\ entry_mode = (CHOOSE mode \in EntryModes : TRUE)
    /\ channel = [s \in DonSymbols |-> CHOOSE c \in Channels : TRUE]

BacktestInit ==
    /\ engine \in {"simple", "donchian", "cta"}
    /\ Init /\ (engine # "simple" => IdleSimple)
    /\ IF engine = "donchian" THEN Don!BtInit ELSE Cta!BtInit
    /\ engine = "simple" => IdleTrend
    /\ Don!StrategyInit /\ (engine # "donchian" => IdleDonchian)
    /\ Cta!StrategyInit

BacktestNext ==
    /\ UNCHANGED engine
    /\ \/ engine = "simple" /\ Next /\ UNCHANGED <<btVars, donVars, ctaVars>>
       \/ engine = "donchian" /\ Don!Next /\ UNCHANGED <<vars, ctaVars>>
       \/ engine = "cta" /\ Cta!Next /\ UNCHANGED <<vars, donVars>>

BacktestSpec == BacktestInit /\ [][BacktestNext]_allVars

-----------------------------------------------------------------------------
\* What is promised of all three kinds of runs.  The books that are kept beside the broker
\* are the broker's: the fill ledger's positions at every moment; the profit of the fills,
\* the statistics of the closed trades and the account whenever nothing is held.
BooksAgree ==
    /\ engine = "simple" => NetPnlWhenFlat
    /\ engine = "donchian" => Don!LedgerFollowsBroker /\ Don!ResultsAgreeWhenFlat
    /\ engine = "cta" => Cta!LedgerFollowsBroker /\ Cta!ResultsAgreeWhenFlat

\* Static equity is what was realized, net of fees, whatever is held and wherever the market
\* went: in both account modes of the simple engine, and in cash accounts on backtrader up to
\* the multiplied cost of what is held.
StaticEquityAgrees ==
    CASE engine = "simple" -> StaticEquityIdentity
      [] engine = "donchian" -> Don!CashStaticEquity
      [] engine = "cta" -> Cta!CashStaticEquity

\* What an order that waits for its bar will do is counted before the next is decided: no
\* more positions than allowed, and nothing sold that is not held.
WaitingOrdersCounted ==
    /\ engine = "simple" => PositionsBounded
    /\ engine = "cta" => Cta!LongOnly

\* The stop and the entry ATR belong to the position that is held.
StopsMatchPosition == engine = "donchian" => Don!StopsMatchPosition

\* The stop of a position that is held only moves in its favour.
StopsOnlyTighten == StopRatchets /\ Don!StopsOnlyTighten

\* After an exit a new entry on the same day needs a break of the day's range so far.
ReentryBreaksTheDay == Don!ReentryBreaksTheDay
=============================================================================
