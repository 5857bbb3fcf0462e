--------------------------- MODULE DonchianDailyMtf ---------------------------
(***************************************************************************)
(* strategies/donchian_daily_mtf.py on backtrader: breakouts of a daily    *)
(* channel traded on faster bars, with trailing stops, two entry modes and *)
(* the filter for entries on a day that has already seen an exit.          *)
(*                                                                         *)
(* A turn of the library's loop is two steps: Bars (the broker, the        *)
(* notifications and the daily signals of the turn) and Next (next() over  *)
(* all symbols and the snapshot).                                          *)
(***************************************************************************)
EXTENDS Backtrader

CONSTANTS
    SymbolOrder,        \* sorted(all_symbols)
    Channels,           \* [h20, l20, h10, l10, atr] a day's signal may have; atr 0: not finite
    EntryModes,         \* a subset of {"range", "range_then_close"}
    BreakoutAddTicks, AtrMult, TrailLv1, TrailLv2, TrailLock,
    RiskCash, MaxPositions

Channel == [h20 : Nat, l20 : Nat, h10 : Nat, l10 : Nat, atr : Nat]

\* What the constants have to be, assumed where values are given to them.
DonchianAssumption ==
    /\ BacktraderAssumption
    /\ SymbolOrder \in Seq(Symbols) /\ IsInjective(SymbolOrder)
    /\ Channels \subseteq Channel /\ EntryModes \subseteq {"range", "range_then_close"}
    /\ BreakoutAddTicks \in Nat /\ AtrMult \in Nat \ {0}
    /\ {TrailLv1, TrailLv2, TrailLock, RiskCash, MaxPositions} \subseteq Nat

VARIABLES
    entry_mode,
    channel,            \* the daily signal of each symbol
    st, meta,           \* self.state, self.order_meta
    earlier             \* history: the range of the day's earlier bars, [high, low]

donVars == <<entry_mode, channel, st, meta, earlier>>
vars == <<btVars, donVars>>

-----------------------------------------------------------------------------
NewState ==
    [signal_ready |-> FALSE, signal |-> None,
     entry_atr_long |-> None, entry_atr_short |-> None, stop_long |-> None, stop_short |-> None,
     pending |-> "none", pending_price |-> None, pending_day |-> None,
     trade_day |-> None, today_high |-> None, today_low |-> None, last_exec_dt |-> 0,
     last_exit_dt_long |-> None, wait_reentry_long |-> FALSE,
     last_exit_dt_short |-> None, wait_reentry_short |-> FALSE]

\* last_exit_day is the day of last_exit_dt.
ExitDay(dt) == IF dt = None THEN None ELSE Day(dt)

NoPendings(s) == [s EXCEPT !.pending = "none", !.pending_price = None, !.pending_day = None]

CalcSizeByRisk(sym, atr) ==
    LET risk_per_contract == AtrMult * atr * account.mult
        margin == GetMargin(bar[sym].close)
        by_risk == RiskCash \div risk_per_contract
    IN IF atr <= 0 THEN 0
       ELSE RoundSize(IF margin > 0 THEN Least(by_risk, broker.cash \div margin) ELSE by_risk)

\* A signal is taken over once; a bad one leaves the old one in place.
UpdateSignalCache(s, signal) ==
    IF signal.atr <= 0 THEN s ELSE [s EXCEPT !.signal = signal, !.signal_ready = TRUE]

SyncTradeDay(s, b) ==
    IF s.trade_day # Day(b.dt)
    THEN [NoPendings(s) EXCEPT !.trade_day = Day(b.dt), !.today_high = b.high, !.today_low = b.low,
                               !.wait_reentry_long = FALSE, !.wait_reentry_short = FALSE]
    ELSE [s EXCEPT !.today_high = Greatest(@, b.high), !.today_low = Least(@, b.low)]

\* prev_today_high and prev_today_low.
PrevToday(s, b) ==
    IF s.trade_day # Day(b.dt) THEN [high |-> None, low |-> None]
    ELSE [high |-> s.today_high, low |-> s.today_low]

-----------------------------------------------------------------------------
(* next(): what is done for one symbol is a state and at most one order.    *)

Decision(s, kind) == [st |-> s, kind |-> kind]
Buffer == TickSize * BreakoutAddTicks
EntryLong(s) == RoundUp(s.signal.h20 + Buffer)
EntryShort(s) == RoundDown(s.signal.l20 - Buffer)
ExitLong(s) == RoundDown(s.signal.l10 - Buffer)
ExitShort(s) == RoundUp(s.signal.h10 + Buffer)

EnsuredLong(s, price) ==
    IF s.entry_atr_long # None THEN s
    ELSE [s EXCEPT !.entry_atr_long = s.signal.atr, !.stop_long = RoundDown(price - AtrMult * s.signal.atr)]
\* Variant: a level of trailing replaces the stop.
TrailedLongAnyway(s, price, b) ==
    LET profit == b.high - price
    IN [s EXCEPT !.stop_long = IF profit >= TrailLv2 * s.entry_atr_long THEN price + TrailLock * s.entry_atr_long
                               ELSE IF profit >= TrailLv1 * s.entry_atr_long THEN price ELSE @]

TrailedLong(s, price, b) ==
    LET profit == b.high - price
        lv1 == IF profit >= TrailLv1 * s.entry_atr_long THEN Greatest(s.stop_long, price) ELSE s.stop_long
        lv2 == IF profit >= TrailLv2 * s.entry_atr_long
               THEN Greatest(lv1, price + TrailLock * s.entry_atr_long) ELSE lv1
    IN [s EXCEPT !.stop_long = RoundDown(lv2)]
WhenLong(s, price, b) ==
    LET t == TrailedLong(EnsuredLong(s, price), price, b)
    IN Decision(t, IF b.low <= t.stop_long \/ b.low <= ExitLong(s) THEN "exit_long" ELSE "none")

EnsuredShort(s, price) ==
    IF s.entry_atr_short # None THEN s
    ELSE [s EXCEPT !.entry_atr_short = s.signal.atr, !.stop_short = RoundUp(price + AtrMult * s.signal.atr)]
TrailedShort(s, price, b) ==
    LET profit == price - b.low
        lv1 == IF profit >= TrailLv1 * s.entry_atr_short THEN Least(s.stop_short, price) ELSE s.stop_short
        lv2 == IF profit >= TrailLv2 * s.entry_atr_short
               THEN Least(lv1, price - TrailLock * s.entry_atr_short) ELSE lv1
    IN [s EXCEPT !.stop_short = RoundUp(lv2)]
WhenShort(s, price, b) ==
    LET e == EnsuredShort(s, price)
        t == TrailedShort(e, price, b)
    IN IF b.high >= ExitShort(s) THEN Decision(e, "exit_short")
       ELSE Decision(t, IF b.high >= t.stop_short THEN "exit_short" ELSE "none")

\* The filter for a second entry on a day with an exit.
AllowLong(s, b, prev) ==
    s.wait_reentry_long /\ Day(b.dt) = ExitDay(s.last_exit_dt_long)
        => b.dt > s.last_exit_dt_long /\ prev.high # None /\ b.high > prev.high
AllowShort(s, b, prev) ==
    s.wait_reentry_short /\ Day(b.dt) = ExitDay(s.last_exit_dt_short)
        => b.dt > s.last_exit_dt_short /\ prev.low # None /\ b.low < prev.low

\* entry_mode "range": enter at the touch.
EnterAtTouch(s, b, prev) ==
    IF AllowLong(s, b, prev) /\ b.high >= EntryLong(s) THEN Decision(s, "entry_long")
    ELSE IF AllowShort(s, b, prev) /\ b.low <= EntryShort(s) THEN Decision(s, "entry_short")
    ELSE Decision(s, "none")

\* entry_mode "range_then_close": a touch is remembered for the day, a close beyond it enters.
Touched(s, b, prev) ==
    IF s.pending # "none" THEN s
    ELSE IF b.high >= EntryLong(s) /\ AllowLong(s, b, prev)
    THEN [s EXCEPT !.pending = "long", !.pending_price = EntryLong(s), !.pending_day = Day(b.dt)]
    ELSE IF b.low <= EntryShort(s) /\ AllowShort(s, b, prev)
    THEN [s EXCEPT !.pending = "short", !.pending_price = EntryShort(s), !.pending_day = Day(b.dt)]
    ELSE s
EnterAfterClose(s, b, prev) ==
    LET t == Touched(s, b, prev)
        today == t.pending_day = Day(b.dt)
    IN IF t.pending = "long" /\ today /\ AllowLong(s, b, prev) /\ b.close >= t.pending_price
       THEN Decision(NoPendings(t), "entry_long")
       ELSE IF t.pending = "short" /\ today /\ AllowShort(s, b, prev) /\ b.close <= t.pending_price
       THEN Decision(NoPendings(t), "entry_short")
       ELSE Decision(t, "none")

WhenFlat(s, sym, b, prev) ==
    IF \/ Cardinality(Held(broker)) >= MaxPositions
       \/ CalcSizeByRisk(sym, s.signal.atr) < MinSize
    THEN Decision(s, "none")
    ELSE IF b.high >= EntryLong(s) /\ b.low <= EntryShort(s) THEN Decision(NoPendings(s), "none")
    ELSE IF entry_mode = "range" THEN EnterAtTouch(s, b, prev)
    ELSE EnterAfterClose(s, b, prev)

DecideFor(sym) ==
    LET b == bar[sym]
        s == IF b.dt = 0 THEN st[sym] ELSE UpdateSignalCache(st[sym], channel[sym])
        seen == [s EXCEPT !.last_exec_dt = b.dt]
        synced == SyncTradeDay(seen, b)
        p == broker.positions[sym]
    IN IF b.dt = 0 \/ ~s.signal_ready \/ s.last_exec_dt = b.dt THEN Decision(s, "none")
       ELSE IF orders[sym] # None THEN Decision(seen, "none")
       ELSE IF p.size > 0 THEN WhenLong(synced, p.price, b)
       ELSE IF p.size < 0 THEN WhenShort(synced, p.price, b)
       ELSE WhenFlat(synced, sym, b, PrevToday(seen, b))

OrderSize(sym, decision) ==
    CASE decision.kind = "entry_long" -> CalcSizeByRisk(sym, decision.st.signal.atr)
      [] decision.kind = "entry_short" -> -CalcSizeByRisk(sym, decision.st.signal.atr)
      [] OTHER -> -broker.positions[sym].size

-----------------------------------------------------------------------------
(* notify_order().                                                          *)

EntryNotified(s, kind, atr, price) ==
    [NoPendings(s) EXCEPT
        !.entry_atr_long = IF kind = "entry_long" THEN atr ELSE None,
        !.entry_atr_short = IF kind = "entry_short" THEN atr ELSE None,
        !.stop_long = IF kind = "entry_long" THEN RoundDown(price - AtrMult * atr) ELSE None,
        !.stop_short = IF kind = "entry_short" THEN RoundUp(price + AtrMult * atr) ELSE None,
        !.wait_reentry_long = FALSE, !.wait_reentry_short = FALSE]

\* Variant: the entry ATR is forgotten, the stop is not.
ExitNotifiedKeepsStop(s, kind, dt) ==
    [s EXCEPT !.entry_atr_long = IF kind = "exit_long" THEN None ELSE @,
              !.entry_atr_short = IF kind = "exit_short" THEN None ELSE @]

ExitNotified(s, kind, dt) ==
    IF kind = "exit_long"
    THEN [s EXCEPT !.entry_atr_long = None, !.stop_long = None,
                   !.last_exit_dt_long = dt, !.wait_reentry_long = TRUE]
    ELSE [s EXCEPT !.entry_atr_short = None, !.stop_short = None,
                   !.last_exit_dt_short = dt, !.wait_reentry_short = TRUE]

NotifyOrder(metas, last, states, note) ==
    LET sym == note.order.symbol
        m == metas[sym]
    IN IF note.status # "completed" THEN states
       ELSE [states EXCEPT ![sym] =
                IF m.kind \in {"entry_long", "entry_short"} THEN EntryNotified(@, m.kind, m.atr, note.price)
                ELSE ExitNotified(@, m.kind, last[sym].dt)]

Notified(metas, last, states, notes) ==
    FoldLeft(LAMBDA ss, note : NotifyOrder(metas, last, ss, note), states, notes)

-----------------------------------------------------------------------------
NoMeta == [kind |-> "none", atr |-> None]
NoRange == [high |-> None, low |-> None]

StrategyInit ==
    /\ entry_mode \in EntryModes
    /\ channel \in [Symbols -> Channels]     \* the run has warmed up
    /\ st = [s \in Symbols |-> NewState]
    /\ meta = [s \in Symbols |-> NoMeta]
    /\ earlier = [s \in Symbols |-> NoRange]

Init == BtInit /\ StrategyInit

\* A new day may bring a new daily signal: the day before is complete.
NewChannels ==
    IF clock % BarsPerDay = 0 /\ clock > 0
    THEN channel' \in [Symbols -> Channels]
    ELSE UNCHANGED channel

\* The range that a symbol's day had before its new bar.
Widened(s) ==
    IF bar[s].dt = 0 \/ Day(bar[s].dt) # Day(bar'[s].dt) THEN NoRange
    ELSE IF earlier[s] = NoRange THEN [high |-> bar[s].high, low |-> bar[s].low]
    ELSE [high |-> Greatest(earlier[s].high, bar[s].high), low |-> Least(earlier[s].low, bar[s].low)]

BarsCome ==
    /\ \E fresh \in SUBSET Symbols \ {{}} :
        /\ BrokerTurn(fresh)
        /\ st' = Notified(meta, bar', st, Ran(fresh).notes)
        /\ meta' = [s \in Symbols |-> IF s \in fresh THEN NoMeta ELSE meta[s]]
        /\ earlier' = [s \in Symbols |-> IF s \in fresh THEN Widened(s) ELSE earlier[s]]
    /\ NewChannels
    /\ UNCHANGED entry_mode

StrategyNext ==
    LET decisions == [s \in Symbols |-> DecideFor(s)]
        decided == [s \in Symbols |->
                       IF decisions[s].kind = "none" THEN <<>>
                       ELSE <<[symbol |-> s, size |-> OrderSize(s, decisions[s])]>>]
    IN /\ st' = [s \in Symbols |-> decisions[s].st]
       /\ Submitted(Sent(SymbolOrder, decided))
       /\ meta' = [s \in Symbols |->
                        IF decisions[s].kind = "none" THEN meta[s]
                        ELSE [kind |-> decisions[s].kind, atr |-> decisions[s].st.signal.atr]]
       /\ UNCHANGED <<entry_mode, channel, earlier>>

Next == BarsCome \/ StrategyNext
Spec == Init /\ [][Next]_vars

-----------------------------------------------------------------------------
\* Between two turns the protection belongs to the position: an open one has the stop
\* and the entry ATR of its own side only, a closed one leaves none behind
\* (notify_order and the fallback of next() agree).
StopsMatchPosition ==
    \A s \in Symbols :
        LET size == broker.positions[s].size
        IN /\ (size > 0) <=> (st[s].stop_long # None)
           /\ (size > 0) <=> (st[s].entry_atr_long # None)
           /\ (size < 0) <=> (st[s].stop_short # None)
           /\ (size < 0) <=> (st[s].entry_atr_short # None)

\* While a position is held its stop moves in its favour only, through both levels of
\* trailing and the rounding to ticks.
StopsOnlyTighten ==
    [][\A s \in Symbols :
        /\ (st[s].stop_long # None /\ st'[s].stop_long # None) => st'[s].stop_long >= st[s].stop_long
        /\ (st[s].stop_short # None /\ st'[s].stop_short # None) => st'[s].stop_short <= st[s].stop_short]_vars

\* The class docstring: after an exit a new entry on the same day needs a break of the
\* high (low) that the day had so far.
EntersNow(s, kind) == meta[s].kind = "none" /\ meta'[s].kind = kind
ReentryBreaksTheDay ==
    [][\A s \in Symbols :
        /\ (EntersNow(s, "entry_long") /\ ExitDay(st[s].last_exit_dt_long) = Day(bar[s].dt))
              => (earlier[s] # NoRange /\ bar[s].high > earlier[s].high)
        /\ (EntersNow(s, "entry_short") /\ ExitDay(st[s].last_exit_dt_short) = Day(bar[s].dt))
              => (earlier[s] # NoRange /\ bar[s].low < earlier[s].low)]_vars
=============================================================================
