---------------------------- MODULE PaperTrading ----------------------------
(***************************************************************************)
(* Paper trading of the lab (my_bt_lab/live): run_loop takes ticks from a  *)
(* gateway, records them, lets the strategy send orders to SimBroker, and  *)
(* lets the broker's SimpleMatchingEngine fill them.  A session is live or *)
(* replays the file that earlier sessions recorded.                        *)
(*                                                                         *)
(* The body of run_loop reaches no point where the event loop could switch *)
(* tasks, so what interleaves with it is the death of the process: between *)
(* two calls of the body, or at the await for the next tick.               *)
(*                                                                         *)
(* A symbol stands for the triple market, exchange, symbol.  Prices are    *)
(* natural numbers; None is a missing price, 0 the price of an empty side. *)
(***************************************************************************)
EXTENDS Integers, SequencesExt

CONSTANTS
    Symbols, OrderIds,
    Ticks,          \* what a live gateway may yield
    Requests,       \* what a strategy other than the demo may send
    Strategies,     \* of {"demo", "any"}
    InitialCash,
    Volume,         \* order volume of the demo strategy
    LotSize,        \* 100 for Chinese stocks, 1 elsewhere
    MaxTicks,       \* --max-ticks
    MaxSessions,    \* sessions per behaviour, by strategy
    NoOrder

None == -1

Side == {"BUY", "SELL"}
Price == Nat \union {None}
Tick == [symbol : Symbols, last_price : Price, bid_price : Price, ask_price : Price]
OrderRequest == [symbol : Symbols, side : Side, order_type : {"MARKET", "LIMIT"},
                 price : Int, volume : Int]
Order == [request : OrderRequest, traded : Int, status : {"NEW", "FILLED", "CANCELLED"}]
Fill == [order_id : OrderIds, symbol : Symbols, side : Side, price : Nat, volume : Int]

ASSUME PaperAssumption ==
    /\ Ticks \subseteq Tick /\ Requests \subseteq OrderRequest
    /\ Strategies \subseteq {"demo", "any"}
    /\ InitialCash \in Int /\ Volume \in Int /\ LotSize \in Nat \ {0}
    /\ MaxTicks \in Nat \ {0} /\ MaxSessions \in [Strategies -> Nat]
    /\ NoOrder \notin Order

VARIABLES
    strategy,
    cash, positions, orders,
    active_orders,      \* ids in the order of insertion, as in a dict
    fills,
    ordered_symbols,    \* DemoBuyOnceStrategy
    session,            \* "none" before the first, then "live" or "replay"
    pc,                 \* where run_loop is; "over" when it has returned
    tick,               \* the tick in its hands
    seen,
    file,               \* the recorded ticks, kept over sessions
    lived               \* what the first live session has filled, and whether it was killed

broker == <<cash, positions, orders, active_orders, fills>>
vars == <<strategy, broker, ordered_symbols, session, pc, tick, seen, file, lived>>

Noticed == [fills |-> <<>>, killed |-> FALSE, sessions |-> 0]

NoOrders == [o \in OrderIds |-> NoOrder]
Flat == [s \in Symbols |-> 0]

Init ==
    /\ strategy \in Strategies
    /\ cash = InitialCash /\ positions = Flat
    /\ orders = NoOrders /\ active_orders = <<>> /\ fills = <<>>
    /\ ordered_symbols = {}
    /\ session = "none" /\ pc = "over" /\ seen = 0
    /\ tick \in Ticks
    /\ file = <<>>
    /\ lived = Noticed

-----------------------------------------------------------------------------
(* SimBroker and SimpleMatchingEngine.                                      *)

\* The part of a sequence that lies in a set, in its order.
Kept(s, S) == FoldLeft(LAMBDA kept, x : IF x \in S THEN Append(kept, x) ELSE kept, <<>>, s)

Rejected(req) ==
    \/ req.volume <= 0
    \/ req.price # None /\ req.price <= 0
    \/ req.volume % LotSize # 0

\* A rejected order is returned and forgotten.
SendOrder(id, req) ==
    /\ orders[id] = NoOrder
    /\ IF Rejected(req) THEN UNCHANGED <<orders, active_orders>>
       ELSE /\ orders' = [orders EXCEPT ![id] = [request |-> req, traded |-> 0, status |-> "NEW"]]
            /\ active_orders' = Append(active_orders, id)
    /\ UNCHANGED <<cash, positions, fills>>

\* Variant: a cancelled order stays in the book.
CancelKeepsOrder(id) ==
    /\ Contains(active_orders, id)
    /\ orders' = [orders EXCEPT ![id].status = "CANCELLED"]
    /\ UNCHANGED <<active_orders, cash, positions, fills>>

CancelOrder(id) ==
    /\ Contains(active_orders, id)
    /\ active_orders' = Kept(active_orders, OrderIds \ {id})
    /\ orders' = [orders EXCEPT ![id].status = "CANCELLED"]
    /\ UNCHANGED <<cash, positions, fills>>

OrElse(quote, fallback) == IF quote \notin {None, 0} THEN quote ELSE fallback

Quote(t, side) == IF side = "BUY" THEN t.ask_price ELSE t.bid_price

Reaches(req, price) ==
    /\ price # None
    /\ IF req.side = "BUY" THEN req.price >= price ELSE req.price <= price

FillPrice(t, req) ==
    IF req.order_type = "MARKET" THEN OrElse(Quote(t, req.side), t.last_price)
    ELSE IF req.price = None THEN None
    ELSE IF Reaches(req, Quote(t, req.side)) THEN Quote(t, req.side)
    ELSE IF Reaches(req, t.last_price) THEN t.last_price
    ELSE None

Matches(t, order) ==
    /\ order.request.symbol = t.symbol
    /\ FillPrice(t, order.request) # None
    /\ order.request.volume - order.traded > 0

FillOf(t, id, order) ==
    [order_id |-> id, symbol |-> order.request.symbol, side |-> order.request.side,
     price |-> FillPrice(t, order.request), volume |-> order.request.volume - order.traded]

\* Variant: a sale is paid, but leaves the position as it was.
CashAndPositionOfPurchases(before, fill) ==
    LET sign == IF fill.side = "BUY" THEN 1 ELSE -1
    IN [cash |-> before.cash - sign * fill.price * fill.volume,
        positions |-> [before.positions EXCEPT ![fill.symbol] = @ + Max({sign, 0}) * fill.volume]]

ApplyFill(before, fill) ==
    LET sign == IF fill.side = "BUY" THEN 1 ELSE -1
    IN [cash |-> before.cash - sign * fill.price * fill.volume,
        positions |-> [before.positions EXCEPT ![fill.symbol] = @ + sign * fill.volume]]

\* All matching orders fill, first come first served, then settle in that order.
BrokerOnTick ==
    LET matched == Kept(active_orders, {o \in OrderIds : orders[o] # NoOrder /\ Matches(tick, orders[o])})
        new == [i \in DOMAIN matched |-> FillOf(tick, matched[i], orders[matched[i]])]
        after == FoldLeft(ApplyFill, [cash |-> cash, positions |-> positions], new)
    IN /\ orders' = [o \in OrderIds |->
                       IF Contains(matched, o)
                       THEN [orders[o] EXCEPT !.traded = orders[o].request.volume, !.status = "FILLED"]
                       ELSE orders[o]]
       /\ active_orders' = Kept(active_orders, OrderIds \ ToSet(matched))
       /\ fills' = fills \o new
       /\ cash' = after.cash
       /\ positions' = after.positions

-----------------------------------------------------------------------------
(* run_loop.                                                                *)

Begin(kind) ==
    /\ pc = "over"
    /\ lived.sessions < MaxSessions[strategy]
    /\ cash' = InitialCash /\ positions' = Flat
    /\ orders' = NoOrders /\ active_orders' = <<>> /\ fills' = <<>>
    /\ ordered_symbols' = {}
    /\ session' = kind /\ pc' = "wait" /\ seen' = 0
    /\ lived' = [lived EXCEPT !.sessions = @ + 1]
    /\ UNCHANGED <<strategy, tick, file>>

BeginLive == Begin("live")
BeginReplay == file # <<>> /\ Begin("replay")

\* A live session is started with --record; a replay without.
NextTick(t) ==
    /\ session = "live"
    /\ pc = "wait"
    /\ tick' = t
    /\ pc' = "record"
    /\ UNCHANGED <<strategy, broker, ordered_symbols, session, seen, file, lived>>

RecordTick ==
    /\ pc = "record"
    /\ file' = Append(file, tick)
    /\ pc' = "decide"
    /\ UNCHANGED <<strategy, broker, ordered_symbols, session, tick, seen, lived>>

NextReplayed ==
    /\ session = "replay"
    /\ pc = "wait"
    /\ seen < Len(file)
    /\ tick' = file[seen + 1]
    /\ pc' = "decide"
    /\ UNCHANGED <<strategy, broker, ordered_symbols, session, seen, file, lived>>

\* DemoBuyOnceStrategy: the symbol is done even if its order is rejected.
BuyOnce(id) ==
    LET price == OrElse(tick.ask_price, tick.last_price)
        req == [symbol |-> tick.symbol, side |-> "BUY", order_type |-> "LIMIT",
                price |-> price, volume |-> Volume]
    IN IF tick.symbol \in ordered_symbols \/ price = None
       THEN UNCHANGED <<broker, ordered_symbols>>
       ELSE /\ SendOrder(id, req)
            /\ ordered_symbols' = ordered_symbols \union {tick.symbol}

\* The next uuid; a session sends no more orders than there are OrderIds.
FirstUnused(id) ==
    LET unused == {o \in OrderIds : orders[o] = NoOrder}
    IN unused # {} /\ id = CHOOSE o \in unused : TRUE

Demo ==
    /\ strategy = "demo"
    /\ pc = "decide"
    /\ \E id \in OrderIds : FirstUnused(id) /\ BuyOnce(id)
    /\ pc' = "match"
    /\ UNCHANGED <<strategy, session, tick, seen, file, lived>>

\* Any other LiveStrategy sends and cancels what it likes, then returns.
AnyOrder ==
    /\ strategy = "any"
    /\ pc = "decide"
    /\ \/ \E id \in OrderIds, req \in Requests : FirstUnused(id) /\ SendOrder(id, req)
       \/ \E id \in OrderIds : CancelOrder(id)
    /\ UNCHANGED <<strategy, ordered_symbols, session, pc, tick, seen, file, lived>>

AnyReturns ==
    /\ strategy = "any"
    /\ pc = "decide"
    /\ pc' = "match"
    /\ UNCHANGED <<strategy, broker, ordered_symbols, session, tick, seen, file, lived>>

Remembered(killed) ==
    IF session = "live" /\ lived.sessions = 1
    THEN [lived EXCEPT !.fills = fills', !.killed = killed] ELSE lived

Enough == seen + 1 >= MaxTicks

\* The loop ends after --max-ticks ticks: gateway.close() and return.
MatchTick ==
    /\ pc = "match"
    /\ BrokerOnTick
    /\ seen' = seen + 1
    /\ pc' = IF Enough THEN "over" ELSE "wait"
    /\ lived' = Remembered(FALSE)
    /\ UNCHANGED <<strategy, ordered_symbols, session, tick, file>>

ReplayEnds ==
    /\ session = "replay"
    /\ pc = "wait"
    /\ seen = Len(file)
    /\ pc' = "over"
    /\ UNCHANGED <<strategy, broker, ordered_symbols, session, tick, seen, file, lived>>

\* Variant: the recorder does not flush, and the last line is lost.
KilledUnflushed ==
    /\ session = "live" /\ pc # "over"
    /\ pc' = "over"
    /\ file' = IF file = <<>> THEN file ELSE Front(file)
    /\ UNCHANGED <<strategy, broker, ordered_symbols, session, tick, seen>>
    /\ lived' = Remembered(TRUE)

\* The process is interrupted; what it has recorded is on disk.
Killed ==
    /\ session = "live" /\ pc # "over"
    /\ pc' = "over"
    /\ UNCHANGED <<strategy, broker, ordered_symbols, session, tick, seen, file>>
    /\ lived' = Remembered(TRUE)

Next ==
    \/ BeginLive \/ BeginReplay
    \/ \E t \in Ticks : NextTick(t)
    \/ RecordTick \/ NextReplayed
    \/ Demo \/ AnyOrder \/ AnyReturns
    \/ MatchTick \/ ReplayEnds \/ Killed

Spec == Init /\ [][Next]_vars

-----------------------------------------------------------------------------
(* Safety.                                                                  *)

Sign(side) == IF side = "BUY" THEN 1 ELSE -1
SumFills(f(_)) == FoldLeft(LAMBDA sum, fill : sum + f(fill), 0, fills)

\* Cash and positions are what the fills of this session add up to.
LedgerAgrees ==
    /\ cash = InitialCash - SumFills(LAMBDA f : Sign(f.side) * f.price * f.volume)
    /\ \A s \in Symbols :
         positions[s] = SumFills(LAMBDA f : IF f.symbol = s THEN Sign(f.side) * f.volume ELSE 0)

\* The book holds the NEW orders and nothing else, and an order has exactly one
\* fill if it is FILLED and none otherwise: a cancelled order cannot come back.
FilledOnce ==
    \A o \in OrderIds :
        /\ Contains(active_orders, o) <=> orders[o] # NoOrder /\ orders[o].status = "NEW"
        /\ Cardinality({i \in DOMAIN fills : fills[i].order_id = o})
             = IF orders[o] # NoOrder /\ orders[o].status = "FILLED" THEN 1 ELSE 0

\* Replaying the recorded file gives the demo strategy the fills of the first
\* session again, in order, all of them once the file has been read.  After an
\* interruption, or when later sessions have appended to the file, there may be
\* more, never fewer: what was filled had been recorded before.
ReplayReproduces ==
    strategy = "demo" /\ session = "replay" /\ pc \in {"wait", "over"} =>
        /\ IsPrefix(lived.fills, fills) \/ IsPrefix(fills, lived.fills)
        /\ seen = Len(file) => IsPrefix(lived.fills, fills)
        /\ seen = Len(file) /\ ~lived.killed /\ lived.sessions = 2 => fills = lived.fills
=============================================================================
