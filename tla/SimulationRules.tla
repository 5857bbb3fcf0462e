--------------------------- MODULE SimulationRules ---------------------------
(***************************************************************************)
(* The data model and the pure rules of the paper-trading engine           *)
(* (python-bridge/simulation): which requests are refused, when and at     *)
(* what price an order matches a tick, and what a trade does to a position *)
(* and to the account.  The state machines of the engine and of the bridge *)
(* servers around it are built from these operators.                       *)
(*                                                                         *)
(* Prices, volumes and money are integers in a unit small enough for every *)
(* value of an instance to be exact; 0 is the price of a missing quote.    *)
(***************************************************************************)
EXTENDS Integers, Sequences

CONSTANTS
    Symbols,        \* vt_symbols
    OrderIds,       \* the uuids the engine may draw
    Ticks,          \* the ticks the data source may publish
    Requests,       \* the order requests clients may send
    InitialBalance, CommissionRate, Slippage,
    RejectShortWithoutPosition,
    MarketOrderPriceSource,
    NoOrder, NoTick, NoSymbol

Direction == {"LONG", "SHORT"}
Offset    == {"OPEN", "CLOSE"}
OrderType == {"LIMIT", "MARKET"}
OrderStatus == {"NOT_TRADED", "PART_TRADED", "ALL_TRADED", "CANCELLED", "REJECTED"}
Terminal    == {"ALL_TRADED", "CANCELLED", "REJECTED"}

Tick == [vt_symbol : Symbols, last_price : Nat, bid_price_1 : Nat, ask_price_1 : Nat]

OrderRequest == [vt_symbol : Symbols, direction : Direction, offset : Offset,
                 order_type : OrderType, price : Int, volume : Int]

Order == [vt_symbol : Symbols, direction : Direction, offset : Offset,
          order_type : OrderType, price : Int, volume : Int,
          traded : Int, status : OrderStatus]

Trade == [order_id : OrderIds, vt_symbol : Symbols, direction : Direction,
          offset : Offset, price : Int, volume : Int]

Position == [long_volume : Int, short_volume : Int,
             long_avg_price : Int, short_avg_price : Int]

\* The sum over symbols that account.unrealized_pnl holds is kept per symbol.
Account == [balance : Int, available : Int, realized_pnl : Int, commission : Int,
            unrealized_pnl : [Symbols -> Int]]

ASSUME ConfigAssumption ==
    /\ Ticks \subseteq Tick
    /\ Requests \subseteq OrderRequest
    /\ InitialBalance \in Int
    /\ CommissionRate \in Nat
    /\ Slippage \in Nat
    /\ RejectShortWithoutPosition \in BOOLEAN
    /\ MarketOrderPriceSource \in {"last", "opposite"}
    /\ NoTick \notin Tick
    /\ NoOrder \notin Order
    /\ NoSymbol \notin Symbols

-----------------------------------------------------------------------------
(* Orders.                                                                  *)

NoPosition == [long_volume |-> 0, short_volume |-> 0,
               long_avg_price |-> 0, short_avg_price |-> 0]

NewOrder(req, status) ==
    [vt_symbol |-> req.vt_symbol, direction |-> req.direction, offset |-> req.offset,
     order_type |-> req.order_type, price |-> req.price, volume |-> req.volume,
     traded |-> 0, status |-> status]

Remaining(order) == IF order.volume > order.traded THEN order.volume - order.traded ELSE 0

\* What a closing order of this direction could close.
Closable(position, direction) ==
    IF direction = "SHORT" THEN position.long_volume ELSE position.short_volume

Refused(req, position) ==
    \/ req.volume <= 0
    \/ req.order_type = "LIMIT" /\ req.price <= 0
    \/ /\ req.offset = "CLOSE"
       /\ RejectShortWithoutPosition
       /\ Closable(position, req.direction) < req.volume

-----------------------------------------------------------------------------
(* Matching: an order fills completely against one tick, or not at all.     *)

OrElse(quote, fallback) == IF quote # 0 THEN quote ELSE fallback

OppositeQuote(direction, tick) ==
    IF direction = "LONG" THEN tick.ask_price_1 ELSE tick.bid_price_1

Executable(order, tick) ==
    \/ order.order_type = "MARKET"
    \/ LET quote == OppositeQuote(order.direction, tick)
       IN /\ quote > 0
          /\ IF order.direction = "LONG" THEN order.price >= quote ELSE order.price <= quote

ApplySlippage(direction, price) ==
    IF direction = "LONG" THEN price + Slippage ELSE price - Slippage

MatchPrice(order, tick) ==
    ApplySlippage(order.direction,
        IF order.order_type = "MARKET" /\ MarketOrderPriceSource = "last"
        THEN tick.last_price
        ELSE OrElse(OppositeQuote(order.direction, tick), tick.last_price))

CanMatch(order, tick) ==
    /\ order.status \in {"NOT_TRADED", "PART_TRADED"}
    /\ Executable(order, tick)
    /\ Remaining(order) > 0

TradeOf(id, order, tick) ==
    [order_id |-> id, vt_symbol |-> order.vt_symbol, direction |-> order.direction,
     offset |-> order.offset, price |-> MatchPrice(order, tick), volume |-> Remaining(order)]

\* Variant: the fill is not added to the traded volume.
BookedWithoutVolume(order, fill) == [order EXCEPT !.status = "ALL_TRADED"]

Booked(order, fill) ==
    LET traded == order.traded + fill
    IN [order EXCEPT !.traded = traded,
                     !.status = IF order.volume <= traded THEN "ALL_TRADED" ELSE "PART_TRADED"]

-----------------------------------------------------------------------------
(* Settlement of a trade.                                                   *)

Abs(n) == IF n < 0 THEN -n ELSE n
Least(a, b) == IF a < b THEN a ELSE b

Commission(trade) == Abs(trade.price * trade.volume) * CommissionRate

\* The volume a closing trade takes off the position it finds.
CloseVolume(position, trade) == Least(trade.volume, Closable(position, trade.direction))

Realized(position, trade, closed) ==
    IF trade.direction = "SHORT"
    THEN (trade.price - position.long_avg_price) * closed
    ELSE (position.short_avg_price - trade.price) * closed

\* Variant: an average that forgets the volumes.
UnweightedPrice(avg, held, price, volume) == IF held = 0 THEN price ELSE (avg + price) \div 2

AveragePrice(avg, held, price, volume) == (avg * held + price * volume) \div (held + volume)

Opened(position, trade) ==
    IF trade.direction = "LONG"
    THEN [position EXCEPT
            !.long_volume = @ + trade.volume,
            !.long_avg_price = AveragePrice(@, position.long_volume, trade.price, trade.volume)]
    ELSE [position EXCEPT
            !.short_volume = @ + trade.volume,
            !.short_avg_price = AveragePrice(@, position.short_volume, trade.price, trade.volume)]

Closed(position, trade, closed) ==
    IF trade.direction = "SHORT"
    THEN IF position.long_volume <= closed
         THEN [position EXCEPT !.long_volume = 0, !.long_avg_price = 0]
         ELSE [position EXCEPT !.long_volume = @ - closed]
    ELSE IF position.short_volume <= closed
         THEN [position EXCEPT !.short_volume = 0, !.short_avg_price = 0]
         ELSE [position EXCEPT !.short_volume = @ - closed]

PositionAfter(position, trade) ==
    IF trade.offset = "OPEN" THEN Opened(position, trade)
    ELSE Closed(position, trade, CloseVolume(position, trade))

\* The profit a trade books: none for an opening trade.
BookedProfit(position, trade) ==
    IF trade.offset = "OPEN" THEN 0
    ELSE Realized(position, trade, CloseVolume(position, trade))

Unrealized(positions, ticks) ==
    [s \in Symbols |->
        IF ticks[s] = NoTick THEN 0
        ELSE (ticks[s].last_price - positions[s].long_avg_price) * positions[s].long_volume
           + (positions[s].short_avg_price - ticks[s].last_price) * positions[s].short_volume]

AccountAfter(account, position, trade) ==
    LET fee == Commission(trade)
        profit == BookedProfit(position, trade)
    IN [account EXCEPT !.commission = @ + fee,
                       !.realized_pnl = @ + profit,
                       !.balance = @ - fee + profit,
                       !.available = account.balance - fee + profit]
=============================================================================
