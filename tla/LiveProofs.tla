------------------------------ MODULE LiveProofs ------------------------------
(***************************************************************************)
(* What is proved of the live side, for any values of the constants: of    *)
(* the engine that the ticks drive (SimulationEngine, from                 *)
(* ConfigAssumption and SymbolsAreFinite), and of the sources that produce *)
(* them: the tasks of the bridge servers (TickSource), the two threads of  *)
(* the CTP gateway (CtpGateway), and the order of the A-share sources and  *)
(* the end of ticks() (AShareGateway).                                     *)
(***************************************************************************)
EXTENDS SimulationEngine, TickSource, CtpGateway, AShareGateway, FiniteSetTheorems, TLAPS

-----------------------------------------------------------------------------
(* What the rules of the engine return, for any order, tick, position and     *)
(* trade.                                                                      *)

\* Booking a fill leaves an order.
LEMMA BookedType ==
    ASSUME NEW order \in Order, NEW fill \in Int
    PROVE  Booked(order, fill) \in Order
<1> DEFINE traded == order.traded + fill
           status == IF order.volume <= traded THEN "ALL_TRADED" ELSE "PART_TRADED"
<1>1. traded \in Int
  BY DEF Order
<1>2. status \in OrderStatus
  BY DEF OrderStatus
<1>3. Booked(order, fill) = [order EXCEPT !.traded = traded, !.status = status]
  BY DEF Booked
<1> HIDE DEF traded, status
<1> QED BY <1>1, <1>2, <1>3 DEF Order

\* What a request becomes is an order.
LEMMA NewOrderType ==
    ASSUME NEW req \in Requests, NEW status \in OrderStatus
    PROVE  NewOrder(req, status) \in Order
BY ConfigAssumption DEF NewOrder, Order, OrderRequest

\* A match is a trade, whatever quotes the tick is missing.
LEMMA TradeOfType ==
    ASSUME NEW id \in OrderIds, NEW order \in Order, NEW tick \in Tick
    PROVE  TradeOf(id, order, tick) \in Trade
<1>1. MatchPrice(order, tick) \in Int
  BY ConfigAssumption DEF MatchPrice, ApplySlippage, OrElse, OppositeQuote, Tick, Order
<1>2. Remaining(order) \in Int
  BY DEF Remaining, Order
<1> QED BY <1>1, <1>2 DEF TradeOf, Trade, Order

\* The quotient is used only with a positive divisor: TLA+ leaves the others
\* undefined, and the code divides by the volume just increased.
LEMMA QuotientType ==
    ASSUME NEW a \in Int, NEW b \in Int, b > 0
    PROVE  a \div b \in Int
OBVIOUS

\* Opening adds to a position and averages its price.
LEMMA OpenedType ==
    ASSUME NEW position \in Position, NEW trade \in Trade, trade.volume > 0,
           position.long_volume >= 0, position.short_volume >= 0
    PROVE  Opened(position, trade) \in Position
<1> DEFINE avg(a, held) == AveragePrice(a, held, trade.price, trade.volume)
<1>1. ASSUME NEW a \in Int, NEW held \in Int, held >= 0 PROVE avg(a, held) \in Int
  <2>1. a * held + trade.price * trade.volume \in Int
    BY <1>1 DEF Trade
  <2>2. held + trade.volume \in Int /\ held + trade.volume > 0
    BY <1>1 DEF Trade
  <2> QED BY <2>1, <2>2, QuotientType DEF AveragePrice
<1>2. avg(position.long_avg_price, position.long_volume) \in Int
  BY <1>1 DEF Position
<1>3. avg(position.short_avg_price, position.short_volume) \in Int
  BY <1>1 DEF Position
<1>5. CASE trade.direction = "LONG"
  <2> DEFINE v == position.long_volume + trade.volume
             a == avg(position.long_avg_price, position.long_volume)
  <2>1. Opened(position, trade) = [position EXCEPT !.long_volume = v, !.long_avg_price = a]
    BY <1>5 DEF Opened, Position
  <2>2. v \in Int
    BY DEF Position, Trade
  <2> HIDE DEF v, a
  <2> QED BY <2>1, <2>2, <1>2 DEF Position, a
<1>4. CASE trade.direction # "LONG"
  <2> DEFINE v == position.short_volume + trade.volume
             a == avg(position.short_avg_price, position.short_volume)
  <2>1. Opened(position, trade) = [position EXCEPT !.short_volume = v, !.short_avg_price = a]
    BY <1>4 DEF Opened, Position
  <2>2. v \in Int
    BY DEF Position, Trade
  <2> HIDE DEF v, a
  <2> QED BY <2>1, <2>2, <1>3 DEF Position, a
<1> QED BY <1>5, <1>4

\* What is closed is clipped to what is held.
LEMMA CloseVolumeType ==
    ASSUME NEW position \in Position, NEW trade \in Trade
    PROVE  CloseVolume(position, trade) \in Int
BY DEF CloseVolume, Closable, Least, Position, Trade

\* A position with other numbers is a position.
LEMMA PositionUpdate ==
    ASSUME NEW position \in Position, NEW v \in Int, NEW a \in Int
    PROVE  /\ [position EXCEPT !.long_volume = v] \in Position
           /\ [position EXCEPT !.short_volume = v] \in Position
           /\ [position EXCEPT !.long_volume = v, !.long_avg_price = a] \in Position
           /\ [position EXCEPT !.short_volume = v, !.short_avg_price = a] \in Position
BY DEF Position

\* Closing leaves a position.
LEMMA ClosedType ==
    ASSUME NEW position \in Position, NEW trade \in Trade, NEW clipped \in Int
    PROVE  Closed(position, trade, clipped) \in Position
<1> DEFINE long == position.long_volume - clipped
           short == position.short_volume - clipped
           none == 0
<1>1. long \in Int /\ short \in Int /\ none \in Int
  BY DEF Position
<1>2. \/ Closed(position, trade, clipped)
           = [position EXCEPT !.long_volume = none, !.long_avg_price = none]
      \/ Closed(position, trade, clipped) = [position EXCEPT !.long_volume = long]
      \/ Closed(position, trade, clipped)
           = [position EXCEPT !.short_volume = none, !.short_avg_price = none]
      \/ Closed(position, trade, clipped) = [position EXCEPT !.short_volume = short]
  BY DEF Closed
<1> HIDE DEF long, short, none
<1>3. /\ [position EXCEPT !.long_volume = none, !.long_avg_price = none] \in Position
      /\ [position EXCEPT !.short_volume = none, !.short_avg_price = none] \in Position
      /\ [position EXCEPT !.long_volume = long] \in Position
      /\ [position EXCEPT !.short_volume = short] \in Position
  BY <1>1, PositionUpdate
<1> QED BY <1>2, <1>3

\* A trade changes the account by its commission and the profit that it books.
LEMMA AccountAfterType ==
    ASSUME NEW a \in Account, NEW position \in Position, NEW trade \in Trade
    PROVE  /\ AccountAfter(a, position, trade) \in Account
           /\ Commission(trade) \in Int
           /\ BookedProfit(position, trade) \in Int
<1>1. Commission(trade) \in Int
  <2>1. Abs(trade.price * trade.volume) \in Int
    BY DEF Abs, Trade
  <2> QED BY <2>1, ConfigAssumption DEF Commission
<1>2. BookedProfit(position, trade) \in Int
  BY CloseVolumeType DEF BookedProfit, Realized, Position, Trade
<1>3. ASSUME NEW b \in Int, NEW c \in Int, NEW d \in Int, NEW e \in Int
      PROVE  [a EXCEPT !.commission = b, !.realized_pnl = c,
                       !.balance = d, !.available = e] \in Account
  BY DEF Account
<1>4. /\ a.commission + Commission(trade) \in Int
      /\ a.realized_pnl + BookedProfit(position, trade) \in Int
      /\ a.balance - Commission(trade) + BookedProfit(position, trade) \in Int
  BY <1>1, <1>2 DEF Account
<1> QED BY <1>1, <1>2, <1>3, <1>4 DEF AccountAfter

\* The unrealized profit of every symbol is a number, with a tick or without one.
LEMMA UnrealizedType ==
    ASSUME NEW p \in [Symbols -> Position],
           NEW t \in [Symbols -> Tick \union {NoTick}]
    PROVE  Unrealized(p, t) \in [Symbols -> Int]
<1> SUFFICES ASSUME NEW s \in Symbols, t[s] # NoTick
             PROVE  (t[s].last_price - p[s].long_avg_price) * p[s].long_volume
                  + (p[s].short_avg_price - t[s].last_price) * p[s].short_volume \in Int
  BY DEF Unrealized
<1>1. t[s] \in Tick /\ p[s] \in Position
  OBVIOUS
<1> QED BY <1>1 DEF Tick, Position

-----------------------------------------------------------------------------
(* The inductive invariant.                                                 *)

\* An order that is not finished has not traded at all: full fills only.
LiveOrders ==
    \A o \in OrderIds :
        (orders[o] # NoOrder /\ orders[o].status \notin Terminal) =>
            /\ orders[o].status = "NOT_TRADED"
            /\ orders[o].traded = 0
            /\ orders[o].volume > 0

\* The loop of on_tick visits stored orders only, on behalf of a stored tick.
LoopSound ==
    /\ \A o \in active_ids \union active_order_ids : orders[o] # NoOrder
    /\ active_ids # {} => ~Idle
    /\ ~Idle => last_ticks[current] # NoTick

Inv == TypeOK /\ FlatSideForgets /\ LiveOrders /\ LoopSound

\* A trade leaves a position well-formed.
LEMMA PositionAfterSound ==
    ASSUME NEW position \in Position, Forgets(position),
           NEW trade \in Trade, trade.volume > 0
    PROVE  /\ PositionAfter(position, trade) \in Position
           /\ Forgets(PositionAfter(position, trade))
<1>1. CASE trade.offset = "OPEN"
  <2>1. Opened(position, trade) \in Position
    BY OpenedType DEF Forgets
  <2>2. Forgets(Opened(position, trade))
    BY <2>1 DEF Opened, Forgets, Position, Trade
  <2> QED BY <1>1, <2>1, <2>2 DEF PositionAfter
<1>2. CASE trade.offset # "OPEN"
  <2> DEFINE clipped == CloseVolume(position, trade)
  <2>1. clipped \in Int
    BY CloseVolumeType
  <2> HIDE DEF clipped
  <2>2. Closed(position, trade, clipped) \in Position
    BY <2>1, ClosedType
  <2>3. Forgets(Closed(position, trade, clipped))
    BY <2>1, <2>2 DEF Closed, Forgets, Position, Trade
  <2> QED BY <1>2, <2>2, <2>3 DEF PositionAfter, clipped
<1> QED BY <1>1, <1>2

\* What a fill of a live order does, in terms the invariants can use.
LEMMA FillStep ==
    ASSUME TypeOK, FlatSideForgets,
           NEW id \in OrderIds, NEW order \in Order, NEW tick \in Tick,
           order.traded = 0, order.volume > 0,
           Fill(id, order, tick)
    PROVE  LET trade == TradeOf(id, order, tick)
               filled == Booked(order, trade.volume)
           IN /\ trade \in Trade
              /\ trade.order_id = id
              /\ trade.volume = order.volume
              /\ filled \in Order
              /\ filled.status = "ALL_TRADED"
              /\ filled.traded = order.volume
              /\ filled.volume = order.volume
              /\ orders' = [orders EXCEPT ![id] = filled]
              /\ trades' = Append(trades, trade)
              /\ active_order_ids' = active_order_ids \ {id}
              /\ positions' \in [Symbols -> Position]
              /\ FlatSideForgets'
              /\ account' \in Account
              /\ account'.balance - account'.realized_pnl + account'.commission
                   = account.balance - account.realized_pnl + account.commission
              /\ account'.available = account'.balance
              /\ account'.unrealized_pnl = Unrealized(positions', last_ticks)
<1> DEFINE trade == TradeOf(id, order, tick)
           filled == Booked(order, trade.volume)
           s == order.vt_symbol
<1>1. trade \in Trade /\ trade.order_id = id
  BY TradeOfType DEF TradeOf
<1>2. trade.volume = order.volume
  BY DEF TradeOf, Remaining, Order
<1>3. /\ filled \in Order
      /\ filled.status = "ALL_TRADED"
      /\ filled.traded = order.volume
      /\ filled.volume = order.volume
  <2>1. filled \in Order
    BY <1>2, BookedType DEF Order
  <2>2. order.traded + trade.volume = order.volume
    BY <1>2 DEF Order
  <2> QED BY <2>1, <2>2 DEF Booked, Order
<1>4. s \in Symbols /\ positions[s] \in Position /\ Forgets(positions[s])
  BY DEF TypeOK, FlatSideForgets, Order
<1>5. /\ PositionAfter(positions[s], trade) \in Position
      /\ Forgets(PositionAfter(positions[s], trade))
  BY <1>1, <1>2, <1>4, PositionAfterSound
<1>6. /\ orders' = [orders EXCEPT ![id] = filled]
      /\ trades' = Append(trades, trade)
      /\ active_order_ids' = active_order_ids \ {id}
      /\ positions' = [positions EXCEPT ![s] = PositionAfter(positions[s], trade)]
      /\ account' = [AccountAfter(account, positions[s], trade)
                       EXCEPT !.unrealized_pnl = Unrealized(positions', last_ticks)]
  BY DEF Fill
<1>7. positions' \in [Symbols -> Position] /\ FlatSideForgets'
  BY <1>4, <1>5, <1>6 DEF TypeOK, FlatSideForgets
<1>8. Unrealized(positions', last_ticks) \in [Symbols -> Int]
  BY <1>7, UnrealizedType DEF TypeOK
<1>9. /\ AccountAfter(account, positions[s], trade) \in Account
      /\ Commission(trade) \in Int
      /\ BookedProfit(positions[s], trade) \in Int
  BY <1>1, <1>4, AccountAfterType DEF TypeOK
<1> HIDE DEF trade, filled
<1>10. account' \in Account /\ account'.unrealized_pnl = Unrealized(positions', last_ticks)
  BY <1>6, <1>8, <1>9 DEF Account
<1>11. /\ account'.balance = account.balance - Commission(trade) + BookedProfit(positions[s], trade)
       /\ account'.available = account.balance - Commission(trade) + BookedProfit(positions[s], trade)
       /\ account'.realized_pnl = account.realized_pnl + BookedProfit(positions[s], trade)
       /\ account'.commission = account.commission + Commission(trade)
  BY <1>6 DEF AccountAfter, Account, TypeOK
<1>12. account'.balance - account'.realized_pnl + account'.commission
         = account.balance - account.realized_pnl + account.commission
  BY SMTT(30), <1>9, <1>11 DEF TypeOK, Account
<1> QED BY <1>1, <1>2, <1>3, <1>6, <1>7, <1>10, <1>11, <1>12 DEF trade, filled

-----------------------------------------------------------------------------
(* Each call of the engine, one lemma per action, preserves Inv.            *)

\* A new engine holds nothing.
LEMMA InitInv == Init => Inv
<1> SUFFICES ASSUME Init PROVE Inv
  OBVIOUS
<1>1. NewAccount \in Account
  BY ConfigAssumption DEF NewAccount, Account
<1>2. NoPosition \in Position /\ Forgets(NoPosition)
  BY DEF NoPosition, Position, Forgets
<1>3. TypeOK
  BY <1>1, <1>2 DEF Init, TypeOK
<1>4. FlatSideForgets
  BY <1>2 DEF Init, FlatSideForgets
<1> QED BY <1>3, <1>4 DEF Init, Inv, LiveOrders, LoopSound, Idle

\* A submission stores an order that has not traded, or a whole fill of it.
LEMMA SubmitInv ==
    ASSUME Inv, NEW id \in OrderIds, NEW req \in Requests, SubmitOrder(id, req)
    PROVE  Inv'
<1> USE DEF Inv
<1>1. CASE SubmitRefused(id, req)
  <2>1. NewOrder(req, "REJECTED") \in Order
    BY NewOrderType DEF OrderStatus
  <2>2. orders' = [orders EXCEPT ![id] = NewOrder(req, "REJECTED")]
    BY <1>1 DEF SubmitRefused, Store
  <2>3. TypeOK'
    BY <1>1, <2>1, <2>2 DEF SubmitRefused, Store, SubmitOrder, TypeOK
  <2>4. FlatSideForgets'
    BY <1>1 DEF SubmitRefused, FlatSideForgets
  <2>5. LiveOrders'
    BY <2>2 DEF LiveOrders, NewOrder, Terminal, TypeOK
  <2>6. LoopSound'
    BY <1>1, <2>1, <2>2, ConfigAssumption
       DEF LoopSound, SubmitOrder, SubmitRefused, TypeOK, Idle
  <2> QED BY <2>3, <2>4, <2>5, <2>6
<1>2. CASE SubmitAccepted(id, req)
  <2> DEFINE order == NewOrder(req, "NOT_TRADED")
             tick == last_ticks[req.vt_symbol]
  <2>1. /\ order \in Order
        /\ order.traded = 0
        /\ order.volume > 0
        /\ order.status = "NOT_TRADED"
    <3>1. order \in Order
      BY NewOrderType DEF OrderStatus
    <3>2. req.volume > 0
      BY <1>2, ConfigAssumption DEF SubmitAccepted, Refused, OrderRequest
    <3> QED BY <3>1, <3>2 DEF NewOrder
  <2>2. req.vt_symbol \in Symbols
    BY ConfigAssumption DEF OrderRequest
  <2>3. CASE tick # NoTick /\ CanMatch(order, tick) /\ Fill(id, order, tick)
    <3>1. tick \in Tick
      BY <2>2, <2>3 DEF TypeOK
    <3> DEFINE trade == TradeOf(id, order, tick)
               filled == Booked(order, trade.volume)
    <3>2. /\ trade \in Trade
          /\ filled \in Order
          /\ filled.status = "ALL_TRADED"
          /\ orders' = [orders EXCEPT ![id] = filled]
          /\ trades' = Append(trades, trade)
          /\ active_order_ids' = active_order_ids \ {id}
          /\ positions' \in [Symbols -> Position]
          /\ FlatSideForgets'
          /\ account' \in Account
      BY <2>1, <2>3, <3>1, FillStep
    <3>3. /\ published' \in [orders : [OrderIds -> Order \union {NoOrder}],
                             positions : [Symbols -> Position], account : Account]
      <4>1. published' = [orders |-> [published.orders EXCEPT ![id] = orders'[id]],
                          positions |-> [published.positions EXCEPT
                                           ![order.vt_symbol] = positions'[order.vt_symbol]],
                          account |-> account']
        BY <2>3 DEF Fill
      <4>2. orders'[id] \in Order /\ positions'[order.vt_symbol] \in Position
        BY <2>1, <3>2 DEF TypeOK, Order
      <4> HIDE DEF order, filled, trade
      <4> QED BY <4>1, <4>2, <3>2 DEF TypeOK
    <3> HIDE DEF order, filled, trade
    <3>4. TypeOK'
      BY <3>2, <3>3 DEF TypeOK, SubmitOrder
    <3>5. LiveOrders'
      BY <3>2 DEF LiveOrders, Terminal, TypeOK
    <3>6. LoopSound'
      BY <3>2, ConfigAssumption DEF LoopSound, SubmitOrder, TypeOK, Idle
    <3> QED BY <3>2, <3>4, <3>5, <3>6
  <2>4. CASE Store(id, order) /\ active_order_ids' = active_order_ids \union {id}
             /\ UNCHANGED <<trades, account, positions>>
    <3>1. orders' = [orders EXCEPT ![id] = order]
      BY <2>4 DEF Store
    <3>2. TypeOK'
      BY <2>1, <2>4, <3>1 DEF Store, SubmitOrder, TypeOK
    <3> HIDE DEF order
    <3>3. FlatSideForgets'
      BY <2>4 DEF FlatSideForgets
    <3>4. LiveOrders'
      BY <2>1, <3>1 DEF LiveOrders, TypeOK
    <3>5. LoopSound'
      BY <2>1, <2>4, <3>1, ConfigAssumption DEF LoopSound, SubmitOrder, TypeOK, Idle
    <3> QED BY <3>2, <3>3, <3>4, <3>5
  <2> QED BY <1>2, <2>3, <2>4 DEF SubmitAccepted
<1> QED BY <1>1, <1>2 DEF SubmitOrder

\* A cancel finishes an order that is stored.
LEMMA CancelInv ==
    ASSUME Inv, NEW id \in OrderIds, CancelOrder(id)
    PROVE  Inv'
<1> USE DEF Inv
<1> DEFINE order == [orders[id] EXCEPT !.status = "CANCELLED"]
<1>1. order \in Order /\ order.status = "CANCELLED"
  BY DEF CancelOrder, TypeOK, Order, OrderStatus
<1>2. orders' = [orders EXCEPT ![id] = order]
  BY DEF CancelOrder, Store
<1>3. TypeOK'
  BY <1>1, <1>2 DEF CancelOrder, Store, TypeOK
<1> HIDE DEF order
<1>4. FlatSideForgets'
  BY DEF CancelOrder, FlatSideForgets
<1>5. LiveOrders'
  BY <1>1, <1>2 DEF LiveOrders, TypeOK, Terminal
<1>6. LoopSound'
  BY <1>1, <1>2, ConfigAssumption DEF LoopSound, CancelOrder, TypeOK, Idle
<1> QED BY <1>3, <1>4, <1>5, <1>6

\* A tick lists active orders, which are stored, and is stored itself.
LEMMA TickArrivesInv ==
    ASSUME Inv, NEW tick \in Ticks, TickArrives(tick)
    PROVE  Inv'
<1> USE DEF Inv
<1>1. tick \in Tick /\ tick.vt_symbol \in Symbols
  BY ConfigAssumption DEF Tick
<1>2. last_ticks' \in [Symbols -> Tick \union {NoTick}]
  BY <1>1 DEF TickArrives, TypeOK
<1>3. Unrealized(positions, last_ticks') \in [Symbols -> Int]
  BY <1>2, UnrealizedType DEF TypeOK
<1>4. account' \in Account
  BY <1>3 DEF TickArrives, TypeOK, Account
<1>5. TypeOK'
  BY <1>1, <1>2, <1>4 DEF TickArrives, TypeOK
<1>6. FlatSideForgets' /\ LiveOrders'
  BY DEF TickArrives, FlatSideForgets, LiveOrders
<1>7. LoopSound'
  BY <1>1, ConfigAssumption DEF LoopSound, TickArrives, TypeOK, Idle
<1> QED BY <1>5, <1>6, <1>7

\* The order a turn of the loop fills is live, and the tick is there.
LEMMA MatchNextOperands ==
    ASSUME Inv, NEW id \in OrderIds, MatchNext(id),
           CanMatch(orders[id], last_ticks[current])
    PROVE  /\ orders[id] \in Order
           /\ orders[id].status = "NOT_TRADED"
           /\ orders[id].traded = 0
           /\ orders[id].volume > 0
           /\ last_ticks[current] \in Tick
<1>1. orders[id] # NoOrder /\ ~Idle
  BY DEF Inv, MatchNext, LoopSound
<1>2. orders[id].status \notin Terminal
  BY DEF CanMatch, Terminal
<1> QED BY <1>1, <1>2 DEF Inv, LiveOrders, LoopSound, TypeOK, Idle

\* A turn of the loop fills an order whole or leaves it.
LEMMA MatchNextInv ==
    ASSUME Inv, NEW id \in OrderIds, MatchNext(id)
    PROVE  Inv'
<1> USE DEF Inv
<1> DEFINE order == orders[id]
           tick == last_ticks[current]
<1>1. CASE order.vt_symbol = current /\ CanMatch(order, tick) /\ Fill(id, order, tick)
  <2> DEFINE trade == TradeOf(id, order, tick)
             filled == Booked(order, trade.volume)
  <2>1. /\ order \in Order
        /\ order.traded = 0
        /\ order.volume > 0
        /\ tick \in Tick
    BY <1>1, MatchNextOperands
  <2>2. /\ trade \in Trade
        /\ filled \in Order
        /\ filled.status = "ALL_TRADED"
        /\ orders' = [orders EXCEPT ![id] = filled]
        /\ trades' = Append(trades, trade)
        /\ active_order_ids' = active_order_ids \ {id}
        /\ positions' \in [Symbols -> Position]
        /\ FlatSideForgets'
        /\ account' \in Account
    BY <1>1, <2>1, FillStep
  <2>3. published' \in [orders : [OrderIds -> Order \union {NoOrder}],
                        positions : [Symbols -> Position], account : Account]
    <3>1. published' = [orders |-> [published.orders EXCEPT ![id] = orders'[id]],
                        positions |-> [published.positions EXCEPT
                                         ![order.vt_symbol] = positions'[order.vt_symbol]],
                        account |-> account']
      BY <1>1 DEF Fill
    <3>2. orders'[id] \in Order /\ positions'[order.vt_symbol] \in Position
      BY <2>1, <2>2 DEF TypeOK, Order
    <3> HIDE DEF order, filled, trade
    <3> QED BY <3>1, <3>2, <2>2 DEF TypeOK
  <2> HIDE DEF order, filled, trade
  <2>4. TypeOK'
    BY <2>2, <2>3 DEF TypeOK, MatchNext
  <2>5. LiveOrders'
    BY <2>2 DEF LiveOrders, Terminal, TypeOK
  <2>6. LoopSound'
    BY <2>2, ConfigAssumption DEF LoopSound, MatchNext, TypeOK, Idle
  <2> QED BY <2>2, <2>4, <2>5, <2>6
<1>2. CASE UNCHANGED <<book, published>>
  BY <1>2 DEF MatchNext, book, TypeOK, FlatSideForgets, LiveOrders, LoopSound, Idle
<1> QED BY <1>1, <1>2 DEF MatchNext

\* The end of the loop changes what is announced only.
LEMMA TickDoneInv == ASSUME Inv, TickDone PROVE Inv'
<1>1. TypeOK'
  BY DEF Inv, TickDone, TypeOK, book
<1> QED BY <1>1 DEF Inv, TickDone, book, FlatSideForgets, LiveOrders, LoopSound, Idle

\* Inv speaks of the variables only.
LEMMA StutterInv == ASSUME Inv, UNCHANGED vars PROVE Inv'
BY DEF Inv, vars, book, TypeOK, FlatSideForgets, LiveOrders, LoopSound, Idle

-----------------------------------------------------------------------------
(* Theorems.                                                                *)

\* The inductive invariant the other theorems rest on.
LEMMA InvHolds == Spec => []Inv
<1>1. Inv /\ [Next]_vars => Inv'
  BY SubmitInv, CancelInv, TickArrivesInv, MatchNextInv, TickDoneInv, StutterInv DEF Next
<1> QED BY InitInv, <1>1, PTL DEF Spec

\* Every variable keeps its type: no fill, cancel or tick produces a malformed
\* order, trade, position or account (engine.py: every handler).
THEOREM TypeCorrect == Spec => []TypeOK
BY InvHolds, PTL DEF Inv

\* A flat side has volume 0 and average price 0, and no volume is ever
\* negative, even when a closing trade is larger than the position
\* (_apply_trade clips it).
THEOREM PositionsSound == Spec => []FlatSideForgets
BY InvHolds, PTL DEF Inv

\* The balance is the initial balance plus realized profit minus commission
\* and is wholly available, after any sequence of orders, cancels and ticks.
THEOREM BalanceConserved == Spec => []BalanceIdentity
<1>1. Init => BalanceIdentity
  BY ConfigAssumption DEF Init, BalanceIdentity, NewAccount
<1>2. Inv /\ BalanceIdentity /\ [Next]_vars => BalanceIdentity'
  <2> SUFFICES ASSUME Inv, BalanceIdentity, [Next]_vars PROVE BalanceIdentity'
    OBVIOUS
  <2>1. ASSUME NEW id \in OrderIds, NEW order \in Order, NEW tick \in Tick,
               order.traded = 0, order.volume > 0, Fill(id, order, tick)
        PROVE  BalanceIdentity'
    <3>1. /\ account' \in Account
          /\ account'.balance - account'.realized_pnl + account'.commission
               = account.balance - account.realized_pnl + account.commission
          /\ account'.available = account'.balance
      BY <2>1, FillStep DEF Inv
    <3> QED BY SMTT(30), <3>1, ConfigAssumption DEF BalanceIdentity, Account, Inv, TypeOK
  <2>2. CASE UNCHANGED account
    BY <2>2 DEF BalanceIdentity
  <2>3. ASSUME NEW id \in OrderIds, NEW req \in Requests, SubmitOrder(id, req)
        PROVE  BalanceIdentity'
    <3> DEFINE order == NewOrder(req, "NOT_TRADED")
               tick == last_ticks[req.vt_symbol]
    <3>1. CASE ~Refused(req, positions[req.vt_symbol]) /\ tick # NoTick /\ Fill(id, order, tick)
      <4>1. order \in Order /\ order.traded = 0 /\ order.volume = req.volume
        BY NewOrderType DEF OrderStatus, NewOrder
      <4>2. order.volume > 0
        BY <3>1, <4>1, ConfigAssumption DEF Refused, OrderRequest
      <4>3. tick \in Tick
        BY <3>1, ConfigAssumption DEF Inv, TypeOK, OrderRequest
      <4> QED BY <2>1, <3>1, <4>1, <4>2, <4>3
    <3> QED BY <2>2, <2>3, <3>1 DEF SubmitOrder, SubmitRefused, SubmitAccepted
  <2>4. ASSUME NEW id \in OrderIds, MatchNext(id)
        PROVE  BalanceIdentity'
    BY <2>1, <2>2, <2>4, MatchNextOperands DEF MatchNext, book
  <2>5. ASSUME NEW tick \in Ticks, TickArrives(tick)
        PROVE  BalanceIdentity'
    BY <2>5 DEF TickArrives, BalanceIdentity, Inv, TypeOK, Account
  <2> QED BY <2>2, <2>3, <2>4, <2>5 DEF Next, CancelOrder, TickDone, book, vars
<1> QED BY InvHolds, <1>1, <1>2, PTL DEF Spec

\* Every fill is recorded.
LEMMA FillAddsTrade ==
    ASSUME Inv, NEW id, NEW order, NEW tick, Fill(id, order, tick)
    PROVE  trades' # trades
<1>1. trades' = Append(trades, TradeOf(id, order, tick)) /\ trades \in Seq(Trade)
  BY DEF Fill, Inv, TypeOK
<1>2. Len(Append(trades, TradeOf(id, order, tick))) = Len(trades) + 1 /\ Len(trades) \in Nat
  BY <1>1
<1> QED BY <1>1, <1>2

\* Every step either fills one live order or leaves trades, positions and the
\* ledger alone.
LEMMA FillOrNone ==
    ASSUME Inv, [Next]_vars
    PROVE  \/ \E id \in OrderIds, order \in Order, tick \in Tick :
                /\ order.traded = 0 /\ order.volume > 0 /\ order.status = "NOT_TRADED"
                /\ orders[id] = NoOrder \/ orders[id] = order
                /\ Fill(id, order, tick)
                /\ UNCHANGED last_ticks
           \/ UNCHANGED <<trades, positions>>
<1>1. ASSUME NEW id \in OrderIds, NEW req \in Requests, SubmitOrder(id, req), trades' # trades
      PROVE  \E order \in Order, tick \in Tick :
                /\ order.traded = 0 /\ order.volume > 0 /\ order.status = "NOT_TRADED"
                /\ orders[id] = NoOrder
                /\ Fill(id, order, tick)
                /\ UNCHANGED last_ticks
  <2> DEFINE order == NewOrder(req, "NOT_TRADED")
             tick == last_ticks[req.vt_symbol]
  <2>1. /\ ~Refused(req, positions[req.vt_symbol])
        /\ tick # NoTick
        /\ Fill(id, order, tick)
        /\ orders[id] = NoOrder
        /\ UNCHANGED last_ticks
    BY <1>1 DEF SubmitOrder, SubmitRefused, SubmitAccepted
  <2>2. order \in Order /\ order.traded = 0 /\ order.volume = req.volume
                         /\ order.status = "NOT_TRADED"
    BY NewOrderType DEF OrderStatus, NewOrder
  <2>3. order.volume > 0
    BY <2>1, <2>2, ConfigAssumption DEF Refused, OrderRequest
  <2>4. tick \in Tick
    BY <2>1, ConfigAssumption DEF Inv, TypeOK, OrderRequest
  <2> HIDE DEF order, tick
  <2> QED BY <2>1, <2>2, <2>3, <2>4
<1>2. ASSUME NEW id \in OrderIds, MatchNext(id), ~UNCHANGED <<trades, positions>>
      PROVE  /\ Fill(id, orders[id], last_ticks[current])
             /\ CanMatch(orders[id], last_ticks[current])
             /\ UNCHANGED last_ticks
  BY <1>2 DEF MatchNext, book
<1>3. ASSUME NEW id \in OrderIds, NEW req \in Requests, SubmitOrder(id, req), trades' = trades
      PROVE  UNCHANGED <<trades, positions>>
  BY <1>3, FillAddsTrade DEF SubmitOrder, SubmitRefused, SubmitAccepted
<1> QED
  BY <1>1, <1>2, <1>3, MatchNextOperands
     DEF Next, CancelOrder, TickArrives, TickDone, book, vars

\* A trade that is recorded is one more of its order.
LEMMA TradesAfterAppend ==
    ASSUME trades \in Seq(Trade), NEW t \in Trade, trades' = Append(trades, t)
    PROVE  /\ \A o \in OrderIds : o # t.order_id => TradesOf(o)' = TradesOf(o)
           /\ TradesOf(t.order_id)' = TradesOf(t.order_id) \union {Len(trades) + 1}
           /\ trades'[Len(trades) + 1] = t
           /\ \A i \in DOMAIN trades : trades'[i] = trades[i]
           /\ Len(trades) + 1 \notin DOMAIN trades
BY DEF TradesOf

-----------------------------------------------------------------------------
\* The active ids are exactly the open orders, after any interleaving of
\* submissions, cancels and turns of the matching loop.
THEOREM ActiveSetExact == Spec => []ActiveIffOpen
<1>1. Init => ActiveIffOpen
  BY DEF Init, ActiveIffOpen
<1>2. Inv /\ ActiveIffOpen /\ [Next]_vars => ActiveIffOpen'
  <2> SUFFICES ASSUME Inv, ActiveIffOpen, [Next]_vars PROVE ActiveIffOpen'
    OBVIOUS
  <2> USE DEF ActiveIffOpen
  <2>1. ASSUME NEW id \in OrderIds, NEW order \in Order, NEW tick \in Tick,
               order.traded = 0, order.volume > 0, Fill(id, order, tick)
        PROVE  ActiveIffOpen'
    <3> DEFINE filled == Booked(order, TradeOf(id, order, tick).volume)
    <3>1. /\ filled.status = "ALL_TRADED"
          /\ orders' = [orders EXCEPT ![id] = filled]
          /\ active_order_ids' = active_order_ids \ {id}
      BY <2>1, FillStep DEF Inv
    <3> HIDE DEF filled
    <3> QED BY <3>1 DEF Inv, TypeOK, Terminal
  <2>2. ASSUME NEW id \in OrderIds, NEW order \in Order, Store(id, order),
               active_order_ids' = IF order.status \in Terminal
                                   THEN active_order_ids \ {id}
                                   ELSE active_order_ids \union {id}
        PROVE  ActiveIffOpen'
    BY <2>2, ConfigAssumption DEF Store, Inv, TypeOK
  <2>3. ASSUME NEW id \in OrderIds, NEW req \in Requests, SubmitOrder(id, req)
        PROVE  ActiveIffOpen'
    <3>1. CASE SubmitRefused(id, req)
      <4>1. NewOrder(req, "REJECTED") \in Order /\ NewOrder(req, "REJECTED").status = "REJECTED"
        BY NewOrderType DEF OrderStatus, NewOrder
      <4>2. id \notin active_order_ids
        BY <2>3 DEF SubmitOrder
      <4> QED BY <2>2, <3>1, <4>1, <4>2 DEF SubmitRefused, Terminal
    <3>2. CASE SubmitAccepted(id, req)
      <4> DEFINE order == NewOrder(req, "NOT_TRADED")
                 tick == last_ticks[req.vt_symbol]
      <4>1. order \in Order /\ order.status = "NOT_TRADED" /\ order.traded = 0
                             /\ order.volume = req.volume
        BY NewOrderType DEF OrderStatus, NewOrder
      <4>2. req.volume > 0 /\ req.vt_symbol \in Symbols
        BY <3>2, ConfigAssumption DEF SubmitAccepted, Refused, OrderRequest
      <4>3. CASE tick # NoTick /\ Fill(id, order, tick)
        <5>1. tick \in Tick
          BY <4>2, <4>3 DEF Inv, TypeOK
        <5> HIDE DEF order, tick
        <5> QED BY <2>1, <4>1, <4>2, <4>3, <5>1
      <4>4. CASE Store(id, order) /\ active_order_ids' = active_order_ids \union {id}
        BY <2>2, <4>1, <4>4 DEF Terminal
      <4> QED BY <3>2, <4>3, <4>4 DEF SubmitAccepted
    <3> QED BY <2>3, <3>1, <3>2 DEF SubmitOrder
  <2>4. ASSUME NEW id \in OrderIds, CancelOrder(id)
        PROVE  ActiveIffOpen'
    <3> DEFINE order == [orders[id] EXCEPT !.status = "CANCELLED"]
    <3>1. order \in Order /\ order.status = "CANCELLED"
      BY <2>4 DEF CancelOrder, Inv, TypeOK, Order, OrderStatus
    <3> QED BY <2>2, <2>4, <3>1 DEF CancelOrder, Terminal
  <2>5. ASSUME NEW id \in OrderIds, MatchNext(id)
        PROVE  ActiveIffOpen'
    BY <2>1, <2>5, MatchNextOperands DEF MatchNext, book
  <2> QED BY <2>3, <2>4, <2>5 DEF Next, TickArrives, TickDone, book, vars
<1> QED BY InvHolds, <1>1, <1>2, PTL DEF Spec

\* Without a new trade, an order changes only by being stored or cancelled.
LEMMA NoFillOrders ==
    ASSUME Inv, [Next]_vars, UNCHANGED <<trades, positions>>
    PROVE  \A o \in OrderIds :
             \/ orders'[o] = orders[o]
             \/ /\ orders[o] = NoOrder \/ orders[o].status \notin Terminal
                /\ orders'[o] \in Order
                /\ orders'[o].traded = 0
                /\ orders'[o].status \in {"NOT_TRADED", "REJECTED", "CANCELLED"}
<1> USE DEF Inv, TypeOK
<1>1. ASSUME NEW id \in OrderIds, NEW order \in Order, Store(id, order),
             order.traded = 0, order.status \in {"NOT_TRADED", "REJECTED", "CANCELLED"},
             orders[id] = NoOrder \/ orders[id].status \notin Terminal,
             NEW o \in OrderIds
      PROVE  \/ orders'[o] = orders[o]
             \/ /\ orders[o] = NoOrder \/ orders[o].status \notin Terminal
                /\ orders'[o] \in Order
                /\ orders'[o].traded = 0
                /\ orders'[o].status \in {"NOT_TRADED", "REJECTED", "CANCELLED"}
  BY <1>1 DEF Store
<1>2. ASSUME NEW id \in OrderIds, NEW order, NEW tick PROVE ~Fill(id, order, tick)
  BY FillAddsTrade
<1>3. ASSUME NEW req \in Requests, NEW status \in {"NOT_TRADED", "REJECTED"}
      PROVE  /\ NewOrder(req, status) \in Order
             /\ NewOrder(req, status).traded = 0
             /\ NewOrder(req, status).status = status
  BY <1>3, NewOrderType DEF OrderStatus, NewOrder
<1>4. ASSUME NEW id \in OrderIds, NEW req \in Requests, SubmitOrder(id, req)
      PROVE  /\ orders[id] = NoOrder
             /\ Store(id, NewOrder(req, "REJECTED")) \/ Store(id, NewOrder(req, "NOT_TRADED"))
  BY <1>2, <1>4 DEF SubmitOrder, SubmitRefused, SubmitAccepted
<1>5. ASSUME NEW id \in OrderIds, CancelOrder(id)
      PROVE  LET order == [orders[id] EXCEPT !.status = "CANCELLED"]
             IN /\ Store(id, order)
                /\ orders[id].status \notin Terminal
                /\ order \in Order /\ order.traded = 0 /\ order.status = "CANCELLED"
  BY <1>5 DEF CancelOrder, LiveOrders, Order, OrderStatus
<1>6. ASSUME NEW id \in OrderIds, MatchNext(id) PROVE orders' = orders
  BY <1>2, <1>6 DEF MatchNext, book
<1> QED
  BY <1>1, <1>3, <1>4, <1>5, <1>6 DEF Next, TickArrives, TickDone, book, vars

\* An order trades at most once, completely, and only if it ends ALL_TRADED:
\* no cancel, rejection or second tick ever leaves a trade behind.
THEOREM TradedOnce == Spec => []OneTradePerOrder
<1>1. Init => OneTradePerOrder
  BY ConfigAssumption DEF Init, OneTradePerOrder, TradesOf
<1>2. Inv /\ OneTradePerOrder /\ [Next]_vars => OneTradePerOrder'
  <2> SUFFICES ASSUME Inv, OneTradePerOrder, [Next]_vars PROVE OneTradePerOrder'
    OBVIOUS
  <2>1. ASSUME NEW id \in OrderIds, NEW order \in Order, NEW tick \in Tick,
               order.traded = 0, order.volume > 0, order.status = "NOT_TRADED",
               orders[id] = NoOrder \/ orders[id] = order,
               Fill(id, order, tick)
        PROVE  OneTradePerOrder'
    <3> DEFINE trade == TradeOf(id, order, tick)
               filled == Booked(order, trade.volume)
               n == Len(trades) + 1
    <3>1. /\ trade \in Trade /\ trade.order_id = id
          /\ trade.volume = order.volume
          /\ filled \in Order
          /\ filled.status = "ALL_TRADED"
          /\ filled.traded = order.volume
          /\ filled.volume = order.volume
          /\ orders' = [orders EXCEPT ![id] = filled]
          /\ trades' = Append(trades, trade)
      BY <2>1, FillStep DEF Inv
    <3>2. TradesOf(id) = {}
      BY <2>1 DEF OneTradePerOrder
    <3> HIDE DEF trade, filled
    <3>3. /\ \A o \in OrderIds : o # id => TradesOf(o)' = TradesOf(o)
          /\ TradesOf(id)' = TradesOf(id) \union {n}
          /\ trades'[n] = trade
          /\ \A i \in DOMAIN trades : trades'[i] = trades[i]
      BY <3>1, TradesAfterAppend DEF Inv, TypeOK
    <3>4. TradesOf(id)' = {n}
      BY <3>2, <3>3
    <3> HIDE DEF n
    <3>5. ASSUME NEW o \in OrderIds, o # id
          PROVE  /\ TradesOf(o)' = TradesOf(o)
                 /\ orders'[o] = orders[o]
                 /\ \A i \in TradesOf(o) : trades'[i] = trades[i]
      BY <3>1, <3>3, <3>5 DEF Inv, TypeOK, TradesOf
    <3>6. orders'[id] = filled /\ filled # NoOrder
      BY <3>1, ConfigAssumption DEF Inv, TypeOK
    <3> DEFINE Traded(o) ==
                 /\ \A i, j \in TradesOf(o) : i = j
                 /\ TradesOf(o) # {} =>
                      /\ orders[o] # NoOrder
                      /\ orders[o].status = "ALL_TRADED"
                      /\ \A i \in TradesOf(o) : trades[i].volume = orders[o].volume
                 /\ orders[o] # NoOrder =>
                      orders[o].traded = IF TradesOf(o) = {} THEN 0 ELSE orders[o].volume
    <3>7. ASSUME NEW o \in OrderIds, o # id PROVE Traded(o)'
      <4>1. Traded(o)
        BY DEF OneTradePerOrder
      <4> QED BY <3>5, <3>7, <4>1
    <3>8. Traded(id)'
      BY <3>1, <3>3, <3>4, <3>6
    <3> QED BY <3>7, <3>8 DEF OneTradePerOrder
  <2>2. CASE UNCHANGED <<trades, positions>>
    <3>1. \A o \in OrderIds : TradesOf(o)' = TradesOf(o)
      BY <2>2 DEF TradesOf
    <3>2. ASSUME NEW o \in OrderIds, orders'[o] # orders[o]
          PROVE  TradesOf(o) = {} /\ orders'[o] \in Order /\ orders'[o].traded = 0
      BY <2>2, <3>2, NoFillOrders DEF OneTradePerOrder, Terminal
    <3>3. ASSUME NEW o \in OrderIds
          PROVE  /\ \A i, j \in TradesOf(o)' : i = j
                 /\ TradesOf(o)' # {} =>
                      /\ orders'[o] # NoOrder
                      /\ orders'[o].status = "ALL_TRADED"
                      /\ \A i \in TradesOf(o)' : trades'[i].volume = orders'[o].volume
                 /\ orders'[o] # NoOrder =>
                      orders'[o].traded = IF TradesOf(o)' = {} THEN 0 ELSE orders'[o].volume
      <4>1. CASE orders'[o] = orders[o]
        BY <2>2, <3>1, <4>1 DEF OneTradePerOrder
      <4>2. CASE orders'[o] # orders[o]
        BY <3>1, <3>2, <4>2
      <4> QED BY <4>1, <4>2
    <3> QED BY <3>3 DEF OneTradePerOrder
  <2> QED BY <2>1, <2>2, FillOrNone
<1> QED BY InvHolds, <1>1, <1>2, PTL DEF Spec

\* Once finished, an order never changes again, and no order loses a fill.
THEOREM FinishedStays == Spec => FinishedForEver
<1>1. Inv /\ [Next]_vars =>
        [\A o \in OrderIds : orders[o] # NoOrder =>
            /\ orders'[o] # NoOrder
            /\ orders'[o].traded >= orders[o].traded
            /\ orders[o].status \in Terminal => orders'[o] = orders[o]]_vars
  <2> SUFFICES ASSUME Inv, [Next]_vars, NEW o \in OrderIds, orders[o] # NoOrder
               PROVE  /\ orders'[o] # NoOrder
                      /\ orders'[o].traded >= orders[o].traded
                      /\ orders[o].status \in Terminal => orders'[o] = orders[o]
    OBVIOUS
  <2>0. orders[o] \in Order
    BY DEF Inv, TypeOK
  <2>1. ASSUME NEW id \in OrderIds, NEW order \in Order, NEW tick \in Tick,
               order.traded = 0, order.volume > 0, order.status = "NOT_TRADED",
               orders[id] = NoOrder \/ orders[id] = order,
               Fill(id, order, tick)
        PROVE  /\ orders'[o] # NoOrder
               /\ orders'[o].traded >= orders[o].traded
               /\ orders[o].status \in Terminal => orders'[o] = orders[o]
    <3> DEFINE filled == Booked(order, TradeOf(id, order, tick).volume)
    <3>1. /\ filled \in Order
          /\ filled.traded = order.volume
          /\ orders' = [orders EXCEPT ![id] = filled]
      BY <2>1, FillStep DEF Inv
    <3> HIDE DEF filled
    <3> QED BY <2>0, <2>1, <3>1, ConfigAssumption DEF Inv, TypeOK, Terminal, Order
  <2>2. CASE UNCHANGED <<trades, positions>>
    BY <2>0, <2>2, NoFillOrders, ConfigAssumption DEF Inv, LiveOrders, Order
  <2> QED BY <2>1, <2>2, FillOrNone
<1> QED BY InvHolds, <1>1, PTL DEF Spec, FinishedForEver

\* While on_tick runs, an open order the tick could execute is still ahead of
\* the loop; this is what makes NoRestingCross inductive.
CrossesAhead ==
    \A o \in active_order_ids :
        LET tick == last_ticks[orders[o].vt_symbol]
        IN (tick # NoTick /\ Executable(orders[o], tick)) =>
             (o \in active_ids /\ orders[o].vt_symbol = current)

\* Between calls no open order could be executed at its symbol's last tick.
THEOREM NoGapInMatching == Spec => []NoRestingCross
<1>1. Init => CrossesAhead
  BY DEF Init, CrossesAhead
<1>2. Inv /\ ActiveIffOpen /\ CrossesAhead /\ [Next]_vars => CrossesAhead'
  <2> SUFFICES ASSUME Inv, ActiveIffOpen, CrossesAhead, [Next]_vars PROVE CrossesAhead'
    OBVIOUS
  <2> USE DEF CrossesAhead
  <2>1. ASSUME NEW id \in OrderIds, NEW order \in Order, NEW tick \in Tick,
               order.traded = 0, order.volume > 0, Fill(id, order, tick),
               UNCHANGED <<last_ticks, current>>, active_ids \ {id} \subseteq active_ids'
        PROVE  CrossesAhead'
    <3> DEFINE filled == Booked(order, TradeOf(id, order, tick).volume)
    <3>1. /\ orders' = [orders EXCEPT ![id] = filled]
          /\ active_order_ids' = active_order_ids \ {id}
      BY <2>1, FillStep DEF Inv
    <3> HIDE DEF filled
    <3> QED BY <2>1, <3>1 DEF Inv, TypeOK
  <2>2. ASSUME NEW id \in OrderIds, NEW req \in Requests, SubmitOrder(id, req)
        PROVE  CrossesAhead'
    <3> DEFINE order == NewOrder(req, "NOT_TRADED")
               tick == last_ticks[req.vt_symbol]
    <3>1. id \notin active_order_ids
      BY <2>2 DEF SubmitOrder, Inv, LoopSound
    <3>2. CASE SubmitRefused(id, req)
      <4>1. orders' = [orders EXCEPT ![id] = NewOrder(req, "REJECTED")]
        BY <3>2 DEF SubmitRefused, Store
      <4> QED BY <2>2, <3>1, <3>2, <4>1 DEF SubmitRefused, SubmitOrder, Inv, TypeOK
    <3>3. CASE SubmitAccepted(id, req)
      <4>1. order \in Order /\ order.status = "NOT_TRADED" /\ order.traded = 0
              /\ order.volume = req.volume /\ order.vt_symbol = req.vt_symbol
        BY NewOrderType DEF OrderStatus, NewOrder
      <4>2. req.volume > 0 /\ req.volume \in Int /\ req.vt_symbol \in Symbols
        BY <3>3, ConfigAssumption DEF SubmitAccepted, Refused, OrderRequest
      <4>3. CASE tick # NoTick /\ Fill(id, order, tick)
        <5>1. tick \in Tick
          BY <4>2, <4>3 DEF Inv, TypeOK
        <5>2. UNCHANGED <<last_ticks, current, active_ids>>
          BY <2>2 DEF SubmitOrder
        <5> HIDE DEF order, tick
        <5> QED BY <2>1, <4>1, <4>2, <4>3, <5>1, <5>2
      <4>4. CASE /\ ~(tick # NoTick /\ CanMatch(order, tick))
                 /\ Store(id, order)
                 /\ active_order_ids' = active_order_ids \union {id}
        <5>1. orders' = [orders EXCEPT ![id] = order]
          BY <4>4 DEF Store
        <5>2. Remaining(order) > 0
          BY <4>1, <4>2 DEF Remaining
        <5>3. ~(tick # NoTick /\ Executable(order, tick))
          BY <4>1, <4>4, <5>2 DEF CanMatch
        <5>4. orders'[id] = order /\ \A o \in active_order_ids : orders'[o] = orders[o]
          BY <3>1, <5>1 DEF Inv, TypeOK
        <5>5. UNCHANGED <<last_ticks, current, active_ids>>
          BY <2>2 DEF SubmitOrder
        <5> HIDE DEF order
        <5> QED BY <4>1, <4>4, <5>3, <5>4, <5>5
      <4> QED BY <3>3, <4>3, <4>4 DEF SubmitAccepted
    <3> QED BY <2>2, <3>2, <3>3 DEF SubmitOrder
  <2>3. ASSUME NEW id \in OrderIds, CancelOrder(id)
        PROVE  CrossesAhead'
    BY <2>3 DEF CancelOrder, Store, Inv, TypeOK
  <2>4. ASSUME NEW tick \in Ticks, TickArrives(tick)
        PROVE  CrossesAhead'
    <3>1. Idle /\ active_ids = {}
      BY <2>4 DEF TickArrives, Inv, LoopSound
    <3> QED BY <2>4, <3>1, ConfigAssumption DEF TickArrives, Inv, TypeOK, Tick
  <2>5. ASSUME NEW id \in OrderIds, MatchNext(id)
        PROVE  CrossesAhead'
    <3>1. CASE Fill(id, orders[id], last_ticks[current])
               /\ CanMatch(orders[id], last_ticks[current])
      BY <2>1, <2>5, <3>1, MatchNextOperands DEF MatchNext
    <3>2. CASE /\ UNCHANGED <<book, published>>
               /\ ~(orders[id].vt_symbol = current /\ CanMatch(orders[id], last_ticks[current]))
      <4>1. UNCHANGED <<last_ticks, current, orders, active_order_ids>> /\ active_ids' = active_ids \ {id}
        BY <2>5, <3>2 DEF MatchNext, book
      <4>2. id \in active_order_ids =>
               /\ orders[id] # NoOrder
               /\ orders[id].status = "NOT_TRADED"
               /\ orders[id].traded = 0
               /\ orders[id].volume > 0
        BY DEF ActiveIffOpen, Inv, LiveOrders
      <4>3. id \in active_order_ids => Remaining(orders[id]) > 0
        BY <4>2 DEF Remaining, Inv, TypeOK, Order
      <4>4. id \in active_order_ids =>
              ~(orders[id].vt_symbol = current /\ Executable(orders[id], last_ticks[current]))
        BY <3>2, <4>2, <4>3 DEF CanMatch
      <4> QED BY <4>1, <4>4
    <3> QED BY <2>5, <3>1, <3>2 DEF MatchNext
  <2>6. CASE TickDone \/ UNCHANGED vars
    BY <2>6 DEF TickDone, book, vars
  <2> QED BY <2>2, <2>3, <2>4, <2>5, <2>6 DEF Next
<1>3. Inv /\ CrossesAhead => NoRestingCross
  BY DEF Inv, LoopSound, CrossesAhead, NoRestingCross
<1> QED BY InvHolds, ActiveSetExact, <1>1, <1>2, <1>3, PTL DEF Spec

\* The unrealized profit matches positions and last ticks after every step,
\* also between two fills of one tick.
THEOREM UnrealizedNeverStale == Spec => []UnrealizedFresh
<1>1. Init => UnrealizedFresh
  BY DEF Init, UnrealizedFresh, Unrealized, NewAccount
<1>2. Inv /\ UnrealizedFresh /\ [Next]_vars => UnrealizedFresh'
  <2> SUFFICES ASSUME Inv, UnrealizedFresh, [Next]_vars PROVE UnrealizedFresh'
    OBVIOUS
  <2>1. ASSUME NEW id \in OrderIds, NEW order \in Order, NEW tick \in Tick,
               order.traded = 0, order.volume > 0, Fill(id, order, tick), UNCHANGED last_ticks
        PROVE  UnrealizedFresh'
    <3>1. account'.unrealized_pnl = Unrealized(positions', last_ticks)
      BY <2>1, FillStep DEF Inv
    <3> QED BY <2>1, <3>1 DEF UnrealizedFresh
  <2>2. CASE UNCHANGED <<account, positions, last_ticks>>
    BY <2>2 DEF UnrealizedFresh
  <2>3. ASSUME NEW tick \in Ticks, TickArrives(tick) PROVE UnrealizedFresh'
    BY <2>3 DEF TickArrives, UnrealizedFresh, Inv, TypeOK, Account
  <2>4. CASE UNCHANGED <<trades, positions>> /\ ~(\E tick \in Ticks : TickArrives(tick))
    <3>1. ASSUME NEW id \in OrderIds, NEW order, NEW tick PROVE ~Fill(id, order, tick)
      BY <2>4, FillAddsTrade
    <3>2. UNCHANGED <<account, positions, last_ticks>>
      BY <2>4, <3>1 DEF Next, SubmitOrder, SubmitRefused, SubmitAccepted, CancelOrder,
                        MatchNext, TickDone, book, vars
    <3> QED BY <2>2, <3>2
  <2> QED BY <2>1, <2>3, <2>4, FillOrNone
<1> QED BY InvHolds, <1>1, <1>2, PTL DEF Spec

\* What the callbacks were told, and whether the account part is owed.
PublishedSoFar ==
    /\ published.orders = orders
    /\ published.positions = positions
    /\ Idle => published.account = account

\* A client that stores every event has the engine's state between calls.
THEOREM EventsSuffice == Spec => []EventsComplete
<1>1. Init => PublishedSoFar
  BY DEF Init, PublishedSoFar
<1>2. Inv /\ PublishedSoFar /\ [Next]_vars => PublishedSoFar'
  <2> SUFFICES ASSUME Inv, PublishedSoFar, [Next]_vars PROVE PublishedSoFar'
    OBVIOUS
  <2> USE DEF PublishedSoFar
  <2>1. ASSUME NEW id \in OrderIds, NEW order \in Order, NEW tick \in Tick,
               order.traded = 0, order.volume > 0, Fill(id, order, tick)
        PROVE  PublishedSoFar'
    <3> DEFINE filled == Booked(order, TradeOf(id, order, tick).volume)
               p == PositionAfter(positions[order.vt_symbol], TradeOf(id, order, tick))
    <3>1. /\ orders' = [orders EXCEPT ![id] = filled]
          /\ positions' = [positions EXCEPT ![order.vt_symbol] = p]
          /\ published' = [orders |-> [published.orders EXCEPT ![id] = orders'[id]],
                           positions |-> [published.positions EXCEPT
                                            ![order.vt_symbol] = positions'[order.vt_symbol]],
                           account |-> account']
      BY <2>1 DEF Fill
    <3>2. order.vt_symbol \in Symbols
      BY DEF Order
    <3>3. orders'[id] = filled /\ positions'[order.vt_symbol] = p
      BY <3>1, <3>2 DEF Inv, TypeOK
    <3> HIDE DEF filled, p
    <3> QED BY <3>1, <3>3
  <2>2. ASSUME NEW id, NEW order, Store(id, order), UNCHANGED <<positions, account, current>>
        PROVE  PublishedSoFar'
    BY <2>2 DEF Store, Inv, TypeOK, Idle
  <2>3. ASSUME NEW id \in OrderIds, NEW req \in Requests, SubmitOrder(id, req),
               UNCHANGED <<trades, positions>>
        PROVE  PublishedSoFar'
    <3>1. ASSUME NEW order, NEW tick PROVE ~Fill(id, order, tick)
      BY <2>3, FillAddsTrade
    <3> QED BY <2>2, <2>3, <3>1 DEF SubmitOrder, SubmitRefused, SubmitAccepted
  <2>4. ASSUME NEW id \in OrderIds, CancelOrder(id) PROVE PublishedSoFar'
    BY <2>2, <2>4 DEF CancelOrder
  <2>5. ASSUME NEW tick \in Ticks, TickArrives(tick) PROVE PublishedSoFar'
    BY <2>5, ConfigAssumption DEF TickArrives, Idle, Tick
  <2>6. ASSUME NEW id \in OrderIds, MatchNext(id), UNCHANGED <<trades, positions>>
        PROVE  PublishedSoFar'
    <3>1. ~Fill(id, orders[id], last_ticks[current])
      BY <2>6, FillAddsTrade
    <3> QED BY <2>6, <3>1 DEF MatchNext, book, Idle
  <2>7. CASE TickDone
    BY <2>7 DEF TickDone, book, Inv, TypeOK
  <2>8. CASE UNCHANGED vars
    BY <2>8 DEF vars, book, Idle
  <2> QED BY <2>1, <2>3, <2>4, <2>5, <2>6, <2>7, <2>8, FillOrNone DEF Next
<1>3. Inv /\ PublishedSoFar => EventsComplete
  <2> SUFFICES ASSUME Inv, PublishedSoFar, Idle
               PROVE  published = [orders |-> orders, positions |-> positions, account |-> account]
    BY DEF EventsComplete
  <2> QED BY DEF Inv, TypeOK, PublishedSoFar
<1> QED BY InvHolds, <1>1, <1>2, <1>3, PTL DEF Spec

-----------------------------------------------------------------------------
(* SimulationEngine implements OrderMatching, for all symbols, order ids,   *)
(* ticks and requests: the arrival of a tick is its abstract moment, each   *)
(* turn of the loop only catches up with it.                                *)

-----------------------------------------------------------------------------
(* The rules that both specifications share.                                *)

\* The operators of OrderMatching are those of SimulationRules.
LEMMA SameRules ==
    /\ Promise!NoPosition = NoPosition /\ Promise!Terminal = Terminal
    /\ \A order : Promise!Remaining(order) = Remaining(order)
    /\ \A req, status : Promise!NewOrder(req, status) = NewOrder(req, status)
    /\ \A req, position : Promise!Refused(req, position) = Refused(req, position)
    /\ \A order, tick : Promise!CanMatch(order, tick) = CanMatch(order, tick)
    /\ \A order, fill : Promise!Booked(order, fill) = Booked(order, fill)
    /\ \A id, order, tick : Promise!TradeOf(id, order, tick) = TradeOf(id, order, tick)
BY DEF Promise!NoPosition, NoPosition, Promise!Terminal, Terminal, Promise!Remaining, Remaining,
   Promise!NewOrder, NewOrder, Promise!Refused, Refused, Promise!Closable, Closable,
   Promise!CanMatch, CanMatch, Promise!Executable, Executable, Promise!OppositeQuote, OppositeQuote,
   Promise!Booked, Booked, Promise!TradeOf, TradeOf, Promise!MatchPrice, MatchPrice,
   Promise!ApplySlippage, ApplySlippage, Promise!OrElse, OrElse

\* So a tick reaches an order there exactly when the order can match it here.
LEMMA SameReach ==
    /\ \A tick, order : Promise!Reaches(tick, order) <=>
         order # NoOrder /\ tick # NoTick /\ order.vt_symbol = tick.vt_symbol /\ CanMatch(order, tick)
    /\ \A tick, order : Promise!After(tick, order) =
         IF Promise!Reaches(tick, order) THEN Booked(order, Remaining(order)) ELSE order
BY SameRules DEF Promise!Reaches, Promise!After

-----------------------------------------------------------------------------
(* The abstract state.                                                      *)

\* The last tick of a symbol is a tick of that symbol.
OwnTicks == \A s \in Symbols : last_ticks[s] # NoTick => last_ticks[s].vt_symbol = s

Sound == Inv /\ ActiveIffOpen /\ OwnTicks

\* Between calls, and at the end of the loop, nothing is ahead of it.
LEMMA AbstractWhenDone ==
    ASSUME Inv, active_ids = {}
    PROVE  bookAtTick = orders /\ fillsAtTick = {trades[i] : i \in DOMAIN trades}
<1>1. \A o \in OrderIds : ~Ahead(o)
  BY DEF Ahead
<1>2. bookAtTick = [o \in OrderIds |-> orders[o]]
  BY <1>1 DEF bookAtTick
<1>3. fillsAtTick = {trades[i] : i \in DOMAIN trades}
  BY <1>1 DEF fillsAtTick
<1> QED BY <1>2, <1>3 DEF Inv, TypeOK

\* The same after a step.
LEMMA AbstractWhenDoneNext ==
    ASSUME Inv', active_ids' = {}
    PROVE  bookAtTick' = orders' /\ fillsAtTick' = {trades'[i] : i \in DOMAIN trades'}
<1>1. \A o \in OrderIds : ~Ahead(o)'
  BY DEF Ahead
<1>2. bookAtTick' = [o \in OrderIds |-> orders'[o]]
  BY <1>1 DEF bookAtTick
<1>3. fillsAtTick' = {trades'[i] : i \in DOMAIN trades'}
  BY <1>1 DEF fillsAtTick
<1> QED BY <1>2, <1>3 DEF Inv, TypeOK

\* The trades as a set, with one more.
LEMMA OneMoreTrade ==
    ASSUME NEW s \in Seq(Trade), NEW t \in Trade, NEW u, u = Append(s, t)
    PROVE  {u[i] : i \in DOMAIN u} = {s[i] : i \in DOMAIN s} \union {t}
<1>1. DOMAIN u = DOMAIN s \union {Len(s) + 1} /\ DOMAIN s = 1 .. Len(s) /\ Len(s) \in Nat
  OBVIOUS
<1>2. u[Len(s) + 1] = t /\ \A i \in DOMAIN s : u[i] = s[i]
  OBVIOUS
<1> QED BY <1>1, <1>2

\* The trades of the engine after a fill.
LEMMA TradesAfterFill ==
    ASSUME Inv, NEW trade \in Trade, trades' = Append(trades, trade)
    PROVE  {trades'[i] : i \in DOMAIN trades'} = {trades[i] : i \in DOMAIN trades} \union {trade}
<1>1. trades \in Seq(Trade)
  BY DEF Inv, TypeOK
<1> QED BY <1>1, OneMoreTrade

-----------------------------------------------------------------------------
(* One step of the engine is one abstract step, or none.                    *)

\* A submission is a submission of the promise.
LEMMA SubmitMatches ==
    ASSUME Sound, Inv', NEW id \in OrderIds, NEW req \in Requests, SubmitOrder(id, req)
    PROVE  Promise!Reject(id, req) \/ Promise!Place(id, req)
<1> USE DEF Sound
<1>1. /\ active_ids = {} /\ active_ids' = {} /\ UNCHANGED last_ticks /\ orders[id] = NoOrder
      /\ req.vt_symbol \in Symbols /\ req.volume \in Int
  BY ConfigAssumption DEF SubmitOrder, Inv, LoopSound, OrderRequest
<1>2. /\ bookAtTick = orders /\ fillsAtTick = {trades[i] : i \in DOMAIN trades}
      /\ bookAtTick' = orders' /\ fillsAtTick' = {trades'[i] : i \in DOMAIN trades'}
  BY <1>1, AbstractWhenDone, AbstractWhenDoneNext
<1>3. CASE SubmitRefused(id, req)
  <2>1. Refused(req, NoPosition)
    <3>1. positions[req.vt_symbol] \in Position /\ Forgets(positions[req.vt_symbol])
      BY <1>1 DEF Inv, TypeOK, FlatSideForgets
    <3> QED BY <1>1, <1>3, <3>1 DEF SubmitRefused, Refused, Closable, Forgets, NoPosition, Position
  <2>2. orders' = [orders EXCEPT ![id] = NewOrder(req, "REJECTED")] /\ UNCHANGED trades
    BY <1>3 DEF SubmitRefused, Store
  <2>3. Promise!Reject(id, req)
    BY <1>1, <1>2, <2>1, <2>2, SameRules DEF Promise!Reject
  <2> QED BY <2>3
<1>4. CASE SubmitAccepted(id, req)
  <2> DEFINE order == NewOrder(req, "NOT_TRADED")
             tick == last_ticks[req.vt_symbol]
             matches == tick # NoTick /\ CanMatch(order, tick)
  <2>1. order \in Order /\ order.vt_symbol = req.vt_symbol /\ order # NoOrder
    BY NewOrderType, ConfigAssumption DEF OrderStatus, NewOrder
  <2>2. req.volume > 0
    BY <1>1, <1>4 DEF SubmitAccepted, Refused
  <2>3. Promise!Reaches(tick, order) <=> matches
    BY <1>1, <2>1, SameReach DEF OwnTicks
  <2>4. CASE matches /\ Fill(id, order, tick)
    <3>1. tick \in Tick
      BY <1>1, <2>4 DEF Inv, TypeOK
    <3> DEFINE trade == TradeOf(id, order, tick)
    <3>2. /\ orders' = [orders EXCEPT ![id] = Booked(order, trade.volume)]
          /\ trades' = Append(trades, trade)
      BY <2>4 DEF Fill
    <3>3. trade \in Trade /\ trade.volume = Remaining(order)
      BY <2>1, <3>1, TradeOfType DEF TradeOf
    <3>4. fillsAtTick' = fillsAtTick \union {trade}
      <4> HIDE DEF trade
      <4> QED BY <1>2, <3>2, <3>3, TradesAfterFill
    <3>5. Promise!After(tick, order) = Booked(order, Remaining(order))
      BY <2>3, <2>4, SameReach
    <3> HIDE DEF trade, order, tick
    <3>6. bookAtTick' = [bookAtTick EXCEPT ![id] = Promise!After(tick, order)]
      BY <1>2, <3>2, <3>3, <3>5
    <3>7. Promise!Reaches(tick, order)
      BY <2>3, <2>4
    <3> QED BY <1>1, <1>2, <2>2, <3>4, <3>6, <3>7, SameRules DEF Promise!Place, trade, order, tick
  <2>5. CASE /\ ~matches /\ Store(id, order) /\ UNCHANGED trades
    <3>1. orders' = [orders EXCEPT ![id] = order]
      BY <2>5 DEF Store
    <3>2. Promise!After(tick, order) = order /\ ~Promise!Reaches(tick, order)
      BY <2>3, <2>5, SameReach
    <3>3. fillsAtTick' = fillsAtTick
      BY <1>2, <2>5
    <3> HIDE DEF order, tick
    <3>4. bookAtTick' = [bookAtTick EXCEPT ![id] = Promise!After(tick, order)]
      BY <1>2, <3>1, <3>2
    <3> QED BY <1>1, <1>2, <2>2, <3>2, <3>3, <3>4, SameRules DEF Promise!Place, order, tick
  <2> QED BY <1>4, <2>4, <2>5 DEF SubmitAccepted
<1> QED BY <1>3, <1>4 DEF SubmitOrder

\* A cancel is a cancel of the promise.
LEMMA CancelMatches ==
    ASSUME Sound, Inv', NEW id \in OrderIds, CancelOrder(id)
    PROVE  Promise!Cancel(id)
<1> USE DEF Sound
<1>1. active_ids = {} /\ active_ids' = {} /\ UNCHANGED <<last_ticks, trades>>
  BY DEF CancelOrder, Inv, LoopSound
<1>2. /\ bookAtTick = orders /\ fillsAtTick = {trades[i] : i \in DOMAIN trades}
      /\ bookAtTick' = orders' /\ fillsAtTick' = {trades'[i] : i \in DOMAIN trades'}
  BY <1>1, AbstractWhenDone, AbstractWhenDoneNext
<1> QED BY <1>1, <1>2, SameRules DEF CancelOrder, Store, Promise!Cancel

\* The tick reaches exactly the orders that are now ahead of the loop.
LEMMA TickMatches ==
    ASSUME Sound, NEW tick \in Ticks, TickArrives(tick)
    PROVE  Promise!Quote(tick)
<1> USE DEF Sound
<1>1. /\ active_ids = {} /\ active_ids' = active_order_ids /\ current' = tick.vt_symbol
      /\ UNCHANGED <<orders, trades>> /\ last_ticks' = [last_ticks EXCEPT ![tick.vt_symbol] = tick]
  BY DEF TickArrives, Inv, LoopSound
<1>2. bookAtTick = orders /\ fillsAtTick = {trades[i] : i \in DOMAIN trades}
  BY <1>1, AbstractWhenDone
<1>3. last_ticks'[current'] = tick /\ tick # NoTick
  BY <1>1, ConfigAssumption DEF Inv, TypeOK, Tick
<1>4. \A o \in OrderIds : Ahead(o)' <=> Promise!Reaches(tick, orders[o])
  <2> SUFFICES ASSUME NEW o \in OrderIds PROVE Ahead(o)' <=> Promise!Reaches(tick, orders[o])
    OBVIOUS
  <2>1. Ahead(o)' <=> /\ o \in active_order_ids /\ orders[o].vt_symbol = tick.vt_symbol
                      /\ CanMatch(orders[o], tick)
    BY <1>1, <1>3 DEF Ahead
  <2>2. CanMatch(orders[o], tick) /\ orders[o] # NoOrder => o \in active_order_ids
    BY DEF CanMatch, ActiveIffOpen, Terminal
  <2>3. o \in active_order_ids => orders[o] # NoOrder
    BY DEF ActiveIffOpen
  <2> QED BY <1>3, <2>1, <2>2, <2>3, SameReach
<1>5. bookAtTick' = [o \in OrderIds |-> Promise!After(tick, bookAtTick[o])]
  <2>1. \A o \in OrderIds :
          (IF Ahead(o)' THEN Booked(orders[o], Remaining(orders[o])) ELSE orders[o])
            = Promise!After(tick, orders[o])
    BY <1>4, SameReach
  <2>2. bookAtTick' = [o \in OrderIds |->
          IF Ahead(o)' THEN Booked(orders[o], Remaining(orders[o])) ELSE orders[o]]
    BY <1>1 DEF bookAtTick
  <2> QED BY <1>2, <2>1, <2>2
<1>6. fillsAtTick' = fillsAtTick \union
        {Promise!TradeOf(o, bookAtTick[o], tick) :
           o \in {x \in OrderIds : Promise!Reaches(tick, bookAtTick[x])}}
  <2>1. fillsAtTick' = {trades[i] : i \in DOMAIN trades}
          \union {TradeOf(o, orders[o], tick) : o \in {x \in OrderIds : Ahead(x)'}}
    BY <1>1, <1>3 DEF fillsAtTick
  <2>2. {x \in OrderIds : Ahead(x)'} = {x \in OrderIds : Promise!Reaches(tick, orders[x])}
    BY <1>4
  <2> QED BY <1>2, <2>1, <2>2, SameRules
<1> QED BY <1>1, <1>5, <1>6 DEF Promise!Quote

\* A turn of the loop only does what has been promised.
LEMMA MatchStutters ==
    ASSUME Sound, NEW id \in OrderIds, MatchNext(id)
    PROVE  UNCHANGED <<bookAtTick, last_ticks, fillsAtTick>>
<1> USE DEF Sound
<1>1. id \in active_ids /\ active_ids' = active_ids \ {id} /\ UNCHANGED <<last_ticks, current>>
  BY DEF MatchNext
<1> DEFINE order == orders[id]
           tick == last_ticks[current]
           trade == TradeOf(id, order, tick)
<1>2. CASE order.vt_symbol = current /\ CanMatch(order, tick) /\ Fill(id, order, tick)
  <2>1. order \in Order /\ tick \in Tick
    BY <1>2, MatchNextOperands
  <2>2. trade \in Trade /\ trade.volume = Remaining(order)
    BY <2>1, TradeOfType DEF TradeOf
  <2>3. /\ orders' = [orders EXCEPT ![id] = Booked(order, Remaining(order))]
        /\ trades' = Append(trades, trade)
    BY <1>2, <2>2 DEF Fill
  <2>4. Ahead(id) /\ ~Ahead(id)' /\ orders'[id] = Booked(order, Remaining(order))
    BY <1>1, <1>2, <2>3 DEF Ahead, Inv, TypeOK
  <2>5. \A o \in OrderIds \ {id} : orders'[o] = orders[o] /\ (Ahead(o)' <=> Ahead(o))
    BY <1>1, <2>3 DEF Ahead, Inv, TypeOK
  <2>6. bookAtTick' = bookAtTick
    <3>1. \A o \in OrderIds :
            (IF Ahead(o)' THEN Booked(orders'[o], Remaining(orders'[o])) ELSE orders'[o])
              = IF Ahead(o) THEN Booked(orders[o], Remaining(orders[o])) ELSE orders[o]
      BY <2>4, <2>5
    <3> QED BY <3>1 DEF bookAtTick
  <2>7. fillsAtTick' = fillsAtTick
    <3>1. {trades'[i] : i \in DOMAIN trades'} = {trades[i] : i \in DOMAIN trades} \union {trade}
      <4> HIDE DEF trade
      <4> QED BY <2>2, <2>3, TradesAfterFill
    <3>2. {x \in OrderIds : Ahead(x)} = {x \in OrderIds : Ahead(x)'} \union {id}
      BY <2>4, <2>5
    <3>3. \A o \in {x \in OrderIds : Ahead(x)'} : orders'[o] = orders[o]
      BY <2>4, <2>5
    <3>4. fillsAtTick' = {trades'[i] : i \in DOMAIN trades'} \union
            {TradeOf(o, orders[o], tick) : o \in {x \in OrderIds : Ahead(x)'}}
      BY <1>1, <3>3 DEF fillsAtTick
    <3>5. {TradeOf(o, orders[o], tick) : o \in {x \in OrderIds : Ahead(x)}} =
            {TradeOf(o, orders[o], tick) : o \in {x \in OrderIds : Ahead(x)'}} \union {trade}
      BY <3>2
    <3> QED BY <3>1, <3>4, <3>5 DEF fillsAtTick
  <2> QED BY <1>1, <2>6, <2>7
<1>3. CASE ~(order.vt_symbol = current /\ CanMatch(order, tick)) /\ UNCHANGED <<book, published>>
  <2>1. UNCHANGED <<orders, trades, last_ticks, current>>
    BY <1>1, <1>3 DEF book
  <2>2. \A o \in OrderIds : Ahead(o)' <=> Ahead(o)
    BY <1>1, <1>3, <2>1 DEF Ahead
  <2> QED BY <2>1, <2>2 DEF bookAtTick, fillsAtTick
<1> QED BY <1>2, <1>3 DEF MatchNext

-----------------------------------------------------------------------------

\* Ticks are stored under their own symbols.
LEMMA OwnTicksHolds == Spec => []OwnTicks
<1>1. Init => OwnTicks
  BY DEF Init, OwnTicks
<1>2. Inv /\ OwnTicks /\ [Next]_vars => OwnTicks'
  <2> SUFFICES ASSUME Inv, OwnTicks, [Next]_vars PROVE OwnTicks'
    OBVIOUS
  <2>1. CASE \E tick \in Ticks : TickArrives(tick)
    BY <2>1, ConfigAssumption DEF TickArrives, OwnTicks, Inv, TypeOK, Tick
  <2>2. CASE UNCHANGED last_ticks
    BY <2>2 DEF OwnTicks
  <2> QED BY <2>1, <2>2 DEF Next, vars, SubmitOrder, CancelOrder, MatchNext, TickDone
<1> QED BY InvHolds, <1>1, <1>2, PTL DEF Spec

\* on_tick is as good as atomic: whatever the order in which it visits the active
\* ids, each tick executes what it reaches at its own price, and every order is
\* treated as OrderMatching says.
THEOREM TicksAreMoments == Spec => AtTheTick
<1>1. Init => Promise!Init
  <2> SUFFICES ASSUME Init PROVE Promise!Init
    OBVIOUS
  <2>1. Inv /\ active_ids = {}
    BY InitInv DEF Init
  <2>2. bookAtTick = orders /\ fillsAtTick = {trades[i] : i \in DOMAIN trades}
    BY <2>1, AbstractWhenDone
  <2> QED BY <2>2 DEF Init, Promise!Init
<1>2. Sound /\ Inv' /\ [Next]_vars => [Promise!Next]_(Promise!vars)
  <2> SUFFICES ASSUME Sound, Inv', [Next]_vars
               PROVE  Promise!Next \/ UNCHANGED <<bookAtTick, last_ticks, fillsAtTick>>
    BY DEF Promise!vars
  <2>1. ASSUME NEW id \in OrderIds, NEW req \in Requests, SubmitOrder(id, req) PROVE Promise!Next
    BY <2>1, SubmitMatches DEF Promise!Next
  <2>2. ASSUME NEW id \in OrderIds, CancelOrder(id) PROVE Promise!Next
    BY <2>2, CancelMatches DEF Promise!Next
  <2>3. ASSUME NEW tick \in Ticks, TickArrives(tick) PROVE Promise!Next
    BY <2>3, TickMatches DEF Promise!Next
  <2>4. CASE TickDone
    <3>1. active_ids = {} /\ active_ids' = {} /\ UNCHANGED <<orders, trades, last_ticks>>
      BY <2>4 DEF TickDone, book
    <3> QED BY <3>1, AbstractWhenDone, AbstractWhenDoneNext DEF Sound
  <2>5. CASE UNCHANGED vars
    BY <2>5 DEF vars, book, bookAtTick, fillsAtTick, Ahead
  <2> QED BY <2>1, <2>2, <2>3, <2>4, <2>5, MatchStutters DEF Next
<1> QED BY InvHolds, ActiveSetExact, OwnTicksHolds, <1>1, <1>2, PTL DEF Spec, Sound, AtTheTick, Promise!Spec

-----------------------------------------------------------------------------
(* Average-cost accounting and the cash of the trades: sums over the        *)
(* recorded trades and over the symbols.                                    *)

AddValue(f, acc, x) == f[x] + acc
Nothing(f) == 0
V == INSTANCE FoldLemmas WITH op <- AddValue, base <- Nothing

\* A sum over a set is a fold over it.
LEMMA SumIsFold == \A f, S : SumFunctionOnSet(f, S) = V!FoldOver(f, S)
BY DEF SumFunctionOnSet, FoldFunctionOnSet, MapThenFoldSet, V!FoldOver, V!MapThenFoldSet, AddValue, Nothing

\* Finite here is finite in the lemmas on folds.
LEMMA Finite == \A S : IsFiniteSet(S) => V!IsFiniteSet(S)
BY DEF IsFiniteSet, V!IsFiniteSet

\* The sum over a set, and the sum when one more is in the set.
LEMMA SumWith ==
    ASSUME NEW D, NEW f \in [D -> Int], NEW S \in SUBSET D, IsFiniteSet(S)
    PROVE  /\ SumFunctionOnSet(f, S) \in Int
           /\ \A x \in D \ S : SumFunctionOnSet(f, S \union {x}) = SumFunctionOnSet(f, S) + f[x]
<1>1. V!Commutes(f, Int, D)
  BY DEF V!Commutes, AddValue, Nothing
<1>2. SumFunctionOnSet(f, S) \in Int
  BY <1>1, Finite, SumIsFold, V!FoldOverAny
<1>3. ASSUME NEW x \in D \ S
      PROVE  SumFunctionOnSet(f, S \union {x}) = SumFunctionOnSet(f, S) + f[x]
  <2>1. IsFiniteSet(S \union {x}) /\ (S \union {x}) \in SUBSET D /\ (S \union {x}) \ {x} = S
    BY FS_AddElement
  <2>2. \A y \in S \union {x} : V!FoldOver(f, S \union {x}) = AddValue(f, V!FoldOver(f, (S \union {x}) \ {y}), y)
    BY <1>1, <2>1, Finite, V!FoldOverAny
  <2>3. SumFunctionOnSet(f, S \union {x}) = AddValue(f, SumFunctionOnSet(f, S), x)
    BY <2>1, <2>2, SumIsFold
  <2> QED
    BY <1>2, <2>3 DEF AddValue
<1> QED
  BY <1>2, <1>3

\* Only the values in the set matter to its sum.
LEMMA SumAgrees ==
    ASSUME NEW f, NEW g, NEW S, IsFiniteSet(S), \A x \in S : f[x] = g[x]
    PROVE  SumFunctionOnSet(f, S) = SumFunctionOnSet(g, S)
<1>1. V!Alike(f, g, S)
  BY DEF V!Alike, AddValue, Nothing
<1> QED
  BY <1>1, Finite, SumIsFold, V!FoldOverAlike

\* The sum over nothing.
LEMMA SumOfNone == \A f : SumFunctionOnSet(f, {}) = 0
BY SumIsFold, V!FoldOverEmpty DEF Nothing

\* A sum over the symbols of which one has changed.
LEMMA SumWithOneChanged ==
    ASSUME NEW f \in [Symbols -> Int], NEW s \in Symbols, NEW v \in Int
    PROVE  /\ SumFunctionOnSet(f, Symbols) \in Int
           /\ SumFunctionOnSet([f EXCEPT ![s] = v], Symbols) = SumFunctionOnSet(f, Symbols) - f[s] + v
<1> DEFINE g == [f EXCEPT ![s] = v]
           others == Symbols \ {s}
<1>1. g \in [Symbols -> Int] /\ g[s] = v /\ \A x \in others : f[x] = g[x]
  OBVIOUS
<1>2. IsFiniteSet(others) /\ IsFiniteSet(Symbols) /\ others \in SUBSET Symbols /\ others \union {s} = Symbols /\ s \in Symbols \ others
  BY SymbolsAreFinite, FS_Subset
<1> HIDE DEF g, others
<1>3. /\ SumFunctionOnSet(f, others) \in Int
      /\ SumFunctionOnSet(f, others \union {s}) = SumFunctionOnSet(f, others) + f[s]
  BY <1>2, SumWith
<1>4. SumFunctionOnSet(g, others \union {s}) = SumFunctionOnSet(g, others) + g[s]
  BY <1>1, <1>2, SumWith
<1>5. SumFunctionOnSet(f, others) = SumFunctionOnSet(g, others)
  BY <1>1, <1>2, SumAgrees
<1>6. f[s] \in Int
  OBVIOUS
<1>7. /\ SumFunctionOnSet(f, Symbols) \in Int
      /\ SumFunctionOnSet(g, Symbols) = SumFunctionOnSet(f, Symbols) - f[s] + v
  <2>1. SumFunctionOnSet(f, Symbols) = SumFunctionOnSet(f, others) + f[s]
    BY <1>2, <1>3
  <2>2. SumFunctionOnSet(g, Symbols) = SumFunctionOnSet(f, others) + v
    BY <1>1, <1>2, <1>4, <1>5
  <2> QED
    BY <1>3, <1>6, <2>1, <2>2
<1> QED
  BY <1>7 DEF g

\* The sum over a set of the trades goes on when one more is recorded.
LEMMA SumsGrow ==
    ASSUME NEW n \in Nat, NEW f \in [1 .. n -> Int], NEW g \in [1 .. n + 1 -> Int],
           \A i \in 1 .. n : g[i] = f[i], NEW S \in SUBSET (1 .. n)
    PROVE  /\ SumFunctionOnSet(f, S) \in Int
           /\ SumFunctionOnSet(g, S) = SumFunctionOnSet(f, S)
           /\ SumFunctionOnSet(g, S \union {n + 1}) = SumFunctionOnSet(f, S) + g[n + 1]
<1> DEFINE D == 1 .. n + 1
<1>1. IsFiniteSet(S)
  <2>1. IsFiniteSet(1 .. n)
    BY FS_Interval
  <2> QED
    BY <2>1, FS_Subset
<1>2. S \in SUBSET D /\ n + 1 \in D \ S /\ g \in [D -> Int]
  OBVIOUS
<1> HIDE DEF D
<1>3. SumFunctionOnSet(f, S) \in Int
  BY <1>1, SumWith
<1>4. SumFunctionOnSet(g, S) = SumFunctionOnSet(f, S)
  BY <1>1, SumAgrees
<1>5. SumFunctionOnSet(g, S \union {n + 1}) = SumFunctionOnSet(g, S) + g[n + 1]
  <2> DEFINE x == n + 1
  <2>1. x \in D \ S
    BY <1>2
  <2> HIDE DEF x
  <2>2. \A y \in D \ S : SumFunctionOnSet(g, S \union {y}) = SumFunctionOnSet(g, S) + g[y]
    BY <1>1, <1>2, SumWith
  <2>3. SumFunctionOnSet(g, S \union {x}) = SumFunctionOnSet(g, S) + g[x]
    BY <2>1, <2>2
  <2> QED
    BY <2>3 DEF x
<1> QED
  BY <1>3, <1>4, <1>5

-----------------------------------------------------------------------------
(* What a trade does to the sums, and to its position.                      *)

\* What is sold less what is bought.
Side(d) == {i \in DOMAIN trades : trades[i].direction = d}
Flow(trade) == IF trade.direction = "SHORT" THEN trade.price * trade.volume ELSE -(trade.price * trade.volume)
Sold == CashOf(Side("SHORT")) - CashOf(Side("LONG"))

\* The volumes and the cash of the trades of one kind when a trade is recorded.
LEMMA TradeCounted ==
    ASSUME trades \in Seq(Trade), NEW t \in Trade, trades' = Append(trades, t)
    PROVE  /\ \A s, o, d : /\ VolumeOf(TradesWith(s, o, d)) \in Int
                           /\ VolumeOf(TradesWith(s, o, d))' = VolumeOf(TradesWith(s, o, d))
                                 + (IF t.vt_symbol = s /\ t.offset = o /\ t.direction = d THEN t.volume ELSE 0)
           /\ Sold \in Int /\ Sold' = Sold + Flow(t)
<1> DEFINE n == Len(trades)
<1>1. /\ n \in Nat /\ DOMAIN trades = 1 .. n /\ DOMAIN trades' = 1 .. n + 1
      /\ \A i \in 1 .. n : trades[i] \in Trade /\ trades'[i] = trades[i]
      /\ trades'[n + 1] = t
  OBVIOUS
<1> HIDE DEF n
<1>2. /\ Volumes \in [1 .. n -> Int] /\ Volumes' \in [1 .. n + 1 -> Int]
      /\ \A i \in 1 .. n : Volumes'[i] = Volumes[i]
      /\ Volumes'[n + 1] = t.volume /\ t.volume \in Int
  BY <1>1 DEF Volumes, Trade
<1>3. /\ Values \in [1 .. n -> Int] /\ Values' \in [1 .. n + 1 -> Int]
      /\ \A i \in 1 .. n : Values'[i] = Values[i]
      /\ Values'[n + 1] = t.price * t.volume /\ t.price * t.volume \in Int
  <2>1. \A i \in 1 .. n + 1 : trades'[i] \in Trade
    BY <1>1
  <2>2. \A i \in 1 .. n : Values[i] = trades[i].price * trades[i].volume
    BY <1>1 DEF Values
  <2>3. \A i \in 1 .. n + 1 : Values'[i] = trades'[i].price * trades'[i].volume
    BY <1>1 DEF Values
  <2>4. \A x \in Trade : x.price * x.volume \in Int
    BY DEF Trade
  <2>5. Values \in [1 .. n -> Int]
    BY <1>1, <2>4 DEF Values
  <2>6. Values' \in [1 .. n + 1 -> Int]
    BY <1>1, <2>1, <2>4 DEF Values
  <2> QED
    BY <1>1, <2>2, <2>3, <2>4, <2>5, <2>6
<1>4. ASSUME NEW s, NEW o, NEW d
      PROVE  /\ VolumeOf(TradesWith(s, o, d)) \in Int
             /\ VolumeOf(TradesWith(s, o, d))' = VolumeOf(TradesWith(s, o, d))
                   + (IF t.vt_symbol = s /\ t.offset = o /\ t.direction = d THEN t.volume ELSE 0)
  <2> DEFINE S == TradesWith(s, o, d)
             is == t.vt_symbol = s /\ t.offset = o /\ t.direction = d
  <2>1. S \in SUBSET (1 .. n) /\ S' = IF is THEN S \union {n + 1} ELSE S
    BY <1>1 DEF TradesWith
  <2> HIDE DEF S, is
  <2>2. /\ SumFunctionOnSet(Volumes, S) \in Int
        /\ SumFunctionOnSet(Volumes', S) = SumFunctionOnSet(Volumes, S)
        /\ SumFunctionOnSet(Volumes', S \union {n + 1}) = SumFunctionOnSet(Volumes, S) + Volumes'[n + 1]
    BY <1>1, <1>2, <2>1, SumsGrow
  <2>3. VolumeOf(S) \in Int /\ VolumeOf(S)' = VolumeOf(S) + (IF is THEN t.volume ELSE 0)
    BY <1>2, <2>1, <2>2 DEF VolumeOf
  <2> QED
    BY <2>3 DEF S, is
<1>5. ASSUME NEW d
      PROVE  /\ CashOf(Side(d)) \in Int
             /\ CashOf(Side(d))' = CashOf(Side(d)) + (IF t.direction = d THEN t.price * t.volume ELSE 0)
  <2> DEFINE S == Side(d)
  <2>1. S \in SUBSET (1 .. n) /\ S' = IF t.direction = d THEN S \union {n + 1} ELSE S
    BY <1>1 DEF Side
  <2> HIDE DEF S
  <2>2. /\ SumFunctionOnSet(Values, S) \in Int
        /\ SumFunctionOnSet(Values', S) = SumFunctionOnSet(Values, S)
        /\ SumFunctionOnSet(Values', S \union {n + 1}) = SumFunctionOnSet(Values, S) + Values'[n + 1]
    BY <1>1, <1>3, <2>1, SumsGrow
  <2>3. CashOf(S) \in Int /\ CashOf(S)' = CashOf(S) + (IF t.direction = d THEN t.price * t.volume ELSE 0)
    BY <1>3, <2>1, <2>2 DEF CashOf
  <2> QED
    BY <2>3 DEF S
<1>6. Sold \in Int /\ Sold' = Sold + Flow(t)
  <2>1. t.direction \in {"LONG", "SHORT"}
    BY DEF Trade, Direction
  <2>2. t.price * t.volume \in Int
    BY <1>3
  <2>3. /\ CashOf(Side("SHORT")) \in Int
        /\ CashOf(Side("SHORT"))' = CashOf(Side("SHORT")) + (IF t.direction = "SHORT" THEN t.price * t.volume ELSE 0)
        /\ CashOf(Side("LONG")) \in Int
        /\ CashOf(Side("LONG"))' = CashOf(Side("LONG")) + (IF t.direction = "LONG" THEN t.price * t.volume ELSE 0)
    BY <1>5
  <2> QED
    BY <2>1, <2>2, <2>3 DEF Sold, Flow
<1> QED
  BY <1>4, <1>6

\* A quotient that leaves no rest.
LEMMA ExactQuotient ==
    ASSUME NEW a \in Int, NEW b \in Int, b > 0, a % b = 0
    PROVE  (a \div b) * b = a
OBVIOUS

\* The average of what is held and what is added costs what both cost together.
LEMMA AverageIsExact ==
    ASSUME NEW avg, NEW held, NEW price, NEW volume, NEW cost \in Int, NEW all \in Int, all > 0,
           cost = avg * held + price * volume, all = held + volume, cost % all = 0
    PROVE  AveragePrice(avg, held, price, volume) * all = cost
<1>1. (cost \div all) * all = cost
  BY ExactQuotient
<1> QED
  BY <1>1 DEF AveragePrice

\* The long side and the short side of a position, and what a trade does to them: an opening
\* trade adds to one, a closing trade takes from one no more than its volume.
LEMMA VolumesMove ==
    ASSUME NEW p \in Position, Forgets(p), NEW t \in Trade, t.volume > 0
    PROVE  LET q == PositionAfter(p, t)
               taken == CloseVolume(p, t)
           IN  /\ taken \in Int /\ 0 <= taken /\ taken <= t.volume
               /\ q \in Position /\ Forgets(q)
               /\ q.long_volume = p.long_volume
                     + (IF t.offset = "OPEN" /\ t.direction = "LONG" THEN t.volume ELSE 0)
                     - (IF t.offset = "CLOSE" /\ t.direction = "SHORT" THEN taken ELSE 0)
               /\ q.short_volume = p.short_volume
                     + (IF t.offset = "OPEN" /\ t.direction = "SHORT" THEN t.volume ELSE 0)
                     - (IF t.offset = "CLOSE" /\ t.direction = "LONG" THEN taken ELSE 0)
<1> DEFINE q == PositionAfter(p, t)
           taken == CloseVolume(p, t)
<1>1. taken \in Int /\ 0 <= taken /\ taken <= t.volume /\ taken <= Closable(p, t.direction)
  BY DEF CloseVolume, Closable, Least, Position, Trade, Forgets
<1>2. q \in Position /\ Forgets(q)
  BY PositionAfterSound
<1>3. t.offset \in {"OPEN", "CLOSE"} /\ t.direction \in {"LONG", "SHORT"} /\ t.volume \in Int
  BY DEF Trade, Offset, Direction
<1>4. p.long_volume \in Int /\ p.short_volume \in Int
  BY DEF Position
<1> DEFINE VolumesAdd ==
               /\ q.long_volume = p.long_volume
                     + (IF t.offset = "OPEN" /\ t.direction = "LONG" THEN t.volume ELSE 0)
                     - (IF t.offset = "CLOSE" /\ t.direction = "SHORT" THEN taken ELSE 0)
               /\ q.short_volume = p.short_volume
                     + (IF t.offset = "OPEN" /\ t.direction = "SHORT" THEN t.volume ELSE 0)
                     - (IF t.offset = "CLOSE" /\ t.direction = "LONG" THEN taken ELSE 0)
<1> HIDE DEF taken
<1>5. ASSUME t.offset = "OPEN" PROVE VolumesAdd
  <2>1. q = Opened(p, t)
    BY <1>5 DEF PositionAfter
  <2> HIDE DEF q
  <2>2. CASE t.direction = "LONG"
    <3>1. q.long_volume = p.long_volume + t.volume /\ q.short_volume = p.short_volume
      BY <2>1, <2>2 DEF Opened, Position
    <3> QED
      BY <1>3, <1>4, <1>5, <2>2, <3>1
  <2>3. CASE t.direction = "SHORT"
    <3>1. q.short_volume = p.short_volume + t.volume /\ q.long_volume = p.long_volume
      BY <2>1, <2>3 DEF Opened, Position
    <3> QED
      BY <1>3, <1>4, <1>5, <2>3, <3>1
  <2> QED
    BY <1>3, <2>2, <2>3
<1>6. ASSUME t.offset = "CLOSE" PROVE VolumesAdd
  <2>1. q = Closed(p, t, taken)
    BY <1>6 DEF PositionAfter, taken
  <2> HIDE DEF q
  <2>2. CASE t.direction = "SHORT"
    <3>1. taken <= p.long_volume
      BY <1>1, <2>2 DEF Closable
    <3>2. q.long_volume = p.long_volume - taken /\ q.short_volume = p.short_volume
      BY <1>1, <1>4, <2>1, <2>2, <3>1 DEF Closed, Position
    <3> QED
      BY <1>1, <1>4, <1>6, <2>2, <3>2
  <2>3. CASE t.direction = "LONG"
    <3>1. taken <= p.short_volume
      BY <1>1, <2>3 DEF Closable
    <3>2. q.short_volume = p.short_volume - taken /\ q.long_volume = p.long_volume
      BY <1>1, <1>4, <2>1, <2>3, <3>1 DEF Closed, Position
    <3> QED
      BY <1>1, <1>4, <1>6, <2>3, <3>2
  <2> QED
    BY <1>3, <2>2, <2>3
<1> QED
  BY <1>1, <1>2, <1>3, <1>5, <1>6 DEF taken

\* Differences and products of numbers.
LEMMA Products ==
    ASSUME NEW a \in Int, NEW b \in Int, NEW c \in Int
    PROVE  a * b \in Int /\ (a - b) * c = a * c - b * c /\ a * (b - c) = a * b - a * c
OBVIOUS

\* The profit of a trade that is covered is what it earns beyond what its position cost.
LEMMA ProfitIsFlow ==
    ASSUME NEW p \in Position, Forgets(p), NEW t \in Trade, t.volume > 0,
           t.offset = "OPEN" => Divides(p, t),
           t.offset = "CLOSE" => CloseVolume(p, t) = t.volume
    PROVE  LET q == PositionAfter(p, t)
           IN  /\ CostOf(p) \in Int /\ CostOf(q) \in Int /\ BookedProfit(p, t) \in Int
               /\ BookedProfit(p, t) - CostOf(q) + CostOf(p) = Flow(t)
<1> DEFINE q == PositionAfter(p, t)
           long == p.long_avg_price * p.long_volume
           short == p.short_avg_price * p.short_volume
           money == t.price * t.volume
<1>1. /\ t.offset \in {"OPEN", "CLOSE"} /\ t.direction \in {"LONG", "SHORT"} /\ t.volume \in Int /\ t.price \in Int
      /\ p.long_volume \in Int /\ p.short_volume \in Int /\ p.long_avg_price \in Int /\ p.short_avg_price \in Int
      /\ p.long_volume >= 0 /\ p.short_volume >= 0
  BY DEF Trade, Offset, Direction, Position, Forgets
<1>2. q \in Position
  BY PositionAfterSound
<1>3. long \in Int /\ short \in Int /\ money \in Int /\ CostOf(p) = long - short
  BY <1>1, Products DEF CostOf
<1>4. ASSUME t.offset = "OPEN", t.direction = "LONG"
      PROVE  CostOf(q) = (long + money) - short /\ BookedProfit(p, t) = 0
  <2>1. /\ q.long_volume = p.long_volume + t.volume
        /\ q.long_avg_price = AveragePrice(p.long_avg_price, p.long_volume, t.price, t.volume)
        /\ q.short_volume = p.short_volume /\ q.short_avg_price = p.short_avg_price /\ BookedProfit(p, t) = 0
    BY <1>4 DEF PositionAfter, Opened, Position, BookedProfit
  <2>2. (p.long_avg_price * p.long_volume + t.price * t.volume) % (p.long_volume + t.volume) = 0
    BY <1>4 DEF Divides
  <2>3. q.long_avg_price * q.long_volume = long + money
    <3> DEFINE cost == p.long_avg_price * p.long_volume + t.price * t.volume
               all == p.long_volume + t.volume
    <3>1. cost \in Int /\ all \in Int /\ all > 0 /\ cost % all = 0
      BY <1>1, <1>3, <2>2
    <3> HIDE DEF cost, all
    <3>2. AveragePrice(p.long_avg_price, p.long_volume, t.price, t.volume) * all = cost
      BY <3>1, AverageIsExact DEF cost, all
    <3> QED
      BY <2>1, <3>2 DEF cost, all
  <2>4. CostOf(q) = (long + money) - short
    BY <2>1, <2>3 DEF CostOf
  <2> QED
    BY <2>1, <2>4
<1>5. ASSUME t.offset = "OPEN", t.direction = "SHORT"
      PROVE  CostOf(q) = long - (short + money) /\ BookedProfit(p, t) = 0
  <2>1. /\ q.short_volume = p.short_volume + t.volume
        /\ q.short_avg_price = AveragePrice(p.short_avg_price, p.short_volume, t.price, t.volume)
        /\ q.long_volume = p.long_volume /\ q.long_avg_price = p.long_avg_price /\ BookedProfit(p, t) = 0
    BY <1>5 DEF PositionAfter, Opened, Position, BookedProfit
  <2>2. (p.short_avg_price * p.short_volume + t.price * t.volume) % (p.short_volume + t.volume) = 0
    BY <1>5 DEF Divides
  <2>3. q.short_avg_price * q.short_volume = short + money
    <3> DEFINE cost == p.short_avg_price * p.short_volume + t.price * t.volume
               all == p.short_volume + t.volume
    <3>1. cost \in Int /\ all \in Int /\ all > 0 /\ cost % all = 0
      BY <1>1, <1>3, <2>2
    <3> HIDE DEF cost, all
    <3>2. AveragePrice(p.short_avg_price, p.short_volume, t.price, t.volume) * all = cost
      BY <3>1, AverageIsExact DEF cost, all
    <3> QED
      BY <2>1, <3>2 DEF cost, all
  <2>4. CostOf(q) = long - (short + money)
    BY <2>1, <2>3 DEF CostOf
  <2> QED
    BY <2>1, <2>4
<1>6. ASSUME t.offset = "CLOSE", t.direction = "SHORT"
      PROVE  /\ CostOf(q) = long - p.long_avg_price * t.volume - short
             /\ BookedProfit(p, t) = money - p.long_avg_price * t.volume
  <2>1. q = Closed(p, t, t.volume) /\ t.volume <= p.long_volume
    BY <1>1, <1>6 DEF PositionAfter, CloseVolume, Closable, Least
  <2>2. q.short_volume = p.short_volume /\ q.short_avg_price = p.short_avg_price
    BY <1>6, <2>1 DEF Closed, Position
  <2>3. q.long_avg_price * q.long_volume = long - p.long_avg_price * t.volume
    <3>1. CASE p.long_volume <= t.volume
      <4>1. q.long_volume = 0 /\ q.long_avg_price = 0 /\ p.long_volume = t.volume
        BY <1>1, <1>6, <2>1, <3>1 DEF Closed, Position
      <4> QED
        BY <1>1, <1>3, <4>1
    <3>2. CASE ~(p.long_volume <= t.volume)
      <4>1. q.long_volume = p.long_volume - t.volume /\ q.long_avg_price = p.long_avg_price
        BY <1>1, <1>6, <2>1, <3>2 DEF Closed, Position
      <4> QED
        BY <1>1, <4>1, Products
    <3> QED
      BY <3>1, <3>2
  <2>4. BookedProfit(p, t) = (t.price - p.long_avg_price) * t.volume
    BY <1>6 DEF BookedProfit, Realized
  <2>5. (t.price - p.long_avg_price) * t.volume = money - p.long_avg_price * t.volume
    BY <1>1, Products
  <2> QED
    BY <2>2, <2>3, <2>4, <2>5 DEF CostOf
<1>7. ASSUME t.offset = "CLOSE", t.direction = "LONG"
      PROVE  /\ CostOf(q) = long - (short - p.short_avg_price * t.volume)
             /\ BookedProfit(p, t) = p.short_avg_price * t.volume - money
  <2>1. q = Closed(p, t, t.volume) /\ t.volume <= p.short_volume
    BY <1>1, <1>7 DEF PositionAfter, CloseVolume, Closable, Least
  <2>2. q.long_volume = p.long_volume /\ q.long_avg_price = p.long_avg_price
    BY <1>7, <2>1 DEF Closed, Position
  <2>3. q.short_avg_price * q.short_volume = short - p.short_avg_price * t.volume
    <3>1. CASE p.short_volume <= t.volume
      <4>1. q.short_volume = 0 /\ q.short_avg_price = 0 /\ p.short_volume = t.volume
        BY <1>1, <1>7, <2>1, <3>1 DEF Closed, Position
      <4> QED
        BY <1>1, <1>3, <4>1
    <3>2. CASE ~(p.short_volume <= t.volume)
      <4>1. q.short_volume = p.short_volume - t.volume /\ q.short_avg_price = p.short_avg_price
        BY <1>1, <1>7, <2>1, <3>2 DEF Closed, Position
      <4> QED
        BY <1>1, <4>1, Products
    <3> QED
      BY <3>1, <3>2
  <2>4. BookedProfit(p, t) = (p.short_avg_price - t.price) * t.volume
    BY <1>7 DEF BookedProfit, Realized
  <2>5. (p.short_avg_price - t.price) * t.volume = p.short_avg_price * t.volume - money
    BY <1>1, Products
  <2> QED
    BY <2>2, <2>3, <2>4, <2>5 DEF CostOf
<1>8. p.long_avg_price * t.volume \in Int /\ p.short_avg_price * t.volume \in Int
  BY <1>1, Products
<1>9. Flow(t) = IF t.direction = "SHORT" THEN money ELSE -money
  BY DEF Flow
<1> HIDE DEF q, long, short, money
<1>10. /\ CostOf(p) \in Int /\ CostOf(q) \in Int /\ BookedProfit(p, t) \in Int
       /\ BookedProfit(p, t) - CostOf(q) + CostOf(p) = Flow(t)
  BY <1>1, <1>3, <1>4, <1>5, <1>6, <1>7, <1>8, <1>9
<1> QED
  BY <1>10 DEF q

-----------------------------------------------------------------------------
(* The identity.                                                            *)

\* A position holds what was opened and not closed, or more: a closing trade that found too
\* little to close has taken less than its volume, and that is never made up for.
OpenedLong(s) == VolumeOf(TradesWith(s, "OPEN", "LONG"))
ClosedLong(s) == VolumeOf(TradesWith(s, "CLOSE", "SHORT"))
OpenedShort(s) == VolumeOf(TradesWith(s, "OPEN", "SHORT"))
ClosedShort(s) == VolumeOf(TradesWith(s, "CLOSE", "LONG"))

NothingMissing ==
    \A s \in Symbols : /\ positions[s].long_volume >= OpenedLong(s) - ClosedLong(s)
                       /\ positions[s].short_volume >= OpenedShort(s) - ClosedShort(s)

\* The inductive invariant.
CashInv == NothingMissing /\ CashFlowIdentity

\* The identity in short.
LEMMA IdentityIs ==
    CashFlowIdentity <=> ((\A s \in Symbols : Covered(s)) => Sold = account.realized_pnl - OpenCost)
BY DEF CashFlowIdentity, Sold, Side

\* A fill keeps the identity, if its average is exact.
LEMMA FillKeepsCash ==
    ASSUME Inv, CashInv, AveragesAreExact, NEW id \in OrderIds, NEW order \in Order, NEW tick \in Tick,
           order.traded = 0, order.volume > 0, Fill(id, order, tick)
    PROVE  CashInv'
<1> DEFINE t == TradeOf(id, order, tick)
           s == order.vt_symbol
           p == positions[s]
           q == PositionAfter(p, t)
<1>1. t \in Trade /\ t.volume > 0 /\ trades' = Append(trades, t) /\ t.vt_symbol = s
  BY FillStep DEF Inv, TradeOf
<1>2. s \in Symbols /\ p \in Position /\ Forgets(p) /\ trades \in Seq(Trade) /\ positions \in [Symbols -> Position]
      /\ account.realized_pnl \in Int
  BY DEF Inv, TypeOK, FlatSideForgets, Order, Account
<1>3. positions' = [positions EXCEPT ![s] = q]
  BY DEF Fill
<1>4. account'.realized_pnl = account.realized_pnl + BookedProfit(p, t)
  BY <1>2 DEF Fill, AccountAfter, Account, Inv, TypeOK
<1>5. t.offset = "OPEN" => Divides(p, t)
  <2>1. trades'[Len(trades')] = t /\ trades' # trades
    BY <1>1, <1>2, FillAddsTrade
  <2> HIDE DEF t
  <2> QED
    BY <1>1, <2>1 DEF AveragesAreExact
<1> HIDE DEF t, q
<1>6. /\ CloseVolume(p, t) \in Int /\ 0 <= CloseVolume(p, t) /\ CloseVolume(p, t) <= t.volume
      /\ q \in Position
      /\ q.long_volume = p.long_volume
            + (IF t.offset = "OPEN" /\ t.direction = "LONG" THEN t.volume ELSE 0)
            - (IF t.offset = "CLOSE" /\ t.direction = "SHORT" THEN CloseVolume(p, t) ELSE 0)
      /\ q.short_volume = p.short_volume
            + (IF t.offset = "OPEN" /\ t.direction = "SHORT" THEN t.volume ELSE 0)
            - (IF t.offset = "CLOSE" /\ t.direction = "LONG" THEN CloseVolume(p, t) ELSE 0)
  BY <1>1, <1>2, VolumesMove DEF q
<1>7. t.offset \in {"OPEN", "CLOSE"} /\ t.direction \in {"LONG", "SHORT"} /\ t.volume \in Int
  BY <1>1 DEF Trade, Offset, Direction
<1>8. ASSUME NEW x \in Symbols
      PROVE  /\ OpenedLong(x) \in Int /\ ClosedLong(x) \in Int /\ OpenedShort(x) \in Int /\ ClosedShort(x) \in Int
             /\ OpenedLong(x)' = OpenedLong(x) + (IF x = s /\ t.offset = "OPEN" /\ t.direction = "LONG" THEN t.volume ELSE 0)
             /\ ClosedLong(x)' = ClosedLong(x) + (IF x = s /\ t.offset = "CLOSE" /\ t.direction = "SHORT" THEN t.volume ELSE 0)
             /\ OpenedShort(x)' = OpenedShort(x) + (IF x = s /\ t.offset = "OPEN" /\ t.direction = "SHORT" THEN t.volume ELSE 0)
             /\ ClosedShort(x)' = ClosedShort(x) + (IF x = s /\ t.offset = "CLOSE" /\ t.direction = "LONG" THEN t.volume ELSE 0)
  BY <1>1, <1>2, TradeCounted DEF OpenedLong, ClosedLong, OpenedShort, ClosedShort
<1>9. \A x \in Symbols : positions[x].long_volume \in Int /\ positions[x].short_volume \in Int
  BY <1>2 DEF Position
<1>10. NothingMissing'
  <2> SUFFICES ASSUME NEW x \in Symbols
               PROVE  /\ positions'[x].long_volume >= OpenedLong(x)' - ClosedLong(x)'
                      /\ positions'[x].short_volume >= OpenedShort(x)' - ClosedShort(x)'
    BY DEF NothingMissing
  <2>1. positions[x].long_volume >= OpenedLong(x) - ClosedLong(x) /\ positions[x].short_volume >= OpenedShort(x) - ClosedShort(x)
    BY DEF CashInv, NothingMissing
  <2>2. positions'[x] = IF x = s THEN q ELSE positions[x]
    BY <1>2, <1>3
  <2> QED
    BY <1>6, <1>7, <1>8, <1>9, <2>1, <2>2
<1>11. ASSUME \A x \in Symbols : Covered(x)'
       PROVE  /\ \A x \in Symbols : Covered(x)
              /\ t.offset = "CLOSE" => CloseVolume(p, t) = t.volume
  <2>1. ASSUME NEW x \in Symbols
        PROVE  /\ positions'[x].long_volume = OpenedLong(x)' - ClosedLong(x)'
               /\ positions'[x].short_volume = OpenedShort(x)' - ClosedShort(x)'
    BY <1>11 DEF Covered, OpenedLong, ClosedLong, OpenedShort, ClosedShort
  <2>2. ASSUME NEW x \in Symbols
        PROVE  /\ positions[x].long_volume = OpenedLong(x) - ClosedLong(x)
               /\ positions[x].short_volume = OpenedShort(x) - ClosedShort(x)
               /\ x = s /\ t.offset = "CLOSE" => CloseVolume(p, t) = t.volume
    <3>1. positions[x].long_volume >= OpenedLong(x) - ClosedLong(x) /\ positions[x].short_volume >= OpenedShort(x) - ClosedShort(x)
      BY DEF CashInv, NothingMissing
    <3>2. positions'[x] = IF x = s THEN q ELSE positions[x]
      BY <1>2, <1>3
    <3>3. CASE x = s
      BY <1>6, <1>7, <1>8, <1>9, <2>1, <3>1, <3>2, <3>3
    <3>4. CASE x # s
      BY <1>8, <1>9, <2>1, <3>1, <3>2, <3>4
    <3> QED
      BY <3>3, <3>4
  <2> QED
    BY <1>2, <2>2 DEF Covered, OpenedLong, ClosedLong, OpenedShort, ClosedShort
<1>12. CashFlowIdentity'
  <2> SUFFICES ASSUME \A x \in Symbols : Covered(x)'
               PROVE  Sold' = account'.realized_pnl - OpenCost'
    BY DEF CashFlowIdentity, Sold, Side
  <2>1. Sold = account.realized_pnl - OpenCost
    BY <1>11, IdentityIs DEF CashInv
  <2>2. Sold \in Int /\ Sold' = Sold + Flow(t)
    BY <1>1, <1>2, TradeCounted
  <2>3. /\ CostOf(p) \in Int /\ CostOf(q) \in Int /\ BookedProfit(p, t) \in Int
        /\ BookedProfit(p, t) - CostOf(q) + CostOf(p) = Flow(t)
    BY <1>1, <1>2, <1>5, <1>11, ProfitIsFlow DEF q
  <2> DEFINE f == [x \in Symbols |-> CostOf(positions[x])]
             g == [x \in Symbols |-> CostOf(positions'[x])]
  <2>4. f \in [Symbols -> Int] /\ f[s] = CostOf(p)
    <3>1. \A x \in Position : CostOf(x) \in Int
      <4> SUFFICES ASSUME NEW x \in Position PROVE CostOf(x) \in Int
        OBVIOUS
      <4>1. x.long_avg_price \in Int /\ x.long_volume \in Int /\ x.short_avg_price \in Int /\ x.short_volume \in Int
        BY DEF Position
      <4> QED
        BY <4>1, Products DEF CostOf
    <3> QED
      BY <1>2, <3>1
  <2>5. g = [f EXCEPT ![s] = CostOf(q)]
    BY <1>2, <1>3
  <2>6. OpenCost = SumFunctionOnSet(f, Symbols) /\ OpenCost' = SumFunctionOnSet(g, Symbols)
    BY DEF OpenCost
  <2> HIDE DEF f, g
  <2>7. OpenCost \in Int /\ OpenCost' = OpenCost - CostOf(p) + CostOf(q)
    BY <1>2, <2>3, <2>4, <2>5, <2>6, SumWithOneChanged
  <2>8. Flow(t) \in Int
    BY <2>3
  <2> QED
    BY <1>2, <1>4, <2>1, <2>2, <2>3, <2>7, <2>8
<1> QED
  BY <1>10, <1>12 DEF CashInv

\* Before the first trade nothing has been sold and nothing is held.
LEMMA CashBegins == Init => CashInv
<1> SUFFICES ASSUME Init PROVE CashInv
  OBVIOUS
<1>1. trades = <<>> /\ positions = [s \in Symbols |-> NoPosition] /\ account.realized_pnl = 0
  BY DEF Init, NewAccount
<1>2. \A s, o, d : TradesWith(s, o, d) = {}
  BY <1>1 DEF TradesWith
<1>3. \A d : Side(d) = {}
  BY <1>1 DEF Side
<1>4. VolumeOf({}) = 0 /\ CashOf({}) = 0
  BY SumOfNone DEF VolumeOf, CashOf
<1>5. NothingMissing
  <2>1. \A s \in Symbols : positions[s].long_volume = 0 /\ positions[s].short_volume = 0
    BY <1>1 DEF NoPosition
  <2>2. \A s : OpenedLong(s) = 0 /\ ClosedLong(s) = 0 /\ OpenedShort(s) = 0 /\ ClosedShort(s) = 0
    BY <1>2, <1>4 DEF OpenedLong, ClosedLong, OpenedShort, ClosedShort
  <2> SUFFICES ASSUME NEW s \in Symbols
               PROVE  /\ positions[s].long_volume >= OpenedLong(s) - ClosedLong(s)
                      /\ positions[s].short_volume >= OpenedShort(s) - ClosedShort(s)
    BY DEF NothingMissing
  <2>3. positions[s].long_volume = 0 /\ positions[s].short_volume = 0
    BY <2>1
  <2>4. OpenedLong(s) = 0 /\ ClosedLong(s) = 0 /\ OpenedShort(s) = 0 /\ ClosedShort(s) = 0
    BY <2>2
  <2> QED
    BY <2>3, <2>4
<1>6. Sold = 0
  BY <1>3, <1>4 DEF Sold
<1>7. OpenCost = 0
  <2> DEFINE f == [s \in Symbols |-> CostOf(positions[s])]
             Zero == {T \in SUBSET Symbols : SumFunctionOnSet(f, T) = 0}
  <2>1. f \in [Symbols -> Int] /\ \A s \in Symbols : f[s] = 0
    BY <1>1 DEF CostOf, NoPosition
  <2> HIDE DEF f
  <2>2. {} \in Zero
    BY SumOfNone
  <2>3. ASSUME NEW T \in SUBSET Symbols, NEW x \in Symbols, x \notin T, T \in Zero PROVE T \union {x} \in Zero
    <3>1. IsFiniteSet(T) /\ x \in Symbols \ T
      BY <2>3, SymbolsAreFinite, FS_Subset
    <3>2. SumFunctionOnSet(f, T \union {x}) = SumFunctionOnSet(f, T) + f[x]
      BY <2>1, <3>1, SumWith
    <3> QED
      BY <2>1, <2>3, <3>2
  <2> HIDE DEF Zero
  <2>4. Symbols \in Zero
    BY <2>2, <2>3, SymbolsAreFinite, Finite, V!SetInduction
  <2> QED
    BY <2>4 DEF Zero, f, OpenCost
<1>8. CashFlowIdentity
  BY <1>1, <1>6, <1>7, IdentityIs
<1> QED
  BY <1>5, <1>8 DEF CashInv

\* A step with no trade leaves trades, positions and profit as they are.
LEMMA NoTradeNoCash ==
    ASSUME Inv, [Next]_vars, UNCHANGED <<trades, positions>>
    PROVE  account'.realized_pnl = account.realized_pnl
<1>1. ASSUME NEW id \in OrderIds, NEW order, NEW tick, Fill(id, order, tick) PROVE FALSE
  BY <1>1, FillAddsTrade
<1> QED
  BY <1>1 DEF Next, SubmitOrder, SubmitRefused, SubmitAccepted, CancelOrder, TickArrives, MatchNext, TickDone, book, vars,
     Inv, TypeOK, Account

\* However orders are opened, added to and closed in parts, on both sides of all symbols: if no
\* average had to be rounded, what the trades brought in is the profit less the cost of what is
\* still open.
THEOREM CashExplained == Spec /\ [][AveragesAreExact]_vars => []CashFlowIdentity
<1>1. Inv /\ CashInv /\ [Next]_vars /\ [AveragesAreExact]_vars => CashInv'
  <2> SUFFICES ASSUME Inv, CashInv, [Next]_vars, [AveragesAreExact]_vars PROVE CashInv'
    OBVIOUS
  <2>1. CASE UNCHANGED <<trades, positions>>
    <3>1. account'.realized_pnl = account.realized_pnl
      BY <2>1, NoTradeNoCash
    <3>2. Volumes' = Volumes /\ Values' = Values /\ OpenCost' = OpenCost
      BY <2>1 DEF Volumes, Values, OpenCost
    <3>3. \A x, o, d : TradesWith(x, o, d)' = TradesWith(x, o, d) /\ Side(d)' = Side(d)
      BY <2>1 DEF TradesWith, Side
    <3>4. \A x, o, d : VolumeOf(TradesWith(x, o, d))' = VolumeOf(TradesWith(x, o, d)) /\ CashOf(Side(d))' = CashOf(Side(d))
      BY <3>2, <3>3 DEF VolumeOf, CashOf
    <3>5. NothingMissing'
      BY <2>1, <3>4 DEF CashInv, NothingMissing, OpenedLong, ClosedLong, OpenedShort, ClosedShort
    <3>6. \A x \in Symbols : Covered(x)' <=> Covered(x)
      BY <2>1, <3>4 DEF Covered
    <3>7. Sold' = Sold
      BY <3>4 DEF Sold
    <3>8. CashFlowIdentity'
      <4> SUFFICES ASSUME \A x \in Symbols : Covered(x)'
                   PROVE  Sold' = account'.realized_pnl - OpenCost'
        BY DEF CashFlowIdentity, Sold, Side
      <4> QED
        BY <3>1, <3>2, <3>6, <3>7, IdentityIs DEF CashInv
    <3> QED
      BY <3>5, <3>8 DEF CashInv
  <2>2. CASE ~UNCHANGED <<trades, positions>>
    <3>1. AveragesAreExact
      BY <2>2 DEF vars, book
    <3> QED
      BY <2>2, <3>1, FillOrNone, FillKeepsCash
  <2> QED
    BY <2>1, <2>2
<1>2. CashInv => CashFlowIdentity
  BY DEF CashInv
<1> QED
  BY InvHolds, CashBegins, <1>1, <1>2, PTL DEF Spec

-----------------------------------------------------------------------------
(* The tasks of the bridge servers.                                        *)

Row == {"tick", "bad"}
Task == [pc : Labels, cancelled : BOOLEAN, file : Seq(Row), loop : BOOLEAN,
         left : Seq(Row), rows : Nat, late : Nat]

TasksTyped ==
    /\ server \in {"mock", "csv", "binance"}
    /\ running \in BOOLEAN
    /\ task \in Tasks \union {NoTask}
    /\ source_symbols \in SymbolCounts \union {0}
    /\ tasks \in [Tasks -> Task]

\* What LateTicksBounded allows a task of this server.
LateBound ==
    CASE server = "csv" -> 1
      [] server = "mock" -> Max(SymbolCounts)
      [] server = "binance" -> Max({Len(burst) : burst \in Bursts})

\* A task counts late ticks only once it is cancelled, and what it has counted leaves room for
\* what it can still publish before its next await.
LateFits(k) ==
    /\ k.late > 0 => k.cancelled
    /\ k.late <= LateBound
    /\ k.pc \in {"top", "complete", "retire"} => k.late = 0
    /\ k.pc \in {"complete", "retire"} => server = "csv"
    /\ k.pc = "publish" => IF server = "csv" THEN k.late = 0 ELSE k.late + Len(k.left) <= LateBound

\* The server's task was begun and has not been cancelled; a task that was not begun is idle.
Current ==
    /\ task # NoTask => tasks[task].pc # "unused" /\ ~tasks[task].cancelled
    /\ \A t \in Tasks : tasks[t].pc = "unused" => tasks[t].late = 0 /\ ~tasks[t].cancelled

SourceInv ==
    /\ TasksTyped /\ Current /\ OneSource /\ RunningIsTruthful
    /\ \A t \in Tasks : LateFits(tasks[t])

-----------------------------------------------------------------------------
\* The bound is a number, and no round and no burst is longer.
LEMMA LongestRound ==
    /\ Max(SymbolCounts) \in Nat
    /\ \A n \in SymbolCounts \union {0} : n <= Max(SymbolCounts)
<1>1. PICK n \in SymbolCounts : \A m \in SymbolCounts : n >= m
  BY SourceAssumption
<1>2. Max(SymbolCounts) \in SymbolCounts /\ \A m \in SymbolCounts : Max(SymbolCounts) >= m
  BY <1>1 DEF Max
<1>3. Max(SymbolCounts) \in Nat /\ SymbolCounts \subseteq Nat
  BY <1>2, SourceAssumption
<1> HIDE DEF Max
<1>4. 0 <= Max(SymbolCounts) /\ \A m \in SymbolCounts : m <= Max(SymbolCounts)
  BY <1>2, <1>3
<1> QED
  BY <1>3, <1>4

\* No burst is longer than the longest.
LEMMA LongestBurst ==
    /\ Max({Len(burst) : burst \in Bursts}) \in Nat
    /\ \A burst \in Bursts : Len(burst) <= Max({Len(b) : b \in Bursts})
<1> DEFINE Lengths == {Len(burst) : burst \in Bursts}
<1>1. PICK b \in Bursts : \A c \in Bursts : Len(c) <= Len(b)
  BY SourceAssumption
<1>2. \A c \in Bursts : Len(c) \in Nat
  BY SourceAssumption
<1>3. Len(b) \in Lengths /\ \A m \in Lengths : Len(b) >= m
  BY <1>1, <1>2
<1>4. Max(Lengths) \in Lengths /\ \A m \in Lengths : Max(Lengths) >= m
  BY <1>3 DEF Max
<1> QED
  BY <1>4, <1>2

\* The bound on late ticks is a number.
LEMMA LateBoundTyped == server \in {"mock", "csv", "binance"} => LateBound \in Nat
  BY LongestRound, LongestBurst DEF LateBound

\* A new task has counted nothing.
LEMMA NewTaskFits ==
    ASSUME NEW file \in Seq(Row), NEW again \in BOOLEAN, server \in {"mock", "csv", "binance"}
    PROVE  /\ NewTask(file, again) \in Task /\ LateFits(NewTask(file, again))
           /\ NewTask(file, again).pc = "scheduled" /\ ~NewTask(file, again).cancelled
  BY LateBoundTyped DEF NewTask, Task, Labels, Suspended, LateFits

\* At first there is no task.
LEMMA SourceInitial == SourceInit => SourceInv
<1> SUFFICES ASSUME SourceInit PROVE SourceInv
  OBVIOUS
<1>1. server \in {"mock", "csv", "binance"}
  BY SourceAssumption DEF SourceInit
<1>2. LateBound \in Nat
  BY <1>1, LateBoundTyped
<1>3. Unused \in Task /\ Unused.pc = "unused" /\ Unused.late = 0 /\ ~Unused.cancelled
  <2>1. NewTask(<<>>, FALSE) \in Task /\ NewTask(<<>>, FALSE).late = 0 /\ ~NewTask(<<>>, FALSE).cancelled
    BY DEF NewTask, Task, Labels, Suspended
  <2>2. \A k \in Task : LET u == [k EXCEPT !.pc = "unused"]
                       IN  u \in Task /\ u.pc = "unused" /\ u.late = k.late /\ u.cancelled = k.cancelled
    BY DEF Task, Labels
  <2> QED
    BY <2>1, <2>2 DEF Unused
<1>4. \A t \in Tasks : tasks[t] = Unused
  BY DEF SourceInit
<1>5. TasksTyped
  BY <1>1, <1>3 DEF SourceInit, TasksTyped
<1>6. Current
  BY <1>3, <1>4 DEF SourceInit, Current
<1>7. OneSource /\ RunningIsTruthful
  BY <1>3, <1>4 DEF SourceInit, OneSource, RunningIsTruthful, Live
<1>8. LateFits(Unused)
  BY <1>2, <1>3 DEF LateFits
<1> QED
  BY <1>4, <1>5, <1>6, <1>7, <1>8 DEF SourceInv

-----------------------------------------------------------------------------
\* The endpoints.  cancel() changes the flag of the task at work and nothing else.
LEMMA CancelledTasks ==
    ASSUME SourceInv
    PROVE  /\ Cancelled(task) \in [Tasks -> Task]
           /\ \A t \in Tasks :
                 /\ Cancelled(task)[t].pc = tasks[t].pc /\ Cancelled(task)[t].late = tasks[t].late
                 /\ Cancelled(task)[t].left = tasks[t].left
                 /\ Cancelled(task)[t].cancelled
                      <=> (tasks[t].cancelled \/ (task # NoTask /\ t = task /\ Live(t)))
<1>1. CASE task # NoTask /\ Live(task)
  <2> DEFINE k == [tasks[task] EXCEPT !.cancelled = TRUE]
  <2>1. task \in Tasks /\ tasks \in [Tasks -> Task]
    BY <1>1 DEF SourceInv, TasksTyped
  <2>2. k \in Task /\ k.pc = tasks[task].pc /\ k.late = tasks[task].late
           /\ k.left = tasks[task].left /\ k.cancelled
    BY <2>1 DEF Task
  <2>3. Cancelled(task) = [tasks EXCEPT ![task] = k]
    BY <1>1 DEF Cancelled
  <2> HIDE DEF k
  <2> QED
    BY <1>1, <2>1, <2>2, <2>3
<1>2. CASE ~(task # NoTask /\ Live(task))
  BY <1>2 DEF Cancelled, SourceInv, TasksTyped
<1> QED
  BY <1>1, <1>2

\* Once the former task is cancelled every task that is at work is on its way out.
LEMMA AllCancelled ==
    ASSUME SourceInv, NEW t \in Tasks, Live(t)
    PROVE  Cancelled(task)[t].cancelled
<1>1. tasks[t].cancelled \/ t = task
  BY DEF SourceInv, OneSource
<1>2. NoTask \notin Tasks
  BY SourceAssumption
<1> QED
  BY <1>1, <1>2, CancelledTasks

\* A start cancels what runs and creates one task.
LEMMA BeginKeeps ==
    ASSUME SourceInv, NEW t \in Tasks, NEW file \in Seq(Row), NEW again \in BOOLEAN,
           BeginTask(t, NewTask(file, again)), source_symbols' \in SymbolCounts \union {0}
    PROVE  SourceInv'
<1> DEFINE new == NewTask(file, again)
<1>1. server' = server /\ server \in {"mock", "csv", "binance"} /\ running' = TRUE /\ task' = t
        /\ t \in Tasks /\ NoTask \notin Tasks
  BY SourceAssumption DEF BeginTask, SourceInv, TasksTyped
<1>2. new \in Task /\ LateFits(new) /\ new.pc = "scheduled" /\ ~new.cancelled
  BY <1>1, NewTaskFits
<1>3. tasks' = [Cancelled(task) EXCEPT ![t] = new]
  BY DEF BeginTask
<1> HIDE DEF new
<1>4. tasks' \in [Tasks -> Task] /\ tasks'[t] = new
        /\ \A u \in Tasks \ {t} : tasks'[u] = Cancelled(task)[u]
  BY <1>2, <1>3, CancelledTasks
<1>5. TasksTyped'
  BY <1>1, <1>4 DEF TasksTyped
<1>6. Current'
  BY <1>1, <1>2, <1>4, CancelledTasks DEF Current, SourceInv
<1>7. OneSource'
  <2> SUFFICES ASSUME NEW u \in Tasks, Live(u)', u # t PROVE tasks'[u].cancelled
    BY <1>1 DEF OneSource
  <2>1. Live(u)
    BY <1>4, CancelledTasks DEF Live
  <2> QED
    BY <2>1, <1>4, AllCancelled
<1>8. RunningIsTruthful'
  BY <1>1, <1>2, <1>4 DEF RunningIsTruthful
<1>9. \A u \in Tasks : LateFits(tasks[u])'
  <2> SUFFICES ASSUME NEW u \in Tasks PROVE LateFits(tasks[u])'
    OBVIOUS
  <2>1. LateBound' = LateBound
    BY <1>1 DEF LateBound
  <2>2. CASE u = t
    BY <2>1, <2>2, <1>1, <1>2, <1>4 DEF LateFits
  <2>3. CASE u # t
    BY <2>1, <2>3, <1>1, <1>4, CancelledTasks DEF LateFits, SourceInv
  <2> QED
    BY <2>2, <2>3
<1> QED
  BY <1>5, <1>6, <1>7, <1>8, <1>9 DEF SourceInv

\* A stop cancels what runs.
LEMMA StopKeeps == ASSUME SourceInv, Stop PROVE SourceInv'
<1>1. server' = server /\ running' = FALSE /\ task' = NoTask /\ source_symbols' = source_symbols
        /\ tasks' = Cancelled(task) /\ NoTask \notin Tasks
  BY SourceAssumption DEF Stop
<1>2. TasksTyped'
  BY <1>1, CancelledTasks DEF SourceInv, TasksTyped
<1>3. Current'
  BY <1>1, CancelledTasks DEF Current, SourceInv, Live
<1>4. OneSource'
  <2> SUFFICES ASSUME NEW u \in Tasks, Live(u)' PROVE tasks'[u].cancelled
    BY DEF OneSource
  <2>1. Live(u)
    BY <1>1, CancelledTasks DEF Live
  <2> QED
    BY <2>1, <1>1, AllCancelled
<1>5. RunningIsTruthful'
  BY <1>1 DEF RunningIsTruthful
<1>6. LateBound' = LateBound
  BY <1>1 DEF LateBound
<1>7. \A u \in Tasks : LateFits(tasks[u])'
  BY <1>1, <1>6, CancelledTasks DEF LateFits, SourceInv
<1> QED
  BY <1>2, <1>3, <1>4, <1>5, <1>7 DEF SourceInv

-----------------------------------------------------------------------------
\* The event loop: a step of one task.  It is at work; the step does not cancel it, may end it
\* as cancelled only if it was, and clears the running flag when it is done.
Moves(t, new) ==
    /\ Live(t)
    /\ new \in Task /\ LateFits(new) /\ new.pc # "unused"
    /\ new.cancelled = tasks[t].cancelled
    /\ new.pc = "cancelled" => new.cancelled
    /\ tasks' = [tasks EXCEPT ![t] = new]
    /\ UNCHANGED <<server, task, source_symbols>>
    /\ running' = IF new.pc = "done" THEN FALSE ELSE running

\* A task that moves on, to where it may be, keeps the invariant.
LEMMA MovesKeep ==
    ASSUME SourceInv, NEW t \in Tasks, NEW new, Moves(t, new)
    PROVE  SourceInv'
<1>1. tasks' \in [Tasks -> Task] /\ tasks'[t] = new /\ \A u \in Tasks \ {t} : tasks'[u] = tasks[u]
  BY DEF Moves, SourceInv, TasksTyped
<1>2. server' = server /\ task' = task /\ source_symbols' = source_symbols
        /\ running' = (IF new.pc = "done" THEN FALSE ELSE running)
        /\ new.pc # "unused" /\ new.cancelled = tasks[t].cancelled
        /\ (new.pc = "cancelled" => new.cancelled) /\ LateFits(new)
  BY DEF Moves
<1>3. Live(t) /\ tasks[t].pc \notin {"unused", "done", "cancelled"}
  BY DEF Moves, Live, Ended
<1>4. TasksTyped'
  BY <1>1, <1>2 DEF TasksTyped, SourceInv
<1>5. task # NoTask => task \in Tasks
  BY DEF SourceInv, TasksTyped
<1>6. Current'
  BY <1>1, <1>2, <1>5 DEF Current, SourceInv
<1>7. OneSource'
  <2> SUFFICES ASSUME NEW u \in Tasks, Live(u)', ~tasks'[u].cancelled PROVE u = task
    BY <1>2 DEF OneSource
  <2>1. Live(u) /\ ~tasks[u].cancelled
    BY <1>1, <1>2, <1>3 DEF Live
  <2> QED
    BY <2>1 DEF SourceInv, OneSource
<1>8. RunningIsTruthful'
  <2>1. ASSUME running' PROVE task' # NoTask /\ tasks'[task'].pc \notin {"done", "cancelled"}
    <3>1. running /\ new.pc # "done" /\ task # NoTask /\ tasks[task].pc \notin {"done", "cancelled"}
      BY <2>1, <1>2 DEF SourceInv, RunningIsTruthful
    <3>2. ~tasks[task].cancelled
      BY <3>1 DEF SourceInv, Current
    <3> QED
      BY <3>1, <3>2, <1>1, <1>2, <1>5
  <2>2. ASSUME ~running', task' # NoTask, Live(task)'
        PROVE  \E u \in Tasks \ {task'} : tasks'[u].pc = "done" /\ tasks'[u].cancelled
    <3>1. task \in Tasks /\ task # NoTask /\ Live(task)
      BY <2>2, <1>1, <1>2, <1>3, <1>5 DEF Live
    <3>2. CASE running
      <4>1. new.pc = "done" /\ t # task
        BY <2>2, <3>1, <3>2, <1>1, <1>2 DEF Live, Ended
      <4>2. tasks[t].cancelled
        BY <4>1, <1>3 DEF SourceInv, OneSource
      <4> QED
        BY <4>1, <4>2, <1>1, <1>2
    <3>3. CASE ~running
      <4>1. PICK u \in Tasks \ {task} : tasks[u].pc = "done" /\ tasks[u].cancelled
        BY <3>1, <3>3 DEF SourceInv, RunningIsTruthful
      <4>2. u # t
        BY <4>1, <1>3
      <4> QED
        BY <4>1, <4>2, <1>1, <1>2
    <3> QED
      BY <3>2, <3>3
  <2> QED
    BY <2>1, <2>2 DEF RunningIsTruthful
<1>9. LateBound' = LateBound
  BY <1>2 DEF LateBound
<1>10. \A u \in Tasks : LateFits(tasks[u])'
  BY <1>1, <1>2, <1>9 DEF LateFits, SourceInv
<1> QED
  BY <1>4, <1>6, <1>7, <1>8, <1>10 DEF SourceInv

-----------------------------------------------------------------------------
\* What an update of a task leaves as it is.
LEMMA TaskUpdates ==
    ASSUME NEW k \in Task
    PROVE  /\ \A label \in Labels : LET n == [k EXCEPT !.pc = label]
              IN  /\ n \in Task /\ n.pc = label /\ n.late = k.late
                  /\ n.cancelled = k.cancelled /\ n.left = k.left
           /\ \A n \in Nat : LET m == [k EXCEPT !.rows = n]
              IN  /\ m \in Task /\ m.pc = k.pc /\ m.late = k.late
                  /\ m.cancelled = k.cancelled /\ m.left = k.left
  BY DEF Task

\* So does a task that leaves its loop.
LEMMA LeaveMoves ==
    ASSUME SourceInv, NEW t \in Tasks, NEW label \in Labels, Live(t), Leave(t, label),
           UNCHANGED <<server, task, source_symbols>>,
           label \in {"sleep", "idle", "connecting", "receive", "backoff", "done", "cancelled", "failed"},
           label = "cancelled" => tasks[t].cancelled,
           running' = IF label = "done" THEN FALSE ELSE running
    PROVE  SourceInv'
<1> DEFINE new == [tasks[t] EXCEPT !.pc = label]
<1>1. tasks[t] \in Task /\ LateFits(tasks[t])
  BY DEF SourceInv, TasksTyped
<1>2. new \in Task /\ new.pc = label /\ new.late = tasks[t].late /\ new.cancelled = tasks[t].cancelled
  BY <1>1, TaskUpdates
<1>3. tasks' = [tasks EXCEPT ![t] = new]
  BY DEF Leave
<1> HIDE DEF new
<1>4. Moves(t, new)
  BY <1>1, <1>2, <1>3 DEF Moves, LateFits
<1> QED
  BY <1>4, MovesKeep

\* So does one that goes round it.
LEMMA ContinueMoves ==
    ASSUME SourceInv, NEW t \in Tasks, NEW label \in {"top", "publish", "complete", "retire", "except"},
           NEW ticks \in Seq(Row),
           Live(t), Continue(t, label, ticks), UNCHANGED control,
           label \in {"complete", "retire"} => server = "csv",
           label # "except" => tasks[t].late = 0,
           label = "publish" /\ server # "csv" => Len(ticks) <= LateBound
    PROVE  SourceInv'
<1> DEFINE new == [tasks[t] EXCEPT !.pc = label, !.left = ticks]
<1>1. tasks[t] \in Task /\ LateFits(tasks[t]) /\ label \in Labels
  BY DEF SourceInv, TasksTyped, Labels
<1>2. new \in Task /\ new.pc = label /\ new.left = ticks /\ new.late = tasks[t].late
        /\ new.cancelled = tasks[t].cancelled
  BY <1>1 DEF Task
<1>3. tasks' = [tasks EXCEPT ![t] = new]
  BY DEF Continue
<1> HIDE DEF new
<1>4. LateFits(new)
  <2>1. Len(ticks) \in Nat
    OBVIOUS
  <2> QED
    BY <2>1, <1>1, <1>2 DEF LateFits
<1>5. new.pc \notin {"unused", "cancelled", "done"} /\ UNCHANGED <<server, task, source_symbols, running>>
  BY <1>2 DEF control
<1>6. Moves(t, new)
  BY <1>2, <1>3, <1>4, <1>5 DEF Moves
<1> QED
  BY <1>6, MovesKeep

\* A task whose await ended by itself has counted no late tick: it is not cancelled.
LEMMA NotLate ==
    ASSUME SourceInv, NEW t \in Tasks, ~tasks[t].cancelled
    PROVE  tasks[t].late = 0
  BY DEF SourceInv, LateFits, TasksTyped, Task

\* So does a tick that is published: it is counted if the task was cancelled.
LEMMA PublishKeeps == ASSUME SourceInv, NEW t \in Tasks, Publish(t) PROVE SourceInv'
<1> DEFINE k == tasks[t]
           after == [k EXCEPT !.left = Tail(@), !.rows = @ + 1,
                              !.late = IF k.cancelled THEN @ + 1 ELSE @]
           new == IF server = "csv" THEN [after EXCEPT !.pc = "sleep"] ELSE [after EXCEPT !.rows = 0]
<1>1. k \in Task /\ LateFits(k) /\ k.pc = "publish" /\ k.left # <<>> /\ Live(t)
        /\ LateBound \in Nat
  BY LateBoundTyped DEF Publish, SourceInv, TasksTyped, Live, Labels, Ended
<1>2. Tail(k.left) \in Seq(Row) /\ Len(Tail(k.left)) = Len(k.left) - 1 /\ Len(Tail(k.left)) \in Nat /\ k.left \in Seq(Row)
  BY <1>1 DEF Task
<1>3. after \in Task /\ after.pc = "publish" /\ after.left = Tail(k.left) /\ after.cancelled = k.cancelled
        /\ after.late = IF k.cancelled THEN k.late + 1 ELSE k.late
  <2>1. k.late \in Nat /\ k.rows \in Nat
    BY <1>1 DEF Task
  <2>2. k.rows + 1 \in Nat /\ (IF k.cancelled THEN k.late + 1 ELSE k.late) \in Nat
    BY <2>1
  <2> QED
    BY <1>1, <1>2, <2>2 DEF Task
<1>4. tasks' = [tasks EXCEPT ![t] = new] /\ UNCHANGED control
  BY DEF Publish
<1> HIDE DEF after
<1>5. new \in Task /\ new.cancelled = k.cancelled /\ new.late = after.late
        /\ (server = "csv" => new.pc = "sleep")
        /\ (server # "csv" => new.pc = "publish" /\ new.left = after.left)
  BY <1>3, TaskUpdates DEF Labels, Suspended
<1> HIDE DEF new
<1>6. k.late \in Nat /\ Len(k.left) \in Nat
  BY <1>1, <1>2 DEF Task
<1>7. LateFits(new)
  <2>1. CASE server = "csv"
    BY <2>1, <1>1, <1>3, <1>5, <1>6 DEF LateFits, LateBound
  <2>2. CASE server # "csv"
    <3>1. k.late + Len(k.left) <= LateBound /\ (k.late > 0 => k.cancelled) /\ k.late <= LateBound
      BY <2>2, <1>1 DEF LateFits
    <3>2. new.late + Len(new.left) <= LateBound /\ new.late <= LateBound /\ (new.late > 0 => new.cancelled)
      <4>1. Len(new.left) = Len(k.left) - 1 /\ Len(new.left) \in Nat
        <5>1. new.left = Tail(k.left)
          BY <2>2, <1>3, <1>5
        <5> QED
          BY <5>1, <1>2
      <4>2. CASE k.cancelled
        BY <3>1, <4>1, <4>2, <1>1, <1>3, <1>5, <1>6
      <4>3. CASE ~k.cancelled
        BY <3>1, <4>1, <4>3, <1>1, <1>3, <1>5, <1>6
      <4> QED
        BY <4>2, <4>3
    <3> QED
      BY <2>2, <3>2, <1>5, <1>3, <1>1 DEF LateFits
  <2> QED
    BY <2>1, <2>2
<1>8. Moves(t, new)
  BY <1>1, <1>4, <1>5, <1>7 DEF Moves, control
<1> QED
  BY <1>8, MovesKeep

\* So does every turn of its loop.
LEMMA LoopStepKeeps == ASSUME SourceInv, NEW t \in Tasks, LoopStep(t) PROVE SourceInv'
<1>0. tasks[t] \in Task /\ LateFits(tasks[t]) /\ <<>> \in Seq(Row) /\ tasks[t].left \in Seq(Row)
        /\ tasks[t].file \in Seq(Row) /\ server \in {"mock", "csv", "binance"}
  BY DEF SourceInv, TasksTyped, Task
<1> USE DEF Live, Labels, Suspended, Ended
<1>1. CASE ResumeCancelled(t)
  BY <1>0, <1>1, LeaveMoves DEF ResumeCancelled, control
<1>2. CASE Resume(t)
  <2>1. tasks[t].late = 0 /\ Live(t) /\ UNCHANGED control
    BY <1>2, NotLate DEF Resume, MayResume
  <2>2. CASE server = "csv" /\ Continue(t, "publish", tasks[t].left)
    BY <2>1, <2>2, <1>0, ContinueMoves
  <2>3. CASE Continue(t, "top", <<>>)
    BY <2>1, <2>3, <1>0, ContinueMoves
  <2> QED
    BY <1>2, <2>2, <2>3 DEF Resume
<1>3. CASE ReadSymbols(t)
  <2>1. tasks[t].late = 0 /\ Live(t) /\ UNCHANGED control
    BY <1>0, <1>3 DEF ReadSymbols, LateFits
  <2>2. CASE server = "mock" /\ Continue(t, "publish", [i \in 1 .. source_symbols |-> "tick"])
    <3> DEFINE round == [i \in 1 .. source_symbols |-> "tick"]
    <3>1. source_symbols \in Nat /\ source_symbols <= Max(SymbolCounts)
      BY LongestRound, SourceAssumption DEF SourceInv, TasksTyped
    <3>2. round \in Seq(Row) /\ Len(round) = source_symbols
      BY <3>1 DEF Row
    <3>3. Len(round) <= LateBound
      BY <3>1, <3>2, <2>2 DEF LateBound
    <3>4. Continue(t, "publish", round)
      BY <2>2
    <3> HIDE DEF round
    <3> QED
      BY <2>1, <3>2, <3>3, <3>4, ContinueMoves
  <2>3. CASE Leave(t, IF source_symbols = 0 THEN "idle" ELSE "connecting")
    BY <2>1, <2>3, LeaveMoves DEF control
  <2> QED
    BY <1>3, <2>2, <2>3 DEF ReadSymbols
<1>4. CASE Publish(t)
  BY <1>4, PublishKeeps
<1>5. CASE PublishBad(t)
  <2>1. Live(t) /\ UNCHANGED control
    BY <1>5 DEF PublishBad
  <2> QED
    BY <1>0, <1>5, <2>1, ContinueMoves, LeaveMoves DEF PublishBad, control
<1>6. CASE TurnOver(t)
  <2>1. Live(t) /\ UNCHANGED control
    BY <1>6 DEF TurnOver
  <2>2. CASE server # "csv"
    BY <1>6, <2>1, <2>2, LeaveMoves DEF TurnOver, control
  <2>3. CASE server = "csv"
    BY <1>0, <1>6, <2>1, <2>3, ContinueMoves DEF TurnOver, LateFits
  <2> QED
    BY <2>2, <2>3
<1>7. CASE Complete(t)
  <2>1. Live(t) /\ UNCHANGED control /\ server = "csv" /\ tasks[t].late = 0
    BY <1>0, <1>7 DEF Complete, LateFits
  <2> QED
    BY <1>0, <1>7, <2>1, ContinueMoves DEF Complete
<1>8. CASE Retire(t)
  BY <1>0, <1>8, LeaveMoves DEF Retire
<1>9. CASE Connected(t)
  BY <1>0, <1>9, LeaveMoves DEF Connected, MayResume, control
<1>10. CASE BackOff(t)
  BY <1>0, <1>10, LeaveMoves DEF BackOff, control
<1>11. CASE EngineRaises(t)
  <2>1. Live(t) /\ UNCHANGED control
    BY <1>11 DEF EngineRaises
  <2> QED
    BY <1>0, <1>11, <2>1, ContinueMoves, LeaveMoves DEF EngineRaises, control
<1> QED
  BY <1>1, <1>2, <1>3, <1>4, <1>5, <1>6, <1>7, <1>8, <1>9, <1>10, <1>11 DEF LoopStep

\* So does what the other side of its connection does.
LEMMA PeerKeeps == ASSUME SourceInv, NEW t \in Tasks, Peer(t) PROVE SourceInv'
<1>0. tasks[t] \in Task /\ <<>> \in Seq(Row)
  BY DEF SourceInv, TasksTyped
<1>1. Live(t) /\ tasks[t].late = 0 /\ UNCHANGED control /\ server = "binance"
  BY NotLate DEF Peer, Received, StreamEnds, ConnectionFails, MayResume, Live, Labels, Suspended, Ended
<1>2. ASSUME NEW burst \in Bursts, Continue(t, "publish", burst) PROVE SourceInv'
  <2>1. burst \in Seq(Row) /\ Len(burst) <= LateBound
    BY <1>1, LongestBurst, SourceAssumption DEF LateBound, Row
  <2> QED
    BY <1>1, <1>2, <2>1, ContinueMoves
<1>3. CASE Continue(t, "top", <<>>)
  BY <1>0, <1>1, <1>3, ContinueMoves
<1>4. CASE Continue(t, "except", <<>>)
  BY <1>0, <1>1, <1>4, ContinueMoves
<1> QED
  BY <1>2, <1>3, <1>4 DEF Peer, Received, StreamEnds, ConnectionFails

\* Every step keeps SourceInv.
LEMMA SourceStep == SourceInv /\ [SourceNext]_sourceVars => SourceInv'
<1> SUFFICES ASSUME SourceInv, [SourceNext]_sourceVars PROVE SourceInv'
  OBVIOUS
<1>0. <<>> \in Seq(Row) /\ FALSE \in BOOLEAN /\ Files \subseteq Seq(Row)
        /\ source_symbols \in SymbolCounts \union {0}
  BY SourceAssumption DEF Row, SourceInv, TasksTyped
<1>1. ASSUME NEW t \in Tasks, NEW n \in SymbolCounts, StartMock(t, n) \/ StartBinance(t, n)
      PROVE  SourceInv'
  BY <1>0, <1>1, BeginKeeps DEF StartMock, StartBinance
<1>2. ASSUME NEW t \in Tasks, NEW f \in Files, NEW again \in BOOLEAN, StartReplay(t, f, again)
      PROVE  SourceInv'
  BY <1>0, <1>2, BeginKeeps DEF StartReplay
<1>3. CASE Stop
  BY <1>3, StopKeeps
<1>4. ASSUME NEW t \in Tasks, LoopStep(t) \/ Peer(t) PROVE SourceInv'
  BY <1>4, LoopStepKeeps, PeerKeeps
<1>5. CASE UNCHANGED sourceVars
  BY <1>5 DEF sourceVars, control, SourceInv, TasksTyped, Current, OneSource, RunningIsTruthful,
              LateFits, LateBound, Live
<1> QED
  BY <1>1, <1>2, <1>3, <1>4, <1>5 DEF SourceNext, Endpoint

\* It holds in every state.
LEMMA SourceAlways == SourceSpec => []SourceInv
  BY SourceInitial, SourceStep, PTL DEF SourceSpec

-----------------------------------------------------------------------------
\* However starts and stops overlap with the loop, at most one task is not on its way out, and it
\* is the one the server will cancel next (start_mock_ticks and its kin, `state.task.cancel()`).
THEOREM OneSourceAtATime == SourceSpec => []OneSource
  BY SourceAlways, PTL DEF SourceInv

\* A cancelled source publishes at most the turn it was in: a row, a round, or a burst.
THEOREM LateTicksEnd == SourceSpec => []LateTicksBounded
<1>1. SourceInv => LateTicksBounded
  BY DEF SourceInv, LateFits, LateTicksBounded, LateBound
<1> QED
  BY SourceAlways, <1>1, PTL

\* The running flag is wrong only after a failure, or after a replay that ended when its
\* successor had been started (csv_replay_loop's last assignment).
THEOREM RunningFlagExplained == SourceSpec => []RunningIsTruthful
  BY SourceAlways, PTL DEF SourceInv

-----------------------------------------------------------------------------
(* The CTP gateway: two threads keep one list of subscriptions, and        *)
(* close() leaves ticks in the queue.                                      *)

Ids == Instruments(CtpSymbols) \cup InstrumentIds

Client == [symbols : SUBSET Ids, connected : BOOLEAN, login_status : BOOLEAN, asked : SUBSET Ids,
           callback : {"none", "logged_in"}]
Consumer == [symbols : SUBSET CtpSymbols, stopped : BOOLEAN, client : BOOLEAN,
             at : {"idle", "take", "yielded", "ended"}, late : {0, 1}]

CtpTypeOK ==
    /\ ctp \in Consumer /\ api \in Client
    /\ loop \in {"free", "look", "send"}

\* An instrument that the session has not been asked for is in somebody's hands: the login
\* callback has yet to send the list, or subscribe() has yet to look or to send.
InHand ==
    ctp.client /\ api.login_status /\ ~(api.symbols \subseteq api.asked)
        => api.callback = "logged_in" \/ loop \in {"look", "send"}

\* A tick has come late only if the consumer has not asked again since, and will find _stopped.
LateOnce ==
    ctp.late = 1 => ctp.at = "ended" \/ (ctp.at = "yielded" /\ ctp.stopped)

CtpInv == CtpTypeOK /\ InHand /\ LateOnce

-----------------------------------------------------------------------------
\* Names of a subscription are names the configuration or the callers know.
LEMMA InstrumentsKnown == \A S \in SUBSET CtpSymbols : Instruments(S) \in SUBSET Ids
  BY DEF Instruments, Ids

\* What is wanted are instruments.
LEMMA WantedKnown == ctp \in Consumer => Wanted \in SUBSET Ids
  BY InstrumentsKnown DEF Wanted, Consumer, Ids

\* A new client is not connected, not logged in and has asked for nothing.
LEMMA NewApiTyped ==
    ASSUME NEW S \in SUBSET Ids
    PROVE  NewApi(S) \in Client /\ NewApi(S).login_status = FALSE
  BY DEF NewApi, Client

\* What an update of the consumer leaves as it is.
LEMMA ConsumerUpdates ==
    ASSUME NEW c \in Consumer, NEW n \in {0, 1}, NEW where \in {"idle", "take", "yielded", "ended"}
    PROVE  /\ LET t == [c EXCEPT !.at = where, !.late = n]
              IN  t \in Consumer /\ t.at = where /\ t.late = n /\ t.stopped = c.stopped /\ t.client = c.client
           /\ LET t == [c EXCEPT !.at = where, !.late = n, !.stopped = FALSE, !.client = TRUE]
              IN  t \in Consumer /\ t.at = where /\ t.late = n
  BY DEF Consumer

\* The invariant holds when the gateway is made.
LEMMA CtpInitial == CtpInit => CtpInv
<1> SUFFICES ASSUME CtpInit PROVE CtpInv
  OBVIOUS
<1>1. ctp \in Consumer /\ ctp.client = FALSE /\ ctp.late = 0
  BY DEF CtpInit, Consumer
<1>2. api \in Client
  BY NewApiTyped DEF CtpInit
<1> QED
  BY <1>1, <1>2 DEF CtpInit, CtpInv, CtpTypeOK, InHand, LateOnce

\* Each step of the event loop and of the callbacks keeps it.
LEMMA CtpStep == CtpInv /\ [CtpNext]_ctpVars => CtpInv'
<1> SUFFICES ASSUME CtpInv, [CtpNext]_ctpVars PROVE CtpInv'
  OBVIOUS
<1> USE DEF CtpInv, CtpTypeOK
<1>1. CASE CtpBegin
  <2>1. CASE ctp.client
    <3>1. ctp' = [ctp EXCEPT !.at = "take", !.late = 0] /\ api' = api /\ loop' = loop
      BY <1>1, <2>1 DEF CtpBegin
    <3>2. ctp' \in Consumer /\ ctp'.late = 0 /\ ctp'.client = ctp.client
      BY <3>1, ConsumerUpdates
    <3>3. CtpTypeOK' /\ LateOnce'
      BY <3>1, <3>2 DEF LateOnce
    <3>4. InHand'
      BY <3>1, <3>2 DEF InHand
    <3> QED
      BY <3>1, <3>2 DEF InHand, LateOnce
  <2>2. CASE ~ctp.client /\ Wanted = {}
    <3>1. ctp' = [ctp EXCEPT !.at = "ended"] /\ api' = api /\ loop' = loop
      BY <1>1, <2>2 DEF CtpBegin
    <3>2. ctp' \in Consumer /\ ctp'.late = ctp.late /\ ctp'.at = "ended" /\ ctp'.client = ctp.client
      BY <3>1 DEF Consumer
    <3> QED
      BY <3>1, <3>2 DEF InHand, LateOnce
  <2>3. CASE ~ctp.client /\ Wanted # {}
    <3>1. api' = NewApi(Wanted) /\ loop' = loop
          /\ ctp' = [ctp EXCEPT !.at = "take", !.late = 0, !.stopped = FALSE, !.client = TRUE]
      BY <1>1, <2>3 DEF CtpBegin
    <3>2. api' \in Client /\ api'.login_status = FALSE
      BY <3>1, WantedKnown, NewApiTyped
    <3>3. ctp' \in Consumer /\ ctp'.late = 0
      BY <3>1, ConsumerUpdates
    <3> QED
      BY <3>1, <3>2, <3>3 DEF InHand, LateOnce
  <2> QED
    BY <2>1, <2>2, <2>3
<1>2. CASE TakeTick
  <2>1. ctp.late = 0
    BY <1>2 DEF TakeTick, LateOnce, Consumer
  <2>2. api' = api /\ loop' = loop
    BY <1>2 DEF TakeTick
  <2>3. CASE ctp.stopped
    <3>1. ctp' = [ctp EXCEPT !.at = "yielded", !.late = 0 + 1]
      BY <1>2, <2>1, <2>3 DEF TakeTick
    <3>2. ctp' = [ctp EXCEPT !.at = "yielded", !.late = 1]
      BY <3>1
    <3>3. ctp' \in Consumer /\ ctp'.at = "yielded" /\ ctp'.stopped = ctp.stopped /\ ctp'.client = ctp.client
      BY <3>2, ConsumerUpdates
    <3> QED
      BY <2>2, <2>3, <3>3 DEF InHand, LateOnce
  <2>4. CASE ~ctp.stopped
    <3>1. ctp' = [ctp EXCEPT !.at = "yielded", !.late = 0]
      BY <1>2, <2>1, <2>4 DEF TakeTick
    <3>2. ctp' \in Consumer /\ ctp'.late = 0 /\ ctp'.client = ctp.client
      BY <3>1, ConsumerUpdates
    <3> QED
      BY <2>2, <3>2 DEF InHand, LateOnce
  <2> QED
    BY <2>3, <2>4
<1>3. CASE ResumeCtp
  <2> DEFINE where == IF ctp.stopped THEN "ended" ELSE "take"
  <2>1. ctp' = [ctp EXCEPT !.at = where] /\ api' = api /\ loop' = loop
    BY <1>3 DEF ResumeCtp
  <2>2. where \in {"take", "ended"} /\ (ctp.stopped => where = "ended")
    OBVIOUS
  <2> HIDE DEF where
  <2>3. ctp' \in Consumer /\ ctp'.at = where /\ ctp'.late = ctp.late /\ ctp'.client = ctp.client
    BY <2>1, <2>2 DEF Consumer
  <2>4. ctp.at = "yielded"
    BY <1>3 DEF ResumeCtp
  <2> QED
    BY <2>1, <2>2, <2>3, <2>4 DEF InHand, LateOnce
<1>4. ASSUME NEW S \in SUBSET CtpSymbols, CtpSubscribe(S) PROVE CtpInv'
  <2>1. ctp' = [ctp EXCEPT !.symbols = S]
    BY <1>4 DEF CtpSubscribe
  <2>2. ctp' \in Consumer /\ ctp'.late = ctp.late /\ ctp'.at = ctp.at /\ ctp'.stopped = ctp.stopped /\ ctp'.client = ctp.client
    BY <2>1 DEF Consumer
  <2>3. CASE ctp.client
    <3>1. api' = [api EXCEPT !.symbols = Instruments(S)] /\ loop' = "look"
      BY <1>4, <2>3 DEF CtpSubscribe
    <3>2. api' \in Client
      BY <3>1, InstrumentsKnown DEF Client
    <3> QED
      BY <2>2, <3>1, <3>2 DEF InHand, LateOnce
  <2>4. CASE ~ctp.client
    BY <1>4, <2>2, <2>4 DEF CtpSubscribe, InHand, LateOnce
  <2> QED
    BY <2>3, <2>4
<1>5. CASE LookForLogin
  BY <1>5 DEF LookForLogin, InHand, LateOnce, Client
<1>6. CASE SendSubscriptions \/ SubscribeAll
  <2>1. api' = [api EXCEPT !.asked = Asked] \/ api' = [api EXCEPT !.asked = Asked, !.callback = "none"]
    BY <1>6 DEF SendSubscriptions, SubscribeAll
  <2>2. Asked \in SUBSET Ids /\ (api.login_status => api.symbols \subseteq Asked)
    BY DEF Asked, Client
  <2>3. api' \in Client /\ api'.symbols = api.symbols /\ api'.asked = Asked /\ api'.login_status = api.login_status
    BY <2>1, <2>2 DEF Client
  <2>4. ctp' = ctp /\ loop' \in {"free", "look", "send"}
    BY <1>6 DEF SendSubscriptions, SubscribeAll, Callback
  <2> QED
    BY <2>2, <2>3, <2>4 DEF InHand, LateOnce
<1>7. CASE CtpClose
  <2>1. api' = NewApi(api.symbols) /\ loop' = loop /\ ctp' = [ctp EXCEPT !.stopped = TRUE, !.client = FALSE]
    BY <1>7 DEF CtpClose
  <2>2. api' \in Client
    BY <2>1, NewApiTyped DEF Client
  <2>3. ctp' \in Consumer /\ ctp'.late = ctp.late /\ ctp'.at = ctp.at /\ ctp'.stopped = TRUE /\ ctp'.client = FALSE
    BY <2>1 DEF Consumer
  <2> QED
    BY <2>1, <2>2, <2>3 DEF InHand, LateOnce
<1>8. CASE OnFrontConnected
  BY <1>8 DEF OnFrontConnected, Callback, Client, InHand, LateOnce
<1>9. CASE OnRspUserLogin
  BY <1>9 DEF OnRspUserLogin, Callback, Client, InHand, LateOnce
<1>10. CASE OnFrontDisconnected
  BY <1>10 DEF OnFrontDisconnected, Callback, Client, InHand, LateOnce
<1>11. CASE \E i \in Ids : OnRtnDepthMarketData(i)
  BY <1>11 DEF OnRtnDepthMarketData, Callback, InHand, LateOnce
<1>12. CASE UNCHANGED ctpVars
  BY <1>12 DEF ctpVars, InHand, LateOnce
<1> QED
  BY <1>1, <1>2, <1>3, <1>4, <1>5, <1>6, <1>7, <1>8, <1>9, <1>10, <1>11, <1>12 DEF CtpNext, Ids

\* The invariant holds for ever.
LEMMA CtpAlways == CtpSpec => []CtpInv
  BY CtpInitial, CtpStep, PTL DEF CtpSpec

-----------------------------------------------------------------------------
\* A session that is logged in has been asked for every instrument of the last subscription
\* as soon as neither the login callback nor subscribe() is at work on the list
\* (simnow_ctp.py, _SimNowMdApi.subscribe and on_rsp_user_login).
THEOREM SubscribedOnBothThreads == CtpSpec => []CtpSubscribed
<1>1. CtpInv => CtpSubscribed
  BY DEF CtpInv, CtpTypeOK, InHand, CtpSubscribed
<1> QED
  BY CtpAlways, <1>1, PTL

\* However many ticks are in the queue when close() is called, ticks() yields one more at most.
THEOREM OneLateTick == CtpSpec => []LateTickAtMostOne
<1>1. CtpInv => LateTickAtMostOne
  BY DEF CtpInv, CtpTypeOK, Consumer, LateTickAtMostOne
<1> QED
  BY CtpAlways, <1>1, PTL

-----------------------------------------------------------------------------
(* The A-share gateway.                                                    *)

Source == [stopped : BOOLEAN, symbols : AShareSymbols, errors : Nat, chunks : Int,
           rows : Seq({"tick", "skip", "bad"})]

AShareLabels == Awaits \union {"next", "connect", "poll", "rows", "error", "raised"}

AShareTyped ==
    /\ pc \in AShareLabels
    /\ index \in 0 .. Len(Sources)
    /\ stopped \in BOOLEAN /\ closed \in BOOLEAN
    /\ symbols \in AShareSymbols
    /\ source \in Source
    /\ result \in {"none", "failed", "returned", "abandoned"}

\* A source that is left without having raised was stopped, and so is the whole.
LeftWhenStopped ==
    /\ pc = "idle" => index = 0 /\ ~source.stopped /\ ~closed
    /\ pc = "next" /\ index > 0 => index \in raised \/ stopped
    /\ pc \notin {"next", "ended"} /\ source.stopped => stopped
    /\ pc # "idle" /\ stopped => closed
    /\ pc \in {"connect", "poll", "fetch", "rows", "yielded", "pause", "error", "raised"} => index > 0
    /\ pc # "ended" => result = "none"

\* The consumer is told of a failure only if each source raised, or after close().
FailedOrClosed == result = "failed" => closed \/ \A i \in DOMAIN Sources : i \in raised

AShareInv == AShareTyped /\ LeftWhenStopped /\ FallbackOnFailure /\ SubscriptionReaches /\ FailedOrClosed

USE GatewayAssumption

\* A source that is created has the symbols it is given.
LEMMA NewSourceTyped == ASSUME NEW w \in AShareSymbols
                        PROVE  /\ NewSource(w) \in Source
                               /\ ~NewSource(w).stopped
                               /\ NewSource(w).symbols = w
  BY DEF NewSource, Source

\* What an update of one field leaves as it is.
LEMMA Updates ==
    ASSUME NEW s \in Source
    PROVE  /\ \A w \in AShareSymbols : LET t == [s EXCEPT !.symbols = w]
                                IN  t \in Source /\ t.symbols = w /\ t.stopped = s.stopped
           /\ \A n \in Int : LET t == [s EXCEPT !.chunks = n]
                           IN  t \in Source /\ t.symbols = s.symbols /\ t.stopped = s.stopped
           /\ \A r \in Seq({"tick", "skip", "bad"}) :
                 LET t == [s EXCEPT !.rows = r]
                 IN  /\ t \in Source /\ t.symbols = s.symbols /\ t.stopped = s.stopped
                     /\ t.chunks = s.chunks /\ t.errors = s.errors
           /\ \A n \in Nat : LET t == [s EXCEPT !.errors = n]
                           IN  t \in Source /\ t.symbols = s.symbols /\ t.stopped = s.stopped
  BY DEF Source

\* A poll that succeeds.
LEMMA FetchedUpdate ==
    ASSUME NEW s \in Source, NEW r \in Seq({"tick", "skip", "bad"}), NEW n \in Int
    PROVE  LET t == [s EXCEPT !.rows = r, !.chunks = n]
           IN  t \in Source /\ t.symbols = s.symbols /\ t.stopped = s.stopped
  BY DEF Source

\* A poll that fails.
LEMMA FailedUpdate ==
    ASSUME NEW s \in Source, NEW r \in Seq({"tick", "skip", "bad"}), NEW e \in Nat
    PROVE  LET t == [s EXCEPT !.errors = e, !.rows = r]
           IN  t \in Source /\ t.symbols = s.symbols /\ t.stopped = s.stopped
  BY DEF Source

\* At first no source has been tried.
LEMMA AShareInitial == AShareInit => AShareInv
  <1> SUFFICES ASSUME AShareInit PROVE AShareInv
    OBVIOUS
  <1>1. source \in Source /\ ~source.stopped
    BY NewSourceTyped DEF AShareInit
  <1>2. Len(Sources) \in Nat
    OBVIOUS
  <1>6. index = 0
    BY DEF AShareInit
  <1>7. index \in 0 .. Len(Sources)
    BY <1>2, <1>6
  <1>8. stopped \in BOOLEAN /\ closed \in BOOLEAN
    BY Zenon DEF AShareInit
  <1>3. AShareTyped
    BY <1>1, <1>7, <1>8 DEF AShareInit, AShareTyped, AShareLabels, Awaits
  <1>4. LeftWhenStopped
    BY <1>1 DEF AShareInit, LeftWhenStopped
  <1>5. FallbackOnFailure
    <2>1. SUFFICES ASSUME NEW i \in 1 .. index - 1 PROVE FALSE
      BY DEF FallbackOnFailure
    <2>2. index - 1 = -1
      BY <1>6
    <2>3. i \in 1 .. -1
      BY <2>1, <2>2
    <2> QED BY <2>3
  <1> QED BY <1>3, <1>4, <1>5 DEF AShareInit, AShareInv, SubscriptionReaches, FailedOrClosed

\* Steps of AutoAShareGateway.
LEMMA AutoSteps ==
    ASSUME AShareInv, Begin \/ Exhausted \/ TryNext \/ ResumeTicks \/ Abandon \/ SourceRaised \/ Close
    PROVE  AShareInv'
  <1> USE DEF AShareInv, AShareTyped, LeftWhenStopped, FallbackOnFailure, SubscriptionReaches, FailedOrClosed,
          AShareLabels, Awaits, Here, GoTo
  <1>1. CASE Begin
    <2>1. index = 0
      BY <1>1 DEF Begin
    <2>2. FallbackOnFailure'
      BY <1>1, <2>1 DEF Begin
    <2>3. stopped' \in BOOLEAN /\ ~stopped'
      BY <1>1, Zenon DEF Begin
    <2>4. pc' = "next" /\ UNCHANGED <<index, symbols, source, raised, result, closed>>
      BY <1>1 DEF Begin
    <2>5. AShareTyped'
      BY <2>3, <2>4
    <2>6. LeftWhenStopped'
      BY <1>1, <2>1, <2>3, <2>4 DEF Begin
    <2>7. SubscriptionReaches' /\ FailedOrClosed'
      BY <1>1, <2>1, <2>3, <2>4 DEF Begin
    <2> QED BY <2>2, <2>5, <2>6, <2>7
  <1>2. CASE Exhausted   BY <1>2 DEF Exhausted
  <1>3. CASE TryNext
    <2>1. source' \in Source /\ (source' = source \/ (~source'.stopped /\ source'.symbols = symbols))
      BY <1>3, NewSourceTyped DEF TryNext
    <2>2. CASE stopped BY <1>3, <2>1, <2>2 DEF TryNext
    <2>3. CASE ~stopped
      <3>1. index' = index + 1 /\ pc' = "connect" /\ source' = NewSource(symbols)
        BY <1>3, <2>3 DEF TryNext
      <3>2. index' \in 1 .. Len(Sources)
        BY <1>3, <3>1 DEF TryNext
      <3>3. FallbackOnFailure'
        BY <1>3, <2>3, <3>1 DEF TryNext
      <3> QED BY <1>3, <2>3, <3>1, <3>2, <3>3, NewSourceTyped DEF TryNext
    <2> QED BY <2>2, <2>3
  <1>4. CASE ResumeTicks BY <1>4 DEF ResumeTicks, Source
  <1>5. CASE Abandon     BY <1>5 DEF Abandon
  <1>6. CASE SourceRaised BY <1>6 DEF SourceRaised, Source
  <1>7. CASE Close       BY <1>7 DEF Close, Source
  <1> QED BY <1>1, <1>2, <1>3, <1>4, <1>5, <1>6, <1>7

\* A subscription reaches the source there is.
LEMMA SubscribeStep == ASSUME AShareInv, NEW wanted \in AShareSymbols, Subscribe(wanted) PROVE AShareInv'
  <1>1. source \in Source
    BY DEF AShareInv, AShareTyped
  <1>2. /\ source' \in Source /\ source'.stopped = source.stopped
        /\ index > 0 => source'.symbols = wanted
    BY <1>1, Updates DEF Subscribe, AShareInv, AShareTyped
  <1> QED BY <1>2 DEF Subscribe, AShareInv, AShareTyped, LeftWhenStopped, FallbackOnFailure, SubscriptionReaches,
          FailedOrClosed, AShareLabels, Awaits

\* A step of a polling gateway that only moves on within it.
LEMMA WithinSource ==
    ASSUME AShareInv, pc \in AShareLabels \ {"idle", "next", "ended"},
           pc' \in AShareLabels \ {"idle", "next", "ended"},
           source' \in Source, source'.symbols = source.symbols,
           source'.stopped => source.stopped,
           UNCHANGED <<index, stopped, symbols, raised, result, closed>>
    PROVE  AShareInv'
  BY DEF AShareInv, AShareTyped, LeftWhenStopped, FallbackOnFailure, SubscriptionReaches, FailedOrClosed, AShareLabels, Awaits

\* Steps of a polling gateway.
LEMMA PollingSteps ==
    ASSUME AShareInv, Connect \/ Poll \/ Fetched \/ NextRow \/ RowsDone \/ PollFailed \/ PauseOver
    PROVE  AShareInv'
  <1>0. /\ source \in Source /\ source.rows \in Seq({"tick", "skip", "bad"})
        /\ source.chunks \in Int /\ source.errors \in Nat
    BY DEF AShareInv, AShareTyped, Source
  <1> USE <1>0 DEF Here, GoTo, AShareLabels, Awaits
  <1>1. CASE Connect  BY <1>1, WithinSource DEF Connect, Source
  <1>2. CASE Poll
    <2>1. index \in DOMAIN Sources
      BY <1>2 DEF Poll, AShareInv, AShareTyped, LeftWhenStopped
    <2>2. Chunks[Sources[index]] \in Int
      BY <2>1
    <2>3. source' \in Source /\ source'.symbols = source.symbols /\ source'.stopped = source.stopped
      BY <1>2, <2>2, Updates DEF Poll
    <2>4. CASE source.stopped
      BY <1>2, <2>3, <2>4 DEF Poll, AShareInv, AShareTyped, LeftWhenStopped, FallbackOnFailure, SubscriptionReaches,
         FailedOrClosed
    <2>5. CASE ~source.stopped
      BY <1>2, <2>3, <2>5, WithinSource DEF Poll
    <2> QED BY <2>4, <2>5
  <1>3. CASE Fetched
    <2>1. CASE \E batch \in Batches : source' = [source EXCEPT !.rows = batch, !.chunks = @ - 1]
      <3>1. PICK batch \in Batches : source' = [source EXCEPT !.rows = batch, !.chunks = @ - 1]
        BY <2>1
      <3> DEFINE left == source.chunks - 1
      <3>2. batch \in Seq({"tick", "skip", "bad"}) /\ left \in Int
        OBVIOUS
      <3>3. source' = [source EXCEPT !.rows = batch, !.chunks = left]
        BY <3>1
      <3> HIDE DEF left
      <3>4. source' \in Source /\ source'.symbols = source.symbols /\ source'.stopped = source.stopped
        BY <3>2, <3>3, FetchedUpdate
      <3> QED BY <1>3, <3>4, WithinSource DEF Fetched
    <2>2. CASE UNCHANGED source
      BY <1>3, <2>2, WithinSource DEF Fetched
    <2> QED BY <1>3, <2>1, <2>2 DEF Fetched
  <1>4. CASE NextRow
    <2>1. Tail(source.rows) \in Seq({"tick", "skip", "bad"}) /\ Head(source.rows) \in {"tick", "skip", "bad"}
      BY <1>4 DEF NextRow
    <2>2. source' \in Source /\ source'.symbols = source.symbols /\ source'.stopped = source.stopped
      BY <1>4, <2>1, Updates DEF NextRow
    <2>3. pc' \in {"yielded", "rows", "error"}
      BY <1>4, <2>1 DEF NextRow
    <2> QED BY <1>4, <2>2, <2>3, WithinSource DEF NextRow
  <1>5. CASE RowsDone
    <2>1. source' \in Source /\ source'.symbols = source.symbols /\ source'.stopped = source.stopped
      <3> DEFINE none == 0
      <3>1. none \in Nat /\ (UNCHANGED source \/ source' = [source EXCEPT !.errors = none])
        BY <1>5 DEF RowsDone
      <3> HIDE DEF none
      <3>2. CASE UNCHANGED source
        BY <1>0, <3>2
      <3>3. CASE source' = [source EXCEPT !.errors = none]
        BY <3>1, <3>3, Updates
      <3> QED BY <3>1, <3>2, <3>3
    <2> QED BY <1>5, <2>1, WithinSource DEF RowsDone
  <1>6. CASE PollFailed
    <2>1. source' \in Source /\ source'.symbols = source.symbols /\ source'.stopped = source.stopped
      <3> DEFINE more == source.errors + 1
                 nothing == <<>>
      <3>1. /\ more \in Nat /\ nothing \in Seq({"tick", "skip", "bad"})
            /\ source' = [source EXCEPT !.errors = more, !.rows = nothing]
        BY <1>6 DEF PollFailed
      <3> HIDE DEF more, nothing
      <3> QED BY <3>1, FailedUpdate
    <2> QED BY <1>6, <2>1, WithinSource DEF PollFailed
  <1>7. CASE PauseOver BY <1>7, WithinSource DEF PauseOver
  <1> QED BY <1>1, <1>2, <1>3, <1>4, <1>5, <1>6, <1>7

\* Every step keeps AShareInv.
LEMMA AShareStep == AShareInv /\ [AShareNext]_ashareVars => AShareInv'
  <1> SUFFICES ASSUME AShareInv, [AShareNext]_ashareVars PROVE AShareInv'
    OBVIOUS
  <1>1. CASE UNCHANGED ashareVars
    BY <1>1 DEF ashareVars, AShareInv, AShareTyped, LeftWhenStopped, FallbackOnFailure, SubscriptionReaches, FailedOrClosed
  <1>2. CASE AShareNext
    BY <1>2, AutoSteps, SubscribeStep, PollingSteps DEF AShareNext, AShareTicks
  <1> QED BY <1>1, <1>2

\* It holds in every state.
LEMMA AShareAlways == AShareSpec => []AShareInv
  BY AShareInitial, AShareStep, PTL DEF AShareSpec

\* "The fallback switches only if the current source raises": for any list of
\* sources, those before the current one have all raised, wherever close() and
\* subscribe() are called.
THEOREM FallbackIsOrdered == AShareSpec => []FallbackOnFailure
  BY AShareAlways, PTL DEF AShareInv

\* A subscription made while any source is in use reaches the current one.
THEOREM SubscriptionIsUsed == AShareSpec => []SubscriptionReaches
  BY AShareAlways, PTL DEF AShareInv

\* What remains true of "all sources failed": it is said only then, or after close().
THEOREM FailureIsReported == AShareSpec => []FailedOrClosed
  BY AShareAlways, PTL DEF AShareInv
=============================================================================
