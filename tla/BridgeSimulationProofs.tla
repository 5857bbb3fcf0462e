------------------------ MODULE BridgeSimulationProofs ------------------------
(***************************************************************************)
(* What holds however many worker threads race with the tick loop, for any *)
(* symbols, order ids, ticks and requests: every step finds the values it  *)
(* needs, no money is made or lost, every trade is charged and settled     *)
(* once, and no order is forgotten between a submission and a tick.        *)
(***************************************************************************)
EXTENDS BridgeSimulation, FiniteSetTheorems, TLAPS

-----------------------------------------------------------------------------
(* What the rules of the engine return, for any order, tick, position and     *)
(* trade.                                                                      *)

\* What a request becomes is an order.
LEMMA NewOrderType ==
    ASSUME NEW req \in Requests, NEW status \in OrderStatus
    PROVE  NewOrder(req, status) \in Order
BY ConfigAssumption DEF NewOrder, Order, OrderRequest

\* A match is a trade, whatever quotes the tick is missing.
LEMMA TradeOfType ==
    ASSUME NEW id \in OrderIds, NEW order \in Order, NEW tick \in Tick
    PROVE  TradeOf(id, order, tick) \in Trade
<1>1. MatchPrice(order, tick) \in Int
  BY ConfigAssumption DEF MatchPrice, ApplySlippage, OrElse, OppositeQuote, Tick, Order
<1>2. Remaining(order) \in Int
  BY DEF Remaining, Order
<1> QED BY <1>1, <1>2 DEF TradeOf, Trade, Order

\* The quotient is used only with a positive divisor: TLA+ leaves the others
\* undefined, and the code divides by the volume just increased.
LEMMA QuotientType ==
    ASSUME NEW a \in Int, NEW b \in Int, b > 0
    PROVE  a \div b \in Int
OBVIOUS

\* Opening adds to a position and averages its price.
LEMMA OpenedType ==
    ASSUME NEW position \in Position, NEW trade \in Trade, trade.volume > 0,
           position.long_volume >= 0, position.short_volume >= 0
    PROVE  Opened(position, trade) \in Position
<1> DEFINE avg(a, had) == AveragePrice(a, had, trade.price, trade.volume)
<1>1. ASSUME NEW a \in Int, NEW had \in Int, had >= 0 PROVE avg(a, had) \in Int
  <2>1. a * had + trade.price * trade.volume \in Int
    BY <1>1 DEF Trade
  <2>2. had + trade.volume \in Int /\ had + trade.volume > 0
    BY <1>1 DEF Trade
  <2> QED BY <2>1, <2>2, QuotientType DEF AveragePrice
<1>2. avg(position.long_avg_price, position.long_volume) \in Int
  BY <1>1 DEF Position
<1>3. avg(position.short_avg_price, position.short_volume) \in Int
  BY <1>1 DEF Position
<1>5. CASE trade.direction = "LONG"
  <2> DEFINE v == position.long_volume + trade.volume
             a == avg(position.long_avg_price, position.long_volume)
  <2>1. Opened(position, trade) = [position EXCEPT !.long_volume = v, !.long_avg_price = a]
    BY <1>5 DEF Opened, Position
  <2>2. v \in Int
    BY DEF Position, Trade
  <2> HIDE DEF v, a
  <2> QED BY <2>1, <2>2, <1>2 DEF Position, a
<1>4. CASE trade.direction # "LONG"
  <2> DEFINE v == position.short_volume + trade.volume
             a == avg(position.short_avg_price, position.short_volume)
  <2>1. Opened(position, trade) = [position EXCEPT !.short_volume = v, !.short_avg_price = a]
    BY <1>4 DEF Opened, Position
  <2>2. v \in Int
    BY DEF Position, Trade
  <2> HIDE DEF v, a
  <2> QED BY <2>1, <2>2, <1>3 DEF Position, a
<1> QED BY <1>5, <1>4

\* What is closed is clipped to what is held.
LEMMA CloseVolumeType ==
    ASSUME NEW position \in Position, NEW trade \in Trade
    PROVE  CloseVolume(position, trade) \in Int
BY DEF CloseVolume, Closable, Least, Position, Trade

\* A position with other numbers is a position.
LEMMA PositionUpdate ==
    ASSUME NEW position \in Position, NEW v \in Int, NEW a \in Int
    PROVE  /\ [position EXCEPT !.long_volume = v] \in Position
           /\ [position EXCEPT !.short_volume = v] \in Position
           /\ [position EXCEPT !.long_volume = v, !.long_avg_price = a] \in Position
           /\ [position EXCEPT !.short_volume = v, !.short_avg_price = a] \in Position
BY DEF Position

\* Closing leaves a position.
LEMMA ClosedType ==
    ASSUME NEW position \in Position, NEW trade \in Trade, NEW closed \in Int
    PROVE  Closed(position, trade, closed) \in Position
<1> DEFINE long == position.long_volume - closed
           short == position.short_volume - closed
           none == 0
<1>1. long \in Int /\ short \in Int /\ none \in Int
  BY DEF Position
<1>2. \/ Closed(position, trade, closed)
           = [position EXCEPT !.long_volume = none, !.long_avg_price = none]
      \/ Closed(position, trade, closed) = [position EXCEPT !.long_volume = long]
      \/ Closed(position, trade, closed)
           = [position EXCEPT !.short_volume = none, !.short_avg_price = none]
      \/ Closed(position, trade, closed) = [position EXCEPT !.short_volume = short]
  BY DEF Closed
<1> HIDE DEF long, short, none
<1>3. /\ [position EXCEPT !.long_volume = none, !.long_avg_price = none] \in Position
      /\ [position EXCEPT !.short_volume = none, !.short_avg_price = none] \in Position
      /\ [position EXCEPT !.long_volume = long] \in Position
      /\ [position EXCEPT !.short_volume = short] \in Position
  BY <1>1, PositionUpdate
<1> QED BY <1>2, <1>3

USE ConfigAssumption, ThreadAssumption

-----------------------------------------------------------------------------
(* The inductive invariant.                                                 *)

Frame == [id : OrderIds \union {NoOrder}, order : Order \union {NoOrder},
          tick : Tick \union {NoTick}, trade : Trade \union {NoOrder},
          closed : Int, todo : SUBSET OrderIds, keys : SUBSET Symbols]

Stored(id) == id \in OrderIds /\ orders[id] # NoOrder

\* The volumes of a position stay natural, although a close may be clipped to a
\* position that another thread reduces before it is settled.
Held(position) == position.long_volume >= 0 /\ position.short_volume >= 0

TradeReady(t) == frame[t].trade \in Trade /\ frame[t].trade.volume > 0

\* What a thread carries at each point of its call.
Carries(t) ==
    /\ pc[t] = "store" => frame[t].id \in OrderIds /\ frame[t].order \in Order
    /\ pc[t] \in {"look", "check", "fill", "book", "mark", "drop", "charge", "clip", "settle"}
         => Stored(frame[t].id)
    /\ pc[t] \in {"check", "fill"} => frame[t].tick \in Tick
    /\ pc[t] \in {"book", "mark", "charge", "clip", "settle"} => TradeReady(t)
    /\ pc[t] = "drop" => frame[t].trade = NoOrder \/ TradeReady(t)
    /\ frame[t].closed >= 0
    /\ \A o \in frame[t].todo : Stored(o)
    /\ t = Feed => /\ pc[t] \notin {"store", "look"}
                   /\ pc[t] # "idle" => frame[t].tick \in Tick
    /\ t # Feed => pc[t] \notin {"value", "walk", "list", "loop"}

ThreadsSound ==
    /\ pc \in [Threads -> Label]
    /\ frame \in [Threads -> Frame]
    /\ \A t \in Threads : Carries(t)

AccountSound == account \in [balance : Int, available : Int, realized_pnl : Int, commission : Int]

PositionsSound ==
    /\ positions \in [Symbols -> Position]
    /\ \A s \in Symbols : Held(positions[s])
    /\ held \subseteq Symbols

OrdersSound ==
    /\ orders \in [OrderIds -> Order \union {NoOrder}]
    /\ active_order_ids \subseteq OrderIds
    /\ abandoned \subseteq OrderIds
    /\ \A o \in active_order_ids : Stored(o)

MarketSound ==
    /\ trades \in Seq(Trade)
    /\ last_ticks \in [Symbols -> Tick \union {NoTick}]
    /\ lock \in {NoThread, Feed}

Inv == /\ ThreadsSound /\ AccountSound /\ PositionsSound /\ OrdersSound /\ MarketSound
       /\ BalanceIdentity

-----------------------------------------------------------------------------
(* A step of one thread.                                                    *)

\* The other threads are where they were, and no stored order disappears.
LEMMA OneThread ==
    ASSUME ThreadsSound, NEW t \in Threads, NEW f \in Frame, NEW label \in Label,
           frame' = [frame EXCEPT ![t] = f], pc' = [pc EXCEPT ![t] = label],
           \A o \in OrderIds : orders[o] # NoOrder => orders'[o] # NoOrder,
           Carries(t)'
    PROVE  ThreadsSound'
<1>1. pc' \in [Threads -> Label] /\ frame' \in [Threads -> Frame]
  BY DEF ThreadsSound
<1>2. ASSUME NEW u \in Threads, u # t PROVE Carries(u)'
  <2>1. Carries(u) /\ frame'[u] = frame[u] /\ pc'[u] = pc[u]
    BY <1>2 DEF ThreadsSound
  <2>2. \A o : Stored(o) => Stored(o)'
    BY DEF Stored
  <2> QED BY <2>1, <2>2 DEF Carries, TradeReady
<1> QED BY <1>1, <1>2 DEF ThreadsSound

LEMMA NoFrameType ==
    NoFrame \in Frame /\ NoFrame.closed >= 0 /\ NoFrame.todo = {} /\ NoFrame.trade = NoOrder
BY DEF NoFrame, Frame

LEMMA FrameUpdate ==
    ASSUME NEW f \in Frame
    PROVE  /\ \A x \in OrderIds : [f EXCEPT !.id = x] \in Frame
           /\ \A x \in Order \union {NoOrder} : [f EXCEPT !.order = x] \in Frame
           /\ \A x \in Tick : [f EXCEPT !.tick = x] \in Frame
           /\ \A x \in Trade : [f EXCEPT !.trade = x] \in Frame
           /\ \A x \in Int : [f EXCEPT !.closed = x] \in Frame
           /\ \A x \in SUBSET OrderIds : [f EXCEPT !.todo = x] \in Frame
           /\ \A x \in SUBSET Symbols : [f EXCEPT !.keys = x] \in Frame
BY DEF Frame

\* The end of a matching attempt.
LEMMA ReturnStep ==
    ASSUME ThreadsSound, NEW t \in Threads, pc[t] # "idle", Return(t),
           \A o \in OrderIds : orders[o] # NoOrder => orders'[o] # NoOrder
    PROVE  ThreadsSound'
<1>1. frame[t] \in Frame /\ Carries(t)
  BY DEF ThreadsSound
<1>2. CASE t = Feed
  <2> DEFINE f == [NoFrame EXCEPT !.tick = frame[t].tick, !.todo = frame[t].todo]
  <2>1. f \in Frame /\ f.closed = 0 /\ f.tick = frame[t].tick /\ f.todo = frame[t].todo
    BY <1>1, NoFrameType DEF Frame, NoFrame
  <2>2. frame' = [frame EXCEPT ![t] = f] /\ pc' = [pc EXCEPT ![t] = "loop"]
    BY <1>2 DEF Return, Goto
  <2> HIDE DEF f
  <2>3. frame'[t] = f /\ pc'[t] = "loop"
    BY <2>2 DEF ThreadsSound
  <2>4. \A o : Stored(o) => Stored(o)'
    BY DEF Stored
  <2>5. Carries(t)'
    BY <1>1, <1>2, <2>1, <2>3, <2>4 DEF Carries
  <2> QED BY <2>1, <2>2, <2>5, OneThread DEF Label
<1>3. CASE t # Feed
  <2>1. frame' = [frame EXCEPT ![t] = NoFrame] /\ pc' = [pc EXCEPT ![t] = "idle"]
    BY <1>3 DEF Return, Goto
  <2>2. frame'[t] = NoFrame /\ pc'[t] = "idle"
    BY <2>1 DEF ThreadsSound
  <2>3. Carries(t)'
    BY <1>3, <2>2, NoFrameType DEF Carries
  <2> QED BY <2>1, <2>3, NoFrameType, OneThread DEF Label
<1> QED BY <1>2, <1>3

\* Steps that leave the engine alone disturb the threads only.
LEMMA EngineUnchanged ==
    ASSUME Inv, ThreadsSound', UNCHANGED <<engine, lock>>
    PROVE  Inv'
BY DEF Inv, engine, AccountSound, PositionsSound, OrdersSound, MarketSound, Stored, BalanceIdentity

-----------------------------------------------------------------------------
(* submit_order and cancel_order.                                           *)

LEMMA ValidateInv ==
    ASSUME Inv, NEW t \in Clients, NEW id \in OrderIds, NEW req \in Requests, Validate(t, id, req)
    PROVE  Inv'
<1> DEFINE verdict == IF Refused(req, positions[req.vt_symbol]) THEN "REJECTED" ELSE "NOT_TRADED"
           order == NewOrder(req, verdict)
           f == [NoFrame EXCEPT !.id = id, !.order = order]
<1>1. order \in Order
  BY NewOrderType DEF OrderStatus
<1>2. /\ frame' = [frame EXCEPT ![t] = f] /\ pc' = [pc EXCEPT ![t] = "store"]
      /\ UNCHANGED <<engine, lock>>
  BY DEF Validate, Goto
<1> HIDE DEF order
<1>3. f \in Frame /\ f.id = id /\ f.order = order /\ f.closed = 0 /\ f.todo = {}
  <2> DEFINE g == [NoFrame EXCEPT !.id = id]
  <2>1. g \in Frame /\ g.id = id /\ g.closed = 0 /\ g.todo = {}
    BY DEF NoFrame, Frame
  <2>2. f = [g EXCEPT !.order = order]
    BY DEF NoFrame
  <2> HIDE DEF g, f
  <2> QED BY <1>1, <2>1, <2>2 DEF Frame
<1> HIDE DEF f
<1>4. t \in Threads /\ t # Feed
  BY DEF Threads
<1>5. frame'[t] = f /\ pc'[t] = "store"
  BY <1>2, <1>4 DEF Inv, ThreadsSound
<1>6. Carries(t)'
  BY <1>1, <1>3, <1>4, <1>5 DEF Carries
<1>7. ThreadsSound'
  BY <1>2, <1>3, <1>4, <1>6, OneThread DEF Inv, Label, engine
<1> QED BY <1>2, <1>7, EngineUnchanged

LEMMA StoreOrderInv ==
    ASSUME Inv, NEW t \in Clients, StoreOrder(t)
    PROVE  Inv'
<1> DEFINE id == frame[t].id
<1>1. t \in Threads /\ t # Feed /\ pc[t] = "store" /\ frame[t] \in Frame /\ Carries(t)
  BY DEF Threads, StoreOrder, At, Inv, ThreadsSound
<1>2. id \in OrderIds /\ frame[t].order \in Order
  BY <1>1 DEF Carries
<1>3. orders' = [orders EXCEPT ![id] = frame[t].order]
  BY DEF StoreOrder
<1>4. /\ orders' \in [OrderIds -> Order \union {NoOrder}] /\ orders'[id] # NoOrder
      /\ \A o \in OrderIds : orders[o] # NoOrder => orders'[o] # NoOrder
  BY <1>2, <1>3 DEF Inv, OrdersSound
<1>5. ThreadsSound' /\ OrdersSound'
  <2>1. CASE frame[t].order.status = "REJECTED" /\ Return(t) /\ UNCHANGED active_order_ids
    <3>1. ThreadsSound'
      BY <1>1, <1>4, <2>1, ReturnStep DEF Inv
    <3>2. OrdersSound'
      BY <1>4, <2>1 DEF StoreOrder, Inv, OrdersSound, Stored
    <3> QED BY <3>1, <3>2
  <2>2. CASE /\ active_order_ids' = active_order_ids \union {id}
             /\ frame' = [frame EXCEPT ![t].order = NoOrder]
             /\ Goto(t, "look")
    <3> DEFINE f == [frame[t] EXCEPT !.order = NoOrder]
    <3>1. f \in Frame /\ f.id = id /\ f.closed = frame[t].closed /\ f.todo = frame[t].todo
      BY <1>1 DEF Frame
    <3>2. frame' = [frame EXCEPT ![t] = f] /\ pc' = [pc EXCEPT ![t] = "look"]
      BY <2>2 DEF Goto
    <3> HIDE DEF f
    <3>3. frame'[t] = f /\ pc'[t] = "look"
      BY <1>1, <3>2 DEF Inv, ThreadsSound
    <3>4. \A o : Stored(o) => Stored(o)'
      BY <1>4 DEF Stored
    <3>5. Carries(t)'
      BY <1>1, <1>2, <1>4, <3>1, <3>3, <3>4 DEF Carries, Stored
    <3>6. ThreadsSound'
      BY <1>1, <1>4, <3>1, <3>2, <3>5, OneThread DEF Inv, Label
    <3>7. OrdersSound'
      BY <1>2, <1>4, <2>2 DEF StoreOrder, Inv, OrdersSound, Stored
    <3> QED BY <3>6, <3>7
  <2> QED BY <2>1, <2>2 DEF StoreOrder
<1> QED BY <1>5 DEF StoreOrder, Inv, AccountSound, PositionsSound, MarketSound, BalanceIdentity

LEMMA LookUpTickInv ==
    ASSUME Inv, NEW t \in Clients, LookUpTick(t)
    PROVE  Inv'
<1> DEFINE tick == last_ticks[orders[frame[t].id].vt_symbol]
<1>1. t \in Threads /\ t # Feed /\ pc[t] = "look" /\ frame[t] \in Frame /\ Carries(t)
  BY DEF Threads, LookUpTick, At, Inv, ThreadsSound
<1>2. UNCHANGED <<engine, lock>>
  BY DEF LookUpTick
<1>3. CASE Return(t)
  BY <1>1, <1>2, <1>3, ReturnStep, EngineUnchanged DEF Inv, engine
<1>4. CASE tick # NoTick /\ frame' = [frame EXCEPT ![t].tick = tick] /\ Goto(t, "check")
  <2>1. Stored(frame[t].id)
    BY <1>1 DEF Carries
  <2>2. orders[frame[t].id].vt_symbol \in Symbols
    BY <2>1 DEF Stored, Inv, OrdersSound, Order
  <2>3. tick \in Tick
    BY <1>4, <2>2 DEF Inv, MarketSound
  <2> DEFINE f == [frame[t] EXCEPT !.tick = tick]
  <2>4. frame' = [frame EXCEPT ![t] = f] /\ pc' = [pc EXCEPT ![t] = "check"]
    BY <1>4 DEF Goto
  <2> HIDE DEF tick
  <2>5. /\ f \in Frame /\ f.tick = tick /\ f.id = frame[t].id
        /\ f.closed = frame[t].closed /\ f.todo = frame[t].todo
    BY <1>1, <2>3 DEF Frame
  <2> HIDE DEF f
  <2>6. frame'[t] = f /\ pc'[t] = "check"
    BY <1>1, <2>4 DEF Inv, ThreadsSound
  <2>7. Carries(t)'
    BY <1>1, <1>2, <2>1, <2>3, <2>5, <2>6 DEF Carries, Stored, engine
  <2>8. ThreadsSound'
    BY <1>1, <1>2, <2>4, <2>5, <2>7, OneThread DEF Inv, Label, engine
  <2> QED BY <1>2, <2>8, EngineUnchanged
<1> QED BY <1>3, <1>4 DEF LookUpTick

LEMMA CancelOrderInv ==
    ASSUME Inv, NEW t \in Clients, NEW id \in OrderIds, CancelOrder(t, id)
    PROVE  Inv'
<1> DEFINE order == [orders[id] EXCEPT !.status = "CANCELLED"]
           f == [NoFrame EXCEPT !.id = id]
<1>1. t \in Threads /\ t # Feed /\ orders[id] # NoOrder
  BY DEF Threads, CancelOrder
<1>2. orders' = [orders EXCEPT ![id] = order]
  BY DEF CancelOrder
<1>3. order \in Order
  <2>1. orders[id] \in Order
    BY <1>1 DEF Inv, OrdersSound
  <2> QED BY <2>1 DEF Order, OrderStatus
<1> HIDE DEF order
<1>4. /\ orders' \in [OrderIds -> Order \union {NoOrder}] /\ orders'[id] # NoOrder
      /\ \A o \in OrderIds : orders[o] # NoOrder => orders'[o] # NoOrder
  BY <1>2, <1>3 DEF Inv, OrdersSound
<1>5. frame' = [frame EXCEPT ![t] = f] /\ pc' = [pc EXCEPT ![t] = "drop"]
  BY DEF CancelOrder, Goto
<1>6. f \in Frame /\ f.id = id /\ f.trade = NoOrder /\ f.closed = 0 /\ f.todo = {}
  BY DEF NoFrame, Frame
<1> HIDE DEF f
<1>7. frame'[t] = f /\ pc'[t] = "drop"
  BY <1>1, <1>5 DEF Inv, ThreadsSound
<1>8. Carries(t)'
  BY <1>1, <1>4, <1>6, <1>7 DEF Carries, Stored
<1>9. ThreadsSound'
  BY <1>1, <1>4, <1>5, <1>6, <1>8, OneThread DEF Inv, Label
<1>10. OrdersSound'
  BY <1>4 DEF CancelOrder, Inv, OrdersSound, Stored
<1> QED BY <1>9, <1>10
      DEF CancelOrder, Inv, AccountSound, PositionsSound, MarketSound, BalanceIdentity

-----------------------------------------------------------------------------
(* publish_tick and the loop of on_tick.                                    *)

LEMMA FeedFrame ==
    ASSUME Inv
    PROVE  Feed \in Threads /\ frame[Feed] \in Frame /\ Carries(Feed)
BY DEF Inv, ThreadsSound, Threads

LEMMA TickArrivesInv ==
    ASSUME Inv, NEW tick \in Ticks, TickArrives(tick)
    PROVE  Inv'
<1> DEFINE f == [NoFrame EXCEPT !.tick = tick]
<1>1. tick \in Tick
  OBVIOUS
<1>2. f \in Frame /\ f.tick = tick /\ f.closed = 0 /\ f.todo = {}
  BY <1>1 DEF NoFrame, Frame
<1>3. frame' = [frame EXCEPT ![Feed] = f] /\ pc' = [pc EXCEPT ![Feed] = "value"]
  BY DEF TickArrives, Goto
<1> HIDE DEF f
<1>4. frame'[Feed] = f /\ pc'[Feed] = "value"
  BY <1>3, FeedFrame DEF Inv, ThreadsSound
<1>5. Carries(Feed)'
  BY <1>1, <1>2, <1>4 DEF Carries
<1>6. ThreadsSound'
  BY <1>2, <1>3, <1>5, FeedFrame, OneThread DEF Inv, Label, TickArrives
<1>7. MarketSound'
  <2>1. tick.vt_symbol \in Symbols
    BY <1>1 DEF Tick
  <2> QED BY <1>1, <2>1 DEF TickArrives, Inv, MarketSound
<1> QED BY <1>6, <1>7
      DEF TickArrives, Inv, AccountSound, PositionsSound, OrdersSound, Stored, BalanceIdentity

\* The walk over the positions concerns the tick loop's own frame only.
LEMMA MarkingDoneInv ==
    ASSUME Inv, MarkingDone, pc[Feed] \in {"value", "walk"}, UNCHANGED <<engine, lock>>
    PROVE  Inv'
<1>1. CASE frame[Feed].trade # NoOrder
  <2>1. Return(Feed)
    BY <1>1 DEF MarkingDone
  <2> QED BY <2>1, FeedFrame, ReturnStep, EngineUnchanged DEF Inv, engine
<1>2. CASE frame[Feed].trade = NoOrder
  <2> DEFINE f == [frame[Feed] EXCEPT !.keys = {}]
  <2>1. frame' = [frame EXCEPT ![Feed] = f] /\ pc' = [pc EXCEPT ![Feed] = "list"]
    BY <1>2 DEF MarkingDone, Goto
  <2>2. /\ f \in Frame /\ f.tick = frame[Feed].tick /\ f.closed = frame[Feed].closed
        /\ f.todo = frame[Feed].todo
    BY FeedFrame DEF Frame
  <2> HIDE DEF f
  <2>3. frame'[Feed] = f /\ pc'[Feed] = "list"
    BY <2>1, FeedFrame DEF Inv, ThreadsSound
  <2>4. Carries(Feed)'
    BY <2>2, <2>3, FeedFrame DEF Carries, Stored, engine
  <2>5. ThreadsSound'
    BY <2>1, <2>2, <2>4, FeedFrame, OneThread DEF Inv, Label, engine
  <2> QED BY <2>5, EngineUnchanged
<1> QED BY <1>1, <1>2

LEMMA MarkingInv ==
    ASSUME Inv, StartMarking \/ EndMarking \/ MarkingFails
    PROVE  Inv'
<1>1. CASE (StartMarking /\ held = {}) \/ EndMarking
  BY <1>1, MarkingDoneInv DEF StartMarking, EndMarking, At
<1>2. CASE StartMarking /\ held # {}
  <2> DEFINE f == [frame[Feed] EXCEPT !.keys = held]
  <2>1. frame' = [frame EXCEPT ![Feed] = f] /\ pc' = [pc EXCEPT ![Feed] = "walk"]
    BY <1>2 DEF StartMarking, Goto
  <2>2. UNCHANGED <<engine, lock>> /\ pc[Feed] = "value"
    BY <1>2 DEF StartMarking, At
  <2>3. /\ f \in Frame /\ f.tick = frame[Feed].tick /\ f.closed = frame[Feed].closed
        /\ f.todo = frame[Feed].todo
    BY FeedFrame DEF Frame, Inv, PositionsSound
  <2> HIDE DEF f
  <2>4. frame'[Feed] = f /\ pc'[Feed] = "walk"
    BY <2>1, FeedFrame DEF Inv, ThreadsSound
  <2>5. Carries(Feed)'
    BY <2>2, <2>3, <2>4, FeedFrame DEF Carries, Stored, engine
  <2>6. ThreadsSound'
    BY <2>1, <2>2, <2>3, <2>5, FeedFrame, OneThread DEF Inv, Label, engine
  <2> QED BY <2>2, <2>6, EngineUnchanged
<1>3. CASE MarkingFails
  <2>1. /\ frame' = [frame EXCEPT ![Feed] = NoFrame] /\ pc' = [pc EXCEPT ![Feed] = "idle"]
        /\ UNCHANGED <<account, positions, held, orders, active_order_ids, trades, last_ticks>>
        /\ lock' = NoThread
    BY <1>3 DEF MarkingFails, Goto
  <2>2. frame'[Feed] = NoFrame /\ pc'[Feed] = "idle"
    BY <2>1, FeedFrame DEF Inv, ThreadsSound
  <2>3. Carries(Feed)'
    BY <2>2, NoFrameType DEF Carries
  <2>4. ThreadsSound'
    BY <2>1, <2>3, NoFrameType, FeedFrame, OneThread DEF Inv, Label
  <2>5. Unvisited \subseteq OrderIds
    BY FeedFrame DEF Unvisited, Inv, OrdersSound, Frame
  <2>6. OrdersSound'
    BY <1>3, <2>1, <2>5 DEF MarkingFails, Inv, OrdersSound, Stored
  <2> QED BY <2>1, <2>4, <2>6 DEF Inv, AccountSound, PositionsSound, MarketSound, BalanceIdentity
<1> QED BY <1>1, <1>2, <1>3 DEF StartMarking

LEMMA LoopStepInv ==
    ASSUME Inv, LoopStep
    PROVE  Inv'
<1>1. CASE ListActive
  <2> DEFINE f == [frame[Feed] EXCEPT !.todo = active_order_ids]
  <2>1. frame' = [frame EXCEPT ![Feed] = f] /\ pc' = [pc EXCEPT ![Feed] = "loop"]
    BY <1>1 DEF ListActive, Goto
  <2>2. UNCHANGED <<engine, lock>> /\ pc[Feed] = "list"
    BY <1>1 DEF ListActive, At
  <2>3. /\ f \in Frame /\ f.tick = frame[Feed].tick /\ f.closed = frame[Feed].closed
        /\ f.todo = active_order_ids
    BY FeedFrame DEF Frame, Inv, OrdersSound
  <2> HIDE DEF f
  <2>4. frame'[Feed] = f /\ pc'[Feed] = "loop"
    BY <2>1, FeedFrame DEF Inv, ThreadsSound
  <2>5. Carries(Feed)'
    BY <2>2, <2>3, <2>4, FeedFrame DEF Carries, Inv, OrdersSound, Stored, engine
  <2>6. ThreadsSound'
    BY <2>1, <2>2, <2>3, <2>5, FeedFrame, OneThread DEF Inv, Label, engine
  <2> QED BY <2>2, <2>6, EngineUnchanged
<1>2. ASSUME NEW id \in OrderIds, NextActive(id) PROVE Inv'
  <2> DEFINE f == [frame[Feed] EXCEPT !.todo = @ \ {id}, !.id = id]
             label == IF orders[id].vt_symbol = frame[Feed].tick.vt_symbol THEN "check" ELSE "loop"
  <2>1. frame' = [frame EXCEPT ![Feed] = f] /\ pc' = [pc EXCEPT ![Feed] = label]
    BY <1>2, FeedFrame DEF NextActive, Goto, Inv, ThreadsSound
  <2>2. UNCHANGED <<engine, lock>> /\ pc[Feed] = "loop" /\ id \in frame[Feed].todo
    BY <1>2 DEF NextActive, At
  <2>3. /\ f \in Frame /\ f.tick = frame[Feed].tick /\ f.closed = frame[Feed].closed
        /\ f.todo \subseteq frame[Feed].todo /\ f.id = id
    BY FeedFrame DEF Frame
  <2>4. label \in {"check", "loop"}
    OBVIOUS
  <2> HIDE DEF f, label
  <2>5. frame'[Feed] = f /\ pc'[Feed] = label
    BY <2>1, FeedFrame DEF Inv, ThreadsSound
  <2>6. Carries(Feed)'
    BY <2>2, <2>3, <2>4, <2>5, FeedFrame DEF Carries, Stored, engine
  <2>7. ThreadsSound'
    BY <2>1, <2>2, <2>3, <2>4, <2>6, FeedFrame, OneThread DEF Inv, Label, engine
  <2> QED BY <2>2, <2>7, EngineUnchanged
<1>3. CASE TickDone
  <2>1. frame' = [frame EXCEPT ![Feed] = NoFrame] /\ pc' = [pc EXCEPT ![Feed] = "idle"]
    BY <1>3 DEF TickDone, Goto
  <2>2. UNCHANGED engine /\ lock' = NoThread
    BY <1>3 DEF TickDone
  <2>3. frame'[Feed] = NoFrame /\ pc'[Feed] = "idle"
    BY <2>1, FeedFrame DEF Inv, ThreadsSound
  <2>4. Carries(Feed)'
    BY <2>3, NoFrameType DEF Carries
  <2>5. ThreadsSound'
    BY <2>1, <2>2, <2>4, NoFrameType, FeedFrame, OneThread DEF Inv, Label, engine
  <2> QED BY <2>2, <2>5
        DEF Inv, engine, AccountSound, PositionsSound, OrdersSound, MarketSound, Stored, BalanceIdentity
<1> QED BY <1>1, <1>2, <1>3, MarkingInv DEF LoopStep

-----------------------------------------------------------------------------
(* _try_match_order and _apply_trade, on any thread.                        *)

LEMMA OwnFrame ==
    ASSUME Inv, NEW t \in Threads
    PROVE  frame[t] \in Frame /\ Carries(t)
BY DEF Inv, ThreadsSound

\* A thread moves on with its frame unchanged.
LEMMA MovesOn ==
    ASSUME Inv, NEW t \in Threads, NEW label \in {"fill", "mark", "drop", "charge", "clip", "settle", "value"},
           Goto(t, label), UNCHANGED frame, Stored(frame[t].id),
           \A o \in OrderIds : orders[o] # NoOrder => orders'[o] # NoOrder,
           label = "fill" => frame[t].tick \in Tick, label # "fill" => TradeReady(t),
           pc[t] # "idle", label = "value" => t = Feed
    PROVE  ThreadsSound'
<1>1. pc' = [pc EXCEPT ![t] = label] /\ frame' = [frame EXCEPT ![t] = frame[t]]
  BY DEF Goto, Inv, ThreadsSound
<1>2. pc'[t] = label /\ frame'[t] = frame[t]
  BY <1>1 DEF Inv, ThreadsSound
<1>3. \A o : Stored(o) => Stored(o)'
  BY DEF Stored
<1>4. Carries(t)'
  BY <1>2, <1>3, OwnFrame DEF Carries, TradeReady
<1> QED BY <1>1, <1>4, OwnFrame, OneThread DEF Inv, Label

LEMMA DropActiveInv ==
    ASSUME Inv, NEW t \in Threads, DropActive(t)
    PROVE  Inv'
<1>1. pc[t] = "drop" /\ UNCHANGED <<account, positions, held, orders, trades, last_ticks, abandoned, lock>>
  BY DEF DropActive, At
<1>2. ThreadsSound'
  <2>1. CASE frame[t].trade = NoOrder
    BY <1>1, <2>1, ReturnStep DEF DropActive, Inv
  <2>2. CASE frame[t].trade # NoOrder
    <3>1. Goto(t, "charge") /\ UNCHANGED frame
      BY <2>2 DEF DropActive
    <3>2. Stored(frame[t].id) /\ TradeReady(t)
      BY <1>1, <2>2, OwnFrame DEF Carries
    <3> QED BY <1>1, <3>1, <3>2, MovesOn
  <2> QED BY <2>1, <2>2
<1>3. OrdersSound'
  BY <1>1 DEF DropActive, Inv, OrdersSound, Stored
<1> QED BY <1>1, <1>2, <1>3 DEF Inv, AccountSound, PositionsSound, MarketSound, BalanceIdentity

LEMMA CheckStatusInv ==
    ASSUME Inv, NEW t \in Threads, CheckStatus(t)
    PROVE  Inv'
<1>1. pc[t] = "check" /\ UNCHANGED <<engine, lock>>
  BY DEF CheckStatus, At
<1>2. CASE Return(t)
  BY <1>1, <1>2, ReturnStep, EngineUnchanged DEF Inv, engine
<1>3. CASE Goto(t, "fill") /\ UNCHANGED frame
  <2>1. Stored(frame[t].id) /\ frame[t].tick \in Tick
    BY <1>1, OwnFrame DEF Carries
  <2>2. ThreadsSound'
    BY <1>1, <1>3, <2>1, MovesOn DEF engine
  <2> QED BY <1>1, <2>2, EngineUnchanged
<1> QED BY <1>2, <1>3 DEF CheckStatus

LEMMA TakeFillInv ==
    ASSUME Inv, NEW t \in Threads, TakeFill(t)
    PROVE  Inv'
<1> DEFINE id == frame[t].id
           order == orders[id]
           trade == TradeOf(id, order, frame[t].tick)
<1>1. pc[t] = "fill" /\ UNCHANGED <<engine, lock>>
  BY DEF TakeFill, At
<1>2. CASE Return(t)
  BY <1>1, <1>2, ReturnStep, EngineUnchanged DEF Inv, engine
<1>3. CASE /\ Remaining(order) > 0
           /\ frame' = [frame EXCEPT ![t].trade = trade]
           /\ Goto(t, "book")
  <2>1. id \in OrderIds /\ order \in Order /\ frame[t].tick \in Tick /\ Stored(id)
    BY <1>1, OwnFrame DEF Carries, Stored, Inv, OrdersSound
  <2>2. trade \in Trade /\ trade.volume > 0
    BY <1>3, <2>1, TradeOfType DEF TradeOf
  <2> DEFINE f == [frame[t] EXCEPT !.trade = trade]
  <2>3. frame' = [frame EXCEPT ![t] = f] /\ pc' = [pc EXCEPT ![t] = "book"]
    BY <1>3 DEF Goto
  <2> HIDE DEF trade
  <2>4. /\ f \in Frame /\ f.trade = trade /\ f.id = id /\ f.tick = frame[t].tick
        /\ f.closed = frame[t].closed /\ f.todo = frame[t].todo
    BY <2>2, OwnFrame DEF Frame
  <2> HIDE DEF f, order
  <2>5. frame'[t] = f /\ pc'[t] = "book"
    BY <2>3 DEF Inv, ThreadsSound
  <2>6. Carries(t)'
    BY <1>1, <2>1, <2>2, <2>4, <2>5, OwnFrame DEF Carries, Stored, TradeReady, engine
  <2>7. ThreadsSound'
    BY <1>1, <2>3, <2>4, <2>6, OneThread DEF Inv, Label, engine
  <2> QED BY <1>1, <2>7, EngineUnchanged
<1> QED BY <1>2, <1>3 DEF TakeFill

\* An order that is stored stays stored when its volume or status is updated.
LEMMA OrderUpdated ==
    ASSUME Inv, NEW id \in OrderIds, NEW order \in Order, orders' = [orders EXCEPT ![id] = order],
           UNCHANGED <<active_order_ids, abandoned>>
    PROVE  OrdersSound' /\ \A o \in OrderIds : orders[o] # NoOrder => orders'[o] # NoOrder
BY DEF Inv, OrdersSound, Stored

LEMMA BookTradeInv ==
    ASSUME Inv, NEW t \in Threads, BookTrade(t)
    PROVE  Inv'
<1> DEFINE id == frame[t].id
           traded == orders[id].traded + frame[t].trade.volume
           order == [orders[id] EXCEPT !.traded = traded]
<1>1. pc[t] = "book" /\ Stored(id) /\ TradeReady(t)
  BY OwnFrame DEF BookTrade, At, Carries
<1>2. orders[id] \in Order /\ traded \in Int
  BY <1>1 DEF Stored, TradeReady, Inv, OrdersSound, Order, Trade
<1>3. orders' = [orders EXCEPT ![id] = order]
  BY DEF BookTrade
<1> HIDE DEF traded
<1>4. order \in Order
  BY <1>2 DEF Order
<1> HIDE DEF order
<1>5. OrdersSound' /\ \A o \in OrderIds : orders[o] # NoOrder => orders'[o] # NoOrder
  BY <1>1, <1>3, <1>4, OrderUpdated DEF Stored, BookTrade
<1>6. ThreadsSound'
  BY <1>1, <1>5, MovesOn DEF BookTrade
<1>7. MarketSound'
  BY <1>1 DEF BookTrade, TradeReady, Inv, MarketSound
<1> QED BY <1>5, <1>6, <1>7 DEF BookTrade, Inv, AccountSound, PositionsSound, BalanceIdentity

LEMMA MarkTradedInv ==
    ASSUME Inv, NEW t \in Threads, MarkTraded(t)
    PROVE  Inv'
<1> DEFINE id == frame[t].id
           traded == Remaining(orders[id]) = 0
           status == IF traded THEN "ALL_TRADED" ELSE "PART_TRADED"
           order == [orders[id] EXCEPT !.status = status]
           label == IF traded THEN "drop" ELSE "charge"
<1>1. pc[t] = "mark" /\ Stored(id) /\ TradeReady(t)
  BY OwnFrame DEF MarkTraded, At, Carries
<1>2. orders' = [orders EXCEPT ![id] = order] /\ Goto(t, label)
  BY DEF MarkTraded
<1>3. status \in OrderStatus /\ label \in {"drop", "charge"}
  BY DEF OrderStatus
<1> HIDE DEF status, label
<1>4. order \in Order
  BY <1>1, <1>3 DEF Stored, Inv, OrdersSound, Order
<1> HIDE DEF order
<1>5. OrdersSound' /\ \A o \in OrderIds : orders[o] # NoOrder => orders'[o] # NoOrder
  BY <1>1, <1>2, <1>4, OrderUpdated DEF Stored, MarkTraded
<1>6. ThreadsSound'
  BY <1>1, <1>2, <1>3, <1>5, MovesOn DEF MarkTraded
<1> QED BY <1>5, <1>6
      DEF MarkTraded, Inv, AccountSound, PositionsSound, MarketSound, BalanceIdentity

LEMMA ChargeCommissionInv ==
    ASSUME Inv, NEW t \in Threads, ChargeCommission(t)
    PROVE  Inv'
<1> DEFINE fee == Commission(frame[t].trade)
           label == IF frame[t].trade.offset = "OPEN" THEN "settle" ELSE "clip"
<1>1. pc[t] = "charge" /\ Stored(frame[t].id) /\ TradeReady(t)
  BY OwnFrame DEF ChargeCommission, At, Carries
<1>2. fee \in Int
  <2>1. Abs(frame[t].trade.price * frame[t].trade.volume) \in Int
    BY <1>1 DEF TradeReady, Trade, Abs
  <2> QED BY <2>1 DEF Commission
<1>3. /\ account' = [account EXCEPT !.commission = @ + fee, !.balance = @ - fee,
                                    !.available = account.balance - fee]
      /\ Goto(t, label) /\ label \in {"settle", "clip"}
      /\ held' = held \union {frame[t].trade.vt_symbol}
      /\ UNCHANGED <<positions, orders, active_order_ids, trades, last_ticks, abandoned, lock, frame>>
  BY DEF ChargeCommission
<1> HIDE DEF fee, label
<1>4. ThreadsSound' /\ held' \subseteq Symbols
  BY <1>1, <1>3, MovesOn DEF TradeReady, Trade, Inv, PositionsSound
<1> DEFINE charged == account.commission + fee
           left == account.balance - fee
<1>5. charged \in Int /\ left \in Int
  BY <1>2 DEF Inv, AccountSound
<1>6. account' = [account EXCEPT !.commission = charged, !.balance = left, !.available = left]
  BY <1>3 DEF Inv, AccountSound
<1> HIDE DEF charged, left
<1>7. /\ AccountSound' /\ account'.commission = charged /\ account'.balance = left
      /\ account'.available = left /\ account'.realized_pnl = account.realized_pnl
  BY <1>5, <1>6 DEF Inv, AccountSound
<1>8. BalanceIdentity'
  BY <1>2, <1>7 DEF Inv, AccountSound, BalanceIdentity, charged, left
<1> QED BY <1>3, <1>4, <1>7, <1>8 DEF Inv, PositionsSound, OrdersSound, MarketSound, Stored

LEMMA ClipToPositionInv ==
    ASSUME Inv, NEW t \in Threads, ClipToPosition(t)
    PROVE  Inv'
<1> DEFINE trade == frame[t].trade
           closed == CloseVolume(positions[trade.vt_symbol], trade)
           f == [frame[t] EXCEPT !.closed = closed]
<1>1. /\ pc[t] = "clip" /\ Stored(frame[t].id) /\ TradeReady(t)
      /\ UNCHANGED <<engine, lock>>
  BY OwnFrame DEF ClipToPosition, At, Carries
<1>2. closed \in Int /\ closed >= 0
  <2>1. trade \in Trade /\ trade.volume > 0 /\ trade.vt_symbol \in Symbols
    BY <1>1 DEF TradeReady, Trade
  <2>2. positions[trade.vt_symbol] \in Position /\ Held(positions[trade.vt_symbol])
    BY <2>1 DEF Inv, PositionsSound
  <2> QED BY <2>1, <2>2, CloseVolumeType DEF CloseVolume, Least, Closable, Held, Position, Trade
<1>3. frame' = [frame EXCEPT ![t] = f] /\ pc' = [pc EXCEPT ![t] = "settle"]
  BY DEF ClipToPosition, Goto
<1> HIDE DEF closed
<1>4. /\ f \in Frame /\ f.closed = closed /\ f.id = frame[t].id /\ f.trade = trade
      /\ f.tick = frame[t].tick /\ f.todo = frame[t].todo
  BY <1>2, OwnFrame DEF Frame
<1> HIDE DEF f
<1>5. frame'[t] = f /\ pc'[t] = "settle"
  BY <1>3 DEF Inv, ThreadsSound
<1>6. Carries(t)'
  BY <1>1, <1>2, <1>4, <1>5, OwnFrame DEF Carries, Stored, TradeReady, engine
<1>7. ThreadsSound'
  BY <1>1, <1>3, <1>4, <1>6, OneThread DEF Inv, Label, engine
<1> QED BY <1>1, <1>7, EngineUnchanged

\* Settling keeps a position well-formed, whatever it has become meanwhile.
LEMMA SettledPosition ==
    ASSUME NEW position \in Position, Held(position), NEW trade \in Trade, trade.volume > 0,
           NEW closed \in Int, closed >= 0
    PROVE  /\ Opened(position, trade) \in Position /\ Held(Opened(position, trade))
           /\ Closed(position, trade, closed) \in Position /\ Held(Closed(position, trade, closed))
<1>1. Opened(position, trade) \in Position
  BY OpenedType DEF Held
<1>2. Held(Opened(position, trade))
  BY <1>1 DEF Opened, Held, Position, Trade
<1>3. Closed(position, trade, closed) \in Position
  BY ClosedType
<1>4. Held(Closed(position, trade, closed))
  BY <1>3 DEF Closed, Held, Position
<1> QED BY <1>1, <1>2, <1>3, <1>4

LEMMA SettleInv ==
    ASSUME Inv, NEW t \in Threads, Settle(t)
    PROVE  Inv'
<1> DEFINE trade == frame[t].trade
           closed == frame[t].closed
           before == positions[trade.vt_symbol]
           after == IF trade.offset = "OPEN" THEN Opened(before, trade)
                    ELSE Closed(before, trade, closed)
           profit == IF trade.offset = "OPEN" THEN 0 ELSE Realized(before, trade, closed)
<1>1. /\ pc[t] = "settle" /\ Stored(frame[t].id) /\ TradeReady(t)
      /\ closed \in Int /\ closed >= 0
  BY OwnFrame DEF Settle, At, Carries, Frame
<1>2. trade \in Trade /\ trade.volume > 0 /\ trade.vt_symbol \in Symbols
  BY <1>1 DEF TradeReady, Trade
<1>3. before \in Position /\ Held(before)
  BY <1>2 DEF Inv, PositionsSound
<1>4. after \in Position /\ Held(after)
  BY <1>1, <1>2, <1>3, SettledPosition
<1>5. profit \in Int
  BY <1>1, <1>2, <1>3 DEF Realized, Position, Trade
<1>6. /\ positions' = [positions EXCEPT ![trade.vt_symbol] = after]
      /\ account' = [account EXCEPT !.realized_pnl = @ + profit, !.balance = @ + profit,
                                    !.available = account.balance + profit]
      /\ UNCHANGED <<held, orders, active_order_ids, trades, last_ticks, abandoned, lock>>
  BY DEF Settle
<1> HIDE DEF after, profit
<1>7. ThreadsSound'
  <2>1. CASE t = Feed
    BY <1>1, <1>6, <2>1, MovesOn DEF Settle
  <2>2. CASE t # Feed
    BY <1>1, <1>6, <2>2, ReturnStep DEF Settle, Inv
  <2> QED BY <2>1, <2>2
<1>8. PositionsSound'
  BY <1>2, <1>4, <1>6 DEF Inv, PositionsSound
<1> DEFINE realized == account.realized_pnl + profit
           left == account.balance + profit
<1>9. realized \in Int /\ left \in Int
  BY <1>5 DEF Inv, AccountSound
<1>10. account' = [account EXCEPT !.realized_pnl = realized, !.balance = left, !.available = left]
  BY <1>6 DEF Inv, AccountSound
<1> HIDE DEF realized, left
<1>11. /\ AccountSound' /\ account'.realized_pnl = realized /\ account'.balance = left
       /\ account'.available = left /\ account'.commission = account.commission
  BY <1>9, <1>10 DEF Inv, AccountSound
<1>12. BalanceIdentity'
  BY <1>5, <1>11 DEF Inv, AccountSound, BalanceIdentity, realized, left
<1> QED BY <1>6, <1>7, <1>8, <1>11, <1>12 DEF Inv, OrdersSound, MarketSound, Stored

-----------------------------------------------------------------------------
(* The specification.                                                       *)

LEMMA InitInv == Init => Inv
<1> SUFFICES ASSUME Init PROVE Inv
  OBVIOUS
<1>1. NoPosition \in Position /\ Held(NoPosition)
  BY DEF NoPosition, Position, Held
<1>2. AccountSound /\ BalanceIdentity
  BY DEF Init, AccountSound, BalanceIdentity
<1>3. PositionsSound
  BY <1>1 DEF Init, PositionsSound
<1>4. OrdersSound /\ MarketSound
  BY DEF Init, OrdersSound, MarketSound
<1>5. pc \in [Threads -> Label] /\ frame \in [Threads -> Frame]
  BY NoFrameType DEF Init, Label
<1>6. ASSUME NEW t \in Threads PROVE Carries(t)
  <2>1. pc[t] = "idle" /\ frame[t] = NoFrame
    BY DEF Init
  <2> QED BY <2>1, NoFrameType DEF Carries
<1> QED BY <1>2, <1>3, <1>4, <1>5, <1>6 DEF Inv, ThreadsSound

LEMMA NextInv == Inv /\ [Next]_vars => Inv'
<1> SUFFICES ASSUME Inv, [Next]_vars PROVE Inv'
  OBVIOUS
<1>1. CASE UNCHANGED vars
  BY <1>1 DEF vars, engine, Inv, ThreadsSound, Carries, TradeReady, Stored, AccountSound,
     PositionsSound, OrdersSound, MarketSound, BalanceIdentity
<1>2. ASSUME NEW t \in Threads, MatchStep(t) PROVE Inv'
  BY <1>2, CheckStatusInv, TakeFillInv, BookTradeInv, MarkTradedInv, DropActiveInv,
     ChargeCommissionInv, ClipToPositionInv, SettleInv DEF MatchStep
<1>3. ASSUME NEW t \in Clients, SubmitStep(t) PROVE Inv'
  BY <1>3, StoreOrderInv, LookUpTickInv DEF SubmitStep
<1>4. CASE Next
  BY <1>2, <1>3, <1>4, ValidateInv, CancelOrderInv, TickArrivesInv, LoopStepInv DEF Next
<1> QED BY <1>1, <1>4

LEMMA Invariance == Spec => []Inv
BY InitInv, NextInv, PTL DEF Spec

\* Every thread finds the order, the tick and the trade it is working on: the
\* unlocked interleavings of bridge_server.py never leave the types of the engine.
THEOREM TypeCorrect == Spec => []TypeOK
<1>1. Inv => TypeOK
  <2> SUFFICES ASSUME Inv PROVE TypeOK
    OBVIOUS
  <2>1. ASSUME NEW t \in Threads
        PROVE  /\ frame[t].id \in OrderIds \union {NoOrder}
               /\ frame[t].todo \subseteq OrderIds
               /\ frame[t].keys \subseteq Symbols
               /\ pc[t] # "idle" /\ t # Feed => frame[t].id \in OrderIds
    <3>1. frame[t] \in Frame /\ Carries(t) /\ pc[t] \in Label
      BY DEF Inv, ThreadsSound
    <3> QED BY <3>1 DEF Frame, Carries, Stored, Label
  <2> QED BY <2>1 DEF Inv, TypeOK, ThreadsSound, AccountSound, PositionsSound, OrdersSound, MarketSound
<1> QED BY <1>1, Invariance, PTL

\* However many worker threads race with the tick loop, balance, realized profit
\* and commission stay consistent: each is updated with the other between two calls.
THEOREM BalanceConserved == Spec => []BalanceIdentity
BY Invariance, PTL DEF Inv

\* Nor does a position ever become negative, although the volume to close is
\* computed before the position is reduced.
NoNegativePosition == \A s \in Symbols : Held(positions[s])

THEOREM PositionsNatural == Spec => []NoNegativePosition
<1>1. Inv => NoNegativePosition
  BY DEF Inv, PositionsSound, NoNegativePosition
<1> QED BY <1>1, Invariance, PTL

-----------------------------------------------------------------------------
(* Why no order falls between an unlocked submission or cancellation and    *)
(* the locked tick loop, for any number of worker threads: at every moment  *)
(* of every interleaving, somebody is responsible for each order that the   *)
(* active ids or the last tick call for.                                    *)

-----------------------------------------------------------------------------
(* The inductive invariant: who is responsible for what.                    *)

Open(o) == orders[o] # NoOrder /\ orders[o].status \notin Terminal

\* Crossed by the last tick, which did not fail before it came to the order.
Crossing(o) ==
    /\ o \notin abandoned
    /\ LET tick == last_ticks[orders[o].vt_symbol]
       IN tick # NoTick /\ Executable(orders[o], tick)

\* An id belongs to one submission; a fill covers what is left of its order; a
\* thread about to drop an id has seen its order finish.
Local(t) ==
    /\ pc[t] = "store" =>
         /\ orders[frame[t].id] = NoOrder
         /\ frame[t].order.traded = 0
         /\ frame[t].order.status = "NOT_TRADED" => frame[t].order.volume > 0
    /\ pc[t] = "book" => frame[t].trade.volume + orders[frame[t].id].traded >= orders[frame[t].id].volume
    /\ pc[t] = "mark" => orders[frame[t].id].traded >= orders[frame[t].id].volume
    /\ pc[t] = "drop" => orders[frame[t].id].status \in Terminal
    /\ t = Feed /\ pc[t] # "idle" => frame[t].tick = last_ticks[frame[t].tick.vt_symbol]

IdsApart == \A t, u \in Threads : pc[t] = "store" /\ pc[u] = "store" /\ t # u => frame[t].id # frame[u].id

OpenIsActive == \A o \in OrderIds : Open(o) => o \in active_order_ids

\* A finished order that is still active is about to be dropped.
Drops(t, o) == pc[t] = "drop" /\ frame[t].id = o
ActiveIsOpen == \A o \in active_order_ids : Open(o) \/ \E t \in Threads : Drops(t, o)

\* An open order without remaining volume is about to be marked.
Spent(o) == Open(o) /\ orders[o].traded >= orders[o].volume
Marks(t, o) == pc[t] = "mark" /\ frame[t].id = o
SpentIsMarked == \A o \in OrderIds : Spent(o) => \E t \in Threads : Marks(t, o)

\* A crossed order is in the hands of a thread; a tick that is still marking the
\* positions, and no trade, has every order of its symbol before it.
Handles(t, o) ==
    \/ pc[t] \in {"look", "fill", "book", "mark"} /\ frame[t].id = o
    \/ pc[t] = "check" /\ frame[t].id = o /\ frame[t].tick = last_ticks[orders[o].vt_symbol]
    \/ /\ t = Feed /\ frame[t].tick.vt_symbol = orders[o].vt_symbol
       /\ \/ pc[t] = "list"
          \/ pc[t] \in {"value", "walk"} /\ frame[t].trade = NoOrder
          \/ pc[t] # "idle" /\ o \in frame[t].todo
CrossingIsHandled ==
    \A o \in OrderIds : Open(o) /\ Crossing(o) => \E t \in Threads : Handles(t, o)

RaceInv ==
    /\ \A t \in Threads : Local(t)
    /\ IdsApart /\ OpenIsActive /\ ActiveIsOpen /\ SpentIsMarked /\ CrossingIsHandled

USE ThreadAssumption DEF Inv, ThreadsSound, OrdersSound

-----------------------------------------------------------------------------
(* What a step leaves as it was.                                            *)

Stays(t) == \A u \in Threads \ {t} : pc'[u] = pc[u] /\ frame'[u] = frame[u]

SameTerms(o) ==
    /\ orders'[o] # NoOrder
    /\ orders'[o].vt_symbol = orders[o].vt_symbol
    /\ orders'[o].direction = orders[o].direction
    /\ orders'[o].order_type = orders[o].order_type
    /\ orders'[o].price = orders[o].price
    /\ orders'[o].volume = orders[o].volume
    /\ orders'[o].traded >= orders[o].traded
    /\ orders[o].status \in Terminal => orders'[o].status \in Terminal

LEMMA CrossingStays ==
    ASSUME NEW o \in OrderIds, SameTerms(o), UNCHANGED <<last_ticks, abandoned>>
    PROVE  Crossing(o)' <=> Crossing(o)
BY DEF Crossing, SameTerms, Executable, OppositeQuote

\* What the other threads are responsible for, they remain responsible for.
LEMMA OthersStay ==
    ASSUME NEW t \in Threads, Stays(t), NEW u \in Threads \ {t}, NEW o \in OrderIds
    PROVE  /\ Drops(u, o) => Drops(u, o)'
           /\ Marks(u, o) => Marks(u, o)'
           /\ Handles(u, o) /\ UNCHANGED last_ticks /\ orders'[o].vt_symbol = orders[o].vt_symbol
                => Handles(u, o)'
BY DEF Stays, Drops, Marks, Handles

\* Nor do their own facts change, if stored orders keep their terms.
LEMMA OthersLocal ==
    ASSUME Inv, NEW t \in Threads, Stays(t), NEW u \in Threads \ {t}, Local(u),
           \A o \in OrderIds : orders[o] # NoOrder => SameTerms(o),
           orders' \in [OrderIds -> Order \union {NoOrder}],
           pc[u] = "store" => orders'[frame[u].id] = NoOrder,
           u = Feed => UNCHANGED last_ticks
    PROVE  Local(u)'
<1>1. pc'[u] = pc[u] /\ frame'[u] = frame[u]
  BY DEF Stays
<1>2. Carries(u) /\ frame[u] \in Frame
  OBVIOUS
<1>3. CASE pc[u] = "store"
  BY <1>1, <1>3 DEF Local
<1>4. CASE pc[u] \in {"book", "mark", "drop"}
  <2> DEFINE id == frame[u].id
  <2>1. id \in OrderIds /\ orders[id] # NoOrder
    BY <1>2, <1>4 DEF Carries, Stored
  <2>2. SameTerms(id) /\ orders[id] \in Order /\ orders'[id] \in Order
    BY <2>1 DEF SameTerms
  <2>3. pc[u] = "book" => frame[u].trade.volume \in Int
    BY <1>2 DEF Carries, TradeReady, Trade
  <2>4. /\ orders[id].traded \in Int /\ orders'[id].traded \in Int
        /\ orders'[id].traded >= orders[id].traded /\ orders[id].volume \in Int
        /\ orders'[id].volume = orders[id].volume
    BY <2>2 DEF Order, SameTerms
  <2>5. pc[u] = "drop" => orders'[id].status \in Terminal
    BY <2>2 DEF Local, SameTerms
  <2>6. pc[u] = "book" => frame[u].trade.volume + orders'[id].traded >= orders'[id].volume
    BY <2>3, <2>4 DEF Local
  <2>7. pc[u] = "mark" => orders'[id].traded >= orders'[id].volume
    BY <2>4 DEF Local
  <2> QED BY <1>1, <1>4, <2>5, <2>6, <2>7 DEF Local
<1>5. CASE pc[u] \notin {"store", "book", "mark", "drop"}
  BY <1>1, <1>5 DEF Local
<1> QED BY <1>3, <1>4, <1>5

\* A step that leaves orders, active ids and ticks alone has to see to the
\* crossed orders of its own thread.
LEMMA SameBook ==
    ASSUME UNCHANGED <<orders, last_ticks>>, abandoned \subseteq abandoned', NEW o
    PROVE  (Open(o)' <=> Open(o)) /\ (Crossing(o)' => Crossing(o)) /\ (Spent(o)' <=> Spent(o))
<1>1. orders'[o] = orders[o] /\ last_ticks' = last_ticks
  OBVIOUS
<1>2. Open(o)' <=> Open(o)
  BY <1>1 DEF Open
<1>3. Crossing(o)' => Crossing(o)
  BY <1>1 DEF Crossing
<1>4. Spent(o)' <=> Spent(o)
  BY <1>1, <1>2 DEF Spent
<1> QED BY <1>2, <1>3, <1>4

LEMMA HandingOver ==
    ASSUME Inv, RaceInv, NEW t \in Threads, Stays(t),
           UNCHANGED <<orders, active_order_ids, last_ticks>>, abandoned \subseteq abandoned',
           pc[t] \notin {"drop", "mark"}, Local(t)',
           pc'[t] = "store" => \A u \in Threads \ {t} : pc[u] = "store" => frame[u].id # frame'[t].id,
           \A o \in OrderIds : Open(o) /\ Crossing(o) /\ Handles(t, o)
              => Handles(t, o)' \/ o \in abandoned' \/ \E u \in Threads \ {t} : Handles(u, o)
    PROVE  RaceInv'
<1>2. \A o \in OrderIds : orders[o] # NoOrder => SameTerms(o)
  <2> SUFFICES ASSUME NEW o \in OrderIds, orders[o] # NoOrder PROVE SameTerms(o)
    OBVIOUS
  <2>1. orders[o].traded \in Int
    BY DEF Order
  <2> QED BY <2>1 DEF SameTerms
<1>3. \A u \in Threads : Local(u)'
  <2> SUFFICES ASSUME NEW u \in Threads \ {t} PROVE Local(u)'
    OBVIOUS
  <2>1. pc[u] = "store" => orders'[frame[u].id] = NoOrder
    BY DEF RaceInv, Local
  <2> QED BY <1>2, <2>1, OthersLocal DEF RaceInv
<1>4. IdsApart'
  <2> SUFFICES ASSUME NEW u \in Threads, NEW v \in Threads, pc'[u] = "store", pc'[v] = "store", u # v
               PROVE  frame'[u].id # frame'[v].id
    BY DEF IdsApart
  <2> QED BY DEF RaceInv, IdsApart, Stays
<1>5. OpenIsActive'
  <2> SUFFICES ASSUME NEW o \in OrderIds, Open(o)' PROVE o \in active_order_ids'
    BY DEF OpenIsActive
  <2> QED BY SameBook DEF RaceInv, OpenIsActive
<1>6. ActiveIsOpen'
  <2> SUFFICES ASSUME NEW o \in active_order_ids', ~Open(o)' PROVE \E u \in Threads : Drops(u, o)'
    BY DEF ActiveIsOpen
  <2>1. ~Open(o)
    BY SameBook
  <2>2. PICK u \in Threads : Drops(u, o)
    BY <2>1 DEF RaceInv, ActiveIsOpen
  <2>3. u # t
    BY <2>2 DEF Drops
  <2>4. o \in OrderIds
    BY DEF TypeOK
  <2> QED BY <2>2, <2>3, <2>4, OthersStay
<1>7. SpentIsMarked'
  <2> SUFFICES ASSUME NEW o \in OrderIds, Spent(o)' PROVE \E u \in Threads : Marks(u, o)'
    BY DEF SpentIsMarked
  <2>1. PICK u \in Threads : Marks(u, o)
    BY SameBook DEF RaceInv, SpentIsMarked
  <2>2. u # t
    BY <2>1 DEF Marks
  <2> QED BY <2>1, <2>2, OthersStay
<1>8. CrossingIsHandled'
  <2> SUFFICES ASSUME NEW o \in OrderIds, Open(o)', Crossing(o)'
               PROVE  \E u \in Threads : Handles(u, o)'
    BY DEF CrossingIsHandled
  <2>1. Open(o) /\ Crossing(o) /\ o \notin abandoned'
    BY SameBook DEF Crossing
  <2>2. Handles(t, o)' \/ \E u \in Threads \ {t} : Handles(u, o)
    BY <2>1 DEF RaceInv, CrossingIsHandled
  <2> QED BY <2>2, OthersStay
<1> QED BY <1>3, <1>4, <1>5, <1>6, <1>7, <1>8 DEF RaceInv

-----------------------------------------------------------------------------
(* Steps that only move their thread.                                       *)

LEMMA Moves ==
    ASSUME Inv, NEW t \in Threads, NEW label, NEW f,
           Goto(t, label), frame' = [frame EXCEPT ![t] = f]
    PROVE  Stays(t) /\ pc'[t] = label /\ frame'[t] = f
BY DEF Stays, Goto

LEMMA Returns ==
    ASSUME Inv, NEW t \in Threads, Return(t)
    PROVE  /\ Stays(t)
           /\ t # Feed => pc'[t] = "idle"
           /\ t = Feed => /\ pc'[t] = "loop" /\ frame'[t].tick = frame[t].tick
                          /\ frame'[t].todo = frame[t].todo
<1>1. CASE t = Feed
  <2> DEFINE f == [NoFrame EXCEPT !.tick = frame[t].tick, !.todo = frame[t].todo]
  <2>1. f.tick = frame[t].tick /\ f.todo = frame[t].todo
    BY DEF NoFrame
  <2>2. Goto(t, "loop") /\ frame' = [frame EXCEPT ![t] = f]
    BY <1>1 DEF Return
  <2> HIDE DEF f
  <2> QED BY <1>1, <2>1, <2>2, Moves
<1>2. CASE t # Feed
  BY <1>2, Moves DEF Return
<1> QED BY <1>1, <1>2

LEMMA ValidateRaces ==
    ASSUME Inv, RaceInv, NEW t \in Clients, NEW id \in OrderIds, NEW req \in Requests,
           Validate(t, id, req)
    PROVE  RaceInv'
<1> DEFINE verdict == IF Refused(req, positions[req.vt_symbol]) THEN "REJECTED" ELSE "NOT_TRADED"
           order == NewOrder(req, verdict)
           f == [NoFrame EXCEPT !.id = id, !.order = order]
<1>1. t \in Threads /\ t # Feed /\ pc[t] = "idle" /\ UnusedId(id) /\ UNCHANGED <<engine, lock>>
  BY DEF Threads, Validate, At
<1>2. frame' = [frame EXCEPT ![t] = f] /\ Goto(t, "store")
  BY DEF Validate
<1>3. f.id = id /\ f.order = order
  BY DEF NoFrame
<1>4. order.traded = 0 /\ (order.status = "NOT_TRADED" => order.volume > 0)
  <2>1. order.traded = 0 /\ order.volume = req.volume /\ order.status = verdict
    BY DEF NewOrder
  <2>2. req.volume \in Int
    BY ConfigAssumption DEF OrderRequest
  <2>3. verdict = "NOT_TRADED" => ~(req.volume <= 0)
    BY DEF Refused
  <2> QED BY <2>1, <2>2, <2>3
<1> HIDE DEF f, order
<1>5. Stays(t) /\ pc'[t] = "store" /\ frame'[t].id = id /\ frame'[t].order = order
  BY <1>1, <1>2, <1>3, Moves
<1>6. Local(t)'
  BY <1>1, <1>4, <1>5 DEF Local, UnusedId, engine
<1>7. \A u \in Threads \ {t} : pc[u] = "store" => frame[u].id # frame'[t].id
  BY <1>1, <1>5 DEF UnusedId, At
<1>8. \A o \in OrderIds : ~Handles(t, o)
  BY <1>1 DEF Handles
<1> QED BY <1>1, <1>5, <1>6, <1>7, <1>8, HandingOver DEF engine

LEMMA LookUpTickRaces ==
    ASSUME Inv, RaceInv, NEW t \in Clients, LookUpTick(t)
    PROVE  RaceInv'
<1> DEFINE id == frame[t].id
           tick == last_ticks[orders[id].vt_symbol]
<1>1. t \in Threads /\ t # Feed /\ pc[t] = "look" /\ UNCHANGED <<engine, lock>>
  BY DEF Threads, LookUpTick, At
<1>2. \A o \in OrderIds : Handles(t, o) => o = id
  BY <1>1 DEF Handles
<1>3. CASE tick = NoTick /\ Return(t)
  <2>1. Stays(t) /\ pc'[t] = "idle"
    BY <1>1, <1>3, Returns
  <2>2. \A o \in OrderIds : ~(Open(o) /\ Crossing(o) /\ Handles(t, o))
    BY <1>2, <1>3 DEF Crossing
  <2>3. Local(t)'
    BY <1>1, <2>1 DEF Local
  <2> QED BY <1>1, <2>1, <2>2, <2>3, HandingOver DEF engine
<1>4. CASE frame' = [frame EXCEPT ![t].tick = tick] /\ Goto(t, "check")
  <2> DEFINE f == [frame[t] EXCEPT !.tick = tick]
  <2>1. f.id = id /\ f.tick = tick
    BY <1>1, OwnFrame DEF Frame
  <2>2. frame' = [frame EXCEPT ![t] = f]
    BY <1>4
  <2> HIDE DEF f
  <2>3. Stays(t) /\ pc'[t] = "check" /\ frame'[t].id = id /\ frame'[t].tick = tick
    BY <1>1, <1>4, <2>1, <2>2, Moves
  <2>4. \A o \in OrderIds : Handles(t, o) => Handles(t, o)'
    BY <1>1, <1>2, <2>3 DEF Handles, engine
  <2>5. Local(t)'
    BY <1>1, <2>3 DEF Local
  <2> QED BY <1>1, <2>3, <2>4, <2>5, HandingOver DEF engine
<1> QED BY <1>3, <1>4 DEF LookUpTick

\* After the walk a new tick has still every order of its symbol to list, and a
\* settled trade leaves the loop with what it had to visit.
LEMMA MarkingDoneRaces ==
    ASSUME Inv, RaceInv, MarkingDone, pc[Feed] \in {"value", "walk"}, UNCHANGED <<engine, lock>>
    PROVE  RaceInv'
<1>1. Feed \in Threads /\ Local(Feed)
  BY DEF Threads, RaceInv
<1>2. CASE frame[Feed].trade # NoOrder
  <2>1. /\ Stays(Feed) /\ pc'[Feed] = "loop" /\ frame'[Feed].tick = frame[Feed].tick
        /\ frame'[Feed].todo = frame[Feed].todo
    BY <1>1, <1>2, Returns DEF MarkingDone
  <2>2. Local(Feed)' /\ \A o \in OrderIds : Handles(Feed, o) => Handles(Feed, o)'
    BY <1>1, <1>2, <2>1 DEF Local, Handles, engine
  <2> QED BY <1>1, <2>1, <2>2, HandingOver DEF engine
<1>3. CASE frame[Feed].trade = NoOrder
  <2> DEFINE f == [frame[Feed] EXCEPT !.keys = {}]
  <2>1. f.tick = frame[Feed].tick /\ f.todo = frame[Feed].todo
    BY <1>1, OwnFrame DEF Frame
  <2>2. frame' = [frame EXCEPT ![Feed] = f] /\ Goto(Feed, "list")
    BY <1>3 DEF MarkingDone
  <2> HIDE DEF f
  <2>3. /\ Stays(Feed) /\ pc'[Feed] = "list" /\ frame'[Feed].tick = frame[Feed].tick
        /\ frame'[Feed].todo = frame[Feed].todo
    BY <1>1, <2>1, <2>2, Moves
  <2>4. Local(Feed)' /\ \A o \in OrderIds : Handles(Feed, o) => Handles(Feed, o)'
    BY <1>1, <2>3 DEF Local, Handles, engine
  <2> QED BY <1>1, <2>3, <2>4, HandingOver DEF engine
<1> QED BY <1>2, <1>3

\* A tick that fails in the marking leaves what it has not visited abandoned.
LEMMA MarkingRaces ==
    ASSUME Inv, RaceInv, StartMarking \/ EndMarking \/ MarkingFails
    PROVE  RaceInv'
<1>1. Feed \in Threads /\ Local(Feed)
  BY DEF Threads, RaceInv
<1>2. CASE (StartMarking /\ held = {}) \/ EndMarking
  BY <1>2, MarkingDoneRaces DEF StartMarking, EndMarking, At
<1>3. CASE StartMarking /\ held # {}
  <2> DEFINE f == [frame[Feed] EXCEPT !.keys = held]
  <2>1. f.tick = frame[Feed].tick /\ f.todo = frame[Feed].todo /\ f.trade = frame[Feed].trade
    BY <1>1, OwnFrame DEF Frame
  <2>2. /\ frame' = [frame EXCEPT ![Feed] = f] /\ Goto(Feed, "walk") /\ pc[Feed] = "value"
        /\ UNCHANGED <<engine, lock>>
    BY <1>3 DEF StartMarking, At
  <2> HIDE DEF f
  <2>3. Stays(Feed) /\ pc'[Feed] = "walk" /\ frame'[Feed] = f
    BY <1>1, <2>2, Moves
  <2>4. Local(Feed)' /\ \A o \in OrderIds : Handles(Feed, o) => Handles(Feed, o)'
    BY <1>1, <2>1, <2>2, <2>3 DEF Local, Handles, engine
  <2> QED BY <1>1, <2>2, <2>3, <2>4, HandingOver DEF engine
<1>4. CASE MarkingFails
  <2>1. /\ pc[Feed] = "walk" /\ abandoned' = abandoned \union Unvisited
        /\ UNCHANGED <<orders, active_order_ids, last_ticks>>
    BY <1>4 DEF MarkingFails, At
  <2>2. Stays(Feed) /\ pc'[Feed] = "idle"
    BY <1>1, <1>4, Moves DEF MarkingFails
  <2>3. ASSUME NEW o \in OrderIds, Open(o), Handles(Feed, o) PROVE o \in abandoned'
    <3>1. o \in active_order_ids
      BY <2>3 DEF RaceInv, OpenIsActive
    <3>2. /\ frame[Feed].tick.vt_symbol = orders[o].vt_symbol
          /\ frame[Feed].trade # NoOrder => o \in frame[Feed].todo
      BY <2>1, <2>3 DEF Handles
    <3>3. o \in Unvisited
      BY <3>1, <3>2 DEF Unvisited
    <3> QED BY <2>1, <3>3
  <2>4. Local(Feed)'
    BY <2>2 DEF Local
  <2> QED BY <1>1, <2>1, <2>2, <2>3, <2>4, HandingOver
<1> QED BY <1>2, <1>3, <1>4 DEF StartMarking

LEMMA ListActiveRaces ==
    ASSUME Inv, RaceInv, ListActive
    PROVE  RaceInv'
<1> DEFINE f == [frame[Feed] EXCEPT !.todo = active_order_ids]
<1>1. Feed \in Threads /\ pc[Feed] = "list" /\ UNCHANGED <<engine, lock>>
  BY DEF Threads, ListActive, At
<1>2. f.todo = active_order_ids /\ f.tick = frame[Feed].tick
  BY <1>1, OwnFrame DEF Frame
<1>3. frame' = [frame EXCEPT ![Feed] = f] /\ Goto(Feed, "loop")
  BY DEF ListActive
<1> HIDE DEF f
<1>4. /\ Stays(Feed) /\ pc'[Feed] = "loop"
      /\ frame'[Feed].todo = active_order_ids /\ frame'[Feed].tick = frame[Feed].tick
  BY <1>1, <1>2, <1>3, Moves
<1>5. \A o \in OrderIds : Open(o) /\ Handles(Feed, o) => Handles(Feed, o)'
  <2> SUFFICES ASSUME NEW o \in OrderIds, Open(o), Handles(Feed, o) PROVE Handles(Feed, o)'
    OBVIOUS
  <2>1. o \in active_order_ids
    BY DEF RaceInv, OpenIsActive
  <2> QED BY <1>1, <1>4, <2>1 DEF Handles, engine
<1>6. Local(Feed)'
  BY <1>1, <1>4 DEF Local, RaceInv, engine
<1> QED BY <1>1, <1>4, <1>5, <1>6, HandingOver DEF engine

LEMMA NextActiveRaces ==
    ASSUME Inv, RaceInv, NEW id \in OrderIds, NextActive(id)
    PROVE  RaceInv'
<1> DEFINE f == [frame[Feed] EXCEPT !.todo = frame[Feed].todo \ {id}, !.id = id]
           label == IF orders[id].vt_symbol = frame[Feed].tick.vt_symbol THEN "check" ELSE "loop"
<1>1. Feed \in Threads /\ pc[Feed] = "loop" /\ UNCHANGED <<engine, lock>>
  BY DEF Threads, NextActive, At
<1>2. f.todo = frame[Feed].todo \ {id} /\ f.id = id /\ f.tick = frame[Feed].tick
  BY <1>1, OwnFrame DEF Frame
<1>3. frame' = [frame EXCEPT ![Feed] = f] /\ Goto(Feed, label)
  <2>1. frame[Feed] \in Frame
    BY <1>1
  <2> QED BY <2>1 DEF NextActive, Frame
<1> HIDE DEF f
<1>4. /\ Stays(Feed) /\ pc'[Feed] = label
      /\ frame'[Feed].todo = frame[Feed].todo \ {id}
      /\ frame'[Feed].id = id /\ frame'[Feed].tick = frame[Feed].tick
  BY <1>1, <1>2, <1>3, Moves
<1>5. frame[Feed].tick = last_ticks[frame[Feed].tick.vt_symbol]
  BY <1>1 DEF RaceInv, Local
<1>6. \A o \in OrderIds : Handles(Feed, o) => Handles(Feed, o)'
  <2> SUFFICES ASSUME NEW o \in OrderIds, Handles(Feed, o) PROVE Handles(Feed, o)'
    OBVIOUS
  <2>1. frame[Feed].tick.vt_symbol = orders[o].vt_symbol /\ o \in frame[Feed].todo
    BY <1>1 DEF Handles
  <2>2. CASE o = id
    BY <1>1, <1>4, <1>5, <2>1, <2>2 DEF Handles, engine
  <2>3. CASE o # id
    BY <1>1, <1>4, <2>1, <2>3 DEF Handles, engine
  <2> QED BY <2>2, <2>3
<1>7. Local(Feed)'
  BY <1>1, <1>4, <1>5 DEF Local, engine
<1> QED BY <1>1, <1>4, <1>6, <1>7, HandingOver DEF engine

LEMMA TickDoneRaces ==
    ASSUME Inv, RaceInv, TickDone
    PROVE  RaceInv'
<1>1. Feed \in Threads /\ pc[Feed] = "loop" /\ frame[Feed].todo = {} /\ UNCHANGED engine
  BY DEF Threads, TickDone, At
<1>2. Stays(Feed) /\ pc'[Feed] = "idle"
  BY <1>1, Moves DEF TickDone
<1>3. \A o \in OrderIds : ~Handles(Feed, o)
  BY <1>1 DEF Handles
<1>4. Local(Feed)'
  BY <1>2 DEF Local
<1> QED BY <1>1, <1>2, <1>3, <1>4, HandingOver DEF engine

-----------------------------------------------------------------------------
(* Steps of a matching attempt that leave the orders alone.                 *)

\* A thread that returns is done with its order, not with the rest of its list.
LEMMA ReturnHands ==
    ASSUME Inv, NEW t \in Threads, Return(t), pc[t] \notin {"idle", "list"}, Local(t),
           pc[t] \in {"value", "walk"} => frame[t].trade # NoOrder,
           UNCHANGED <<orders, last_ticks>>
    PROVE  /\ Stays(t)
           /\ Local(t)'
           /\ pc'[t] # "store"
           /\ \A o \in OrderIds : Handles(t, o) =>
                Handles(t, o)' \/ /\ frame[t].id = o /\ pc[t] \in {"look", "check", "fill", "book", "mark"}
                                  /\ pc[t] = "check" => frame[t].tick = last_ticks[orders[o].vt_symbol]
<1>1. /\ Stays(t)
      /\ t # Feed => pc'[t] = "idle"
      /\ t = Feed => /\ pc'[t] = "loop" /\ frame'[t].tick = frame[t].tick
                     /\ frame'[t].todo = frame[t].todo
  BY Returns
<1>2. Local(t)'
  BY <1>1 DEF Local
<1>3. ASSUME NEW o \in OrderIds, Handles(t, o)
      PROVE  Handles(t, o)' \/ /\ frame[t].id = o /\ pc[t] \in {"look", "check", "fill", "book", "mark"}
                               /\ pc[t] = "check" => frame[t].tick = last_ticks[orders[o].vt_symbol]
  BY <1>1, <1>3 DEF Handles
<1> QED BY <1>1, <1>2, <1>3

LEMMA CheckStatusRaces ==
    ASSUME Inv, RaceInv, NEW t \in Threads, CheckStatus(t)
    PROVE  RaceInv'
<1> DEFINE id == frame[t].id
           matches == /\ orders[id].status \in {"NOT_TRADED", "PART_TRADED"}
                      /\ Executable(orders[id], frame[t].tick)
<1>1. pc[t] = "check" /\ UNCHANGED engine
  BY DEF CheckStatus, At
<1>2. Local(t) /\ UNCHANGED <<orders, active_order_ids, last_ticks, abandoned>>
  BY <1>1 DEF RaceInv, engine
<1>3. CASE Goto(t, "fill") /\ UNCHANGED frame
  <2>1. frame' = [frame EXCEPT ![t] = frame[t]]
    BY <1>3
  <2>2. Stays(t) /\ pc'[t] = "fill" /\ frame'[t] = frame[t]
    BY <1>3, <2>1, Moves
  <2>3. Local(t)'
    BY <1>1, <1>2, <2>2 DEF Local
  <2>4. \A o \in OrderIds : Handles(t, o) => Handles(t, o)'
    BY <1>1, <1>2, <2>2 DEF Handles
  <2> QED BY <1>1, <1>2, <2>2, <2>3, <2>4, HandingOver
<1>4. CASE ~matches /\ Return(t)
  <2>1. /\ Stays(t) /\ Local(t)' /\ pc'[t] # "store"
        /\ \A o \in OrderIds : Handles(t, o) =>
             Handles(t, o)' \/ (id = o /\ frame[t].tick = last_ticks[orders[o].vt_symbol])
    BY <1>1, <1>2, <1>4, ReturnHands
  <2>2. \A o \in OrderIds : Open(o) /\ Crossing(o) /\ Handles(t, o) => Handles(t, o)'
    <3> SUFFICES ASSUME NEW o \in OrderIds, Open(o), Crossing(o), id = o,
                        frame[t].tick = last_ticks[orders[o].vt_symbol]
                 PROVE  FALSE
      BY <2>1
    <3>1. orders[o].status \in {"NOT_TRADED", "PART_TRADED"}
      BY DEF Open, Order, OrderStatus, Terminal
    <3>2. Executable(orders[o], frame[t].tick)
      BY DEF Crossing
    <3> QED BY <1>4, <3>1, <3>2
  <2> QED BY <1>1, <1>2, <2>1, <2>2, HandingOver
<1> QED BY <1>3, <1>4 DEF CheckStatus

\* An order found without remaining volume is about to be marked by another thread.
LEMMA TakeFillRaces ==
    ASSUME Inv, RaceInv, NEW t \in Threads, TakeFill(t)
    PROVE  RaceInv'
<1> DEFINE id == frame[t].id
           trade == TradeOf(id, orders[id], frame[t].tick)
<1>1. pc[t] = "fill" /\ UNCHANGED engine
  BY DEF TakeFill, At
<1>2. Local(t) /\ UNCHANGED <<orders, active_order_ids, last_ticks, abandoned>>
  BY <1>1 DEF RaceInv, engine
<1>3. id \in OrderIds /\ orders[id] \in Order
  BY <1>1, OwnFrame DEF Carries, Stored
<1>4. CASE /\ frame' = [frame EXCEPT ![t].trade = trade]
           /\ Goto(t, "book")
  <2> DEFINE f == [frame[t] EXCEPT !.trade = trade]
  <2>1. f.id = id /\ f.trade = trade /\ f.tick = frame[t].tick /\ f.todo = frame[t].todo
    BY OwnFrame DEF Frame
  <2>2. frame' = [frame EXCEPT ![t] = f]
    BY <1>4
  <2>3. trade.volume = Remaining(orders[id])
    BY DEF TradeOf
  <2>4. trade.volume + orders[id].traded >= orders[id].volume
    BY <1>3, <2>3 DEF Remaining, Order
  <2> HIDE DEF f, trade
  <2>5. /\ Stays(t) /\ pc'[t] = "book" /\ frame'[t].id = id /\ frame'[t].trade = trade
        /\ frame'[t].tick = frame[t].tick /\ frame'[t].todo = frame[t].todo
    BY <1>4, <2>1, <2>2, Moves
  <2>6. Local(t)'
    BY <1>1, <1>2, <2>4, <2>5 DEF Local
  <2>7. \A o \in OrderIds : Handles(t, o) => Handles(t, o)'
    BY <1>1, <1>2, <2>5 DEF Handles
  <2> QED BY <1>1, <1>2, <2>5, <2>6, <2>7, HandingOver
<1>5. CASE Remaining(orders[id]) = 0 /\ Return(t)
  <2>1. /\ Stays(t) /\ Local(t)' /\ pc'[t] # "store"
        /\ \A o \in OrderIds : Handles(t, o) => Handles(t, o)' \/ id = o
    BY <1>1, <1>2, <1>5, ReturnHands
  <2>2. orders[id].traded >= orders[id].volume
    BY <1>3, <1>5 DEF Remaining, Order
  <2>3. Open(id) => \E u \in Threads \ {t} : Handles(u, id)
    <3> SUFFICES ASSUME Open(id) PROVE \E u \in Threads \ {t} : Handles(u, id)
      OBVIOUS
    <3>1. PICK u \in Threads : Marks(u, id)
      BY <1>3, <2>2 DEF RaceInv, SpentIsMarked, Spent
    <3>2. u # t /\ Handles(u, id)
      BY <1>1, <3>1 DEF Marks, Handles
    <3> QED BY <3>2
  <2> QED BY <1>1, <1>2, <2>1, <2>3, HandingOver
<1> QED BY <1>4, <1>5 DEF TakeFill

LEMMA ChargeCommissionRaces ==
    ASSUME Inv, RaceInv, NEW t \in Threads, ChargeCommission(t)
    PROVE  RaceInv'
<1> DEFINE label == IF frame[t].trade.offset = "OPEN" THEN "settle" ELSE "clip"
<1>1. /\ pc[t] = "charge" /\ Goto(t, label) /\ frame' = [frame EXCEPT ![t] = frame[t]]
      /\ UNCHANGED <<orders, active_order_ids, last_ticks, abandoned>>
  BY DEF ChargeCommission, At
<1>2. label \in {"settle", "clip"}
  OBVIOUS
<1> HIDE DEF label
<1>3. Stays(t) /\ pc'[t] = label /\ frame'[t] = frame[t]
  BY <1>1, Moves
<1>4. Local(t)'
  BY <1>1, <1>2, <1>3 DEF RaceInv, Local
<1>5. \A o \in OrderIds : Handles(t, o) => Handles(t, o)'
  BY <1>1, <1>2, <1>3 DEF Handles
<1> QED BY <1>1, <1>2, <1>3, <1>4, <1>5, HandingOver

LEMMA ClipToPositionRaces ==
    ASSUME Inv, RaceInv, NEW t \in Threads, ClipToPosition(t)
    PROVE  RaceInv'
<1> DEFINE closed == CloseVolume(positions[frame[t].trade.vt_symbol], frame[t].trade)
           f == [frame[t] EXCEPT !.closed = closed]
<1>1. /\ pc[t] = "clip" /\ Goto(t, "settle") /\ frame' = [frame EXCEPT ![t] = f]
      /\ UNCHANGED <<orders, active_order_ids, last_ticks, abandoned>>
  BY DEF ClipToPosition, At, engine
<1>2. f.id = frame[t].id /\ f.tick = frame[t].tick /\ f.todo = frame[t].todo
  BY OwnFrame DEF Frame
<1> HIDE DEF f
<1>3. Stays(t) /\ pc'[t] = "settle" /\ frame'[t] = f
  BY <1>1, Moves
<1>4. Local(t)'
  BY <1>1, <1>2, <1>3 DEF RaceInv, Local
<1>5. \A o \in OrderIds : Handles(t, o) => Handles(t, o)'
  BY <1>1, <1>2, <1>3 DEF Handles
<1> QED BY <1>1, <1>3, <1>4, <1>5, HandingOver

LEMMA SettleRaces ==
    ASSUME Inv, RaceInv, NEW t \in Threads, Settle(t)
    PROVE  RaceInv'
<1>1. pc[t] = "settle" /\ UNCHANGED <<orders, active_order_ids, last_ticks, abandoned>> /\ Local(t)
  BY DEF Settle, At, RaceInv
<1>2. /\ Stays(t) /\ Local(t)' /\ pc'[t] # "store"
      /\ \A o \in OrderIds : Handles(t, o) => Handles(t, o)'
  <2>1. CASE Return(t)
    BY <1>1, <2>1, ReturnHands
  <2>2. CASE t = Feed /\ Goto(t, "value") /\ frame' = [frame EXCEPT ![t] = frame[t]]
    <3>1. Stays(t) /\ pc'[t] = "value" /\ frame'[t] = frame[t]
      BY <2>2, Moves
    <3> QED BY <1>1, <3>1 DEF Local, Handles
  <2> QED BY <2>1, <2>2 DEF Settle
<1> QED BY <1>1, <1>2, HandingOver

-----------------------------------------------------------------------------
(* Steps that change an order or the active ids.                            *)

\* The facts of the other threads, when one order is replaced.
LEMMA OneOrder ==
    ASSUME Inv, RaceInv, NEW t \in Threads, Stays(t), pc'[t] # "store", Local(t)',
           NEW id \in OrderIds, NEW order \in Order, orders' = [orders EXCEPT ![id] = order],
           UNCHANGED <<last_ticks, abandoned>>, orders[id] # NoOrder => SameTerms(id),
           orders[id] = NoOrder => pc[t] = "store" /\ frame[t].id = id
    PROVE  /\ \A u \in Threads : Local(u)'
           /\ IdsApart'
           /\ \A o \in OrderIds : orders[o] # NoOrder => (Crossing(o)' <=> Crossing(o))
<1>1. \A o \in OrderIds : orders[o] # NoOrder => SameTerms(o)
  <2> SUFFICES ASSUME NEW o \in OrderIds, orders[o] # NoOrder, o # id PROVE SameTerms(o)
    OBVIOUS
  <2>1. orders'[o] = orders[o] /\ orders[o].traded \in Int
    BY DEF Order
  <2> QED BY <2>1 DEF SameTerms
<1>2. orders' \in [OrderIds -> Order \union {NoOrder}]
  OBVIOUS
<1>3. ASSUME NEW u \in Threads \ {t} PROVE Local(u)'
  <2>1. pc[u] = "store" => orders'[frame[u].id] = NoOrder
    <3> SUFFICES ASSUME pc[u] = "store" PROVE orders'[frame[u].id] = NoOrder
      OBVIOUS
    <3>1. orders[frame[u].id] = NoOrder /\ frame[u].id \in OrderIds
      BY DEF RaceInv, Local, Carries
    <3>2. frame[u].id # id
      BY <3>1 DEF RaceInv, IdsApart
    <3> QED BY <3>1, <3>2
  <2> QED BY <1>1, <1>2, <2>1, OthersLocal DEF RaceInv
<1>4. IdsApart'
  BY DEF RaceInv, IdsApart, Stays
<1>5. \A o \in OrderIds : orders[o] # NoOrder => (Crossing(o)' <=> Crossing(o))
  BY <1>1, CrossingStays
<1> QED BY <1>3, <1>4, <1>5

LEMMA BookTradeRaces ==
    ASSUME Inv, RaceInv, NEW t \in Threads, BookTrade(t)
    PROVE  RaceInv'
<1> DEFINE id == frame[t].id
           traded == orders[id].traded + frame[t].trade.volume
           order == [orders[id] EXCEPT !.traded = traded]
<1>1. pc[t] = "book" /\ Stored(id) /\ TradeReady(t) /\ Local(t)
  BY OwnFrame DEF BookTrade, At, Carries, RaceInv
<1>2. id \in OrderIds /\ orders[id] \in Order /\ frame[t].trade.volume \in Int /\ frame[t].trade.volume > 0
  BY <1>1 DEF Stored, TradeReady, Trade
<1>3. /\ orders[id].traded \in Int /\ traded \in Int /\ traded >= orders[id].traded
      /\ traded >= orders[id].volume
  BY <1>1, <1>2 DEF Order, Local
<1>4. /\ orders' = [orders EXCEPT ![id] = order] /\ Goto(t, "mark")
      /\ UNCHANGED <<active_order_ids, last_ticks, abandoned>>
      /\ frame' = [frame EXCEPT ![t] = frame[t]]
  BY DEF BookTrade
<1> HIDE DEF traded
<1>5. /\ order \in Order /\ order.traded = traded /\ order.status = orders[id].status
      /\ order.volume = orders[id].volume /\ order.vt_symbol = orders[id].vt_symbol
      /\ order.direction = orders[id].direction /\ order.order_type = orders[id].order_type
      /\ order.price = orders[id].price
  BY <1>2, <1>3 DEF Order
<1> HIDE DEF order
<1>6. Stays(t) /\ pc'[t] = "mark" /\ frame'[t] = frame[t]
  BY <1>4, Moves
<1>7. orders'[id] = order /\ \A o \in OrderIds \ {id} : orders'[o] = orders[o]
  BY <1>2, <1>4
<1>8. SameTerms(id)
  BY <1>3, <1>5, <1>7, ConfigAssumption DEF SameTerms
<1>9. Local(t)'
  BY <1>1, <1>3, <1>4, <1>5, <1>6, <1>7 DEF Local
<1>10. /\ \A u \in Threads : Local(u)'
       /\ IdsApart'
       /\ \A o \in OrderIds : orders[o] # NoOrder => (Crossing(o)' <=> Crossing(o))
  BY <1>1, <1>2, <1>4, <1>5, <1>6, <1>8, <1>9, OneOrder DEF Stored
<1>11. \A o \in OrderIds : Open(o)' <=> Open(o)
  BY <1>1, <1>5, <1>7, ConfigAssumption DEF Open, Stored
<1>12. OpenIsActive'
  <2> SUFFICES ASSUME NEW o \in OrderIds, Open(o)' PROVE o \in active_order_ids'
    BY DEF OpenIsActive
  <2> QED BY <1>4, <1>11 DEF RaceInv, OpenIsActive
<1>13. ActiveIsOpen'
  <2> SUFFICES ASSUME NEW o \in active_order_ids', ~Open(o)' PROVE \E u \in Threads : Drops(u, o)'
    BY DEF ActiveIsOpen
  <2>1. o \in OrderIds /\ o \in active_order_ids
    BY <1>4
  <2>2. PICK u \in Threads : Drops(u, o)
    BY <1>11, <2>1 DEF RaceInv, ActiveIsOpen
  <2>3. u # t
    BY <1>1, <2>2 DEF Drops
  <2> QED BY <1>6, <2>1, <2>2, <2>3, OthersStay
<1>14. SpentIsMarked'
  <2> SUFFICES ASSUME NEW o \in OrderIds, Spent(o)' PROVE \E u \in Threads : Marks(u, o)'
    BY DEF SpentIsMarked
  <2>1. CASE o = id
    BY <1>6, <2>1 DEF Marks
  <2>2. CASE o # id
    <3>1. Spent(o)
      BY <1>7, <1>11, <2>2 DEF Spent
    <3>2. PICK u \in Threads : Marks(u, o)
      BY <3>1 DEF RaceInv, SpentIsMarked
    <3>3. u # t
      BY <1>1, <3>2 DEF Marks
    <3> QED BY <1>6, <3>2, <3>3, OthersStay
  <2> QED BY <2>1, <2>2
<1>15. CrossingIsHandled'
  <2> SUFFICES ASSUME NEW o \in OrderIds, Open(o)', Crossing(o)'
               PROVE  \E u \in Threads : Handles(u, o)'
    BY DEF CrossingIsHandled
  <2>1. Open(o) /\ orders[o] # NoOrder
    BY <1>11 DEF Open
  <2>2. Crossing(o)
    BY <1>10, <2>1
  <2>3. PICK u \in Threads : Handles(u, o)
    BY <2>1, <2>2 DEF RaceInv, CrossingIsHandled
  <2>4. orders'[o].vt_symbol = orders[o].vt_symbol
    BY <1>5, <1>7
  <2>5. CASE u = t
    BY <1>1, <1>6, <2>3, <2>4, <2>5 DEF Handles
  <2>6. CASE u # t
    BY <1>4, <1>6, <2>3, <2>4, <2>6, OthersStay
  <2> QED BY <2>5, <2>6
<1> QED BY <1>10, <1>12, <1>13, <1>14, <1>15 DEF RaceInv

\* An order is finished by a thread that goes on to drop it.
LEMMA Finishing ==
    ASSUME Inv, RaceInv, NEW t \in Threads, Stays(t), NEW id \in OrderIds, orders[id] # NoOrder,
           NEW status \in Terminal, orders' = [orders EXCEPT ![id].status = status],
           UNCHANGED <<active_order_ids, last_ticks, abandoned>>,
           pc'[t] = "drop", frame'[t].id = id,
           pc[t] # "drop", pc[t] = "mark" => frame[t].id = id,
           t = Feed => /\ pc[t] \notin {"idle", "value", "walk", "list"} /\ frame'[t].tick = frame[t].tick
                       /\ frame'[t].todo = frame[t].todo,
           pc[t] \in {"look", "check", "fill", "book", "mark"} => frame[t].id = id
    PROVE  RaceInv'
<1> DEFINE order == [orders[id] EXCEPT !.status = status]
<1>1. orders[id] \in Order /\ orders[id].traded \in Int /\ status \in OrderStatus
  BY DEF Order, Terminal, OrderStatus
<1>2. /\ order \in Order /\ order.status = status
      /\ order.traded = orders[id].traded /\ order.vt_symbol = orders[id].vt_symbol
      /\ order.volume = orders[id].volume /\ order.price = orders[id].price
      /\ order.direction = orders[id].direction /\ order.order_type = orders[id].order_type
  BY <1>1 DEF Order
<1>3. orders' = [orders EXCEPT ![id] = order]
  OBVIOUS
<1> HIDE DEF order
<1>4. orders'[id] = order /\ \A o \in OrderIds \ {id} : orders'[o] = orders[o]
  BY <1>3
<1>5. SameTerms(id)
  BY <1>1, <1>2, <1>4, ConfigAssumption DEF SameTerms
<1>6. Local(t)'
  BY <1>2, <1>4 DEF Local, RaceInv
<1>7. /\ \A u \in Threads : Local(u)'
      /\ IdsApart'
      /\ \A o \in OrderIds : orders[o] # NoOrder => (Crossing(o)' <=> Crossing(o))
  <2>1. order \in Order /\ UNCHANGED <<last_ticks, abandoned>> /\ pc'[t] # "store"
    BY <1>2
  <2> QED BY <1>3, <1>5, <1>6, <2>1, OneOrder
<1>8. ~Open(id)' /\ \A o \in OrderIds \ {id} : Open(o)' <=> Open(o)
  BY <1>2, <1>4 DEF Open
<1>9. OpenIsActive'
  <2> SUFFICES ASSUME NEW o \in OrderIds, Open(o)' PROVE o \in active_order_ids'
    BY DEF OpenIsActive
  <2> QED BY <1>8 DEF RaceInv, OpenIsActive
<1>10. ActiveIsOpen'
  <2> SUFFICES ASSUME NEW o \in active_order_ids', ~Open(o)' PROVE \E u \in Threads : Drops(u, o)'
    BY DEF ActiveIsOpen
  <2>1. CASE o = id
    BY <2>1 DEF Drops
  <2>2. CASE o # id
    <3>1. o \in OrderIds /\ o \in active_order_ids
      OBVIOUS
    <3>2. PICK u \in Threads : Drops(u, o)
      BY <1>8, <2>2, <3>1 DEF RaceInv, ActiveIsOpen
    <3>3. u # t
      BY <3>2 DEF Drops
    <3> QED BY <3>1, <3>2, <3>3, OthersStay
  <2> QED BY <2>1, <2>2
<1>11. SpentIsMarked'
  <2> SUFFICES ASSUME NEW o \in OrderIds, Spent(o)' PROVE \E u \in Threads : Marks(u, o)'
    BY DEF SpentIsMarked
  <2>1. o # id
    BY <1>8 DEF Spent
  <2>2. Spent(o)
    BY <1>4, <1>8, <2>1 DEF Spent
  <2>3. PICK u \in Threads : Marks(u, o)
    BY <2>2 DEF RaceInv, SpentIsMarked
  <2>4. u # t
    BY <2>1, <2>3 DEF Marks
  <2> QED BY <2>3, <2>4, OthersStay
<1>12. CrossingIsHandled'
  <2> SUFFICES ASSUME NEW o \in OrderIds, Open(o)', Crossing(o)'
               PROVE  \E u \in Threads : Handles(u, o)'
    BY DEF CrossingIsHandled
  <2>1. o # id
    BY <1>8
  <2>2. Open(o) /\ orders[o] # NoOrder /\ orders'[o] = orders[o]
    BY <1>4, <1>8, <2>1 DEF Open
  <2>3. PICK u \in Threads : Handles(u, o)
    BY <1>7, <2>2 DEF RaceInv, CrossingIsHandled
  <2>4. CASE u = t
    BY <2>1, <2>2, <2>3, <2>4 DEF Handles
  <2>5. CASE u # t
    BY <2>2, <2>3, <2>5, OthersStay
  <2> QED BY <2>4, <2>5
<1> QED BY <1>7, <1>9, <1>10, <1>11, <1>12 DEF RaceInv

LEMMA MarkTradedRaces ==
    ASSUME Inv, RaceInv, NEW t \in Threads, MarkTraded(t)
    PROVE  RaceInv'
<1> DEFINE id == frame[t].id
<1>1. pc[t] = "mark" /\ Stored(id) /\ Local(t)
  BY OwnFrame DEF MarkTraded, At, Carries, RaceInv
<1>2. Remaining(orders[id]) = 0
  BY <1>1 DEF Local, Stored, Order, Remaining
<1>3. /\ orders' = [orders EXCEPT ![id].status = "ALL_TRADED"] /\ Goto(t, "drop")
      /\ UNCHANGED <<active_order_ids, last_ticks, abandoned>>
      /\ frame' = [frame EXCEPT ![t] = frame[t]]
  BY <1>2 DEF MarkTraded
<1>4. Stays(t) /\ pc'[t] = "drop" /\ frame'[t] = frame[t]
  BY <1>3, Moves
<1>5. id \in OrderIds /\ orders[id] # NoOrder /\ "ALL_TRADED" \in Terminal
  BY <1>1 DEF Stored, Terminal
<1> QED BY <1>1, <1>3, <1>4, <1>5, Finishing

LEMMA CancelOrderRaces ==
    ASSUME Inv, RaceInv, NEW t \in Clients, NEW id \in OrderIds, CancelOrder(t, id)
    PROVE  RaceInv'
<1> DEFINE f == [NoFrame EXCEPT !.id = id]
<1>1. t \in Threads /\ t # Feed
  BY DEF Threads
<1>2. f.id = id
  BY DEF NoFrame
<1>3. /\ pc[t] = "idle" /\ orders[id] # NoOrder
      /\ orders' = [orders EXCEPT ![id].status = "CANCELLED"]
      /\ frame' = [frame EXCEPT ![t] = f] /\ Goto(t, "drop")
      /\ UNCHANGED <<active_order_ids, last_ticks, abandoned>>
  BY DEF CancelOrder, At
<1> HIDE DEF f
<1>4. Stays(t) /\ pc'[t] = "drop" /\ frame'[t] = f
  BY <1>1, <1>3, Moves
<1>5. "CANCELLED" \in Terminal
  BY DEF Terminal
<1> QED BY <1>1, <1>2, <1>3, <1>4, <1>5, Finishing

\* The id that a cancellation or a complete fill drops belongs to a finished order.
LEMMA DropActiveRaces ==
    ASSUME Inv, RaceInv, NEW t \in Threads, DropActive(t)
    PROVE  RaceInv'
<1> DEFINE id == frame[t].id
<1>1. /\ pc[t] = "drop" /\ UNCHANGED <<orders, last_ticks, abandoned>> /\ Local(t)
      /\ active_order_ids' = active_order_ids \ {id}
  BY DEF DropActive, At, RaceInv
<1>2. ~Open(id)
  BY <1>1 DEF Local, Open
<1>3. /\ Stays(t) /\ Local(t)' /\ pc'[t] # "store"
      /\ \A o \in OrderIds : Handles(t, o) => Handles(t, o)'
  <2>1. CASE Return(t)
    BY <1>1, <2>1, ReturnHands
  <2>2. CASE Goto(t, "charge") /\ frame' = [frame EXCEPT ![t] = frame[t]]
    <3>1. Stays(t) /\ pc'[t] = "charge" /\ frame'[t] = frame[t]
      BY <2>2, Moves
    <3>2. Local(t)'
      BY <1>1, <3>1 DEF Local
    <3>3. \A o \in OrderIds : Handles(t, o) => Handles(t, o)'
      BY <1>1, <3>1 DEF Handles
    <3> QED BY <3>1, <3>2, <3>3
  <2> QED BY <2>1, <2>2 DEF DropActive
<1>4. \A u \in Threads : Local(u)'
  <2> SUFFICES ASSUME NEW u \in Threads \ {t} PROVE Local(u)'
    BY <1>3
  <2>1. \A o \in OrderIds : orders[o] # NoOrder => SameTerms(o)
    <3> SUFFICES ASSUME NEW o \in OrderIds, orders[o] # NoOrder PROVE SameTerms(o)
      OBVIOUS
    <3>1. orders[o].traded \in Int /\ orders'[o] = orders[o]
      BY <1>1 DEF Order
    <3> QED BY <3>1 DEF SameTerms
  <2>2. pc[u] = "store" => orders'[frame[u].id] = NoOrder
    BY <1>1 DEF RaceInv, Local
  <2>3. orders' \in [OrderIds -> Order \union {NoOrder}]
    BY <1>1
  <2> QED BY <1>1, <1>3, <2>1, <2>2, <2>3, OthersLocal DEF RaceInv
<1>5. IdsApart'
  BY <1>3 DEF RaceInv, IdsApart, Stays
<1>6. OpenIsActive'
  <2> SUFFICES ASSUME NEW o \in OrderIds, Open(o)' PROVE o \in active_order_ids'
    BY DEF OpenIsActive
  <2>1. Open(o) /\ o # id
    BY <1>1, <1>2, SameBook
  <2> QED BY <1>1, <2>1 DEF RaceInv, OpenIsActive
<1>7. ActiveIsOpen'
  <2> SUFFICES ASSUME NEW o \in active_order_ids', ~Open(o)' PROVE \E u \in Threads : Drops(u, o)'
    BY DEF ActiveIsOpen
  <2>1. o \in OrderIds /\ o \in active_order_ids /\ o # id
    BY <1>1
  <2>2. ~Open(o)
    BY <1>1, SameBook
  <2>3. PICK u \in Threads : Drops(u, o)
    BY <2>1, <2>2 DEF RaceInv, ActiveIsOpen
  <2>4. u # t
    BY <2>1, <2>3 DEF Drops
  <2> QED BY <1>3, <2>1, <2>3, <2>4, OthersStay
<1>8. SpentIsMarked'
  <2> SUFFICES ASSUME NEW o \in OrderIds, Spent(o)' PROVE \E u \in Threads : Marks(u, o)'
    BY DEF SpentIsMarked
  <2>1. PICK u \in Threads : Marks(u, o)
    BY <1>1, SameBook DEF RaceInv, SpentIsMarked
  <2>2. u # t
    BY <1>1, <2>1 DEF Marks
  <2> QED BY <1>3, <2>1, <2>2, OthersStay
<1>9. CrossingIsHandled'
  <2> SUFFICES ASSUME NEW o \in OrderIds, Open(o)', Crossing(o)'
               PROVE  \E u \in Threads : Handles(u, o)'
    BY DEF CrossingIsHandled
  <2>1. PICK u \in Threads : Handles(u, o)
    BY <1>1, SameBook DEF RaceInv, CrossingIsHandled
  <2> QED BY <1>1, <1>3, <2>1, OthersStay
<1> QED BY <1>4, <1>5, <1>6, <1>7, <1>8, <1>9 DEF RaceInv

\* An accepted order is handled by its submission from the moment it is stored.
LEMMA StoreOrderRaces ==
    ASSUME Inv, RaceInv, NEW t \in Clients, StoreOrder(t)
    PROVE  RaceInv'
<1>0. PICK id \in OrderIds, order \in Order : id = frame[t].id /\ order = frame[t].order
  BY OwnFrame DEF Threads, StoreOrder, At, Carries
<1> DEFINE accepted == order.status = "NOT_TRADED"
<1>1. /\ t \in Threads /\ t # Feed /\ pc[t] = "store" /\ Local(t)
      /\ id \in OrderIds /\ order \in Order /\ orders[id] = NoOrder
  BY <1>0 DEF Threads, StoreOrder, At, RaceInv, Local
<1>2. orders' = [orders EXCEPT ![id] = order] /\ UNCHANGED <<last_ticks, abandoned>>
  BY <1>0 DEF StoreOrder
<1>3. /\ Stays(t) /\ pc'[t] # "store" /\ Local(t)'
      /\ accepted => /\ pc'[t] = "look" /\ frame'[t].id = id
                     /\ active_order_ids' = active_order_ids \union {id}
      /\ ~accepted => order.status \in Terminal /\ active_order_ids' = active_order_ids
  <2>1. CASE order.status = "REJECTED" /\ Return(t) /\ UNCHANGED active_order_ids
    <3>1. Stays(t) /\ pc'[t] = "idle"
      BY <1>1, <2>1, Returns
    <3>2. Local(t)'
      BY <1>1, <3>1 DEF Local
    <3> QED BY <2>1, <3>1, <3>2 DEF Terminal
  <2>2. CASE /\ accepted /\ active_order_ids' = active_order_ids \union {id}
             /\ frame' = [frame EXCEPT ![t].order = NoOrder] /\ Goto(t, "look")
    <3> DEFINE f == [frame[t] EXCEPT !.order = NoOrder]
    <3>1. f.id = id
      BY <1>0, <1>1, OwnFrame DEF Frame
    <3>2. frame' = [frame EXCEPT ![t] = f]
      BY <2>2
    <3> HIDE DEF f
    <3>3. Stays(t) /\ pc'[t] = "look" /\ frame'[t] = f
      BY <1>1, <2>2, <3>2, Moves
    <3>4. Local(t)'
      BY <1>1, <3>3 DEF Local
    <3> QED BY <2>2, <3>1, <3>3, <3>4
  <2> QED BY <1>0, <2>1, <2>2 DEF StoreOrder
<1>4. orders'[id] = order /\ \A o \in OrderIds \ {id} : orders'[o] = orders[o]
  BY <1>1, <1>2
<1>5. accepted => order.volume > order.traded
  BY <1>0, <1>1 DEF Local, Order
<1>6. order.traded \in Int /\ order.volume \in Int /\ order # NoOrder
  BY <1>1, ConfigAssumption DEF Order
<1>7. /\ \A u \in Threads : Local(u)'
      /\ IdsApart'
      /\ \A o \in OrderIds : orders[o] # NoOrder => (Crossing(o)' <=> Crossing(o))
  BY <1>0, <1>1, <1>2, <1>3, OneOrder
<1>8. /\ ~Open(id)
      /\ Open(id)' <=> accepted
      /\ \A o \in OrderIds \ {id} : Open(o)' <=> Open(o)
  <2>1. accepted <=> order.status \notin Terminal
    BY <1>3 DEF Terminal
  <2>2. ~Open(id)
    BY <1>1 DEF Open
  <2>3. Open(id)' <=> accepted
    BY <1>4, <1>6, <2>1 DEF Open
  <2>4. \A o \in OrderIds \ {id} : Open(o)' <=> Open(o)
    BY <1>4 DEF Open
  <2> QED BY <2>2, <2>3, <2>4
<1>9. OpenIsActive'
  <2> SUFFICES ASSUME NEW o \in OrderIds, Open(o)' PROVE o \in active_order_ids'
    BY DEF OpenIsActive
  <2> QED BY <1>3, <1>8 DEF RaceInv, OpenIsActive
<1>10. ActiveIsOpen'
  <2> SUFFICES ASSUME NEW o \in active_order_ids', ~Open(o)' PROVE \E u \in Threads : Drops(u, o)'
    BY DEF ActiveIsOpen
  <2>1. o # id /\ o \in active_order_ids /\ o \in OrderIds
    <3>1. id \notin active_order_ids
      BY <1>1 DEF Stored
    <3> QED BY <1>3, <1>8, <3>1
  <2>2. PICK u \in Threads : Drops(u, o)
    BY <1>8, <2>1 DEF RaceInv, ActiveIsOpen
  <2>3. u # t
    BY <1>1, <2>2 DEF Drops
  <2> QED BY <1>1, <1>3, <2>1, <2>2, <2>3, OthersStay
<1>11. SpentIsMarked'
  <2> SUFFICES ASSUME NEW o \in OrderIds, Spent(o)' PROVE \E u \in Threads : Marks(u, o)'
    BY DEF SpentIsMarked
  <2>1. o # id
    BY <1>4, <1>5, <1>6, <1>8 DEF Spent
  <2>2. Spent(o)
    BY <1>4, <1>8, <2>1 DEF Spent
  <2>3. PICK u \in Threads : Marks(u, o)
    BY <2>2 DEF RaceInv, SpentIsMarked
  <2>4. u # t
    BY <1>1, <2>3 DEF Marks
  <2> QED BY <1>1, <1>3, <2>3, <2>4, OthersStay
<1>12. CrossingIsHandled'
  <2> SUFFICES ASSUME NEW o \in OrderIds, Open(o)', Crossing(o)'
               PROVE  \E u \in Threads : Handles(u, o)'
    BY DEF CrossingIsHandled
  <2>1. CASE o = id
    BY <1>1, <1>3, <1>8, <2>1 DEF Handles
  <2>2. CASE o # id
    <3>1. Open(o) /\ orders[o] # NoOrder /\ orders'[o] = orders[o]
      BY <1>4, <1>8, <2>2 DEF Open
    <3>2. PICK u \in Threads : Handles(u, o)
      BY <1>7, <3>1 DEF RaceInv, CrossingIsHandled
    <3>3. u # t
      BY <1>1, <3>2 DEF Handles
    <3> QED BY <1>1, <1>2, <1>3, <3>1, <3>2, <3>3, OthersStay
  <2> QED BY <2>1, <2>2
<1> QED BY <1>7, <1>9, <1>10, <1>11, <1>12 DEF RaceInv

\* A tick is stored before the active orders are listed: the feed handles every
\* order of its symbol.
LEMMA TickArrivesRaces ==
    ASSUME Inv, RaceInv, NEW tick \in Ticks, TickArrives(tick)
    PROVE  RaceInv'
<1> DEFINE s == tick.vt_symbol
           f == [NoFrame EXCEPT !.tick = tick]
<1>1. /\ Feed \in Threads /\ pc[Feed] = "idle" /\ UNCHANGED <<orders, active_order_ids>>
      /\ last_ticks' = [last_ticks EXCEPT ![s] = tick]
      /\ frame' = [frame EXCEPT ![Feed] = f] /\ Goto(Feed, "value")
      /\ abandoned' = {o \in abandoned : orders[o].vt_symbol # s}
  BY DEF Threads, TickArrives, At
<1>2. f.tick = tick /\ f.trade = NoOrder
  BY DEF NoFrame
<1> HIDE DEF f
<1>3. Stays(Feed) /\ pc'[Feed] = "value" /\ frame'[Feed].tick = tick /\ frame'[Feed].trade = NoOrder
  BY <1>1, <1>2, Moves
<1>4. s \in Symbols /\ last_ticks'[s] = tick /\ \A x \in Symbols \ {s} : last_ticks'[x] = last_ticks[x]
  BY <1>1, ConfigAssumption DEF MarketSound, Tick
<1>5. Local(Feed)'
  BY <1>3, <1>4 DEF Local
<1>6. \A u \in Threads : Local(u)'
  <2> SUFFICES ASSUME NEW u \in Threads \ {Feed} PROVE Local(u)'
    BY <1>5
  <2>1. \A o \in OrderIds : orders[o] # NoOrder => SameTerms(o)
    <3> SUFFICES ASSUME NEW o \in OrderIds, orders[o] # NoOrder PROVE SameTerms(o)
      OBVIOUS
    <3>1. orders[o].traded \in Int /\ orders'[o] = orders[o]
      BY <1>1 DEF Order
    <3> QED BY <3>1 DEF SameTerms
  <2>2. pc[u] = "store" => orders'[frame[u].id] = NoOrder
    BY <1>1 DEF RaceInv, Local
  <2>3. orders' \in [OrderIds -> Order \union {NoOrder}]
    BY <1>1
  <2> QED BY <1>1, <1>3, <2>1, <2>2, <2>3, OthersLocal DEF RaceInv
<1>7. IdsApart'
  BY <1>3 DEF RaceInv, IdsApart, Stays
<1>8. \A o \in OrderIds : (Open(o)' <=> Open(o)) /\ (Spent(o)' <=> Spent(o))
  <2> SUFFICES ASSUME NEW o \in OrderIds
               PROVE  (Open(o)' <=> Open(o)) /\ (Spent(o)' <=> Spent(o))
    OBVIOUS
  <2>1. Open(o)' <=> Open(o)
    BY <1>1 DEF Open
  <2> QED BY <1>1, <2>1 DEF Spent
<1>9. OpenIsActive'
  <2> SUFFICES ASSUME NEW o \in OrderIds, Open(o)' PROVE o \in active_order_ids'
    BY DEF OpenIsActive
  <2> QED BY <1>1, <1>8 DEF RaceInv, OpenIsActive
<1>10. ActiveIsOpen'
  <2> SUFFICES ASSUME NEW o \in active_order_ids', ~Open(o)' PROVE \E u \in Threads : Drops(u, o)'
    BY DEF ActiveIsOpen
  <2>1. o \in OrderIds /\ o \in active_order_ids
    BY <1>1
  <2>2. PICK u \in Threads : Drops(u, o)
    BY <1>8, <2>1 DEF RaceInv, ActiveIsOpen
  <2>3. u # Feed
    BY <1>1, <2>2 DEF Drops
  <2> QED BY <1>1, <1>3, <2>1, <2>2, <2>3, OthersStay
<1>11. SpentIsMarked'
  <2> SUFFICES ASSUME NEW o \in OrderIds, Spent(o)' PROVE \E u \in Threads : Marks(u, o)'
    BY DEF SpentIsMarked
  <2>1. PICK u \in Threads : Marks(u, o)
    BY <1>8 DEF RaceInv, SpentIsMarked
  <2>2. u # Feed
    BY <1>1, <2>1 DEF Marks
  <2> QED BY <1>1, <1>3, <2>1, <2>2, OthersStay
<1>12. CrossingIsHandled'
  <2> SUFFICES ASSUME NEW o \in OrderIds, Open(o)', Crossing(o)'
               PROVE  \E u \in Threads : Handles(u, o)'
    BY DEF CrossingIsHandled
  <2>1. Open(o) /\ orders'[o] = orders[o] /\ orders[o].vt_symbol \in Symbols
    BY <1>1, <1>8 DEF Open, Order
  <2>2. CASE orders[o].vt_symbol = s
    <3>1. Handles(Feed, o)'
      BY <1>3, <2>1, <2>2 DEF Handles
    <3> QED BY <1>1, <3>1
  <2>3. CASE orders[o].vt_symbol # s
    <3>1. last_ticks'[orders[o].vt_symbol] = last_ticks[orders[o].vt_symbol]
      BY <1>4, <2>1, <2>3
    <3>2. Crossing(o)
      BY <1>1, <2>1, <2>3, <3>1 DEF Crossing
    <3>3. PICK u \in Threads : Handles(u, o)
      BY <2>1, <3>2 DEF RaceInv, CrossingIsHandled
    <3>4. u # Feed
      BY <1>1, <3>3 DEF Handles
    <3>5. Handles(u, o)'
      BY <1>3, <2>1, <3>1, <3>3, <3>4 DEF Handles, Stays
    <3> QED BY <3>5
  <2> QED BY <2>2, <2>3
<1> QED BY <1>6, <1>7, <1>9, <1>10, <1>11, <1>12 DEF RaceInv

-----------------------------------------------------------------------------
(* The specification.                                                       *)

LEMMA InitRaces == Init => RaceInv
<1> SUFFICES ASSUME Init PROVE RaceInv
  OBVIOUS
<1>1. \A o \in OrderIds : ~Open(o)
  BY DEF Init, Open
<1>2. \A t \in Threads : Local(t)
  BY DEF Init, Local
<1> QED BY <1>1, <1>2 DEF Init, RaceInv, IdsApart, OpenIsActive, ActiveIsOpen,
       SpentIsMarked, Spent, CrossingIsHandled

LEMMA NextRaces == Inv /\ RaceInv /\ [Next]_vars => RaceInv'
<1> SUFFICES ASSUME Inv, RaceInv, [Next]_vars PROVE RaceInv'
  OBVIOUS
<1>1. CASE UNCHANGED vars
  BY <1>1 DEF vars, engine, RaceInv, Local, IdsApart, OpenIsActive, ActiveIsOpen, SpentIsMarked,
     CrossingIsHandled, Open, Spent, Crossing, Drops, Marks, Handles
<1>2. ASSUME NEW t \in Threads, MatchStep(t) PROVE RaceInv'
  BY <1>2, CheckStatusRaces, TakeFillRaces, BookTradeRaces, MarkTradedRaces, DropActiveRaces,
     ChargeCommissionRaces, ClipToPositionRaces, SettleRaces DEF MatchStep
<1>3. ASSUME NEW t \in Clients, SubmitStep(t) PROVE RaceInv'
  BY <1>3, StoreOrderRaces, LookUpTickRaces DEF SubmitStep
<1>4. ASSUME LoopStep PROVE RaceInv'
  BY <1>4, MarkingRaces, ListActiveRaces, NextActiveRaces, TickDoneRaces DEF LoopStep
<1>5. CASE Next
  BY <1>2, <1>3, <1>4, <1>5, ValidateRaces, CancelOrderRaces, TickArrivesRaces DEF Next
<1> QED BY <1>1, <1>5

LEMMA RaceInvariance == Spec => [](Inv /\ RaceInv)
BY InitInv, InitRaces, NextInv, NextRaces, PTL DEF Spec

\* When no call is in progress the active ids are exactly the open orders, for
\* any number of worker threads that store, cancel and fill without a lock.
THEOREM ActiveOrdersAreOpen == Spec => []ActiveIffOpenWhenQuiet
<1>1. Inv /\ RaceInv => ActiveIffOpenWhenQuiet
  <2> SUFFICES ASSUME Inv, RaceInv, Quiet
               PROVE  active_order_ids = {o \in OrderIds : orders[o] # NoOrder /\ orders[o].status \notin Terminal}
    BY DEF ActiveIffOpenWhenQuiet
  <2>1. \A t \in Threads, o \in OrderIds : ~Drops(t, o)
    BY DEF Quiet, At, Drops
  <2>2. \A o \in active_order_ids : Open(o)
    BY <2>1 DEF RaceInv, ActiveIsOpen
  <2> QED BY <2>2 DEF RaceInv, OpenIsActive, Open
<1> QED BY <1>1, RaceInvariance, PTL

\* An order that the last tick of its symbol crosses and that rests when every
\* call has ended was before a tick that failed in the marking: the submission
\* or the tick loop has seen every other one.
THEOREM NoOrderIsForgotten == Spec => []NoRestingCrossWhenQuiet
<1>1. Inv /\ RaceInv => NoRestingCrossWhenQuiet
  <2> SUFFICES ASSUME Inv, RaceInv, Quiet, NEW o \in OrderIds, Crossed(o), o \notin abandoned PROVE FALSE
    BY DEF NoRestingCrossWhenQuiet
  <2>1. \A t \in Threads : pc[t] = "idle"
    BY DEF Quiet, At
  <2>2. Open(o) /\ Crossing(o)
    BY <2>1 DEF RaceInv, ActiveIsOpen, Drops, Crossed, Crossing
  <2>3. PICK t \in Threads : Handles(t, o)
    BY <2>2 DEF RaceInv, CrossingIsHandled
  <2> QED BY <2>1, <2>3 DEF Handles
<1> QED BY <1>1, RaceInvariance, PTL

-----------------------------------------------------------------------------
(* Sums over the recorded trades.                                           *)

AddValue(f, acc, x) == f[x] + acc
Nothing(f) == 0
V == INSTANCE FoldLemmas WITH op <- AddValue, base <- Nothing

\* A sum over a set of trades is a fold over it.
LEMMA SumIsFold == \A f, S : SumFunctionOnSet(f, S) = V!FoldOver(f, S)
BY DEF SumFunctionOnSet, FoldFunctionOnSet, MapThenFoldSet, V!FoldOver, V!MapThenFoldSet, AddValue, Nothing

\* Finite here is finite in the lemmas on folds.
LEMMA Finite == \A S : IsFiniteSet(S) => V!IsFiniteSet(S)
BY DEF IsFiniteSet, V!IsFiniteSet

\* The sum over a set of trades, and the sum when one more is in the set.
LEMMA SumWith ==
    ASSUME NEW D, NEW f \in [D -> Int], NEW S \in SUBSET D, IsFiniteSet(S)
    PROVE  /\ SumFunctionOnSet(f, S) \in Int
           /\ \A x \in D \ S : SumFunctionOnSet(f, S \union {x}) = SumFunctionOnSet(f, S) + f[x]
<1>1. V!Commutes(f, Int, D)
  BY DEF V!Commutes, AddValue, Nothing
<1>2. SumFunctionOnSet(f, S) \in Int
  BY <1>1, Finite, SumIsFold, V!FoldOverAny
<1>3. ASSUME NEW x \in D \ S
      PROVE  SumFunctionOnSet(f, S \union {x}) = SumFunctionOnSet(f, S) + f[x]
  <2>1. IsFiniteSet(S \union {x}) /\ (S \union {x}) \in SUBSET D /\ (S \union {x}) \ {x} = S
    BY FS_AddElement
  <2>2. \A y \in S \union {x} : V!FoldOver(f, S \union {x}) = AddValue(f, V!FoldOver(f, (S \union {x}) \ {y}), y)
    BY <1>1, <2>1, Finite, V!FoldOverAny
  <2>3. SumFunctionOnSet(f, S \union {x}) = AddValue(f, SumFunctionOnSet(f, S), x)
    BY <2>1, <2>2, SumIsFold
  <2> QED
    BY <1>2, <2>3 DEF AddValue
<1> QED
  BY <1>2, <1>3

\* Only the values in the set matter to its sum.
LEMMA SumAgrees ==
    ASSUME NEW f, NEW g, NEW S, IsFiniteSet(S), \A x \in S : f[x] = g[x]
    PROVE  SumFunctionOnSet(f, S) = SumFunctionOnSet(g, S)
<1>1. V!Alike(f, g, S)
  BY DEF V!Alike, AddValue, Nothing
<1> QED
  BY <1>1, Finite, SumIsFold, V!FoldOverAlike

\* The sum over no trades.
LEMMA SumOfNone == \A f : SumFunctionOnSet(f, {}) = 0
BY SumIsFold, V!FoldOverEmpty DEF Nothing

-----------------------------------------------------------------------------
(* The trades that are recorded and not yet settled: each is in the hands   *)
(* of one thread, and p says where that thread has recorded it.             *)

\* The thread has recorded its trade, and has not charged it yet.
Uncharged(t) == pc[t] \in {"mark", "charge"} \/ (pc[t] = "drop" /\ frame[t].trade # NoOrder)

\* The thread has recorded its trade, and has not settled it yet.
Unsettled(t) == Uncharged(t) \/ pc[t] \in {"clip", "settle"}

\* The places of the unsettled trades: no two threads settle the same one.
Recorded(p) ==
    /\ p \in [Threads -> Nat]
    /\ \A t \in Threads : Unsettled(t) => p[t] \in DOMAIN trades /\ trades[p[t]] = frame[t].trade
    /\ \A t, u \in Threads : Unsettled(t) /\ Unsettled(u) /\ p[t] = p[u] => t = u

ChargedTrades(p) == {i \in DOMAIN trades : \A t \in Threads : Uncharged(t) => p[t] # i}
SettledTrades(p) == {i \in DOMAIN trades : \A t \in Threads : Unsettled(t) => p[t] # i}

\* The settled trades that opened and that closed a long position.
LongOpens(p, s) == {i \in SettledTrades(p) : OpensLong(i, s)}
LongCloses(p, s) == {i \in SettledTrades(p) : ClosesLong(i, s)}

\* The account has paid for what is charged, and the position is what was settled.
FeesCharged(p) == account.commission = SumFunctionOnSet(Fees, ChargedTrades(p))

LongSettled(p, s) ==
    /\ LongCloses(p, s) = {} => positions[s].long_volume = SumFunctionOnSet(Volumes, LongOpens(p, s))
    /\ positions[s].long_volume <= SumFunctionOnSet(Volumes, LongOpens(p, s))

Settles(p) == Recorded(p) /\ FeesCharged(p) /\ \A s \in Symbols : LongSettled(p, s)
\* The inductive invariant: there are such places.
RecordInv == \E p : Settles(p)

\* The rate of the commission multiplies numbers.
LEMMA Multiplied == \A n \in Int : n * CommissionRate \in Int
OBVIOUS

\* The trades have fees and volumes, and there are finitely many.
LEMMA TradeValues ==
    ASSUME Inv
    PROVE  /\ Fees \in [DOMAIN trades -> Int] /\ Volumes \in [DOMAIN trades -> Int]
           /\ \A S \in SUBSET DOMAIN trades : IsFiniteSet(S)
<1>1. trades \in Seq(Trade)
  BY DEF Inv, MarketSound
<1>2. ASSUME NEW i \in DOMAIN trades PROVE Commission(trades[i]) \in Int /\ trades[i].volume \in Int
  <2>1. trades[i] \in Trade
    BY <1>1
  <2>2. Abs(trades[i].price * trades[i].volume) \in Int
    BY <2>1 DEF Trade, Abs
  <2>3. Commission(trades[i]) \in Int
    BY <2>2, Multiplied DEF Commission
  <2> QED
    BY <2>1, <2>3 DEF Trade
<1>3. \A S \in SUBSET DOMAIN trades : IsFiniteSet(S)
  <2>1. DOMAIN trades = 1 .. Len(trades) /\ Len(trades) \in Nat
    BY <1>1
  <2>2. IsFiniteSet(DOMAIN trades)
    BY <2>1, FS_Interval
  <2> QED
    BY <2>2, FS_Subset
<1> QED
  BY <1>2, <1>3 DEF Fees, Volumes

-----------------------------------------------------------------------------
(* Steps that leave the trades to their threads.                            *)

\* The step leaves t the trade it has to charge or to settle.
Keeps(t) == /\ Uncharged(t)' <=> Uncharged(t)
            /\ Unsettled(t)' <=> Unsettled(t)
            /\ Unsettled(t) => frame'[t].trade = frame[t].trade

\* If every thread keeps its trade, the record is as it was.
LEMMA Kept ==
    ASSUME RecordInv, UNCHANGED <<trades, positions, account>>, \A t \in Threads : Keeps(t)
    PROVE  RecordInv'
<1>1. PICK p : Settles(p)
  BY DEF RecordInv
<1>2. Recorded(p)'
  BY <1>1 DEF Settles, Recorded, Keeps
<1>3. ChargedTrades(p)' = ChargedTrades(p) /\ SettledTrades(p)' = SettledTrades(p)
  BY DEF Keeps, ChargedTrades, SettledTrades
<1>4. Fees' = Fees /\ Volumes' = Volumes
  BY DEF Fees, Volumes
<1>5. FeesCharged(p)'
  BY <1>1, <1>3, <1>4 DEF Settles, FeesCharged
<1>6. ASSUME NEW s \in Symbols PROVE LongSettled(p, s)'
  <2>1. LongOpens(p, s)' = LongOpens(p, s) /\ LongCloses(p, s)' = LongCloses(p, s)
    BY <1>3 DEF LongOpens, LongCloses, OpensLong, ClosesLong
  <2> QED
    BY <1>1, <1>4, <2>1 DEF Settles, LongSettled
<1> QED
  BY <1>2, <1>5, <1>6 DEF RecordInv, Settles

\* A step of one thread.
LEMMA OneKeeps ==
    ASSUME Inv, RecordInv, UNCHANGED <<trades, positions, account>>, NEW t \in Threads, NEW f, NEW label,
           frame' = [frame EXCEPT ![t] = f], pc' = [pc EXCEPT ![t] = label], Keeps(t)
    PROVE  RecordInv'
<1>1. ASSUME NEW u \in Threads, u # t PROVE Keeps(u)
  <2>1. frame'[u] = frame[u] /\ pc'[u] = pc[u]
    BY <1>1 DEF Inv, ThreadsSound
  <2> QED
    BY <2>1 DEF Keeps, Uncharged, Unsettled
<1> QED
  BY <1>1, Kept

\* A call ends whose trade is settled, or that has none.
LEMMA ReturnKeeps ==
    ASSUME Inv, RecordInv, UNCHANGED <<trades, positions, account>>, NEW t \in Threads, Return(t), ~Unsettled(t)
    PROVE  RecordInv'
<1> DEFINE f == IF t = Feed THEN [NoFrame EXCEPT !.tick = frame[t].tick, !.todo = frame[t].todo] ELSE NoFrame
           label == IF t = Feed THEN "loop" ELSE "idle"
<1>1. frame' = [frame EXCEPT ![t] = f] /\ pc' = [pc EXCEPT ![t] = label]
  BY DEF Return, Goto
<1>2. pc'[t] = label /\ label \in {"loop", "idle"}
  BY <1>1 DEF Inv, ThreadsSound
<1> HIDE DEF f, label
<1>3. Keeps(t)
  BY <1>2 DEF Keeps, Unsettled, Uncharged
<1> QED
  BY <1>1, <1>3, OneKeeps

\* A thread that has recorded no trade goes on to a step before it records one.
LEMMA MovesKeep ==
    ASSUME Inv, RecordInv, UNCHANGED <<trades, positions, account>>, NEW t \in Threads, NEW f, NEW label,
           frame' = [frame EXCEPT ![t] = f], pc' = [pc EXCEPT ![t] = label], ~Unsettled(t),
           label \notin {"mark", "charge", "drop", "clip", "settle"} \/ (label = "drop" /\ f.trade = NoOrder)
    PROVE  RecordInv'
<1>1. pc'[t] = label /\ frame'[t] = f
  BY DEF Inv, ThreadsSound
<1>2. Keeps(t)
  BY <1>1 DEF Keeps, Unsettled, Uncharged
<1> QED
  BY <1>2, OneKeeps

\* A worker thread before it matches its order, or while it cancels one.
LEMMA ClientStepsKeep ==
    ASSUME Inv, RecordInv, NEW t \in Clients,
           \/ \E id \in OrderIds, req \in Requests : Validate(t, id, req)
           \/ \E id \in OrderIds : CancelOrder(t, id)
           \/ SubmitStep(t)
    PROVE  RecordInv'
<1>1. t \in Threads
  BY DEF Threads
<1>2. ASSUME NEW id \in OrderIds, NEW req \in Requests, Validate(t, id, req) PROVE RecordInv'
  <2>1. /\ pc[t] = "idle" /\ UNCHANGED <<trades, positions, account>> /\ pc' = [pc EXCEPT ![t] = "store"]
        /\ \E f : frame' = [frame EXCEPT ![t] = f]
    BY <1>2 DEF Validate, At, Goto, engine
  <2> QED
    BY <1>1, <2>1, MovesKeep DEF Unsettled, Uncharged
<1>3. ASSUME NEW id \in OrderIds, CancelOrder(t, id) PROVE RecordInv'
  <2> DEFINE f == [NoFrame EXCEPT !.id = id]
  <2>1. /\ pc[t] = "idle" /\ UNCHANGED <<trades, positions, account>> /\ pc' = [pc EXCEPT ![t] = "drop"]
        /\ frame' = [frame EXCEPT ![t] = f] /\ f.trade = NoOrder
    BY <1>3 DEF CancelOrder, At, Goto, NoFrame
  <2> HIDE DEF f
  <2> QED
    BY <1>1, <2>1, MovesKeep DEF Unsettled, Uncharged
<1>4. ASSUME StoreOrder(t) PROVE RecordInv'
  <2>1. pc[t] = "store" /\ ~Unsettled(t) /\ UNCHANGED <<trades, positions, account>>
    BY <1>4 DEF StoreOrder, At, Unsettled, Uncharged
  <2>2. CASE Return(t)
    BY <1>1, <2>1, <2>2, ReturnKeeps
  <2>3. CASE pc' = [pc EXCEPT ![t] = "look"] /\ \E f : frame' = [frame EXCEPT ![t] = f]
    BY <1>1, <2>1, <2>3, MovesKeep
  <2>4. Return(t) \/ (pc' = [pc EXCEPT ![t] = "look"] /\ \E f : frame' = [frame EXCEPT ![t] = f])
    BY <1>4 DEF StoreOrder, Goto
  <2> QED
    BY <2>2, <2>3, <2>4
<1>5. ASSUME LookUpTick(t) PROVE RecordInv'
  <2>1. pc[t] = "look" /\ ~Unsettled(t) /\ UNCHANGED <<trades, positions, account>>
    BY <1>5 DEF LookUpTick, At, Unsettled, Uncharged, engine
  <2>2. CASE Return(t)
    BY <1>1, <2>1, <2>2, ReturnKeeps
  <2>3. CASE pc' = [pc EXCEPT ![t] = "check"] /\ \E f : frame' = [frame EXCEPT ![t] = f]
    BY <1>1, <2>1, <2>3, MovesKeep
  <2>4. Return(t) \/ (pc' = [pc EXCEPT ![t] = "check"] /\ \E f : frame' = [frame EXCEPT ![t] = f])
    BY <1>5 DEF LookUpTick, Goto
  <2> QED
    BY <2>2, <2>3, <2>4
<1> QED
  BY <1>2, <1>3, <1>4, <1>5 DEF SubmitStep

\* The event-loop thread between two orders.
LEMMA FeedStepsKeep ==
    ASSUME Inv, RecordInv, LoopStep \/ \E tick \in Ticks : TickArrives(tick)
    PROVE  RecordInv'
<1>1. Feed \in Threads
  BY DEF Threads
<1>2. /\ pc[Feed] \in {"idle", "value", "walk", "list", "loop"} /\ UNCHANGED <<trades, positions, account>>
      /\ \E f : frame' = [frame EXCEPT ![Feed] = f]
      /\ \E label \in {"idle", "value", "walk", "list", "loop", "check"} : pc' = [pc EXCEPT ![Feed] = label]
  <2>1. CASE MarkingDone /\ pc[Feed] \in {"value", "walk"} /\ UNCHANGED engine
    BY <2>1 DEF MarkingDone, Return, Goto, engine
  <2>2. CASE StartMarking /\ held # {}
    BY <2>2 DEF StartMarking, At, Goto, engine
  <2>3. CASE MarkingFails
    BY <2>3 DEF MarkingFails, At, Goto
  <2>4. CASE ListActive \/ TickDone \/ (\E id \in OrderIds : NextActive(id))
    BY <2>4 DEF ListActive, NextActive, TickDone, At, Goto, engine
  <2>5. CASE \E tick \in Ticks : TickArrives(tick)
    BY <2>5 DEF TickArrives, At, Goto
  <2> QED BY <2>1, <2>2, <2>3, <2>4, <2>5 DEF LoopStep, StartMarking, EndMarking, At
<1>3. ~Unsettled(Feed)
  BY <1>2 DEF Unsettled, Uncharged
<1> QED
  BY <1>1, <1>2, <1>3, MovesKeep

\* A thread before it records a trade.
LEMMA MatchingKeeps ==
    ASSUME Inv, RecordInv, NEW t \in Threads, CheckStatus(t) \/ TakeFill(t)
    PROVE  RecordInv'
<1>1. pc[t] \in {"check", "fill"} /\ UNCHANGED <<trades, positions, account>>
  BY DEF CheckStatus, TakeFill, At, engine
<1>2. ~Unsettled(t)
  BY <1>1 DEF Unsettled, Uncharged
<1>3. CASE Return(t)
  BY <1>1, <1>2, <1>3, ReturnKeeps
<1>4. CASE /\ \E label \in {"fill", "book"} : pc' = [pc EXCEPT ![t] = label]
           /\ \E f : frame' = [frame EXCEPT ![t] = f]
  BY <1>1, <1>2, <1>4, MovesKeep
<1>5. \/ Return(t)
      \/ /\ \E label \in {"fill", "book"} : pc' = [pc EXCEPT ![t] = label]
         /\ \E f : frame' = [frame EXCEPT ![t] = f]
  BY DEF CheckStatus, TakeFill, Goto, Inv, ThreadsSound
<1> QED
  BY <1>3, <1>4, <1>5

\* Between the record of a trade and its charge the order is marked and dropped.
LEMMA MarkingKeeps ==
    ASSUME Inv, RecordInv, NEW t \in Threads, MarkTraded(t) \/ DropActive(t)
    PROVE  RecordInv'
<1>1. pc[t] \in {"mark", "drop"} /\ UNCHANGED <<trades, positions, account>>
  BY DEF MarkTraded, DropActive, At
<1>2. CASE pc[t] = "drop" /\ frame[t].trade = NoOrder
  <2>1. Return(t) /\ ~Unsettled(t)
    BY <1>2 DEF MarkTraded, DropActive, At, Unsettled, Uncharged
  <2> QED
    BY <1>1, <2>1, ReturnKeeps
<1>3. CASE pc[t] = "mark" \/ frame[t].trade # NoOrder
  <2>1. Uncharged(t) /\ frame[t].trade # NoOrder
    BY <1>1, <1>3, OwnFrame DEF Carries, TradeReady, Uncharged
  <2>2. PICK label \in {"drop", "charge"} : Goto(t, label) /\ UNCHANGED frame
    BY <1>3 DEF MarkTraded, DropActive, At
  <2>3. pc' = [pc EXCEPT ![t] = label] /\ frame' = [frame EXCEPT ![t] = frame[t]]
    BY <2>2 DEF Goto, Inv, ThreadsSound
  <2>4. pc'[t] = label
    BY <2>3 DEF Inv, ThreadsSound
  <2>5. Keeps(t)
    BY <2>1, <2>2, <2>4 DEF Keeps, Uncharged, Unsettled
  <2> QED
    BY <1>1, <2>3, <2>5, OneKeeps
<1> QED
  BY <1>1, <1>2, <1>3

\* The volume to close is copied into the frame, and the trade stays.
LEMMA ClippingKeeps ==
    ASSUME Inv, RecordInv, NEW t \in Threads, ClipToPosition(t)
    PROVE  RecordInv'
<1> DEFINE f == [frame[t] EXCEPT !.closed = CloseVolume(positions[frame[t].trade.vt_symbol], frame[t].trade)]
<1>1. /\ pc[t] = "clip" /\ UNCHANGED <<trades, positions, account>>
      /\ frame' = [frame EXCEPT ![t] = f] /\ pc' = [pc EXCEPT ![t] = "settle"]
  BY DEF ClipToPosition, At, Goto, engine
<1>2. f.trade = frame[t].trade
  BY OwnFrame DEF Frame
<1> HIDE DEF f
<1>3. Keeps(t)
  BY <1>1, <1>2 DEF Keeps, Uncharged, Unsettled, Inv, ThreadsSound
<1> QED
  BY <1>1, <1>3, OneKeeps

-----------------------------------------------------------------------------
(* Steps that record, charge and settle a trade.                            *)

\* The trade joins the record in the hands of its thread.
LEMMA BookTradeSettles ==
    ASSUME Inv, RecordInv, NEW t \in Threads, BookTrade(t)
    PROVE  RecordInv'
<1> DEFINE trade == frame[t].trade
<1>1. PICK p : Settles(p)
  BY DEF RecordInv
<1>0. PICK n \in Nat : n = Len(trades) + 1
  BY DEF Inv, MarketSound
<1>2. /\ pc[t] = "book" /\ TradeReady(t) /\ trades' = Append(trades, trade) /\ UNCHANGED <<account, positions>>
      /\ pc' = [pc EXCEPT ![t] = "mark"] /\ UNCHANGED frame
  BY OwnFrame DEF BookTrade, At, Carries, Goto
<1>3. /\ trade \in Trade /\ trades \in Seq(Trade) /\ n \in Nat /\ n \notin DOMAIN trades
      /\ DOMAIN trades' = DOMAIN trades \union {n} /\ trades'[n] = trade
      /\ \A i \in DOMAIN trades : trades'[i] = trades[i]
  BY <1>0, <1>2 DEF TradeReady, Inv, MarketSound
<1> HIDE DEF trade
<1>4. PICK q \in [Threads -> Nat] : q[t] = n /\ \A u \in Threads \ {t} : q[u] = p[u]
  <2> DEFINE r == [p EXCEPT ![t] = n]
  <2>1. r \in [Threads -> Nat] /\ r[t] = n /\ \A u \in Threads \ {t} : r[u] = p[u]
    BY <1>1, <1>3 DEF Settles, Recorded
  <2> QED
    BY <2>1
<1>5. ~Unsettled(t) /\ Uncharged(t)' /\ Unsettled(t)'
  BY <1>2 DEF Unsettled, Uncharged, Inv, ThreadsSound
<1>6. \A u \in Threads \ {t} : (Unsettled(u)' <=> Unsettled(u)) /\ (Uncharged(u)' <=> Uncharged(u))
  BY <1>2 DEF Unsettled, Uncharged, Inv, ThreadsSound
<1>7. Recorded(q)'
  <2>1. ASSUME NEW u \in Threads, Unsettled(u)'
        PROVE  q[u] \in DOMAIN trades' /\ trades'[q[u]] = frame'[u].trade
    <3>1. CASE u = t
      BY <1>2, <1>3, <1>4, <3>1 DEF trade
    <3>2. CASE u # t
      BY <1>1, <1>2, <1>3, <1>4, <1>6, <2>1, <3>2 DEF Settles, Recorded
    <3> QED
      BY <3>1, <3>2
  <2>2. ASSUME NEW u \in Threads, NEW v \in Threads, Unsettled(u)', Unsettled(v)', q[u] = q[v] PROVE u = v
    <3>1. \A w \in Threads \ {t} : Unsettled(w)' => p[w] # n /\ Unsettled(w)
      BY <1>1, <1>3, <1>6 DEF Settles, Recorded
    <3> QED
      BY <1>1, <1>4, <2>2, <3>1 DEF Settles, Recorded
  <2> QED
    BY <1>4, <2>1, <2>2 DEF Recorded
<1>8. ChargedTrades(q)' = ChargedTrades(p)
  BY <1>3, <1>4, <1>5, <1>6 DEF ChargedTrades, Unsettled
<1>9. SettledTrades(q)' = SettledTrades(p)
  BY <1>3, <1>4, <1>5, <1>6 DEF SettledTrades
<1>10. FeesCharged(q)'
  <2>1. \A i \in ChargedTrades(p) : Fees[i] = Fees'[i]
    BY <1>3 DEF Fees, ChargedTrades
  <2>2. IsFiniteSet(ChargedTrades(p))
    BY TradeValues DEF ChargedTrades
  <2>3. SumFunctionOnSet(Fees, ChargedTrades(p)) = SumFunctionOnSet(Fees', ChargedTrades(p))
    BY <2>1, <2>2, SumAgrees
  <2> QED
    BY <1>1, <1>2, <1>8, <2>3 DEF Settles, FeesCharged
<1>11. ASSUME NEW s \in Symbols PROVE LongSettled(q, s)'
  <2>1. LongOpens(q, s)' = LongOpens(p, s) /\ LongCloses(q, s)' = LongCloses(p, s)
    <3>1. \A i \in SettledTrades(p) : trades'[i] = trades[i]
      BY <1>3 DEF SettledTrades
    <3>2. LongOpens(q, s)' = LongOpens(p, s)
      BY <1>9, <3>1 DEF LongOpens, OpensLong
    <3>3. LongCloses(q, s)' = LongCloses(p, s)
      BY <1>9, <3>1 DEF LongCloses, ClosesLong
    <3> QED
      BY <3>2, <3>3
  <2>2. \A i \in LongOpens(p, s) : Volumes[i] = Volumes'[i]
    BY <1>3 DEF Volumes, LongOpens, SettledTrades
  <2>3. IsFiniteSet(LongOpens(p, s))
    BY TradeValues DEF LongOpens, SettledTrades
  <2>4. SumFunctionOnSet(Volumes, LongOpens(p, s)) = SumFunctionOnSet(Volumes', LongOpens(p, s))
    BY <2>2, <2>3, SumAgrees
  <2> QED
    BY <1>1, <1>2, <2>1, <2>4 DEF Settles, LongSettled
<1> QED
  BY <1>7, <1>10, <1>11 DEF RecordInv, Settles

\* The trade is charged, once.
LEMMA ChargeSettles ==
    ASSUME Inv, RecordInv, NEW t \in Threads, ChargeCommission(t)
    PROVE  RecordInv'
<1> DEFINE fee == Commission(frame[t].trade)
<1>1. PICK p : Settles(p)
  BY DEF RecordInv
<1>2. PICK label \in {"settle", "clip"} :
         /\ pc[t] = "charge" /\ pc' = [pc EXCEPT ![t] = label] /\ UNCHANGED <<trades, positions, frame>>
         /\ account'.commission = account.commission + fee
  BY DEF ChargeCommission, At, Goto, Inv, AccountSound
<1>3. Uncharged(t) /\ Unsettled(t) /\ ~Uncharged(t)' /\ Unsettled(t)'
  BY <1>2 DEF Unsettled, Uncharged, Inv, ThreadsSound
<1>4. \A u \in Threads \ {t} : (Unsettled(u)' <=> Unsettled(u)) /\ (Uncharged(u)' <=> Uncharged(u))
  BY <1>2 DEF Unsettled, Uncharged, Inv, ThreadsSound
<1>5. p[t] \in DOMAIN trades /\ trades[p[t]] = frame[t].trade
  BY <1>1, <1>3 DEF Settles, Recorded
<1>6. Fees[p[t]] = fee /\ Fees' = Fees /\ Volumes' = Volumes
  BY <1>2, <1>5 DEF Fees, Volumes
<1> HIDE DEF fee
<1>7. Recorded(p)'
  BY <1>1, <1>2, <1>3, <1>4 DEF Settles, Recorded
<1>8. ChargedTrades(p)' = ChargedTrades(p) \union {p[t]} /\ p[t] \notin ChargedTrades(p)
  <2>1. \A u \in Threads \ {t} : Uncharged(u) => p[u] # p[t]
    BY <1>1, <1>3 DEF Settles, Recorded, Unsettled
  <2> QED
    BY <1>2, <1>3, <1>4, <1>5, <2>1 DEF ChargedTrades
<1>9. FeesCharged(p)'
  <2>1. SumFunctionOnSet(Fees, ChargedTrades(p) \union {p[t]}) = SumFunctionOnSet(Fees, ChargedTrades(p)) + Fees[p[t]]
    <3>1. ChargedTrades(p) \in SUBSET DOMAIN trades
      BY DEF ChargedTrades
    <3> QED
      BY <1>5, <1>8, <3>1, TradeValues, SumWith
  <2>2. account'.commission = SumFunctionOnSet(Fees, ChargedTrades(p)) + fee
    BY <1>1, <1>2 DEF Settles, FeesCharged
  <2> QED
    BY <1>6, <1>8, <2>1, <2>2 DEF FeesCharged
<1>10. SettledTrades(p)' = SettledTrades(p)
  BY <1>2, <1>3, <1>4 DEF SettledTrades
<1>11. ASSUME NEW s \in Symbols PROVE LongSettled(p, s)'
  <2>1. LongOpens(p, s)' = LongOpens(p, s) /\ LongCloses(p, s)' = LongCloses(p, s)
    BY <1>2, <1>10 DEF LongOpens, LongCloses, OpensLong, ClosesLong
  <2> QED
    BY <1>1, <1>2, <1>6, <2>1 DEF Settles, LongSettled
<1> QED
  BY <1>7, <1>9, <1>11 DEF RecordInv, Settles

\* What settling does to the long volume of the trade's symbol.
LEMMA LongAfter ==
    ASSUME NEW position \in Position, NEW trade \in Trade, NEW closed \in Int, closed >= 0, Held(position)
    PROVE  /\ Opened(position, trade).long_volume
                = IF trade.direction = "LONG" THEN position.long_volume + trade.volume ELSE position.long_volume
           /\ trade.direction = "LONG" => Closed(position, trade, closed).long_volume = position.long_volume
           /\ Closed(position, trade, closed).long_volume <= position.long_volume
BY DEF Opened, Closed, Position, Trade, Held, Direction

\* The trade moves its position, once.
LEMMA SettleSettles ==
    ASSUME Inv, RecordInv, NEW t \in Threads, Settle(t)
    PROVE  RecordInv'
<1> DEFINE trade == frame[t].trade
           at == trade.vt_symbol
           closed == frame[t].closed
           before == positions[at]
           after == IF trade.offset = "OPEN" THEN Opened(before, trade) ELSE Closed(before, trade, closed)
<1>1. PICK p : Settles(p)
  BY DEF RecordInv
<1>2. /\ pc[t] = "settle" /\ TradeReady(t) /\ closed \in Int /\ closed >= 0 /\ UNCHANGED trades
      /\ \E label \in {"idle", "value"} : pc' = [pc EXCEPT ![t] = label]
      /\ \E f : frame' = [frame EXCEPT ![t] = f]
      /\ positions' = [positions EXCEPT ![at] = after]
  <2>1. \/ Goto(t, "value") /\ frame' = [frame EXCEPT ![t] = frame[t]]
        \/ Goto(t, "idle") /\ \E f : frame' = [frame EXCEPT ![t] = f]
    BY DEF Settle, Return
  <2>2. /\ \E label \in {"idle", "value"} : pc' = [pc EXCEPT ![t] = label]
        /\ \E f : frame' = [frame EXCEPT ![t] = f]
    BY <2>1 DEF Goto
  <2> QED BY <2>2, OwnFrame DEF Settle, At, Carries, Frame
<1>3. account'.commission = account.commission
  BY DEF Settle, Inv, AccountSound
<1>4. trade \in Trade /\ at \in Symbols /\ before \in Position /\ Held(before) /\ trade.volume \in Int
  BY <1>2 DEF TradeReady, Trade, Inv, PositionsSound
<1>5. /\ ~Uncharged(t) /\ Unsettled(t) /\ ~Uncharged(t)' /\ ~Unsettled(t)'
  BY <1>2 DEF Unsettled, Uncharged, Inv, ThreadsSound
<1>6. \A u \in Threads \ {t} : /\ Unsettled(u)' <=> Unsettled(u)
                               /\ Uncharged(u)' <=> Uncharged(u)
                               /\ frame'[u] = frame[u]
  BY <1>2 DEF Unsettled, Uncharged, Inv, ThreadsSound
<1>7. p[t] \in DOMAIN trades /\ trades[p[t]] = trade
  BY <1>1, <1>5 DEF Settles, Recorded
<1>8. Fees' = Fees /\ Volumes' = Volumes /\ Volumes[p[t]] = trade.volume
  BY <1>2, <1>7 DEF Fees, Volumes
<1>9. Recorded(p)'
  BY <1>1, <1>2, <1>5, <1>6 DEF Settles, Recorded
<1>10. ChargedTrades(p)' = ChargedTrades(p)
  BY <1>2, <1>5, <1>6 DEF ChargedTrades
<1>11. FeesCharged(p)'
  BY <1>1, <1>3, <1>8, <1>10 DEF Settles, FeesCharged
<1>12. SettledTrades(p)' = SettledTrades(p) \union {p[t]} /\ p[t] \notin SettledTrades(p)
  <2>1. \A u \in Threads \ {t} : Unsettled(u) => p[u] # p[t]
    BY <1>1, <1>5 DEF Settles, Recorded
  <2> QED
    BY <1>2, <1>5, <1>6, <1>7, <2>1 DEF SettledTrades
<1>13. /\ positions'[at] = after /\ \A s \in Symbols \ {at} : positions'[s] = positions[s]
       /\ trade.offset = "OPEN" /\ trade.direction = "LONG" => after.long_volume = before.long_volume + trade.volume
       /\ ~(trade.offset = "OPEN" /\ trade.direction = "LONG") /\ ~(trade.offset = "CLOSE" /\ trade.direction = "SHORT")
            => after.long_volume = before.long_volume
       /\ trade.offset = "CLOSE" => after.long_volume <= before.long_volume
       /\ before.long_volume \in Int /\ after.long_volume \in Int
  <2>1. positions'[at] = after /\ \A s \in Symbols \ {at} : positions'[s] = positions[s]
    BY <1>2, <1>4 DEF Inv, PositionsSound
  <2>2. after \in Position
    BY <1>2, <1>4, SettledPosition DEF TradeReady
  <2>3. trade.direction \in {"LONG", "SHORT"} /\ trade.offset \in {"OPEN", "CLOSE"}
    BY <1>4 DEF Trade, Direction, Offset
  <2> QED
    BY <1>2, <1>4, <2>1, <2>2, <2>3, LongAfter DEF Position
<1> HIDE DEF after, before, closed
<1>14. ASSUME NEW s \in Symbols PROVE LongSettled(p, s)'
  <2> DEFINE opens == LongOpens(p, s)
             closes == LongCloses(p, s)
  <2>1. /\ opens \in SUBSET DOMAIN trades /\ IsFiniteSet(opens) /\ p[t] \notin opens
        /\ LongOpens(p, s)' = IF OpensLong(p[t], s) THEN opens \union {p[t]} ELSE opens
        /\ LongCloses(p, s)' = IF ClosesLong(p[t], s) THEN closes \union {p[t]} ELSE closes
    <3>1. opens \in SUBSET DOMAIN trades /\ p[t] \notin opens
      BY <1>12 DEF LongOpens, SettledTrades
    <3>2. /\ LongOpens(p, s)' = IF OpensLong(p[t], s) THEN opens \union {p[t]} ELSE opens
          /\ LongCloses(p, s)' = IF ClosesLong(p[t], s) THEN closes \union {p[t]} ELSE closes
      BY <1>2, <1>12 DEF LongOpens, LongCloses, OpensLong, ClosesLong
    <3> QED
      BY <3>1, <3>2, TradeValues
  <2>2. /\ OpensLong(p[t], s) <=> s = at /\ trade.offset = "OPEN" /\ trade.direction = "LONG"
        /\ ClosesLong(p[t], s) <=> s = at /\ trade.offset = "CLOSE" /\ trade.direction = "SHORT"
    BY <1>7 DEF OpensLong, ClosesLong
  <2>3. /\ SumFunctionOnSet(Volumes, opens) \in Int
        /\ SumFunctionOnSet(Volumes, opens \union {p[t]}) = SumFunctionOnSet(Volumes, opens) + trade.volume
    BY <1>7, <1>8, <2>1, TradeValues, SumWith
  <2>4. /\ closes = {} => positions[s].long_volume = SumFunctionOnSet(Volumes, opens)
        /\ positions[s].long_volume <= SumFunctionOnSet(Volumes, opens)
        /\ positions[s].long_volume \in Int
    BY <1>1 DEF Settles, LongSettled, Inv, PositionsSound, Position
  <2> HIDE DEF opens, closes
  <2>5. /\ LongCloses(p, s)' = {} => positions'[s].long_volume = SumFunctionOnSet(Volumes, LongOpens(p, s)')
        /\ positions'[s].long_volume <= SumFunctionOnSet(Volumes, LongOpens(p, s)')
    <3>1. CASE s # at
      BY <1>13, <2>1, <2>2, <2>4, <3>1
    <3>2. CASE s = at
      <4>1. positions[s] = before /\ positions'[s] = after
        BY <1>13, <3>2 DEF before
      <4>2. CASE trade.offset = "OPEN" /\ trade.direction = "LONG"
        <5>1. LongOpens(p, s)' = opens \union {p[t]} /\ LongCloses(p, s)' = closes
          BY <2>1, <2>2, <3>2, <4>2
        <5> QED
          BY <1>4, <1>13, <2>3, <2>4, <4>1, <4>2, <5>1
      <4>3. CASE trade.offset = "CLOSE" /\ trade.direction = "SHORT"
        <5>1. LongOpens(p, s)' = opens /\ LongCloses(p, s)' # {}
          BY <2>1, <2>2, <3>2, <4>3
        <5> QED
          BY <1>13, <2>3, <2>4, <4>1, <4>3, <5>1
      <4>4. CASE ~(trade.offset = "OPEN" /\ trade.direction = "LONG") /\ ~(trade.offset = "CLOSE" /\ trade.direction = "SHORT")
        <5>1. LongOpens(p, s)' = opens /\ LongCloses(p, s)' = closes
          BY <2>1, <2>2, <4>4
        <5> QED
          BY <1>13, <2>4, <4>1, <4>4, <5>1
      <4> QED
        BY <4>2, <4>3, <4>4
    <3> QED
      BY <3>1, <3>2
  <2> QED
    BY <1>8, <2>5 DEF LongSettled
<1> QED
  BY <1>9, <1>11, <1>14 DEF RecordInv, Settles

-----------------------------------------------------------------------------
(* The specification.                                                       *)

\* At the start there is nothing to settle.
LEMMA InitSettles == Init => RecordInv
<1> SUFFICES ASSUME Init PROVE RecordInv
  OBVIOUS
<1> DEFINE p == [t \in Threads |-> 0]
<1>1. /\ trades = <<>> /\ \A t \in Threads : ~Unsettled(t)
      /\ account.commission = 0 /\ \A s \in Symbols : positions[s].long_volume = 0
  BY DEF Init, Unsettled, Uncharged, NoPosition
<1>2. Recorded(p)
  BY <1>1 DEF Recorded
<1>3. ChargedTrades(p) = {} /\ \A s \in Symbols : LongOpens(p, s) = {}
  BY <1>1 DEF ChargedTrades, LongOpens, SettledTrades
<1> HIDE DEF p
<1>4. FeesCharged(p)
  BY <1>1, <1>3, SumOfNone DEF FeesCharged
<1>5. ASSUME NEW s \in Symbols PROVE LongSettled(p, s)
  <2>1. SumFunctionOnSet(Volumes, LongOpens(p, s)) = 0
    BY <1>3, SumOfNone
  <2> QED
    BY <1>1, <2>1 DEF LongSettled
<1> QED
  BY <1>2, <1>4, <1>5 DEF RecordInv, Settles

\* Every step preserves RecordInv.
LEMMA NextSettles == Inv /\ RecordInv /\ [Next]_vars => RecordInv'
<1> SUFFICES ASSUME Inv, RecordInv, [Next]_vars PROVE RecordInv'
  OBVIOUS
<1>1. CASE UNCHANGED vars
  <2>1. UNCHANGED <<trades, positions, account>> /\ \A t \in Threads : Keeps(t)
    BY <1>1 DEF vars, engine, Keeps, Unsettled, Uncharged
  <2> QED
    BY <2>1, Kept
<1>2. ASSUME NEW t \in Threads, MatchStep(t) PROVE RecordInv'
  BY <1>2, MatchingKeeps, BookTradeSettles, MarkingKeeps, ChargeSettles, ClippingKeeps, SettleSettles DEF MatchStep
<1>3. CASE Next
  BY <1>2, <1>3, ClientStepsKeep, FeedStepsKeep DEF Next
<1> QED
  BY <1>1, <1>3

\* However the threads overlap, when every call has ended each recorded trade has
\* been charged once, and the long volume of a symbol is what was opened less what was closed.
THEOREM EveryTradeIsSettled == Spec => []TradesSettledWhenQuiet
<1>1. Inv /\ RecordInv => TradesSettledWhenQuiet
  <2> SUFFICES ASSUME Inv, RecordInv, Quiet PROVE TradesSettledWhenQuiet
    BY DEF TradesSettledWhenQuiet
  <2>1. PICK p : Settles(p)
    BY DEF RecordInv
  <2>2. \A t \in Threads : ~Unsettled(t) /\ ~Uncharged(t)
    BY DEF Quiet, At, Unsettled, Uncharged
  <2>3. ChargedTrades(p) = DOMAIN trades /\ SettledTrades(p) = DOMAIN trades
    BY <2>2 DEF ChargedTrades, SettledTrades
  <2>4. account.commission = SumFunction(Fees)
    <3>1. DOMAIN Fees = DOMAIN trades
      BY DEF Fees
    <3> QED
      BY <2>1, <2>3, <3>1 DEF Settles, FeesCharged, SumFunction
  <2> QED
    BY <2>1, <2>3, <2>4 DEF Settles, LongSettled, LongOpens, LongCloses, TradesSettledWhenQuiet
<1> QED
  BY <1>1, InitInv, InitSettles, NextInv, NextSettles, PTL DEF Spec
=============================================================================
