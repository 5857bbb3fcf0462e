-------------------------- MODULE SimulationEngine --------------------------
(***************************************************************************)
(* SimulationEngine (python-bridge/simulation/engine.py) driven by one     *)
(* caller: submit_order, cancel_order and on_tick, one call at a time.     *)
(*                                                                         *)
(* on_tick is a loop over list(self.active_order_ids), a copy of a set of  *)
(* uuids whose iteration order is arbitrary: TickArrives is its prologue,  *)
(* MatchNext one turn for any id still in the copy, TickDone its epilogue. *)
(* `published` is what the callbacks have been told: the last order,       *)
(* position and account events, as an event client would store them.       *)
(***************************************************************************)
EXTENDS SimulationRules, FiniteSets, Functions

\* What has not been named in a request or a tick has no position.
ASSUME SymbolsAreFinite == IsFiniteSet(Symbols)

VARIABLES
    account, positions, orders, active_order_ids, trades, last_ticks,
    current,        \* the symbol of the tick on_tick is processing, or NoSymbol
    active_ids,     \* ids of the copy the loop has not reached yet
    published

book == <<orders, active_order_ids, trades, account, positions>>
vars == <<book, last_ticks, current, active_ids, published>>

TypeOK ==
    /\ account \in Account
    /\ positions \in [Symbols -> Position]
    /\ orders \in [OrderIds -> Order \union {NoOrder}]
    /\ active_order_ids \subseteq OrderIds
    /\ trades \in Seq(Trade)
    /\ last_ticks \in [Symbols -> Tick \union {NoTick}]
    /\ current \in Symbols \union {NoSymbol}
    /\ active_ids \subseteq OrderIds
    /\ published \in [orders : [OrderIds -> Order \union {NoOrder}],
                      positions : [Symbols -> Position],
                      account : Account]

NewAccount == [balance |-> InitialBalance, available |-> InitialBalance,
               realized_pnl |-> 0, commission |-> 0,
               unrealized_pnl |-> [s \in Symbols |-> 0]]

Init ==
    /\ account = NewAccount
    /\ positions = [s \in Symbols |-> NoPosition]
    /\ orders = [o \in OrderIds |-> NoOrder]
    /\ active_order_ids = {}
    /\ trades = <<>>
    /\ last_ticks = [s \in Symbols |-> NoTick]
    /\ current = NoSymbol
    /\ active_ids = {}
    /\ published = [orders |-> orders, positions |-> positions, account |-> account]

-----------------------------------------------------------------------------
Idle == current = NoSymbol

Store(id, order) ==
    /\ orders' = [orders EXCEPT ![id] = order]
    /\ published' = [published EXCEPT !.orders = [@ EXCEPT ![id] = order]]

\* _try_match_order on an order that matches: record the trade, book it on
\* the order, apply it to account and position, emit all four.
Fill(id, order, tick) ==
    LET trade == TradeOf(id, order, tick)
        s == order.vt_symbol
    IN /\ orders' = [orders EXCEPT ![id] = Booked(order, trade.volume)]
       /\ active_order_ids' = active_order_ids \ {id}
       /\ trades' = Append(trades, trade)
       /\ positions' = [positions EXCEPT ![s] = PositionAfter(@, trade)]
       /\ account' = [AccountAfter(account, positions[s], trade)
                        EXCEPT !.unrealized_pnl = Unrealized(positions', last_ticks)]
       /\ published' = [orders |-> [published.orders EXCEPT ![id] = orders'[id]],
                        positions |-> [published.positions EXCEPT ![s] = positions'[s]],
                        account |-> account']

SubmitRefused(id, req) ==
    /\ Refused(req, positions[req.vt_symbol])
    /\ Store(id, NewOrder(req, "REJECTED"))
    /\ UNCHANGED <<active_order_ids, trades, account, positions>>

\* Variant: a submission waits for the next tick.
SubmitRests(id, req) ==
    /\ ~Refused(req, positions[req.vt_symbol])
    /\ Store(id, NewOrder(req, "NOT_TRADED"))
    /\ active_order_ids' = active_order_ids \union {id}
    /\ UNCHANGED <<trades, account, positions>>

SubmitAccepted(id, req) ==
    LET order == NewOrder(req, "NOT_TRADED")
        tick == last_ticks[req.vt_symbol]
        matches == tick # NoTick /\ CanMatch(order, tick)
    IN /\ ~Refused(req, positions[req.vt_symbol])
       /\ \/ /\ matches
             /\ Fill(id, order, tick)
          \/ /\ ~matches
             /\ Store(id, order)
             /\ active_order_ids' = active_order_ids \union {id}
             /\ UNCHANGED <<trades, account, positions>>

SubmitOrder(id, req) ==
    /\ Idle
    /\ orders[id] = NoOrder
    /\ SubmitRefused(id, req) \/ SubmitAccepted(id, req)
    /\ UNCHANGED <<last_ticks, current, active_ids>>

\* Variant: an id that stays active.
CancelStaysActive(id) ==
    /\ Idle /\ orders[id] # NoOrder /\ orders[id].status \notin Terminal
    /\ Store(id, [orders[id] EXCEPT !.status = "CANCELLED"])
    /\ UNCHANGED <<active_order_ids, trades, account, positions, last_ticks, current, active_ids>>

\* Only a live order changes; an unknown or finished one is returned as it is.
CancelOrder(id) ==
    /\ Idle
    /\ orders[id] # NoOrder
    /\ orders[id].status \notin Terminal
    /\ Store(id, [orders[id] EXCEPT !.status = "CANCELLED"])
    /\ active_order_ids' = active_order_ids \ {id}
    /\ UNCHANGED <<trades, account, positions, last_ticks, current, active_ids>>

\* Variant: the positions are marked before the tick is stored.
TickArrivesLate(tick) ==
    /\ Idle
    /\ account' = [account EXCEPT !.unrealized_pnl = Unrealized(positions, last_ticks)]
    /\ last_ticks' = [last_ticks EXCEPT ![tick.vt_symbol] = tick]
    /\ current' = tick.vt_symbol
    /\ active_ids' = active_order_ids
    /\ UNCHANGED <<orders, active_order_ids, trades, positions, published>>

TickArrives(tick) ==
    /\ Idle
    /\ last_ticks' = [last_ticks EXCEPT ![tick.vt_symbol] = tick]
    /\ account' = [account EXCEPT !.unrealized_pnl = Unrealized(positions, last_ticks')]
    /\ current' = tick.vt_symbol
    /\ active_ids' = active_order_ids
    /\ UNCHANGED <<orders, active_order_ids, trades, positions, published>>

\* Variant: every active order is matched with the tick, whatever its symbol.
MatchAnySymbol(id) ==
    /\ id \in active_ids
    /\ active_ids' = active_ids \ {id}
    /\ IF CanMatch(orders[id], last_ticks[current])
       THEN Fill(id, orders[id], last_ticks[current])
       ELSE UNCHANGED <<book, published>>
    /\ UNCHANGED <<last_ticks, current>>

MatchNext(id) ==
    /\ id \in active_ids
    /\ active_ids' = active_ids \ {id}
    /\ LET order == orders[id]
           tick == last_ticks[current]
           matches == order.vt_symbol = current /\ CanMatch(order, tick)
       IN \/ matches /\ Fill(id, order, tick)
          \/ ~matches /\ UNCHANGED <<book, published>>
    /\ UNCHANGED <<last_ticks, current>>

\* Variant: the account is not announced after a tick.
TickDoneQuietly ==
    /\ ~Idle /\ active_ids = {}
    /\ current' = NoSymbol
    /\ UNCHANGED <<book, last_ticks, active_ids, published>>

TickDone ==
    /\ ~Idle
    /\ active_ids = {}
    /\ current' = NoSymbol
    /\ published' = [published EXCEPT !.account = account]
    /\ UNCHANGED <<book, last_ticks, active_ids>>

Next ==
    \/ \E id \in OrderIds, req \in Requests : SubmitOrder(id, req)
    \/ \E id \in OrderIds : CancelOrder(id)
    \/ \E tick \in Ticks : TickArrives(tick)
    \/ \E id \in OrderIds : MatchNext(id)
    \/ TickDone

Spec == Init /\ [][Next]_vars

-----------------------------------------------------------------------------
(* Safety.                                                                  *)

TradesOf(id) == {i \in DOMAIN trades : trades[i].order_id = id}

\* Every way an order leaves the active set is the same way its status does:
\* the active ids are exactly the orders that are still open, and no order is
\* half-traded (engine.py stores, cancels and fills in three different places).
ActiveIffOpen ==
    active_order_ids =
        {o \in OrderIds : orders[o] # NoOrder /\ orders[o].status \notin Terminal}

\* An order is traded at most once and then completely; only an ALL_TRADED
\* order has a trade, for exactly its volume.  A cancelled or rejected order
\* never has one, whatever tick arrived before or after.
OneTradePerOrder ==
    \A o \in OrderIds :
        /\ \A i, j \in TradesOf(o) : i = j
        /\ TradesOf(o) # {} =>
             /\ orders[o] # NoOrder
             /\ orders[o].status = "ALL_TRADED"
             /\ \A i \in TradesOf(o) : trades[i].volume = orders[o].volume
        /\ orders[o] # NoOrder =>
             orders[o].traded = IF TradesOf(o) = {} THEN 0 ELSE orders[o].volume

\* Between calls no open order could be executed at the last tick of its
\* symbol: matching at submission and matching at each tick leave no gap.
NoRestingCross ==
    Idle => \A o \in active_order_ids :
        LET tick == last_ticks[orders[o].vt_symbol]
        IN tick # NoTick => ~Executable(orders[o], tick)

\* Money is neither created nor lost: the balance is the initial balance plus
\* what closing trades realized minus all commissions, and it is all available.
BalanceIdentity ==
    /\ account.balance = InitialBalance + account.realized_pnl - account.commission
    /\ account.available = account.balance

\* Unrealized profit is never stale, not even between two fills of one tick.
UnrealizedFresh == account.unrealized_pnl = Unrealized(positions, last_ticks)

\* A client that stores every event it is sent has the engine's state whenever
\* no call is in progress.
EventsComplete ==
    Idle => published = [orders |-> orders, positions |-> positions, account |-> account]

\* A volume is never negative and a flat side remembers no price.
Forgets(position) ==
    /\ position.long_volume >= 0
    /\ position.short_volume >= 0
    /\ position.long_volume = 0 => position.long_avg_price = 0
    /\ position.short_volume = 0 => position.short_avg_price = 0

FlatSideForgets == \A s \in Symbols : Forgets(positions[s])

\* An order once submitted keeps its terms and, once finished, never changes.
FinishedForEver ==
    [][\A o \in OrderIds : orders[o] # NoOrder =>
          /\ orders'[o] # NoOrder
          /\ orders'[o].traded >= orders[o].traded
          /\ orders[o].status \in Terminal => orders'[o] = orders[o]]_vars

-----------------------------------------------------------------------------
(* The promise.                                                             *)

\* An order that the loop of on_tick will reach and fill.
Ahead(o) ==
    /\ o \in active_ids
    /\ orders[o].vt_symbol = current
    /\ CanMatch(orders[o], last_ticks[current])

\* The state in which the whole loop has already run.
bookAtTick == [o \in OrderIds |->
    IF Ahead(o) THEN Booked(orders[o], Remaining(orders[o])) ELSE orders[o]]

fillsAtTick ==
    {trades[i] : i \in DOMAIN trades}
      \union {TradeOf(o, orders[o], last_ticks[current]) : o \in {x \in OrderIds : Ahead(x)}}

Promise == INSTANCE OrderMatching
    WITH book <- bookAtTick, quotes <- last_ticks, fills <- fillsAtTick

\* Although on_tick visits the active orders one by one, in no particular order,
\* each is matched as if at the moment the tick arrived: at the price of that
\* tick, completely, and with nothing left over for a later one.
AtTheTick == Promise!Spec

-----------------------------------------------------------------------------
(* The recorded trades, added up.                                           *)

TradesWith(s, offset, direction) ==
    {i \in DOMAIN trades : /\ trades[i].vt_symbol = s
                           /\ trades[i].offset = offset
                           /\ trades[i].direction = direction}

Volumes == [i \in DOMAIN trades |-> trades[i].volume]
Values == [i \in DOMAIN trades |-> trades[i].price * trades[i].volume]
VolumeOf(I) == SumFunctionOnSet(Volumes, I)
CashOf(I) == SumFunctionOnSet(Values, I)

\* The open volume is what was opened minus what was closed.
Covered(s) ==
    /\ positions[s].long_volume =
         VolumeOf(TradesWith(s, "OPEN", "LONG")) - VolumeOf(TradesWith(s, "CLOSE", "SHORT"))
    /\ positions[s].short_volume =
         VolumeOf(TradesWith(s, "OPEN", "SHORT")) - VolumeOf(TradesWith(s, "CLOSE", "LONG"))

\* What the open positions cost at their average prices.
CostOf(position) == position.long_avg_price * position.long_volume
                    - position.short_avg_price * position.short_volume
OpenCost == SumFunctionOnSet([s \in Symbols |-> CostOf(positions[s])], Symbols)

\* Average-cost accounting agrees with the cash the trades moved: sold minus
\* bought is the realized profit minus the cost of what is still open, across
\* every mixture of partial closes and additions on both sides.
CashFlowIdentity ==
    (\A s \in Symbols : Covered(s)) =>
        LET sides(d) == {i \in DOMAIN trades : trades[i].direction = d}
        IN CashOf(sides("SHORT")) - CashOf(sides("LONG")) = account.realized_pnl - OpenCost

\* The code divides floats.  Where a step of the model divides integers it loses
\* nothing if the average that the opening trade leads to is a whole number.
Divides(position, trade) ==
    LET avg == IF trade.direction = "LONG" THEN position.long_avg_price ELSE position.short_avg_price
        held == IF trade.direction = "LONG" THEN position.long_volume ELSE position.short_volume
    IN (avg * held + trade.price * trade.volume) % (held + trade.volume) = 0

AveragesAreExact ==
    trades' # trades =>
        LET trade == trades'[Len(trades')]
        IN trade.offset = "OPEN" => Divides(positions[trade.vt_symbol], trade)

\* Every closing trade closes volume that exists: "not enough position to
\* close" is the reason _validate_order gives for refusing anything else.
ClosesAreCovered == \A s \in Symbols : Covered(s)

\* The account a tick leads to does not depend on the order in which the open
\* orders are visited: the engine is "intentionally deterministic".
Outcome(b, trade) ==
    [account |-> AccountAfter(b.account, b.position, trade),
     position |-> PositionAfter(b.position, trade)]

Deterministic ==
    ~Idle => \A a, b \in {o \in active_ids : orders[o].vt_symbol = current
                             /\ CanMatch(orders[o], last_ticks[current])} :
        LET start == [account |-> account, position |-> positions[current]]
            t == TradeOf(a, orders[a], last_ticks[current])
            u == TradeOf(b, orders[b], last_ticks[current])
        IN a # b => Outcome(Outcome(start, t), u) = Outcome(Outcome(start, u), t)
=============================================================================
