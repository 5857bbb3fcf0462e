--------------------------- MODULE BridgeSimulation ---------------------------
(***************************************************************************)
(* The engine as the bridge servers really drive it: publish_tick runs     *)
(* engine.on_tick on the event-loop thread with state.lock held, while the *)
(* HTTP endpoints run submit_order and cancel_order on worker threads that *)
(* never take the lock.                                                    *)
(*                                                                         *)
(* A step is the code between two points where CPython may switch threads  *)
(* (a call, or the back edge of a loop); attribute updates between two     *)
(* calls are one step. pc says where a thread is inside the engine:        *)
(*                                                                         *)
(*   submit_order:     idle -> store -> look -> check                      *)
(*   cancel_order:     idle -> drop                                        *)
(*   on_tick:          idle -> value -> walk -> list                       *)
(*                     -> loop (-> check -> ... -> value -> walk -> loop)  *)
(*   _try_match_order: check -> fill -> book -> mark -> drop               *)
(*                     -> charge -> clip -> settle                         *)
(*                                                                         *)
(* value and walk are _recalculate_unrealized_pnl: it walks over the       *)
(* positions, and a symbol that another thread adds meanwhile ends the     *)
(* walk, and with it the tick, in a RuntimeError.  The number it computes  *)
(* is left out, and so are the events.                                     *)
(***************************************************************************)
EXTENDS SimulationRules, FiniteSets, Functions

CONSTANTS
    Clients,    \* HTTP worker threads
    Feed        \* the event-loop thread, which publishes the ticks

Threads == Clients \union {Feed}

ASSUME ThreadAssumption == Feed \notin Clients /\ NoOrder \notin Trade

VARIABLES
    account, positions, orders, active_order_ids, trades, last_ticks,
    held,       \* the keys of positions: the symbols that have been traded
    abandoned,  \* history: the orders that a failed tick has not visited
    lock,       \* the thread inside state.lock, or NoThread
    pc,         \* where each thread is
    frame       \* the locals of each thread's call

engine == <<account, positions, held, orders, active_order_ids, trades, last_ticks, abandoned>>
vars == <<engine, lock, pc, frame>>

NoThread == "none"

Label == {"idle", "store", "look", "value", "walk", "list", "loop",
          "check", "fill", "book", "mark", "drop", "charge", "clip", "settle"}

\* id and order: the order being handled; tick: the tick it is matched with;
\* trade: the trade under construction; closed: close_volume; todo: active_ids;
\* keys: the symbols held when a walk over the positions began.
NoFrame == [id |-> NoOrder, order |-> NoOrder, tick |-> NoTick,
            trade |-> NoOrder, closed |-> 0, todo |-> {}, keys |-> {}]

TypeOK ==
    /\ account \in [balance : Int, available : Int, realized_pnl : Int, commission : Int]
    /\ positions \in [Symbols -> Position]
    /\ orders \in [OrderIds -> Order \union {NoOrder}]
    /\ held \subseteq Symbols
    /\ active_order_ids \subseteq OrderIds
    /\ abandoned \subseteq OrderIds
    /\ trades \in Seq(Trade)
    /\ last_ticks \in [Symbols -> Tick \union {NoTick}]
    /\ lock \in {NoThread, Feed}
    /\ pc \in [Threads -> Label]
    /\ \A t \in Threads :
         /\ frame[t].id \in OrderIds \union {NoOrder}
         /\ frame[t].todo \subseteq OrderIds
         /\ frame[t].keys \subseteq Symbols
         /\ pc[t] # "idle" /\ t # Feed => frame[t].id \in OrderIds

Init ==
    /\ account = [balance |-> InitialBalance, available |-> InitialBalance,
                  realized_pnl |-> 0, commission |-> 0]
    /\ positions = [s \in Symbols |-> NoPosition]
    /\ orders = [o \in OrderIds |-> NoOrder]
    /\ held = {}
    /\ active_order_ids = {}
    /\ abandoned = {}
    /\ trades = <<>>
    /\ last_ticks = [s \in Symbols |-> NoTick]
    /\ lock = NoThread
    /\ pc = [t \in Threads |-> "idle"]
    /\ frame = [t \in Threads |-> NoFrame]

-----------------------------------------------------------------------------
Goto(t, label) == pc' = [pc EXCEPT ![t] = label]

\* _try_match_order returns to the tick loop or ends the submission.
Return(t) ==
    /\ Goto(t, IF t = Feed THEN "loop" ELSE "idle")
    /\ frame' = [frame EXCEPT ![t] =
                    IF t = Feed THEN [NoFrame EXCEPT !.tick = frame[t].tick, !.todo = frame[t].todo]
                    ELSE NoFrame]

At(t, label) == pc[t] = label

(* submit_order on a worker thread. *)

UnusedId(id) == orders[id] = NoOrder /\ \A u \in Threads : ~(At(u, "store") /\ frame[u].id = id)

\* _validate_order reads the position; the order is stored later.
Validate(t, id, req) ==
    /\ At(t, "idle")
    /\ UnusedId(id)
    /\ LET verdict == IF Refused(req, positions[req.vt_symbol]) THEN "REJECTED" ELSE "NOT_TRADED"
       IN frame' = [frame EXCEPT ![t] = [NoFrame EXCEPT !.id = id, !.order = NewOrder(req, verdict)]]
    /\ Goto(t, "store")
    /\ UNCHANGED <<engine, lock>>

StoreOrder(t) ==
    /\ At(t, "store")
    /\ orders' = [orders EXCEPT ![frame[t].id] = frame[t].order]
    /\ \/ /\ frame[t].order.status = "REJECTED"
          /\ Return(t)
          /\ UNCHANGED active_order_ids
       \/ /\ frame[t].order.status = "NOT_TRADED"
          /\ active_order_ids' = active_order_ids \union {frame[t].id}
          /\ frame' = [frame EXCEPT ![t].order = NoOrder]
          /\ Goto(t, "look")
    /\ UNCHANGED <<account, positions, held, trades, last_ticks, abandoned, lock>>

\* Variant: a submission leaves its order to the next tick.
LookUpNothing(t) == At(t, "look") /\ Return(t) /\ UNCHANGED <<engine, lock>>

LookUpTick(t) ==
    /\ At(t, "look")
    /\ LET tick == last_ticks[orders[frame[t].id].vt_symbol]
       IN \/ tick = NoTick /\ Return(t)
          \/ /\ tick # NoTick
             /\ frame' = [frame EXCEPT ![t].tick = tick]
             /\ Goto(t, "check")
    /\ UNCHANGED <<engine, lock>>

(* cancel_order: the id leaves the active set one call after the status. *)

CancelOrder(t, id) ==
    /\ At(t, "idle")
    /\ orders[id] # NoOrder
    /\ orders[id].status \notin Terminal
    /\ orders' = [orders EXCEPT ![id].status = "CANCELLED"]
    /\ frame' = [frame EXCEPT ![t] = [NoFrame EXCEPT !.id = id]]
    /\ Goto(t, "drop")
    /\ UNCHANGED <<account, positions, held, active_order_ids, trades, last_ticks, abandoned, lock>>

\* The last step of a cancellation, or of booking a complete fill.
DropActive(t) ==
    /\ At(t, "drop")
    /\ active_order_ids' = active_order_ids \ {frame[t].id}
    /\ IF frame[t].trade = NoOrder THEN Return(t) ELSE Goto(t, "charge") /\ UNCHANGED frame
    /\ UNCHANGED <<account, positions, held, orders, trades, last_ticks, abandoned, lock>>

(* publish_tick and on_tick on the event-loop thread. *)

TickArrives(tick) ==
    /\ At(Feed, "idle")
    /\ lock = NoThread
    /\ lock' = Feed
    /\ last_ticks' = [last_ticks EXCEPT ![tick.vt_symbol] = tick]
    /\ abandoned' = {id \in abandoned : orders[id].vt_symbol # tick.vt_symbol}
    /\ frame' = [frame EXCEPT ![Feed] = [NoFrame EXCEPT !.tick = tick]]
    /\ Goto(Feed, "value")
    /\ UNCHANGED <<account, positions, held, orders, active_order_ids, trades>>

\* A new tick goes on to the active orders; a settled trade returns to the loop.
MarkingDone ==
    IF frame[Feed].trade = NoOrder
    THEN Goto(Feed, "list") /\ frame' = [frame EXCEPT ![Feed].keys = {}]
    ELSE Return(Feed)

\* No other thread comes between an empty dict and the end of its walk.
StartMarking ==
    /\ At(Feed, "value")
    /\ \/ held = {} /\ MarkingDone
       \/ /\ held # {}
          /\ frame' = [frame EXCEPT ![Feed].keys = held]
          /\ Goto(Feed, "walk")
    /\ UNCHANGED <<engine, lock>>

EndMarking ==
    /\ At(Feed, "walk")
    /\ frame[Feed].keys = held
    /\ MarkingDone
    /\ UNCHANGED <<engine, lock>>

\* The active orders of its symbol that the tick has still to visit.
Unvisited ==
    {id \in IF frame[Feed].trade = NoOrder THEN active_order_ids ELSE frame[Feed].todo :
        orders[id].vt_symbol = frame[Feed].tick.vt_symbol}

\* "dictionary changed size during iteration" leaves on_tick and releases the lock.
MarkingFails ==
    /\ At(Feed, "walk")
    /\ frame[Feed].keys # held
    /\ abandoned' = abandoned \union Unvisited
    /\ lock' = NoThread
    /\ frame' = [frame EXCEPT ![Feed] = NoFrame]
    /\ Goto(Feed, "idle")
    /\ UNCHANGED <<account, positions, held, orders, active_order_ids, trades, last_ticks>>

ListActive ==
    /\ At(Feed, "list")
    /\ frame' = [frame EXCEPT ![Feed].todo = active_order_ids]
    /\ Goto(Feed, "loop")
    /\ UNCHANGED <<engine, lock>>

\* Variant: the symbol test the wrong way round.
NextActiveElsewhere(id) ==
    /\ At(Feed, "loop")
    /\ id \in frame[Feed].todo
    /\ frame' = [frame EXCEPT ![Feed].todo = @ \ {id}, ![Feed].id = id]
    /\ Goto(Feed, IF orders[id].vt_symbol # frame[Feed].tick.vt_symbol THEN "check" ELSE "loop")
    /\ UNCHANGED <<engine, lock>>

NextActive(id) ==
    /\ At(Feed, "loop")
    /\ id \in frame[Feed].todo
    /\ frame' = [frame EXCEPT ![Feed].todo = @ \ {id}, ![Feed].id = id]
    /\ Goto(Feed, IF orders[id].vt_symbol = frame[Feed].tick.vt_symbol THEN "check" ELSE "loop")
    /\ UNCHANGED <<engine, lock>>

TickDone ==
    /\ At(Feed, "loop")
    /\ frame[Feed].todo = {}
    /\ lock' = NoThread
    /\ frame' = [frame EXCEPT ![Feed] = NoFrame]
    /\ Goto(Feed, "idle")
    /\ UNCHANGED engine

(* _try_match_order and _apply_trade, on any thread. *)

CheckStatus(t) ==
    /\ At(t, "check")
    /\ LET order == orders[frame[t].id]
           matches == /\ order.status \in {"NOT_TRADED", "PART_TRADED"}
                      /\ Executable(order, frame[t].tick)
       IN \/ matches /\ Goto(t, "fill") /\ UNCHANGED frame
          \/ ~matches /\ Return(t)
    /\ UNCHANGED <<engine, lock>>

TakeFill(t) ==
    /\ At(t, "fill")
    /\ LET order == orders[frame[t].id]
       IN \/ /\ Remaining(order) > 0
             /\ frame' = [frame EXCEPT ![t].trade = TradeOf(frame[t].id, order, frame[t].tick)]
             /\ Goto(t, "book")
          \/ Remaining(order) = 0 /\ Return(t)
    /\ UNCHANGED <<engine, lock>>

BookTrade(t) ==
    /\ At(t, "book")
    /\ trades' = Append(trades, frame[t].trade)
    /\ orders' = [orders EXCEPT ![frame[t].id].traded = @ + frame[t].trade.volume]
    /\ Goto(t, "mark")
    /\ UNCHANGED <<account, positions, held, active_order_ids, last_ticks, abandoned, lock, frame>>

\* Variant: a filled order is not dropped from the active ids.
MarkWithoutDrop(t) ==
    /\ At(t, "mark")
    /\ orders' = [orders EXCEPT ![frame[t].id].status = "ALL_TRADED"]
    /\ Goto(t, "charge")
    /\ UNCHANGED <<account, positions, held, active_order_ids, trades, last_ticks, abandoned, lock, frame>>

\* The status follows the remaining volume, whatever it was meanwhile.
MarkTraded(t) ==
    /\ At(t, "mark")
    /\ LET traded == Remaining(orders[frame[t].id]) = 0
       IN /\ orders' = [orders EXCEPT ![frame[t].id].status =
                           IF traded THEN "ALL_TRADED" ELSE "PART_TRADED"]
          /\ Goto(t, IF traded THEN "drop" ELSE "charge")
    /\ UNCHANGED <<account, positions, held, active_order_ids, trades, last_ticks, abandoned, lock, frame>>

\* Variants: only opening trades are charged; what is charged stays available.
ChargeOpens(t) ==
    /\ At(t, "charge")
    /\ LET opens == frame[t].trade.offset = "OPEN"
           fee == IF opens THEN Commission(frame[t].trade) ELSE 0
       IN /\ account' = [account EXCEPT !.commission = @ + fee, !.balance = @ - fee,
                                        !.available = account.balance - fee]
          /\ Goto(t, IF opens THEN "settle" ELSE "clip")
    /\ held' = held \union {frame[t].trade.vt_symbol}
    /\ UNCHANGED <<positions, orders, active_order_ids, trades, last_ticks, abandoned, lock, frame>>

ChargeBalance(t) ==
    /\ At(t, "charge")
    /\ LET fee == Commission(frame[t].trade)
       IN account' = [account EXCEPT !.commission = @ + fee, !.balance = @ - fee]
    /\ Goto(t, IF frame[t].trade.offset = "OPEN" THEN "settle" ELSE "clip")
    /\ held' = held \union {frame[t].trade.vt_symbol}
    /\ UNCHANGED <<positions, orders, active_order_ids, trades, last_ticks, abandoned, lock, frame>>

\* setdefault enters the symbol in positions; no step in between needs to be seen,
\* because the account is only ever added to.
ChargeCommission(t) ==
    /\ At(t, "charge")
    /\ LET fee == Commission(frame[t].trade)
       IN account' = [account EXCEPT !.commission = @ + fee, !.balance = @ - fee,
                                     !.available = account.balance - fee]
    /\ Goto(t, IF frame[t].trade.offset = "OPEN" THEN "settle" ELSE "clip")
    /\ held' = held \union {frame[t].trade.vt_symbol}
    /\ UNCHANGED <<positions, orders, active_order_ids, trades, last_ticks, abandoned, lock, frame>>

\* close_volume is a copy: the position may move before it is used.
ClipToPosition(t) ==
    /\ At(t, "clip")
    /\ LET trade == frame[t].trade
       IN frame' = [frame EXCEPT ![t].closed = CloseVolume(positions[trade.vt_symbol], trade)]
    /\ Goto(t, "settle")
    /\ UNCHANGED <<engine, lock>>

\* The marking that follows is the last thing a submission does to the engine:
\* whether it fails or not, a client is done, but the tick loop walks.
Settle(t) ==
    /\ At(t, "settle")
    /\ LET trade == frame[t].trade
           position == positions[trade.vt_symbol]
           opens == trade.offset = "OPEN"
           profit == IF opens THEN 0 ELSE Realized(position, trade, frame[t].closed)
       IN /\ positions' = [positions EXCEPT ![trade.vt_symbol] =
                             IF opens THEN Opened(position, trade)
                             ELSE Closed(position, trade, frame[t].closed)]
          /\ account' = [account EXCEPT !.realized_pnl = @ + profit, !.balance = @ + profit,
                                        !.available = account.balance + profit]
    /\ IF t = Feed THEN Goto(t, "value") /\ UNCHANGED frame ELSE Return(t)
    /\ UNCHANGED <<held, orders, active_order_ids, trades, last_ticks, abandoned, lock>>

-----------------------------------------------------------------------------
SubmitStep(t) == StoreOrder(t) \/ LookUpTick(t)

MatchStep(t) ==
    \/ CheckStatus(t) \/ TakeFill(t) \/ BookTrade(t) \/ MarkTraded(t) \/ DropActive(t)
    \/ ChargeCommission(t) \/ ClipToPosition(t) \/ Settle(t)

LoopStep ==
    \/ StartMarking \/ EndMarking \/ MarkingFails
    \/ ListActive \/ (\E id \in OrderIds : NextActive(id)) \/ TickDone

Next ==
    \/ \E t \in Clients, id \in OrderIds, req \in Requests : Validate(t, id, req)
    \/ \E t \in Clients, id \in OrderIds : CancelOrder(t, id)
    \/ \E tick \in Ticks : TickArrives(tick)
    \/ \E t \in Clients : SubmitStep(t)
    \/ \E t \in Threads : MatchStep(t)
    \/ LoopStep

\* The interpreter runs every runnable thread; clients and ticks may stay away.
Fairness ==
    /\ \A t \in Clients : WF_vars(SubmitStep(t) \/ MatchStep(t))
    /\ WF_vars(LoopStep \/ MatchStep(Feed))

Spec == Init /\ [][Next]_vars /\ Fairness

-----------------------------------------------------------------------------
(* What survives the races.                                                 *)

Quiet == \A t \in Threads : At(t, "idle")

\* Whatever threads overlap, no money appears or vanishes between the ledger's
\* three accounts: each update of the account is made between two calls.
BalanceIdentity ==
    /\ account.balance = InitialBalance + account.realized_pnl - account.commission
    /\ account.available = account.balance

\* When no call is in progress the active ids are exactly the open orders,
\* although store, cancel and fill change them without a lock.
ActiveIffOpenWhenQuiet ==
    Quiet => active_order_ids =
        {o \in OrderIds : orders[o] # NoOrder /\ orders[o].status \notin Terminal}

\* An open order that the last tick of its symbol crosses.
Crossed(id) ==
    /\ id \in active_order_ids
    /\ LET tick == last_ticks[orders[id].vt_symbol]
       IN tick # NoTick /\ Executable(orders[id], tick)

\* No order falls between the unlocked submission and the locked tick: a
\* submission stores the order before it reads the last tick, and a tick is
\* stored before the active orders are listed, so one of the two sees the other.
\* What rests although it is crossed was before a tick that failed in the marking.
NoRestingCrossWhenQuiet ==
    Quiet => \A id \in OrderIds : Crossed(id) => id \in abandoned

Fees == [i \in DOMAIN trades |-> Commission(trades[i])]
Volumes == [i \in DOMAIN trades |-> trades[i].volume]

OpensLong(i, s) == trades[i].vt_symbol = s /\ trades[i].offset = "OPEN" /\ trades[i].direction = "LONG"
ClosesLong(i, s) == trades[i].vt_symbol = s /\ trades[i].offset = "CLOSE" /\ trades[i].direction = "SHORT"

\* Every recorded trade has been charged once and every opening trade counted
\* once in its position, when no call is in progress and nothing was closed.
TradesSettledWhenQuiet ==
    Quiet =>
      /\ account.commission = SumFunction(Fees)
      /\ \A s \in Symbols :
           LET opened == {i \in DOMAIN trades : OpensLong(i, s)}
               closed == {i \in DOMAIN trades : ClosesLong(i, s)}
           IN /\ closed = {} => positions[s].long_volume = SumFunctionOnSet(Volumes, opened)
              /\ positions[s].long_volume <= SumFunctionOnSet(Volumes, opened)

\* An open order that the last tick of its symbol crosses does not wait for
\* ever: it is traded or cancelled, or the market moves away, even if no other
\* tick ever comes and no other client calls; or the tick failed before it came
\* to the order.
CrossedIsTraded == \A id \in OrderIds : Crossed(id) ~> ~Crossed(id) \/ id \in abandoned

-----------------------------------------------------------------------------
(* What does not.                                                           *)

\* One order, one trade (test_simulation_engine.py).
OneTradePerOrder ==
    \A i, j \in DOMAIN trades : trades[i].order_id = trades[j].order_id => i = j

\* The engine "matches executable orders" (engine.py:31): when every call has
\* ended, no open order is crossed by the last tick of its symbol.
CrossedNeverRests == Quiet => \A id \in OrderIds : ~Crossed(id)
=============================================================================
