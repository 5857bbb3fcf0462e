---------------------------- MODULE OrderMatching ----------------------------
(***************************************************************************)
(* What the paper-trading engine promises about orders: a tick executes,   *)
(* at one moment and at its own price, every open order of its symbol that *)
(* it reaches, completely; an order that the last tick already reaches is  *)
(* executed when it is placed; otherwise it rests until a tick or a        *)
(* cancellation.  There is no loop, no set of active ids and no account.   *)
(* SimulationEngine implements this (AtTheTick there).                     *)
(***************************************************************************)
EXTENDS SimulationRules

VARIABLES
    book,       \* the orders
    quotes,     \* the last tick of each symbol
    fills       \* the set of trades

vars == <<book, quotes, fills>>

Init ==
    /\ book = [o \in OrderIds |-> NoOrder]
    /\ quotes = [s \in Symbols |-> NoTick]
    /\ fills = {}

Reaches(tick, order) ==
    /\ order # NoOrder /\ tick # NoTick
    /\ order.vt_symbol = tick.vt_symbol
    /\ CanMatch(order, tick)

After(tick, order) ==
    IF Reaches(tick, order) THEN Booked(order, Remaining(order)) ELSE order

\* Somebody who holds nothing is refused whatever anybody is refused.
Reject(id, req) ==
    /\ book[id] = NoOrder
    /\ Refused(req, NoPosition)
    /\ book' = [book EXCEPT ![id] = NewOrder(req, "REJECTED")]
    /\ UNCHANGED <<quotes, fills>>

Place(id, req) ==
    LET order == NewOrder(req, "NOT_TRADED")
        tick == quotes[req.vt_symbol]
    IN /\ book[id] = NoOrder
       /\ req.volume > 0
       /\ book' = [book EXCEPT ![id] = After(tick, order)]
       /\ fills' = IF Reaches(tick, order) THEN fills \union {TradeOf(id, order, tick)} ELSE fills
       /\ UNCHANGED quotes

Cancel(id) ==
    /\ book[id] # NoOrder
    /\ book[id].status \notin Terminal
    /\ book' = [book EXCEPT ![id].status = "CANCELLED"]
    /\ UNCHANGED <<quotes, fills>>

Quote(tick) ==
    /\ quotes' = [quotes EXCEPT ![tick.vt_symbol] = tick]
    /\ book' = [o \in OrderIds |-> After(tick, book[o])]
    /\ fills' = fills \union {TradeOf(o, book[o], tick) : o \in {x \in OrderIds : Reaches(tick, book[x])}}

Next ==
    \/ \E id \in OrderIds, req \in Requests : Reject(id, req) \/ Place(id, req)
    \/ \E id \in OrderIds : Cancel(id)
    \/ \E tick \in Ticks : Quote(tick)

Spec == Init /\ [][Next]_vars
=============================================================================
