------------------------- MODULE MCBridgeSimulation -------------------------
EXTENDS BridgeSimulation, TLC

CONSTANTS s1, s2, o1, o2, o3, c1, c2

P == 10

Quote(symbol, last, bid, ask) ==
    [vt_symbol |-> symbol, last_price |-> last, bid_price_1 |-> bid, ask_price_1 |-> ask]

\* A low and a high market: a buy at 2P fills in the first, a sale in the second,
\* and either rests in the other.
Low(symbol) == Quote(symbol, P, P, 2 * P)
High(symbol) == Quote(symbol, 2 * P, 2 * P, 3 * P)

\* A second symbol: its first trade changes the dict that the tick loop walks over.
LowTicks == {Low(s1), Low(s2)}
RaceTicks == LowTicks \union {High(s1)}

Ask(symbol, direction, offset, price) ==
    [vt_symbol |-> symbol, direction |-> direction, offset |-> offset,
     order_type |-> "LIMIT", price |-> price, volume |-> 1]

Buys == {Ask(s1, "LONG", "OPEN", 2 * P), Ask(s2, "LONG", "OPEN", 2 * P)}

RaceRequests == Buys \union {Ask(s1, "SHORT", "CLOSE", 2 * P)}

\* The counter gives out the ids in order.
Taken(id) == ~UnusedId(id)
InOrder == (Taken(o2) => Taken(o1)) /\ (Taken(o3) => Taken(o2))

\* A third order is submitted while a tick marks the positions; all are purchases in the
\* low market, none is cancelled, and the second worker rests.
Purchases ==
    /\ At(c2, "idle")
    /\ \A s \in Symbols : last_ticks[s] \in LowTicks \union {NoTick}
    /\ \A order \in Range(orders) \union {frame[t].order : t \in Threads} :
         order # NoOrder => order.offset = "OPEN" /\ order.status # "CANCELLED"

ThirdInMarking ==
    /\ (Taken(o3) => Purchases)'
    /\ Taken(o3)' => Taken(o3) \/ At(Feed, "walk")

\* Both workers meet in the first symbol; the first one has the second symbol to itself.
SymbolOf(t) == IF frame[t].order # NoOrder THEN frame[t].order.vt_symbol
               ELSE IF frame[t].id # NoOrder THEN orders[frame[t].id].vt_symbol
               ELSE NoSymbol

BoundedNext == Next /\ InOrder' /\ ThirdInMarking /\ SymbolOf(c2)' # s2

\* What is left out is a call that a client may make later: no thread is held up.
BoundedSpec == Init /\ [][BoundedNext]_vars /\ Fairness

Symmetric == Permutations(Clients) \union Permutations(OrderIds)
=============================================================================
