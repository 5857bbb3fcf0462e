------------------------- MODULE MCSimulationEngine -------------------------
(* Small instances of SimulationEngine for TLC. Prices are multiples of
   840^2, so that two successive averages over up to eight lots are exact. *)
EXTENDS SimulationEngine, TLC

CONSTANTS s1, s2

P == 840 * 840

Quote(s, last, bid, ask) ==
    [vt_symbol |-> s, last_price |-> last, bid_price_1 |-> bid, ask_price_1 |-> ask]

\* A spread, a tick above it, a limit-down tick without a bid, a limit-up one,
\* and one tick of the second symbol.
EngineTicks ==
    {Quote(s1, P, P, 2 * P), Quote(s1, 2 * P, 2 * P, 3 * P),
     Quote(s1, P, 0, P), Quote(s1, 3 * P, 3 * P, 0), Quote(s2, P, P, 2 * P)}

\* A wide spread that closes: both sides of the book move through their orders.
NarrowingTicks == {Quote(s1, P, P, P), Quote(s1, 2 * P, P, 3 * P), Quote(s1, 2 * P, 2 * P, 2 * P)}

Ask(s, direction, offset, type, price, volume) ==
    [vt_symbol |-> s, direction |-> direction, offset |-> offset,
     order_type |-> type, price |-> price, volume |-> volume]

\* Both directions, open and close, market and limit: one lot at two prices, two
\* lots at the price that the first tick reaches; the two malformed requests, and
\* an order for the second symbol.
OneSymbolRequests ==
    {Ask(s1, d, o, "LIMIT", p, 1) : d \in Direction, o \in Offset, p \in {P, 2 * P}}
      \union {Ask(s1, d, o, "LIMIT", IF d = "LONG" THEN 2 * P ELSE P, 2) : d \in Direction, o \in Offset}
      \union {Ask(s1, d, o, "MARKET", 0, 1) : d \in Direction, o \in Offset}

EngineRequests ==
    OneSymbolRequests
      \union {Ask(s1, "LONG", "OPEN", "LIMIT", P, 0), Ask(s1, "LONG", "OPEN", "LIMIT", 0, 1),
              Ask(s2, "LONG", "OPEN", "LIMIT", P, 1)}

\* Long side only, with enough orders for a position built and closed in parts.
LongRequests ==
    {Ask(s1, d, o, "LIMIT", p, v) :
        d \in {"LONG"}, o \in {"OPEN"}, p \in {2 * P, 3 * P}, v \in {1, 2}}
      \union {Ask(s1, "SHORT", "CLOSE", "LIMIT", p, v) : p \in {P, 2 * P}, v \in {1, 2}}

SymmetricIds == Permutations(OrderIds)
=============================================================================
