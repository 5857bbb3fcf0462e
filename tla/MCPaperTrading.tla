--------------------------- MODULE MCPaperTrading ---------------------------
EXTENDS PaperTrading

CONSTANTS s1, s2

T(s, last, bid, ask) == [symbol |-> s, last_price |-> last, bid_price |-> bid, ask_price |-> ask]

\* Quotes on both sides, last price only, no ask, nothing at all.
PaperTicks == {T(s1, 2, 1, 3), T(s1, 3, None, None), T(s1, 4, 4, 0), T(s2, None, None, None)}

DemoReplays == [demo |-> 3, any |-> 1]
AnyOnce == [any |-> 1]

R(s, side, type, price, volume) ==
    [symbol |-> s, side |-> side, order_type |-> type, price |-> price, volume |-> volume]

PaperRequests ==
    {R(s1, side, "LIMIT", 3, 2) : side \in Side}
      \union {R(s1, "SELL", "MARKET", None, 2), R(s1, "BUY", "LIMIT", 0, 2), R(s1, "BUY", "LIMIT", 3, 3)}
=============================================================================
