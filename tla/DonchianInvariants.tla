-------------------------- MODULE DonchianInvariants --------------------------
(***************************************************************************)
(* The Donchian strategy with what is proved of its broker, and what its   *)
(* stops need to stay with their positions: they are whole ticks, and an   *)
(* order that waits has left word (order_meta) of what it is for.          *)
(***************************************************************************)
EXTENDS DonchianDailyMtf, BacktraderProofs

Ticks == {n * TickSize : n \in Int}

\* The state of a symbol whose position has that size.
Protected(x, size) ==
    /\ DOMAIN x = DOMAIN NewState
    /\ x.signal_ready \in BOOLEAN /\ (x.signal_ready => x.signal \in Channel /\ x.signal.atr > 0)
    /\ IF size > 0 THEN x.stop_long \in Ticks /\ x.entry_atr_long \in Nat
       ELSE x.stop_long = None /\ x.entry_atr_long = None
    /\ IF size < 0 THEN x.stop_short \in Ticks /\ x.entry_atr_short \in Nat
       ELSE x.stop_short = None /\ x.entry_atr_short = None

\* What order_meta says of an order for a position of that size.
Matching(m, size, order) ==
    /\ m.atr \in Nat
    /\ m.kind = IF size > 0 THEN "exit_long" ELSE IF size < 0 THEN "exit_short"
                ELSE IF order.size > 0 THEN "entry_long" ELSE "entry_short"

StopInv ==
    /\ channel \in [Symbols -> Channel] /\ DOMAIN st = Symbols
    /\ \A s \in Symbols : Protected(st[s], broker.positions[s].size)
    /\ \A i \in DOMAIN queue :
           LET s == queue[i].symbol IN Matching(meta[s], broker.positions[s].size, queue[i])

AnySize == Int \ {0}
DonInv == BookInv(AnySize) /\ StopInv
=============================================================================
