----------------------------- MODULE MCBacktest -----------------------------
(***************************************************************************)
(* Backtests of two symbols on the simple engine and of one or two on      *)
(* backtrader.                                                             *)
(***************************************************************************)
EXTENDS Backtests

CONSTANTS s1, s2

Ordered == <<s1, s2>>
OnlyOne == <<s1>>

\* Cash with percentages, futures with a fixed margin and commission, and futures
\* with a margin rate.
ThreeAccounts ==
    {[account_mode |-> "cash", commtype |-> "perc", commission |-> 10, margin |-> 0, margin_rate |-> None],
     [account_mode |-> "futures", commtype |-> "fixed", commission |-> 7, margin |-> 60, margin_rate |-> None],
     [account_mode |-> "futures", commtype |-> "perc", commission |-> 10, margin |-> 0, margin_rate |-> 10]}

\* The same bars for both symbols, and a symbol that misses one.
TwoCalendars ==
    {[s \in Symbols |-> Times], [s \in Symbols |-> IF s = s1 THEN Times \ {3} ELSE Times]}

B(open, high, low, close) == [open |-> open, high |-> high, low |-> low, close |-> close]

\* Falling, rising, and opening with a gap.
ThreeBars == {B(200, 220, 180, 180), B(200, 260, 200, 260), B(300, 300, 240, 240)}

\* For backtrader: quiet, rising, holding and falling, in prices of two ticks with a channel
\* and an ATR that are not multiples of it.
TrendBars == {B(12, 14, 10, 12), B(16, 18, 16, 18), B(16, 16, 16, 16), B(10, 10, 6, 6)}
QuietOrFalling == {B(12, 14, 10, 12), B(10, 10, 6, 6)}
TrendChannels == {[h20 |-> 13, l20 |-> 9, h10 |-> 13, l10 |-> 9, atr |-> 3],
                  [h20 |-> 13, l20 |-> 9, h10 |-> 13, l10 |-> 9, atr |-> 0]}
TrendSignals == {[close |-> 12, atr |-> 3, cross |-> 1], [close |-> 10, atr |-> 3, cross |-> -1]}
TrendAccounts ==
    {[account_mode |-> "cash", coc |-> FALSE, commtype |-> "perc", commission |-> 10,
      mult |-> 1, margin |-> 0, margin_rate |-> NoValue],
     [account_mode |-> "cash", coc |-> FALSE, commtype |-> "perc", commission |-> 10,
      mult |-> 2, margin |-> 0, margin_rate |-> NoValue],
     [account_mode |-> "futures", coc |-> TRUE, commtype |-> "fixed", commission |-> 1,
      mult |-> 2, margin |-> 5, margin_rate |-> NoValue],
     [account_mode |-> "futures", coc |-> FALSE, commtype |-> "fixed", commission |-> 1,
      mult |-> 2, margin |-> 5, margin_rate |-> 20]}
AtTheOpen == {a \in TrendAccounts : ~a.coc}
=============================================================================
