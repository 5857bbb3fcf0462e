---------------------------- MODULE SimpleBroker ----------------------------
(***************************************************************************)
(* The account of the lab's own backtest engine (my_bt_lab/engines/        *)
(* simple_engine.py, class SimpleBroker), as operators on a broker record. *)
(* A spec says how the account works: cash or futures, how commission and  *)
(* margin are computed.  All symbols share it here.  Percentages and       *)
(* prices are such that every division is exact, except where the code     *)
(* rounds a size down.                                                     *)
(***************************************************************************)
EXTENDS Integers, FiniteSetsExt, Functions

CONSTANTS
    Symbols,
    StartingCash,
    SlipPercent,
    Mult,           \* contract multiplier
    SizeStep, MinSize

ASSUME BrokerAssumption ==
    /\ StartingCash \in Int
    /\ SlipPercent \in 0 .. 100
    /\ {Mult, SizeStep, MinSize} \subseteq Nat \ {0}

None == -1

AccountSpec == [account_mode : {"cash", "futures"}, commtype : {"perc", "fixed"},
          commission : Nat,             \* percent, or the amount if fixed
          margin : Nat,                 \* per contract, 0 if not set
          margin_rate : Nat \union {None}]

Broker == [cash : Int, pos_size : [Symbols -> Nat], pos_avg : [Symbols -> Nat],
           entry_comm : [Symbols -> Nat],       \* _open_trade: its commission
           fee_cum : Nat, slip_cum : Nat,
           net_pnl : Int]                       \* sum of pnlcomm over trades

NewBroker == [cash |-> StartingCash,
              pos_size |-> [s \in Symbols |-> 0], pos_avg |-> [s \in Symbols |-> 0],
              entry_comm |-> [s \in Symbols |-> 0],
              fee_cum |-> 0, slip_cum |-> 0, net_pnl |-> 0]

Larger(x, y) == IF x > y THEN x ELSE y
Smaller(x, y) == IF x < y THEN x ELSE y

-----------------------------------------------------------------------------

MarginPerContract(spec, price) ==
    IF spec.margin > 0 THEN spec.margin
    ELSE IF spec.margin_rate # None THEN (price * Mult * spec.margin_rate) \div 100
    ELSE 0

ChargeComm(spec, turnover) ==
    IF spec.commtype = "fixed" THEN spec.commission ELSE (turnover * spec.commission) \div 100

\* floor(num / den), in steps, and at least MinSize if not zero; nothing for a unit without a cost.
RoundSize(num, den) ==
    LET steps == IF den <= 0 THEN 0 ELSE Larger(0, num) \div (den * SizeStep)
    IN IF steps = 0 THEN 0 ELSE Larger(steps * SizeStep, MinSize)

\* last holds the prices known; a symbol without one counts at its average price.
LastPrice(b, last, s) == IF last[s] = None THEN b.pos_avg[s] ELSE last[s]

MarginTotal(spec, b, last) ==
    IF spec.account_mode # "futures" THEN 0
    ELSE SumFunction([s \in Symbols |-> b.pos_size[s] * MarginPerContract(spec, LastPrice(b, last, s))])

AvailableCash(spec, b, last) == b.cash - MarginTotal(spec, b, last)

DynamicEquity(spec, b, last) ==
    LET value(s) == IF spec.account_mode = "futures"
                    THEN LastPrice(b, last, s) - b.pos_avg[s] ELSE LastPrice(b, last, s)
    IN b.cash + SumFunction([s \in Symbols |-> b.pos_size[s] * value(s) * Mult])

StaticEquity(spec, b) ==
    IF spec.account_mode = "futures" THEN b.cash
    ELSE b.cash + SumFunction([s \in Symbols |-> b.pos_size[s] * b.pos_avg[s] * Mult])

OpenPositionsCount(b) == Cardinality({s \in Symbols : b.pos_size[s] > 0})

MaxAffordableSize(spec, b, sym, price) ==
    LET margin == MarginPerContract(spec, price)
        avail == AvailableCash(spec, b, [s \in Symbols |-> IF s = sym THEN price ELSE None])
    IN IF spec.account_mode = "futures" /\ margin > 0
       THEN RoundSize(avail, margin + ChargeComm(spec, price * Mult))
       ELSE IF spec.commtype = "fixed"
       THEN RoundSize(Larger(0, b.cash - spec.commission), price * Mult)
       ELSE RoundSize(b.cash * 100, price * Mult * (100 + spec.commission))

\* check_order at submission: the estimate is the close of the bar.
Accepted(spec, b, sym, side, size, price, last) ==
    LET turnover == size * price * Mult
        comm == ChargeComm(spec, turnover)
    IN /\ size > 0
       /\ side = "sell" => b.pos_size[sym] > 0
       /\ side = "buy" =>
            IF spec.account_mode = "futures"
            THEN AvailableCash(spec, b, last) >= size * MarginPerContract(spec, price) + comm
            ELSE b.cash >= turnover + comm

-----------------------------------------------------------------------------
(* execute: market orders, at the open of a bar.                            *)

ExecPrice(side, raw) ==
    IF side = "buy" THEN (raw * (100 + SlipPercent)) \div 100 ELSE (raw * (100 - SlipPercent)) \div 100

SlippageLoss(side, size, raw) ==
    (IF side = "buy" THEN ExecPrice(side, raw) - raw ELSE raw - ExecPrice(side, raw)) * size * Mult

Bought(spec, b, s, size, raw) ==
    LET price == ExecPrice("buy", raw)
        turnover == size * price * Mult
        comm == ChargeComm(spec, turnover)
    IN [b EXCEPT !.cash = @ - comm - (IF spec.account_mode = "cash" THEN turnover ELSE 0),
                 !.pos_size[s] = @ + size,
                 !.pos_avg[s] = (b.pos_size[s] * @ + size * price) \div (b.pos_size[s] + size),
                 !.entry_comm[s] = @ + comm,
                 !.fee_cum = @ + comm,
                 !.slip_cum = @ + SlippageLoss("buy", size, raw)]

\* What a sale realizes before commission.
RealizedPnl(b, s, size, raw) == (ExecPrice("sell", raw) - b.pos_avg[s]) * size * Mult

\* Variant: a futures account is credited the turnover of a sale.
ProceedsOfCash(spec, b, s, size, raw) == size * ExecPrice("sell", raw) * Mult

Proceeds(spec, b, s, size, raw) ==
    IF spec.account_mode = "cash" THEN size * ExecPrice("sell", raw) * Mult
    ELSE RealizedPnl(b, s, size, raw)

\* The slippage loss is that of the ordered size; the rest is that of the sold one.
Sold(spec, b, s, ordered, raw) ==
    LET size == Smaller(b.pos_size[s], ordered)
        comm == ChargeComm(spec, size * ExecPrice("sell", raw) * Mult)
        closed == b.pos_size[s] = size
    IN [b EXCEPT !.cash = @ + Proceeds(spec, b, s, size, raw) - comm,
                 !.pos_size[s] = @ - size,
                 !.pos_avg[s] = IF closed THEN 0 ELSE @,
                 !.entry_comm[s] = IF closed THEN 0 ELSE @,
                 !.fee_cum = @ + comm,
                 !.slip_cum = @ + SlippageLoss("sell", ordered, raw),
                 !.net_pnl = @ + RealizedPnl(b, s, size, raw) - b.entry_comm[s] - comm]
=============================================================================
