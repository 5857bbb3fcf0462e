-------------------------- MODULE SimpleEngineProofs --------------------------
(***************************************************************************)
(* What run_simple promises, proved for every set of symbols, every data   *)
(* and every account configuration.                                        *)
(*                                                                         *)
(* EngineInv is about the orders: the queue of each time holds the orders  *)
(* accepted for it, each once, and what an order was decided on still      *)
(* holds when its bar comes.  MoneyInv is about the money: the account,    *)
(* the trades that are open, those that are closed and the fills agree     *)
(* after every fill and not only when nothing is held.                     *)
(***************************************************************************)
EXTENDS SimpleEngine, FiniteSetTheorems, FunctionTheorems, TLAPS

-----------------------------------------------------------------------------
(* on_bar as a fold.                                                        *)

\* What on_bar has decided so far, and the pass over the symbols as a fold.
Decision(p, did, s) == IF s \in DOMAIN bars THEN DecideFor(did, p[1], s, p[2][s], p[3]) ELSE did
Undecided(p) == [orders |-> <<>>, stop |-> stop, open |-> OpenPositionsCount(p[1])]
D == INSTANCE FoldLemmas WITH op <- Decision, base <- Undecided

Equity(b) == DynamicEquity(account, b, [s \in Symbols |-> IF s \in DOMAIN bars THEN bars[s].close ELSE None])

\* What on_bar decides is a fold over the configured symbols.
LEMMA OnBarIsFold == \A b, h : OnBar(b, h) = D!Fold(<<b, h, Equity(b)>>, SymbolOrder)
BY DEF OnBar, Equity, Decision, Undecided, D!Fold, FoldLeft, MapThenFoldSet, Max, D!MapThenFoldSet, D!Max

Intents == [symbol : Symbols, side : {"buy", "sell"}, size : Int]
IsDid(did) == /\ DOMAIN did = {"orders", "stop", "open"} /\ did = [f \in DOMAIN did |-> did[f]]
              /\ did.orders \in Seq(Intents) /\ did.open \in Int

\* The decisions about the symbols of a prefix: at most one order for each, a sale of all that
\* is held, or a purchase where nothing is.
Sensible(b, od) == /\ od.symbol \in DOMAIN bars
                   /\ od.side = "sell" => b.pos_size[od.symbol] > 0 /\ od.size = b.pos_size[od.symbol]
                   /\ od.side = "buy" => ~(b.pos_size[od.symbol] > 0) /\ od.size > 0
Decided(b, did, done) ==
    /\ IsDid(did)
    /\ \A i \in DOMAIN did.orders : Sensible(b, did.orders[i]) /\ did.orders[i].symbol \in done
    /\ \A i, j \in DOMAIN did.orders : did.orders[i].symbol = did.orders[j].symbol => i = j

\* One more order, for a symbol not yet dealt with, leaves the decisions sensible.
LEMMA AddsOrder ==
    ASSUME NEW b, NEW did, NEW done, NEW new, NEW od \in Intents, Decided(b, did, done), od.symbol \notin done, Sensible(b, od),
           IsDid(new), new.orders = Append(did.orders, od)
    PROVE  Decided(b, new, done \cup {od.symbol})
<1> DEFINE n == Len(did.orders)
<1>1. n \in Nat /\ DOMAIN did.orders = 1 .. n /\ DOMAIN new.orders = 1 .. n + 1 /\ new.orders[n + 1] = od
      /\ \A i \in 1 .. n : new.orders[i] = did.orders[i]
  BY DEF Decided, IsDid
<1>2. \A i \in 1 .. n + 1 : i \in 1 .. n \/ i = n + 1
  BY <1>1
<1> HIDE DEF n
<1>3. \A i \in 1 .. n : Sensible(b, did.orders[i]) /\ did.orders[i].symbol \in done
  BY <1>1 DEF Decided
<1> QED
  BY <1>1, <1>2, <1>3 DEF Decided

\* What is decided for a position that is held is sensible: it is sold whole, or kept.
LEMMA HoldDecides ==
    ASSUME NEW b, NEW did, NEW done, NEW s \in Symbols, NEW h, Decided(b, did, done), s \notin done, s \in DOMAIN bars,
           b.pos_size[s] \in Nat, b.pos_size[s] > 0
    PROVE  Decided(b, Hold(did, b, s, h), done \cup {s})
<1> DEFINE od == Intent(s, "sell", b.pos_size[s])
           new == Hold(did, b, s, h)
<1>1. od \in Intents /\ od.symbol = s /\ Sensible(b, od)
  BY DEF Intent, Intents, Sensible
<1>2. PICK e : e \in {<<>>, <<od>>} /\ e = Exits(s, h, b.pos_size[s], Trailed(h, did.stop[s]))
  BY DEF Exits
<1>3. /\ DOMAIN new = {"orders", "stop", "open"} /\ new = [f \in DOMAIN new |-> new[f]]
      /\ new.open = did.open /\ new.orders = did.orders \o e
  BY <1>2 DEF Hold, Decided, IsDid
<1> HIDE DEF od, new
<1>4. CASE e = <<>>
  <2>1. new.orders = did.orders
    BY <1>3, <1>4 DEF Decided, IsDid
  <2> QED
    BY <1>3, <2>1 DEF Decided, IsDid, new
<1>5. CASE e = <<od>>
  <2>1. new.orders = Append(did.orders, od)
    BY <1>1, <1>3, <1>5 DEF Decided, IsDid
  <2>2. IsDid(new)
    BY <1>1, <1>3, <2>1 DEF Decided, IsDid
  <2> QED
    BY <1>1, <2>1, <2>2, AddsOrder DEF new
<1> QED
  BY <1>2, <1>4, <1>5

\* An entry is a sensible order where nothing is held, and counts as a position.
LEMMA EnterDecides ==
    ASSUME NEW b, NEW did, NEW done, NEW s \in Symbols, NEW h, NEW size \in Int, Decided(b, did, done), s \notin done,
           s \in DOMAIN bars, ~(b.pos_size[s] > 0), size > 0
    PROVE  Decided(b, Enter(did, s, h, size), done \cup {s}) /\ Enter(did, s, h, size).open = did.open + 1
<1> DEFINE od == Intent(s, "buy", size)
           new == Enter(did, s, h, size)
<1>1. od \in Intents /\ od.symbol = s /\ Sensible(b, od)
  BY DEF Intent, Intents, Sensible
<1>2. /\ DOMAIN new = {"orders", "stop", "open"} /\ new = [f \in DOMAIN new |-> new[f]]
      /\ new.open = did.open + 1 /\ new.orders = Append(did.orders, od)
  BY DEF Enter, Decided, IsDid
<1> HIDE DEF od, new
<1>3. IsDid(new)
  BY <1>1, <1>2 DEF Decided, IsDid
<1> QED
  BY <1>1, <1>2, <1>3, AddsOrder DEF new
-----------------------------------------------------------------------------
(* Sums over the values of a function. *)
AddValue(f, acc, x) == f[x] + acc
Nothing(f) == 0
V == INSTANCE FoldLemmas WITH op <- AddValue, base <- Nothing

\* The sum of a function is a fold over its domain.
LEMMA SumIsFold == \A f : SumFunction(f) = V!FoldOver(f, DOMAIN f)
BY DEF SumFunction, SumFunctionOnSet, FoldFunctionOnSet, MapThenFoldSet, V!FoldOver, V!MapThenFoldSet, AddValue, Nothing

\* Finite here is finite in the lemmas on folds.
LEMMA Finite == \A S : IsFiniteSet(S) => V!IsFiniteSet(S)
BY DEF IsFiniteSet, V!IsFiniteSet

\* One value less: a sum is a number, and what is left of it without one value is as well.
LEMMA SumWithout ==
    ASSUME NEW S, IsFiniteSet(S), NEW f \in [S -> Int]
    PROVE  /\ SumFunction(f) \in Int
           /\ \A x \in S : V!FoldOver(f, S \ {x}) \in Int /\ SumFunction(f) = f[x] + V!FoldOver(f, S \ {x})
<1>1. V!Commutes(f, Int, S)
  BY DEF V!Commutes, AddValue, Nothing
<1>2. \A T \in SUBSET S : IsFiniteSet(T) /\ V!FoldOver(f, T) \in Int
  <2> SUFFICES ASSUME NEW T \in SUBSET S PROVE IsFiniteSet(T) /\ V!FoldOver(f, T) \in Int
    OBVIOUS
  <2>1. IsFiniteSet(T)
    BY FS_Subset
  <2> QED
    BY <1>1, <2>1, Finite, V!FoldOverAny
<1>3. \A x \in S : V!FoldOver(f, S) = AddValue(f, V!FoldOver(f, S \ {x}), x)
  BY <1>1, Finite, V!FoldOverAny
<1>4. SumFunction(f) = V!FoldOver(f, S)
  BY SumIsFold
<1>5. \A x \in S : (S \ {x}) \in SUBSET S
  OBVIOUS
<1> QED
  BY <1>2, <1>3, <1>4, <1>5 DEF AddValue

\* Functions with the same values but one.
DifferAt(f, g, S, x) == \A y \in S \ {x} : g[y] = f[y]

\* A sum changes by what one of its values does.
LEMMA SumChanges ==
    ASSUME NEW S, IsFiniteSet(S), NEW f \in [S -> Int], NEW x \in S, NEW g \in [S -> Int], DifferAt(f, g, S, x)
    PROVE  SumFunction(g) = SumFunction(f) - f[x] + g[x]
<1>1. IsFiniteSet(S \ {x})
  BY FS_Subset
<1>2. V!Alike(f, g, S \ {x})
  BY DEF DifferAt, V!Alike, AddValue, Nothing
<1>3. V!FoldOver(f, S \ {x}) = V!FoldOver(g, S \ {x})
  BY <1>1, <1>2, Finite, V!FoldOverAlike
<1>4. /\ SumFunction(f) = f[x] + V!FoldOver(f, S \ {x}) /\ SumFunction(g) = g[x] + V!FoldOver(g, S \ {x})
      /\ V!FoldOver(f, S \ {x}) \in Int
  BY SumWithout
<1> QED
  BY <1>3, <1>4
-----------------------------------------------------------------------------
(* The broker's operators compute numbers. *)
LEMMA SymbolsFinite == IsFiniteSet(Symbols)
<1>1. SymbolOrder \in Seq(Symbols) /\ Symbols = {SymbolOrder[i] : i \in DOMAIN SymbolOrder}
  BY EngineAssumption DEF ToSet
<1>2. IsFiniteSet(DOMAIN SymbolOrder)
  <2>1. DOMAIN SymbolOrder = 1 .. Len(SymbolOrder) /\ Len(SymbolOrder) \in Nat
    BY <1>1
  <2> QED
    BY <2>1, FS_Interval
<1>3. SymbolOrder \in Surjection(DOMAIN SymbolOrder, Symbols)
  BY <1>1 DEF Surjection
<1> QED
  BY <1>2, <1>3, FS_Surjection

\* The constants, one by one.
LEMMA Parameters ==
    /\ Mult \in Nat /\ Mult > 0 /\ SizeStep \in Nat /\ SizeStep > 0 /\ MinSize \in Nat /\ MinSize > 0
    /\ LastTime \in Nat /\ LastTime > 0 /\ Fast \in Nat /\ Fast > 0 /\ Slow \in Nat /\ Slow > 0
    /\ AtrPeriod \in Nat /\ AtrPeriod > 0 /\ AtrStopMult \in Nat /\ AtrStopMult > 0 /\ MaxPositions \in Nat /\ MaxPositions > 0
    /\ SlipPercent \in 0 .. 100 /\ StartingCash \in Int /\ RiskPercent \in Nat
BY EngineAssumption, BrokerAssumption

\* Products of natural numbers.
LEMMA Products == \A a, b \in Nat : a * b \in Nat
OBVIOUS

\* Products of integers.
LEMMA IntProducts == \A a, b \in Int : a * b \in Int
OBVIOUS

\* A hundredth, rounded down.
LEMMA Hundredths == \A a \in Nat : a \div 100 \in Nat
OBVIOUS

\* Commission and margin are amounts, not negative.
LEMMA Charges ==
    ASSUME NEW spec \in AccountSpec, NEW n \in Nat
    PROVE  ChargeComm(spec, n) \in Nat /\ MarginPerContract(spec, n) \in Nat
<1>1. spec.commission \in Nat /\ spec.margin \in Nat /\ spec.margin_rate \in Nat \cup {None}
  BY DEF AccountSpec
<1>2. n * spec.commission \in Nat
  BY <1>1, Products
<1>3. spec.margin_rate # None => n * Mult * spec.margin_rate \in Nat
  BY <1>1, Products, Parameters
<1> QED
  BY <1>1, <1>2, <1>3, Hundredths DEF ChargeComm, MarginPerContract

\* A rounded size is not negative.
LEMMA RoundedSize == ASSUME NEW num \in Int, NEW den \in Int PROVE RoundSize(num, den) \in Nat
<1> DEFINE top == Larger(0, num)
           steps == IF den <= 0 THEN 0 ELSE top \div (den * SizeStep)
<1>1. steps \in Nat
  <2>1. top \in Nat
    BY DEF Larger
  <2>2. CASE den > 0
    <3>1. den * SizeStep \in Nat /\ den * SizeStep > 0
      BY <2>2, Parameters
    <3> DEFINE unit == den * SizeStep
    <3>2. unit \in Nat /\ unit > 0
      BY <3>1
    <3> HIDE DEF unit, top
    <3>3. top \div unit \in Nat
      BY <2>1, <3>2
    <3> QED
      BY <2>2, <3>3 DEF unit
  <2> QED
    BY <2>2
<1> HIDE DEF steps
<1>2. steps * SizeStep \in Nat /\ MinSize \in Nat
  BY <1>1, Products, Parameters
<1>3. Larger(steps * SizeStep, MinSize) \in Nat
  BY <1>2 DEF Larger
<1> QED
  BY <1>3 DEF RoundSize, steps

\* Prices known, or not.
Known == [Symbols -> Nat \cup {None}]

\* Available cash and dynamic equity are numbers.
LEMMA Totals ==
    ASSUME NEW spec \in AccountSpec, NEW b \in Broker, NEW last \in Known
    PROVE  AvailableCash(spec, b, last) \in Int /\ DynamicEquity(spec, b, last) \in Int
<1>1. b.cash \in Int /\ \A s \in Symbols : b.pos_size[s] \in Nat /\ b.pos_avg[s] \in Nat
  BY DEF Broker
<1>2. \A s \in Symbols : LastPrice(b, last, s) \in Nat
  BY <1>1 DEF LastPrice, Known
<1> DEFINE margins == [s \in Symbols |-> b.pos_size[s] * MarginPerContract(spec, LastPrice(b, last, s))]
           value(s) == IF spec.account_mode = "futures"
                       THEN LastPrice(b, last, s) - b.pos_avg[s] ELSE LastPrice(b, last, s)
           values == [s \in Symbols |-> b.pos_size[s] * value(s) * Mult]
<1>3. margins \in [Symbols -> Int]
  BY <1>1, <1>2, Charges, Products
<1>4. values \in [Symbols -> Int]
  BY <1>1, <1>2, Parameters
<1>5. MarginTotal(spec, b, last) = IF spec.account_mode # "futures" THEN 0 ELSE SumFunction(margins)
  BY DEF MarginTotal
<1>6. DynamicEquity(spec, b, last) = b.cash + SumFunction(values)
  BY DEF DynamicEquity
<1> HIDE DEF margins, values
<1>7. SumFunction(margins) \in Int /\ SumFunction(values) \in Int
  BY <1>3, <1>4, SymbolsFinite, SumWithout
<1> QED
  BY <1>1, <1>5, <1>6, <1>7 DEF AvailableCash

\* max_affordable_size is not negative.
LEMMA Affordable ==
    ASSUME NEW spec \in AccountSpec, NEW b \in Broker, NEW sym \in Symbols, NEW price \in Nat
    PROVE  MaxAffordableSize(spec, b, sym, price) \in Nat
<1> DEFINE margin == MarginPerContract(spec, price)
           last == [s \in Symbols |-> IF s = sym THEN price ELSE None]
           avail == AvailableCash(spec, b, last)
<1>1. avail \in Int
  <2>1. last \in Known
    BY DEF Known
  <2> QED
    BY <2>1, Totals
<1>2. margin \in Int /\ price * Mult \in Nat /\ ChargeComm(spec, price * Mult) \in Nat
  BY Charges, Products, Parameters
<1>3. b.cash \in Int /\ spec.commission \in Nat
  BY DEF Broker, AccountSpec
<1>4. RoundSize(avail, margin + ChargeComm(spec, price * Mult)) \in Nat
  <2>1. margin + ChargeComm(spec, price * Mult) \in Int
    BY <1>2
  <2> HIDE DEF avail, margin
  <2> QED
    BY <1>1, <2>1, RoundedSize
<1>5. RoundSize(Larger(0, b.cash - spec.commission), price * Mult) \in Nat
  <2>1. Larger(0, b.cash - spec.commission) \in Int
    BY <1>3 DEF Larger
  <2> QED
    BY <1>2, <2>1, RoundedSize
<1>6. RoundSize(b.cash * 100, price * Mult * (100 + spec.commission)) \in Nat
  <2>1. b.cash * 100 \in Int /\ price * Mult * (100 + spec.commission) \in Int
    BY <1>2, <1>3
  <2> QED
    BY <2>1, RoundedSize
<1> QED
  BY <1>4, <1>5, <1>6 DEF MaxAffordableSize

\* A true range is a number.
LEMMA TrueRanges == ASSUME NEW cur \in Bar, NEW prev \in Bar PROVE TrueRange(cur, prev) \in Int
<1> DEFINE S == {cur.high - cur.low, cur.high - prev.close, prev.close - cur.high, cur.low - prev.close, prev.close - cur.low}
<1>1. cur.high \in Nat /\ cur.low \in Nat /\ prev.close \in Nat
  BY DEF Bar
<1>2. \E x \in S : \A y \in S : x >= y
  BY <1>1
<1>3. Max(S) \in S
  BY <1>2 DEF Max
<1> QED
  BY <1>1, <1>3 DEF TrueRange

\* The sum of the true ranges is a number when there are enough bars.
LEMMA AtrInt == ASSUME NEW h \in Seq(Bar), Len(h) > AtrPeriod PROVE Atr(h) \in Int
<1> DEFINE ranges == [i \in 1 .. Len(h) - 1 |-> TrueRange(h[i + 1], h[i])]
           part == SubSeq(ranges, Len(ranges) - AtrPeriod + 1, Len(ranges))
<1>1. Len(h) \in Nat /\ AtrPeriod \in Nat /\ AtrPeriod > 0
  BY Parameters
<1>2. \A i \in 1 .. Len(h) - 1 : TrueRange(h[i + 1], h[i]) \in Int
  <2> SUFFICES ASSUME NEW i \in 1 .. Len(h) - 1 PROVE TrueRange(h[i + 1], h[i]) \in Int
    OBVIOUS
  <2>1. i \in 1 .. Len(h) /\ i + 1 \in 1 .. Len(h)
    BY <1>1
  <2>2. h[i] \in Bar /\ h[i + 1] \in Bar
    BY <2>1
  <2> QED
    BY <2>2, TrueRanges
<1>3. ranges \in Seq(Int) /\ Len(ranges) = Len(h) - 1
  BY <1>1, <1>2
<1> HIDE DEF ranges
<1>4. part \in [1 .. AtrPeriod -> Int]
  <2>1. Len(ranges) - (Len(ranges) - AtrPeriod + 1) + 1 = AtrPeriod /\ Len(ranges) - AtrPeriod + 1 \in 1 .. Len(ranges) + 1
    BY <1>1, <1>3
  <2>2. part \in Seq(Int) /\ Len(part) = AtrPeriod
    BY <1>1, <1>3, <2>1
  <2> HIDE DEF part
  <2> QED
    BY <2>2
<1> HIDE DEF part
<1>5. IsFiniteSet(1 .. AtrPeriod)
  BY <1>1, FS_Interval
<1>6. SumFunction(part) \in Int
  BY <1>4, <1>5, SumWithout
<1> QED
  BY <1>6 DEF Atr, SumLast, part, ranges

\* The size of an entry is a number.
LEMMA BuySizeInt ==
    ASSUME NEW b \in Broker, NEW s \in Symbols, NEW h \in Seq(Bar), NEW equity \in Int, account \in AccountSpec, Ready(h)
    PROVE  BuySize(b, s, h, equity) \in Int
<1>1. Len(h) >= AtrPeriod + 1 /\ Len(h) \in Nat
  <2> DEFINE S == {Fast, Slow, AtrPeriod + 1}
  <2>1. \E x \in S : \A y \in S : x >= y
    BY Parameters
  <2>2. Max(S) \in S /\ \A y \in S : Max(S) >= y
    BY <2>1 DEF Max
  <2> QED
    BY <2>2, Parameters DEF Ready
<1>2. Atr(h) \in Int
  BY <1>1, AtrInt, Parameters
<1>3. Last(h).close \in Nat
  <2>1. h[Len(h)] \in Bar
    BY <1>1, Parameters
  <2> QED
    BY <2>1 DEF Last, Bar
<1>4. equity * RiskPercent * AtrPeriod \in Int /\ 100 * AtrStopMult * Atr(h) * Mult \in Int
  <2>1. RiskPercent \in Int /\ AtrPeriod \in Int /\ AtrStopMult \in Int /\ Mult \in Int
    BY Parameters
  <2>2. equity * RiskPercent \in Int /\ 100 * AtrStopMult \in Int
    BY <2>1
  <2>3. 100 * AtrStopMult * Atr(h) \in Int
    BY <1>2, <2>2, IntProducts
  <2> QED
    BY <2>1, <2>2, <2>3, IntProducts
<1>5. RoundSize(equity * RiskPercent * AtrPeriod, 100 * AtrStopMult * Atr(h) * Mult) \in Nat
  BY <1>4, RoundedSize
<1> QED
  BY <1>3, <1>5, Affordable DEF BuySize, Smaller
-----------------------------------------------------------------------------
(* What on_bar decides. *)

\* The symbols with a position, or an order of this bar for one.
Entered(b, ods) == {s \in Symbols : b.pos_size[s] > 0 \/ \E i \in DOMAIN ods : ods[i].symbol = s /\ ods[i].side = "buy"}
Counts(b, did) == /\ Cardinality(Entered(b, did.orders)) = did.open
                  /\ OpenPositionsCount(b) <= MaxPositions => did.open <= MaxPositions

\* A position that is held is sold or kept, and the stop moved.
LEMMA HoldCounts ==
    ASSUME NEW b, NEW did, NEW done, NEW s \in Symbols, NEW h, Decided(b, did, done), Counts(b, did), b.pos_size[s] > 0
    PROVE  Counts(b, Hold(did, b, s, h))
<1> DEFINE od == Intent(s, "sell", b.pos_size[s])
           new == Hold(did, b, s, h)
<1>1. PICK e : e \in {<<>>, <<od>>} /\ e = Exits(s, h, b.pos_size[s], Trailed(h, did.stop[s]))
  BY DEF Exits
<1>2. new.open = did.open /\ new.orders = did.orders \o e
  BY <1>1 DEF Hold, Decided, IsDid
<1>3. Entered(b, new.orders) = Entered(b, did.orders)
  <2>1. CASE e = <<>>
    BY <1>2, <2>1 DEF Decided, IsDid
  <2>2. CASE e = <<od>>
    <3> DEFINE n == Len(did.orders)
    <3>1. /\ n \in Nat /\ DOMAIN did.orders = 1 .. n /\ DOMAIN new.orders = 1 .. n + 1
          /\ new.orders[n + 1] = od /\ \A i \in 1 .. n : new.orders[i] = did.orders[i]
      <4>1. did.orders \in Seq(Intents) /\ <<od>> \in Seq({od})
        BY DEF Decided, IsDid
      <4>2. did.orders \in Seq(Intents \cup {od}) /\ <<od>> \in Seq(Intents \cup {od})
        BY <4>1
      <4> HIDE DEF od, new
      <4> QED
        BY <1>2, <2>2, <4>2
    <3>2. od.side = "sell"
      BY DEF Intent
    <3> HIDE DEF od, new, n
    <3>3. \A i \in 1 .. n + 1 : i \in 1 .. n \/ i = n + 1
      BY <3>1
    <3>4. \A i \in 1 .. n : i \in 1 .. n + 1
      BY <3>1
    <3>5. \A x : (\E i \in 1 .. n + 1 : new.orders[i].symbol = x /\ new.orders[i].side = "buy")
                  <=> (\E i \in 1 .. n : did.orders[i].symbol = x /\ did.orders[i].side = "buy")
      BY <3>1, <3>2, <3>3, <3>4
    <3> QED
      BY ZenonT(30), <3>1, <3>5 DEF Entered
  <2> QED
    BY <1>1, <2>1, <2>2
<1> QED
  BY <1>2, <1>3 DEF Counts

\* A purchase is one symbol more.
LEMMA EnterCounts ==
    ASSUME NEW b, NEW did, NEW done, NEW s \in Symbols, NEW h, NEW size \in Int, Decided(b, did, done), s \notin done,
           ~(b.pos_size[s] > 0), Counts(b, did), did.open < MaxPositions
    PROVE  Counts(b, Enter(did, s, h, size))
<1> DEFINE od == Intent(s, "buy", size)
           new == Enter(did, s, h, size)
           n == Len(did.orders)
<1>1. new.open = did.open + 1 /\ new.orders = Append(did.orders, od) /\ did.open \in Int
  BY DEF Enter, Decided, IsDid
<1>2. od \in Intents /\ od.symbol = s /\ od.side = "buy"
  BY DEF Intent, Intents
<1> HIDE DEF od, new
<1>3. /\ n \in Nat /\ DOMAIN did.orders = 1 .. n /\ DOMAIN new.orders = 1 .. n + 1
      /\ new.orders[n + 1] = od /\ \A i \in 1 .. n : new.orders[i] = did.orders[i]
  BY <1>1, <1>2 DEF Decided, IsDid
<1> HIDE DEF n
<1>4. \A i \in 1 .. n + 1 : i \in 1 .. n \/ i = n + 1
  BY <1>3
<1>5. Entered(b, new.orders) = Entered(b, did.orders) \cup {s}
  BY <1>2, <1>3, <1>4 DEF Entered
<1>6. s \notin Entered(b, did.orders)
  BY DEF Entered, Decided
<1>7. IsFiniteSet(Entered(b, did.orders))
  BY SymbolsFinite, FS_Subset DEF Entered
<1>8. Cardinality(Entered(b, new.orders)) = Cardinality(Entered(b, did.orders)) + 1
  BY <1>5, <1>6, <1>7, FS_AddElement
<1> QED
  BY <1>1, <1>8, Parameters DEF Counts, new

\* The decision for one symbol keeps the decisions sensible and the count of positions right.
LEMMA DecidesFor ==
    ASSUME NEW b \in Broker, NEW did, NEW done, NEW s \in Symbols, NEW h \in Seq(Bar), NEW equity \in Int,
           account \in AccountSpec, Decided(b, did, done), Counts(b, did), s \notin done, s \in DOMAIN bars
    PROVE  LET new == DecideFor(did, b, s, h, equity) IN Decided(b, new, done \cup {s}) /\ Counts(b, new)
<1>0. b.pos_size[s] \in Nat
  BY DEF Broker
<1>1. Decided(b, did, done \cup {s})
  BY DEF Decided
<1>2. CASE Ready(h) /\ b.pos_size[s] > 0
  <2>1. Decided(b, Hold(did, b, s, h), done \cup {s}) /\ Counts(b, Hold(did, b, s, h))
    BY <1>0, <1>2, HoldDecides, HoldCounts
  <2> QED
    BY <1>2, <2>1 DEF DecideFor
<1>3. CASE Ready(h) /\ ~(b.pos_size[s] > 0) /\ did.open < MaxPositions /\ Trend(h) > 0 /\ BuySize(b, s, h, equity) > 0
  <2> DEFINE size == BuySize(b, s, h, equity)
  <2>1. size \in Int /\ size > 0
    BY <1>3, BuySizeInt
  <2> HIDE DEF size
  <2>2. Decided(b, Enter(did, s, h, size), done \cup {s}) /\ Counts(b, Enter(did, s, h, size))
    BY <1>3, <2>1, EnterDecides, EnterCounts
  <2> QED
    BY <1>3, <2>2 DEF DecideFor, size
<1> QED
  BY <1>1, <1>2, <1>3 DEF DecideFor

\* The orders of a bar: one for a symbol at most, each sensible, and no more positions than allowed.
LEMMA OnBarDecides ==
    ASSUME NEW b \in Broker, NEW h \in [Symbols -> Seq(Bar)], account \in AccountSpec, DOMAIN bars \subseteq Symbols,
           \A s \in DOMAIN bars : bars[s].close \in Nat
    PROVE  Decided(b, OnBar(b, h), Symbols) /\ Counts(b, OnBar(b, h))
<1> DEFINE p == <<b, h, Equity(b)>>
           Good == {q \in Seq(Symbols) : IsInjective(q) => Decided(b, D!Fold(p, q), ToSet(q)) /\ Counts(b, D!Fold(p, q))}
<1>0. p[1] = b /\ p[2] = h /\ p[3] = Equity(b)
  OBVIOUS
<1>1. Equity(b) \in Int
  <2> DEFINE last == [s \in Symbols |-> IF s \in DOMAIN bars THEN bars[s].close ELSE None]
  <2>1. last \in Known
    BY DEF Known
  <2> HIDE DEF last
  <2>2. DynamicEquity(account, b, last) \in Int
    BY <2>1, Totals
  <2> QED
    BY <2>2 DEF Equity, last
<1>2. <<>> \in Good
  <2> DEFINE did == [orders |-> <<>>, stop |-> stop, open |-> OpenPositionsCount(b)]
             held == {s \in Symbols : b.pos_size[s] > 0}
  <2>1. D!Fold(p, <<>>) = did
    BY <1>0, D!FoldEmpty DEF Undecided
  <2>2. IsFiniteSet(held) /\ OpenPositionsCount(b) = Cardinality(held) /\ Cardinality(held) \in Nat
    BY SymbolsFinite, FS_Subset, FS_CardinalityType DEF OpenPositionsCount
  <2>3. /\ DOMAIN did = {"orders", "stop", "open"} /\ did = [f \in DOMAIN did |-> did[f]]
        /\ did.orders = <<>> /\ did.open = OpenPositionsCount(b)
    OBVIOUS
  <2>4. Entered(b, <<>>) = held
    BY DEF Entered
  <2> HIDE DEF did, held, p
  <2>5. Decided(b, did, {}) /\ Counts(b, did)
    BY <2>2, <2>3, <2>4 DEF Decided, IsDid, Counts
  <2>6. ToSet(<<>>) = {}
    BY DEF ToSet
  <2> QED
    BY <2>1, <2>5, <2>6
<1>3. ASSUME NEW q \in Seq(Symbols), NEW s \in Symbols, q \in Good PROVE Append(q, s) \in Good
  <2> SUFFICES ASSUME IsInjective(Append(q, s))
               PROVE  /\ Decided(b, D!Fold(p, Append(q, s)), ToSet(Append(q, s))) /\ Counts(b, D!Fold(p, Append(q, s)))
    OBVIOUS
  <2> DEFINE n == Len(q)
             t == Append(q, s)
             did == D!Fold(p, q)
  <2>1. n \in Nat /\ DOMAIN q = 1 .. n /\ DOMAIN t = 1 .. n + 1 /\ t[n + 1] = s /\ \A i \in 1 .. n : t[i] = q[i]
    OBVIOUS
  <2>2. \A i \in 1 .. n + 1 : i \in 1 .. n \/ i = n + 1
    BY <2>1
  <2>3. IsInjective(t)
    OBVIOUS
  <2> HIDE DEF n, t
  <2>4. IsInjective(q) /\ s \notin ToSet(q) /\ ToSet(t) = ToSet(q) \cup {s}
    BY SMTT(30), <2>1, <2>2, <2>3 DEF IsInjective, ToSet
  <2>5. D!Fold(p, Append(q, s)) = Decision(p, did, s)
    BY D!FoldAppend
  <2>6. Decided(b, did, ToSet(q)) /\ Counts(b, did)
    BY <1>3, <2>4
  <2> HIDE DEF did, p
  <2>7. Decided(b, Decision(p, did, s), ToSet(q) \cup {s}) /\ Counts(b, Decision(p, did, s))
    <3>1. CASE s \in DOMAIN bars
      BY <1>0, <1>1, <2>4, <2>6, <3>1, DecidesFor DEF Decision
    <3>2. CASE s \notin DOMAIN bars
      BY <2>6, <3>2 DEF Decision, Decided
    <3> QED
      BY <3>1, <3>2
  <2> QED
    BY <2>4, <2>5, <2>7 DEF t
<1> HIDE DEF Good
<1>4. Seq(Symbols) \subseteq Good
  BY <1>2, <1>3, D!SequenceInduction
<1>5. SymbolOrder \in Good /\ IsInjective(SymbolOrder) /\ ToSet(SymbolOrder) = Symbols
  BY <1>4, EngineAssumption
<1>6. Decided(b, D!Fold(p, SymbolOrder), Symbols) /\ Counts(b, D!Fold(p, SymbolOrder))
  BY <1>5 DEF Good
<1> QED
  BY <1>6, OnBarIsFold DEF p

\* A purchase pays the raw price or more, a sale earns it or less.
LEMMA ExecPrices ==
    ASSUME NEW raw \in Nat
    PROVE  /\ ExecPrice("buy", raw) \in Nat /\ ExecPrice("sell", raw) \in Nat
           /\ ExecPrice("buy", raw) >= raw /\ ExecPrice("sell", raw) <= raw
<1>1. SlipPercent \in Nat /\ 100 - SlipPercent \in Nat /\ SlipPercent <= 100
  BY Parameters
<1>2. raw * SlipPercent \in Nat /\ raw * (100 - SlipPercent) \in Nat
  BY <1>1, Products
<1>3. raw * (100 + SlipPercent) = 100 * raw + raw * SlipPercent
      /\ raw * (100 - SlipPercent) = 100 * raw - raw * SlipPercent
  BY <1>1
<1> DEFINE d == raw * SlipPercent
<1>4. d \in Nat /\ 100 * raw - d \in Nat
  BY <1>2, <1>3
<1> HIDE DEF d
<1>5. (100 * raw + d) \div 100 \in Nat /\ (100 * raw + d) \div 100 >= raw
      /\ (100 * raw - d) \div 100 \in Nat /\ (100 * raw - d) \div 100 <= raw
  BY <1>4
<1> QED
  BY <1>3, <1>5 DEF ExecPrice, d

\* Products of three natural numbers.
LEMMA Triples == \A a, b, c \in Nat : a * b * c \in Nat
OBVIOUS

\* Slippage never is a gain.
LEMMA Slippages ==
    ASSUME NEW raw \in Nat, NEW size \in Nat
    PROVE  SlippageLoss("buy", size, raw) \in Nat /\ SlippageLoss("sell", size, raw) \in Nat
<1>1. ExecPrice("buy", raw) - raw \in Nat /\ raw - ExecPrice("sell", raw) \in Nat
  BY ExecPrices
<1> QED
  BY <1>1, Triples, Parameters DEF SlippageLoss

\* What a purchase leaves.
IsBought(spec, b, s, size, raw, new) ==
    LET turnover == size * ExecPrice("buy", raw) * Mult
        comm == ChargeComm(spec, turnover)
    IN  /\ new \in Broker
        /\ new.cash = b.cash - comm - (IF spec.account_mode = "cash" THEN turnover ELSE 0)
        /\ new.pos_size = [b.pos_size EXCEPT ![s] = b.pos_size[s] + size]
        /\ new.pos_avg = [b.pos_avg EXCEPT ![s] = (b.pos_size[s] * b.pos_avg[s] + size * ExecPrice("buy", raw)) \div (b.pos_size[s] + size)]
        /\ new.entry_comm = [b.entry_comm EXCEPT ![s] = b.entry_comm[s] + comm]
        /\ new.net_pnl = b.net_pnl

\* What the sale of all that is held leaves.
IsSold(spec, b, s, raw, new) ==
    LET size == b.pos_size[s]
        comm == ChargeComm(spec, size * ExecPrice("sell", raw) * Mult)
    IN  /\ new \in Broker
        /\ new.cash = b.cash + Proceeds(spec, b, s, size, raw) - comm
        /\ new.pos_size = [b.pos_size EXCEPT ![s] = 0]
        /\ new.pos_avg = [b.pos_avg EXCEPT ![s] = 0]
        /\ new.entry_comm = [b.entry_comm EXCEPT ![s] = 0]
        /\ new.net_pnl = b.net_pnl + RealizedPnl(b, s, size, raw) - b.entry_comm[s] - comm

\* Bought does what IsBought says.
LEMMA Buys ==
    ASSUME NEW spec \in AccountSpec, NEW b \in Broker, NEW s \in Symbols, NEW size \in Nat, size > 0, NEW raw \in Nat
    PROVE  IsBought(spec, b, s, size, raw, Bought(spec, b, s, size, raw))
<1> DEFINE new == Bought(spec, b, s, size, raw)
           price == ExecPrice("buy", raw)
           turnover == size * price * Mult
           comm == ChargeComm(spec, turnover)
           cash == b.cash - comm - (IF spec.account_mode = "cash" THEN turnover ELSE 0)
           slip == SlippageLoss("buy", size, raw)
           avg == (b.pos_size[s] * b.pos_avg[s] + size * price) \div (b.pos_size[s] + size)
<1>1. /\ b.cash \in Int /\ b.pos_size \in [Symbols -> Nat] /\ b.pos_avg \in [Symbols -> Nat]
      /\ b.entry_comm \in [Symbols -> Nat] /\ b.fee_cum \in Nat /\ b.slip_cum \in Nat /\ b.net_pnl \in Int
  BY DEF Broker
<1>2. price \in Nat
  BY ExecPrices
<1>3. turnover \in Nat
  BY <1>2, Triples, Parameters
<1>4. comm \in Nat
  BY <1>3, Charges
<1>5. slip \in Nat
  BY Slippages
<1>6. avg \in Nat
  <2>1. b.pos_size[s] * b.pos_avg[s] \in Nat /\ size * price \in Nat
    BY <1>1, <1>2, Products
  <2> DEFINE num == b.pos_size[s] * b.pos_avg[s] + size * price
             den == b.pos_size[s] + size
  <2>2. num \in Nat /\ den \in Nat /\ den > 0
    BY <1>1, <2>1
  <2> HIDE DEF num, den
  <2>3. num \div den \in Nat
    BY <2>2
  <2> QED
    BY <2>3 DEF num, den
<1>7. new = [b EXCEPT !.cash = cash, !.pos_size = [b.pos_size EXCEPT ![s] = b.pos_size[s] + size],
                      !.pos_avg = [b.pos_avg EXCEPT ![s] = avg], !.entry_comm = [b.entry_comm EXCEPT ![s] = b.entry_comm[s] + comm],
                      !.fee_cum = b.fee_cum + comm, !.slip_cum = b.slip_cum + slip]
  BY <1>1 DEF Bought, Broker
<1>8. cash \in Int
  BY <1>1, <1>3, <1>4
<1> HIDE DEF cash, slip, avg, comm, turnover, price, new, IsBought
<1>9. /\ [b.pos_size EXCEPT ![s] = b.pos_size[s] + size] \in [Symbols -> Nat]
      /\ [b.pos_avg EXCEPT ![s] = avg] \in [Symbols -> Nat]
      /\ [b.entry_comm EXCEPT ![s] = b.entry_comm[s] + comm] \in [Symbols -> Nat]
  BY <1>1, <1>4, <1>6
<1>10. new = [cash |-> cash, pos_size |-> [b.pos_size EXCEPT ![s] = b.pos_size[s] + size],
             pos_avg |-> [b.pos_avg EXCEPT ![s] = avg], entry_comm |-> [b.entry_comm EXCEPT ![s] = b.entry_comm[s] + comm],
             fee_cum |-> b.fee_cum + comm, slip_cum |-> b.slip_cum + slip, net_pnl |-> b.net_pnl]
  BY <1>7 DEF Broker
<1>11. b.fee_cum + comm \in Nat /\ b.slip_cum + slip \in Nat
  BY <1>1, <1>4, <1>5
<1>12. new \in Broker
  BY <1>1, <1>8, <1>9, <1>10, <1>11 DEF Broker
<1> QED
  BY <1>10, <1>12 DEF cash, slip, avg, comm, turnover, price, new, IsBought

\* Sold, for the whole position, does what IsSold says.
LEMMA Sells ==
    ASSUME NEW spec \in AccountSpec, NEW b \in Broker, NEW s \in Symbols, NEW raw \in Nat
    PROVE  IsSold(spec, b, s, raw, Sold(spec, b, s, b.pos_size[s], raw))
<1> DEFINE size == b.pos_size[s]
           new == Sold(spec, b, s, size, raw)
           comm == ChargeComm(spec, size * ExecPrice("sell", raw) * Mult)
           cash == b.cash + Proceeds(spec, b, s, size, raw) - comm
           slip == SlippageLoss("sell", size, raw)
           pnl == b.net_pnl + RealizedPnl(b, s, size, raw) - b.entry_comm[s] - comm
<1>1. /\ b.cash \in Int /\ b.pos_size \in [Symbols -> Nat] /\ b.pos_avg \in [Symbols -> Nat]
      /\ b.entry_comm \in [Symbols -> Nat] /\ b.fee_cum \in Nat /\ b.slip_cum \in Nat /\ b.net_pnl \in Int
  BY DEF Broker
<1>2. size \in Nat /\ Smaller(size, size) = size
  BY <1>1 DEF Smaller
<1>3. comm \in Nat /\ size * ExecPrice("sell", raw) * Mult \in Nat
  BY <1>2, ExecPrices, Triples, Parameters, Charges
<1>4. slip \in Nat
  BY <1>2, Slippages
<1>5. RealizedPnl(b, s, size, raw) \in Int
  <2>1. ExecPrice("sell", raw) - b.pos_avg[s] \in Int /\ Mult \in Int
    BY <1>1, ExecPrices, Parameters
  <2>2. (ExecPrice("sell", raw) - b.pos_avg[s]) * size \in Int
    BY <1>2, <2>1, IntProducts
  <2> QED
    BY <2>1, <2>2, IntProducts DEF RealizedPnl
<1>6. cash \in Int /\ pnl \in Int
  BY <1>1, <1>3, <1>5 DEF Proceeds
<1>7. new = [b EXCEPT !.cash = cash, !.pos_size = [b.pos_size EXCEPT ![s] = size - size],
                      !.pos_avg = [b.pos_avg EXCEPT ![s] = 0], !.entry_comm = [b.entry_comm EXCEPT ![s] = 0],
                      !.fee_cum = b.fee_cum + comm, !.slip_cum = b.slip_cum + slip, !.net_pnl = pnl]
  BY <1>1, <1>2 DEF Sold, Broker
<1>8. size - size = 0
  BY <1>2
<1> HIDE DEF cash, slip, pnl, comm, size, new
<1>9. /\ [b.pos_size EXCEPT ![s] = 0] \in [Symbols -> Nat]
      /\ [b.pos_avg EXCEPT ![s] = 0] \in [Symbols -> Nat]
      /\ [b.entry_comm EXCEPT ![s] = 0] \in [Symbols -> Nat]
  BY <1>1
<1>10. new = [cash |-> cash, pos_size |-> [b.pos_size EXCEPT ![s] = 0],
              pos_avg |-> [b.pos_avg EXCEPT ![s] = 0], entry_comm |-> [b.entry_comm EXCEPT ![s] = 0],
              fee_cum |-> b.fee_cum + comm, slip_cum |-> b.slip_cum + slip, net_pnl |-> pnl]
  BY <1>7, <1>8 DEF Broker
<1>11. b.fee_cum + comm \in Nat /\ b.slip_cum + slip \in Nat
  BY <1>1, <1>3, <1>4
<1>12. new \in Broker
  BY <1>1, <1>6, <1>9, <1>10, <1>11 DEF Broker
<1> QED
  BY <1>10, <1>12 DEF cash, slip, comm, pnl, size, new, IsSold

-----------------------------------------------------------------------------
(* The inductive invariant of run_simple.                                   *)

OrderEntry == [symbol : Symbols, side : {"buy", "sell"}, qty : Int, submit_dt : Times, exec_dt : Times,
               status : {"Submitted", "Refused", "Filled", "Failed"}]

EngineTypeOK ==
    /\ account \in AccountSpecs /\ calendar \in Calendars
    /\ dt \in 0 .. LastTime /\ phase \in {"next", "execute", "submit"}
    /\ phase # "next" => dt \in Times /\ bars \in [{s \in Symbols : dt \in calendar[s]} -> Bars]
    /\ broker \in Broker
    /\ hist \in [Symbols -> Seq(Bar)]
    /\ new_orders \in Seq(Intents)
    /\ scheduled \in [Times -> Seq(Nat)]
    /\ orders \in Seq(OrderEntry)

\* The orders accepted and not yet executed.
Waiting == {id \in DOMAIN orders : orders[id].status = "Submitted"}

\* An order waits for the next bar of its symbol, and what it was decided on has not changed.
Pending(o) ==
    /\ o.exec_dt \in calendar[o.symbol]
    /\ o.submit_dt <= dt /\ dt <= o.exec_dt
    /\ IF phase = "execute" THEN o.submit_dt < dt ELSE dt < o.exec_dt
    /\ \A t \in calendar[o.symbol] : ~(o.submit_dt < t /\ t < o.exec_dt)
    /\ o.side = "sell" => broker.pos_size[o.symbol] > 0 /\ o.qty = broker.pos_size[o.symbol]
    /\ o.side = "buy" => ~(broker.pos_size[o.symbol] > 0) /\ o.qty > 0

QueueOK(t) ==
    /\ \A i \in DOMAIN scheduled[t] : scheduled[t][i] \in Waiting /\ orders[scheduled[t][i]].exec_dt = t
    /\ \A i, j \in DOMAIN scheduled[t] : scheduled[t][i] = scheduled[t][j] => i = j

Queued(id) == \E i \in DOMAIN scheduled[orders[id].exec_dt] : scheduled[orders[id].exec_dt][i] = id

WaitingOK ==
    /\ \A t \in Times : QueueOK(t)
    /\ \A id \in Waiting : Pending(orders[id]) /\ Queued(id)
    /\ \A i, j \in Waiting : orders[i].symbol = orders[j].symbol => i = j

NewOrdersOK ==
    /\ phase # "submit" => new_orders = <<>>
    /\ \A i \in DOMAIN new_orders :
         /\ Sensible(broker, new_orders[i])
         /\ \A id \in Waiting : orders[id].symbol # new_orders[i].symbol
    /\ \A i, j \in DOMAIN new_orders : new_orders[i].symbol = new_orders[j].symbol => i = j

\* The symbols with a position, or an order for one under way.
Claimed == Entered(broker, new_orders) \cup {s \in Symbols : \E id \in Waiting : orders[id].symbol = s /\ orders[id].side = "buy"}

Aligned == \A s, u \in Symbols : calendar[s] = calendar[u]

SlotsOK == Aligned => Cardinality(Claimed) <= MaxPositions

EngineInv == EngineTypeOK /\ WaitingOK /\ NewOrdersOK /\ SlotsOK /\ AcceptedIsFilled

\* The fields of an order of the ledger.
LEMMA OrdersKnown == ASSUME EngineTypeOK, NEW id \in DOMAIN orders
    PROVE  /\ orders[id] \in OrderEntry /\ orders[id].symbol \in Symbols /\ orders[id].side \in {"buy", "sell"}
           /\ orders[id].qty \in Int /\ orders[id].submit_dt \in Nat /\ orders[id].exec_dt \in Nat /\ orders[id].exec_dt \in Times
<1> DEFINE o == orders[id]
<1>1. o \in OrderEntry
  BY DEF EngineTypeOK
<1> HIDE DEF o
<1>2. o \in OrderEntry /\ o.symbol \in Symbols /\ o.side \in {"buy", "sell"}
      /\ o.qty \in Int /\ o.submit_dt \in Nat /\ o.exec_dt \in Nat /\ o.exec_dt \in Times
  BY <1>1 DEF OrderEntry, Times
<1> QED
  BY <1>2 DEF o

\* Fewer symbols claimed are no more positions.
LEMMA ClaimsShrink ==
    ASSUME SlotsOK, calendar' = calendar, Claimed' \subseteq Claimed
    PROVE  SlotsOK'
<1>1. IsFiniteSet(Claimed)
  BY SymbolsFinite, FS_Subset DEF Claimed, Entered
<1>2. Cardinality(Claimed') <= Cardinality(Claimed) /\ Cardinality(Claimed) \in Nat /\ Cardinality(Claimed') \in Nat
  BY <1>1, FS_Subset, FS_CardinalityType
<1>3. MaxPositions \in Nat
  BY Parameters
<1>4. Aligned' <=> Aligned
  BY DEF Aligned
<1> HIDE DEF Claimed
<1> QED
  BY <1>2, <1>3, <1>4 DEF SlotsOK

\* The invariant holds at the start.
LEMMA InitEngine == Init => EngineInv
<1> SUFFICES ASSUME Init PROVE EngineInv
  OBVIOUS
<1> USE DEF Init
<1>1. broker \in Broker
  BY Parameters DEF NewBroker, Broker
<1>2. EngineTypeOK
  BY <1>1, Parameters DEF EngineTypeOK
<1>3. Waiting = {} /\ Claimed = {}
  <2>1. \A s \in Symbols : ~(broker.pos_size[s] > 0)
    BY DEF NewBroker
  <2> QED
    BY <2>1 DEF Waiting, Claimed, Entered
<1>4. Cardinality(Claimed) = 0
  BY <1>3, FS_EmptySet
<1>5. WaitingOK /\ NewOrdersOK /\ AcceptedIsFilled
  BY <1>3 DEF WaitingOK, NewOrdersOK, AcceptedIsFilled, QueueOK
<1> QED
  BY <1>2, <1>4, <1>5, Parameters DEF EngineInv, SlotsOK

\* The next bar keeps the invariant: an order waits until its bar, not past it.
LEMMA NextBarEngine == EngineInv /\ NextBar => EngineInv'
<1> SUFFICES ASSUME EngineInv, NextBar PROVE EngineInv'
  OBVIOUS
<1> USE DEF EngineInv
<1>1. /\ phase = "next" /\ phase' = "execute" /\ dt \in Nat /\ dt < LastTime /\ dt' = dt + 1 /\ LastTime \in Nat
      /\ UNCHANGED <<account, calendar, broker, hist, new_orders, scheduled, orders>>
      /\ bars' \in [{s \in Symbols : dt + 1 \in calendar[s]} -> Bars]
  BY Parameters DEF NextBar, EngineTypeOK, strategy, ledger
<1>2. EngineTypeOK'
  BY <1>1 DEF EngineTypeOK, Times
<1>3. Waiting' = Waiting /\ Claimed' = Claimed /\ new_orders = <<>>
  BY <1>1 DEF Waiting, Claimed, Entered, NewOrdersOK
<1>4. \A id \in Waiting : orders[id] \in OrderEntry
  BY DEF EngineTypeOK, Waiting
<1>5. ASSUME NEW id \in Waiting PROVE Pending(orders[id])'
  <2> DEFINE o == orders[id]
  <2>1. o \in OrderEntry /\ Pending(o)
    BY <1>4 DEF WaitingOK
  <2>2. o.submit_dt \in Nat /\ o.exec_dt \in Nat
    BY <2>1 DEF OrderEntry, Times
  <2> HIDE DEF o
  <2>3. Pending(o)'
    <3>1. o' = o
      BY <1>1 DEF o
    <3> QED
      BY <1>1, <2>1, <2>2, <3>1 DEF Pending
  <2> QED
    BY <2>3 DEF o
<1>6. WaitingOK'
  BY <1>1, <1>3, <1>5 DEF WaitingOK, QueueOK, Queued
<1>7. NewOrdersOK' /\ AcceptedIsFilled'
  BY <1>1, <1>3 DEF NewOrdersOK, AcceptedIsFilled
<1>8. SlotsOK'
  BY <1>1, <1>3, ClaimsShrink
<1> QED
  BY <1>2, <1>6, <1>7, <1>8

\* A snapshot keeps the invariant.
LEMMA SnapshotEngine == EngineInv /\ Snapshot => EngineInv'
<1> SUFFICES ASSUME EngineInv, Snapshot PROVE EngineInv'
  OBVIOUS
<1> USE DEF EngineInv
<1>1. /\ phase = "submit" /\ phase' = "next" /\ new_orders = <<>>
      /\ UNCHANGED <<account, calendar, dt, bars, broker, hist, new_orders, scheduled, orders>>
  BY DEF Snapshot, strategy
<1>2. EngineTypeOK'
  BY <1>1 DEF EngineTypeOK
<1>3. Waiting' = Waiting /\ Claimed' = Claimed
  BY <1>1 DEF Waiting, Claimed, Entered
<1>4. \A id \in Waiting : Pending(orders[id])'
  BY <1>1 DEF WaitingOK, Pending
<1>5. WaitingOK'
  BY <1>1, <1>3, <1>4 DEF WaitingOK, QueueOK, Queued
<1>6. NewOrdersOK' /\ AcceptedIsFilled'
  BY <1>1 DEF NewOrdersOK, AcceptedIsFilled
<1>7. SlotsOK'
  BY <1>1, <1>3, ClaimsShrink
<1> QED
  BY <1>2, <1>5, <1>6, <1>7

\* When the strategy decides, no order waits for a symbol that has a bar.
LEMMA NoneWaitsAtItsBar ==
    ASSUME EngineInv, phase = "execute", scheduled[dt] = <<>>, NEW id \in Waiting
    PROVE  dt \notin calendar[orders[id].symbol]
<1> DEFINE o == orders[id]
<1>1. o \in OrderEntry /\ Pending(o) /\ Queued(id)
  BY DEF EngineInv, EngineTypeOK, WaitingOK, Waiting
<1>2. SUFFICES ASSUME dt \in calendar[o.symbol] PROVE FALSE
  OBVIOUS
<1>3. o.submit_dt \in Nat /\ o.exec_dt \in Nat /\ dt \in Nat
  <2>1. dt \in 0 .. LastTime /\ LastTime \in Nat
    BY Parameters DEF EngineInv, EngineTypeOK
  <2> HIDE DEF o
  <2> QED
    BY <1>1, <2>1 DEF OrderEntry, Times
<1>4. dt = o.exec_dt
  <2> HIDE DEF o
  <2> QED
    BY <1>1, <1>2, <1>3 DEF Pending
<1> QED
  BY <1>1, <1>4 DEF Queued

\* The decisions of a bar keep the invariant: they are about symbols with no order under way.
LEMMA DecideEngine == EngineInv /\ Decide => EngineInv'
<1> SUFFICES ASSUME EngineInv, Decide PROVE EngineInv'
  OBVIOUS
<1> USE DEF EngineInv
<1> DEFINE h == [s \in Symbols |-> IF s \in DOMAIN bars THEN Append(hist[s], bars[s]) ELSE hist[s]]
           did == OnBar(broker, h)
<1>1. /\ phase = "execute" /\ phase' = "submit" /\ scheduled[dt] = <<>> /\ hist' = h /\ new_orders' = did.orders
      /\ UNCHANGED <<account, calendar, dt, bars, broker, scheduled, orders>>
  BY DEF Decide, ledger
<1>2. bars \in [{s \in Symbols : dt \in calendar[s]} -> Bars] /\ dt \in Times /\ account \in AccountSpec /\ broker \in Broker
  BY <1>1, EngineAssumption DEF EngineTypeOK
<1>3. \A s \in DOMAIN bars : s \in Symbols /\ bars[s] \in Bar /\ bars[s].close \in Nat
  BY <1>2, EngineAssumption DEF Bar
<1>4. h \in [Symbols -> Seq(Bar)]
  BY <1>3 DEF EngineTypeOK
<1> HIDE DEF h
<1>5. Decided(broker, did, Symbols) /\ Counts(broker, did)
  BY <1>2, <1>3, <1>4, OnBarDecides
<1> HIDE DEF did
<1>6. EngineTypeOK'
  BY <1>1, <1>2, <1>4, <1>5 DEF EngineTypeOK, Decided, IsDid
<1>7. Waiting' = Waiting
  BY <1>1 DEF Waiting
<1>8. \A id \in Waiting : dt \notin calendar[orders[id].symbol]
  BY <1>1, NoneWaitsAtItsBar
<1>9. \A id \in Waiting : Pending(orders[id])'
  <2> SUFFICES ASSUME NEW id \in Waiting PROVE Pending(orders[id])'
    OBVIOUS
  <2> DEFINE o == orders[id]
  <2>1. o \in OrderEntry /\ Pending(o) /\ dt \notin calendar[o.symbol]
    BY <1>8 DEF WaitingOK, EngineTypeOK, Waiting
  <2>2. o.exec_dt \in Nat /\ dt \in Nat /\ o' = o
    BY <1>1, <1>2, <2>1 DEF OrderEntry, Times
  <2> HIDE DEF o
  <2>3. Pending(o)'
    BY <1>1, <2>1, <2>2 DEF Pending
  <2> QED
    BY <2>3 DEF o
<1>10. WaitingOK'
  BY <1>1, <1>7, <1>9 DEF WaitingOK, QueueOK, Queued
<1>11. NewOrdersOK'
  <2>1. (\A i \in DOMAIN new_orders : Sensible(broker, new_orders[i]))'
    BY <1>1, <1>5 DEF Decided, Sensible
  <2>2. \A i \in DOMAIN new_orders' : new_orders'[i].symbol \in DOMAIN bars
    BY <1>1, <1>5 DEF Decided, Sensible
  <2>3. \A s \in DOMAIN bars : \A id \in Waiting : orders[id].symbol # s
    BY <1>2, <1>8
  <2>4. \A i, j \in DOMAIN new_orders' : new_orders'[i].symbol = new_orders'[j].symbol => i = j
    BY <1>1, <1>5 DEF Decided
  <2> QED
    BY <1>1, <1>7, <2>1, <2>2, <2>3, <2>4 DEF NewOrdersOK
<1>12. SlotsOK'
  <2> SUFFICES ASSUME Aligned PROVE Cardinality(Claimed') <= MaxPositions
    BY <1>1 DEF SlotsOK, Aligned
  <2>1. \A s \in Symbols : dt \in calendar[s]
    <3>1. UNION {calendar[s] : s \in Symbols} = Times
      BY EngineAssumption DEF EngineTypeOK
    <3> QED
      BY <1>2, <3>1 DEF Aligned
  <2>2. Waiting = {}
    <3>1. \A id \in Waiting : orders[id].symbol \in Symbols
      BY OrdersKnown DEF Waiting
    <3> QED
      BY <1>8, <2>1, <3>1
  <2>3. Claimed' = Entered(broker, did.orders)
    BY <1>1, <1>7, <2>2 DEF Claimed, Entered
  <2>4. OpenPositionsCount(broker) <= MaxPositions
    <3>1. IsFiniteSet(Claimed)
      BY SymbolsFinite, FS_Subset DEF Claimed, Entered
    <3>2. {s \in Symbols : broker.pos_size[s] > 0} \subseteq Claimed
      BY DEF Claimed, Entered
    <3>3. OpenPositionsCount(broker) <= Cardinality(Claimed) /\ Cardinality(Claimed) \in Nat /\ OpenPositionsCount(broker) \in Nat
      BY <3>1, <3>2, FS_Subset, FS_CardinalityType DEF OpenPositionsCount
    <3>4. Cardinality(Claimed) <= MaxPositions
      BY DEF SlotsOK
    <3> QED
      BY <3>3, <3>4, Parameters
  <2> QED
    BY <1>5, <2>3, <2>4 DEF Counts
<1> QED
  BY <1>1, <1>6, <1>10, <1>11, <1>12 DEF AcceptedIsFilled

\* Submission keeps the invariant: an accepted order is queued for the next bar of its symbol.
LEMMA SubmitEngine == EngineInv /\ Submit => EngineInv'
<1> SUFFICES ASSUME EngineInv, Submit PROVE EngineInv'
  OBVIOUS
<1> USE DEF EngineInv
<1> DEFINE od == Head(new_orders)
           s == od.symbol
           rest == Tail(new_orders)
           n == Len(orders)
<1>1. /\ phase = "submit" /\ new_orders # <<>> /\ new_orders' = rest
      /\ UNCHANGED <<account, calendar, dt, phase, bars, broker, hist>>
  BY DEF Submit, strategy
<1>2. /\ od \in Intents /\ od = new_orders[1] /\ 1 \in DOMAIN new_orders /\ rest \in Seq(Intents)
      /\ \A i \in DOMAIN rest : i + 1 \in DOMAIN new_orders /\ rest[i] = new_orders[i + 1] /\ i \in Nat /\ i >= 1
  BY <1>1 DEF EngineTypeOK
<1>3. s \in Symbols /\ s \in DOMAIN bars /\ od.side \in {"buy", "sell"} /\ od.size \in Int /\ Sensible(broker, od)
  BY <1>2 DEF Intents, NewOrdersOK, Sensible
<1>4. dt \in Times /\ dt \in Nat /\ calendar[s] \subseteq Times /\ calendar \in Calendars
  BY <1>1, <1>3, EngineAssumption DEF EngineTypeOK, Times
<1>5. \A id \in Waiting : orders[id].symbol # s
  BY <1>2 DEF NewOrdersOK
<1>6. n \in Nat /\ DOMAIN orders = 1 .. n
  BY DEF EngineTypeOK
<1>7. \A i \in DOMAIN rest : rest[i].symbol # s
  <2> SUFFICES ASSUME NEW i \in DOMAIN rest PROVE rest[i].symbol # s
    OBVIOUS
  <2>1. i + 1 \in DOMAIN new_orders /\ rest[i] = new_orders[i + 1] /\ i + 1 # 1
    BY <1>2
  <2>2. \A k, j \in DOMAIN new_orders : new_orders[k].symbol = new_orders[j].symbol => k = j
    BY DEF NewOrdersOK
  <2> HIDE DEF od, rest
  <2> QED
    BY <1>2, <2>1, <2>2
<1>8. \A i \in DOMAIN rest : /\ Sensible(broker, rest[i])
                             /\ \A id \in Waiting : orders[id].symbol # rest[i].symbol
  BY <1>2 DEF NewOrdersOK
<1>9. \A i, j \in DOMAIN rest : rest[i].symbol = rest[j].symbol => i = j
  <2> SUFFICES ASSUME NEW i \in DOMAIN rest, NEW j \in DOMAIN rest, rest[i].symbol = rest[j].symbol PROVE i = j
    OBVIOUS
  <2>1. i + 1 = j + 1
    <3> HIDE DEF rest
    <3> QED
      BY <1>2 DEF NewOrdersOK
  <2> QED
    BY <1>2, <2>1
<1>10. Entered(broker, rest) \subseteq Entered(broker, new_orders)
  BY <1>2 DEF Entered
<1>11. CASE UNCHANGED <<orders, scheduled>>
  <2>1. EngineTypeOK'
    BY <1>1, <1>2, <1>11 DEF EngineTypeOK
  <2>2. Waiting' = Waiting
    BY <1>11 DEF Waiting
  <2>3. WaitingOK'
    BY <1>1, <1>11, <2>2 DEF WaitingOK, QueueOK, Queued, Pending
  <2>4. NewOrdersOK'
    BY <1>1, <1>8, <1>9, <1>11, <2>2 DEF NewOrdersOK, Sensible
  <2>5. Claimed' \subseteq Claimed
    BY <1>1, <1>10, <1>11, <2>2 DEF Claimed, Entered
  <2>6. SlotsOK'
    BY <1>1, <2>5, ClaimsShrink
  <2> QED
    BY <1>11, <2>1, <2>3, <2>4, <2>6 DEF AcceptedIsFilled
<1>12. ASSUME NEW t \in NextBarOf(s), NEW entry, NEW ok \in BOOLEAN,
              entry = [symbol |-> s, side |-> od.side, qty |-> od.size, submit_dt |-> dt, exec_dt |-> t,
                       status |-> IF ok THEN "Submitted" ELSE "Refused"],
              orders' = Append(orders, entry),
              scheduled' = IF ok THEN [scheduled EXCEPT ![t] = Append(@, n + 1)] ELSE scheduled
       PROVE  EngineInv'
  <2>1. t \in calendar[s] /\ t \in Times /\ t \in Nat /\ t > dt /\ \A u \in calendar[s] : u > dt => t <= u
    BY <1>4, <1>12 DEF NextBarOf, Times
  <2>2. entry \in OrderEntry
    BY <1>3, <1>4, <1>12, <2>1 DEF OrderEntry
  <2>3. entry.symbol = s /\ entry.side = od.side /\ entry.qty = od.size /\ entry.submit_dt = dt /\ entry.exec_dt = t
        /\ entry.status = (IF ok THEN "Submitted" ELSE "Refused")
    BY <1>12
  <2>4. DOMAIN orders' = 1 .. n + 1 /\ orders'[n + 1] = entry /\ \A i \in 1 .. n : orders'[i] = orders[i]
    BY <1>6, <1>12, <2>2 DEF EngineTypeOK
  <2>5. EngineTypeOK'
    BY <1>1, <1>2, <1>6, <1>12, <2>1, <2>2 DEF EngineTypeOK
  <2> HIDE DEF od, s, rest, n
  <2>6. \A i \in 1 .. n + 1 : i \in 1 .. n \/ i = n + 1
    BY <1>6
  <2>7. \A i \in 1 .. n : i \in 1 .. n + 1 /\ i # n + 1
    BY <1>6
  <2>8. Waiting' = (IF ok THEN Waiting \cup {n + 1} ELSE Waiting) /\ n + 1 \notin Waiting
    BY <1>6, <2>3, <2>4, <2>6, <2>7 DEF Waiting
  <2>9. \A id \in Waiting : orders'[id] = orders[id] /\ id # n + 1
    BY <1>6, <2>4, <2>7 DEF Waiting
  <2>10. \A u \in Times : scheduled'[u] = IF ok /\ u = t THEN Append(scheduled[u], n + 1) ELSE scheduled[u]
    BY <1>12 DEF EngineTypeOK
  <2>11. \A u \in Times : QueueOK(u)'
    <3> SUFFICES ASSUME NEW u \in Times PROVE QueueOK(u)'
      OBVIOUS
    <3> DEFINE old == scheduled[u]
               m == Len(old)
    <3>1. old \in Seq(Nat) /\ m \in Nat /\ DOMAIN old = 1 .. m
      BY DEF EngineTypeOK
    <3>2. /\ \A i \in 1 .. m : old[i] \in Waiting /\ orders[old[i]].exec_dt = u
          /\ \A i, j \in 1 .. m : old[i] = old[j] => i = j
      BY <3>1 DEF WaitingOK, QueueOK
    <3>3. CASE ok /\ u = t
      <4> DEFINE new == scheduled'[u]
      <4>1. new = Append(old, n + 1)
        BY <2>10, <3>3
      <4> HIDE DEF new, old
      <4>2. DOMAIN new = 1 .. m + 1 /\ new[m + 1] = n + 1 /\ \A i \in 1 .. m : new[i] = old[i]
        BY <1>6, <3>1, <4>1
      <4> HIDE DEF m
      <4>3. \A i \in 1 .. m + 1 : i \in 1 .. m \/ i = m + 1
        BY <3>1
      <4>4. /\ \A i \in DOMAIN new : new[i] \in Waiting' /\ orders'[new[i]].exec_dt = u
            /\ \A i, j \in DOMAIN new : new[i] = new[j] => i = j
        BY <2>3, <2>4, <2>8, <2>9, <3>2, <3>3, <4>2, <4>3
      <4> QED
        BY <4>4 DEF QueueOK, new
    <3>4. CASE ~(ok /\ u = t)
      <4>1. scheduled'[u] = old
        BY <2>10, <3>4
      <4>2. \A id \in Waiting : id \in Waiting' /\ orders'[id].exec_dt = orders[id].exec_dt
        BY <2>8, <2>9
      <4> HIDE DEF old, m
      <4> QED
        BY <3>1, <3>2, <4>1, <4>2 DEF QueueOK
    <3> QED
      BY <3>3, <3>4
  <2>12. ASSUME NEW id \in Waiting PROVE Pending(orders[id])' /\ Queued(id)'
    <3>1. Pending(orders[id])' /\ orders'[id] = orders[id]
      BY <1>1, <2>9 DEF WaitingOK, Pending
    <3>2. PICK i \in DOMAIN scheduled[orders[id].exec_dt] : scheduled[orders[id].exec_dt][i] = id
      BY DEF WaitingOK, Queued
    <3> DEFINE u == orders[id].exec_dt
               old == scheduled[u]
    <3>3. u \in Times /\ old \in Seq(Nat)
      BY OrdersKnown DEF Waiting, EngineTypeOK
    <3>4. i \in DOMAIN scheduled'[u] /\ scheduled'[u][i] = id
      <4>1. i \in DOMAIN Append(old, n + 1) /\ Append(old, n + 1)[i] = old[i]
        BY <1>6, <3>2, <3>3
      <4>2. old[i] = id
        BY <3>2
      <4> QED
        BY <2>10, <3>2, <3>3, <4>1, <4>2
    <3> QED
      BY <3>1, <3>4 DEF Queued
  <2>13. ASSUME ok, NEW k \in Waiting', k = n + 1 PROVE Pending(orders[k])' /\ Queued(k)'
    <3>1. Pending(orders[k])'
      <4>1. dt <= t /\ dt < t /\ dt <= dt /\ \A u \in calendar[s] : ~(dt < u /\ u < t)
        <5>1. \A u \in calendar[s] : u \in Nat
          BY <1>4 DEF Times
        <5> QED
          BY <1>4, <2>1, <5>1
      <4>2. /\ od.side = "sell" => broker.pos_size[s] > 0 /\ od.size = broker.pos_size[s]
            /\ od.side = "buy" => ~(broker.pos_size[s] > 0) /\ od.size > 0
        BY <1>3 DEF Sensible, s
      <4>3. orders'[k] = entry
        BY <2>4, <2>13
      <4> QED
        BY <1>1, <2>1, <2>3, <4>1, <4>2, <4>3 DEF Pending
    <3>2. Queued(k)'
      <4> DEFINE old == scheduled[t]
                 m == Len(old)
      <4>1. old \in Seq(Nat)
        BY <2>1 DEF EngineTypeOK
      <4>2. m + 1 \in DOMAIN Append(old, n + 1) /\ Append(old, n + 1)[m + 1] = n + 1
        BY <1>6, <4>1
      <4>3. scheduled'[t] = Append(old, n + 1)
        BY <2>1, <2>10, <2>13
      <4>4. orders'[k].exec_dt = t
        BY <2>3, <2>4, <2>13
      <4> QED
        BY <2>13, <4>2, <4>3, <4>4 DEF Queued
    <3> QED
      BY <3>1, <3>2
  <2>14. \A i, j \in Waiting' : orders'[i].symbol = orders'[j].symbol => i = j
    BY <1>5, <2>3, <2>4, <2>8, <2>9 DEF WaitingOK
  <2>18. \A id \in Waiting' : Pending(orders[id])' /\ Queued(id)'
    <3> SUFFICES ASSUME NEW id \in Waiting' PROVE Pending(orders[id])' /\ Queued(id)'
      OBVIOUS
    <3>1. id \in Waiting \/ (ok /\ id = n + 1)
      BY <2>8
    <3> QED
      BY <2>12, <2>13, <3>1
  <2>15. WaitingOK'
    BY <2>8, <2>11, <2>14, <2>18 DEF WaitingOK
  <2>16. NewOrdersOK'
    <3>1. \A i \in DOMAIN rest : \A id \in Waiting' : orders'[id].symbol # rest[i].symbol
      BY <1>7, <1>8, <2>3, <2>4, <2>8, <2>9
    <3> QED
      BY <1>1, <1>8, <1>9, <3>1 DEF NewOrdersOK, Sensible
  <2>17. SlotsOK'
    <3>1. s \in Entered(broker, new_orders) \/ od.side # "buy"
      BY <1>2, <1>3 DEF Entered, s
    <3>2. \A x \in Symbols : (\E id \in Waiting' : orders'[id].symbol = x /\ orders'[id].side = "buy")
                => (\E id \in Waiting : orders[id].symbol = x /\ orders[id].side = "buy") \/ (x = s /\ od.side = "buy")
      BY <2>3, <2>4, <2>8, <2>9
    <3>3. Claimed' = Entered(broker, rest) \cup {x \in Symbols : \E id \in Waiting' : orders'[id].symbol = x /\ orders'[id].side = "buy"}
      BY <1>1 DEF Claimed, Entered
    <3>4. Claimed' \subseteq Claimed
      BY <1>10, <3>1, <3>2, <3>3 DEF Claimed
    <3> QED
      BY <1>1, <3>4, ClaimsShrink
  <2>19. AcceptedIsFilled'
    BY <1>6, <2>3, <2>4, <2>6 DEF AcceptedIsFilled
  <2> QED
    BY <2>5, <2>15, <2>16, <2>17, <2>19
<1> QED
  <2> DEFINE ok == Accepted(account, broker, s, od.side, od.size, bars[s].close, last_close)
             entry(t) == [symbol |-> s, side |-> od.side, qty |-> od.size, submit_dt |-> dt, exec_dt |-> t,
                          status |-> IF ok THEN "Submitted" ELSE "Refused"]
  <2>1. \/ UNCHANGED <<orders, scheduled>>
        \/ \E t \in NextBarOf(s) :
             /\ orders' = Append(orders, entry(t))
             /\ scheduled' = IF ok THEN [scheduled EXCEPT ![t] = Append(@, Len(orders) + 1)] ELSE scheduled
    BY DEF Submit
  <2>2. ok \in BOOLEAN
    BY DEF Accepted
  <2> HIDE DEF ok
  <2> QED
    BY <1>11, <1>12, <2>1, <2>2

\* The order at the head of the queue is one that waits, and it can be filled.
LEMMA HeadOfQueue ==
    ASSUME EngineInv, phase = "execute", scheduled[dt] # <<>>
    PROVE  \E id \in Waiting : \E s \in Symbols :
             /\ id = Head(scheduled[dt]) /\ s = orders[id].symbol /\ dt \in Times
             /\ s \in DOMAIN bars /\ bars[s] \in Bar
             /\ orders[id].side = "sell" => broker.pos_size[s] > 0 /\ orders[id].qty = broker.pos_size[s]
             /\ orders[id].side = "buy" => broker.pos_size[s] = 0 /\ orders[id].qty \in Nat /\ orders[id].qty > 0
<1> USE DEF EngineInv
<1>1. dt \in Times /\ bars \in [{s \in Symbols : dt \in calendar[s]} -> Bars]
  BY DEF EngineTypeOK
<1> DEFINE id == Head(scheduled[dt])
           o == orders[id]
<1>2. scheduled[dt] \in Seq(Nat)
  BY <1>1 DEF EngineTypeOK
<1>3. 1 \in DOMAIN scheduled[dt] /\ id = scheduled[dt][1]
  BY <1>2
<1> HIDE DEF id
<1>4. id \in Waiting /\ o.exec_dt = dt /\ Pending(o)
  BY <1>1, <1>3 DEF WaitingOK, QueueOK
<1>5. o.symbol \in Symbols /\ o.qty \in Int
  BY <1>4, OrdersKnown DEF Waiting
<1> HIDE DEF o
<1>6. o.symbol \in DOMAIN bars /\ bars[o.symbol] \in Bar
  BY <1>1, <1>4, <1>5, EngineAssumption DEF Pending
<1>7. broker.pos_size[o.symbol] \in Nat
  BY <1>5 DEF EngineTypeOK, Broker
<1> QED
  BY <1>1, <1>4, <1>5, <1>6, <1>7 DEF Pending, o, id

\* What Execute does to the broker and the ledger.
LEMMA Executed ==
    ASSUME EngineInv, Execute
    PROVE  \E id \in Waiting : \E s \in Symbols : \E raw \in Nat :
             /\ id = Head(scheduled[dt]) /\ s = orders[id].symbol /\ dt \in Times /\ raw = bars[s].open
             /\ \/ /\ orders[id].side = "buy" /\ broker.pos_size[s] = 0
                   /\ orders[id].qty \in Nat /\ orders[id].qty > 0
                   /\ broker' = Bought(account, broker, s, orders[id].qty, raw)
                \/ /\ orders[id].side = "sell" /\ broker.pos_size[s] > 0 /\ orders[id].qty = broker.pos_size[s]
                   /\ broker' = Sold(account, broker, s, broker.pos_size[s], raw)
             /\ fills' = Append(fills, FillOf(id, orders[id].qty))
             /\ orders' = [orders EXCEPT ![id].status = "Filled"]
<1>1. phase = "execute" /\ scheduled[dt] # <<>>
  BY DEF Execute
<1>2. PICK id \in Waiting : \E x \in Symbols :
             /\ id = Head(scheduled[dt]) /\ x = orders[id].symbol /\ dt \in Times
             /\ x \in DOMAIN bars /\ bars[x] \in Bar
             /\ orders[id].side = "sell" => broker.pos_size[x] > 0 /\ orders[id].qty = broker.pos_size[x]
             /\ orders[id].side = "buy" => broker.pos_size[x] = 0 /\ orders[id].qty \in Nat /\ orders[id].qty > 0
  BY <1>1, HeadOfQueue
<1> DEFINE s == orders[id].symbol
           no_position == orders[id].side = "sell" /\ broker.pos_size[s] = 0
           size == IF orders[id].side = "buy" THEN orders[id].qty ELSE Smaller(broker.pos_size[s], orders[id].qty)
<1>3. /\ s \in Symbols /\ dt \in Times /\ bars[s].open \in Nat
      /\ orders[id].side = "sell" => broker.pos_size[s] > 0 /\ orders[id].qty = broker.pos_size[s]
      /\ orders[id].side = "buy" => broker.pos_size[s] = 0 /\ orders[id].qty \in Nat /\ orders[id].qty > 0
  BY <1>2 DEF Bar
<1>4. orders[id].side \in {"buy", "sell"}
  BY OrdersKnown DEF EngineInv, Waiting
<1>5. /\ broker' = IF no_position THEN broker
                   ELSE IF orders[id].side = "buy" THEN Bought(account, broker, s, orders[id].qty, bars[s].open)
                   ELSE Sold(account, broker, s, orders[id].qty, bars[s].open)
      /\ fills' = IF no_position THEN fills ELSE Append(fills, FillOf(id, size))
      /\ orders' = [orders EXCEPT ![id].status = IF no_position THEN "Failed" ELSE "Filled"]
  BY <1>2 DEF Execute
<1>6. ~no_position
  BY <1>3
<1>7. size = orders[id].qty
  BY <1>3, <1>4 DEF Smaller
<1>8. /\ \/ /\ orders[id].side = "buy" /\ broker.pos_size[s] = 0
            /\ orders[id].qty \in Nat /\ orders[id].qty > 0
            /\ broker' = Bought(account, broker, s, orders[id].qty, bars[s].open)
         \/ /\ orders[id].side = "sell" /\ broker.pos_size[s] > 0 /\ orders[id].qty = broker.pos_size[s]
            /\ broker' = Sold(account, broker, s, broker.pos_size[s], bars[s].open)
      /\ fills' = Append(fills, FillOf(id, orders[id].qty))
      /\ orders' = [orders EXCEPT ![id].status = "Filled"]
  <2> HIDE DEF s, no_position, size
  <2> QED
    BY <1>3, <1>4, <1>5, <1>6, <1>7
<1>9. id = Head(scheduled[dt]) /\ s = orders[id].symbol
  BY <1>2
<1> HIDE DEF s, no_position, size
<1> QED
  BY <1>3, <1>8, <1>9

\* Execution keeps the invariant: the order leaves the queue and becomes the position it was counted as.
LEMMA ExecuteEngine == EngineInv /\ Execute => EngineInv'
<1> SUFFICES ASSUME EngineInv, Execute PROVE EngineInv'
  OBVIOUS
<1> USE DEF EngineInv
<1>1. PICK id \in Waiting : \E x \in Symbols : \E raw \in Nat :
             /\ id = Head(scheduled[dt]) /\ x = orders[id].symbol /\ dt \in Times /\ raw = bars[x].open
             /\ \/ /\ orders[id].side = "buy" /\ broker.pos_size[x] = 0
                   /\ orders[id].qty \in Nat /\ orders[id].qty > 0
                   /\ broker' = Bought(account, broker, x, orders[id].qty, raw)
                \/ /\ orders[id].side = "sell" /\ broker.pos_size[x] > 0 /\ orders[id].qty = broker.pos_size[x]
                   /\ broker' = Sold(account, broker, x, broker.pos_size[x], raw)
             /\ fills' = Append(fills, FillOf(id, orders[id].qty))
             /\ orders' = [orders EXCEPT ![id].status = "Filled"]
  BY Executed
<1> DEFINE s == orders[id].symbol
<1>2. PICK raw \in Nat :
             /\ id = Head(scheduled[dt]) /\ s \in Symbols /\ dt \in Times
             /\ \/ /\ orders[id].side = "buy" /\ broker.pos_size[s] = 0
                   /\ orders[id].qty \in Nat /\ orders[id].qty > 0
                   /\ broker' = Bought(account, broker, s, orders[id].qty, raw)
                \/ /\ orders[id].side = "sell" /\ broker.pos_size[s] > 0 /\ orders[id].qty = broker.pos_size[s]
                   /\ broker' = Sold(account, broker, s, broker.pos_size[s], raw)
             /\ orders' = [orders EXCEPT ![id].status = "Filled"]
  BY <1>1
<1>3. /\ phase = "execute" /\ scheduled[dt] # <<>> /\ scheduled' = [scheduled EXCEPT ![dt] = Tail(@)]
      /\ UNCHANGED <<account, calendar, dt, phase, bars, hist, new_orders>>
  BY DEF Execute, strategy
<1>4. account \in AccountSpec /\ broker \in Broker /\ broker.pos_size \in [Symbols -> Nat]
  BY EngineAssumption DEF EngineTypeOK, Broker
<1>5. /\ broker' \in Broker
      /\ \A x \in Symbols \ {s} : broker'.pos_size[x] = broker.pos_size[x]
      /\ broker'.pos_size[s] > 0 => orders[id].side = "buy"
  <2>1. CASE orders[id].side = "buy" /\ broker' = Bought(account, broker, s, orders[id].qty, raw)
             /\ orders[id].qty \in Nat /\ orders[id].qty > 0
    <3> HIDE DEF s
    <3>1. broker' \in Broker /\ broker'.pos_size = [broker.pos_size EXCEPT ![s] = broker.pos_size[s] + orders[id].qty]
      <4> DEFINE qty == orders[id].qty
      <4>1. qty \in Nat /\ qty > 0 /\ s \in Symbols
        BY <1>2, <2>1
      <4> HIDE DEF qty
      <4>2. IsBought(account, broker, s, qty, raw, Bought(account, broker, s, qty, raw))
        BY <1>4, <4>1, Buys
      <4> QED
        BY <2>1, <4>2 DEF qty, IsBought
    <3> QED
      BY <1>2, <1>4, <2>1, <3>1
  <2>2. CASE orders[id].side = "sell" /\ broker' = Sold(account, broker, s, broker.pos_size[s], raw)
    <3> HIDE DEF s
    <3>1. broker' \in Broker /\ broker'.pos_size = [broker.pos_size EXCEPT ![s] = 0]
      <4>1. IsSold(account, broker, s, raw, Sold(account, broker, s, broker.pos_size[s], raw))
        BY <1>2, <1>4, Sells
      <4> QED
        BY <2>2, <4>1 DEF IsSold
    <3> QED
      BY <1>2, <1>4, <3>1
  <2> QED
    BY <1>2, <2>1, <2>2
<1>6. new_orders = <<>> /\ new_orders' = <<>>
  BY <1>3 DEF NewOrdersOK
<1>7. id \in DOMAIN orders /\ orders[id] \in OrderEntry /\ orders[id].status = "Submitted"
  BY OrdersKnown DEF Waiting
<1>8. /\ DOMAIN orders' = DOMAIN orders
      /\ orders'[id] = [orders[id] EXCEPT !.status = "Filled"]
      /\ \A i \in DOMAIN orders : i # id => orders'[i] = orders[i]
      /\ orders'[id] \in OrderEntry /\ orders' \in Seq(OrderEntry) /\ orders'[id].status = "Filled"
      /\ orders'[id].exec_dt = orders[id].exec_dt
  <2> DEFINE o == [orders[id] EXCEPT !.status = "Filled"]
  <2>1. o \in OrderEntry /\ o.status = "Filled" /\ o.exec_dt = orders[id].exec_dt
    BY <1>7 DEF OrderEntry
  <2>2. orders' = [orders EXCEPT ![id] = o]
    BY <1>2
  <2> HIDE DEF o
  <2>3. orders \in Seq(OrderEntry)
    BY DEF EngineTypeOK
  <2>4. DOMAIN orders' = DOMAIN orders /\ orders' \in Seq(OrderEntry) /\ orders'[id] = o /\ \A i \in DOMAIN orders : i # id => orders'[i] = orders[i]
    BY <1>7, <2>1, <2>2, <2>3
  <2> QED
    BY <2>1, <2>4 DEF o
<1>9. Waiting' = Waiting \ {id}
  BY <1>7, <1>8 DEF Waiting
<1> DEFINE due == scheduled[dt]
           m == Len(due)
<1>10. /\ due \in Seq(Nat) /\ m \in Nat /\ m >= 1 /\ due[1] = id /\ DOMAIN due = 1 .. m
       /\ Tail(due) \in Seq(Nat) /\ DOMAIN Tail(due) = 1 .. m - 1
       /\ \A i \in 1 .. m - 1 : Tail(due)[i] = due[i + 1] /\ i + 1 \in 1 .. m /\ i + 1 # 1
  <2>1. due \in Seq(Nat) /\ due # <<>>
    BY <1>2, <1>3 DEF EngineTypeOK
  <2>2. id = Head(due)
    BY <1>2
  <2> HIDE DEF due
  <2> QED
    BY <2>1, <2>2
<1>11. \A t \in Times : scheduled'[t] = IF t = dt THEN Tail(due) ELSE scheduled[t]
  BY <1>3 DEF EngineTypeOK
<1>12. EngineTypeOK'
  BY <1>2, <1>3, <1>5, <1>8, <1>10 DEF EngineTypeOK
<1>13. /\ \A i \in 1 .. m : due[i] \in Waiting /\ orders[due[i]].exec_dt = dt
       /\ \A i, j \in 1 .. m : due[i] = due[j] => i = j
  BY <1>2, <1>10 DEF WaitingOK, QueueOK
<1> HIDE DEF due, m, s
<1>14. \A i \in 1 .. m : due[i] = id => i = 1
  BY <1>10, <1>13
<1>15. orders[id].exec_dt = dt
  BY <1>10, <1>13
<1>16. \A i \in Waiting : i # id => orders'[i] = orders[i] /\ i \in Waiting' /\ orders[i].symbol # s
  BY <1>8, <1>9 DEF Waiting, WaitingOK, s
<1>17. \A t \in Times : QueueOK(t)'
  <2> SUFFICES ASSUME NEW t \in Times PROVE QueueOK(t)'
    OBVIOUS
  <2>1. CASE t = dt
    <3>1. scheduled'[t] = Tail(due)
      BY <1>11, <2>1
    <3>2. \A i \in 1 .. m - 1 : Tail(due)[i] \in Waiting' /\ orders'[Tail(due)[i]].exec_dt = dt
      BY <1>10, <1>13, <1>14, <1>16
    <3>3. \A i, j \in 1 .. m - 1 : Tail(due)[i] = Tail(due)[j] => i = j
      <4> SUFFICES ASSUME NEW i \in 1 .. m - 1, NEW j \in 1 .. m - 1, Tail(due)[i] = Tail(due)[j] PROVE i = j
        OBVIOUS
      <4>1. i + 1 = j + 1
        BY <1>10, <1>13
      <4> QED
        BY <4>1
    <3> DEFINE q == scheduled'[t]
    <3>4. DOMAIN q = 1 .. m - 1
      BY <1>10, <3>1
    <3>5. \A i \in DOMAIN q : q[i] \in Waiting' /\ orders'[q[i]].exec_dt = t
      BY <2>1, <3>1, <3>2, <3>4
    <3>6. \A i, j \in DOMAIN q : q[i] = q[j] => i = j
      BY <3>1, <3>3, <3>4
    <3> QED
      BY <3>5, <3>6 DEF QueueOK
  <2>2. CASE t # dt
    <3>1. scheduled'[t] = scheduled[t] /\ QueueOK(t)
      BY <1>11, <2>2 DEF WaitingOK
    <3>2. \A i \in DOMAIN scheduled[t] : scheduled[t][i] # id
      BY <1>15, <2>2, <3>1 DEF QueueOK
    <3> QED
      BY <1>16, <3>1, <3>2 DEF QueueOK
  <2> QED
    BY <2>1, <2>2
<1>18. ASSUME NEW i \in Waiting' PROVE Pending(orders[i])' /\ Queued(i)'
  <2>1. i \in Waiting /\ i # id /\ orders'[i] = orders[i] /\ orders[i].symbol # s
    BY <1>9, <1>16
  <2>2. orders[i].symbol \in Symbols /\ orders[i].exec_dt \in Times
    BY <2>1, OrdersKnown DEF Waiting
  <2>3. Pending(orders[i])'
    BY <1>3, <1>5, <2>1, <2>2 DEF Pending, WaitingOK
  <2>4. PICK k \in DOMAIN scheduled[orders[i].exec_dt] : scheduled[orders[i].exec_dt][k] = i
    BY <2>1 DEF WaitingOK, Queued
  <2>5. Queued(i)'
    <3>1. CASE orders[i].exec_dt = dt
      <4>1. k \in 1 .. m /\ due[k] = i /\ k # 1
        BY <1>10, <2>1, <2>4, <3>1 DEF due
      <4>2. k - 1 \in 1 .. m - 1 /\ (k - 1) + 1 = k
        BY <1>10, <4>1
      <4>3. Tail(due)[k - 1] = i /\ k - 1 \in DOMAIN Tail(due)
        BY <1>10, <4>1, <4>2
      <4> QED
        BY <1>2, <1>11, <2>1, <3>1, <4>3 DEF Queued
    <3>2. CASE orders[i].exec_dt # dt
      BY <1>11, <2>1, <2>2, <2>4, <3>2 DEF Queued
    <3> QED
      BY <3>1, <3>2
  <2> QED
    BY <2>3, <2>5
<1>19. \A i, j \in Waiting' : orders'[i].symbol = orders'[j].symbol => i = j
  BY <1>9, <1>16 DEF WaitingOK
<1>20. WaitingOK'
  BY <1>17, <1>18, <1>19 DEF WaitingOK
<1>21. NewOrdersOK'
  BY <1>6 DEF NewOrdersOK
<1>22. SlotsOK'
  <2>1. \A x \in Symbols : broker'.pos_size[x] > 0 => broker.pos_size[x] > 0 \/ (x = s /\ orders[id].side = "buy")
    BY <1>5
  <2>2. \A x \in Symbols : (\E i \in Waiting' : orders'[i].symbol = x /\ orders'[i].side = "buy")
              => \E i \in Waiting : orders[i].symbol = x /\ orders[i].side = "buy"
    BY <1>9, <1>16
  <2>3. orders[id].symbol = s
    BY DEF s
  <2>4. Claimed' \subseteq Claimed
    BY <1>6, <2>1, <2>2, <2>3 DEF Claimed, Entered
  <2> QED
    BY <1>3, <2>4, ClaimsShrink
<1>23. AcceptedIsFilled'
  BY <1>8 DEF AcceptedIsFilled
<1> QED
  BY <1>12, <1>20, <1>21, <1>22, <1>23

\* Every step of the engine keeps its invariant.
LEMMA EngineStep == ASSUME EngineInv, [Next]_vars PROVE EngineInv'
<1>1. CASE UNCHANGED vars
  BY <1>1 DEF vars, strategy, ledger, EngineInv, EngineTypeOK, WaitingOK, QueueOK, Queued, Pending, Waiting, NewOrdersOK,
     Sensible, SlotsOK, Aligned, Claimed, Entered, AcceptedIsFilled
<1> QED
  BY <1>1, NextBarEngine, ExecuteEngine, DecideEngine, SubmitEngine, SnapshotEngine DEF Next

\* The queues of run_simple hold the accepted orders, each once, each at the next bar of its symbol
\* and still possible; no other order of the symbol is under way, and the positions and the orders for
\* one never exceed max_positions when all symbols have the same bars.
THEOREM QueuesAreSound == Spec => []EngineInv
BY InitEngine, EngineStep, PTL DEF Spec

\* An accepted order never fails at its execution (_execute_order: "should not happen often").
THEOREM AcceptedOrdersAreFilled == Spec => []AcceptedIsFilled
BY QueuesAreSound, PTL DEF EngineInv

\* Positions are among the symbols claimed.
LEMMA SlotsBound == EngineInv => PositionsBounded
<1> SUFFICES ASSUME EngineInv, Aligned PROVE OpenPositionsCount(broker) <= MaxPositions
  BY DEF PositionsBounded, Aligned
<1>1. IsFiniteSet(Claimed)
  BY SymbolsFinite, FS_Subset DEF Claimed, Entered
<1>2. {s \in Symbols : broker.pos_size[s] > 0} \subseteq Claimed
  BY DEF Claimed, Entered
<1>3. OpenPositionsCount(broker) <= Cardinality(Claimed) /\ Cardinality(Claimed) \in Nat /\ OpenPositionsCount(broker) \in Nat
  BY <1>1, <1>2, FS_Subset, FS_CardinalityType DEF OpenPositionsCount
<1>4. Cardinality(Claimed) <= MaxPositions
  BY DEF EngineInv, SlotsOK
<1> QED
  BY <1>3, <1>4, Parameters

\* No more positions than max_positions are open when all symbols have the same bars (on_bar counts
\* the orders of this bar, and those of earlier bars are positions by then).
THEOREM PositionsAreBounded == Spec => []PositionsBounded
BY QueuesAreSound, SlotsBound, PTL

\* A multiple divides exactly.
LEMMA Quotient == ASSUME NEW n \in Nat, NEW d \in Nat, d > 0 PROVE (d * n) \div d = n
<1> DEFINE q == (d * n) \div d
<1>1. q \in Int /\ d * q <= d * n /\ d * n < d * q + d
  OBVIOUS
<1>2. q \in Int /\ d * (n - q) >= 0 /\ d * (n - q) < d
  BY <1>1
<1> HIDE DEF q
<1>3. ~(n - q < 0)
  BY <1>2
<1>4. ~(n - q > 0)
  BY <1>2
<1> QED
  BY <1>2, <1>3, <1>4 DEF q

-----------------------------------------------------------------------------
(* The money. *)

\* A step of the two sums over the ledger.
AddRealized(p, sum, fill) == sum + (fill.realized_pnl - fill.commission)
AddMoved(s, sum, fill) == sum + (IF fill.symbol # s THEN 0 ELSE IF fill.side = "buy" THEN fill.qty ELSE -fill.qty)
Zero(p) == 0
RF == INSTANCE FoldLemmas WITH op <- AddRealized, base <- Zero
MF == INSTANCE FoldLemmas WITH op <- AddMoved, base <- Zero

Realized(fs) == RF!Fold(0, fs)
Moved(s, fs) == MF!Fold(s, fs)

\* The two sums over the ledger are folds.
LEMMA SumsAreFolds ==
    /\ SumFills(LAMBDA f : f.realized_pnl - f.commission) = Realized(fills)
    /\ \A s : SumFills(LAMBDA f : IF f.symbol # s THEN 0 ELSE IF f.side = "buy" THEN f.qty ELSE -f.qty) = Moved(s, fills)
BY DEF SumFills, Realized, Moved, AddRealized, AddMoved, Zero, RF!Fold, MF!Fold, FoldLeft, MapThenFoldSet, Max,
       RF!MapThenFoldSet, RF!Max, MF!MapThenFoldSet, MF!Max

Fill == [order_id : Nat, symbol : Symbols, side : {"buy", "sell"}, qty : Int, realized_pnl : Int, commission : Nat]

\* A fill adds to the sums what it realized and moved.
LEMMA OneMoreFill ==
    ASSUME NEW fs \in Seq(Fill), NEW f \in Fill
    PROVE  /\ Realized(Append(fs, f)) = Realized(fs) + (f.realized_pnl - f.commission)
           /\ \A s : Moved(s, Append(fs, f)) = Moved(s, fs) + (IF f.symbol # s THEN 0 ELSE IF f.side = "buy" THEN f.qty ELSE -f.qty)
<1>1. Realized(Append(fs, f)) = AddRealized(0, Realized(fs), f)
  BY RF!FoldAppend DEF Realized
<1>2. \A s : Moved(s, Append(fs, f)) = AddMoved(s, Moved(s, fs), f)
  BY MF!FoldAppend DEF Moved
<1> QED
  BY <1>1, <1>2 DEF AddRealized, AddMoved

\* What the positions are worth at what they cost.
Costs(b) == [s \in Symbols |-> b.pos_size[s] * b.pos_avg[s] * Mult]

MoneyTypeOK == fills \in Seq(Fill) /\ Realized(fills) \in Int

\* In every state of the account: what is not in the trades that are open is in those that are closed.
MoneyOK ==
    /\ StaticEquity(account, broker) + SumFunction(broker.entry_comm) = StartingCash + broker.net_pnl
    /\ StaticEquity(account, broker) = StartingCash + Realized(fills)
    /\ \A s \in Symbols : broker.pos_size[s] = Moved(s, fills)
    /\ \A s \in Symbols : broker.pos_size[s] = 0 => broker.entry_comm[s] = 0

MoneyInv == MoneyTypeOK /\ MoneyOK

\* Nothing but zeros adds up to zero.
LEMMA ZeroSum ==
    ASSUME NEW f \in [Symbols -> {0}]
    PROVE  SumFunction(f) = 0
<1>1. V!Commutes(f, {0}, Symbols)
  BY DEF V!Commutes, AddValue, Nothing
<1>2. Symbols \in SUBSET Symbols /\ V!IsFiniteSet(Symbols)
  BY SymbolsFinite, Finite
<1>3. V!FoldOver(f, Symbols) \in {0}
  BY <1>1, <1>2, V!FoldOverAny
<1> QED
  BY <1>3, SumIsFold

\* The sums over a broker are numbers.
LEMMA CostsInt == ASSUME NEW b \in Broker PROVE Costs(b) \in [Symbols -> Int] /\ b.entry_comm \in [Symbols -> Int]
                         /\ SumFunction(Costs(b)) \in Int /\ SumFunction(b.entry_comm) \in Int
<1>1. /\ b.pos_size \in [Symbols -> Nat] /\ b.pos_avg \in [Symbols -> Nat] /\ b.entry_comm \in [Symbols -> Nat]
  BY DEF Broker
<1>2. Costs(b) \in [Symbols -> Int] /\ b.entry_comm \in [Symbols -> Int]
  BY <1>1, Triples, Parameters DEF Costs
<1> QED
  BY <1>2, SymbolsFinite, SumWithout

\* static_equity in terms of what the positions cost.
LEMMA StaticIs == ASSUME NEW spec \in AccountSpec, NEW b
    PROVE StaticEquity(spec, b) = IF spec.account_mode = "futures" THEN b.cash ELSE b.cash + SumFunction(Costs(b))
BY DEF StaticEquity, Costs

\* A purchase from nothing turns cash into a position at its cost; only the commission is gone,
\* and kept with the open trade.
LEMMA BuyKeepsMoney ==
    ASSUME NEW spec \in AccountSpec, NEW b \in Broker, NEW s \in Symbols, NEW size \in Nat, size > 0, NEW raw \in Nat, NEW new,
           b.pos_size[s] = 0, b.entry_comm[s] = 0, IsBought(spec, b, s, size, raw, new)
    PROVE  LET comm == ChargeComm(spec, size * ExecPrice("buy", raw) * Mult)
           IN  /\ StaticEquity(spec, new) = StaticEquity(spec, b) - comm
               /\ SumFunction(new.entry_comm) = SumFunction(b.entry_comm) + comm
<1> DEFINE price == ExecPrice("buy", raw)
           turnover == size * price * Mult
           comm == ChargeComm(spec, turnover)
<1>1. /\ b.cash \in Int /\ b.pos_size \in [Symbols -> Nat] /\ b.pos_avg \in [Symbols -> Nat] /\ b.entry_comm \in [Symbols -> Nat]
      /\ new \in Broker
  BY DEF Broker, IsBought
<1>2. price \in Nat /\ size * price \in Nat
  BY ExecPrices, Products
<1>3. turnover \in Nat
  BY <1>2, Triples, Parameters
<1>4. comm \in Nat
  BY <1>3, Charges
<1>5. (b.pos_size[s] * b.pos_avg[s] + size * price) \div (b.pos_size[s] + size) = price
  <2>1. b.pos_size[s] * b.pos_avg[s] + size * price = size * price /\ b.pos_size[s] + size = size
    BY <1>1, <1>2
  <2> QED
    BY <1>2, <2>1, Quotient
<1>6. /\ new.cash = b.cash - comm - (IF spec.account_mode = "cash" THEN turnover ELSE 0)
      /\ new.pos_size = [b.pos_size EXCEPT ![s] = size]
      /\ new.pos_avg = [b.pos_avg EXCEPT ![s] = price]
      /\ new.entry_comm = [b.entry_comm EXCEPT ![s] = comm]
  <2> DEFINE avg == (b.pos_size[s] * b.pos_avg[s] + size * price) \div (b.pos_size[s] + size)
  <2>1. /\ new.cash = b.cash - comm - (IF spec.account_mode = "cash" THEN turnover ELSE 0)
        /\ new.pos_size = [b.pos_size EXCEPT ![s] = b.pos_size[s] + size]
        /\ new.pos_avg = [b.pos_avg EXCEPT ![s] = avg]
        /\ new.entry_comm = [b.entry_comm EXCEPT ![s] = b.entry_comm[s] + comm]
    BY DEF IsBought
  <2>2. avg = price
    BY <1>5
  <2> HIDE DEF avg, comm, turnover, price
  <2>3. b.pos_size[s] + size = size /\ b.entry_comm[s] + comm = comm
    BY <1>4
  <2> QED
    BY <2>1, <2>2, <2>3
<1> HIDE DEF comm
<1>7. SumFunction(new.entry_comm) = SumFunction(b.entry_comm) - b.entry_comm[s] + comm
  <2>1. b.entry_comm \in [Symbols -> Int] /\ new.entry_comm \in [Symbols -> Int] /\ new.entry_comm[s] = comm
    BY <1>1, <1>4, <1>6, CostsInt
  <2>2. DifferAt(b.entry_comm, new.entry_comm, Symbols, s)
    BY <1>6, <2>1 DEF DifferAt
  <2> QED
    BY <2>1, <2>2, SymbolsFinite, SumChanges
<1>8. Costs(new) = [Costs(b) EXCEPT ![s] = turnover] /\ Costs(b)[s] = 0
  <2>1. \A x \in Symbols : x # s => new.pos_size[x] = b.pos_size[x] /\ new.pos_avg[x] = b.pos_avg[x]
    BY <1>1, <1>6
  <2>2. new.pos_size[s] = size /\ new.pos_avg[s] = price
    BY <1>1, <1>6
  <2>3. Costs(b)[s] = 0
    BY <1>1, Parameters DEF Costs
  <2> HIDE DEF price
  <2>4. Costs(new)[s] = turnover /\ \A x \in Symbols : x # s => Costs(new)[x] = Costs(b)[x]
    BY <2>1, <2>2 DEF Costs
  <2> HIDE DEF turnover
  <2> QED
    BY <2>3, <2>4 DEF Costs
<1> HIDE DEF turnover
<1>9. SumFunction(Costs(new)) = SumFunction(Costs(b)) - Costs(b)[s] + turnover
  <2>1. turnover \in Int /\ Costs(b) \in [Symbols -> Int] /\ Costs(new) \in [Symbols -> Int]
    BY <1>1, <1>3, CostsInt
  <2>2. Costs(new)[s] = turnover /\ DifferAt(Costs(b), Costs(new), Symbols, s)
    BY <1>8, <2>1 DEF DifferAt
  <2> QED
    BY <2>1, <2>2, SymbolsFinite, SumChanges
<1>10. spec.account_mode \in {"cash", "futures"}
  BY DEF AccountSpec
<1>11. SumFunction(Costs(b)) \in Int /\ SumFunction(b.entry_comm) \in Int
  BY CostsInt
<1>12. SumFunction(Costs(new)) = SumFunction(Costs(b)) + turnover
  BY <1>3, <1>8, <1>9, <1>11
<1>13. StaticEquity(spec, new) = StaticEquity(spec, b) - comm
  BY <1>1, <1>3, <1>4, <1>6, <1>10, <1>11, <1>12, StaticIs
<1>14. SumFunction(new.entry_comm) = SumFunction(b.entry_comm) + comm
  BY <1>4, <1>7, <1>11
<1> QED
  BY <1>13, <1>14 DEF comm, turnover

\* The sale of a whole position realizes its profit, and its open trade is closed.
LEMMA SellKeepsMoney ==
    ASSUME NEW spec \in AccountSpec, NEW b \in Broker, NEW s \in Symbols, NEW raw \in Nat, NEW new, IsSold(spec, b, s, raw, new)
    PROVE  LET size == b.pos_size[s]
               comm == ChargeComm(spec, size * ExecPrice("sell", raw) * Mult)
           IN  /\ StaticEquity(spec, new) = StaticEquity(spec, b) + RealizedPnl(b, s, size, raw) - comm
               /\ SumFunction(new.entry_comm) = SumFunction(b.entry_comm) - b.entry_comm[s]
               /\ RealizedPnl(b, s, size, raw) \in Int /\ comm \in Nat
<1> DEFINE size == b.pos_size[s]
           price == ExecPrice("sell", raw)
           turnover == size * price * Mult
           comm == ChargeComm(spec, turnover)
           pnl == RealizedPnl(b, s, size, raw)
<1>1. /\ b.cash \in Int /\ b.pos_size \in [Symbols -> Nat] /\ b.pos_avg \in [Symbols -> Nat] /\ b.entry_comm \in [Symbols -> Nat]
      /\ new \in Broker
  BY DEF Broker, IsSold
<1>2. price \in Nat /\ size \in Nat
  BY <1>1, ExecPrices
<1>3. turnover \in Nat
  BY <1>2, Triples, Parameters
<1>4. comm \in Nat
  BY <1>3, Charges
<1>5. pnl = turnover - Costs(b)[s]
  <2> DEFINE avg == b.pos_avg[s]
  <2>1. avg \in Nat
    BY <1>1
  <2>2. Costs(b)[s] = size * avg * Mult
    BY DEF Costs
  <2>3. pnl = (price - avg) * size * Mult
    BY DEF RealizedPnl
  <2> HIDE DEF avg, size, price, pnl
  <2>4. (price - avg) * size * Mult = size * price * Mult - size * avg * Mult
    BY <1>2, <2>1, Parameters
  <2> QED
    BY <2>2, <2>3, <2>4
<1>6. /\ new.cash = b.cash + Proceeds(spec, b, s, size, raw) - comm
      /\ new.pos_size = [b.pos_size EXCEPT ![s] = 0]
      /\ new.pos_avg = [b.pos_avg EXCEPT ![s] = 0]
      /\ new.entry_comm = [b.entry_comm EXCEPT ![s] = 0]
  BY DEF IsSold
<1>7. Proceeds(spec, b, s, size, raw) = IF spec.account_mode = "cash" THEN turnover ELSE pnl
  BY DEF Proceeds
<1> HIDE DEF comm, size, pnl
<1>8. SumFunction(new.entry_comm) = SumFunction(b.entry_comm) - b.entry_comm[s] + 0
  <2>1. b.entry_comm \in [Symbols -> Int] /\ new.entry_comm \in [Symbols -> Int] /\ new.entry_comm[s] = 0
    BY <1>1, <1>6, CostsInt
  <2>2. DifferAt(b.entry_comm, new.entry_comm, Symbols, s)
    BY <1>6, <2>1 DEF DifferAt
  <2> QED
    BY <2>1, <2>2, SymbolsFinite, SumChanges
<1>9. Costs(new) = [Costs(b) EXCEPT ![s] = 0]
  <2>1. \A x \in Symbols : x # s => new.pos_size[x] = b.pos_size[x] /\ new.pos_avg[x] = b.pos_avg[x]
    BY <1>1, <1>6
  <2>2. new.pos_size[s] = 0 /\ new.pos_avg[s] = 0
    BY <1>1, <1>6
  <2>3. Costs(new)[s] = 0
    BY <2>2, Parameters DEF Costs
  <2>4. \A x \in Symbols : x # s => Costs(new)[x] = Costs(b)[x]
    BY <2>1 DEF Costs
  <2> QED
    BY <2>3, <2>4 DEF Costs
<1> HIDE DEF turnover
<1>10. SumFunction(Costs(new)) = SumFunction(Costs(b)) - Costs(b)[s] + 0
  <2>1. Costs(b) \in [Symbols -> Int] /\ Costs(new) \in [Symbols -> Int]
    BY <1>1, CostsInt
  <2>2. Costs(new)[s] = 0 /\ DifferAt(Costs(b), Costs(new), Symbols, s)
    BY <1>9, <2>1 DEF DifferAt
  <2> QED
    BY <2>1, <2>2, SymbolsFinite, SumChanges
<1>11. spec.account_mode \in {"cash", "futures"}
  BY DEF AccountSpec
<1>12. SumFunction(Costs(b)) \in Int /\ SumFunction(b.entry_comm) \in Int /\ Costs(b)[s] \in Int /\ b.entry_comm[s] \in Int
  BY <1>1, CostsInt
<1>13. StaticEquity(spec, new) = StaticEquity(spec, b) + pnl - comm
  BY <1>1, <1>3, <1>4, <1>5, <1>6, <1>7, <1>10, <1>11, <1>12, StaticIs
<1>14. SumFunction(new.entry_comm) = SumFunction(b.entry_comm) - b.entry_comm[s] /\ pnl \in Int
  BY <1>3, <1>5, <1>8, <1>12
<1> QED
  BY <1>4, <1>13, <1>14 DEF comm, turnover, size, pnl

\* The books agree at the start.
LEMMA InitMoney == Init => MoneyInv
<1> SUFFICES ASSUME Init PROVE MoneyInv
  OBVIOUS
<1> USE DEF Init
<1>1. account \in AccountSpec
  BY EngineAssumption
<1>2. /\ broker.cash = StartingCash /\ broker.net_pnl = 0 /\ broker.entry_comm = [s \in Symbols |-> 0]
      /\ broker.pos_size = [s \in Symbols |-> 0] /\ broker.pos_avg = [s \in Symbols |-> 0]
  BY DEF NewBroker
<1>3. SumFunction(broker.entry_comm) = 0
  BY <1>2, ZeroSum
<1>4. Costs(broker) \in [Symbols -> {0}]
  BY <1>2, Parameters DEF Costs
<1>5. SumFunction(Costs(broker)) = 0
  BY <1>4, ZeroSum
<1>6. StaticEquity(account, broker) = StartingCash
  BY <1>1, <1>2, <1>5, StaticIs, Parameters
<1>7. Realized(fills) = 0 /\ \A s : Moved(s, fills) = 0
  BY RF!FoldEmpty, MF!FoldEmpty DEF Realized, Moved, Zero
<1>8. MoneyTypeOK
  BY <1>7 DEF MoneyTypeOK
<1> QED
  BY <1>2, <1>3, <1>6, <1>7, <1>8, Parameters DEF MoneyInv, MoneyOK

\* A fill moves the account, the open trades, the closed ones and the ledger by the same amounts.
LEMMA ExecuteMoney == EngineInv /\ MoneyInv /\ Execute => MoneyInv'
<1> SUFFICES ASSUME EngineInv, MoneyInv, Execute PROVE MoneyInv'
  OBVIOUS
<1>1. PICK id \in Waiting : \E x \in Symbols : \E raw \in Nat :
             /\ id = Head(scheduled[dt]) /\ x = orders[id].symbol /\ dt \in Times /\ raw = bars[x].open
             /\ \/ /\ orders[id].side = "buy" /\ broker.pos_size[x] = 0
                   /\ orders[id].qty \in Nat /\ orders[id].qty > 0
                   /\ broker' = Bought(account, broker, x, orders[id].qty, raw)
                \/ /\ orders[id].side = "sell" /\ broker.pos_size[x] > 0 /\ orders[id].qty = broker.pos_size[x]
                   /\ broker' = Sold(account, broker, x, broker.pos_size[x], raw)
             /\ fills' = Append(fills, FillOf(id, orders[id].qty))
             /\ orders' = [orders EXCEPT ![id].status = "Filled"]
  BY Executed
<1>2. PICK s \in Symbols : \E raw \in Nat :
             /\ s = orders[id].symbol /\ raw = bars[s].open
             /\ \/ /\ orders[id].side = "buy" /\ broker.pos_size[s] = 0
                   /\ orders[id].qty \in Nat /\ orders[id].qty > 0
                   /\ broker' = Bought(account, broker, s, orders[id].qty, raw)
                \/ /\ orders[id].side = "sell" /\ broker.pos_size[s] > 0 /\ orders[id].qty = broker.pos_size[s]
                   /\ broker' = Sold(account, broker, s, broker.pos_size[s], raw)
             /\ fills' = Append(fills, FillOf(id, orders[id].qty))
  BY <1>1
<1>3. PICK raw \in Nat :
             /\ s = orders[id].symbol /\ raw = bars[s].open
             /\ \/ /\ orders[id].side = "buy" /\ broker.pos_size[s] = 0
                   /\ orders[id].qty \in Nat /\ orders[id].qty > 0
                   /\ broker' = Bought(account, broker, s, orders[id].qty, raw)
                \/ /\ orders[id].side = "sell" /\ broker.pos_size[s] > 0 /\ orders[id].qty = broker.pos_size[s]
                   /\ broker' = Sold(account, broker, s, broker.pos_size[s], raw)
             /\ fills' = Append(fills, FillOf(id, orders[id].qty))
  BY <1>2
<1> DEFINE side == orders[id].side
           qty == orders[id].qty
           f == FillOf(id, qty)
           pnl == IF side = "buy" THEN 0 ELSE RealizedPnl(broker, s, qty, raw)
           comm == ChargeComm(account, qty * ExecPrice(side, raw) * Mult)
<1>4. account' = account /\ account \in AccountSpec /\ broker \in Broker
  BY EngineAssumption DEF Execute, EngineInv, EngineTypeOK
<1>5. /\ f = [order_id |-> id, symbol |-> s, side |-> side, qty |-> qty, realized_pnl |-> pnl, commission |-> comm]
  BY <1>3 DEF FillOf
<1>6. side \in {"buy", "sell"} /\ qty \in Nat /\ qty > 0 /\ id \in Nat
  <2>1. id \in DOMAIN orders /\ broker.pos_size[s] \in Nat /\ orders \in Seq(OrderEntry)
    BY <1>4 DEF Waiting, EngineInv, EngineTypeOK, Broker
  <2> QED
    BY <1>3, <2>1, OrdersKnown DEF EngineInv
<1>7. fills \in Seq(Fill) /\ fills' = Append(fills, f)
  BY <1>3 DEF MoneyInv, MoneyTypeOK
<1> DEFINE E == SumFunction(broker.entry_comm)
           S == StaticEquity(account, broker)
<1>8. /\ S + E = StartingCash + broker.net_pnl /\ S = StartingCash + Realized(fills)
      /\ \A x \in Symbols : broker.pos_size[x] = Moved(x, fills)
      /\ \A x \in Symbols : broker.pos_size[x] = 0 => broker.entry_comm[x] = 0
  BY DEF MoneyInv, MoneyOK
<1>9. /\ S \in Int /\ E \in Int /\ broker.net_pnl \in Int /\ StartingCash \in Int /\ broker.pos_size \in [Symbols -> Nat]
      /\ broker.entry_comm \in [Symbols -> Nat]
  <2>1. broker.cash \in Int /\ broker.net_pnl \in Int /\ broker.pos_size \in [Symbols -> Nat] /\ broker.entry_comm \in [Symbols -> Nat]
    BY <1>4 DEF Broker
  <2> QED
    BY <1>4, <2>1, StaticIs, CostsInt, Parameters
\* What the fill does to the account.
<1>10. /\ pnl \in Int /\ comm \in Nat
       /\ StaticEquity(account, broker') = S + (pnl - comm)
       /\ SumFunction(broker'.entry_comm) - E = broker'.net_pnl - broker.net_pnl - (pnl - comm)
       /\ SumFunction(broker'.entry_comm) \in Int /\ broker'.net_pnl \in Int
       /\ \A x \in Symbols : x # s => broker'.pos_size[x] = broker.pos_size[x] /\ broker'.entry_comm[x] = broker.entry_comm[x]
       /\ broker'.pos_size[s] = broker.pos_size[s] + (IF side = "buy" THEN qty ELSE -qty)
       /\ broker'.pos_size[s] = 0 => broker'.entry_comm[s] = 0
  <2>1. CASE side = "buy"
    <3>1. broker.pos_size[s] = 0 /\ broker.entry_comm[s] = 0 /\ broker' = Bought(account, broker, s, qty, raw)
      BY <1>3, <1>8, <2>1
    <3>2. pnl = 0 /\ comm = ChargeComm(account, qty * ExecPrice("buy", raw) * Mult)
      BY <2>1
    <3> HIDE DEF side, qty, pnl, comm
    <3>3. IsBought(account, broker, s, qty, raw, broker')
      BY <1>4, <1>6, <3>1, Buys
    <3> HIDE DEF S, E
    <3>4. /\ StaticEquity(account, broker') = S - comm /\ SumFunction(broker'.entry_comm) = E + comm
      <4>1. \A new : IsBought(account, broker, s, qty, raw, new) =>
               /\ StaticEquity(account, new) = StaticEquity(account, broker) - ChargeComm(account, qty * ExecPrice("buy", raw) * Mult)
               /\ SumFunction(new.entry_comm) = SumFunction(broker.entry_comm) + ChargeComm(account, qty * ExecPrice("buy", raw) * Mult)
        BY <1>4, <1>6, <3>1, BuyKeepsMoney
      <4> QED
        BY <3>2, <3>3, <4>1 DEF S, E
    <3>5. comm \in Nat
      <4>1. qty * ExecPrice("buy", raw) * Mult \in Nat
        BY <1>6, ExecPrices, Triples, Parameters
      <4> QED
        BY <1>4, <3>2, <4>1, Charges
    <3>6. /\ broker'.pos_size = [broker.pos_size EXCEPT ![s] = broker.pos_size[s] + qty] /\ broker'.net_pnl = broker.net_pnl
          /\ \A x \in Symbols : x # s => broker'.entry_comm[x] = broker.entry_comm[x]
      BY <1>9, <3>3 DEF IsBought
    <3>7. broker'.pos_size[s] = qty
      BY <1>6, <1>9, <3>1, <3>6
    <3> QED
      BY <1>6, <1>9, <2>1, <3>1, <3>2, <3>4, <3>5, <3>6, <3>7
  <2>2. CASE side = "sell"
    <3>1. qty = broker.pos_size[s] /\ broker' = Sold(account, broker, s, broker.pos_size[s], raw)
      BY <1>3, <2>2
    <3>2. pnl = RealizedPnl(broker, s, broker.pos_size[s], raw)
          /\ comm = ChargeComm(account, broker.pos_size[s] * ExecPrice("sell", raw) * Mult)
      BY <2>2, <3>1
    <3> HIDE DEF side, qty, pnl, comm
    <3>3. IsSold(account, broker, s, raw, broker')
      BY <1>4, <3>1, Sells
    <3> HIDE DEF S, E
    <3>4. /\ StaticEquity(account, broker') = S + pnl - comm /\ SumFunction(broker'.entry_comm) = E - broker.entry_comm[s]
          /\ pnl \in Int /\ comm \in Nat
      <4>1. \A new : IsSold(account, broker, s, raw, new) =>
               /\ StaticEquity(account, new) = StaticEquity(account, broker) + RealizedPnl(broker, s, broker.pos_size[s], raw)
                       - ChargeComm(account, broker.pos_size[s] * ExecPrice("sell", raw) * Mult)
               /\ SumFunction(new.entry_comm) = SumFunction(broker.entry_comm) - broker.entry_comm[s]
               /\ RealizedPnl(broker, s, broker.pos_size[s], raw) \in Int
               /\ ChargeComm(account, broker.pos_size[s] * ExecPrice("sell", raw) * Mult) \in Nat
        BY <1>4, SellKeepsMoney
      <4> QED
        BY <3>2, <3>3, <4>1 DEF S, E
    <3>5. /\ broker'.pos_size = [broker.pos_size EXCEPT ![s] = 0] /\ broker'.entry_comm = [broker.entry_comm EXCEPT ![s] = 0]
          /\ broker'.net_pnl = broker.net_pnl + pnl - broker.entry_comm[s] - comm
      BY <3>2, <3>3 DEF IsSold
    <3>6. broker'.pos_size[s] = 0 /\ broker'.entry_comm[s] = 0 /\ broker.entry_comm[s] \in Nat
          /\ \A x \in Symbols : x # s => broker'.pos_size[x] = broker.pos_size[x] /\ broker'.entry_comm[x] = broker.entry_comm[x]
      BY <1>9, <3>5
    <3> QED
      BY <1>6, <1>9, <2>2, <3>1, <3>4, <3>5, <3>6
  <2> QED
    BY <1>6, <2>1, <2>2
<1>11. f \in Fill /\ f.realized_pnl = pnl /\ f.commission = comm /\ f.symbol = s /\ f.side = side /\ f.qty = qty
  <2> HIDE DEF pnl, comm, side, qty, f
  <2> QED
    BY <1>5, <1>6, <1>10 DEF Fill
<1>12. /\ fills' \in Seq(Fill) /\ Realized(fills') = Realized(fills) + (pnl - comm)
       /\ \A x : Moved(x, fills') = Moved(x, fills) + (IF s # x THEN 0 ELSE IF side = "buy" THEN qty ELSE -qty)
  <2> HIDE DEF pnl, comm, side, qty, f
  <2> QED
    BY <1>7, <1>11, OneMoreFill
<1> HIDE DEF pnl, comm, side, qty, f, S, E
<1>13. /\ StaticEquity(account, broker') + SumFunction(broker'.entry_comm) = StartingCash + broker'.net_pnl
  BY <1>8, <1>9, <1>10
<1>14. Realized(fills) \in Int
  BY DEF MoneyInv, MoneyTypeOK
<1>15. StaticEquity(account, broker') = StartingCash + Realized(fills')
  BY <1>8, <1>9, <1>10, <1>12, <1>14
<1>16. \A x \in Symbols : broker'.pos_size[x] = Moved(x, fills')
  <2> SUFFICES ASSUME NEW x \in Symbols PROVE broker'.pos_size[x] = Moved(x, fills')
    OBVIOUS
  <2>1. broker.pos_size[x] = Moved(x, fills) /\ broker.pos_size[x] \in Int
    BY <1>8, <1>9
  <2>2. Moved(x, fills') = Moved(x, fills) + (IF s # x THEN 0 ELSE IF side = "buy" THEN qty ELSE -qty)
    BY <1>12
  <2> QED
    BY <1>10, <2>1, <2>2
<1>17. \A x \in Symbols : broker'.pos_size[x] = 0 => broker'.entry_comm[x] = 0
  BY <1>8, <1>10
<1>18. MoneyTypeOK'
  BY <1>10, <1>12, <1>14 DEF MoneyTypeOK
<1> QED
  BY <1>4, <1>13, <1>15, <1>16, <1>17, <1>18 DEF MoneyInv, MoneyOK

\* Every step keeps the money's.
LEMMA MoneyStep == ASSUME EngineInv, MoneyInv, [Next]_vars PROVE MoneyInv'
<1>1. UNCHANGED <<account, broker, fills>> => MoneyInv'
  BY DEF MoneyInv, MoneyTypeOK, MoneyOK
<1>2. Execute \/ UNCHANGED <<account, broker, fills>>
  BY DEF Next, NextBar, Decide, Submit, Snapshot, vars, strategy, ledger
<1> QED
  BY <1>1, <1>2, ExecuteMoney

\* In every state the account, the open and closed trades and the fills tell the same story.
THEOREM BooksAgreeAlways == Spec => []MoneyInv
BY InitMoney, MoneyStep, QueuesAreSound, PTL DEF Spec

\* What the invariant says of the static equity.
LEMMA MoneySays == MoneyInv => StaticEquityIdentity
BY SumsAreFolds DEF MoneyInv, MoneyOK, StaticEquityIdentity

\* In both account modes the static equity is the starting cash plus what the fills realized less
\* what they cost, and the positions are what the fills left (_execute_order, static_equity).
THEOREM StaticEquityExplained == Spec => []StaticEquityIdentity
BY MoneySays, BooksAgreeAlways, PTL

\* So does it of the account when nothing is held.
LEMMA FlatNetPnl == ASSUME EngineInv, MoneyInv PROVE NetPnlWhenFlat
<1> SUFFICES ASSUME OpenPositionsCount(broker) = 0 PROVE broker.cash = StartingCash + broker.net_pnl
  BY DEF NetPnlWhenFlat
<1>1. broker \in Broker /\ account \in AccountSpec
  BY EngineAssumption DEF EngineInv, EngineTypeOK
<1>2. /\ broker.cash \in Int /\ broker.net_pnl \in Int /\ broker.pos_size \in [Symbols -> Nat]
      /\ broker.pos_avg \in [Symbols -> Nat] /\ broker.entry_comm \in [Symbols -> Nat]
  BY <1>1 DEF Broker
<1> DEFINE held == {s \in Symbols : broker.pos_size[s] > 0}
<1>3. held = {}
  <2>1. IsFiniteSet(held) /\ Cardinality(held) = 0
    BY SymbolsFinite, FS_Subset DEF OpenPositionsCount
  <2> HIDE DEF held
  <2> QED
    BY <2>1, FS_EmptySet
<1>4. \A s \in Symbols : broker.pos_size[s] = 0 /\ broker.entry_comm[s] = 0
  BY <1>2, <1>3 DEF MoneyInv, MoneyOK
<1>5. broker.entry_comm \in [Symbols -> {0}] /\ Costs(broker) \in [Symbols -> {0}]
  BY <1>2, <1>4, Parameters DEF Costs
<1>6. SumFunction(broker.entry_comm) = 0 /\ SumFunction(Costs(broker)) = 0
  BY <1>5, ZeroSum
<1>7. StaticEquity(account, broker) = broker.cash
  BY <1>1, <1>2, <1>6, StaticIs
<1>8. StaticEquity(account, broker) + SumFunction(broker.entry_comm) = StartingCash + broker.net_pnl
  BY DEF MoneyInv, MoneyOK
<1> QED
  BY <1>2, <1>6, <1>7, <1>8

\* The statistics of the closed trades tell the same profit as the cash does when no position is open.
THEOREM ClosedTradesAddUp == Spec => []NetPnlWhenFlat
BY FlatNetPnl, QueuesAreSound, BooksAgreeAlways, PTL

-----------------------------------------------------------------------------
(* The stops.                                                               *)

StopsTypeOK == stop \in [Symbols -> Int]

\* What on_bar makes of the stops: numbers, and no lower one for a position that is held.
StopsHigher(b, did) ==
    /\ DOMAIN did = {"orders", "stop", "open"} /\ did.stop \in [Symbols -> Int]
    /\ \A s \in Symbols : b.pos_size[s] > 0 => did.stop[s] >= stop[s]

\* The stop below a close is a number.
LEMMA StopIsInt == ASSUME NEW h \in Seq(Bar), Ready(h) PROVE StopBelow(h) \in Int
<1>1. Len(h) >= AtrPeriod + 1 /\ Len(h) \in Nat
  <2> DEFINE S == {Fast, Slow, AtrPeriod + 1}
  <2>1. \E x \in S : \A y \in S : x >= y
    BY Parameters
  <2>2. Max(S) \in S /\ \A y \in S : Max(S) >= y
    BY <2>1 DEF Max
  <2> QED
    BY <2>2, Parameters DEF Ready
<1>2. Atr(h) \in Int
  BY <1>1, AtrInt, Parameters
<1>3. Last(h).close \in Nat
  <2>1. h[Len(h)] \in Bar
    BY <1>1, Parameters
  <2> QED
    BY <2>1 DEF Last, Bar
<1>4. AtrPeriod * Last(h).close \in Int /\ AtrStopMult * Atr(h) \in Int
  BY <1>2, <1>3, Parameters, IntProducts
<1> QED
  BY <1>4 DEF StopBelow

\* The decision for one symbol lowers no stop of a position that is held.
LEMMA OneStopHigher ==
    ASSUME NEW b \in Broker, NEW did, NEW s \in Symbols, NEW h \in Seq(Bar), NEW equity, StopsTypeOK, StopsHigher(b, did)
    PROVE  StopsHigher(b, DecideFor(did, b, s, h, equity))
<1>1. CASE Ready(h) /\ b.pos_size[s] > 0
  <2> DEFINE level == Trailed(h, did.stop[s])
             more == did.orders \o Exits(s, h, b.pos_size[s], level)
             new == [did EXCEPT !.stop[s] = level, !.orders = more]
  <2>1. level \in Int /\ level >= did.stop[s] /\ did.stop[s] \in Int /\ stop[s] \in Int
    BY <1>1, StopIsInt DEF StopsHigher, StopsTypeOK, Trailed, Larger
  <2>2. DecideFor(did, b, s, h, equity) = new
    BY <1>1 DEF DecideFor, Hold
  <2> HIDE DEF level, more
  <2>3. DOMAIN new = {"orders", "stop", "open"} /\ new.stop = [did.stop EXCEPT ![s] = level]
    BY DEF StopsHigher
  <2> HIDE DEF new
  <2>4. StopsHigher(b, new)
    BY <2>1, <2>3 DEF StopsHigher
  <2> QED
    BY <2>2, <2>4
<1>2. CASE Ready(h) /\ ~(b.pos_size[s] > 0) /\ did.open < MaxPositions /\ Trend(h) > 0 /\ BuySize(b, s, h, equity) > 0
  <2> DEFINE level == StopBelow(h)
             more == Append(did.orders, Intent(s, "buy", BuySize(b, s, h, equity)))
             new == [did EXCEPT !.stop[s] = level, !.open = @ + 1, !.orders = more]
  <2>1. level \in Int
    BY <1>2, StopIsInt
  <2>2. DecideFor(did, b, s, h, equity) = new
    BY <1>2 DEF DecideFor, Enter
  <2> HIDE DEF level, more
  <2>3. DOMAIN new = {"orders", "stop", "open"} /\ new.stop = [did.stop EXCEPT ![s] = level]
    BY DEF StopsHigher
  <2> HIDE DEF new
  <2>4. StopsHigher(b, new)
    BY <1>2, <2>1, <2>3 DEF StopsHigher
  <2> QED
    BY <2>2, <2>4
<1> QED
  BY <1>1, <1>2 DEF DecideFor

\* So does the pass over all symbols.
LEMMA OnBarStops ==
    ASSUME NEW b \in Broker, NEW h \in [Symbols -> Seq(Bar)], StopsTypeOK
    PROVE  StopsHigher(b, OnBar(b, h))
<1> DEFINE p == <<b, h, Equity(b)>>
           Good == {q \in Seq(Symbols) : StopsHigher(b, D!Fold(p, q))}
<1>0. p[1] = b /\ p[2] = h /\ p[3] = Equity(b)
  OBVIOUS
<1> HIDE DEF p
<1>1. <<>> \in Good
  <2> DEFINE did == [orders |-> <<>>, stop |-> stop, open |-> OpenPositionsCount(b)]
  <2>1. D!Fold(p, <<>>) = did
    BY <1>0, D!FoldEmpty DEF Undecided
  <2>2. DOMAIN did = {"orders", "stop", "open"} /\ did.stop = stop
    OBVIOUS
  <2> HIDE DEF did
  <2>3. StopsHigher(b, did)
    BY <2>2 DEF StopsHigher, StopsTypeOK
  <2> QED
    BY <2>1, <2>3
<1>2. ASSUME NEW q \in Seq(Symbols), NEW s \in Symbols, q \in Good PROVE Append(q, s) \in Good
  <2>1. D!Fold(p, Append(q, s)) = Decision(p, D!Fold(p, q), s)
    BY D!FoldAppend
  <2>2. StopsHigher(b, D!Fold(p, q)) /\ h[s] \in Seq(Bar) /\ Append(q, s) \in Seq(Symbols)
    BY <1>2
  <2>3. StopsHigher(b, Decision(p, D!Fold(p, q), s))
    BY <1>0, <2>2, OneStopHigher DEF Decision
  <2> QED
    BY <2>1, <2>2, <2>3
<1> HIDE DEF Good
<1>3. Seq(Symbols) \subseteq Good
  BY <1>1, <1>2, D!SequenceInduction
<1> QED
  BY <1>3, OnBarIsFold, EngineAssumption DEF Good, p

\* A step of the engine moves no stop of a position that is held down.
LEMMA EngineStops ==
    ASSUME EngineInv, StopsTypeOK, [Next]_vars
    PROVE  StopsTypeOK' /\ \A s \in Symbols : broker.pos_size[s] > 0 /\ broker'.pos_size[s] > 0 => stop'[s] >= stop[s]
<1>1. CASE Decide
  <2> DEFINE h == [s \in Symbols |-> IF s \in DOMAIN bars THEN Append(hist[s], bars[s]) ELSE hist[s]]
             did == OnBar(broker, h)
  <2>1. stop' = did.stop /\ phase = "execute"
    BY <1>1 DEF Decide
  <2>2. bars \in [{s \in Symbols : dt \in calendar[s]} -> Bars] /\ broker \in Broker /\ hist \in [Symbols -> Seq(Bar)]
    BY <2>1 DEF EngineInv, EngineTypeOK
  <2>3. \A s \in DOMAIN bars : bars[s] \in Bar
    BY <2>2, EngineAssumption
  <2>4. h \in [Symbols -> Seq(Bar)]
    BY <2>2, <2>3
  <2> HIDE DEF h
  <2>5. StopsHigher(broker, did)
    BY <2>2, <2>4, OnBarStops
  <2> QED
    BY <2>1, <2>5 DEF StopsHigher, StopsTypeOK
<1>2. CASE ~Decide
  <2>1. stop' = stop
    BY <1>2 DEF Next, NextBar, Execute, Submit, Snapshot, vars, strategy
  <2> QED
    BY <2>1 DEF StopsTypeOK
<1> QED
  BY <1>1, <1>2

\* The stop of an open position never moves down (on_bar: max of the old stop and the new).
THEOREM StopsOnlyRise == Spec => StopRatchets
<1>1. Init => StopsTypeOK
  BY DEF Init, StopsTypeOK
<1>2. EngineInv /\ StopsTypeOK /\ [Next]_vars => StopsTypeOK'
  BY EngineStops
<1>3. EngineInv /\ StopsTypeOK /\ [Next]_vars
        => [\A s \in Symbols : broker.pos_size[s] > 0 /\ broker'.pos_size[s] > 0 => stop'[s] >= stop[s]]_vars
  BY EngineStops
<1> QED
  BY <1>1, <1>2, <1>3, QueuesAreSound, PTL DEF Spec, StopRatchets
=============================================================================
