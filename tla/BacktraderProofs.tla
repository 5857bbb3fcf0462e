--------------------------- MODULE BacktraderProofs ---------------------------
(***************************************************************************)
(* What holds of the account and of the books beside it, whatever strategy *)
(* runs on backtrader, as long as the strategy sends orders that fit: an   *)
(* entry from flat or an exit of all that is held, one at a time.          *)
(*                                                                         *)
(* BookInv is the invariant: the account and the ledger are in step        *)
(* (InStep), and every order that waits fits the position it is for, has   *)
(* been numbered once and has not been filled.  An order is one of three   *)
(* things when its bar comes (Outcome), each keeps the books in step, and  *)
(* so does a turn with any number of them, a fold over the queue.          *)
(***************************************************************************)
EXTENDS Backtrader, FiniteSetTheorems, FunctionTheorems, TLAPS

Configured == BacktraderAssumption

-----------------------------------------------------------------------------
(* Sums over the symbols.                                                   *)

AddValue(f, acc, x) == f[x] + acc
Nothing(f) == 0
V == INSTANCE FoldLemmas WITH op <- AddValue, base <- Nothing

\* The sum of a function is a fold over its domain.
LEMMA SumIsFold == \A f : SumFunction(f) = V!FoldOver(f, DOMAIN f)
BY DEF SumFunction, SumFunctionOnSet, FoldFunctionOnSet, MapThenFoldSet, V!FoldOver, V!MapThenFoldSet, AddValue, Nothing

\* Finite here is finite in the lemmas on folds.
LEMMA Finite == \A S : IsFiniteSet(S) => V!IsFiniteSet(S)
BY DEF IsFiniteSet, V!IsFiniteSet

\* A sum is a number, and so is what is left of it without one value.
LEMMA SumWithout ==
    ASSUME NEW S, IsFiniteSet(S), NEW f \in [S -> Int]
    PROVE  /\ SumFunction(f) \in Int
           /\ \A x \in S : V!FoldOver(f, S \ {x}) \in Int /\ SumFunction(f) = f[x] + V!FoldOver(f, S \ {x})
<1>1. V!Commutes(f, Int, S)
  BY DEF V!Commutes, AddValue, Nothing
<1>2. \A T \in SUBSET S : V!FoldOver(f, T) \in Int
  <2> SUFFICES ASSUME NEW T \in SUBSET S PROVE V!FoldOver(f, T) \in Int
    OBVIOUS
  <2>1. IsFiniteSet(T)
    BY FS_Subset
  <2> QED
    BY <1>1, <2>1, Finite, V!FoldOverAny
<1>3. \A x \in S : V!FoldOver(f, S) = AddValue(f, V!FoldOver(f, S \ {x}), x)
  BY <1>1, Finite, V!FoldOverAny
<1>4. SumFunction(f) = V!FoldOver(f, S)
  BY SumIsFold
<1>5. \A x \in S : (S \ {x}) \in SUBSET S
  OBVIOUS
<1> QED
  BY <1>2, <1>3, <1>4, <1>5 DEF AddValue

\* Functions with the same values but one.
DifferAt(f, g, S, x) == \A y \in S \ {x} : g[y] = f[y]

\* A sum changes by what one of its values does.
LEMMA SumChanges ==
    ASSUME NEW S, IsFiniteSet(S), NEW f \in [S -> Int], NEW x \in S, NEW g \in [S -> Int], DifferAt(f, g, S, x)
    PROVE  SumFunction(g) = SumFunction(f) - f[x] + g[x]
<1>1. IsFiniteSet(S \ {x})
  BY FS_Subset
<1>2. V!Alike(f, g, S \ {x})
  BY DEF DifferAt, V!Alike, AddValue, Nothing
<1>3. V!FoldOver(f, S \ {x}) = V!FoldOver(g, S \ {x})
  BY <1>1, <1>2, Finite, V!FoldOverAlike
<1>4. /\ SumFunction(f) = f[x] + V!FoldOver(f, S \ {x}) /\ SumFunction(g) = g[x] + V!FoldOver(g, S \ {x})
      /\ V!FoldOver(f, S \ {x}) \in Int
  BY SumWithout
<1> QED
  BY <1>3, <1>4

\* The sum of sums.
LEMMA SumAdds ==
    ASSUME NEW S, IsFiniteSet(S), NEW f \in [S -> Int], NEW g \in [S -> Int], NEW h \in [S -> Int],
           \A x \in S : h[x] = f[x] + g[x]
    PROVE  SumFunction(h) = SumFunction(f) + SumFunction(g)
<1> DEFINE Good == {T \in SUBSET S : V!FoldOver(f, T) \in Int /\ V!FoldOver(g, T) \in Int
                                     /\ V!FoldOver(h, T) = V!FoldOver(f, T) + V!FoldOver(g, T)}
<1>1. {} \in Good
  BY V!FoldOverEmpty DEF Nothing
<1>2. V!Commutes(f, Int, S) /\ V!Commutes(g, Int, S) /\ V!Commutes(h, Int, S)
  BY DEF V!Commutes, AddValue, Nothing
<1>3. ASSUME NEW T \in SUBSET S, NEW x \in S \ T, T \in Good PROVE T \union {x} \in Good
  <2> DEFINE U == T \union {x}
  <2>1. IsFiniteSet(U) /\ U \in SUBSET S /\ U \ {x} = T /\ x \in U
    BY FS_Subset
  <2> HIDE DEF U
  <2>2. /\ V!FoldOver(f, U) = AddValue(f, V!FoldOver(f, T), x)
        /\ V!FoldOver(g, U) = AddValue(g, V!FoldOver(g, T), x)
        /\ V!FoldOver(h, U) = AddValue(h, V!FoldOver(h, T), x)
    <3>1. V!IsFiniteSet(U)
      BY <2>1, Finite
    <3>2. V!FoldOver(f, U) = AddValue(f, V!FoldOver(f, U \ {x}), x)
      BY <1>2, <2>1, <3>1, V!FoldOverAny
    <3>3. V!FoldOver(g, U) = AddValue(g, V!FoldOver(g, U \ {x}), x)
      BY <1>2, <2>1, <3>1, V!FoldOverAny
    <3>4. V!FoldOver(h, U) = AddValue(h, V!FoldOver(h, U \ {x}), x)
      BY <1>2, <2>1, <3>1, V!FoldOverAny
    <3> QED
      BY <2>1, <3>2, <3>3, <3>4
  <2> QED
    BY <1>3, <2>1, <2>2 DEF AddValue, U
<1> HIDE DEF Good
<1>4. S \in Good
  BY <1>1, <1>3, Finite, V!SetInduction
<1> QED
  BY <1>4, SumIsFold DEF Good

\* The sum of multiples.
LEMMA SumScales ==
    ASSUME NEW S, IsFiniteSet(S), NEW m \in Int, NEW f \in [S -> Int], NEW h \in [S -> Int],
           \A x \in S : h[x] = m * f[x]
    PROVE  SumFunction(h) = m * SumFunction(f)
<1> DEFINE Good == {T \in SUBSET S : V!FoldOver(f, T) \in Int /\ V!FoldOver(h, T) = m * V!FoldOver(f, T)}
<1>1. {} \in Good
  BY V!FoldOverEmpty DEF Nothing
<1>2. V!Commutes(f, Int, S) /\ V!Commutes(h, Int, S)
  BY DEF V!Commutes, AddValue, Nothing
<1>3. ASSUME NEW T \in SUBSET S, NEW x \in S \ T, T \in Good PROVE T \union {x} \in Good
  <2> DEFINE U == T \union {x}
  <2>1. IsFiniteSet(U) /\ U \in SUBSET S /\ U \ {x} = T /\ x \in U
    BY FS_Subset
  <2> HIDE DEF U
  <2>2. V!IsFiniteSet(U)
    BY <2>1, Finite
  <2>3. V!FoldOver(f, U) = AddValue(f, V!FoldOver(f, U \ {x}), x)
    BY <1>2, <2>1, <2>2, V!FoldOverAny
  <2>4. V!FoldOver(h, U) = AddValue(h, V!FoldOver(h, U \ {x}), x)
    BY <1>2, <2>1, <2>2, V!FoldOverAny
  <2>5. \A a, b \in Int : m * (a + b) = m * a + m * b
    OBVIOUS
  <2>6. /\ V!FoldOver(f, T) \in Int /\ V!FoldOver(h, T) = m * V!FoldOver(f, T)
        /\ f[x] \in Int /\ h[x] = m * f[x]
    BY <1>3
  <2>7. V!FoldOver(f, U) = f[x] + V!FoldOver(f, T) /\ V!FoldOver(h, U) = h[x] + V!FoldOver(h, T)
    BY <2>1, <2>3, <2>4 DEF AddValue
  <2>8. V!FoldOver(h, U) = m * (f[x] + V!FoldOver(f, T))
    BY Zenon, <2>5, <2>6, <2>7
  <2>9. V!FoldOver(f, U) \in Int
    BY <2>6, <2>7
  <2> QED
    BY <2>1, <2>7, <2>8, <2>9 DEF U
<1> HIDE DEF Good
<1>4. S \in Good
  BY <1>1, <1>3, Finite, V!SetInduction
<1> QED
  BY <1>4, SumIsFold DEF Good

\* A sum of nothing but zeros.
LEMMA SumOfZeros ==
    ASSUME NEW S, IsFiniteSet(S), NEW f \in [S -> Int], \A x \in S : f[x] = 0
    PROVE  SumFunction(f) = 0
<1>1. SumFunction(f) = SumFunction(f) + SumFunction(f)
  BY SumAdds
<1>2. SumFunction(f) \in Int
  BY SumWithout
<1>3. \A n \in Int : n = n + n => n = 0
  OBVIOUS
<1> QED
  BY <1>1, <1>2, <1>3

-----------------------------------------------------------------------------
(* The accounts.                                                            *)

BrokerPosition == [size : Int, price : Nat, adjbase : Nat]
OpenTrade == [pnl : Int, comm : Int]
Broker == [cash : Int, positions : [Symbols -> BrokerPosition], trades : [Symbols -> OpenTrade]]
WaitingOrder == [ref : Nat, symbol : Symbols, size : Int]

\* The product of natural numbers is one: for leaves in which nothing else is nonlinear.
LEMMA Products == \A a, b \in Nat : a * b \in Nat
OBVIOUS

\* The same for integers.
LEMMA IntProducts == \A a, b \in Int : a * b \in Int
OBVIOUS

\* The account's parameters are numbers.
LEMMA AccountTypes ==
    ASSUME Configured, account \in Accounts
    PROVE  /\ account.mult \in Nat \ {0} /\ account.commission \in Nat /\ account.margin \in Nat
           /\ account.margin_rate = None \/ account.margin_rate \in Nat
           /\ account.commtype = "fixed" \/ account.commtype = "perc"
BY DEF Configured, BacktraderAssumption, Account

\* What a fill costs is a number, and no contract costs nothing.
LEMMA Commissions ==
    ASSUME Configured, account \in Accounts, NEW size \in Int, NEW price \in Nat
    PROVE  GetCommission(size, price) \in Int /\ GetCommission(0, price) = 0
<1>1. account.mult \in Nat /\ account.commission \in Nat
  BY AccountTypes
<1>2. Abs(size) \in Nat /\ Abs(0) = 0
  BY DEF Abs
<1>3. /\ Abs(size) * account.commission \in Nat /\ 0 * account.commission = 0
      /\ Abs(size) * price * account.mult * account.commission \in Nat
      /\ 0 * price * account.mult * account.commission = 0
  <2>1. Abs(size) * price \in Nat
    BY <1>2, Products
  <2>2. Abs(size) * price * account.mult \in Nat
    BY <1>1, <2>1, Products
  <2>3. Abs(size) * account.commission \in Nat /\ Abs(size) * price * account.mult * account.commission \in Nat
    BY <1>1, <1>2, <2>2, Products
  <2> QED
    BY <1>1, <2>3
<1>4. \A n \in Nat : n \div 100 \in Int /\ 0 \div 100 = 0
  OBVIOUS
<1> QED
  BY <1>2, <1>3, <1>4 DEF GetCommission

\* So is the margin of one contract.
LEMMA Margins ==
    ASSUME Configured, account \in Accounts, NEW price \in Nat
    PROVE  GetMargin(price) \in Int
<1>1. account.margin_rate # None => price * account.mult * account.margin_rate \in Nat
  BY AccountTypes, Products
<1>2. \A n \in Nat : n \div 100 \in Int
  OBVIOUS
<1> QED
  BY <1>1, <1>2, AccountTypes DEF GetMargin

\* A weighted average over one price is that price.
LEMMA Quotient == ASSUME NEW n \in Nat, NEW d \in Nat, d > 0 PROVE (d * n) \div d = n
<1> DEFINE q == (d * n) \div d
           r == (d * n) % d
<1>1. q \in Int /\ r \in 0 .. d - 1 /\ d * n = d * q + r
  BY IntProducts
<1> HIDE DEF q, r
<1>2. d * n - d * q = d * (n - q) /\ r = d * (n - q)
  BY <1>1
<1>3. n - q >= 1 => d * (n - q) >= d
  BY <1>1
<1>4. n - q <= -1 => d * (n - q) <= -d
  BY <1>1
<1> QED
  BY <1>1, <1>2, <1>3, <1>4 DEF q

-----------------------------------------------------------------------------
(* What an order of a strategy does, executed at a price: it enters from    *)
(* flat, or is refused for want of cash, or leaves with the whole position. *)

Noted(o, price, size, status, done, pnlcomm) ==
    [order |-> o, price |-> price, size |-> size, comm |-> GetCommission(size, price), status |-> status,
     closedTrade |-> done, pnlcomm |-> pnlcomm]

EntersAt(b, o, price) ==
    [broker |->
        [cash |-> OpenedCash(b.cash, o.size, price),
         positions |-> [b.positions EXCEPT ![o.symbol] = [size |-> o.size, adjbase |-> price, price |-> price]],
         trades |-> [b.trades EXCEPT ![o.symbol] = [pnl |-> 0, comm |-> GetCommission(o.size, price)]]],
     note |-> Noted(o, price, o.size, "completed", FALSE, 0 - GetCommission(o.size, price))]

TurnedDown(b, o, price) ==
    [broker |-> b, note |-> Noted(o, price, 0, "margin", FALSE, 0)]

Gain(b, o, price) == (b.positions[o.symbol].price - price) * o.size * account.mult

LeavesAt(b, o, price) ==
    [broker |->
        [cash |-> ClosedCash(b.cash, b.positions[o.symbol], o.size, price) - GetCommission(o.size, price),
         positions |-> [b.positions EXCEPT ![o.symbol] = Flat],
         trades |-> [b.trades EXCEPT ![o.symbol] = NewTrade]],
     note |-> Noted(o, price, o.size, "completed", TRUE,
                    b.trades[o.symbol].pnl + Gain(b, o, price)
                      - (b.trades[o.symbol].comm + GetCommission(o.size, price)))]

FlatIs(b, s) == b.positions[s].size = 0 => b.positions[s] = Flat /\ b.trades[s] = NewTrade

\* The library's cash is a number after each part of an order.
LEMMA Cashes ==
    ASSUME Configured, account \in Accounts, NEW cash \in Int, NEW p \in BrokerPosition, NEW size \in Int, NEW price \in Nat
    PROVE  /\ ClosedCash(cash, p, size, price) \in Int /\ OpenedCash(cash, size, price) \in Int
           /\ p = Flat => ClosedCash(cash, p, 0, price) = cash
<1>1. p.price \in Nat /\ p.adjbase \in Nat /\ p.size \in Int
  BY DEF BrokerPosition
<1>2. /\ size * price \in Int /\ Abs(size) * GetMargin(p.price) \in Int /\ Abs(size) * GetMargin(price) \in Int
      /\ size * (price - p.adjbase) * account.mult \in Int
      /\ size * p.price \in Int /\ size * (price - p.price) * account.mult \in Int
  <2>1. Abs(size) \in Int
    BY DEF Abs
  <2>2. GetMargin(p.price) \in Int /\ GetMargin(price) \in Int /\ account.mult \in Int
    BY <1>1, Margins, AccountTypes
  <2>3. size * (price - p.adjbase) \in Int /\ size * (price - p.price) \in Int /\ size * p.price \in Int
    BY <1>1, IntProducts
  <2> QED
    BY <2>1, <2>2, <2>3, IntProducts
<1>3. GetCommission(size, price) \in Int
  BY Commissions
<1>4. p = Flat => ClosedCash(cash, p, 0, price) = cash
  <2>1. /\ 0 * p.price = 0 /\ Abs(0) = 0 /\ (\A m \in Int : 0 * m = 0)
        /\ 0 * (price - p.adjbase) = 0 /\ 0 * (price - p.price) = 0
    BY <1>1 DEF Abs
  <2>2. GetMargin(p.price) \in Int /\ account.mult \in Int
    BY <1>1, Margins, AccountTypes
  <2>3. /\ Abs(0) * GetMargin(p.price) = 0 /\ 0 * (price - p.adjbase) * account.mult = 0
        /\ 0 * (price - p.price) * account.mult = 0
    BY <2>1, <2>2
  <2> QED
    BY <2>1, <2>3 DEF ClosedCash
<1>5. ClosedCash(cash, p, size, price) \in Int
  BY <1>2 DEF ClosedCash
<1>6. OpenedCash(cash, size, price) \in Int
  BY <1>2, <1>3 DEF OpenedCash
<1> QED
  BY <1>4, <1>5, <1>6

\* From flat an order enters or is turned down.
LEMMA EntryExecuted ==
    ASSUME Configured, account \in Accounts, NEW b \in Broker, NEW o \in WaitingOrder, NEW price \in Nat,
           FlatIs(b, o.symbol), b.positions[o.symbol].size = 0, o.size # 0
    PROVE  Execute(b, o, price) = IF OpenedCash(b.cash, o.size, price) < 0 THEN TurnedDown(b, o, price) ELSE EntersAt(b, o, price)
<1> DEFINE sym == o.symbol
           p == b.positions[sym]
           closed == IF p.size * o.size < 0
                     THEN (IF o.size > 0 THEN 1 ELSE -1) * Least(Abs(o.size), Abs(p.size))
                     ELSE 0
           wanted == o.size - closed
           pnl == (p.price - price) * closed * account.mult
           afterClose == ClosedCash(b.cash, p, closed, price) - GetCommission(closed, price)
           opened == IF OpenedCash(afterClose, wanted, price) < 0 THEN 0 ELSE wanted
           size == p.size + closed + opened
           comm == GetCommission(closed, price) + GetCommission(opened, price)
           trade == [pnl |-> b.trades[sym].pnl + pnl, comm |-> b.trades[sym].comm + comm]
           marked == ~StockLike /\ closed = 0
           avg == IF opened = 0 THEN p.price ELSE (Abs(p.size + closed) * p.price + Abs(opened) * price) \div Abs(size)
           held == [size |-> size, adjbase |-> price, price |-> avg]
           cash == (IF opened = 0 THEN afterClose ELSE OpenedCash(afterClose, opened, price))
                       + (IF marked THEN p.size * (price - p.adjbase) * account.mult ELSE 0)
           done == closed # 0 /\ size = 0
           status == IF wanted # 0 /\ opened = 0 THEN "margin" ELSE "completed"
<1>0. Execute(b, o, price) =
        [broker |-> [cash |-> cash,
                     positions |-> [b.positions EXCEPT ![sym] = IF size = 0 THEN Flat ELSE held],
                     trades |-> [b.trades EXCEPT ![sym] = IF size = 0 THEN NewTrade ELSE trade]],
         note |-> [order |-> o, price |-> price, size |-> closed + opened, comm |-> comm,
                   status |-> status, closedTrade |-> done, pnlcomm |-> trade.pnl - trade.comm]]
  BY DEF Execute
<1>1. /\ sym \in Symbols /\ o.size \in Int /\ p = Flat /\ b.trades[sym] = NewTrade /\ b.cash \in Int
      /\ p \in BrokerPosition /\ p.size = 0 /\ p.price = 0 /\ p.adjbase = 0
      /\ b.trades[sym].pnl = 0 /\ b.trades[sym].comm = 0
  BY DEF Broker, WaitingOrder, FlatIs, Flat, NewTrade
<1>2. closed = 0 /\ wanted = o.size
  BY <1>1
<1> HIDE DEF closed
<1>3. afterClose = b.cash
  BY <1>1, <1>2, Cashes, Commissions
<1>4. pnl = 0
  <2>1. account.mult \in Int /\ p.price - price \in Int /\ \A x, m \in Int : x * 0 * m = 0
    BY <1>1, AccountTypes
  <2> QED
    BY <1>2, <2>1
<1>5. p.size * (price - p.adjbase) * account.mult = 0
  <2>1. account.mult \in Int /\ price - p.adjbase \in Int /\ \A x, m \in Int : 0 * x * m = 0
    BY <1>1, AccountTypes
  <2> QED
    BY <1>1, <2>1
<1> HIDE DEF wanted, afterClose, pnl
<1>6. opened = IF OpenedCash(b.cash, o.size, price) < 0 THEN 0 ELSE o.size
  BY <1>2, <1>3
<1> HIDE DEF opened
<1>7. CASE OpenedCash(b.cash, o.size, price) < 0
  <2>1. opened = 0 /\ size = 0 /\ comm = GetCommission(0, price) /\ comm = 0 /\ status = "margin" /\ done = FALSE
        /\ closed + opened = 0
    BY <1>1, <1>2, <1>6, <1>7, Commissions
  <2>2. cash = b.cash
    BY <1>1, <1>3, <1>5, <2>1
  <2>3. trade.pnl - trade.comm = 0
    BY <1>1, <1>4, <2>1
  <2> HIDE DEF size, comm, status, done, cash, trade, held, p, sym
  <2>4. /\ [b.positions EXCEPT ![sym] = Flat] = b.positions /\ [b.trades EXCEPT ![sym] = NewTrade] = b.trades
        /\ b = [cash |-> b.cash, positions |-> b.positions, trades |-> b.trades]
    BY <1>1 DEF Broker, p
  <2> QED
    BY <1>0, <1>7, <2>1, <2>2, <2>3, <2>4 DEF TurnedDown, Noted
<1>8. CASE ~(OpenedCash(b.cash, o.size, price) < 0)
  <2>1. opened = o.size /\ size = o.size /\ size # 0 /\ comm = GetCommission(o.size, price) /\ comm \in Int
        /\ status = "completed" /\ done = FALSE /\ closed + opened = o.size
    BY <1>1, <1>2, <1>6, <1>8, Commissions
  <2>2. cash = OpenedCash(b.cash, o.size, price)
    <3>1. OpenedCash(b.cash, o.size, price) \in Int
      BY <1>1, Cashes
    <3> QED
      BY <1>1, <1>3, <1>5, <2>1, <3>1
  <2>3. trade = [pnl |-> 0, comm |-> comm] /\ trade.pnl - trade.comm = 0 - comm
    BY <1>1, <1>4, <2>1
  <2>4. avg = price
    <3>1. Abs(p.size + closed) * p.price = 0 /\ Abs(opened) = Abs(size) /\ Abs(size) \in Nat /\ Abs(size) > 0
      BY <1>1, <1>2, <2>1 DEF Abs
    <3>2. Abs(size) * price \in Nat
      BY <3>1, Products
    <3>3. avg = (Abs(size) * price) \div Abs(size)
      BY <1>1, <2>1, <3>1, <3>2
    <3> QED
      BY <3>1, <3>3, Quotient
  <2> HIDE DEF size, comm, status, done, cash, avg, p, sym, trade
  <2>5. held = [size |-> o.size, adjbase |-> price, price |-> price]
    BY <2>1, <2>4
  <2> HIDE DEF held
  <2> QED
    BY <1>0, <1>8, <2>1, <2>2, <2>3, <2>5 DEF EntersAt, Noted, sym
<1> QED
  BY <1>7, <1>8

\* A held position is closed by an order of its size, and the rest of the order is nothing.
LEMMA ExitExecuted ==
    ASSUME Configured, account \in Accounts, NEW b \in Broker, NEW o \in WaitingOrder, NEW price \in Nat,
           b.positions[o.symbol].size # 0, o.size = -b.positions[o.symbol].size
    PROVE  Execute(b, o, price) = LeavesAt(b, o, price)
<1> DEFINE sym == o.symbol
           p == b.positions[sym]
           closed == IF p.size * o.size < 0
                     THEN (IF o.size > 0 THEN 1 ELSE -1) * Least(Abs(o.size), Abs(p.size))
                     ELSE 0
           wanted == o.size - closed
           pnl == (p.price - price) * closed * account.mult
           afterClose == ClosedCash(b.cash, p, closed, price) - GetCommission(closed, price)
           opened == IF OpenedCash(afterClose, wanted, price) < 0 THEN 0 ELSE wanted
           size == p.size + closed + opened
           comm == GetCommission(closed, price) + GetCommission(opened, price)
           trade == [pnl |-> b.trades[sym].pnl + pnl, comm |-> b.trades[sym].comm + comm]
           marked == ~StockLike /\ closed = 0
           avg == IF opened = 0 THEN p.price ELSE (Abs(p.size + closed) * p.price + Abs(opened) * price) \div Abs(size)
           held == [size |-> size, adjbase |-> price, price |-> avg]
           cash == (IF opened = 0 THEN afterClose ELSE OpenedCash(afterClose, opened, price))
                       + (IF marked THEN p.size * (price - p.adjbase) * account.mult ELSE 0)
           done == closed # 0 /\ size = 0
           status == IF wanted # 0 /\ opened = 0 THEN "margin" ELSE "completed"
<1>0. Execute(b, o, price) =
        [broker |-> [cash |-> cash,
                     positions |-> [b.positions EXCEPT ![sym] = IF size = 0 THEN Flat ELSE held],
                     trades |-> [b.trades EXCEPT ![sym] = IF size = 0 THEN NewTrade ELSE trade]],
         note |-> [order |-> o, price |-> price, size |-> closed + opened, comm |-> comm,
                   status |-> status, closedTrade |-> done, pnlcomm |-> trade.pnl - trade.comm]]
  BY DEF Execute
<1>1. /\ sym \in Symbols /\ o.size \in Int /\ b.cash \in Int /\ p \in BrokerPosition /\ p.size \in Int /\ p.size # 0
      /\ o.size = -p.size
  BY DEF Broker, WaitingOrder, BrokerPosition
<1>2. closed = o.size
  <2>1. p.size * o.size < 0
    <3>1. \A n \in Int : n # 0 => n * (-n) < 0
      OBVIOUS
    <3> QED
      BY <1>1, <3>1
  <2>2. (IF o.size > 0 THEN 1 ELSE -1) * Least(Abs(o.size), Abs(p.size)) = o.size
    BY <1>1 DEF Least, Abs
  <2> QED
    BY <2>1, <2>2
<1> HIDE DEF closed, p
<1>3. wanted = 0 /\ opened = 0 /\ closed + opened = o.size /\ closed # 0
  BY <1>1, <1>2
<1> HIDE DEF wanted, opened
<1>4. size = 0 /\ done = TRUE /\ status = "completed" /\ marked = FALSE
  BY <1>1, <1>2, <1>3
<1>5. comm = GetCommission(o.size, price)
  BY <1>1, <1>2, <1>3, Commissions
<1>6. cash = ClosedCash(b.cash, p, o.size, price) - GetCommission(o.size, price)
  <2>1. ClosedCash(b.cash, p, o.size, price) - GetCommission(o.size, price) \in Int
    BY <1>1, Cashes, Commissions
  <2> QED
    BY <1>2, <1>3, <1>4, <2>1
<1>7. pnl = Gain(b, o, price)
  BY <1>2 DEF Gain, p
<1> HIDE DEF pnl, comm
<1>8. trade.pnl - trade.comm = b.trades[sym].pnl + Gain(b, o, price) - (b.trades[sym].comm + GetCommission(o.size, price))
  <2>1. trade.pnl = b.trades[sym].pnl + pnl /\ trade.comm = b.trades[sym].comm + comm
    OBVIOUS
  <2> HIDE DEF trade
  <2>2. b.trades[o.symbol].pnl = b.trades[sym].pnl /\ b.trades[o.symbol].comm = b.trades[sym].comm
    BY DEF sym
  <2>3. b.trades[sym].pnl \in Int /\ b.trades[sym].comm \in Int
    BY <1>1 DEF Broker, OpenTrade
  <2>4. Gain(b, o, price) \in Int /\ GetCommission(o.size, price) \in Int
    <3>1. account.mult \in Int /\ p.price - price \in Int
      BY <1>1, AccountTypes DEF BrokerPosition
    <3> QED
      BY <1>1, <3>1, IntProducts, Commissions DEF Gain, p, sym
  <2> HIDE DEF sym
  <2> QED
    BY <1>5, <1>7, <2>1, <2>2, <2>3, <2>4
<1> HIDE DEF size, done, status, marked, cash, trade, held
<1>9. p = b.positions[o.symbol] /\ sym = o.symbol
  BY DEF p
<1> HIDE DEF sym
<1> QED
  BY <1>0, <1>2, <1>3, <1>4, <1>5, <1>6, <1>8, <1>9 DEF LeavesAt, Noted

-----------------------------------------------------------------------------
(* The books that are kept beside the broker.                               *)

Fields == {"positions", "filled", "status", "realized", "fees", "total_closed", "total_net_pnl"}
LedgerRow == [size : Int, avg_price : Int]
IsLedger(l) ==
    /\ DOMAIN l = Fields /\ l = [f \in Fields |-> l[f]]
    /\ l.positions \in [Symbols -> LedgerRow]
    /\ l.realized \in Int /\ l.fees \in Int /\ l.total_net_pnl \in Int

\* The fill ledger's positions are the broker's.
Follows(b, l) ==
    \A s \in Symbols : /\ l.positions[s].size = b.positions[s].size
                       /\ l.positions[s].avg_price = b.positions[s].price

\* The cash that is tied up in the positions, and their opening commissions.
TiedIn(p) == IF StockLike THEN p.size * p.price
             ELSE Abs(p.size) * GetMargin(p.price) - p.size * (p.adjbase - p.price) * account.mult
Tied(b) == [s \in Symbols |-> TiedIn(b.positions[s])]
OpenFees(b) == [s \in Symbols |-> b.trades[s].comm]

\* Nothing is lost between the cash, the positions, the statistics and the fills.
Books(b, l) ==
    /\ \A s \in Symbols : FlatIs(b, s) /\ b.trades[s].pnl = 0
    /\ b.cash + SumFunction(Tied(b)) = StartingCash + l.realized - l.fees
    /\ l.total_net_pnl - SumFunction(OpenFees(b)) = l.realized - l.fees

\* What two ledgers have to tell of the other symbols.
Same(l, m, s) == \A u \in Symbols \ {s} : m.positions[u] = l.positions[u]

\* What the two books do with an entry, a refusal and an exit.
LedgerEntered(l, o, price, comm) ==
    [l EXCEPT !.positions[o.symbol] = [size |-> o.size, avg_price |-> price], !.filled = @ \union {o.ref},
              !.fees = @ + comm]

Noticed(l, note) ==
    [l EXCEPT !.status = [r \in DOMAIN @ \union {note.order.ref} |->
                    IF r = note.order.ref THEN note.status ELSE @[r]]]

\* Only the row of the order changes.
LEMMA NoticedIs ==
    ASSUME NEW l, IsLedger(l), NEW note
    PROVE  /\ IsLedger(Noticed(l, note)) /\ Noticed(l, note).positions = l.positions
           /\ Noticed(l, note).filled = l.filled /\ Noticed(l, note).realized = l.realized
           /\ Noticed(l, note).fees = l.fees /\ Noticed(l, note).total_net_pnl = l.total_net_pnl
BY DEF IsLedger, Noticed, Fields

\* A fill changes one position and adds to the sums.
Updated(l, sym, pos, filled, realized, fees, closed, net) ==
    [[[l EXCEPT !.positions[sym] = pos, !.filled = filled, !.realized = realized]
        EXCEPT !.fees = fees]
        EXCEPT !.total_closed = closed, !.total_net_pnl = net]

Numbers(a, b, c) == a \in Int /\ b \in Int /\ c \in Int

\* An update of the ledger for one symbol leaves the rows of the others.
LEMMA LedgerUpdated ==
    ASSUME NEW l, IsLedger(l), NEW sym \in Symbols, NEW pos \in LedgerRow, NEW filled,
           NEW realized, NEW fees, NEW net, Numbers(realized, fees, net), NEW closed,
           NEW m, m = Updated(l, sym, pos, filled, realized, fees, closed, net)
    PROVE  /\ IsLedger(m) /\ m.positions[sym] = pos /\ Same(l, m, sym)
           /\ m.filled = filled /\ m.realized = realized /\ m.fees = fees /\ m.total_net_pnl = net
<1> DEFINE P == [l.positions EXCEPT ![sym] = pos]
           a == [l EXCEPT !.positions = P, !.filled = filled, !.realized = realized]
           c == [a EXCEPT !.fees = fees]
<1>1. P \in [Symbols -> LedgerRow] /\ P[sym] = pos /\ \A u \in Symbols \ {sym} : P[u] = l.positions[u]
  BY DEF IsLedger
<1>2. m = [c EXCEPT !.total_closed = closed, !.total_net_pnl = net]
  BY DEF Updated
<1> HIDE DEF P
<1>3. /\ DOMAIN a = Fields /\ a.positions = P /\ a.filled = filled /\ a.realized = realized
  BY DEF IsLedger, Fields
<1> HIDE DEF a
<1>4. /\ DOMAIN c = Fields /\ c.positions = P /\ c.filled = filled /\ c.realized = realized /\ c.fees = fees
  BY <1>3 DEF Fields
<1> HIDE DEF c
<1>5. /\ DOMAIN m = Fields /\ m.positions = P /\ m.filled = filled /\ m.realized = realized /\ m.fees = fees
      /\ m.total_net_pnl = net /\ m = [f \in Fields |-> m[f]]
  BY <1>2, <1>4 DEF Fields
<1> QED
  BY <1>1, <1>5 DEF IsLedger, Same, Numbers

EntryNote(o, price) == Noted(o, price, o.size, "completed", FALSE, 0 - GetCommission(o.size, price))
EntryOn(l, o, price, m) ==
    /\ IsLedger(m) /\ Same(l, m, o.symbol)
    /\ m.positions[o.symbol].size = o.size /\ m.positions[o.symbol].avg_price = price
    /\ m.filled = l.filled \union {o.ref} /\ m.realized = l.realized
    /\ m.fees = l.fees + GetCommission(o.size, price) /\ m.total_net_pnl = l.total_net_pnl

\* The analyzers are told of an entry: the ledger opens the position, at its price and with its
\* fees.
LEMMA EntryNoted ==
    ASSUME Configured, account \in Accounts, NEW l, IsLedger(l), NEW o, o \in WaitingOrder, NEW price, price \in Nat, price > 0,
           o.ref \notin l.filled, o.size # 0, l.positions[o.symbol].size = 0
    PROVE  EntryOn(l, o, price, NotifyAnalyzers(l, EntryNote(o, price)))
<1> DEFINE m == NotifyAnalyzers(l, Noted(o, price, o.size, "completed", FALSE, 0 - GetCommission(o.size, price)))
<1> DEFINE note == Noted(o, price, o.size, "completed", FALSE, 0 - GetCommission(o.size, price))
           row == Noticed(l, note)
           sym == o.symbol
           booked == IF note.size > 0 THEN BookedBuy(row.positions[sym], note.size, note.price, account.mult)
                     ELSE BookedSell(row.positions[sym], -note.size, note.price, account.mult)
           comm == GetCommission(o.size, price)
<1>1. /\ note.order = o /\ note.price = price /\ note.size = o.size /\ note.comm = comm
      /\ note.status = "completed" /\ note.closedTrade = FALSE
  BY DEF Noted
<1>2. o.size \in Int /\ sym \in Symbols /\ comm \in Int
  BY Commissions DEF WaitingOrder
<1> HIDE DEF note
<1>3. /\ IsLedger(row) /\ row.positions = l.positions /\ row.filled = l.filled /\ row.realized = l.realized
      /\ row.fees = l.fees /\ row.total_net_pnl = l.total_net_pnl
  BY NoticedIs
<1> HIDE DEF row, comm
<1>4. booked.pos = [size |-> o.size, avg_price |-> price] /\ booked.realized = 0
  <2>1. row.positions[sym].size = 0 /\ row.positions[sym].avg_price \in Int
    BY <1>2, <1>3 DEF IsLedger, LedgerRow
  <2>2. \A q \in Int : q > 0 => (0 * row.positions[sym].avg_price + q * price) \div (0 + q) = price
                                /\ (-0 * row.positions[sym].avg_price + q * price) \div (q - 0) = price
    <3> SUFFICES ASSUME NEW q \in Int, q > 0
                 PROVE  (0 * row.positions[sym].avg_price + q * price) \div (0 + q) = price
                        /\ (-0 * row.positions[sym].avg_price + q * price) \div (q - 0) = price
      OBVIOUS
    <3>1. q \in Nat /\ q * price \in Nat
      BY Products
    <3>2. 0 * row.positions[sym].avg_price + q * price = q * price /\ 0 + q = q
          /\ -0 * row.positions[sym].avg_price + q * price = q * price /\ q - 0 = q
      BY <2>1, <3>1
    <3> QED
      BY <3>1, <3>2, Quotient
  <2>3. CASE o.size > 0
    BY <1>1, <1>2, <2>1, <2>2, <2>3 DEF BookedBuy
  <2>4. CASE o.size < 0
    <3>1. -o.size > 0 /\ -o.size \in Int /\ 0 - (-o.size) = o.size
      BY <1>2, <2>4
    <3> QED
      BY <1>1, <1>2, <2>1, <2>2, <2>4, <3>1 DEF BookedSell
  <2> QED
    BY <1>2, <2>3, <2>4
<1> HIDE DEF booked
<1>5. m = [BuildFill(row, note) EXCEPT !.fees = @ + note.comm]
  BY <1>1 DEF NotifyAnalyzers, row, Noticed, note
<1> HIDE DEF m
<1>6. BuildFill(row, note) = [row EXCEPT !.positions[sym] = booked.pos, !.filled = @ \union {o.ref},
                                         !.realized = @ + booked.realized]
  BY <1>1, <1>2, <1>3 DEF BuildFill, booked
<1> DEFINE fees == l.fees + comm
<1>7. Numbers(l.realized, fees, l.total_net_pnl) /\ l.realized + 0 = l.realized
  BY <1>2 DEF IsLedger, Numbers
<1> DEFINE pos == [size |-> o.size, avg_price |-> price]
           filled == l.filled \union {o.ref}
           closed == row.total_closed
<1>8. m = Updated(row, sym, pos, filled, l.realized, fees, closed, l.total_net_pnl)
  <2> DEFINE a == [row EXCEPT !.positions[sym] = booked.pos, !.filled = @ \union {o.ref}, !.realized = @ + booked.realized]
             c == [a EXCEPT !.fees = @ + note.comm]
  <2>1. a = [row EXCEPT !.positions[sym] = [size |-> o.size, avg_price |-> price], !.filled = l.filled \union {o.ref},
                        !.realized = l.realized]
    BY <1>3, <1>4, <1>7
  <2>2. DOMAIN row = Fields
    BY <1>3 DEF IsLedger
  <2>3. /\ DOMAIN a = Fields /\ a.fees = row.fees /\ a.total_closed = row.total_closed
        /\ a.total_net_pnl = row.total_net_pnl
    BY <2>2 DEF Fields
  <2> HIDE DEF a
  <2>4. c = [a EXCEPT !.fees = fees]
    BY <1>1, <1>3, <2>3
  <2>5. DOMAIN c = Fields /\ c.total_closed = row.total_closed /\ c.total_net_pnl = l.total_net_pnl
    BY <1>3, <2>3 DEF Fields
  <2>6. c = [f \in Fields |-> c[f]]
    BY <2>3
  <2> HIDE DEF c
  <2>7. c = [c EXCEPT !.total_closed = row.total_closed, !.total_net_pnl = l.total_net_pnl]
    BY <2>5, <2>6
  <2>8. m = c
    BY <1>5, <1>6 DEF a, c
  <2> QED
    BY <2>1, <2>4, <2>7, <2>8 DEF Updated
<1>9. pos \in LedgerRow /\ pos.size = o.size /\ pos.avg_price = price /\ sym \in Symbols
  BY <1>2 DEF LedgerRow
<1> HIDE DEF fees, sym, pos, filled, closed
<1>10. /\ IsLedger(m) /\ m.positions[sym] = pos
       /\ Same(row, m, sym)
       /\ m.filled = filled /\ m.realized = l.realized /\ m.fees = fees
       /\ m.total_net_pnl = l.total_net_pnl
  <2>1. ASSUME NEW k, k = Updated(row, sym, pos, filled, l.realized, fees, closed, l.total_net_pnl)
        PROVE  /\ IsLedger(k) /\ k.positions[sym] = pos /\ Same(row, k, sym)
               /\ k.filled = filled /\ k.realized = l.realized /\ k.fees = fees
               /\ k.total_net_pnl = l.total_net_pnl
    BY <1>3, <1>7, <1>9, <2>1, LedgerUpdated
  <2> QED
    BY <1>8, <2>1
<1>11. sym = o.symbol /\ filled = l.filled \union {o.ref} /\ fees = l.fees + comm /\ comm = GetCommission(o.size, price)
  BY DEF sym, filled, fees, comm
<1>12. Same(l, m, o.symbol)
  BY <1>3, <1>10, <1>11 DEF Same
<1> QED
  BY <1>9, <1>10, <1>11, <1>12 DEF m, EntryNote, EntryOn

\* A refused order leaves its status and nothing else.
LEMMA RefusalNoted ==
    ASSUME Configured, account \in Accounts, NEW l, IsLedger(l), NEW o \in WaitingOrder, NEW price \in Nat,
           NEW m, m = NotifyAnalyzers(l, Noted(o, price, 0, "margin", FALSE, 0))
    PROVE  /\ IsLedger(m) /\ m.positions = l.positions /\ m.filled = l.filled /\ m.realized = l.realized
           /\ m.fees = l.fees /\ m.total_net_pnl = l.total_net_pnl
<1> DEFINE note == Noted(o, price, 0, "margin", FALSE, 0)
<1>1. m = Noticed(l, note)
  BY DEF NotifyAnalyzers, Noticed, Noted
<1> HIDE DEF note
<1> QED
  BY ZenonT(30), <1>1, NoticedIs

\* An exit takes the position out of the fill ledger and into the statistics.
ExitNote(o, price, pnlcomm) == Noted(o, price, o.size, "completed", TRUE, pnlcomm)
ExitOn(l, o, price, pnlcomm, m) ==
    /\ IsLedger(m) /\ Same(l, m, o.symbol)
    /\ m.positions[o.symbol].size = 0 /\ m.positions[o.symbol].avg_price = 0
    /\ m.filled = l.filled \union {o.ref}
    /\ m.realized = l.realized + (l.positions[o.symbol].avg_price - price) * o.size * account.mult
    /\ m.fees = l.fees + GetCommission(o.size, price) /\ m.total_net_pnl = l.total_net_pnl + pnlcomm

\* The analyzers are told of an exit: the ledger closes the position and counts the trade.
LEMMA ExitNoted ==
    ASSUME Configured, account \in Accounts, NEW l, IsLedger(l), NEW o, o \in WaitingOrder, NEW price, price \in Nat, price > 0,
           o.ref \notin l.filled, o.size # 0, l.positions[o.symbol].size = -o.size, NEW pnlcomm, pnlcomm \in Int
    PROVE  ExitOn(l, o, price, pnlcomm, NotifyAnalyzers(l, ExitNote(o, price, pnlcomm)))
<1> DEFINE m == NotifyAnalyzers(l, Noted(o, price, o.size, "completed", TRUE, pnlcomm))
<1> DEFINE note == Noted(o, price, o.size, "completed", TRUE, pnlcomm)
           row == Noticed(l, note)
           sym == o.symbol
           booked == IF note.size > 0 THEN BookedBuy(row.positions[sym], note.size, note.price, account.mult)
                     ELSE BookedSell(row.positions[sym], -note.size, note.price, account.mult)
           comm == GetCommission(o.size, price)
           gain == (l.positions[sym].avg_price - price) * o.size * account.mult
<1>1. /\ note.order = o /\ note.price = price /\ note.size = o.size /\ note.comm = comm
      /\ note.status = "completed" /\ note.closedTrade = TRUE /\ note.pnlcomm = pnlcomm
  BY DEF Noted
<1>2. o.size \in Int /\ sym \in Symbols /\ comm \in Int /\ l.positions[sym].avg_price \in Int /\ l.positions[sym].size \in Int
  BY Commissions DEF WaitingOrder, IsLedger, LedgerRow
<1> HIDE DEF note
<1>3. /\ IsLedger(row) /\ row.positions = l.positions /\ row.filled = l.filled /\ row.realized = l.realized
      /\ row.fees = l.fees /\ row.total_net_pnl = l.total_net_pnl
  BY NoticedIs
<1> HIDE DEF row, comm
<1>4. booked.pos = [size |-> 0, avg_price |-> 0] /\ booked.realized = gain /\ gain \in Int
  <2>1. account.mult \in Int
    BY AccountTypes
  <2> DEFINE avg == l.positions[sym].avg_price
             d == avg - price
             n == o.size
  <2>2. d \in Int /\ n \in Int /\ d * n \in Int /\ gain \in Int
    BY <1>2, <2>1, IntProducts
  <2>3. CASE o.size > 0
    <3>1. Least(-row.positions[sym].size, o.size) = o.size /\ row.positions[sym].size < 0
          /\ -row.positions[sym].size - o.size = 0
      BY <1>2, <1>3, <2>3 DEF Least
    <3> QED
      BY <1>1, <1>3, <2>2, <2>3, <3>1 DEF BookedBuy
  <2>4. CASE o.size < 0
    <3>1. Least(row.positions[sym].size, -o.size) = -o.size /\ row.positions[sym].size > 0
          /\ row.positions[sym].size - (-o.size) = 0
      BY <1>2, <1>3, <2>4 DEF Least
    <3>2. (price - row.positions[sym].avg_price) * (-o.size) * account.mult = gain
      <4>1. (price - avg) * (-n) = d * n
        <5>1. price \in Int /\ avg \in Int /\ n \in Int
          BY <1>2
        <5> HIDE DEF avg, n
        <5> QED
          BY <5>1
      <4> QED
        BY <1>3, <4>1
    <3> QED
      BY <1>1, <1>3, <2>2, <2>4, <3>1, <3>2 DEF BookedSell
  <2> QED
    BY <1>2, <2>3, <2>4
<1> HIDE DEF booked, gain
<1>5. m = [[BuildFill(row, note) EXCEPT !.fees = @ + note.comm]
             EXCEPT !.total_closed = @ + 1, !.total_net_pnl = @ + note.pnlcomm]
  BY <1>1 DEF NotifyAnalyzers, row, Noticed, note
<1> HIDE DEF m
<1>6. BuildFill(row, note) = [row EXCEPT !.positions[sym] = booked.pos, !.filled = @ \union {o.ref},
                                         !.realized = @ + booked.realized]
  BY <1>1, <1>2, <1>3 DEF BuildFill, booked
<1> DEFINE fees == l.fees + comm
           realized == l.realized + gain
           net == l.total_net_pnl + pnlcomm
<1>7. Numbers(realized, fees, net)
  BY <1>2, <1>4 DEF IsLedger, Numbers
<1> DEFINE pos == [size |-> 0, avg_price |-> 0]
           filled == l.filled \union {o.ref}
           closed == row.total_closed + 1
<1>8. m = Updated(row, sym, pos, filled, realized, fees, closed, net)
  <2> DEFINE a == [row EXCEPT !.positions[sym] = booked.pos, !.filled = @ \union {o.ref}, !.realized = @ + booked.realized]
             c == [a EXCEPT !.fees = @ + note.comm]
  <2>1. a = [row EXCEPT !.positions[sym] = [size |-> 0, avg_price |-> 0], !.filled = l.filled \union {o.ref},
                        !.realized = realized]
    BY <1>3, <1>4
  <2>2. DOMAIN row = Fields
    BY <1>3 DEF IsLedger
  <2>3. /\ DOMAIN a = Fields /\ a.fees = row.fees /\ a.total_closed = row.total_closed
        /\ a.total_net_pnl = row.total_net_pnl
    BY <2>2 DEF Fields
  <2> HIDE DEF a
  <2>4. c = [a EXCEPT !.fees = fees]
    BY <1>1, <1>3, <2>3
  <2>5. DOMAIN c = Fields /\ c.total_closed = row.total_closed /\ c.total_net_pnl = l.total_net_pnl
    BY <1>3, <2>3 DEF Fields
  <2> HIDE DEF c
  <2>6. m = [c EXCEPT !.total_closed = @ + 1, !.total_net_pnl = @ + note.pnlcomm]
    BY <1>5, <1>6 DEF a, c
  <2>7. m = [c EXCEPT !.total_closed = row.total_closed + 1, !.total_net_pnl = net]
    BY <1>1, <2>5, <2>6
  <2> QED
    BY <2>1, <2>4, <2>7 DEF Updated
<1>9. pos \in LedgerRow /\ pos.size = 0 /\ pos.avg_price = 0 /\ sym \in Symbols
  BY <1>2 DEF LedgerRow
<1> HIDE DEF fees, realized, net, sym, pos, filled, closed
<1>10. /\ IsLedger(m) /\ m.positions[sym] = pos
       /\ Same(row, m, sym)
       /\ m.filled = filled /\ m.realized = realized /\ m.fees = fees
       /\ m.total_net_pnl = net
  <2>1. ASSUME NEW k, k = Updated(row, sym, pos, filled, realized, fees, closed, net)
        PROVE  /\ IsLedger(k) /\ k.positions[sym] = pos /\ Same(row, k, sym)
               /\ k.filled = filled /\ k.realized = realized /\ k.fees = fees
               /\ k.total_net_pnl = net
    BY <1>3, <1>7, <1>9, <2>1, LedgerUpdated
  <2> QED
    BY <1>8, <2>1
<1>11. /\ sym = o.symbol /\ filled = l.filled \union {o.ref} /\ fees = l.fees + comm /\ comm = GetCommission(o.size, price)
       /\ realized = l.realized + gain /\ net = l.total_net_pnl + pnlcomm
       /\ gain = (l.positions[o.symbol].avg_price - price) * o.size * account.mult
  BY DEF sym, filled, fees, comm, realized, net, gain
<1>12. Same(l, m, o.symbol)
  BY <1>3, <1>10, <1>11 DEF Same
<1> QED
  BY <1>9, <1>10, <1>11, <1>12 DEF m, ExitNote, ExitOn

-----------------------------------------------------------------------------
(* An order that fits keeps the books in step.                              *)

\* An entry from flat of a size in E, or an exit of all that is held.
Fits(E, b, o) ==
    /\ o.size # 0
    /\ b.positions[o.symbol].size = 0 => o.size \in E
    /\ b.positions[o.symbol].size # 0 => o.size = -b.positions[o.symbol].size

InStep(E, b, l) ==
    /\ b \in Broker /\ IsLedger(l) /\ Follows(b, l) /\ Books(b, l)
    /\ \A s \in Symbols : b.positions[s].size \in E \union {0}

\* The two sums of the books are over numbers.
LEMMA SumTypes ==
    ASSUME Configured, account \in Accounts, NEW b \in Broker
    PROVE  /\ Tied(b) \in [Symbols -> Int] /\ OpenFees(b) \in [Symbols -> Int] /\ IsFiniteSet(Symbols)
           /\ SumFunction(Tied(b)) \in Int /\ SumFunction(OpenFees(b)) \in Int
<1>1. IsFiniteSet(Symbols)
  BY DEF Configured, BacktraderAssumption
<1>2. ASSUME NEW s \in Symbols PROVE TiedIn(b.positions[s]) \in Int
  <2> DEFINE p == b.positions[s]
  <2>1. p.price \in Nat /\ p.adjbase \in Nat /\ p.size \in Int
    BY DEF Broker, BrokerPosition
  <2>2. GetMargin(p.price) \in Int /\ account.mult \in Int /\ Abs(p.size) \in Int
    BY <2>1, Margins, AccountTypes DEF Abs
  <2>3. p.size * (p.adjbase - p.price) \in Int
    <3>1. p.adjbase - p.price \in Int
      BY <2>1
    <3> QED
      BY Zenon, <2>1, <3>1, IntProducts
  <2>4. p.size * (p.adjbase - p.price) * account.mult \in Int /\ Abs(p.size) * GetMargin(p.price) \in Int
        /\ p.size * p.price \in Int
    BY <2>1, <2>2, <2>3, IntProducts
  <2> HIDE DEF p
  <2>5. TiedIn(p) \in Int
    BY <2>4 DEF TiedIn
  <2> QED
    BY <2>5 DEF p
<1>3. Tied(b) \in [Symbols -> Int]
  BY <1>2 DEF Tied
<1>4. OpenFees(b) \in [Symbols -> Int]
  BY DEF OpenFees, Broker, OpenTrade
<1> QED
  BY <1>1, <1>3, <1>4, SumWithout

\* Two brokers that differ in one symbol.
OnlyAt(b, c, s) ==
    \A u \in Symbols \ {s} : c.positions[u] = b.positions[u] /\ c.trades[u] = b.trades[u]

\* The sums change by what that symbol does.
LEMMA SumsChange ==
    ASSUME Configured, account \in Accounts, NEW b \in Broker, NEW c \in Broker, NEW s \in Symbols, OnlyAt(b, c, s)
    PROVE  /\ SumFunction(Tied(c)) = SumFunction(Tied(b)) - TiedIn(b.positions[s]) + TiedIn(c.positions[s])
           /\ SumFunction(OpenFees(c)) = SumFunction(OpenFees(b)) - b.trades[s].comm + c.trades[s].comm
           /\ TiedIn(b.positions[s]) \in Int /\ TiedIn(c.positions[s]) \in Int
           /\ b.trades[s].comm \in Int /\ c.trades[s].comm \in Int
<1>1. DifferAt(Tied(b), Tied(c), Symbols, s) /\ DifferAt(OpenFees(b), OpenFees(c), Symbols, s)
  BY DEF OnlyAt, DifferAt, Tied, OpenFees
<1>2. /\ Tied(b) \in [Symbols -> Int] /\ OpenFees(b) \in [Symbols -> Int] /\ IsFiniteSet(Symbols)
      /\ Tied(c) \in [Symbols -> Int] /\ OpenFees(c) \in [Symbols -> Int]
  BY SumTypes
<1>3. /\ Tied(b)[s] = TiedIn(b.positions[s]) /\ Tied(c)[s] = TiedIn(c.positions[s])
      /\ OpenFees(b)[s] = b.trades[s].comm /\ OpenFees(c)[s] = c.trades[s].comm
  BY DEF Tied, OpenFees
<1>4. Tied(b)[s] \in Int /\ Tied(c)[s] \in Int /\ OpenFees(b)[s] \in Int /\ OpenFees(c)[s] \in Int
  BY <1>2
<1>5. SumFunction(Tied(c)) = SumFunction(Tied(b)) - Tied(b)[s] + Tied(c)[s]
  BY <1>1, <1>2, SumChanges
<1>6. SumFunction(OpenFees(c)) = SumFunction(OpenFees(b)) - OpenFees(b)[s] + OpenFees(c)[s]
  BY <1>1, <1>2, SumChanges
<1> QED
  BY <1>3, <1>4, <1>5, <1>6

\* Nothing is tied up in a flat position.
LEMMA NothingTied == ASSUME Configured, account \in Accounts PROVE TiedIn(Flat) = 0
<1>1. GetMargin(0) \in Int /\ account.mult \in Int
  BY Margins, AccountTypes
<1>2. 0 * GetMargin(0) = 0 /\ 0 * 0 * account.mult = 0
  BY <1>1
<1> QED
  BY <1>2 DEF TiedIn, Flat, Abs

\* What an entry ties up is what it takes, but for the commission.
LEMMA EntryTies ==
    ASSUME Configured, account \in Accounts, NEW cash \in Int, NEW size \in Int, NEW price \in Nat
    PROVE  OpenedCash(cash, size, price)
             = cash - TiedIn([size |-> size, adjbase |-> price, price |-> price]) - GetCommission(size, price)
<1> DEFINE p == [size |-> size, adjbase |-> price, price |-> price]
<1>1. p.size = size /\ p.price = price /\ p.adjbase = price
  OBVIOUS
<1> HIDE DEF p
<1>2. account.mult \in Int /\ GetMargin(price) \in Int /\ Abs(size) \in Int /\ GetCommission(size, price) \in Int
  <2>1. Abs(size) \in Int
    BY DEF Abs
  <2>2. account.mult \in Int
    BY AccountTypes
  <2>3. GetMargin(price) \in Int /\ GetCommission(size, price) \in Int
    BY Margins, Commissions
  <2> QED
    BY <2>1, <2>2, <2>3
<1>3. size * (price - price) * account.mult = 0
  <2>1. price - price = 0 /\ (\A n \in Int : n * 0 = 0) /\ \A n \in Int : 0 * n = 0
    OBVIOUS
  <2> QED
    BY <1>2, <2>1
<1>4. Abs(size) * GetMargin(price) \in Int /\ size * price \in Int
  BY <1>2, IntProducts
<1>5. TiedIn(p) = IF StockLike THEN size * price ELSE Abs(size) * GetMargin(price)
  BY <1>1, <1>3, <1>4 DEF TiedIn
<1> QED
  BY <1>2, <1>4, <1>5 DEF OpenedCash, p

\* An exit gives it back, with the gain.
LEMMA ExitFrees ==
    ASSUME Configured, account \in Accounts, NEW cash \in Int, NEW p \in BrokerPosition, NEW price \in Nat
    PROVE  /\ ClosedCash(cash, p, -p.size, price) = cash + TiedIn(p) + (p.price - price) * (-p.size) * account.mult
           /\ (p.price - price) * (-p.size) * account.mult \in Int /\ TiedIn(p) \in Int
<1> DEFINE n == p.size
           m == account.mult
           margin == GetMargin(p.price)
<1>1. p.price \in Nat /\ p.adjbase \in Nat /\ n \in Int /\ m \in Int /\ margin \in Int /\ Abs(n) \in Int
  BY Margins, AccountTypes DEF BrokerPosition, Abs
<1>2. Abs(-n) = Abs(n)
  BY <1>1 DEF Abs
<1>3. (p.price - price) * (-n) * m \in Int /\ (-n) * price \in Int /\ n * p.price \in Int /\ Abs(n) * margin \in Int
      /\ n * (p.adjbase - p.price) * m \in Int /\ (-n) * (price - p.adjbase) * m \in Int
  <2>1. (p.price - price) * (-n) \in Int /\ n * (p.adjbase - p.price) \in Int /\ (-n) * (price - p.adjbase) \in Int
    BY <1>1, IntProducts
  <2> QED
    BY <1>1, <2>1, IntProducts
<1>4. CASE StockLike
  <2>1. (-n) * p.price = 0 - n * p.price
    <3>1. \A x, z \in Int : (-z) * x = 0 - z * x
      OBVIOUS
    <3> QED
      BY <1>1, <3>1
  <2>2. TiedIn(p) = n * p.price
    BY <1>4 DEF TiedIn
  <2>3. ClosedCash(cash, p, -n, price) = cash - (-n) * p.price - (-n) * (price - p.price) * m
    BY <1>4 DEF ClosedCash
  <2>4. (p.price - price) * (-n) * m = 0 - (-n) * (price - p.price) * m /\ (-n) * (price - p.price) * m \in Int
    <3> DEFINE x == p.price
    <3> HIDE DEF n, x
    <3>1. x \in Int /\ n \in Int
      BY <1>1 DEF x
    <3>2. (x - price) * (-n) = 0 - (-n) * (price - x) /\ (-n) * (price - x) \in Int
      BY <3>1
    <3>3. \A i \in Int : (0 - i) * m = 0 - i * m /\ i * m \in Int
      BY <1>1
    <3> QED
      BY ZenonT(30), <3>2, <3>3 DEF x
  <2> HIDE DEF n, m
  <2>5. ClosedCash(cash, p, -n, price) = cash + TiedIn(p) + (p.price - price) * (-n) * m /\ TiedIn(p) \in Int
    BY <1>3, <2>1, <2>2, <2>3, <2>4
  <2> QED
    BY <1>3, <2>5 DEF n, m
<1>5. CASE ~StockLike
  <2>1. TiedIn(p) = Abs(n) * margin - n * (p.adjbase - p.price) * m
    BY <1>5 DEF TiedIn
  <2>2. ClosedCash(cash, p, -n, price) = cash + Abs(n) * margin - (-n) * (price - p.adjbase) * m
    BY <1>2, <1>5 DEF ClosedCash
  <2>3. (p.price - price) * (-n) * m = n * (p.adjbase - p.price) * m - (-n) * (price - p.adjbase) * m
    <3> DEFINE x == p.price
               z == p.adjbase
    <3> HIDE DEF n, x, z
    <3>1. x \in Int /\ z \in Int /\ n \in Int
      BY <1>1 DEF x, z
    <3>2. (x - price) * (-n) = n * (z - x) - (-n) * (price - z)
      BY <3>1
    <3> USE DEF x, z
    <3>3. \A i, j \in Int : (i - j) * m = i * m - j * m
      BY <1>1
    <3>4. n * (p.adjbase - p.price) \in Int /\ (-n) * (price - p.adjbase) \in Int
      BY <1>1, IntProducts
    <3> QED
      BY ZenonT(30), <3>2, <3>3, <3>4
  <2> HIDE DEF n, m, margin
  <2>4. ClosedCash(cash, p, -n, price) = cash + TiedIn(p) + (p.price - price) * (-n) * m /\ TiedIn(p) \in Int
    BY <1>3, <2>1, <2>2, <2>3
  <2> QED
    BY <1>3, <2>4 DEF n, m
<1> QED
  BY <1>4, <1>5

\* The three things that an order that fits can do.
Outcome(b, o, price, r) ==
    \/ b.positions[o.symbol].size = 0 /\ r = TurnedDown(b, o, price)
    \/ b.positions[o.symbol].size = 0 /\ r = EntersAt(b, o, price)
    \/ b.positions[o.symbol].size # 0 /\ r = LeavesAt(b, o, price)

\* An order that fits enters, is refused, or leaves with all that is held.
LEMMA OrderExecuted ==
    ASSUME Configured, account \in Accounts, NEW E, NEW b, NEW l, InStep(E, b, l), NEW o \in WaitingOrder,
           NEW price \in Nat, Fits(E, b, o)
    PROVE  Outcome(b, o, price, Execute(b, o, price))
<1>1. b \in Broker /\ FlatIs(b, o.symbol)
  BY DEF InStep, Books, WaitingOrder
<1>2. CASE b.positions[o.symbol].size = 0
  <2>1. Execute(b, o, price) = IF OpenedCash(b.cash, o.size, price) < 0 THEN TurnedDown(b, o, price) ELSE EntersAt(b, o, price)
    BY <1>1, <1>2, EntryExecuted DEF Fits
  <2> QED
    BY <1>2, <2>1 DEF Outcome
<1>3. CASE b.positions[o.symbol].size # 0
  <2>1. Execute(b, o, price) = LeavesAt(b, o, price)
    BY <1>1, <1>3, ExitExecuted DEF Fits
  <2> QED
    BY <1>3, <2>1 DEF Outcome
<1> QED
  BY <1>2, <1>3

\* A refused order changes nothing but its status.
LEMMA RefusalBooks ==
    ASSUME Configured, account \in Accounts, NEW E, NEW b, NEW l, InStep(E, b, l), NEW o \in WaitingOrder,
           NEW price \in Nat
    PROVE  LET r == TurnedDown(b, o, price)
               m == NotifyAnalyzers(l, r.note)
           IN InStep(E, r.broker, m) /\ OnlyAt(b, r.broker, o.symbol) /\ m.filled = l.filled
<1> DEFINE r == TurnedDown(b, o, price)
           m == NotifyAnalyzers(l, Noted(o, price, 0, "margin", FALSE, 0))
<1>1. IsLedger(l) /\ r.broker = b /\ r.note = Noted(o, price, 0, "margin", FALSE, 0)
  BY DEF InStep, TurnedDown
<1>2. /\ IsLedger(m) /\ m.positions = l.positions /\ m.filled = l.filled /\ m.realized = l.realized
      /\ m.fees = l.fees /\ m.total_net_pnl = l.total_net_pnl
  BY <1>1, RefusalNoted
<1> HIDE DEF m, r
<1>3. InStep(E, b, m)
  BY <1>2 DEF InStep, Follows, Books
<1> QED
  BY <1>1, <1>2, <1>3 DEF m, r, OnlyAt

\* An entry takes its cash out of the account into the position, and pays.
LEMMA EntryBooks ==
    ASSUME Configured, account \in Accounts, NEW E \in SUBSET (Int \ {0}), NEW b, NEW l, InStep(E, b, l),
           NEW o \in WaitingOrder, NEW price \in Nat, price > 0, o.ref \notin l.filled, Fits(E, b, o),
           b.positions[o.symbol].size = 0
    PROVE  LET r == EntersAt(b, o, price)
               m == NotifyAnalyzers(l, r.note)
           IN InStep(E, r.broker, m) /\ OnlyAt(b, r.broker, o.symbol) /\ m.filled = l.filled \union {o.ref}
<1> DEFINE r == EntersAt(b, o, price)
           c == r.broker
           sym == o.symbol
           comm == GetCommission(o.size, price)
           m == NotifyAnalyzers(l, Noted(o, price, o.size, "completed", FALSE, 0 - comm))
           p == [size |-> o.size, adjbase |-> price, price |-> price]
<1>1. /\ IsLedger(l) /\ b \in Broker /\ sym \in Symbols /\ o.size \in E /\ o.size \in Int /\ o.size # 0 /\ comm \in Int
      /\ b.cash \in Int /\ l.positions[sym].size = 0 /\ b.positions[sym] = Flat /\ b.trades[sym] = NewTrade
  BY Commissions DEF InStep, Fits, Follows, Books, FlatIs, WaitingOrder, Broker
<1>2. /\ IsLedger(m) /\ Same(l, m, sym)
      /\ m.positions[sym].size = o.size /\ m.positions[sym].avg_price = price
      /\ m.filled = l.filled \union {o.ref} /\ m.realized = l.realized
      /\ m.fees = l.fees + comm /\ m.total_net_pnl = l.total_net_pnl
  <2>1. EntryOn(l, o, price, NotifyAnalyzers(l, EntryNote(o, price)))
    BY <1>1, EntryNoted
  <2>2. m = NotifyAnalyzers(l, EntryNote(o, price))
    BY DEF EntryNote
  <2> HIDE DEF m
  <2> QED
    BY <2>1, <2>2 DEF EntryOn
<1>3. r.note = Noted(o, price, o.size, "completed", FALSE, 0 - comm)
  BY DEF EntersAt
<1>4. /\ c = [cash |-> OpenedCash(b.cash, o.size, price), positions |-> [b.positions EXCEPT ![sym] = p],
              trades |-> [b.trades EXCEPT ![sym] = [pnl |-> 0, comm |-> comm]]]
      /\ OpenedCash(b.cash, o.size, price) \in Int
  <2>1. OpenedCash(b.cash, o.size, price) \in Int
    <3>1. Flat \in BrokerPosition
      BY DEF Flat, BrokerPosition
    <3> QED
      BY <1>1, <3>1, Cashes
  <2> QED
    BY <2>1 DEF EntersAt
<1> HIDE DEF r, m, c, comm
<1>5. /\ c \in Broker /\ c.cash = OpenedCash(b.cash, o.size, price) /\ c.positions[sym] = p
      /\ c.trades[sym] = [pnl |-> 0, comm |-> comm] /\ OnlyAt(b, c, sym)
  BY <1>1, <1>4 DEF Broker, BrokerPosition, OpenTrade, OnlyAt
<1>6. c.cash = b.cash - TiedIn(p) - comm
  BY <1>1, <1>5, EntryTies DEF comm
<1>7. /\ SumFunction(Tied(c)) = SumFunction(Tied(b)) - 0 + TiedIn(p)
      /\ SumFunction(OpenFees(c)) = SumFunction(OpenFees(b)) - 0 + comm
      /\ TiedIn(p) \in Int /\ SumFunction(Tied(b)) \in Int /\ SumFunction(OpenFees(b)) \in Int
  <2>1. /\ SumFunction(Tied(c)) = SumFunction(Tied(b)) - TiedIn(b.positions[sym]) + TiedIn(c.positions[sym])
        /\ SumFunction(OpenFees(c)) = SumFunction(OpenFees(b)) - b.trades[sym].comm + c.trades[sym].comm
        /\ TiedIn(c.positions[sym]) \in Int
    BY <1>1, <1>5, SumsChange
  <2>2. SumFunction(Tied(b)) \in Int /\ SumFunction(OpenFees(b)) \in Int
    BY <1>1, SumTypes
  <2>3. b.trades[sym].comm = 0 /\ c.trades[sym].comm = comm
    BY <1>1, <1>5 DEF NewTrade
  <2> QED
    BY <1>1, <1>5, <2>1, <2>2, <2>3, NothingTied
<1> HIDE DEF p
<1>8. /\ l.realized \in Int /\ l.fees \in Int /\ l.total_net_pnl \in Int /\ StartingCash \in Int
  BY <1>1 DEF IsLedger, Configured, BacktraderAssumption
<1>9. /\ c.cash + SumFunction(Tied(c)) = StartingCash + m.realized - m.fees
      /\ m.total_net_pnl - SumFunction(OpenFees(c)) = m.realized - m.fees
  <2>1. /\ b.cash + SumFunction(Tied(b)) = StartingCash + l.realized - l.fees
        /\ l.total_net_pnl - SumFunction(OpenFees(b)) = l.realized - l.fees
    BY DEF InStep, Books
  <2>2. comm \in Int /\ b.cash \in Int /\ m.realized = l.realized /\ m.fees = l.fees + comm /\ m.total_net_pnl = l.total_net_pnl
    BY <1>1, <1>2
  <2> QED
    BY <1>6, <1>7, <1>8, <2>1, <2>2
<1>10. p.size = o.size /\ p.price = price
  BY DEF p
<1>11. ASSUME NEW s \in Symbols
       PROVE  /\ FlatIs(c, s) /\ c.trades[s].pnl = 0 /\ c.positions[s].size \in E \union {0}
              /\ m.positions[s].size = c.positions[s].size /\ m.positions[s].avg_price = c.positions[s].price
  <2>1. CASE s = sym
    BY <1>1, <1>2, <1>5, <1>10, <2>1 DEF FlatIs
  <2>2. CASE s # sym
    BY <1>2, <1>5, <2>2 DEF FlatIs, OnlyAt, Same, InStep, Books, Follows
  <2> QED
    BY <2>1, <2>2
<1>12. InStep(E, c, m)
  BY <1>2, <1>5, <1>9, <1>11 DEF InStep, Books, Follows
<1> QED
  BY <1>2, <1>3, <1>5, <1>12 DEF m, c, r

\* An exit returns it with the gain, and pays again.
LEMMA ExitBooks ==
    ASSUME Configured, account \in Accounts, NEW E \in SUBSET (Int \ {0}), NEW b, NEW l, InStep(E, b, l),
           NEW o \in WaitingOrder, NEW price \in Nat, price > 0, o.ref \notin l.filled, Fits(E, b, o),
           b.positions[o.symbol].size # 0
    PROVE  LET r == LeavesAt(b, o, price)
               m == NotifyAnalyzers(l, r.note)
           IN InStep(E, r.broker, m) /\ OnlyAt(b, r.broker, o.symbol) /\ m.filled = l.filled \union {o.ref}
<1> DEFINE r == LeavesAt(b, o, price)
           c == r.broker
           sym == o.symbol
           comm == GetCommission(o.size, price)
           p == b.positions[sym]
           gain == (p.price - price) * o.size * account.mult
           paid == b.trades[sym].comm
           net == b.trades[sym].pnl + Gain(b, o, price) - (paid + comm)
           m == NotifyAnalyzers(l, Noted(o, price, o.size, "completed", TRUE, net))
<1>1. /\ IsLedger(l) /\ b \in Broker /\ sym \in Symbols /\ o.size \in Int /\ o.size # 0 /\ comm \in Int
      /\ p \in BrokerPosition /\ p.size \in Int /\ o.size = -p.size /\ b.cash \in Int
      /\ l.positions[sym].size = p.size /\ l.positions[sym].avg_price = p.price
      /\ b.trades[sym].pnl = 0 /\ paid \in Int
  BY Commissions DEF InStep, Fits, Follows, Books, WaitingOrder, Broker, BrokerPosition, OpenTrade
<1>2. /\ ClosedCash(b.cash, p, -p.size, price) = b.cash + TiedIn(p) + (p.price - price) * (-p.size) * account.mult
      /\ (p.price - price) * (-p.size) * account.mult \in Int /\ TiedIn(p) \in Int
  BY <1>1, ExitFrees
<1>3. ClosedCash(b.cash, p, o.size, price) = b.cash + TiedIn(p) + gain /\ gain \in Int /\ TiedIn(p) \in Int
  BY <1>1, <1>2
<1>4. net = gain - (paid + comm) /\ net \in Int
  <2>1. Gain(b, o, price) = gain
    BY DEF Gain
  <2> HIDE DEF gain, paid, comm
  <2> QED
    BY <1>1, <1>3, <2>1
<1>5. l.positions[sym].size = -o.size
  BY <1>1
<1>6. /\ IsLedger(m) /\ Same(l, m, sym)
      /\ m.positions[sym].size = 0 /\ m.positions[sym].avg_price = 0
      /\ m.filled = l.filled \union {o.ref}
      /\ m.realized = l.realized + (l.positions[sym].avg_price - price) * o.size * account.mult
      /\ m.fees = l.fees + comm /\ m.total_net_pnl = l.total_net_pnl + net
  <2> HIDE DEF net, p, gain, paid
  <2>1. ExitOn(l, o, price, net, NotifyAnalyzers(l, ExitNote(o, price, net)))
    BY <1>1, <1>4, <1>5, ExitNoted
  <2>2. m = NotifyAnalyzers(l, ExitNote(o, price, net))
    BY DEF ExitNote
  <2> HIDE DEF m
  <2> QED
    BY <2>1, <2>2 DEF ExitOn
<1>7. m.realized = l.realized + gain
  BY <1>1, <1>6
<1>8. r.note = Noted(o, price, o.size, "completed", TRUE, net)
  BY DEF LeavesAt
<1>9. c = [cash |-> ClosedCash(b.cash, p, o.size, price) - comm, positions |-> [b.positions EXCEPT ![sym] = Flat],
           trades |-> [b.trades EXCEPT ![sym] = NewTrade]]
  BY DEF LeavesAt
<1> HIDE DEF r, m, c, comm, gain, net, paid
<1>10. ClosedCash(b.cash, p, o.size, price) - comm \in Int
  BY <1>1, <1>3
<1>11. /\ c \in Broker /\ c.cash = ClosedCash(b.cash, p, o.size, price) - comm /\ c.positions[sym] = Flat
       /\ c.trades[sym] = NewTrade /\ OnlyAt(b, c, sym)
  BY <1>1, <1>9, <1>10 DEF Broker, BrokerPosition, OpenTrade, OnlyAt, Flat, NewTrade
<1>12. /\ SumFunction(Tied(c)) = SumFunction(Tied(b)) - TiedIn(p) + 0
       /\ SumFunction(OpenFees(c)) = SumFunction(OpenFees(b)) - paid + 0
       /\ SumFunction(Tied(b)) \in Int /\ SumFunction(OpenFees(b)) \in Int
  <2>1. /\ SumFunction(Tied(c)) = SumFunction(Tied(b)) - TiedIn(b.positions[sym]) + TiedIn(c.positions[sym])
        /\ SumFunction(OpenFees(c)) = SumFunction(OpenFees(b)) - b.trades[sym].comm + c.trades[sym].comm
    BY <1>1, <1>11, SumsChange
  <2>2. SumFunction(Tied(b)) \in Int /\ SumFunction(OpenFees(b)) \in Int
    BY <1>1, SumTypes
  <2>3. b.trades[sym].comm = paid /\ c.trades[sym].comm = 0
    BY <1>11 DEF NewTrade, paid
  <2>4. b.positions[sym] = p
    OBVIOUS
  <2> HIDE DEF p
  <2> QED
    BY <1>11, <2>1, <2>2, <2>3, <2>4, NothingTied
<1>13. /\ l.realized \in Int /\ l.fees \in Int /\ l.total_net_pnl \in Int /\ StartingCash \in Int
  BY <1>1 DEF IsLedger, Configured, BacktraderAssumption
<1>14. /\ c.cash + SumFunction(Tied(c)) = StartingCash + m.realized - m.fees
       /\ m.total_net_pnl - SumFunction(OpenFees(c)) = m.realized - m.fees
  <2>1. /\ b.cash + SumFunction(Tied(b)) = StartingCash + l.realized - l.fees
        /\ l.total_net_pnl - SumFunction(OpenFees(b)) = l.realized - l.fees
    BY DEF InStep, Books
  <2> HIDE DEF p
  <2> QED
    BY <1>1, <1>3, <1>4, <1>6, <1>7, <1>11, <1>12, <1>13, <2>1
<1>15. ASSUME NEW s \in Symbols
       PROVE  /\ FlatIs(c, s) /\ c.trades[s].pnl = 0 /\ c.positions[s].size \in E \union {0}
              /\ m.positions[s].size = c.positions[s].size /\ m.positions[s].avg_price = c.positions[s].price
  <2>1. CASE s = sym
    BY <1>6, <1>11, <2>1 DEF FlatIs, Flat, NewTrade
  <2>2. CASE s # sym
    BY <1>6, <1>11, <2>2 DEF FlatIs, OnlyAt, Same, InStep, Books, Follows
  <2> QED
    BY <2>1, <2>2
<1>16. InStep(E, c, m)
  BY <1>6, <1>11, <1>14, <1>15 DEF InStep, Books, Follows
<1> QED
  BY <1>6, <1>8, <1>11, <1>16 DEF m, c, r

-----------------------------------------------------------------------------
(* The orders of a turn, one after the other.                               *)

OneRun(p, acc, o) == RunOrder(acc, o, p[2], p[3], p[4])
NoneRun(p) == [broker |-> p[1], notes |-> <<>>]
R == INSTANCE FoldLemmas WITH op <- OneRun, base <- NoneRun

OneNote(p, l, note) == NotifyAnalyzers(l, note)
NoNote(l) == l
N == INSTANCE FoldLemmas WITH op <- OneNote, base <- NoNote

\* What the analyzers make of the notifications.
Told(l, notes) == FoldLeft(NotifyAnalyzers, l, notes)

\* The orders of a turn are executed one after the other: a fold.
LEMMA RunIsFold == \A b, w, f, before, now : RunOrders(b, w, f, before, now) = R!Fold(<<b, f, before, now>>, w)
BY DEF RunOrders, OneRun, NoneRun, R!Fold, FoldLeft, MapThenFoldSet, Max, R!MapThenFoldSet, R!Max

\* The analyzers are told of one note after the other: a fold.
LEMMA ToldIsFold == \A l, notes : Told(l, notes) = N!Fold(l, notes)
BY DEF Told, OneNote, NoNote, N!Fold, FoldLeft, MapThenFoldSet, Max, N!MapThenFoldSet, N!Max

\* No order, and one order more.
LEMMA RunNothing == \A b, f, before, now : RunOrders(b, <<>>, f, before, now) = [broker |-> b, notes |-> <<>>]
<1> SUFFICES ASSUME NEW b, NEW f, NEW before, NEW now
             PROVE  RunOrders(b, <<>>, f, before, now) = [broker |-> b, notes |-> <<>>]
  OBVIOUS
<1> DEFINE p == <<b, f, before, now>>
<1>1. R!Fold(p, <<>>) = NoneRun(p)
  BY R!FoldEmpty
<1>2. p[1] = b
  OBVIOUS
<1> HIDE DEF p
<1>3. RunOrders(b, <<>>, f, before, now) = R!Fold(p, <<>>)
  BY RunIsFold DEF p
<1> QED
  BY <1>1, <1>2, <1>3 DEF NoneRun

\* One more order is executed after the others.
LEMMA RunAppend ==
    ASSUME NEW S, NEW s \in Seq(S), NEW x \in S, NEW b, NEW f, NEW before, NEW now
    PROVE  RunOrders(b, Append(s, x), f, before, now) = RunOrder(RunOrders(b, s, f, before, now), x, f, before, now)
<1> DEFINE p == <<b, f, before, now>>
<1>1. R!Fold(p, Append(s, x)) = OneRun(p, R!Fold(p, s), x)
  BY R!FoldAppend
<1> QED
  BY <1>1, RunIsFold DEF OneRun

\* Without notes the ledger stays.
LEMMA ToldNothing == \A l : Told(l, <<>>) = l
BY ToldIsFold, N!FoldEmpty DEF NoNote

\* One more note is told after the others.
LEMMA ToldAppend ==
    ASSUME NEW S, NEW s \in Seq(S), NEW x \in S, NEW l
    PROVE  Told(l, Append(s, x)) = NotifyAnalyzers(Told(l, s), x)
<1>1. N!Fold(l, Append(s, x)) = OneNote(l, N!Fold(l, s), x)
  BY N!FoldAppend
<1> QED
  BY <1>1, ToldIsFold DEF OneNote

Note == [order : WaitingOrder, price : Nat, size : Int, comm : Int, status : {"completed", "margin"},
         closedTrade : BOOLEAN, pnlcomm : Int]

\* Every outcome notifies.
LEMMA NoteOf ==
    ASSUME Configured, account \in Accounts, NEW b \in Broker, NEW o \in WaitingOrder, NEW price \in Nat, NEW r,
           Outcome(b, o, price, r)
    PROVE  r.note \in Note /\ r.note.order = o /\ r.note.price = price
<1> DEFINE p == b.positions[o.symbol]
           t == b.trades[o.symbol]
<1>1. /\ o.size \in Int /\ p.price \in Nat /\ t.pnl \in Int /\ t.comm \in Int
      /\ GetCommission(o.size, price) \in Int /\ GetCommission(0, price) \in Int
  <2>1. o.size \in Int /\ o.symbol \in Symbols
    BY DEF WaitingOrder
  <2>2. p \in BrokerPosition /\ t \in OpenTrade
    BY <2>1 DEF Broker
  <2>3. p.price \in Nat /\ t.pnl \in Int /\ t.comm \in Int
    BY <2>2 DEF BrokerPosition, OpenTrade
  <2>4. GetCommission(o.size, price) \in Int /\ GetCommission(0, price) \in Int
    BY <2>1, Commissions
  <2> QED
    BY <2>1, <2>3, <2>4
<1>2. Gain(b, o, price) \in Int
  <2>1. p.price - price \in Int /\ account.mult \in Int
    BY <1>1, AccountTypes
  <2> QED
    BY <1>1, <2>1, IntProducts DEF Gain
<1> DEFINE net == t.pnl + Gain(b, o, price) - (t.comm + GetCommission(o.size, price))
<1>3. net \in Int /\ 0 - GetCommission(o.size, price) \in Int
  BY <1>1, <1>2
<1>4. \/ r.note = Noted(o, price, 0, "margin", FALSE, 0)
      \/ r.note = Noted(o, price, o.size, "completed", FALSE, 0 - GetCommission(o.size, price))
      \/ r.note = Noted(o, price, o.size, "completed", TRUE, net)
  <2>1. CASE r = TurnedDown(b, o, price)
    BY <2>1 DEF TurnedDown
  <2>2. CASE r = EntersAt(b, o, price)
    BY <2>2 DEF EntersAt
  <2>3. CASE r = LeavesAt(b, o, price)
    BY <2>3 DEF LeavesAt
  <2> QED
    BY <2>1, <2>2, <2>3 DEF Outcome
<1> HIDE DEF net
<1>5. ASSUME NEW size, NEW n, NEW status, NEW done, Numbers(size, n, GetCommission(size, price)),
             status \in {"completed", "margin"}, done \in BOOLEAN
      PROVE  Noted(o, price, size, status, done, n) \in Note /\ Noted(o, price, size, status, done, n).order = o
             /\ Noted(o, price, size, status, done, n).price = price
  BY <1>5 DEF Noted, Note, Numbers
<1>9. /\ Numbers(0, 0, GetCommission(0, price)) /\ Numbers(o.size, net, GetCommission(o.size, price))
      /\ Numbers(o.size, 0 - GetCommission(o.size, price), GetCommission(o.size, price))
  BY <1>1, <1>3 DEF Numbers
<1>6. CASE r.note = Noted(o, price, 0, "margin", FALSE, 0)
  BY <1>5, <1>6, <1>9
<1>7. CASE r.note = Noted(o, price, o.size, "completed", FALSE, 0 - GetCommission(o.size, price))
  <2>1. r.note = [order |-> o, price |-> price, size |-> o.size, comm |-> GetCommission(o.size, price),
                 status |-> "completed", closedTrade |-> FALSE, pnlcomm |-> 0 - GetCommission(o.size, price)]
    BY <1>7 DEF Noted
  <2> QED
    BY <1>1, <1>3, <2>1 DEF Note
<1>8. CASE r.note = Noted(o, price, o.size, "completed", TRUE, net)
  <2>1. r.note = [order |-> o, price |-> price, size |-> o.size, comm |-> GetCommission(o.size, price),
                 status |-> "completed", closedTrade |-> TRUE, pnlcomm |-> net]
    BY <1>8 DEF Noted
  <2> QED
    BY <1>1, <1>3, <2>1 DEF Note
<1> QED
  BY <1>4, <1>6, <1>7, <1>8

\* A waiting order and its price, if it runs.
Price(o, before, now) == IF account.coc THEN before[o.symbol].close ELSE now[o.symbol].open

\* Orders that may run: each of its own symbol and with a number of its own, and all of them fit.
MayRun(E, b, q, filled, fresh, before, now) ==
    /\ \A i, j \in DOMAIN q : q[i].symbol = q[j].symbol \/ q[i].ref = q[j].ref => i = j
    /\ \A i \in DOMAIN q : /\ q[i].ref \notin filled /\ Fits(E, b, q[i])
                           /\ q[i].symbol \in fresh => Price(q[i], before, now) \in Nat \ {0}

\* What has become of the orders that had their turn.
Refs(q, fresh) == {q[i].ref : i \in {j \in DOMAIN q : q[j].symbol \in fresh}}

HasRun(E, b, q, fresh, l, c) ==
    /\ c.notes \in Seq(Note)
    /\ InStep(E, c.broker, Told(l, c.notes))
    /\ Told(l, c.notes).filled \subseteq l.filled \union Refs(q, fresh)
    /\ \A s \in Symbols : (\A i \in DOMAIN q : q[i].symbol = s => s \notin fresh) =>
           c.broker.positions[s] = b.positions[s] /\ c.broker.trades[s] = b.trades[s]

\* The first orders may run if all may.
LEMMA FirstMayRun ==
    ASSUME NEW E, NEW b, NEW q \in Seq(WaitingOrder), NEW o \in WaitingOrder, NEW filled, NEW fresh, NEW before, NEW now,
           MayRun(E, b, Append(q, o), filled, fresh, before, now)
    PROVE  /\ MayRun(E, b, q, filled, fresh, before, now)
           /\ \A i \in DOMAIN q : q[i].symbol # o.symbol /\ q[i].ref # o.ref
           /\ o.ref \notin filled /\ Fits(E, b, o)
           /\ o.symbol \in fresh => Price(o, before, now) \in Nat \ {0}
<1> DEFINE w == Append(q, o)
           n == Len(q) + 1
<1>1. /\ DOMAIN w = 1 .. n /\ DOMAIN q = 1 .. Len(q) /\ Len(q) \in Nat /\ w[n] = o
      /\ \A i \in DOMAIN q : w[i] = q[i] /\ i \in DOMAIN w /\ i # n
  OBVIOUS
<1>2. n \in DOMAIN w
  BY <1>1
<1> HIDE DEF w, n
<1>3. MayRun(E, b, w, filled, fresh, before, now)
  BY DEF w
<1>4. \A i \in DOMAIN q : q[i].symbol # o.symbol /\ q[i].ref # o.ref
  BY <1>1, <1>2, <1>3 DEF MayRun
<1>5. MayRun(E, b, q, filled, fresh, before, now)
  BY <1>1, <1>3 DEF MayRun
<1> QED
  BY <1>1, <1>2, <1>3, <1>4, <1>5 DEF MayRun

\* One order that has its turn.
LEMMA OneOrder ==
    ASSUME Configured, account \in Accounts, NEW E \in SUBSET (Int \ {0}), NEW b, NEW c, NEW l, NEW q \in Seq(WaitingOrder),
           NEW o \in WaitingOrder, NEW fresh, NEW before, NEW now,
           MayRun(E, b, Append(q, o), l.filled, fresh, before, now), HasRun(E, b, q, fresh, l, c), o.symbol \in fresh
    PROVE  LET r == Execute(c.broker, o, Price(o, before, now))
           IN /\ Outcome(c.broker, o, Price(o, before, now), r) /\ Price(o, before, now) \in Nat \ {0}
              /\ r.note \in Note /\ r.note.order = o
              /\ InStep(E, r.broker, NotifyAnalyzers(Told(l, c.notes), r.note)) /\ OnlyAt(c.broker, r.broker, o.symbol)
              /\ NotifyAnalyzers(Told(l, c.notes), r.note).filled \subseteq Told(l, c.notes).filled \union {o.ref}
              /\ c.broker.positions[o.symbol] = b.positions[o.symbol]
<1> DEFINE price == Price(o, before, now)
           k == Told(l, c.notes)
           d == c.broker
           r == Execute(d, o, price)
<1>1. /\ \A i \in DOMAIN q : q[i].symbol # o.symbol /\ q[i].ref # o.ref
      /\ o.ref \notin l.filled /\ Fits(E, b, o) /\ price \in Nat \ {0}
  BY FirstMayRun
<1>2. InStep(E, d, k) /\ d \in Broker
  BY DEF HasRun, InStep
<1>3. d.positions[o.symbol] = b.positions[o.symbol] /\ o.ref \notin k.filled
  BY <1>1 DEF HasRun, WaitingOrder, Refs
<1>4. Fits(E, d, o)
  BY <1>1, <1>3 DEF Fits
<1> HIDE DEF price, k, d, r
<1>5. price \in Nat /\ price > 0
  BY <1>1
<1>6. Outcome(d, o, price, r)
  BY <1>2, <1>4, <1>5, OrderExecuted DEF r
<1>7. r.note \in Note /\ r.note.order = o
  BY <1>2, <1>5, <1>6, NoteOf
<1>8. /\ InStep(E, r.broker, NotifyAnalyzers(k, r.note)) /\ OnlyAt(d, r.broker, o.symbol)
      /\ NotifyAnalyzers(k, r.note).filled \subseteq k.filled \union {o.ref}
  <2>1. CASE r = TurnedDown(d, o, price)
    <3>1. InStep(E, r.broker, NotifyAnalyzers(k, r.note)) /\ OnlyAt(d, r.broker, o.symbol)
          /\ NotifyAnalyzers(k, r.note).filled = k.filled
      BY <1>2, <1>5, <2>1, RefusalBooks
    <3> QED
      BY <3>1
  <2>2. CASE d.positions[o.symbol].size = 0 /\ r = EntersAt(d, o, price)
    <3>1. InStep(E, r.broker, NotifyAnalyzers(k, r.note)) /\ OnlyAt(d, r.broker, o.symbol)
          /\ NotifyAnalyzers(k, r.note).filled = k.filled \union {o.ref}
      BY <1>2, <1>3, <1>4, <1>5, <2>2, EntryBooks
    <3> QED
      BY <3>1
  <2>3. CASE d.positions[o.symbol].size # 0 /\ r = LeavesAt(d, o, price)
    <3>1. InStep(E, r.broker, NotifyAnalyzers(k, r.note)) /\ OnlyAt(d, r.broker, o.symbol)
          /\ NotifyAnalyzers(k, r.note).filled = k.filled \union {o.ref}
      BY <1>2, <1>3, <1>4, <1>5, <2>3, ExitBooks
    <3> QED
      BY <3>1
  <2> QED
    BY <1>6, <2>1, <2>2, <2>3 DEF Outcome
<1> QED
  BY <1>1, <1>3, <1>6, <1>7, <1>8 DEF price, k, d, r

\* Its turn keeps what has been kept so far.
LEMMA OneHasRun ==
    ASSUME Configured, account \in Accounts, NEW E \in SUBSET (Int \ {0}), NEW b, NEW c, NEW l, NEW q \in Seq(WaitingOrder),
           NEW o \in WaitingOrder, NEW fresh, NEW before, NEW now,
           MayRun(E, b, Append(q, o), l.filled, fresh, before, now), HasRun(E, b, q, fresh, l, c)
    PROVE  HasRun(E, b, Append(q, o), fresh, l, RunOrder(c, o, fresh, before, now))
<1> DEFINE w == Append(q, o)
           r == Execute(c.broker, o, Price(o, before, now))
           k == Told(l, c.notes)
           m == NotifyAnalyzers(k, r.note)
           next == RunOrder(c, o, fresh, before, now)
<1>1. \A i \in DOMAIN q : i \in DOMAIN w /\ w[i] = q[i]
  OBVIOUS
<1>2. Len(w) \in DOMAIN w /\ w[Len(w)] = o /\ c.notes \in Seq(Note)
  BY DEF HasRun
<1>3. /\ Refs(q, fresh) \subseteq Refs(w, fresh) /\ (o.symbol \in fresh => o.ref \in Refs(w, fresh))
      /\ \A s \in Symbols : (\A i \in DOMAIN w : w[i].symbol = s => s \notin fresh)
             => (o.symbol \in fresh => s # o.symbol) /\ \A i \in DOMAIN q : q[i].symbol = s => s \notin fresh
  <2> HIDE DEF w
  <2> QED
    BY <1>1, <1>2 DEF Refs
<1> HIDE DEF w
<1>4. CASE o.symbol \notin fresh
  <2>1. next = c
    BY <1>4 DEF RunOrder
  <2> HIDE DEF next
  <2>2. HasRun(E, b, w, fresh, l, c)
    BY <1>3 DEF HasRun
  <2> QED
    BY <2>1, <2>2 DEF w, next
<1>5. CASE o.symbol \in fresh
  <2>1. next = [broker |-> r.broker, notes |-> Append(c.notes, r.note)]
    BY <1>5 DEF RunOrder, Price
  <2>2. /\ r.note \in Note /\ InStep(E, r.broker, m) /\ OnlyAt(c.broker, r.broker, o.symbol)
        /\ m.filled \subseteq k.filled \union {o.ref}
    BY <1>5, OneOrder
  <2> HIDE DEF r
  <2>3. Told(l, Append(c.notes, r.note)) = m
    BY <1>2, <2>2, ToldAppend
  <2> HIDE DEF m, next
  <2>4. next.broker = r.broker /\ next.notes = Append(c.notes, r.note) /\ next.notes \in Seq(Note)
    BY <1>2, <2>1, <2>2
  <2>5. InStep(E, next.broker, Told(l, next.notes)) /\ Told(l, next.notes).filled \subseteq k.filled \union {o.ref}
    BY <2>2, <2>3, <2>4
  <2>6. Told(l, next.notes).filled \subseteq l.filled \union Refs(w, fresh)
    BY <1>3, <1>5, <2>5 DEF HasRun
  <2>7. ASSUME NEW s \in Symbols, \A i \in DOMAIN w : w[i].symbol = s => s \notin fresh
        PROVE  next.broker.positions[s] = b.positions[s] /\ next.broker.trades[s] = b.trades[s]
    BY <1>3, <1>5, <2>2, <2>4, <2>7 DEF HasRun, OnlyAt
  <2>8. HasRun(E, b, w, fresh, l, next)
    BY <2>4, <2>5, <2>6, <2>7 DEF HasRun
  <2> QED
    BY <2>8 DEF w, next
<1> QED
  BY <1>4, <1>5

\* All of them.
LEMMA AllHaveRun ==
    ASSUME Configured, account \in Accounts, NEW E \in SUBSET (Int \ {0}), NEW b, NEW l, InStep(E, b, l),
           NEW fresh, NEW before, NEW now, NEW q \in Seq(WaitingOrder), MayRun(E, b, q, l.filled, fresh, before, now)
    PROVE  HasRun(E, b, q, fresh, l, RunOrders(b, q, fresh, before, now))
<1> DEFINE Run(s) == RunOrders(b, s, fresh, before, now)
           Good == {s \in Seq(WaitingOrder) : MayRun(E, b, s, l.filled, fresh, before, now) => HasRun(E, b, s, fresh, l, Run(s))}
<1>1. <<>> \in Good
  <2> DEFINE none == [broker |-> b, notes |-> <<>>]
  <2>1. Run(<<>>) = none /\ Told(l, <<>>) = l
    BY RunNothing, ToldNothing
  <2>2. HasRun(E, b, <<>>, fresh, l, none)
    <3>1. none.broker = b /\ none.notes = <<>> /\ <<>> \in Seq(Note)
      OBVIOUS
    <3> HIDE DEF none
    <3> QED
      BY <2>1, <3>1 DEF HasRun
  <2> QED
    BY <2>1, <2>2
<1>2. ASSUME NEW s \in Seq(WaitingOrder), NEW o \in WaitingOrder, s \in Good
      PROVE  Append(s, o) \in Good
  <2>1. Append(s, o) \in Seq(WaitingOrder)
    OBVIOUS
  <2>2. ASSUME MayRun(E, b, Append(s, o), l.filled, fresh, before, now)
        PROVE  HasRun(E, b, Append(s, o), fresh, l, Run(Append(s, o)))
    <3>1. HasRun(E, b, s, fresh, l, Run(s))
      BY <1>2, <2>2, FirstMayRun
    <3>2. Run(Append(s, o)) = RunOrder(Run(s), o, fresh, before, now)
      BY RunAppend
    <3> HIDE DEF Run
    <3> QED
      BY <2>2, <3>1, <3>2, OneHasRun
  <2> QED
    BY <2>1, <2>2
<1> HIDE DEF Good
<1>3. Seq(WaitingOrder) \subseteq Good
  BY <1>1, <1>2, R!SequenceInduction
<1> QED
  BY <1>3 DEF Good

-----------------------------------------------------------------------------
(* Marking to the market moves cash and what is tied up, in step.           *)

LastBars == [Symbols -> [open : Nat, high : Nat, low : Nat, close : Nat, dt : Nat]]
Mark(b, last, s) == b.positions[s].size * (last[s].close - b.positions[s].adjbase) * account.mult

\* Marking to the market leaves the positions and keeps the books in step.
LEMMA MarkedBooks ==
    ASSUME Configured, account \in Accounts, NEW E \in SUBSET (Int \ {0}), NEW b, NEW l, InStep(E, b, l),
           NEW last \in LastBars
    PROVE  LET c == MarkToMarket(b, last)
           IN /\ InStep(E, c, l)
              /\ \A s \in Symbols : c.positions[s].size = b.positions[s].size /\ c.positions[s].price = b.positions[s].price
<1> DEFINE c == MarkToMarket(b, last)
           marks == [s \in Symbols |-> Mark(b, last, s)]
<1>1. b \in Broker /\ account.mult \in Int /\ b.cash \in Int /\ \A s \in Symbols : last[s].close \in Nat
  BY AccountTypes DEF InStep, Broker, LastBars
<1>2. CASE StockLike
  <2>1. c = b
    BY <1>2 DEF MarkToMarket
  <2> HIDE DEF c
  <2> QED
    BY <2>1 DEF c
<1>3. CASE ~StockLike
  <2>1. ASSUME NEW s \in Symbols PROVE marks[s] \in Int /\ (b.positions[s].size = 0 => marks[s] = 0)
    <3> DEFINE p == b.positions[s]
               d == last[s].close - p.adjbase
    <3>1. p.size \in Int /\ d \in Int /\ p.size * d \in Int
      BY <1>1, IntProducts DEF Broker, BrokerPosition
    <3>2. marks[s] = p.size * d * account.mult
      BY DEF Mark
    <3> HIDE DEF marks, d, p
    <3>3. marks[s] \in Int
      BY <1>1, <3>1, <3>2, IntProducts
    <3>4. p.size = 0 => marks[s] = 0
      BY <1>1, <3>1, <3>2
    <3> QED
      BY <3>3, <3>4 DEF p
  <2>2. marks \in [Symbols -> Int]
    BY <2>1
  <2>3. c = [b EXCEPT !.cash = @ + SumFunction(marks),
                      !.positions = [s \in Symbols |->
                          IF @[s].size = 0 THEN @[s] ELSE [@[s] EXCEPT !.adjbase = last[s].close]]]
    BY <1>3 DEF MarkToMarket, Mark
  <2>4. IsFiniteSet(Symbols) /\ Tied(b) \in [Symbols -> Int] /\ SumFunction(Tied(b)) \in Int
        /\ SumFunction(OpenFees(b)) \in Int
    BY <1>1, SumTypes
  <2>5. SumFunction(marks) \in Int
    BY <2>2, <2>4, SumWithout
  <2> HIDE DEF c, marks
  <2>6. /\ c.cash = b.cash + SumFunction(marks) /\ c.cash \in Int /\ c.trades = b.trades
        /\ \A s \in Symbols : c.positions[s] = IF b.positions[s].size = 0 THEN b.positions[s]
                                               ELSE [b.positions[s] EXCEPT !.adjbase = last[s].close]
    BY <1>1, <2>3, <2>5 DEF Broker
  <2>7. ASSUME NEW s \in Symbols
        PROVE  /\ c.positions[s] \in BrokerPosition /\ c.positions[s].size = b.positions[s].size
               /\ c.positions[s].price = b.positions[s].price
               /\ b.positions[s].size = 0 => c.positions[s] = b.positions[s]
               /\ b.positions[s].size # 0 => c.positions[s].adjbase = last[s].close
    <3> DEFINE p == b.positions[s]
               q == c.positions[s]
               z == last[s].close
    <3>1. p \in BrokerPosition /\ z \in Nat /\ q = IF p.size = 0 THEN p ELSE [p EXCEPT !.adjbase = z]
      BY <1>1, <2>6 DEF Broker
    <3> HIDE DEF p, q, z
    <3>2. CASE p.size = 0
      <4>1. q = p
        BY <3>1, <3>2
      <4> QED
        BY <3>1, <3>2, <4>1 DEF p, q, z
    <3>3. CASE p.size # 0
      <4>1. q = [p EXCEPT !.adjbase = z]
        BY <3>1, <3>3
      <4>2. q \in BrokerPosition /\ q.size = p.size /\ q.price = p.price /\ q.adjbase = z
        BY <3>1, <4>1 DEF BrokerPosition
      <4> QED
        BY <3>3, <4>2 DEF p, q, z
    <3> QED
      BY <3>2, <3>3
  <2>8. c \in Broker
    <3>1. DOMAIN c.positions = Symbols /\ c.positions = [s \in Symbols |-> c.positions[s]]
          /\ c = [cash |-> c.cash, positions |-> c.positions, trades |-> c.trades]
      BY <1>1, <2>3 DEF Broker
    <3>2. c.positions \in [Symbols -> BrokerPosition]
      BY <2>7, <3>1
    <3> QED
      BY <1>1, <2>6, <3>1, <3>2 DEF Broker
  <2>9. ASSUME NEW s \in Symbols PROVE Tied(b)[s] = Tied(c)[s] + marks[s] /\ Tied(c)[s] \in Int
    <3> DEFINE p == b.positions[s]
               q == c.positions[s]
    <3>1. Tied(b)[s] = TiedIn(p) /\ Tied(c)[s] = TiedIn(q)
      BY DEF Tied
    <3>2. TiedIn(p) \in Int /\ TiedIn(q) \in Int
      BY <1>1, <2>4, <2>8, <3>1, SumTypes
    <3>3. CASE p.size = 0
      BY <2>1, <2>7, <3>1, <3>2, <3>3
    <3>4. CASE p.size # 0
      <4> DEFINE n == p.size
                 m == account.mult
                 x == p.price
                 z == last[s].close
                 held == Abs(n) * GetMargin(x)
      <4>1. n \in Int /\ m \in Int /\ x \in Int /\ z \in Int /\ p.adjbase \in Int /\ p.price \in Nat
        BY <1>1 DEF Broker, BrokerPosition
      <4>2. held \in Int
        <5>1. GetMargin(p.price) \in Int
          BY <4>1, Margins
        <5>2. Abs(n) \in Int
          BY <4>1 DEF Abs
        <5> QED
          BY <5>1, <5>2, IntProducts
      <4>3. TiedIn(p) = held - n * (p.adjbase - x) * m /\ TiedIn(q) = held - n * (z - x) * m
        BY <1>3, <2>7, <3>4 DEF TiedIn
      <4>4. marks[s] = n * (z - p.adjbase) * m
        BY DEF marks, Mark
      <4> DEFINE y == p.adjbase
      <4>0. y \in Int
        BY <4>1
      <4> HIDE DEF n, m, x, z, held, y
      <4>5. n * (y - x) * m = n * (z - x) * m - n * (z - y) * m
        <5>1. n * (y - x) = n * (z - x) - n * (z - y) /\ n * (z - x) \in Int /\ n * (z - y) \in Int
          BY <4>0, <4>1
        <5>2. \A i, j \in Int : (i - j) * m = i * m - j * m
          BY <4>1
        <5> QED
          BY <5>1, <5>2
      <4>6. n * (z - x) * m \in Int /\ n * (z - y) * m \in Int
        <5>1. n * (z - x) \in Int /\ n * (z - y) \in Int
          BY <4>0, <4>1, IntProducts
        <5> QED
          BY <4>1, <5>1, IntProducts
      <4>7. TiedIn(p) = held - n * (y - x) * m /\ marks[s] = n * (z - y) * m
        BY <4>3, <4>4 DEF y
      <4> QED
        BY <3>1, <3>2, <4>2, <4>3, <4>5, <4>6, <4>7
    <3> QED
      BY <3>3, <3>4
  <2>10. Tied(c) \in [Symbols -> Int]
    BY <2>8, SumTypes
  <2>11. SumFunction(Tied(b)) = SumFunction(Tied(c)) + SumFunction(marks) /\ SumFunction(Tied(c)) \in Int
    <3>1. \A s \in Symbols : Tied(b)[s] = Tied(c)[s] + marks[s]
      BY <2>9
    <3>2. SumFunction(Tied(b)) = SumFunction(Tied(c)) + SumFunction(marks)
      BY <2>2, <2>4, <2>10, <3>1, SumAdds
    <3> QED
      BY <2>8, <3>2, SumTypes
  <2>12. OpenFees(c) = OpenFees(b)
    BY <2>6 DEF OpenFees
  <2>13. /\ b.cash + SumFunction(Tied(b)) = StartingCash + l.realized - l.fees
         /\ l.total_net_pnl - SumFunction(OpenFees(b)) = l.realized - l.fees
    BY DEF InStep, Books
  <2>14. c.cash + SumFunction(Tied(c)) = StartingCash + l.realized - l.fees
    BY <1>1, <2>5, <2>6, <2>11, <2>13
  <2>15. InStep(E, c, l)
    BY <2>6, <2>7, <2>8, <2>12, <2>13, <2>14 DEF InStep, Books, Follows, FlatIs
  <2> QED
    BY <2>7, <2>15 DEF c
<1> QED
  BY <1>2, <1>3

-----------------------------------------------------------------------------
(* The orders that wait on.                                                 *)

OneWaits(fresh, rest, o) == IF o.symbol \in fresh THEN rest ELSE Append(rest, o)
NoneWaits(fresh) == <<>>
W == INSTANCE FoldLemmas WITH op <- OneWaits, base <- NoneWaits

\* Each of its own symbol, and each with a number of its own.
Distinct(q) == \A i, j \in DOMAIN q : q[i].symbol = q[j].symbol \/ q[i].ref = q[j].ref => i = j

\* Those of q that the fresh symbols leave.
Waits(q, fresh, w) ==
    /\ w \in Seq(WaitingOrder)
    /\ \A i \in DOMAIN w : w[i].symbol \notin fresh /\ \E k \in DOMAIN q : w[i] = q[k]
    /\ Distinct(q) => Distinct(w)

\* The orders that wait on are collected one after the other: a fold.
LEMMA WaitingIsFold == \A q, fresh : StillWaiting(q, fresh) = W!Fold(fresh, q)
BY DEF StillWaiting, OneWaits, NoneWaits, W!Fold, FoldLeft, MapThenFoldSet, Max, W!MapThenFoldSet, W!Max

\* One more order waits, or has run.
LEMMA OneMoreWaits ==
    ASSUME NEW q \in Seq(WaitingOrder), NEW o \in WaitingOrder, NEW fresh, NEW w, Waits(q, fresh, w)
    PROVE  Waits(Append(q, o), fresh, OneWaits(fresh, w, o))
<1> DEFINE r == Append(q, o)
           v == OneWaits(fresh, w, o)
           n == Len(q) + 1
           m == Len(w) + 1
<1>1. /\ DOMAIN q = 1 .. Len(q) /\ Len(q) \in Nat /\ DOMAIN r = 1 .. n /\ r[n] = o
      /\ \A i \in DOMAIN q : r[i] = q[i] /\ i \in DOMAIN r /\ i # n
  OBVIOUS
<1>2. n \in DOMAIN r
  BY <1>1
<1> HIDE DEF r, n
<1>3. Distinct(r) => Distinct(q)
  BY <1>1 DEF Distinct
<1>4. CASE o.symbol \in fresh
  <2>1. v = w
    BY <1>4 DEF OneWaits
  <2> HIDE DEF v
  <2>2. Waits(r, fresh, w)
    BY <1>1, <1>3 DEF Waits
  <2> QED
    BY <2>1, <2>2 DEF v, r
<1>5. CASE o.symbol \notin fresh
  <2>1. v = Append(w, o) /\ w \in Seq(WaitingOrder)
    BY <1>5 DEF OneWaits, Waits
  <2> HIDE DEF v
  <2>2. /\ v \in Seq(WaitingOrder) /\ DOMAIN w = 1 .. Len(w) /\ Len(w) \in Nat /\ DOMAIN v = 1 .. m /\ v[m] = o
        /\ \A i \in DOMAIN w : v[i] = w[i] /\ i # m
        /\ \A i \in DOMAIN v : i = m \/ i \in DOMAIN w
    BY <2>1
  <2> HIDE DEF m
  <2>3. ASSUME NEW i \in DOMAIN v PROVE v[i].symbol \notin fresh /\ \E k \in DOMAIN r : v[i] = r[k]
    <3>1. CASE i = m
      BY <1>1, <1>2, <1>5, <2>2, <3>1
    <3>2. CASE i \in DOMAIN w
      BY <1>1, <2>2, <3>2 DEF Waits
    <3> QED
      BY <2>2, <3>1, <3>2
  <2>4. ASSUME Distinct(r), NEW i \in DOMAIN w PROVE v[i].symbol # o.symbol /\ v[i].ref # o.ref
    <3>1. PICK k \in DOMAIN q : w[i] = q[k]
      BY DEF Waits
    <3>2. k \in DOMAIN r /\ k # n /\ r[k] = w[i]
      BY <1>1, <3>1
    <3> QED
      BY <1>1, <1>2, <2>2, <2>4, <3>2 DEF Distinct
  <2>5. ASSUME Distinct(r) PROVE Distinct(v)
    <3>1. Distinct(w)
      BY <1>3, <2>5 DEF Waits
    <3> SUFFICES ASSUME NEW i \in DOMAIN v, NEW j \in DOMAIN v, v[i].symbol = v[j].symbol \/ v[i].ref = v[j].ref
                 PROVE  i = j
      BY DEF Distinct
    <3>2. CASE i \in DOMAIN w /\ j \in DOMAIN w
      BY <2>2, <3>1, <3>2 DEF Distinct
    <3>3. CASE i = m /\ j \in DOMAIN w
      BY <2>2, <2>4, <2>5, <3>3
    <3>4. CASE j = m /\ i \in DOMAIN w
      BY <2>2, <2>4, <2>5, <3>4
    <3> QED
      BY <2>2, <3>2, <3>3, <3>4
  <2>6. Waits(r, fresh, v)
    BY <2>2, <2>3, <2>5 DEF Waits
  <2> QED
    BY <2>6 DEF v, r
<1> QED
  BY <1>4, <1>5

\* Those that wait on are the orders of symbols without a new bar, in their order.
LEMMA WaitingOn ==
    ASSUME NEW q \in Seq(WaitingOrder), NEW fresh
    PROVE  Waits(q, fresh, StillWaiting(q, fresh))
<1> DEFINE Good == {s \in Seq(WaitingOrder) : Waits(s, fresh, W!Fold(fresh, s))}
<1>1. <<>> \in Good
  <2>1. W!Fold(fresh, <<>>) = <<>>
    BY W!FoldEmpty DEF NoneWaits
  <2>2. Waits(<<>>, fresh, <<>>)
    BY DEF Waits, Distinct
  <2> QED
    BY <2>1, <2>2
<1>2. ASSUME NEW s \in Seq(WaitingOrder), NEW o \in WaitingOrder, s \in Good PROVE Append(s, o) \in Good
  <2>1. Waits(s, fresh, W!Fold(fresh, s)) /\ Append(s, o) \in Seq(WaitingOrder)
    BY <1>2
  <2>2. W!Fold(fresh, Append(s, o)) = OneWaits(fresh, W!Fold(fresh, s), o)
    BY W!FoldAppend
  <2> QED
    BY <2>1, <2>2, OneMoreWaits
<1> HIDE DEF Good
<1>3. Seq(WaitingOrder) \subseteq Good
  BY <1>1, <1>2, W!SequenceInduction
<1> QED
  BY <1>3, WaitingIsFold DEF Good

-----------------------------------------------------------------------------
(* The strategy's note of its orders.                                       *)

OneOrdered(p, at, o) == IF o.symbol = p[1] THEN o.ref ELSE at
StartAt(p) == p[2]
O == INSTANCE FoldLemmas WITH op <- OneOrdered, base <- StartAt

LastOf(s, start, w) == FoldLeft(LAMBDA at, o : IF o.symbol = s THEN o.ref ELSE at, start, w)

\* The last of a symbol's orders is found by a fold.
LEMMA OrderedIsFold == \A s, start, w : LastOf(s, start, w) = O!Fold(<<s, start>>, w)
BY DEF LastOf, OneOrdered, StartAt, O!Fold, FoldLeft, MapThenFoldSet, Max, O!MapThenFoldSet, O!Max

\* An order of the symbol is noted, and no other order takes the note away.
LEMMA Ordered ==
    ASSUME Configured, NEW s \in Symbols, NEW start, NEW w \in Seq(WaitingOrder),
           start # None \/ \E i \in DOMAIN w : w[i].symbol = s
    PROVE  LastOf(s, start, w) # None
<1> DEFINE p == <<s, start>>
           Named(v) == start # None \/ \E i \in DOMAIN v : v[i].symbol = s
           Good == {v \in Seq(WaitingOrder) : Named(v) => O!Fold(p, v) # None}
<1>1. p[1] = s /\ p[2] = start
  OBVIOUS
<1> HIDE DEF p
<1>2. <<>> \in Good
  <2>1. O!Fold(p, <<>>) = start
    BY <1>1, O!FoldEmpty DEF StartAt
  <2> QED
    BY <2>1
<1>3. ASSUME NEW v \in Seq(WaitingOrder), NEW o \in WaitingOrder, v \in Good PROVE Append(v, o) \in Good
  <2>1. O!Fold(p, Append(v, o)) = OneOrdered(p, O!Fold(p, v), o)
    BY O!FoldAppend
  <2>2. o.ref # None
    BY DEF WaitingOrder, Configured, BacktraderAssumption
  <2>3. ASSUME Named(Append(v, o)), o.symbol # s PROVE Named(v)
    <3> DEFINE r == Append(v, o)
               n == Len(v) + 1
    <3>1. r[n] = o /\ \A i \in DOMAIN r : i = n \/ (i \in DOMAIN v /\ r[i] = v[i])
      OBVIOUS
    <3> HIDE DEF n
    <3> QED
      BY <2>3, <3>1
  <2>4. Append(v, o) \in Seq(WaitingOrder)
    OBVIOUS
  <2> HIDE DEF Named
  <2> QED
    BY <1>1, <1>3, <2>1, <2>2, <2>3, <2>4 DEF OneOrdered
<1> HIDE DEF Good
<1>4. Seq(WaitingOrder) \subseteq Good
  BY <1>2, <1>3, O!SequenceInduction
<1> QED
  BY <1>4, OrderedIsFold DEF Good, p

-----------------------------------------------------------------------------
(* The invariant of the books, for entries of sizes in E.                   *)

BarsRead ==
    /\ clock \in Nat /\ bar \in LastBars
    /\ \A s \in Symbols : bar[s].dt # 0 => bar[s].close > 0

QueueRead(E) ==
    /\ queue \in Seq(WaitingOrder) /\ Distinct(queue) /\ last_ref \in Nat
    /\ ledger.filled \subseteq {r \in Int : r <= last_ref}
    /\ \A i \in DOMAIN queue :
           /\ queue[i].ref <= last_ref /\ queue[i].ref \notin ledger.filled
           /\ Fits(E, broker, queue[i])
           /\ bar[queue[i].symbol].dt # 0 /\ orders[queue[i].symbol] # None

BookInv(E) ==
    /\ account \in Accounts
    /\ BarsRead /\ InStep(E, broker, ledger) /\ QueueRead(E) /\ CashStaticEquity

\* What a strategy may order, for the books to stay in step: at most one order for a symbol,
\* with a bar and no order at work, for an entry in E or the exit of all that is held.
Wanted == [symbol : Symbols, size : Int]
Disciplined(E, wanted) ==
    /\ wanted \in Seq(Wanted)
    /\ \A i, j \in DOMAIN wanted : wanted[i].symbol = wanted[j].symbol => i = j
    /\ \A i \in DOMAIN wanted : /\ Fits(E, broker, wanted[i])
                                /\ bar[wanted[i].symbol].dt # 0 /\ orders[wanted[i].symbol] = None

\* At the start nothing is held, nothing waits and the books are empty.
LEMMA BooksBegin ==
    ASSUME Configured, NEW E, BtInit
    PROVE  BookInv(E)
<1>1. /\ account \in Accounts /\ clock = 0 /\ queue = <<>> /\ last_ref = 0
      /\ bar = [s \in Symbols |-> [open |-> 0, high |-> 0, low |-> 0, close |-> 0, dt |-> 0]]
      /\ broker = [cash |-> StartingCash, positions |-> [s \in Symbols |-> Flat],
                   trades |-> [s \in Symbols |-> NewTrade]]
      /\ ledger = [positions |-> [s \in Symbols |-> [size |-> 0, avg_price |-> 0]], filled |-> {},
                   status |-> <<>>, realized |-> 0, fees |-> 0, total_closed |-> 0, total_net_pnl |-> 0]
      /\ StartingCash \in Nat /\ IsFiniteSet(Symbols)
  BY DEF BtInit, Configured, BacktraderAssumption
<1>2. BarsRead
  BY <1>1 DEF BarsRead, LastBars
<1>3. QueueRead(E)
  BY <1>1 DEF QueueRead, Distinct
<1>4. ASSUME StockLike PROVE PaidCost(broker) = 0
  <2> DEFINE f == [s \in Symbols |-> broker.positions[s].size * broker.positions[s].price]
  <2>1. \A s \in Symbols : f[s] = 0
    BY <1>1 DEF Flat
  <2>2. f \in [Symbols -> Int]
    BY <2>1
  <2>3. SumFunction(f) = 0
    BY <1>1, <2>1, <2>2, SumOfZeros
  <2> QED
    BY <2>3 DEF PaidCost
<1>5. broker \in Broker /\ \A s \in Symbols : broker.positions[s] = Flat /\ broker.trades[s] = NewTrade
  BY <1>1 DEF Broker, BrokerPosition, OpenTrade, Flat, NewTrade
<1>6. IsLedger(ledger)
  <2>1. /\ DOMAIN ledger = Fields /\ ledger = [f \in Fields |-> ledger[f]]
    BY <1>1, Zenon DEF Fields
  <2>2. /\ ledger.positions = [s \in Symbols |-> [size |-> 0, avg_price |-> 0]]
        /\ ledger.realized = 0 /\ ledger.fees = 0 /\ ledger.total_net_pnl = 0
    BY <1>1
  <2> QED
    BY <2>1, <2>2 DEF IsLedger, LedgerRow
<1>7. SumFunction(Tied(broker)) = 0 /\ SumFunction(OpenFees(broker)) = 0
  <2>1. Tied(broker) \in [Symbols -> Int] /\ OpenFees(broker) \in [Symbols -> Int]
    BY <1>1, <1>5, SumTypes
  <2>2. \A s \in Symbols : Tied(broker)[s] = 0 /\ OpenFees(broker)[s] = 0
    BY <1>1, <1>5, NothingTied DEF Tied, OpenFees, NewTrade
  <2> QED
    BY <1>1, <2>1, <2>2, SumOfZeros
<1>8. Follows(broker, ledger)
  BY <1>1, <1>5 DEF Follows, Flat
<1>9. Books(broker, ledger)
  <2>1. broker.cash = StartingCash /\ ledger.realized = 0 /\ ledger.fees = 0 /\ ledger.total_net_pnl = 0
    BY <1>1
  <2> QED
    BY <1>1, <1>5, <1>7, <2>1 DEF Books, FlatIs, NewTrade
<1>10. \A s \in Symbols : broker.positions[s].size \in E \union {0}
  BY <1>5 DEF Flat
<1>11. CashStaticEquity
  <2>1. snapshot.static_equity = StartingCash /\ ledger.realized = 0 /\ ledger.fees = 0
    BY <1>1 DEF BtInit
  <2>2. account.mult \in Int /\ \A m \in Int : (m - 1) * 0 = 0
    BY <1>1, AccountTypes
  <2>3. StockLike => (account.mult - 1) * PaidCost(broker) = 0
    BY <1>4, <2>2
  <2> QED
    BY <1>1, <2>1, <2>3 DEF CashStaticEquity
<1> QED
  BY <1>1, <1>2, <1>3, <1>5, <1>6, <1>8, <1>9, <1>10, <1>11 DEF BookInv, InStep

\* What the books are made of does not change with the account's name.
LEMMA BarsComeOn ==
    ASSUME Configured, NEW E, BookInv(E), NEW fresh \in SUBSET Symbols, BrokerTurn(fresh)
    PROVE  /\ BarsRead'
           /\ \A s \in Symbols : s \in fresh => bar'[s].open \in Nat \ {0}
           /\ \A s \in Symbols : s \notin fresh => bar'[s] = bar[s]
           /\ \A s \in Symbols : bar[s].dt # 0 => bar'[s].dt # 0
<1>1. PICK chosen \in [fresh -> Bars] :
        bar' = [s \in Symbols |->
            IF s \in fresh
            THEN [open |-> chosen[s].open, high |-> chosen[s].high, low |-> chosen[s].low,
                  close |-> chosen[s].close, dt |-> clock']
            ELSE bar[s]]
  BY DEF BrokerTurn, NewBars
<1>2. clock \in Nat /\ clock' = clock + 1 /\ bar \in LastBars /\ \A s \in Symbols : bar[s].dt # 0 => bar[s].close > 0
  BY DEF BookInv, BarsRead, BrokerTurn
<1>3. \A s \in fresh : chosen[s] \in Bar
  BY DEF Configured, BacktraderAssumption
<1>4. ASSUME NEW s \in Symbols
      PROVE  /\ s \notin fresh => bar'[s] = bar[s]
             /\ s \in fresh => bar'[s].open \in Nat \ {0} /\ bar'[s].close \in Nat \ {0} /\ bar'[s].dt = clock'
             /\ bar'[s] \in [open : Nat, high : Nat, low : Nat, close : Nat, dt : Nat]
  <2>1. CASE s \in fresh
    <3>1. chosen[s] \in Bar /\ bar'[s] = [open |-> chosen[s].open, high |-> chosen[s].high, low |-> chosen[s].low,
                                          close |-> chosen[s].close, dt |-> clock']
      BY <1>1, <1>3, <2>1
    <3> QED
      BY <1>2, <2>1, <3>1 DEF Bar
  <2>2. CASE s \notin fresh
    BY <1>1, <1>2, <2>2 DEF LastBars
  <2> QED
    BY <2>1, <2>2
<1>5. bar' \in LastBars
  <2>1. bar' = [s \in Symbols |-> bar'[s]]
    BY <1>1
  <2> QED
    BY <1>4, <2>1 DEF LastBars
<1>6. ASSUME NEW s \in Symbols PROVE (bar'[s].dt # 0 => bar'[s].close > 0) /\ (bar[s].dt # 0 => bar'[s].dt # 0)
  <2>1. CASE s \in fresh
    BY <1>2, <1>4, <2>1
  <2>2. CASE s \notin fresh
    BY <1>2, <1>4, <2>2
  <2> QED
    BY <2>1, <2>2
<1> QED
  BY <1>2, <1>4, <1>5, <1>6 DEF BarsRead

\* Every order that waits is one.
LEMMA WaitingOrders ==
    ASSUME NEW q \in Seq(WaitingOrder), NEW i \in DOMAIN q
    PROVE  q[i] \in WaitingOrder /\ q[i].ref \in Nat /\ q[i].symbol \in Symbols /\ q[i].size \in Int
<1>1. q[i] \in WaitingOrder
  OBVIOUS
<1> QED
  BY <1>1 DEF WaitingOrder

\* The orders of a turn that comes may run.
LEMMA QueueMayRun ==
    ASSUME Configured, NEW E, BookInv(E), NEW fresh \in SUBSET Symbols, BrokerTurn(fresh)
    PROVE  MayRun(E, broker, queue, ledger.filled, fresh, bar, bar')
<1>1. /\ \A s \in Symbols : s \in fresh => bar'[s].open \in Nat \ {0}
      /\ \A s \in Symbols : bar[s].dt # 0 => bar[s].close \in Nat \ {0}
  BY BarsComeOn DEF BookInv, BarsRead, LastBars
<1>2. queue \in Seq(WaitingOrder) /\ Distinct(queue)
  BY DEF BookInv, QueueRead
<1>3. ASSUME NEW i \in DOMAIN queue
      PROVE  /\ queue[i].ref \notin ledger.filled /\ Fits(E, broker, queue[i])
             /\ queue[i].symbol \in fresh => Price(queue[i], bar, bar') \in Nat \ {0}
  <2>1. queue[i].symbol \in Symbols
    BY <1>2, WaitingOrders
  <2>2. queue[i].ref \notin ledger.filled /\ Fits(E, broker, queue[i]) /\ bar[queue[i].symbol].dt # 0
    BY DEF BookInv, QueueRead
  <2> QED
    BY <1>1, <2>1, <2>2 DEF Price
<1> QED
  BY <1>2, <1>3 DEF MayRun, Distinct

\* The broker, the ledger and the orders after a turn, in the account that stays.
TurnTaken(E, fresh) ==
    LET c == Ran(fresh)
    IN /\ HasRun(E, broker, queue, fresh, ledger, c)
       /\ ledger' = Told(ledger, c.notes)
       /\ InStep(E, MarkToMarket(c.broker, bar'), ledger')
       /\ \A s \in Symbols : /\ broker'.positions[s].size = c.broker.positions[s].size
                             /\ broker'.positions[s].price = c.broker.positions[s].price

\* What the broker's turn leaves: books in step, and a queue of orders that fit.
LEMMA TurnIsTaken ==
    ASSUME Configured, NEW E \in SUBSET (Int \ {0}), BookInv(E), NEW fresh \in SUBSET Symbols, BrokerTurn(fresh)
    PROVE  TurnTaken(E, fresh)
<1> DEFINE c == Ran(fresh)
<1>1. account \in Accounts /\ InStep(E, broker, ledger) /\ queue \in Seq(WaitingOrder)
  BY DEF BookInv, QueueRead
<1>2. HasRun(E, broker, queue, fresh, ledger, c)
  BY <1>1, QueueMayRun, AllHaveRun DEF Ran
<1>3. ledger' = Told(ledger, c.notes) /\ broker' = MarkToMarket(c.broker, bar')
  BY DEF BrokerTurn, Told
<1>4. bar' \in LastBars
  BY BarsComeOn DEF BarsRead
<1> HIDE DEF c
<1>5. InStep(E, c.broker, ledger')
  BY <1>2, <1>3 DEF HasRun
<1>6. /\ InStep(E, MarkToMarket(c.broker, bar'), ledger')
      /\ \A s \in Symbols : /\ MarkToMarket(c.broker, bar').positions[s].size = c.broker.positions[s].size
                            /\ MarkToMarket(c.broker, bar').positions[s].price = c.broker.positions[s].price
  BY <1>1, <1>4, <1>5, MarkedBooks
<1> QED
  BY <1>2, <1>3, <1>6 DEF TurnTaken, c

\* What holds of the values after a step holds after it.
LEMMA InStepStays ==
    ASSUME NEW E, account' = account, InStep(E, broker', ledger')
    PROVE  InStep(E, broker, ledger)'
<1>1. StockLike' = StockLike
  BY DEF StockLike
<1>2. \A price : GetMargin(price)' = GetMargin(price)
  BY DEF GetMargin, StockLike
<1> QED
  BY <1>1, <1>2 DEF InStep, Books, Follows, Tied, TiedIn, OpenFees, FlatIs

\* A turn of the broker keeps the books in step.
LEMMA BooksTurn ==
    ASSUME Configured, NEW E \in SUBSET (Int \ {0}), BookInv(E), NEW fresh \in SUBSET Symbols, BrokerTurn(fresh)
    PROVE  BookInv(E)'
<1> DEFINE c == Ran(fresh)
           w == StillWaiting(queue, fresh)
<1>1. /\ account' = account /\ turn' = "next" /\ queue' = w /\ last_ref' = last_ref
      /\ orders' = [s \in Symbols |-> IF s \in fresh THEN None ELSE orders[s]]
      /\ broker' = MarkToMarket(c.broker, bar') /\ ledger' = Told(ledger, c.notes)
  BY DEF BrokerTurn, Told
<1>2. queue \in Seq(WaitingOrder) /\ Distinct(queue) /\ last_ref \in Nat /\ account \in Accounts
      /\ ledger.filled \subseteq {r \in Int : r <= last_ref}
  BY DEF BookInv, QueueRead
<1>3. HasRun(E, broker, queue, fresh, ledger, c) /\ InStep(E, broker', ledger')
      /\ \A s \in Symbols : broker'.positions[s].size = c.broker.positions[s].size
  BY <1>1, TurnIsTaken DEF TurnTaken
<1>4. Waits(queue, fresh, w)
  BY <1>2, WaitingOn
<1> HIDE DEF c, w
<1>5. ledger'.filled \subseteq ledger.filled \union Refs(queue, fresh)
  BY <1>1, <1>3 DEF HasRun
<1>6. ledger'.filled \subseteq {r \in Int : r <= last_ref'}
  <2>1. Refs(queue, fresh) \subseteq {r \in Int : r <= last_ref}
    <3>1. \A i \in DOMAIN queue : queue[i].ref \in Nat /\ queue[i].ref <= last_ref
      BY <1>2, WaitingOrders DEF BookInv, QueueRead
    <3> QED
      BY <3>1 DEF Refs
  <2> QED
    BY <1>1, <1>2, <1>5, <2>1
<1>7. ASSUME NEW i \in DOMAIN w
      PROVE  /\ w[i].ref <= last_ref' /\ w[i].ref \notin ledger'.filled /\ Fits(E, broker', w[i])
             /\ bar'[w[i].symbol].dt # 0 /\ orders'[w[i].symbol] # None
  <2>1. PICK k \in DOMAIN queue : w[i] = queue[k] /\ queue[k].symbol \notin fresh
    BY <1>4 DEF Waits
  <2>2. queue[k] \in WaitingOrder /\ queue[k].symbol \in Symbols
    BY <1>2, WaitingOrders
  <2>3. /\ queue[k].ref <= last_ref /\ queue[k].ref \notin ledger.filled /\ Fits(E, broker, queue[k])
        /\ bar[queue[k].symbol].dt # 0 /\ orders[queue[k].symbol] # None
    BY DEF BookInv, QueueRead
  <2>4. queue[k].ref \notin Refs(queue, fresh)
    <3>1. ASSUME NEW j \in DOMAIN queue, queue[j].symbol \in fresh, queue[j].ref = queue[k].ref PROVE FALSE
      <4>1. j = k
        BY <1>2, <3>1 DEF Distinct
      <4> QED
        BY <2>1, <3>1, <4>1
    <3> QED
      BY <3>1 DEF Refs
  <2>5. c.broker.positions[queue[k].symbol] = broker.positions[queue[k].symbol]
    <3>1. \A j \in DOMAIN queue : queue[j].symbol = queue[k].symbol => queue[k].symbol \notin fresh
      BY <2>1
    <3> QED
      BY <1>3, <2>2, <3>1 DEF HasRun
  <2>6. Fits(E, broker', queue[k])
    BY <1>3, <2>2, <2>3, <2>5 DEF Fits
  <2>7. bar'[queue[k].symbol].dt # 0
    BY <2>2, <2>3, BarsComeOn
  <2>8. orders'[queue[k].symbol] # None
    BY <1>1, <2>1, <2>2, <2>3
  <2> QED
    BY <1>1, <1>5, <2>1, <2>3, <2>4, <2>6, <2>7, <2>8
<1>8. QueueRead(E)'
  BY <1>1, <1>2, <1>4, <1>6, <1>7 DEF QueueRead, Waits, Distinct, Fits
<1>9. InStep(E, broker, ledger)'
  BY <1>1, <1>3, InStepStays
<1>10. BarsRead' /\ CashStaticEquity' /\ account' \in Accounts
  BY <1>1, <1>2, BarsComeOn DEF CashStaticEquity
<1> QED
  BY <1>8, <1>9, <1>10 DEF BookInv

\* What the positions of a cash account have cost is the cash that is tied up in them.
LEMMA CashPaid ==
    ASSUME Configured, account \in Accounts, NEW b \in Broker, StockLike
    PROVE  PaidCost(b) = SumFunction(Tied(b)) /\ PositionCost(b) = account.mult * PaidCost(b) /\ PaidCost(b) \in Int
<1> DEFINE f == [s \in Symbols |-> b.positions[s].size * b.positions[s].price]
           h == [s \in Symbols |-> b.positions[s].size * b.positions[s].price * account.mult]
<1>1. Tied(b) = f
  BY DEF Tied, TiedIn
<1>2. Tied(b) \in [Symbols -> Int] /\ IsFiniteSet(Symbols) /\ SumFunction(Tied(b)) \in Int /\ account.mult \in Int
  BY SumTypes, AccountTypes
<1>3. ASSUME NEW s \in Symbols PROVE f[s] \in Int /\ h[s] = account.mult * f[s] /\ h[s] \in Int
  <2>1. f[s] \in Int
    BY <1>1, <1>2
  <2>2. h[s] = f[s] * account.mult
    OBVIOUS
  <2> HIDE DEF f, h
  <2> QED
    BY <1>2, <2>1, <2>2
<1>4. f \in [Symbols -> Int] /\ h \in [Symbols -> Int]
  BY <1>3
<1>5. PaidCost(b) = SumFunction(f) /\ PositionCost(b) = SumFunction(h)
  BY DEF PaidCost, PositionCost
<1> HIDE DEF f, h
<1>6. SumFunction(h) = account.mult * SumFunction(f)
  BY <1>2, <1>3, <1>4, SumScales
<1> QED
  BY <1>1, <1>2, <1>5, <1>6

\* The static equity of a cash account is the cash and the multiple of what is tied up.
LEMMA CashEquity ==
    ASSUME Configured, account \in Accounts, NEW E, NEW b, NEW l, InStep(E, b, l), StockLike
    PROVE  Snapshot(b).static_equity
             = StartingCash + l.realized - l.fees + (account.mult - 1) * PaidCost(b)
<1>1. account.account_mode = "cash" /\ b \in Broker /\ account.mult \in Int
  BY AccountTypes DEF StockLike, InStep
<1>2. /\ PaidCost(b) = SumFunction(Tied(b)) /\ PositionCost(b) = account.mult * PaidCost(b) /\ PaidCost(b) \in Int
  BY <1>1, CashPaid
<1>3. Snapshot(b).static_equity = b.cash + PositionCost(b)
  <2> DEFINE futures == account.account_mode = "futures"
  <2>1. ~futures
    BY <1>1
  <2> QED
    BY <2>1 DEF Snapshot
<1>4. b.cash + PaidCost(b) = StartingCash + l.realized - l.fees /\ b.cash \in Int
  BY <1>1, <1>2 DEF InStep, Books, Broker
<1>5. account.mult * PaidCost(b) = PaidCost(b) + (account.mult - 1) * PaidCost(b)
        /\ (account.mult - 1) * PaidCost(b) \in Int
  <2>1. \A m, n \in Int : m * n = n + (m - 1) * n /\ (m - 1) * n \in Int
    OBVIOUS
  <2> QED
    BY <1>1, <1>2, <2>1
<1>6. l.realized \in Int /\ l.fees \in Int /\ StartingCash \in Int
  BY DEF InStep, IsLedger, Configured, BacktraderAssumption
<1> DEFINE c == PaidCost(b)
           gap == (account.mult - 1) * PaidCost(b)
           value == Snapshot(b).static_equity
<1> HIDE DEF c, gap, value
<1>7. value = b.cash + (c + gap) /\ b.cash + c = StartingCash + l.realized - l.fees /\ c \in Int /\ gap \in Int
  BY <1>2, <1>3, <1>4, <1>5 DEF c, gap, value
<1>8. value = StartingCash + l.realized - l.fees + gap
  BY <1>4, <1>6, <1>7
<1> QED
  BY <1>8 DEF gap, value

\* So do the orders of a strategy that sends what fits.
LEMMA BooksOrdered ==
    ASSUME Configured, NEW E \in SUBSET (Int \ {0}), BookInv(E), NEW wanted, Disciplined(E, wanted), Submitted(wanted)
    PROVE  BookInv(E)'
<1> DEFINE numbered == [i \in DOMAIN wanted |->
                           [ref |-> last_ref + i, symbol |-> wanted[i].symbol, size |-> wanted[i].size]]
           q == queue \o numbered
           n == Len(queue)
<1>1. /\ queue' = q /\ last_ref' = last_ref + Len(wanted) /\ turn' = "bars"
      /\ orders' = [s \in Symbols |-> LastOf(s, orders[s], numbered)]
      /\ snapshot' = Snapshot(broker)
      /\ account' = account /\ clock' = clock /\ bar' = bar /\ broker' = broker /\ ledger' = ledger
  BY DEF Submitted, LastOf
<1>2. /\ queue \in Seq(WaitingOrder) /\ Distinct(queue) /\ last_ref \in Nat /\ account \in Accounts
      /\ ledger.filled \subseteq {r \in Int : r <= last_ref} /\ InStep(E, broker, ledger)
      /\ wanted \in Seq(Wanted) /\ Len(wanted) \in Nat
  BY DEF BookInv, QueueRead, Disciplined
<1>3. ASSUME NEW i \in DOMAIN wanted
      PROVE  /\ numbered[i] \in WaitingOrder /\ numbered[i].ref = last_ref + i /\ i \in 1 .. Len(wanted)
             /\ numbered[i].symbol = wanted[i].symbol /\ numbered[i].size = wanted[i].size
  <2>1. wanted[i] \in Wanted /\ i \in 1 .. Len(wanted)
    BY <1>2
  <2> QED
    BY <1>2, <2>1 DEF Wanted, WaitingOrder
<1>4. DOMAIN numbered = 1 .. Len(wanted) /\ numbered \in Seq(WaitingOrder) /\ Len(numbered) = Len(wanted)
  <2>1. DOMAIN numbered = 1 .. Len(wanted)
    BY <1>2
  <2>2. numbered \in [1 .. Len(wanted) -> WaitingOrder]
    BY <1>3, <2>1
  <2> HIDE DEF numbered
  <2> QED
    BY <1>2, <2>1, <2>2
<1> HIDE DEF numbered
<1>5. /\ q \in Seq(WaitingOrder) /\ n \in Nat /\ DOMAIN queue = 1 .. n
      /\ \A i \in DOMAIN queue : q[i] = queue[i] /\ i \in DOMAIN q
      /\ \A i \in 1 .. Len(wanted) : q[n + i] = numbered[i] /\ n + i \in DOMAIN q
      /\ \A i \in DOMAIN q : i \in DOMAIN queue \/ (i - n \in 1 .. Len(wanted) /\ i = n + (i - n))
  BY <1>2, <1>4
<1> HIDE DEF q, n
<1>6. ASSUME NEW i \in DOMAIN queue
      PROVE  /\ queue[i].ref <= last_ref /\ queue[i].ref \in Nat /\ queue[i].symbol \in Symbols
             /\ queue[i].ref \notin ledger.filled /\ Fits(E, broker, queue[i])
             /\ bar[queue[i].symbol].dt # 0 /\ orders[queue[i].symbol] # None
  BY <1>2, WaitingOrders DEF BookInv, QueueRead
<1>7. ASSUME NEW i \in 1 .. Len(wanted)
      PROVE  /\ numbered[i].ref <= last_ref' /\ numbered[i].ref > last_ref /\ numbered[i].ref = last_ref + i
             /\ numbered[i].symbol \in Symbols
             /\ numbered[i].ref \notin ledger.filled /\ Fits(E, broker, numbered[i])
             /\ bar[numbered[i].symbol].dt # 0 /\ orders[numbered[i].symbol] = None
  <2>1. i \in DOMAIN wanted /\ i \in Nat
    BY <1>2
  <2>2. Fits(E, broker, wanted[i]) /\ bar[wanted[i].symbol].dt # 0 /\ orders[wanted[i].symbol] = None
    BY <2>1 DEF Disciplined
  <2>3. Fits(E, broker, numbered[i])
    BY <1>3, <2>1, <2>2 DEF Fits
  <2>4. numbered[i].symbol \in Symbols /\ numbered[i].ref \in Int
    BY <1>4, WaitingOrders
  <2> QED
    BY <1>1, <1>2, <1>3, <2>1, <2>2, <2>3, <2>4
<1>8. Distinct(q)
  <2> SUFFICES ASSUME NEW i \in DOMAIN q, NEW j \in DOMAIN q, q[i].symbol = q[j].symbol \/ q[i].ref = q[j].ref
               PROVE  i = j
    BY DEF Distinct
  <2>1. CASE i \in DOMAIN queue /\ j \in DOMAIN queue
    BY <1>2, <1>5, <2>1 DEF Distinct
  <2>2. ASSUME NEW k \in DOMAIN queue, NEW m \in 1 .. Len(wanted) PROVE queue[k].symbol # numbered[m].symbol /\ queue[k].ref # numbered[m].ref
    BY <1>2, <1>6, <1>7
  <2>6. ASSUME NEW k \in DOMAIN q, k \notin DOMAIN queue PROVE \E m \in 1 .. Len(wanted) : q[k] = numbered[m]
    BY <1>5, <2>6
  <2>3. CASE i \in DOMAIN queue /\ j \notin DOMAIN queue
    <3>1. PICK m \in 1 .. Len(wanted) : q[j] = numbered[m]
      BY <2>3, <2>6
    <3>2. q[i] = queue[i] /\ queue[i].symbol # numbered[m].symbol /\ queue[i].ref # numbered[m].ref
      BY <1>5, <2>2, <2>3
    <3> QED
      BY <3>1, <3>2
  <2>4. CASE i \notin DOMAIN queue /\ j \in DOMAIN queue
    <3>1. PICK m \in 1 .. Len(wanted) : q[i] = numbered[m]
      BY <2>4, <2>6
    <3>2. q[j] = queue[j] /\ queue[j].symbol # numbered[m].symbol /\ queue[j].ref # numbered[m].ref
      BY <1>5, <2>2, <2>4
    <3> QED
      BY <3>1, <3>2
  <2>5. CASE i \notin DOMAIN queue /\ j \notin DOMAIN queue
    <3> DEFINE k == i - n
               m == j - n
    <3>1. k \in 1 .. Len(wanted) /\ m \in 1 .. Len(wanted) /\ q[i] = numbered[k] /\ q[j] = numbered[m] /\ i = n + k /\ j = n + m
      BY <1>5, <2>5
    <3> HIDE DEF k, m
    <3>2. k \in DOMAIN wanted /\ m \in DOMAIN wanted
      BY <1>2, <3>1
    <3>3. CASE numbered[k].symbol = numbered[m].symbol
      <4>1. k = m
        BY <1>3, <3>2, <3>3 DEF Disciplined
      <4> QED
        BY <3>1, <4>1
    <3>4. CASE numbered[k].ref = numbered[m].ref
      BY <1>2, <1>7, <3>1, <3>4
    <3> QED
      BY <3>1, <3>3, <3>4
  <2> QED
    BY <2>1, <2>3, <2>4, <2>5
<1>9. ASSUME NEW i \in DOMAIN q
      PROVE  /\ q[i].ref <= last_ref' /\ q[i].ref \notin ledger.filled /\ Fits(E, broker, q[i])
             /\ bar[q[i].symbol].dt # 0 /\ orders'[q[i].symbol] # None
  <2>1. CASE i \in DOMAIN queue
    <3>1. orders'[queue[i].symbol] # None
      BY <1>1, <1>4, <1>6, <2>1, Ordered
    <3> QED
      BY <1>1, <1>2, <1>5, <1>6, <2>1, <3>1
  <2>2. CASE i \notin DOMAIN queue
    <3> DEFINE m == i - n
    <3>1. m \in 1 .. Len(wanted) /\ q[i] = numbered[m]
      BY <1>5, <2>2
    <3> HIDE DEF m
    <3>2. m \in DOMAIN numbered /\ numbered[m].symbol \in Symbols
      BY <1>4, <1>7, <3>1
    <3>3. orders'[numbered[m].symbol] # None
      BY <1>1, <1>4, <3>2, Ordered
    <3> QED
      BY <1>7, <3>1, <3>3
  <2> QED
    BY <2>1, <2>2
<1>10. QueueRead(E)'
  <2>1. ledger'.filled \subseteq {r \in Int : r <= last_ref'} /\ last_ref' \in Nat
    BY <1>1, <1>2
  <2> QED
    BY <1>1, <1>5, <1>8, <1>9, <2>1 DEF QueueRead, Distinct, Fits
<1>11. InStep(E, broker, ledger)'
  BY <1>1, <1>2, InStepStays
<1>12. CashStaticEquity'
  <2>1. StockLike' = StockLike
    BY <1>1 DEF StockLike
  <2>2. StockLike => Snapshot(broker).static_equity
                        = StartingCash + ledger.realized - ledger.fees + (account.mult - 1) * PaidCost(broker)
    BY <1>2, CashEquity
  <2>3. PaidCost(broker)' = PaidCost(broker)
    BY <1>1 DEF PaidCost
  <2> QED
    BY <1>1, <2>1, <2>2, <2>3 DEF CashStaticEquity
<1>13. BarsRead' /\ account' \in Accounts
  BY <1>1, <1>2 DEF BookInv, BarsRead
<1> QED
  BY <1>10, <1>11, <1>12, <1>13 DEF BookInv

\* What the invariant says of the books.
LEMMA BooksSay ==
    ASSUME Configured, NEW E \in SUBSET (Int \ {0}), BookInv(E)
    PROVE  LedgerFollowsBroker /\ ResultsAgreeWhenFlat /\ CashStaticEquity
<1>1. broker \in Broker /\ Follows(broker, ledger) /\ Books(broker, ledger) /\ account \in Accounts /\ IsLedger(ledger)
  BY DEF BookInv, InStep
<1>2. LedgerFollowsBroker
  BY <1>1 DEF LedgerFollowsBroker, Follows
<1>3. ASSUME Held(broker) = {} PROVE SumFunction(Tied(broker)) = 0 /\ SumFunction(OpenFees(broker)) = 0
  <2>1. /\ Tied(broker) \in [Symbols -> Int] /\ OpenFees(broker) \in [Symbols -> Int] /\ IsFiniteSet(Symbols)
    BY <1>1, SumTypes
  <2>2. \A s \in Symbols : broker.positions[s] = Flat /\ broker.trades[s] = NewTrade
    BY <1>1, <1>3 DEF Held, Books, FlatIs
  <2>3. \A s \in Symbols : Tied(broker)[s] = 0 /\ OpenFees(broker)[s] = 0
    BY <1>1, <2>2, NothingTied DEF Tied, OpenFees, NewTrade
  <2> QED
    BY <2>1, <2>3, SumOfZeros
<1>4. ResultsAgreeWhenFlat
  <2>1. broker.cash \in Int /\ ledger.realized \in Int /\ ledger.fees \in Int /\ ledger.total_net_pnl \in Int /\ StartingCash \in Int
    BY <1>1 DEF Broker, IsLedger, Configured, BacktraderAssumption
  <2>2. ASSUME Held(broker) = {}
        PROVE  ledger.total_net_pnl = ledger.realized - ledger.fees /\ broker.cash = StartingCash + ledger.total_net_pnl
    <3>1. broker.cash + 0 = StartingCash + ledger.realized - ledger.fees /\ ledger.total_net_pnl - 0 = ledger.realized - ledger.fees
      BY <1>1, <1>3, <2>2 DEF Books
    <3> QED
      BY <2>1, <3>1
  <2> QED
    BY <2>2 DEF ResultsAgreeWhenFlat
<1> QED
  BY <1>2, <1>4 DEF BookInv

-----------------------------------------------------------------------------
(* What a strategy sends.                                                   *)

OneSent(decided, sent, s) == sent \o decided[s]
NoneSent(decided) == <<>>
C == INSTANCE FoldLemmas WITH op <- OneSent, base <- NoneSent

\* The orders of the symbols are sent one symbol after the other: a fold.
LEMMA SentIsFold == \A order, decided : Sent(order, decided) = C!Fold(decided, order)
BY DEF Sent, OneSent, NoneSent, C!Fold, FoldLeft, MapThenFoldSet, Max, C!MapThenFoldSet, C!Max

\* No order for a symbol, or one of its own.
Decided(decided) ==
    \A s \in Symbols : decided[s] = <<>> \/ \E o \in Wanted : o.symbol = s /\ decided[s] = <<o>>

\* The orders sent are those that were decided, one for a symbol.
SentOf(decided, order, sent) ==
    /\ sent \in Seq(Wanted)
    /\ \A i \in DOMAIN sent : /\ decided[sent[i].symbol] = <<sent[i]>>
                              /\ \E k \in DOMAIN order : order[k] = sent[i].symbol
    /\ IsInjective(order) => \A i, j \in DOMAIN sent : sent[i].symbol = sent[j].symbol => i = j

\* The orders of one more symbol follow the others.
LEMMA OneMoreSent ==
    ASSUME NEW decided, Decided(decided), NEW order \in Seq(Symbols), NEW s \in Symbols, NEW sent, SentOf(decided, order, sent)
    PROVE  SentOf(decided, Append(order, s), sent \o decided[s])
<1> DEFINE r == Append(order, s)
           v == sent \o decided[s]
           n == Len(order) + 1
           m == Len(sent) + 1
<1>1. /\ DOMAIN order = 1 .. Len(order) /\ Len(order) \in Nat /\ DOMAIN r = 1 .. n /\ r[n] = s
      /\ \A i \in DOMAIN order : r[i] = order[i] /\ i \in DOMAIN r /\ i # n
  OBVIOUS
<1>2. n \in DOMAIN r
  BY <1>1
<1> HIDE DEF r, n
<1>3. IsInjective(r) => IsInjective(order)
  BY <1>1 DEF IsInjective
<1>4. sent \in Seq(Wanted)
  BY DEF SentOf
<1>5. CASE decided[s] = <<>>
  <2>1. v = sent
    BY <1>4, <1>5
  <2> HIDE DEF v
  <2>2. SentOf(decided, r, sent)
    BY <1>1, <1>3 DEF SentOf
  <2> QED
    BY <2>1, <2>2 DEF v, r
<1>6. ASSUME NEW o \in Wanted, o.symbol = s, decided[s] = <<o>> PROVE SentOf(decided, r, v)
  <2>1. v = Append(sent, o)
    BY <1>4, <1>6
  <2> HIDE DEF v
  <2>2. /\ v \in Seq(Wanted) /\ DOMAIN sent = 1 .. Len(sent) /\ Len(sent) \in Nat /\ DOMAIN v = 1 .. m /\ v[m] = o
        /\ \A i \in DOMAIN sent : v[i] = sent[i] /\ i # m
        /\ \A i \in DOMAIN v : i = m \/ i \in DOMAIN sent
    BY <1>4, <2>1
  <2> HIDE DEF m
  <2>3. ASSUME NEW i \in DOMAIN v PROVE decided[v[i].symbol] = <<v[i]>> /\ \E k \in DOMAIN r : r[k] = v[i].symbol
    <3>1. CASE i = m
      BY <1>1, <1>2, <1>6, <2>2, <3>1
    <3>2. CASE i \in DOMAIN sent
      <4>1. v[i] = sent[i]
        BY <2>2, <3>2
      <4>2. decided[sent[i].symbol] = <<sent[i]>>
        BY <3>2 DEF SentOf
      <4>3. PICK k \in DOMAIN order : order[k] = sent[i].symbol
        BY <3>2 DEF SentOf
      <4> QED
        BY <1>1, <4>1, <4>2, <4>3
    <3> QED
      BY <2>2, <3>1, <3>2
  <2>4. ASSUME IsInjective(r), NEW i \in DOMAIN sent PROVE v[i].symbol # s
    <3>1. PICK k \in DOMAIN order : order[k] = sent[i].symbol
      BY DEF SentOf
    <3>2. k \in DOMAIN r /\ k # n /\ r[k] = sent[i].symbol
      BY <1>1, <3>1
    <3> QED
      BY <1>1, <1>2, <2>2, <2>4, <3>2 DEF IsInjective
  <2>5. ASSUME IsInjective(r), NEW i \in DOMAIN v, NEW j \in DOMAIN v, v[i].symbol = v[j].symbol PROVE i = j
    <3>1. CASE i \in DOMAIN sent /\ j \in DOMAIN sent
      BY <1>3, <2>2, <2>5, <3>1 DEF SentOf
    <3>2. CASE i = m /\ j \in DOMAIN sent
      BY <1>6, <2>2, <2>4, <2>5, <3>2
    <3>3. CASE j = m /\ i \in DOMAIN sent
      BY <1>6, <2>2, <2>4, <2>5, <3>3
    <3> QED
      BY <2>2, <3>1, <3>2, <3>3
  <2> QED
    BY <2>2, <2>3, <2>5 DEF SentOf
<1> QED
  BY <1>5, <1>6 DEF Decided, v, r

\* The orders that are sent are those that were decided.
LEMMA AllSent ==
    ASSUME NEW decided, Decided(decided), NEW order \in Seq(Symbols)
    PROVE  SentOf(decided, order, Sent(order, decided))
<1> DEFINE Good == {q \in Seq(Symbols) : SentOf(decided, q, C!Fold(decided, q))}
<1>1. <<>> \in Good
  <2>1. C!Fold(decided, <<>>) = <<>>
    BY C!FoldEmpty DEF NoneSent
  <2>2. SentOf(decided, <<>>, <<>>)
    BY DEF SentOf
  <2> QED
    BY <2>1, <2>2
<1>2. ASSUME NEW q \in Seq(Symbols), NEW s \in Symbols, q \in Good PROVE Append(q, s) \in Good
  <2>1. SentOf(decided, q, C!Fold(decided, q)) /\ Append(q, s) \in Seq(Symbols)
    BY <1>2
  <2>2. C!Fold(decided, Append(q, s)) = C!Fold(decided, q) \o decided[s]
    BY C!FoldAppend DEF OneSent
  <2> QED
    BY <2>1, <2>2, OneMoreSent
<1> HIDE DEF Good
<1>3. Seq(Symbols) \subseteq Good
  BY <1>1, <1>2, C!SequenceInduction
<1> QED
  BY <1>3, SentIsFold DEF Good

\* What each symbol's decision has to be for the strategy to be disciplined.
Sound(E, decided) ==
    /\ Decided(decided)
    /\ \A s \in Symbols, o \in Wanted : decided[s] = <<o>> => Fits(E, broker, o) /\ bar[s].dt # 0 /\ orders[s] = None

\* Decisions that fit become orders that fit, one for each symbol.
LEMMA SoundIsDisciplined ==
    ASSUME NEW E, NEW decided, Sound(E, decided), NEW order \in Seq(Symbols), IsInjective(order)
    PROVE  Disciplined(E, Sent(order, decided))
<1> DEFINE w == Sent(order, decided)
<1>1. SentOf(decided, order, w)
  BY AllSent DEF Sound
<1> HIDE DEF w
<1>2. w \in Seq(Wanted) /\ \A i, j \in DOMAIN w : w[i].symbol = w[j].symbol => i = j
  BY <1>1 DEF SentOf
<1>3. ASSUME NEW i \in DOMAIN w PROVE Fits(E, broker, w[i]) /\ bar[w[i].symbol].dt # 0 /\ orders[w[i].symbol] = None
  <2>1. w[i] \in Wanted
    BY <1>2
  <2>2. w[i].symbol \in Symbols /\ decided[w[i].symbol] = <<w[i]>>
    BY <1>1, <2>1 DEF SentOf, Wanted
  <2> QED
    BY <2>1, <2>2 DEF Sound
<1> QED
  BY <1>2, <1>3 DEF Disciplined, w

\* Nothing happens to the books while nothing happens.
LEMMA BooksRest ==
    ASSUME NEW E, BookInv(E), UNCHANGED btVars
    PROVE  BookInv(E)'
<1>1. /\ account' = account /\ clock' = clock /\ bar' = bar /\ broker' = broker /\ queue' = queue /\ last_ref' = last_ref
      /\ orders' = orders /\ ledger' = ledger /\ snapshot' = snapshot /\ turn' = turn
  BY DEF btVars
<1>2. InStep(E, broker', ledger')
  BY <1>1 DEF BookInv
<1>3. InStep(E, broker, ledger)'
  BY <1>1, <1>2, InStepStays
<1>4. BarsRead' /\ QueueRead(E)' /\ CashStaticEquity' /\ account' \in Accounts
  BY <1>1 DEF BookInv, BarsRead, QueueRead, Fits, CashStaticEquity, StockLike, PaidCost
<1> QED
  BY <1>3, <1>4 DEF BookInv

\* The orders that wait after a turn waited before it, for symbols that had no bar; nothing
\* has become of their positions.
LEMMA QueueAfterTurn ==
    ASSUME Configured, NEW E \in SUBSET (Int \ {0}), BookInv(E), NEW fresh \in SUBSET Symbols, BrokerTurn(fresh),
           NEW i \in DOMAIN queue'
    PROVE  \E k \in DOMAIN queue : /\ queue'[i] = queue[k] /\ queue[k].symbol \in Symbols \ fresh
                                   /\ broker'.positions[queue[k].symbol].size = broker.positions[queue[k].symbol].size
<1> DEFINE c == Ran(fresh)
<1>1. queue \in Seq(WaitingOrder) /\ queue' = StillWaiting(queue, fresh)
  BY DEF BookInv, QueueRead, BrokerTurn
<1>2. Waits(queue, fresh, queue')
  BY <1>1, WaitingOn
<1>3. PICK k \in DOMAIN queue : queue'[i] = queue[k] /\ queue[k].symbol \notin fresh
  BY <1>2 DEF Waits
<1>4. queue[k].symbol \in Symbols
  BY <1>1, WaitingOrders
<1>5. HasRun(E, broker, queue, fresh, ledger, c)
      /\ broker'.positions[queue[k].symbol].size = c.broker.positions[queue[k].symbol].size
  BY <1>4, TurnIsTaken DEF TurnTaken
<1> HIDE DEF c
<1>6. \A j \in DOMAIN queue : queue[j].symbol = queue[k].symbol => queue[k].symbol \notin fresh
  BY <1>3
<1>7. c.broker.positions[queue[k].symbol] = broker.positions[queue[k].symbol]
  BY <1>4, <1>5, <1>6 DEF HasRun
<1> QED
  BY <1>3, <1>4, <1>5, <1>7

\* The orders that wait after next() waited before it, or were sent.
LEMMA QueueAfterOrders ==
    ASSUME NEW wanted \in Seq(Wanted), queue \in Seq(WaitingOrder), last_ref \in Nat, Submitted(wanted), NEW i \in DOMAIN queue'
    PROVE  \/ \E k \in DOMAIN queue : queue'[i] = queue[k]
           \/ \E k \in DOMAIN wanted : queue'[i].symbol = wanted[k].symbol /\ queue'[i].size = wanted[k].size
<1> DEFINE numbered == [k \in DOMAIN wanted |->
                           [ref |-> last_ref + k, symbol |-> wanted[k].symbol, size |-> wanted[k].size]]
           n == Len(queue)
<1>1. queue' = queue \o numbered
  BY DEF Submitted
<1>2. DOMAIN wanted = 1 .. Len(wanted) /\ Len(wanted) \in Nat /\ n \in Nat /\ DOMAIN queue = 1 .. n
  OBVIOUS
<1>3. \A k \in DOMAIN wanted : numbered[k].symbol = wanted[k].symbol /\ numbered[k].size = wanted[k].size
  OBVIOUS
<1>4. DOMAIN numbered = 1 .. Len(wanted) /\ Len(numbered) = Len(wanted)
  <2>1. DOMAIN numbered = 1 .. Len(wanted)
    BY <1>2
  <2> HIDE DEF numbered
  <2>2. Len(numbered) = Len(wanted)
    BY <1>2, <2>1
  <2> QED
    BY <2>1, <2>2
<1> HIDE DEF numbered
<1>5. numbered \in Seq(WaitingOrder)
  <2>1. \A k \in DOMAIN wanted : wanted[k] \in Wanted /\ k \in Nat
    BY <1>2
  <2>2. numbered \in [1 .. Len(wanted) -> WaitingOrder]
    BY <1>2, <2>1 DEF Wanted, WaitingOrder, numbered
  <2> QED
    BY <1>2, <2>2
<1> HIDE DEF n
<1>6. DOMAIN queue' = 1 .. n + Len(wanted)
      /\ \A j \in 1 .. n + Len(wanted) : queue'[j] = IF j <= n THEN queue[j] ELSE numbered[j - n]
  <2>1. \A s, t \in Seq(WaitingOrder) :
            /\ DOMAIN (s \o t) = 1 .. Len(s) + Len(t)
            /\ \A j \in 1 .. Len(s) + Len(t) : (s \o t)[j] = IF j <= Len(s) THEN s[j] ELSE t[j - Len(s)]
    OBVIOUS
  <2> QED
    BY <1>1, <1>4, <1>5, <2>1 DEF n
<1>7. CASE i <= n
  BY <1>2, <1>6, <1>7
<1>8. CASE ~(i <= n)
  <2> DEFINE k == i - n
  <2>1. k \in DOMAIN wanted /\ queue'[i] = numbered[k]
    BY <1>2, <1>6, <1>8
  <2> HIDE DEF k
  <2> QED
    BY <1>3, <2>1
<1> QED
  BY <1>7, <1>8
=============================================================================
