------------------------- MODULE PaperTradingProofs -------------------------
(***************************************************************************)
(* The books of PaperTrading, for any strategy, prices and sessions.       *)
(*                                                                         *)
(* Every theorem is about lists that are written in loops: the fills of a  *)
(* tick, the ledger that adds them up, the days of a session.  The loops   *)
(* are folds, and FoldLemmas gives their induction.  A session of the demo *)
(* strategy is itself a fold (Run) of a pure function (Day) over the ticks *)
(* of the file, which is what makes a replay reproduce it.                 *)
(***************************************************************************)
EXTENDS PaperTrading, FiniteSetTheorems, TLAPS

-----------------------------------------------------------------------------
(* Sequences and their parts.                                               *)

KeptStep(S, kept, x) == IF x \in S THEN Append(kept, x) ELSE kept
Nothing(S) == <<>>
K == INSTANCE FoldLemmas WITH op <- KeptStep, base <- Nothing

Distinct(s) == \A i, j \in DOMAIN s : s[i] = s[j] => i = j

\* Kept filters by a fold, to which the lemmas of FoldLemmas apply.
LEMMA KeptIsFold == \A s, S : Kept(s, S) = K!Fold(S, s)
BY DEF Kept, KeptStep, Nothing, K!Fold, FoldLeft, MapThenFoldSet, Max, K!MapThenFoldSet, K!Max

\* An element more, at the end.
LEMMA Appended ==
    ASSUME NEW E, NEW s \in Seq(E), NEW x \in E
    PROVE  /\ Append(s, x) \in Seq(E)
           /\ ToSet(Append(s, x)) = ToSet(s) \union {x}
           /\ Distinct(Append(s, x)) <=> Distinct(s) /\ x \notin ToSet(s)
<1> DEFINE t == Append(s, x)
<1>1. t \in Seq(E) /\ DOMAIN s = 1 .. Len(s) /\ DOMAIN t = 1 .. (Len(s) + 1) /\ Len(s) \in Nat
  OBVIOUS
<1>2. \A i \in DOMAIN s : i \in DOMAIN t /\ i # Len(s) + 1 /\ t[i] = s[i]
  BY <1>1
<1>3. Len(s) + 1 \in DOMAIN t /\ t[Len(s) + 1] = x
  BY <1>1
<1>4. \A i \in DOMAIN t : i \in DOMAIN s \/ i = Len(s) + 1
  BY <1>1
<1> HIDE DEF t
<1>5. ToSet(t) = ToSet(s) \union {x}
  BY <1>2, <1>3, <1>4 DEF ToSet
<1>6. Distinct(t) => Distinct(s) /\ x \notin ToSet(s)
  BY <1>2, <1>3 DEF Distinct, ToSet
<1>7. Distinct(s) /\ x \notin ToSet(s) => Distinct(t)
  BY <1>2, <1>3, <1>4 DEF Distinct, ToSet
<1> QED
  BY <1>1, <1>5, <1>6, <1>7 DEF t

\* What is kept of a sequence.
LEMMA KeptFacts ==
    ASSUME NEW E, NEW S
    PROVE  \A s \in Seq(E) :
             /\ Kept(s, S) \in Seq(E)
             /\ ToSet(Kept(s, S)) = ToSet(s) \intersect S
             /\ Distinct(s) => Distinct(Kept(s, S))
<1> DEFINE Good == {s \in Seq(E) : /\ Kept(s, S) \in Seq(E)
                                   /\ ToSet(Kept(s, S)) = ToSet(s) \intersect S
                                   /\ Distinct(s) => Distinct(Kept(s, S))}
<1>1. <<>> \in Good
  <2>1. Kept(<<>>, S) = <<>>
    BY KeptIsFold, K!FoldEmpty DEF Nothing
  <2>2. <<>> \in Seq(E) /\ DOMAIN <<>> = {}
    OBVIOUS
  <2>3. ToSet(<<>>) = {} /\ Distinct(<<>>)
    BY <2>2 DEF ToSet, Distinct
  <2> QED
    BY <2>1, <2>2, <2>3
<1>2. ASSUME NEW s \in Seq(E), NEW x \in E, s \in Good PROVE Append(s, x) \in Good
  <2>1. Kept(Append(s, x), S) = IF x \in S THEN Append(Kept(s, S), x) ELSE Kept(s, S)
    BY KeptIsFold, K!FoldAppend DEF KeptStep
  <2>2. /\ Kept(s, S) \in Seq(E) /\ ToSet(Kept(s, S)) = ToSet(s) \intersect S
        /\ Distinct(s) => Distinct(Kept(s, S))
    BY <1>2
  <2>3. /\ Append(s, x) \in Seq(E) /\ ToSet(Append(s, x)) = ToSet(s) \union {x}
        /\ Distinct(Append(s, x)) <=> Distinct(s) /\ x \notin ToSet(s)
    BY Appended
  <2>4. /\ Append(Kept(s, S), x) \in Seq(E)
        /\ ToSet(Append(Kept(s, S), x)) = ToSet(Kept(s, S)) \union {x}
        /\ Distinct(Append(Kept(s, S), x)) <=> Distinct(Kept(s, S)) /\ x \notin ToSet(Kept(s, S))
    BY <2>2, Appended
  <2> QED
    BY <2>1, <2>2, <2>3, <2>4
<1> HIDE DEF Good
<1>3. Seq(E) \subseteq Good
  BY <1>1, <1>2, K!SequenceInduction
<1> QED
  BY <1>3 DEF Good

\* One sequence after another.
LEMMA Joined ==
    ASSUME NEW E, NEW s \in Seq(E), NEW t \in Seq(E)
    PROVE  /\ s \o t \in Seq(E) /\ Len(s) \in Nat /\ DOMAIN s = 1 .. Len(s)
           /\ \A i \in DOMAIN s : i \in DOMAIN (s \o t) /\ (s \o t)[i] = s[i]
           /\ \A i \in DOMAIN t : i \in Nat \ {0} /\ Len(s) + i \in DOMAIN (s \o t) /\ (s \o t)[Len(s) + i] = t[i]
           /\ \A i \in DOMAIN (s \o t) : i \in DOMAIN s \/ \E j \in DOMAIN t : i = Len(s) + j
<1> DEFINE m == Len(s)
           n == Len(t)
           u == s \o t
<1>1. /\ m \in Nat /\ n \in Nat /\ DOMAIN s = 1 .. m /\ DOMAIN t = 1 .. n
      /\ u \in Seq(E) /\ Len(u) = m + n /\ DOMAIN u = 1 .. (m + n)
  OBVIOUS
<1>2. \A i \in 1 .. m : u[i] = s[i]
  OBVIOUS
<1>3. \A i \in 1 .. n : u[m + i] = t[i]
  OBVIOUS
<1>4. \A i \in 1 .. (m + n) : i \in 1 .. m \/ (i - m \in 1 .. n /\ i = m + (i - m))
  BY <1>1
<1>5. \A i \in 1 .. (m + n) : i \in 1 .. m \/ \E j \in 1 .. n : i = m + j
  BY <1>4
<1>6. \A i \in 1 .. n : i \in Nat \ {0} /\ m + i \in 1 .. (m + n)
  BY <1>1
<1>7. \A i \in 1 .. m : i \in 1 .. (m + n)
  BY <1>1
<1> HIDE DEF m, n, u
<1> QED
  BY <1>1, <1>2, <1>3, <1>5, <1>6, <1>7 DEF m, u

\* Contains, of the community modules, is membership in the set of elements.
LEMMA ContainsIsMembership ==
    ASSUME NEW E, NEW s \in Seq(E), NEW x
    PROVE  Contains(s, x) <=> x \in ToSet(s)
BY DEF Contains, ToSet

-----------------------------------------------------------------------------
(* The book of orders.                                                      *)

Typed ==
    /\ orders \in [OrderIds -> Order \union {NoOrder}]
    /\ active_orders \in Seq(OrderIds) /\ fills \in Seq(Fill)
    /\ tick \in Tick /\ file \in Seq(Tick) /\ seen \in Nat

Opened ==
    /\ cash' = InitialCash /\ positions' = Flat
    /\ orders' = NoOrders /\ active_orders' = <<>> /\ fills' = <<>>

\* What a step does to the broker.
BookStep ==
    \/ Opened
    \/ \E id \in OrderIds, req \in OrderRequest : SendOrder(id, req)
    \/ \E id \in OrderIds : CancelOrder(id)
    \/ BrokerOnTick
    \/ UNCHANGED broker

\* What the demo strategy orders is a request of the model.
LEMMA DemoRequest ==
    ASSUME Typed, NEW id \in OrderIds, BuyOnce(id)
    PROVE  (\E req \in OrderRequest : SendOrder(id, req)) \/ UNCHANGED broker
<1> DEFINE price == OrElse(tick.ask_price, tick.last_price)
           req == [symbol |-> tick.symbol, side |-> "BUY", order_type |-> "LIMIT",
                   price |-> price, volume |-> Volume]
<1>1. price \in Int
  BY DEF Typed, OrElse, Tick, Price, None
<1>2. req \in OrderRequest
  BY <1>1, PaperAssumption DEF Typed, OrderRequest, Side, Tick
<1>3. SendOrder(id, req) \/ UNCHANGED broker
  BY DEF BuyOnce
<1> HIDE DEF req
<1> QED
  BY <1>2, <1>3

\* Next, taken apart into what concerns orders, book and fills: a step places
\* orders, withdraws one, matches the book with the tick, starts a session or
\* leaves the three alone.
LEMMA Steps ==
    ASSUME Typed, [Next]_vars
    PROVE  BookStep /\ tick' \in Tick /\ file' \in Seq(Tick) /\ seen' \in Nat
<1> USE PaperAssumption DEF Typed
<1>1. CASE BeginLive
  BY <1>1 DEF BeginLive, Begin, BookStep, Opened
<1>2. CASE BeginReplay
  BY <1>2 DEF BeginReplay, Begin, BookStep, Opened
<1>3. ASSUME NEW t \in Ticks, NextTick(t) PROVE BookStep /\ tick' \in Tick /\ file' \in Seq(Tick) /\ seen' \in Nat
  BY <1>3 DEF NextTick, BookStep
<1>4. CASE RecordTick
  BY <1>4 DEF RecordTick, BookStep
<1>5. CASE NextReplayed
  BY <1>5 DEF NextReplayed, BookStep
<1>6. CASE Demo
  <2>1. PICK id \in OrderIds : BuyOnce(id)
    BY <1>6 DEF Demo
  <2>2. BookStep
    BY <2>1, DemoRequest DEF BookStep
  <2> QED
    BY <1>6, <2>2 DEF Demo
<1>7. CASE AnyOrder
  BY <1>7 DEF AnyOrder, BookStep
<1>8. CASE AnyReturns
  BY <1>8 DEF AnyReturns, BookStep
<1>9. CASE MatchTick
  BY <1>9 DEF MatchTick, BookStep
<1>10. CASE ReplayEnds
  BY <1>10 DEF ReplayEnds, BookStep
<1>11. CASE Killed
  BY <1>11 DEF Killed, BookStep
<1>12. CASE UNCHANGED vars
  BY <1>12 DEF vars, BookStep
<1> QED
  BY <1>1, <1>2, <1>3, <1>4, <1>5, <1>6, <1>7, <1>8, <1>9, <1>10, <1>11, <1>12 DEF Next

\* What a tick matches in a book bk with orders os, the fills of it, and the
\* orders after it.
MatchedIn(bk, os, t) == Kept(bk, {o \in OrderIds : os[o] # NoOrder /\ Matches(t, os[o])})
FillsIn(bk, os, t) ==
    LET matched == MatchedIn(bk, os, t)
    IN [i \in DOMAIN matched |-> FillOf(t, matched[i], os[matched[i]])]
OrdersAfter(bk, os, t) ==
    [o \in OrderIds |-> IF Contains(MatchedIn(bk, os, t), o)
                        THEN [os[o] EXCEPT !.traded = os[o].request.volume, !.status = "FILLED"]
                        ELSE os[o]]

\* The fill of a waiting order is typed.
LEMMA FillTyped ==
    ASSUME NEW os \in [OrderIds -> Order \union {NoOrder}], NEW t \in Tick,
           NEW id \in OrderIds, os[id] # NoOrder, Matches(t, os[id])
    PROVE  FillOf(t, id, os[id]) \in Fill
<1> DEFINE order == os[id]
<1>1. order \in Order
  OBVIOUS
<1> HIDE DEF order
<1>2. order.request \in OrderRequest /\ order.traded \in Int
  BY <1>1 DEF Order
<1>3. t.ask_price \in Price /\ t.bid_price \in Price /\ t.last_price \in Price
  BY DEF Tick
<1>4. FillPrice(t, order.request) \in Price
  BY <1>3 DEF FillPrice, OrElse, Quote, Price
<1>5. FillPrice(t, order.request) \in Nat
  BY <1>4 DEF order, Matches, Price, None
<1>6. /\ order.request.symbol \in Symbols /\ order.request.side \in Side
      /\ order.request.volume - order.traded \in Int
  BY <1>2 DEF OrderRequest
<1> QED
  BY <1>5, <1>6 DEF FillOf, Fill, order

\* The matching engine fills orders of the book only, each once, and each that
\* matches.
LEMMA MatchedFacts ==
    ASSUME NEW bk \in Seq(OrderIds), NEW os \in [OrderIds -> Order \union {NoOrder}], NEW t \in Tick,
           NEW matched, matched = MatchedIn(bk, os, t), NEW new, new = FillsIn(bk, os, t)
    PROVE  /\ matched \in Seq(OrderIds) /\ ToSet(matched) \subseteq ToSet(bk)
           /\ Distinct(bk) => Distinct(matched)
           /\ \A i \in DOMAIN matched : os[matched[i]] # NoOrder
           /\ new \in Seq(Fill) /\ DOMAIN new = DOMAIN matched
           /\ \A i \in DOMAIN matched : new[i].order_id = matched[i]
<1> DEFINE S == {o \in OrderIds : os[o] # NoOrder /\ Matches(t, os[o])}
<1>1. /\ matched \in Seq(OrderIds) /\ ToSet(matched) = ToSet(bk) \intersect S
      /\ Distinct(bk) => Distinct(matched)
  BY KeptFacts DEF MatchedIn
<1>2. \A i \in DOMAIN matched : matched[i] \in OrderIds /\ matched[i] \in S
  BY <1>1 DEF ToSet
<1>3. \A i \in DOMAIN matched : FillOf(t, matched[i], os[matched[i]]) \in Fill
  BY <1>2, FillTyped
<1>4. new = [i \in DOMAIN matched |-> FillOf(t, matched[i], os[matched[i]])]
  BY DEF FillsIn
<1>5. new \in Seq(Fill) /\ DOMAIN new = DOMAIN matched
  <2>1. DOMAIN matched = 1 .. Len(matched) /\ Len(matched) \in Nat
    BY <1>1
  <2>2. new \in [1 .. Len(matched) -> Fill]
    BY <1>3, <1>4, <2>1
  <2> QED
    BY <2>1, <2>2
<1>6. \A i \in DOMAIN matched : new[i].order_id = matched[i]
  BY <1>4 DEF FillOf
<1> QED
  BY <1>1, <1>2, <1>5, <1>6

\* After a tick the filled orders have status FILLED, all others the one they had.
LEMMA OrdersAfterFacts ==
    ASSUME NEW bk \in Seq(OrderIds), NEW os \in [OrderIds -> Order \union {NoOrder}], NEW t \in Tick,
           NEW matched, matched = MatchedIn(bk, os, t), NEW after, after = OrdersAfter(bk, os, t)
    PROVE  /\ after \in [OrderIds -> Order \union {NoOrder}]
           /\ \A o \in OrderIds :
                /\ o \notin ToSet(matched) => after[o] = os[o]
                /\ o \in ToSet(matched) => after[o] # NoOrder /\ after[o].status = "FILLED"
<1>1. matched \in Seq(OrderIds) /\ \A i \in DOMAIN matched : os[matched[i]] # NoOrder
  BY MatchedFacts
<1>2. after = [o \in OrderIds |-> IF Contains(matched, o)
                                  THEN [os[o] EXCEPT !.traded = os[o].request.volume, !.status = "FILLED"]
                                  ELSE os[o]]
  BY DEF OrdersAfter
<1>3. ASSUME NEW o \in OrderIds
      PROVE  /\ after[o] \in Order \union {NoOrder}
             /\ o \notin ToSet(matched) => after[o] = os[o]
             /\ o \in ToSet(matched) => after[o] # NoOrder /\ after[o].status = "FILLED"
  <2>1. Contains(matched, o) <=> o \in ToSet(matched)
    BY <1>1, ContainsIsMembership
  <2>2. CASE o \in ToSet(matched)
    <3>1. after[o] = [os[o] EXCEPT !.traded = os[o].request.volume, !.status = "FILLED"]
      BY <1>2, <2>1, <2>2
    <3>2. os[o] \in Order
      BY <1>1, <2>2 DEF ToSet
    <3>3. os[o].request.volume \in Int
      BY <3>2 DEF Order, OrderRequest
    <3>4. after[o] \in Order /\ after[o].status = "FILLED"
      BY <3>1, <3>2, <3>3 DEF Order
    <3> QED
      BY <2>2, <3>4, PaperAssumption
  <2>3. CASE o \notin ToSet(matched)
    BY <1>2, <2>1, <2>3
  <2> QED
    BY <2>2, <2>3
<1>4. after = [o \in OrderIds |-> after[o]]
  BY <1>2
<1> QED
  BY <1>3, <1>4

Matched == MatchedIn(active_orders, orders, tick)
NewFills == FillsIn(active_orders, orders, tick)

\* BrokerOnTick in these terms.
LEMMA BrokerMatches ==
    ASSUME BrokerOnTick
    PROVE  /\ orders' = OrdersAfter(active_orders, orders, tick)
           /\ active_orders' = Kept(active_orders, OrderIds \ ToSet(Matched))
           /\ fills' = fills \o NewFills
           /\ LET after == FoldLeft(ApplyFill, [cash |-> cash, positions |-> positions], NewFills)
              IN cash' = after.cash /\ positions' = after.positions
BY DEF BrokerOnTick, Matched, NewFills, OrdersAfter, FillsIn, MatchedIn

-----------------------------------------------------------------------------
BookInv == Typed /\ Distinct(active_orders) /\ FilledOnce

FillsOf(s, o) == {i \in DOMAIN s : s[i].order_id = o}
Is(order, status) == order # NoOrder /\ order.status = status

\* FilledOnce without counting: of a book b, the orders os and the fills fs.
BookAgrees(b, os, fs) ==
    \A o \in OrderIds :
        /\ o \in ToSet(b) <=> Is(os[o], "NEW")
        /\ ~Is(os[o], "FILLED") => FillsOf(fs, o) = {}
        /\ Is(os[o], "FILLED") => \E i \in DOMAIN fs : FillsOf(fs, o) = {i}

\* FilledOnce counts fills; that there is one, and only one, is easier to use.
LEMMA CountedOrNot ==
    ASSUME NEW b \in Seq(OrderIds), NEW os, NEW fs \in Seq(Fill)
    PROVE  BookAgrees(b, os, fs) <=>
             \A o \in OrderIds :
               /\ Contains(b, o) <=> os[o] # NoOrder /\ os[o].status = "NEW"
               /\ Cardinality({i \in DOMAIN fs : fs[i].order_id = o})
                    = IF os[o] # NoOrder /\ os[o].status = "FILLED" THEN 1 ELSE 0
<1> SUFFICES ASSUME NEW o \in OrderIds
             PROVE  /\ Contains(b, o) <=> o \in ToSet(b)
                    /\ Cardinality(FillsOf(fs, o)) = 0 <=> FillsOf(fs, o) = {}
                    /\ Cardinality(FillsOf(fs, o)) = 1 <=> \E i \in DOMAIN fs : FillsOf(fs, o) = {i}
  BY DEF BookAgrees, FillsOf, Is
<1>1. IsFiniteSet(FillsOf(fs, o))
  <2>1. DOMAIN fs = 1 .. Len(fs) /\ Len(fs) \in Nat
    OBVIOUS
  <2>2. IsFiniteSet(1 .. Len(fs))
    BY <2>1, FS_Interval
  <2> QED
    BY <2>1, <2>2, FS_Subset DEF FillsOf
<1>2. Cardinality(FillsOf(fs, o)) = 0 <=> FillsOf(fs, o) = {}
  BY <1>1, FS_EmptySet
<1>3. Cardinality(FillsOf(fs, o)) = 1 <=> \E i : FillsOf(fs, o) = {i}
  BY <1>1, FS_Singleton
<1>4. (\E i : FillsOf(fs, o) = {i}) <=> \E i \in DOMAIN fs : FillsOf(fs, o) = {i}
  BY DEF FillsOf
<1> QED
  BY <1>2, <1>3, <1>4, ContainsIsMembership

\* A session begins with an empty book and no fills.
LEMMA OpenedBook ==
    ASSUME Opened
    PROVE  /\ orders' \in [OrderIds -> Order \union {NoOrder}]
           /\ active_orders' \in Seq(OrderIds) /\ fills' \in Seq(Fill)
           /\ Distinct(active_orders') /\ BookAgrees(active_orders', orders', fills')
<1>1. DOMAIN <<>> = {} /\ <<>> \in Seq(Fill) /\ <<>> \in Seq(OrderIds)
  OBVIOUS
<1>2. orders' \in [OrderIds -> Order \union {NoOrder}] /\ \A o \in OrderIds : orders'[o] = NoOrder
  BY DEF Opened, NoOrders
<1>3. active_orders' = <<>> /\ fills' = <<>>
  BY DEF Opened
<1>4. Distinct(active_orders') /\ ToSet(active_orders') = {}
  BY <1>1, <1>3 DEF Distinct, ToSet
<1>5. \A o \in OrderIds : FillsOf(fills', o) = {} /\ ~Is(orders'[o], "NEW") /\ ~Is(orders'[o], "FILLED")
  BY <1>1, <1>2, <1>3 DEF FillsOf, Is
<1> QED
  BY <1>1, <1>2, <1>3, <1>4, <1>5 DEF BookAgrees

\* An order that is sent enters the book under an id that was not used before.
LEMMA SentOrder ==
    ASSUME Typed, Distinct(active_orders), BookAgrees(active_orders, orders, fills),
           NEW id \in OrderIds, NEW req \in OrderRequest, SendOrder(id, req)
    PROVE  /\ orders' \in [OrderIds -> Order \union {NoOrder}]
           /\ active_orders' \in Seq(OrderIds) /\ fills' \in Seq(Fill)
           /\ Distinct(active_orders') /\ BookAgrees(active_orders', orders', fills')
<1> DEFINE order == [request |-> req, traded |-> 0, status |-> "NEW"]
<1>1. CASE Rejected(req)
  BY <1>1 DEF SendOrder, Typed
<1>2. CASE ~Rejected(req)
  <2>1. /\ orders[id] = NoOrder /\ fills' = fills
        /\ orders' = [orders EXCEPT ![id] = order]
        /\ active_orders' = Append(active_orders, id)
    BY <1>2 DEF SendOrder
  <2>2. order \in Order /\ order # NoOrder /\ order.status = "NEW"
    BY PaperAssumption DEF Order
  <2> HIDE DEF order
  <2>3. orders' \in [OrderIds -> Order \union {NoOrder}]
    BY <2>1, <2>2 DEF Typed
  <2>4. orders'[id] = order /\ \A o \in OrderIds \ {id} : orders'[o] = orders[o]
    BY <2>1 DEF Typed
  <2>5. id \notin ToSet(active_orders) /\ FillsOf(fills, id) = {}
    BY <2>1 DEF BookAgrees, Is
  <2>6. /\ active_orders' \in Seq(OrderIds) /\ Distinct(active_orders')
        /\ ToSet(active_orders') = ToSet(active_orders) \union {id}
    BY <2>1, <2>5, Appended DEF Typed
  <2>7. BookAgrees(active_orders', orders', fills')
    BY <2>1, <2>2, <2>4, <2>5, <2>6 DEF BookAgrees, Is
  <2> QED
    BY <2>1, <2>3, <2>6, <2>7 DEF Typed
<1> QED
  BY <1>1, <1>2

\* A cancelled order leaves the book and cannot be filled any more.
LEMMA CancelledOrder ==
    ASSUME Typed, Distinct(active_orders), BookAgrees(active_orders, orders, fills),
           NEW id \in OrderIds, CancelOrder(id)
    PROVE  /\ orders' \in [OrderIds -> Order \union {NoOrder}]
           /\ active_orders' \in Seq(OrderIds) /\ fills' \in Seq(Fill)
           /\ Distinct(active_orders') /\ BookAgrees(active_orders', orders', fills')
<1>1. /\ Contains(active_orders, id) /\ fills' = fills
      /\ active_orders' = Kept(active_orders, OrderIds \ {id})
      /\ orders' = [orders EXCEPT ![id].status = "CANCELLED"]
  BY DEF CancelOrder
<1>2. Is(orders[id], "NEW")
  BY <1>1, ContainsIsMembership DEF BookAgrees, Typed
<1>3. orders[id] \in Order
  BY <1>2 DEF Typed, Is
<1>4. /\ orders' \in [OrderIds -> Order \union {NoOrder}]
      /\ orders'[id] # NoOrder /\ orders'[id].status = "CANCELLED"
      /\ \A o \in OrderIds \ {id} : orders'[o] = orders[o]
  <2>1. [orders[id] EXCEPT !.status = "CANCELLED"] \in Order
    BY <1>3 DEF Order
  <2>2. orders'[id] = [orders[id] EXCEPT !.status = "CANCELLED"]
    BY <1>1 DEF Typed
  <2>3. orders'[id].status = "CANCELLED"
    BY <2>2, <1>3 DEF Order
  <2> QED
    BY <1>1, <2>1, <2>2, <2>3, PaperAssumption DEF Typed
<1>5. /\ active_orders' \in Seq(OrderIds) /\ Distinct(active_orders')
      /\ ToSet(active_orders') = ToSet(active_orders) \intersect (OrderIds \ {id})
  BY <1>1, KeptFacts DEF Typed
<1>6. BookAgrees(active_orders', orders', fills')
  BY <1>1, <1>2, <1>4, <1>5 DEF BookAgrees, Is
<1> QED
  BY <1>1, <1>4, <1>5, <1>6 DEF Typed

\* An order that a tick fills was waiting and had no fill; it leaves the book.
LEMMA MatchedOrders ==
    ASSUME Typed, Distinct(active_orders), BookAgrees(active_orders, orders, fills), BrokerOnTick
    PROVE  /\ orders' \in [OrderIds -> Order \union {NoOrder}]
           /\ active_orders' \in Seq(OrderIds) /\ fills' \in Seq(Fill)
           /\ Distinct(active_orders') /\ BookAgrees(active_orders', orders', fills')
<1>1. /\ orders' = OrdersAfter(active_orders, orders, tick)
      /\ active_orders' = Kept(active_orders, OrderIds \ ToSet(Matched))
      /\ fills' = fills \o NewFills
  BY BrokerMatches
<1>2. /\ Matched \in Seq(OrderIds) /\ ToSet(Matched) \subseteq ToSet(active_orders)
      /\ Distinct(Matched)
      /\ NewFills \in Seq(Fill) /\ DOMAIN NewFills = DOMAIN Matched
      /\ \A i \in DOMAIN Matched : NewFills[i].order_id = Matched[i]
  BY MatchedFacts DEF Typed, Matched, NewFills
<1>3. /\ orders' \in [OrderIds -> Order \union {NoOrder}]
      /\ \A o \in OrderIds : /\ o \notin ToSet(Matched) => orders'[o] = orders[o]
                             /\ o \in ToSet(Matched) => Is(orders'[o], "FILLED")
  BY <1>1, OrdersAfterFacts DEF Typed, Matched, Is
<1>5. /\ active_orders' \in Seq(OrderIds) /\ Distinct(active_orders')
      /\ ToSet(active_orders') = ToSet(active_orders) \intersect (OrderIds \ ToSet(Matched))
  BY <1>1, KeptFacts DEF Typed
<1> DEFINE n == Len(fills)
<1>6. /\ fills' \in Seq(Fill) /\ n \in Nat /\ DOMAIN fills = 1 .. n
      /\ \A i \in DOMAIN fills : i \in DOMAIN fills' /\ fills'[i] = fills[i]
      /\ \A i \in DOMAIN Matched : i \in Nat \ {0} /\ n + i \in DOMAIN fills' /\ fills'[n + i] = NewFills[i]
      /\ \A i \in DOMAIN fills' : i \in DOMAIN fills \/ \E j \in DOMAIN Matched : i = n + j
  <2>1. /\ fills \o NewFills \in Seq(Fill) /\ n \in Nat /\ DOMAIN fills = 1 .. n
        /\ \A i \in DOMAIN fills : i \in DOMAIN (fills \o NewFills) /\ (fills \o NewFills)[i] = fills[i]
        /\ \A i \in DOMAIN NewFills : /\ i \in Nat \ {0} /\ n + i \in DOMAIN (fills \o NewFills)
                                      /\ (fills \o NewFills)[n + i] = NewFills[i]
        /\ \A i \in DOMAIN (fills \o NewFills) : i \in DOMAIN fills \/ \E j \in DOMAIN NewFills : i = n + j
    BY <1>2, Joined DEF Typed
  <2> HIDE DEF n
  <2> QED
    BY <1>1, <1>2, <2>1
<1> HIDE DEF n
<1>7. ASSUME NEW o \in OrderIds, o \notin ToSet(Matched)
      PROVE  FillsOf(fills', o) = FillsOf(fills, o)
  <2>1. \A j \in DOMAIN Matched : fills'[n + j].order_id # o
    BY <1>2, <1>6, <1>7 DEF ToSet
  <2> QED
    BY <1>6, <2>1 DEF FillsOf
<1>8. ASSUME NEW o \in OrderIds, o \in ToSet(Matched)
      PROVE  \E i \in DOMAIN fills' : FillsOf(fills', o) = {i}
  <2>1. PICK j \in DOMAIN Matched : Matched[j] = o
    BY <1>8 DEF ToSet
  <2>2. FillsOf(fills, o) = {}
    BY <1>2, <1>8 DEF BookAgrees, Is
  <2>3. \A k \in DOMAIN Matched : fills'[n + k].order_id = o <=> k = j
    BY <1>2, <1>6, <2>1 DEF Distinct
  <2>4. \A i \in DOMAIN fills' : fills'[i].order_id = o <=> i = n + j
    BY <1>6, <2>2, <2>3 DEF FillsOf
  <2> QED
    BY <1>6, <2>1, <2>4 DEF FillsOf
<1>9. BookAgrees(active_orders', orders', fills')
  <2> SUFFICES ASSUME NEW o \in OrderIds
               PROVE  /\ o \in ToSet(active_orders') <=> Is(orders'[o], "NEW")
                      /\ ~Is(orders'[o], "FILLED") => FillsOf(fills', o) = {}
                      /\ Is(orders'[o], "FILLED") => \E i \in DOMAIN fills' : FillsOf(fills', o) = {i}
    BY DEF BookAgrees
  <2>1. CASE o \in ToSet(Matched)
    BY <1>3, <1>5, <1>8, <2>1 DEF Is
  <2>2. CASE o \notin ToSet(Matched)
    <3>1. orders'[o] = orders[o] /\ FillsOf(fills', o) = FillsOf(fills, o)
      BY <1>3, <1>7, <2>2
    <3>2. o \in ToSet(active_orders') <=> o \in ToSet(active_orders)
      BY <1>5, <2>2
    <3> QED
      BY <1>6, <3>1, <3>2 DEF BookAgrees
  <2> QED
    BY <2>1, <2>2
<1> QED
  BY <1>3, <1>5, <1>6, <1>9

\* Every step preserves the invariant.
LEMMA BookKept ==
    ASSUME BookInv, [Next]_vars
    PROVE  BookInv'
<1>1. Typed /\ Distinct(active_orders) /\ BookAgrees(active_orders, orders, fills)
  BY CountedOrNot DEF BookInv, FilledOnce, Typed
<1>2. BookStep /\ tick' \in Tick /\ file' \in Seq(Tick) /\ seen' \in Nat
  BY <1>1, Steps
<1>3. /\ orders' \in [OrderIds -> Order \union {NoOrder}]
      /\ active_orders' \in Seq(OrderIds) /\ fills' \in Seq(Fill)
      /\ Distinct(active_orders') /\ BookAgrees(active_orders', orders', fills')
  <2>1. CASE UNCHANGED broker
    BY <1>1, <2>1 DEF broker, Typed
  <2> QED
    BY <1>1, <1>2, <2>1, OpenedBook, SentOrder, CancelledOrder, MatchedOrders DEF BookStep
<1> QED
  BY <1>2, <1>3, CountedOrNot DEF BookInv, FilledOnce, Typed

\* It holds in the beginning.
LEMMA BookInitially == Init => BookInv
<1> SUFFICES ASSUME Init PROVE BookInv
  OBVIOUS
<1>1. DOMAIN <<>> = {} /\ <<>> \in Seq(Fill) /\ <<>> \in Seq(OrderIds) /\ <<>> \in Seq(Tick)
  OBVIOUS
<1>2. orders \in [OrderIds -> Order \union {NoOrder}] /\ \A o \in OrderIds : orders[o] = NoOrder
  BY DEF Init, NoOrders
<1>3. active_orders = <<>> /\ fills = <<>> /\ Typed
  BY <1>1, <1>2, PaperAssumption DEF Init, Typed
<1>4. Distinct(active_orders) /\ ToSet(active_orders) = {}
  BY <1>1, <1>3 DEF Distinct, ToSet
<1>5. \A o \in OrderIds : FillsOf(fills, o) = {} /\ ~Is(orders[o], "NEW") /\ ~Is(orders[o], "FILLED")
  BY <1>1, <1>2, <1>3 DEF FillsOf, Is
<1>6. BookAgrees(active_orders, orders, fills)
  BY <1>4, <1>5 DEF BookAgrees
<1> QED
  BY ZenonT(30), <1>3, <1>4, <1>6, CountedOrNot DEF BookInv, FilledOnce, Typed

\* And therefore always.
LEMMA BookAlways == Spec => []BookInv
<1>1. BookInv /\ [Next]_vars => BookInv'
  BY BookKept
<1> QED
  BY <1>1, BookInitially, PTL DEF Spec

\* The book of SimpleMatchingEngine holds the NEW orders, every FILLED order has
\* one fill and no other has any, whatever the strategy sends and cancels, in
\* every session and after any interruption.
THEOREM OrdersFillOnce == Spec => []FilledOnce
<1>1. BookInv => FilledOnce
  BY DEF BookInv
<1> QED
  BY <1>1, BookAlways, PTL

-----------------------------------------------------------------------------
(* The ledger.                                                              *)

Nought(p) == 0
Paid(f) == Sign(f.side) * f.price * f.volume
Moved(sym, f) == IF f.symbol = sym THEN Sign(f.side) * f.volume ELSE 0
CashStep(p, sum, f) == sum + Paid(f)
PositionStep(sym, sum, f) == sum + Moved(sym, f)
SettleStep(before, ledger, f) == ApplyFill(ledger, f)
Before(before) == before

C == INSTANCE FoldLemmas WITH op <- CashStep, base <- Nought
P == INSTANCE FoldLemmas WITH op <- PositionStep, base <- Nought
L == INSTANCE FoldLemmas WITH op <- SettleStep, base <- Before

Ledger == [cash : Int, positions : [Symbols -> Int]]
LedgerTyped == [cash |-> cash, positions |-> positions] \in Ledger

\* LedgerAgrees sums over the fills by a fold,
LEMMA LedgerIsFold ==
    LedgerAgrees <=> /\ cash = InitialCash - C!Fold({}, fills)
                     /\ \A sym \in Symbols : positions[sym] = P!Fold(sym, fills)
<1>1. SumFills(LAMBDA f : Sign(f.side) * f.price * f.volume) = C!Fold({}, fills)
  BY DEF SumFills, CashStep, Paid, Nought, C!Fold,
         FoldLeft, MapThenFoldSet, Max, C!MapThenFoldSet, C!Max
<1>2. \A sym : SumFills(LAMBDA f : IF f.symbol = sym THEN Sign(f.side) * f.volume ELSE 0) = P!Fold(sym, fills)
  BY DEF SumFills, PositionStep, Moved, Nought, P!Fold,
         FoldLeft, MapThenFoldSet, Max, P!MapThenFoldSet, P!Max
<1> QED
  BY <1>1, <1>2 DEF LedgerAgrees

\* and so does the broker when it applies the fills of a tick.
LEMMA SettledIsFold ==
    ASSUME NEW before, NEW s
    PROVE  FoldLeft(ApplyFill, before, s) = L!Fold(before, s)
BY DEF SettleStep, Before, L!Fold, FoldLeft, MapThenFoldSet, Max, L!MapThenFoldSet, L!Max

\* One fill more changes the sums by what it pays
LEMMA CashMore ==
    \A s \in Seq(Fill), f \in Fill : C!Fold({}, Append(s, f)) = C!Fold({}, s) + Paid(f)
BY C!FoldAppend DEF CashStep

\* and moves.
LEMMA PositionMore ==
    \A s \in Seq(Fill), f \in Fill : \A sym : P!Fold(sym, Append(s, f)) = P!Fold(sym, s) + Moved(sym, f)
BY P!FoldAppend DEF PositionStep

\* These are integers.
LEMMA FillAmounts ==
    ASSUME NEW f \in Fill
    PROVE  /\ Paid(f) \in Int /\ f.symbol \in Symbols
           /\ \A sym : Moved(sym, f) \in Int
<1>1. f.price \in Int /\ f.volume \in Int /\ f.symbol \in Symbols /\ Sign(f.side) \in Int
  BY DEF Fill, Sign
<1> QED
  BY <1>1 DEF Paid, Moved

\* ApplyFill changes cash and positions by the same amounts: by induction over
\* the fills of the tick, the ledger follows the sums.
LEMMA FillApplied ==
    ASSUME NEW ledger \in Ledger, NEW f \in Fill
    PROVE  /\ ApplyFill(ledger, f) \in Ledger
           /\ ApplyFill(ledger, f).cash = ledger.cash - Paid(f)
           /\ \A sym \in Symbols : ApplyFill(ledger, f).positions[sym] = ledger.positions[sym] + Moved(sym, f)
<1>1. /\ f.price \in Int /\ f.volume \in Int /\ f.symbol \in Symbols /\ Sign(f.side) \in Int
      /\ ledger.cash \in Int /\ ledger.positions \in [Symbols -> Int]
  BY DEF Fill, Sign, Ledger
<1>2. ApplyFill(ledger, f) =
        [cash |-> ledger.cash - Paid(f),
         positions |-> [ledger.positions EXCEPT ![f.symbol] = @ + Sign(f.side) * f.volume]]
  BY DEF ApplyFill, Paid, Sign
<1>3. Sign(f.side) * f.volume \in Int /\ Paid(f) \in Int
  BY <1>1, FillAmounts
<1> QED
  BY <1>1, <1>2, <1>3 DEF Ledger, Moved

\* What the settling of fills adds to the ledger is what they add to the sums.
LEMMA Settled ==
    ASSUME NEW before \in Ledger, NEW old \in Seq(Fill)
    PROVE  \A new \in Seq(Fill) :
             LET after == L!Fold(before, new)
             IN /\ after \in Ledger
                /\ C!Fold({}, old) \in Int => after.cash + C!Fold({}, old \o new) = before.cash + C!Fold({}, old)
                /\ \A sym \in Symbols : P!Fold(sym, old) \in Int =>
                     after.positions[sym] - P!Fold(sym, old \o new) = before.positions[sym] - P!Fold(sym, old)
                /\ C!Fold({}, old) \in Int => C!Fold({}, old \o new) \in Int
                /\ \A sym \in Symbols : P!Fold(sym, old) \in Int => P!Fold(sym, old \o new) \in Int
<1> DEFINE Holds(new, after, paid, moved) ==
             /\ after \in Ledger
             /\ C!Fold({}, old) \in Int => after.cash + paid = before.cash + C!Fold({}, old) /\ paid \in Int
             /\ \A sym \in Symbols : P!Fold(sym, old) \in Int =>
                  after.positions[sym] - moved[sym] = before.positions[sym] - P!Fold(sym, old) /\ moved[sym] \in Int
           Good == {new \in Seq(Fill) : Holds(new, L!Fold(before, new), C!Fold({}, old \o new),
                                              [sym \in Symbols |-> P!Fold(sym, old \o new)])}
<1>1. <<>> \in Good
  <2>1. L!Fold(before, <<>>) = before /\ old \o <<>> = old /\ <<>> \in Seq(Fill)
    BY L!FoldEmpty DEF Before
  <2> QED
    BY <2>1
<1>2. ASSUME NEW new \in Seq(Fill), NEW f \in Fill, new \in Good PROVE Append(new, f) \in Good
  <2> DEFINE u == old \o new
             after == L!Fold(before, new)
             moved == [sym \in Symbols |-> P!Fold(sym, u)]
             moved2 == [sym \in Symbols |-> P!Fold(sym, old \o Append(new, f))]
  <2>1. u \in Seq(Fill) /\ old \o Append(new, f) = Append(u, f) /\ Append(new, f) \in Seq(Fill)
    OBVIOUS
  <2>2. L!Fold(before, Append(new, f)) = ApplyFill(after, f)
    BY L!FoldAppend DEF SettleStep
  <2>3. C!Fold({}, old \o Append(new, f)) = C!Fold({}, u) + Paid(f)
    BY <2>1, CashMore
  <2>4. \A sym : P!Fold(sym, old \o Append(new, f)) = P!Fold(sym, u) + Moved(sym, f)
    BY <2>1, PositionMore
  <2>5. Holds(new, after, C!Fold({}, u), moved)
    BY <1>2
  <2>6. \A sym \in Symbols : moved2[sym] = moved[sym] + Moved(sym, f)
    BY <2>4
  <2> HIDE DEF u, after, moved, moved2
  <2>7. /\ ApplyFill(after, f) \in Ledger
        /\ ApplyFill(after, f).cash = after.cash - Paid(f)
        /\ \A sym \in Symbols : ApplyFill(after, f).positions[sym] = after.positions[sym] + Moved(sym, f)
    BY <2>5, FillApplied
  <2>8. /\ Paid(f) \in Int /\ \A sym : Moved(sym, f) \in Int
        /\ after.cash \in Int /\ before.cash \in Int
        /\ \A sym \in Symbols : after.positions[sym] \in Int /\ before.positions[sym] \in Int
    BY <2>5, FillAmounts DEF Ledger
  <2>9. Holds(Append(new, f), ApplyFill(after, f), C!Fold({}, u) + Paid(f), moved2)
    <3> DEFINE c == C!Fold({}, old)
    <3>1. c \in Int => after.cash + C!Fold({}, u) = before.cash + c /\ C!Fold({}, u) \in Int
      BY <2>5
    <3>2. \A sym \in Symbols : P!Fold(sym, old) \in Int =>
             after.positions[sym] - moved[sym] = before.positions[sym] - P!Fold(sym, old) /\ moved[sym] \in Int
      BY <2>5
    <3> HIDE DEF c
    <3>3. c \in Int => (after.cash - Paid(f)) + (C!Fold({}, u) + Paid(f)) = before.cash + c /\ C!Fold({}, u) + Paid(f) \in Int
      BY <3>1, <2>8
    <3>4. \A sym \in Symbols : P!Fold(sym, old) \in Int =>
             /\ (after.positions[sym] + Moved(sym, f)) - (moved[sym] + Moved(sym, f)) = before.positions[sym] - P!Fold(sym, old)
             /\ moved[sym] + Moved(sym, f) \in Int
      BY <3>2, <2>8
    <3> QED
      BY <2>6, <2>7, <3>3, <3>4 DEF c
  <2> QED
    BY <2>1, <2>2, <2>3, <2>9 DEF moved2
<1> HIDE DEF Good
<1>3. Seq(Fill) \subseteq Good
  BY <1>1, <1>2, K!SequenceInduction
<1> QED
  BY <1>3 DEF Good

LedgerInv ==
    /\ BookInv
    /\ LedgerTyped /\ C!Fold({}, fills) \in Int
    /\ \A sym \in Symbols : P!Fold(sym, fills) \in Int
    /\ cash = InitialCash - C!Fold({}, fills)
    /\ \A sym \in Symbols : positions[sym] = P!Fold(sym, fills)

\* A new session has its initial cash and no fills.
LEMMA EmptyLedger ==
    ASSUME cash = InitialCash, positions = Flat, fills = <<>>
    PROVE  /\ LedgerTyped /\ C!Fold({}, fills) \in Int
           /\ \A sym \in Symbols : P!Fold(sym, fills) \in Int
           /\ cash = InitialCash - C!Fold({}, fills)
           /\ \A sym \in Symbols : positions[sym] = P!Fold(sym, fills)
<1>1. C!Fold({}, fills) = 0 /\ \A sym : P!Fold(sym, fills) = 0
  BY C!FoldEmpty, P!FoldEmpty DEF Nought
<1> QED
  BY <1>1, PaperAssumption DEF LedgerTyped, Ledger, Flat

\* Every step preserves the agreement.
LEMMA LedgerKept ==
    ASSUME LedgerInv, [Next]_vars
    PROVE  LedgerInv'
<1>1. BookInv' /\ Typed /\ BookStep
  BY BookKept, Steps DEF LedgerInv, BookInv
<1> SUFFICES /\ LedgerTyped' /\ C!Fold({}, fills') \in Int
             /\ \A sym \in Symbols : P!Fold(sym, fills') \in Int
             /\ cash' = InitialCash - C!Fold({}, fills')
             /\ \A sym \in Symbols : positions'[sym] = P!Fold(sym, fills')
  BY <1>1 DEF LedgerInv
<1>2. /\ cash = InitialCash - C!Fold({}, fills)
      /\ \A sym \in Symbols : positions[sym] = P!Fold(sym, fills)
  BY DEF LedgerInv
<1>3. CASE Opened
  <2>1. C!Fold({}, <<>>) = 0 /\ \A sym : P!Fold(sym, <<>>) = 0
    BY C!FoldEmpty, P!FoldEmpty DEF Nought
  <2> QED
    BY <1>3, <2>1, PaperAssumption DEF Opened, LedgerTyped, Ledger, Flat
<1>4. CASE UNCHANGED <<cash, positions, fills>>
  BY <1>2, <1>4 DEF LedgerTyped, LedgerInv
<1>5. CASE BrokerOnTick
  <2> DEFINE before == [cash |-> cash, positions |-> positions]
             after == L!Fold(before, NewFills)
  <2>1. /\ fills' = fills \o NewFills /\ cash' = after.cash /\ positions' = after.positions
    BY <1>5, BrokerMatches, SettledIsFold
  <2>2. /\ before \in Ledger /\ before.cash = cash /\ before.positions = positions
        /\ cash \in Int /\ positions \in [Symbols -> Int]
    BY DEF LedgerInv, LedgerTyped, Ledger
  <2>3. fills \in Seq(Fill) /\ NewFills \in Seq(Fill)
    BY <1>1, MatchedFacts DEF Typed, NewFills
  <2> HIDE DEF before
  <2>4. /\ after \in Ledger
        /\ after.cash + C!Fold({}, fills \o NewFills) = before.cash + C!Fold({}, fills)
        /\ \A sym \in Symbols :
             after.positions[sym] - P!Fold(sym, fills \o NewFills) = before.positions[sym] - P!Fold(sym, fills)
        /\ C!Fold({}, fills \o NewFills) \in Int
        /\ \A sym \in Symbols : P!Fold(sym, fills \o NewFills) \in Int
    BY <2>2, <2>3, Settled DEF LedgerInv
  <2> HIDE DEF after
  <2>5. after.cash \in Int /\ after.positions \in [Symbols -> Int]
    BY <2>4 DEF Ledger
  <2>6. LedgerTyped'
    BY <2>1, <2>5 DEF LedgerTyped, Ledger
  <2>7. cash' = InitialCash - C!Fold({}, fills')
    BY <1>2, <2>1, <2>2, <2>4, <2>5, PaperAssumption DEF LedgerInv
  <2>8. ASSUME NEW sym \in Symbols PROVE positions'[sym] = P!Fold(sym, fills')
    <3>1. after.positions[sym] - P!Fold(sym, fills') = before.positions[sym] - P!Fold(sym, fills)
      BY <2>1, <2>4
    <3>2. before.positions[sym] = P!Fold(sym, fills) /\ P!Fold(sym, fills) \in Int
      BY <1>2, <2>2 DEF LedgerInv
    <3>3. after.positions[sym] \in Int /\ P!Fold(sym, fills') \in Int
      BY <2>1, <2>4, <2>5
    <3> QED
      BY <2>1, <3>1, <3>2, <3>3
  <2> QED
    BY <2>1, <2>4, <2>6, <2>7, <2>8
<1>6. CASE UNCHANGED broker
  BY <1>4, <1>6 DEF broker
<1>7. ASSUME NEW id \in OrderIds, NEW req \in OrderRequest, SendOrder(id, req) PROVE UNCHANGED <<cash, positions, fills>>
  BY <1>7 DEF SendOrder
<1>8. ASSUME NEW id \in OrderIds, CancelOrder(id) PROVE UNCHANGED <<cash, positions, fills>>
  BY <1>8 DEF CancelOrder
<1> QED
  BY <1>1, <1>3, <1>4, <1>5, <1>6, <1>7, <1>8 DEF BookStep

\* SimBroker's cash and positions are what the fills of the session add up to,
\* for any prices and volumes, although orders, book and ledger are written in
\* separate loops over a list.
THEOREM LedgerAddsUp == Spec => []LedgerAgrees
<1>1. Init => LedgerInv
  BY BookInitially, EmptyLedger DEF Init, LedgerInv
<1>2. LedgerInv /\ [Next]_vars => LedgerInv'
  BY LedgerKept
<1>3. LedgerInv => LedgerAgrees
  BY LedgerIsFold DEF LedgerInv
<1> QED
  BY <1>1, <1>2, <1>3, PTL DEF Spec

-----------------------------------------------------------------------------
(* What the demo strategy and the broker make of a file of ticks.           *)

Here == [orders |-> orders, book |-> active_orders, fills |-> fills, done |-> ordered_symbols]
Account == [orders : [OrderIds -> Order \union {NoOrder}], book : Seq(OrderIds),
            fills : Seq(Fill), done : SUBSET Symbols]

Unused(b) == {o \in OrderIds : b.orders[o] = NoOrder}
DemoPrice(t) == OrElse(t.ask_price, t.last_price)
DemoOrder(t) == [symbol |-> t.symbol, side |-> "BUY", order_type |-> "LIMIT",
                 price |-> DemoPrice(t), volume |-> Volume]
Submitted(t) == [request |-> DemoOrder(t), traded |-> 0, status |-> "NEW"]

Decided(b, t) ==
    LET id == CHOOSE o \in Unused(b) : TRUE
    IN IF t.symbol \in b.done \/ DemoPrice(t) = None \/ Unused(b) = {} THEN b
       ELSE IF Rejected(DemoOrder(t)) THEN [b EXCEPT !.done = @ \union {t.symbol}]
       ELSE [orders |-> [b.orders EXCEPT ![id] = Submitted(t)], book |-> Append(b.book, id),
             fills |-> b.fills, done |-> b.done \union {t.symbol}]

Filled(b, t) ==
    [orders |-> OrdersAfter(b.book, b.orders, t),
     book |-> Kept(b.book, OrderIds \ ToSet(MatchedIn(b.book, b.orders, t))),
     fills |-> b.fills \o FillsIn(b.book, b.orders, t),
     done |-> b.done]

Day(p, b, t) == Filled(Decided(b, t), t)
Start(p) == [orders |-> NoOrders, book |-> <<>>, fills |-> <<>>, done |-> {}]

R == INSTANCE FoldLemmas WITH op <- Day, base <- Start

Run(s, n) == R!Fold({}, SubSeq(s, 1, n))

\* What the demo strategy sends on a tick depends on the account and the tick.
LEMMA DemoDecides ==
    ASSUME Typed, Demo
    PROVE  Here' = Decided(Here, tick)
<1>1. PICK id \in OrderIds : FirstUnused(id) /\ BuyOnce(id)
  BY DEF Demo
<1>2. Unused(Here) # {} /\ id = CHOOSE o \in Unused(Here) : TRUE
  BY <1>1 DEF FirstUnused, Unused, Here
<1>3. CASE tick.symbol \in ordered_symbols \/ DemoPrice(tick) = None
  <2>1. UNCHANGED <<broker, ordered_symbols>>
    BY <1>1, <1>3 DEF BuyOnce, DemoPrice
  <2>2. Here' = Here /\ Here.done = ordered_symbols
    BY <2>1 DEF Here, broker
  <2> QED
    BY <1>3, <2>2 DEF Decided
<1>4. CASE ~(tick.symbol \in ordered_symbols \/ DemoPrice(tick) = None)
  <2>1. SendOrder(id, DemoOrder(tick)) /\ ordered_symbols' = ordered_symbols \union {tick.symbol}
    BY <1>1, <1>4 DEF BuyOnce, DemoOrder, DemoPrice
  <2>2. CASE Rejected(DemoOrder(tick))
    <3>1. Here' = [Here EXCEPT !.done = @ \union {tick.symbol}]
      BY <2>1, <2>2 DEF SendOrder, Here
    <3> QED
      BY <1>2, <1>4, <2>2, <3>1 DEF Decided, Here
  <2>3. CASE ~Rejected(DemoOrder(tick))
    <3>1. /\ orders' = [orders EXCEPT ![id] = Submitted(tick)]
          /\ active_orders' = Append(active_orders, id) /\ fills' = fills
      BY <2>1, <2>3 DEF SendOrder, Submitted
    <3> QED
      BY <1>2, <1>4, <2>1, <2>3, <3>1 DEF Decided, Here
  <2> QED
    BY <2>2, <2>3
<1> QED
  BY <1>3, <1>4

\* So does what the matching engine fills.
LEMMA MatchFills ==
    ASSUME MatchTick
    PROVE  Here' = Filled(Here, tick)
<1>1. BrokerOnTick /\ ordered_symbols' = ordered_symbols
  BY DEF MatchTick
<1> QED
  BY <1>1, BrokerMatches DEF Filled, Here, Matched, NewFills

\* Both halves of a tick keep the account typed:
LEMMA DecidedTyped ==
    ASSUME NEW b \in Account, NEW t \in Tick
    PROVE  Decided(b, t) \in Account /\ Decided(b, t).fills = b.fills
<1>1. /\ b.orders \in [OrderIds -> Order \union {NoOrder}] /\ b.book \in Seq(OrderIds)
      /\ b.fills \in Seq(Fill) /\ b.done \in SUBSET Symbols /\ t.symbol \in Symbols
  BY DEF Account, Tick
<1>2. CASE t.symbol \in b.done \/ DemoPrice(t) = None \/ Unused(b) = {}
  BY <1>2 DEF Decided
<1>3. CASE ~(t.symbol \in b.done \/ DemoPrice(t) = None \/ Unused(b) = {})
  <2>1. CASE Rejected(DemoOrder(t))
    <3>1. Decided(b, t) = [b EXCEPT !.done = @ \union {t.symbol}]
      BY <1>3, <2>1 DEF Decided
    <3> QED
      BY <1>1, <3>1 DEF Account
  <2>2. CASE ~Rejected(DemoOrder(t))
    <3> DEFINE id == CHOOSE o \in Unused(b) : TRUE
    <3>1. id \in OrderIds
      BY <1>3 DEF Unused
    <3>2. Decided(b, t) = [orders |-> [b.orders EXCEPT ![id] = Submitted(t)], book |-> Append(b.book, id),
                           fills |-> b.fills, done |-> b.done \union {t.symbol}]
      BY <1>3, <2>2 DEF Decided
    <3>3. Submitted(t) \in Order
      <4>1. DemoPrice(t) \in Int
        BY DEF DemoPrice, OrElse, Tick, Price, None
      <4>2. DemoOrder(t) \in OrderRequest
        BY <1>1, <4>1, PaperAssumption DEF DemoOrder, OrderRequest, Side
      <4> QED
        BY <4>2 DEF Submitted, Order
    <3> HIDE DEF id
    <3>4. [b.orders EXCEPT ![id] = Submitted(t)] \in [OrderIds -> Order \union {NoOrder}]
      BY <1>1, <3>3
    <3> QED
      BY <1>1, <3>1, <3>2, <3>4 DEF Account
  <2> QED
    BY <2>1, <2>2
<1> QED
  BY <1>2, <1>3

\* deciding above, and matching.
LEMMA FilledTyped ==
    ASSUME NEW b \in Account, NEW t \in Tick
    PROVE  /\ Filled(b, t) \in Account
           /\ \E new \in Seq(Fill) : Filled(b, t).fills = b.fills \o new
<1>1. /\ b.orders \in [OrderIds -> Order \union {NoOrder}] /\ b.book \in Seq(OrderIds)
      /\ b.fills \in Seq(Fill) /\ b.done \in SUBSET Symbols
  BY DEF Account
<1>2. /\ OrdersAfter(b.book, b.orders, t) \in [OrderIds -> Order \union {NoOrder}]
      /\ FillsIn(b.book, b.orders, t) \in Seq(Fill)
  BY <1>1, OrdersAfterFacts, MatchedFacts
<1>3. Kept(b.book, OrderIds \ ToSet(MatchedIn(b.book, b.orders, t))) \in Seq(OrderIds)
  BY <1>1, KeptFacts
<1>4. b.fills \o FillsIn(b.book, b.orders, t) \in Seq(Fill)
  BY <1>1, <1>2
<1>5. Filled(b, t) \in Account
  BY <1>1, <1>2, <1>3, <1>4 DEF Filled, Account
<1>6. Filled(b, t).fills = b.fills \o FillsIn(b.book, b.orders, t)
  BY DEF Filled
<1> QED
  BY <1>2, <1>5, <1>6

-----------------------------------------------------------------------------
(* Runs over the first ticks of a file.                                     *)

\* A recorded sequence up to a later tick is the sequence so far and that tick.
LEMMA FirstTicks ==
    ASSUME NEW s \in Seq(Tick), NEW n \in 0 .. Len(s)
    PROVE  /\ SubSeq(s, 1, n) \in Seq(Tick)
           /\ n = 0 => SubSeq(s, 1, n) = <<>>
           /\ n < Len(s) => s[n + 1] \in Tick /\ SubSeq(s, 1, n + 1) = Append(SubSeq(s, 1, n), s[n + 1])
           /\ \A t \in Tick : SubSeq(Append(s, t), 1, n) = SubSeq(s, 1, n)
<1>1. SubSeq(s, 1, n) \in Seq(Tick) /\ Len(SubSeq(s, 1, n)) = n
  OBVIOUS
<1>2. n = 0 => SubSeq(s, 1, n) = <<>>
  BY <1>1
<1>3. n < Len(s) => s[n + 1] \in Tick /\ SubSeq(s, 1, n + 1) = Append(SubSeq(s, 1, n), s[n + 1])
  OBVIOUS
<1>4. \A t \in Tick : SubSeq(Append(s, t), 1, n) = SubSeq(s, 1, n)
  OBVIOUS
<1> QED
  BY <1>1, <1>2, <1>3, <1>4

\* One tick more makes one step more.
LEMMA DayMore == \A s \in Seq(Tick), t \in Tick : R!Fold({}, Append(s, t)) = Day({}, R!Fold({}, s), t)
BY R!FoldAppend

\* A run of no ticks is the state in which a session starts.
LEMMA RunBegins == ASSUME NEW s \in Seq(Tick) PROVE Run(s, 0) = Start({})
<1>1. SubSeq(s, 1, 0) = <<>>
  BY FirstTicks
<1> QED
  BY <1>1, R!FoldEmpty DEF Run

\* A run of one tick more is one step more.
LEMMA RunStep ==
    ASSUME NEW s \in Seq(Tick), NEW n \in Nat, n < Len(s)
    PROVE  Run(s, n + 1) = Filled(Decided(Run(s, n), s[n + 1]), s[n + 1])
<1>1. /\ SubSeq(s, 1, n) \in Seq(Tick) /\ s[n + 1] \in Tick
      /\ SubSeq(s, 1, n + 1) = Append(SubSeq(s, 1, n), s[n + 1])
  BY FirstTicks
<1> QED
  BY <1>1, DayMore DEF Run, Day

\* What follows in the file does not change the run so far.
LEMMA RunOfLonger ==
    ASSUME NEW s \in Seq(Tick), NEW t \in Tick, NEW n \in 0 .. Len(s)
    PROVE  Run(Append(s, t), n) = Run(s, n)
BY FirstTicks DEF Run

Starts(s, t) == Len(s) <= Len(t) /\ \A i \in 1 .. Len(s) : s[i] = t[i]

\* Starts is the prefix order of ReplayReproduces.
LEMMA StartsIsPrefix ==
    ASSUME NEW s \in Seq(Fill), NEW t \in Seq(Fill), Starts(s, t)
    PROVE  IsPrefix(s, t)
<1>1. Len(s) \in Nat /\ Len(s) <= Len(t) /\ \A i \in 1 .. Len(s) : s[i] = t[i]
  BY DEF Starts
<1>2. SubSeq(s, 1, Len(s)) = SubSeq(t, 1, Len(s))
  BY <1>1
<1> QED
  BY <1>1, <1>2 DEF IsPrefix

\* A run keeps the account typed.
LEMMA RunTyped ==
    ASSUME NEW s \in Seq(Tick)
    PROVE  \A n \in 0 .. Len(s) : Run(s, n) \in Account
<1> DEFINE Good == {n \in Nat : n <= Len(s) => Run(s, n) \in Account}
<1>1. 0 \in Good
  <2>1. Run(s, 0) = Start({})
    BY RunBegins
  <2>2. <<>> \in Seq(Fill) /\ <<>> \in Seq(OrderIds) /\ NoOrders \in [OrderIds -> Order \union {NoOrder}]
    BY DEF NoOrders
  <2>3. Start({}) \in Account
    BY <2>2 DEF Start, Account
  <2> QED
    BY <2>1, <2>3
<1>2. ASSUME NEW n \in Nat, n \in Good PROVE n + 1 \in Good
  <2> SUFFICES ASSUME n + 1 <= Len(s) PROVE Run(s, n + 1) \in Account
    OBVIOUS
  <2>1. Run(s, n) \in Account /\ s[n + 1] \in Tick /\ n < Len(s)
    BY <1>2
  <2>2. Filled(Decided(Run(s, n), s[n + 1]), s[n + 1]) \in Account
    BY <2>1, DecidedTyped, FilledTyped
  <2> QED
    BY <2>1, <2>2, RunStep
<1> HIDE DEF Good
<1>3. Nat \subseteq Good
  BY <1>1, <1>2, K!Induction
<1> QED
  BY <1>3 DEF Good

\* A longer run has the fills of the shorter one first.
LEMMA RunGrows ==
    ASSUME NEW s \in Seq(Tick), NEW m \in Nat
    PROVE  \A n \in 0 .. Len(s) : m <= n => Starts(Run(s, m).fills, Run(s, n).fills)
<1> DEFINE Good == {n \in Nat : n <= Len(s) /\ m <= n => Starts(Run(s, m).fills, Run(s, n).fills)}
<1>0. \A n \in Nat : n <= Len(s) => Run(s, n).fills \in Seq(Fill)
  BY RunTyped DEF Account
<1>1. m \in Good
  BY <1>0 DEF Starts
<1>2. 0 \in Good
  BY <1>1
<1>3. ASSUME NEW n \in Nat, n \in Good PROVE n + 1 \in Good
  <2>1. CASE m = n + 1
    BY <1>1, <2>1
  <2>2. CASE m # n + 1
    <3> SUFFICES ASSUME n + 1 <= Len(s), m <= n + 1 PROVE Starts(Run(s, m).fills, Run(s, n + 1).fills)
      OBVIOUS
    <3>1. m <= n /\ n < Len(s) /\ s[n + 1] \in Tick /\ Run(s, n) \in Account
      BY <2>2, RunTyped
    <3>2. Starts(Run(s, m).fills, Run(s, n).fills)
      BY <1>3, <3>1
    <3>3. Decided(Run(s, n), s[n + 1]) \in Account /\ Decided(Run(s, n), s[n + 1]).fills = Run(s, n).fills
      BY <3>1, DecidedTyped
    <3>4. PICK new \in Seq(Fill) : Run(s, n + 1).fills = Run(s, n).fills \o new
      BY ZenonT(30), <3>1, <3>3, RunStep, FilledTyped
    <3> DEFINE f == Run(s, n).fills
               g == Run(s, m).fills
    <3>5. f \in Seq(Fill) /\ g \in Seq(Fill)
      BY <1>0, <3>1
    <3>6. Starts(g, f) /\ Run(s, n + 1).fills = f \o new
      BY <3>2, <3>4
    <3> HIDE DEF f, g
    <3>7. Starts(g, f \o new)
      BY <3>5, <3>6 DEF Starts
    <3> QED
      BY <3>6, <3>7 DEF g
  <2> QED
    BY <2>1, <2>2
<1> HIDE DEF Good
<1>4. Nat \subseteq Good
  BY <1>2, <1>3, K!Induction
<1> QED
  BY <1>4 DEF Good

-----------------------------------------------------------------------------
(* Replays.                                                                 *)

\* A replay, or the first live session: its ticks are those of the file.
Follows == session = "replay" \/ (session = "live" /\ lived.sessions = 1)

\* Such a session has made of the first ticks what Run makes of them.
Following ==
    /\ seen <= Len(file)
    /\ pc \in {"wait", "record", "decide"} => Here = Run(file, seen)
    /\ pc = "match" => Here = Decided(Run(file, seen), tick)
    /\ pc \in {"decide", "match"} => seen < Len(file) /\ tick = file[seen + 1]
    /\ fills = Run(file, seen).fills
    /\ session = "live" /\ pc \in {"wait", "record"} => seen = Len(file)
    /\ session = "live" /\ pc \in {"decide", "match"} => seen + 1 = Len(file)

\* What is remembered of the first session.
Remembers ==
    /\ \E m \in 0 .. Len(file) : lived.fills = Run(file, m).fills
    /\ lived.sessions = 0 => pc = "over" /\ file = <<>> /\ lived = Noticed
    /\ lived.sessions = 1 => session = "live"
    /\ lived.sessions = 1 /\ pc # "over" => lived.fills = fills /\ ~lived.killed
    /\ /\ ~lived.killed
       /\ \/ lived.sessions = 1 /\ pc = "over"
          \/ lived.sessions = 2 /\ session = "replay"
       => lived.fills = Run(file, Len(file)).fills

Controlled ==
    /\ pc \in {"wait", "record", "decide", "match", "over"} /\ session \in {"none", "live", "replay"}
    /\ pc = "record" => session = "live"
    /\ lived \in [fills : Seq(Fill), killed : BOOLEAN, sessions : Nat]

ReplayInv ==
    /\ BookInv
    /\ strategy = "demo" => Controlled /\ Remembers /\ (Follows => Following)

\* The invariant says what the property says: fills of the replay are a prefix
\* of, or begin with, those of the recorded session.
LEMMA ReplayHolds == ReplayInv => ReplayReproduces
<1> SUFFICES ASSUME ReplayInv, strategy = "demo", session = "replay", pc \in {"wait", "over"}
             PROVE  /\ IsPrefix(lived.fills, fills) \/ IsPrefix(fills, lived.fills)
                    /\ seen = Len(file) => IsPrefix(lived.fills, fills)
                    /\ seen = Len(file) /\ ~lived.killed /\ lived.sessions = 2 => fills = lived.fills
  BY DEF ReplayReproduces
<1>1. Remembers /\ Following /\ file \in Seq(Tick) /\ seen \in Nat /\ fills \in Seq(Fill) /\ lived.fills \in Seq(Fill)
  BY DEF ReplayInv, BookInv, Controlled, Follows, Typed
<1>2. PICK m \in 0 .. Len(file) : lived.fills = Run(file, m).fills
  BY <1>1 DEF Remembers
<1>3. seen \in 0 .. Len(file) /\ fills = Run(file, seen).fills
  BY <1>1 DEF Following
<1>4. m <= seen => IsPrefix(lived.fills, fills)
  BY <1>1, <1>2, <1>3, RunGrows, StartsIsPrefix
<1>5. seen <= m => IsPrefix(fills, lived.fills)
  BY <1>1, <1>2, <1>3, RunGrows, StartsIsPrefix
<1>6. m <= seen \/ seen <= m
  BY <1>2, <1>3
<1>7. seen = Len(file) => m <= seen
  BY <1>2
<1>8. seen = Len(file) /\ ~lived.killed /\ lived.sessions = 2 => fills = lived.fills
  BY <1>1, <1>3 DEF Remembers
<1> QED
  BY <1>4, <1>5, <1>6, <1>7, <1>8

\* The invariant, action by action.  A session starts with a run of no ticks.
LEMMA SessionBegins ==
    ASSUME Typed, Controlled, Remembers, BeginLive \/ BeginReplay
    PROVE  Controlled' /\ Remembers' /\ (Follows' => Following')
<1>1. /\ pc = "over" /\ orders' = NoOrders /\ active_orders' = <<>> /\ fills' = <<>> /\ ordered_symbols' = {}
      /\ pc' = "wait" /\ seen' = 0 /\ lived' = [lived EXCEPT !.sessions = @ + 1] /\ file' = file
      /\ session' = "live" \/ (session' = "replay" /\ file # <<>>)
  BY DEF BeginLive, BeginReplay, Begin
<1>2. /\ lived'.fills = lived.fills /\ lived'.killed = lived.killed /\ lived'.sessions = lived.sessions + 1
      /\ lived.sessions \in Nat
      /\ lived' \in [fills : Seq(Fill), killed : BOOLEAN, sessions : Nat]
  BY <1>1 DEF Controlled
<1>3. Run(file, 0) = Start({}) /\ file \in Seq(Tick) /\ Len(file) \in Nat
  BY RunBegins DEF Typed
<1>4. Here' = Run(file, 0) /\ Run(file, 0).fills = <<>>
  BY <1>1, <1>3 DEF Here, Start
<1>5. lived.sessions = 0 => file = <<>> /\ Len(file) = 0 /\ lived.fills = <<>> /\ ~lived.killed
  BY DEF Remembers, Noticed
<1>6. Controlled'
  BY <1>1, <1>2 DEF Controlled
<1>7. Remembers'
  BY <1>1, <1>2, <1>4, <1>5 DEF Remembers, Controlled
<1>8. ASSUME Follows' PROVE Following'
  <2>1. session' = "live" => Len(file) = 0
    BY <1>1, <1>2, <1>5, <1>8 DEF Follows
  <2> QED
    BY <1>1, <1>3, <1>4, <2>1 DEF Following
<1> QED
  BY <1>6, <1>7, <1>8

\* A tick arrives, and is one more of the file in a replay;
LEMMA TickArrives ==
    ASSUME Typed, Controlled, Remembers, Follows => Following, (\E t \in Ticks : NextTick(t)) \/ NextReplayed
    PROVE  Controlled' /\ Remembers' /\ (Follows' => Following')
<1>1. /\ pc = "wait" /\ UNCHANGED <<broker, ordered_symbols, session, seen, file, lived>>
      /\ \/ session = "live" /\ pc' = "record"
         \/ session = "replay" /\ pc' = "decide" /\ seen < Len(file) /\ tick' = file[seen + 1]
  BY DEF NextTick, NextReplayed
<1>2. Controlled' /\ (Follows' <=> Follows) /\ Here' = Here
  BY <1>1 DEF Controlled, Follows, Here, broker
<1>3. Remembers'
  BY <1>1 DEF Remembers, broker
<1>4. Follows => Following'
  BY <1>1, <1>2 DEF Following, broker
<1> QED
  BY <1>2, <1>3, <1>4

\* it is written to the file before anybody acts on it;
LEMMA TickRecorded ==
    ASSUME Typed, Controlled, Remembers, Follows => Following, RecordTick
    PROVE  Controlled' /\ Remembers' /\ (Follows' => Following')
<1>1. /\ pc = "record" /\ pc' = "decide" /\ session = "live" /\ file' = Append(file, tick)
      /\ UNCHANGED <<broker, ordered_symbols, session, tick, seen, lived>>
  BY DEF RecordTick, Controlled
<1>2. /\ file \in Seq(Tick) /\ tick \in Tick /\ Len(file) \in Nat /\ seen \in Nat
      /\ Len(file') = Len(file) + 1 /\ file'[Len(file) + 1] = tick
  BY <1>1 DEF Typed
<1>3. \A n \in 0 .. Len(file) : Run(file', n) = Run(file, n)
  BY <1>1, <1>2, RunOfLonger
<1>4. Controlled' /\ (Follows' <=> Follows) /\ Here' = Here /\ lived.sessions # 0
  BY <1>1 DEF Controlled, Follows, Here, broker, Remembers
<1>5. Remembers'
  <2>1. PICK m \in 0 .. Len(file) : lived.fills = Run(file, m).fills
    BY DEF Remembers
  <2>2. m \in 0 .. Len(file') /\ lived.fills = Run(file', m).fills
    BY <1>2, <1>3, <2>1
  <2> QED
    BY <1>1, <1>4, <2>2 DEF Remembers, broker
<1>6. Follows => Following'
  <2> SUFFICES ASSUME Follows PROVE Following'
    OBVIOUS
  <2>1. seen = Len(file) /\ Here = Run(file, seen) /\ fills = Run(file, seen).fills
    BY <1>1 DEF Following
  <2>2. Run(file', seen) = Run(file, seen)
    BY <1>2, <1>3, <2>1
  <2> QED
    BY <1>1, <1>2, <1>4, <2>1, <2>2 DEF Following, broker
<1> QED
  BY <1>4, <1>5, <1>6

\* the strategy decides, which is the first half of a day;
LEMMA StrategyDecides ==
    ASSUME Typed, Controlled, Remembers, Follows => Following, Demo
    PROVE  Controlled' /\ Remembers' /\ (Follows' => Following')
<1>1. /\ pc = "decide" /\ pc' = "match" /\ UNCHANGED <<session, tick, seen, file, lived>>
      /\ Here' = Decided(Here, tick)
  BY DemoDecides DEF Demo
<1>2. fills' = fills
  BY DEF Demo, BuyOnce, SendOrder, broker
<1>3. Controlled' /\ (Follows' <=> Follows)
  BY <1>1 DEF Controlled, Follows
<1>4. Remembers'
  BY <1>1, <1>2 DEF Remembers
<1>5. Follows => Following'
  BY <1>1, <1>2 DEF Following
<1> QED
  BY <1>3, <1>4, <1>5

\* the book is matched, which is the second half.
LEMMA TickMatched ==
    ASSUME Typed, Typed', Controlled, Remembers, Follows => Following, MatchTick
    PROVE  Controlled' /\ Remembers' /\ (Follows' => Following')
<1>1. /\ pc = "match" /\ pc' \in {"wait", "over"} /\ seen' = seen + 1 /\ lived' = Remembered(FALSE)
      /\ UNCHANGED <<session, tick, file>> /\ Here' = Filled(Here, tick)
  BY MatchFills DEF MatchTick
<1>2. /\ lived' = IF session = "live" /\ lived.sessions = 1
                  THEN [lived EXCEPT !.fills = fills', !.killed = FALSE] ELSE lived
      /\ fills' \in Seq(Fill) /\ file \in Seq(Tick) /\ seen \in Nat /\ Len(file) \in Nat
  BY <1>1 DEF Remembered, Typed
<1>3. /\ lived'.sessions = lived.sessions /\ lived.sessions # 0
      /\ session = "live" /\ lived.sessions = 1 => lived'.fills = fills' /\ ~lived'.killed
      /\ lived' \in [fills : Seq(Fill), killed : BOOLEAN, sessions : Nat]
      /\ ~(session = "live" /\ lived.sessions = 1) => lived' = lived
  BY <1>1, <1>2 DEF Controlled, Remembers
<1>4. Controlled' /\ (Follows' <=> Follows)
  BY <1>1, <1>3 DEF Controlled, Follows
<1>5. ASSUME Follows
      PROVE  /\ seen < Len(file) /\ Here' = Run(file, seen + 1) /\ fills' = Run(file, seen + 1).fills
             /\ session = "live" => seen + 1 = Len(file)
  <2>1. /\ seen < Len(file) /\ Here = Decided(Run(file, seen), tick) /\ tick = file[seen + 1]
        /\ session = "live" => seen + 1 = Len(file)
    BY <1>1, <1>5 DEF Following
  <2>2. Here' = Run(file, seen + 1)
    BY <1>1, <1>2, <2>1, RunStep
  <2> QED
    BY <2>1, <2>2 DEF Here
<1>6. Follows => Following'
  BY <1>1, <1>2, <1>5 DEF Following
<1>7. Remembers'
  <2>1. CASE session = "live" /\ lived.sessions = 1
    <3>1. seen + 1 = Len(file) /\ lived'.fills = Run(file, Len(file)).fills
      BY <1>3, <1>5, <2>1 DEF Follows
    <3>2. Len(file) \in 0 .. Len(file)
      BY <1>2
    <3> QED
      BY <1>1, <1>3, <2>1, <3>1, <3>2 DEF Remembers
  <2>2. CASE ~(session = "live" /\ lived.sessions = 1)
    BY <1>1, <1>3, <2>2 DEF Remembers
  <2> QED
    BY <2>1, <2>2
<1> QED
  BY <1>4, <1>6, <1>7

\* A session that ends leaves the file and what it had filled.
LEMMA SessionEnds ==
    ASSUME Typed, Controlled, Remembers, Follows => Following, ReplayEnds \/ Killed
    PROVE  Controlled' /\ Remembers' /\ (Follows' => Following')
<1>1. /\ pc # "over" /\ pc' = "over" /\ UNCHANGED <<broker, ordered_symbols, session, tick, seen, file>>
      /\ \/ session = "live" /\ lived' = Remembered(TRUE)
         \/ session = "replay" /\ lived' = lived
  BY DEF ReplayEnds, Killed
<1>2. fills' = fills /\ fills \in Seq(Fill) /\ seen \in Nat /\ Len(file) \in Nat /\ Here' = Here
  BY <1>1 DEF broker, Typed, Here
<1>3. lived' = IF session = "live" /\ lived.sessions = 1
               THEN [lived EXCEPT !.fills = fills, !.killed = TRUE] ELSE lived
  BY <1>1, <1>2 DEF Remembered
<1>4. /\ lived'.sessions = lived.sessions /\ lived.sessions # 0
      /\ session = "live" /\ lived.sessions = 1 => lived'.fills = fills /\ lived'.killed
      /\ lived' \in [fills : Seq(Fill), killed : BOOLEAN, sessions : Nat]
      /\ ~(session = "live" /\ lived.sessions = 1) => lived' = lived
  BY <1>1, <1>2, <1>3 DEF Controlled, Remembers
<1>5. Controlled' /\ (Follows' <=> Follows)
  BY <1>1, <1>4 DEF Controlled, Follows
<1>6. Follows => Following'
  BY <1>1, <1>2 DEF Following
<1>7. Remembers'
  <2>1. CASE session = "live" /\ lived.sessions = 1
    <3>1. seen \in 0 .. Len(file) /\ lived'.fills = Run(file, seen).fills
      BY <1>2, <1>4, <2>1 DEF Follows, Following
    <3> QED
      BY <1>1, <1>4, <2>1, <3>1 DEF Remembers
  <2>2. CASE ~(session = "live" /\ lived.sessions = 1)
    BY <1>1, <1>4, <2>2 DEF Remembers
  <2> QED
    BY <2>1, <2>2
<1> QED
  BY <1>5, <1>6, <1>7

\* Every step preserves the invariant.
LEMMA ReplayKept ==
    ASSUME ReplayInv, [Next]_vars
    PROVE  ReplayInv'
<1>1. BookInv' /\ Typed /\ Typed'
  BY BookKept DEF ReplayInv, BookInv
<1>2. strategy' = strategy
  BY DEF Next, vars, BeginLive, BeginReplay, Begin, NextTick, RecordTick, NextReplayed, Demo, AnyOrder,
         AnyReturns, MatchTick, ReplayEnds, Killed
<1>3. CASE strategy # "demo"
  BY <1>1, <1>2, <1>3 DEF ReplayInv
<1>4. CASE strategy = "demo"
  <2>1. Controlled /\ Remembers /\ (Follows => Following)
    BY <1>4 DEF ReplayInv
  <2>2. CASE UNCHANGED vars
    <3>1. UNCHANGED <<orders, active_orders, fills, ordered_symbols, session, pc, tick, seen, file, lived>>
      BY <2>2 DEF vars, broker
    <3>2. Here' = Here
      BY <3>1 DEF Here
    <3>3. Controlled' /\ Remembers' /\ (Follows => Following) /\ (Follows' <=> Follows) /\ (Following' <=> Following)
      BY <2>1, <3>1, <3>2 DEF Controlled, Remembers, Follows, Following
    <3> QED
      BY <1>1, <3>3 DEF ReplayInv
  <2>3. ~AnyOrder /\ ~AnyReturns
    BY <1>4 DEF AnyOrder, AnyReturns
  <2>4. CASE Next
    <3>1. \/ BeginLive \/ BeginReplay \/ RecordTick \/ Demo \/ MatchTick \/ ReplayEnds \/ Killed
          \/ (\E t \in Ticks : NextTick(t)) \/ NextReplayed
      BY <2>3, <2>4 DEF Next
    <3> QED
      BY <1>1, <2>1, <3>1, SessionBegins, TickArrives, TickRecorded, StrategyDecides, TickMatched, SessionEnds
         DEF ReplayInv
  <2> QED
    BY <2>2, <2>4
<1> QED
  BY <1>3, <1>4

\* It holds in the beginning.
LEMMA ReplayInitially == Init => ReplayInv
<1> SUFFICES ASSUME Init, strategy = "demo" PROVE Controlled /\ Remembers /\ ~Follows
  BY BookInitially DEF ReplayInv
<1>1. file = <<>> /\ pc = "over" /\ session = "none" /\ lived = [fills |-> <<>>, killed |-> FALSE, sessions |-> 0]
  BY DEF Init, Noticed
<1>2. <<>> \in Seq(Fill) /\ <<>> \in Seq(Tick) /\ Len(<<>>) = 0
  OBVIOUS
<1>3. Run(file, 0).fills = <<>>
  <2>1. file \in Seq(Tick)
    BY <1>1, <1>2
  <2>2. Run(file, 0) = Start({})
    BY <2>1, RunBegins
  <2> QED
    BY <2>2 DEF Start
<1>4. Remembers
  BY <1>1, <1>2, <1>3 DEF Remembers, Noticed
<1> QED
  BY <1>1, <1>2, <1>4 DEF Controlled, Follows

\* A replay of the recorded file through the same strategy, broker and matching
\* engine fills what the recorded session filled: a tick is written before it is
\* acted on, so an interruption anywhere loses no tick that led to a fill.
THEOREM ReplayIsFaithful == Spec => []ReplayReproduces
<1>1. ReplayInv /\ [Next]_vars => ReplayInv'
  BY ReplayKept
<1> QED
  BY <1>1, ReplayInitially, ReplayHolds, PTL DEF Spec
=============================================================================
