--------------------------- MODULE MatcherProofs ---------------------------
(***************************************************************************)
(* Theorems about module Matcher, for every set of orders, prices and      *)
(* quantities, every channel capacity and every set of failing storage     *)
(* calls: types, no order filled beyond its quantity, stored rows that     *)
(* only move forward, and the ledger of trades that Matcher implements.    *)
(* They all follow from one inductive invariant, IInv.                     *)
(***************************************************************************)
EXTENDS Matcher, RecursionLemmas

\* removeEntry leaves a side alone that has no entry of the order.
LEMMA RemoveAbsentEntry ==
  ASSUME NEW s \in Seq(EntryRec), NEW id, \A i \in 1..Len(s) : s[i].order # id
  PROVE  RemoveEntry(s, id) = s
BY DEF RemoveEntry, RemoveFirstMatch

\* removeEntry of the best order drops the head of the side and nothing else.
LEMMA RemoveHeadEntry ==
  ASSUME NEW s \in Seq(EntryRec), s # <<>>
  PROVE  RemoveEntry(s, s[1].order) = Tail(s)
<1> DEFINE I == {i \in 1..Len(s) : s[i].order = s[1].order}
<1>1. 1 \in I /\ \A i \in I : i \in Int /\ 1 <= i
  OBVIOUS
<1>2. Min(I) = 1
  <2>1. \A x \in I : (\A y \in I : x =< y) => x = 1
    BY <1>1
  <2> QED BY <1>1, <2>1 DEF Min
<1>3. RemoveEntry(s, s[1].order) = RemoveAt(s, 1)
  BY <1>1, <1>2 DEF RemoveEntry, RemoveFirstMatch, SelectInSeq
<1>4. RemoveAt(s, 1) = Tail(s)
  BY DEF RemoveAt
<1> QED BY <1>3, <1>4

\* No entry has a better price than one before it.
SortedPrices(side, s) ==
  \A i, j \in 1..Len(s) : i < j => ~Better(side, s[j].price, s[i].price)

\* Prices compare as integers.
LEMMA EntryPrice ==
  ASSUME NEW e \in EntryRec
  PROVE  e.price \in Int
<1>1. e.price \in Prices
  BY DEF EntryRec
<1>2. e.price \in Nat
  BY <1>1, PriceAssumption
<1> QED BY <1>2

\* r is what a stable sort makes of side s with e appended: the rearrangement
\* p of it, each entry once, sorted by price, with entries of equal prices in
\* the order they had.
StablyArranges(p, side, s, e, r) ==
  LET a == Append(s, e)
      N == 1..Len(s) + 1
  IN  /\ \A i, j \in N : p[i] = p[j] => i = j
      /\ \A k \in N : \E i \in N : p[i] = k
      /\ r = [i \in N |-> a[p[i]]]
      /\ \A i, j \in N : i < j => ~Better(side, a[p[j]].price, a[p[i]].price)
      /\ \A i, j \in N : i < j /\ a[p[i]].price = a[p[j]].price => p[i] < p[j]

\* addOrder on a sorted side: append, then sort.SliceStable.
LEMMA AddEntryFacts ==
  ASSUME NEW side \in Sides, NEW s \in Seq(EntryRec), NEW e \in EntryRec,
         SortedPrices(side, s)
  PROVE  \E p \in [1..Len(s) + 1 -> 1..Len(s) + 1] :
           StablyArranges(p, side, s, e, AddEntry(side, s, e))
<1> DEFINE a == Append(s, e)
           n == Len(s)
           N == 1..n + 1
           before(i, j) == \/ Better(side, a[i].price, a[j].price)
                           \/ a[i].price = a[j].price /\ i < j
           Sorts(p) == \A i, j \in DOMAIN a : i < j => before(p[i], p[j])
<1>1. /\ n \in Nat
      /\ DOMAIN a = N
      /\ a[n + 1] = e
      /\ \A i \in 1..n : a[i] = s[i]
      /\ \A i \in N : a[i] \in EntryRec
  OBVIOUS
<1>2. \A i \in N : a[i].price \in Int
  BY <1>1, EntryPrice
<1>3. \A i, j \in 1..n : i < j => ~Better(side, a[j].price, a[i].price)
  BY <1>1 DEF SortedPrices
<1> HIDE DEF a, n
<1>4. PICK K \in N : /\ \A k \in 1..K - 1 : ~Better(side, a[n + 1].price, a[k].price)
                     /\ \A k \in K..n : Better(side, a[n + 1].price, a[k].price)
  <2> DEFINE J == {k \in 1..n : Better(side, a[n + 1].price, a[k].price)}
  <2>1. CASE J = {}
    <3>1. n + 1 \in N
      BY <1>1
    <3>2. \A k \in 1..(n + 1) - 1 : ~Better(side, a[n + 1].price, a[k].price)
      BY <1>1, <2>1
    <3> QED BY <1>1, <3>1, <3>2
  <2>2. CASE J # {}
    <3>1. J \in SUBSET Nat
      BY <1>1
    <3>2. PICK m \in J : \A k \in J : m <= k
      BY <2>2, <3>1, LeastElement
    <3>3. m \in 1..n /\ m \in N
      BY <1>1
    <3>4. \A k \in 1..m - 1 : ~Better(side, a[n + 1].price, a[k].price)
      BY <1>1, <3>2, <3>3
    <3>5. ASSUME NEW k \in m..n
          PROVE  Better(side, a[n + 1].price, a[k].price)
      <4>1. k \in 1..n /\ n + 1 \in N /\ k \in N
        BY <1>1, <3>3
      <4>2. k = m \/ ~Better(side, a[k].price, a[m].price)
        BY <1>1, <1>3, <3>3, <4>1
      <4>3. Better(side, a[n + 1].price, a[m].price)
        BY <3>2
      <4>4. a[k].price \in Int /\ a[m].price \in Int /\ a[n + 1].price \in Int
        BY <1>2, <3>3, <4>1
      <4> QED BY <4>2, <4>3, <4>4 DEF Better
    <3> QED BY <3>3, <3>4, <3>5
  <2> QED BY <2>1, <2>2
<1> DEFINE q == [i \in N |-> IF i < K THEN i ELSE IF i = K THEN n + 1 ELSE i - 1]
<1>5. q \in [N -> N]
  BY <1>1, <1>4
<1>6. \A i, j \in N : q[i] = q[j] => i = j
  BY <1>1, <1>4
<1>7. ASSUME NEW k \in N
      PROVE  \E i \in N : q[i] = k
  <2>1. CASE k < K
    BY <1>1, <1>4, <2>1
  <2>2. CASE k = n + 1
    BY <1>1, <1>4, <2>2
  <2>3. CASE K <= k /\ k # n + 1
    <3>1. k + 1 \in N /\ q[k + 1] = k
      BY <1>1, <1>4, <2>3
    <3> QED BY <3>1
  <2> QED BY <1>1, <1>4, <2>1, <2>2, <2>3
<1>8. q \in Bijection(DOMAIN a, DOMAIN a)
  BY <1>1, <1>5, <1>6, <1>7 DEF Bijection, Injection, Surjection, IsInjective
<1>9. Sorts(q)
  <2> SUFFICES ASSUME NEW i \in N, NEW j \in N, i < j
               PROVE  before(q[i], q[j])
    BY <1>1
  <2>1. \A x, y \in 1..n : x < y => before(x, y)
    <3> SUFFICES ASSUME NEW x \in 1..n, NEW y \in 1..n, x < y
                 PROVE  before(x, y)
      OBVIOUS
    <3>1. ~Better(side, a[y].price, a[x].price)
      BY <1>3
    <3>2. a[x].price \in Int /\ a[y].price \in Int
      BY <1>1, <1>2
    <3> QED BY <3>1, <3>2 DEF Better
  <2>2. CASE j < K
    <3>1. q[i] = i /\ q[j] = j /\ i \in 1..n /\ j \in 1..n
      BY <1>1, <1>4, <2>2
    <3> QED BY <2>1, <3>1
  <2>3. CASE j = K
    <3>1. q[i] = i /\ q[j] = n + 1 /\ i \in 1..K - 1 /\ i < n + 1 /\ n + 1 \in N
      BY <1>1, <1>4, <2>3
    <3>2. ~Better(side, a[n + 1].price, a[i].price)
      BY <1>4, <3>1
    <3>3. a[i].price \in Int /\ a[n + 1].price \in Int
      BY <1>2, <3>1
    <3> QED BY <3>1, <3>2, <3>3 DEF Better
  <2>4. CASE i < K /\ K < j
    <3>1. q[i] = i /\ q[j] = j - 1 /\ i \in 1..n /\ j - 1 \in 1..n /\ i < j - 1
      BY <1>1, <1>4, <2>4
    <3> QED BY <2>1, <3>1
  <2>5. CASE i = K
    <3>1. q[i] = n + 1 /\ q[j] = j - 1 /\ j - 1 \in K..n
      BY <1>1, <1>4, <2>5
    <3>2. Better(side, a[n + 1].price, a[j - 1].price)
      BY <1>4, <3>1
    <3> QED BY <3>1, <3>2
  <2>6. CASE K < i
    <3>1. q[i] = i - 1 /\ q[j] = j - 1 /\ i - 1 \in 1..n /\ j - 1 \in 1..n /\ i - 1 < j - 1
      BY <1>1, <1>4, <2>6
    <3> QED BY <2>1, <3>1
  <2> QED BY <1>1, <1>4, <2>2, <2>3, <2>4, <2>5, <2>6
<1> DEFINE p == CHOOSE r \in Bijection(DOMAIN a, DOMAIN a) : Sorts(r)
<1>10. p \in Bijection(DOMAIN a, DOMAIN a) /\ Sorts(p)
  <2> HIDE DEF q, Sorts
  <2> QED BY <1>8, <1>9, Zenon
<1>11. AddEntry(side, s, e) = [i \in DOMAIN a |-> a[p[i]]]
  BY DEF AddEntry, SliceStable, a
<1> HIDE DEF p
<1>12. /\ p \in [N -> N]
       /\ \A i, j \in N : p[i] = p[j] => i = j
       /\ \A k \in N : \E i \in N : p[i] = k
  BY <1>1, <1>10 DEF Bijection, Injection, Surjection, IsInjective
<1>13. ASSUME NEW i \in N, NEW j \in N, i < j
       PROVE  /\ ~Better(side, a[p[j]].price, a[p[i]].price)
              /\ a[p[i]].price = a[p[j]].price => p[i] < p[j]
  <2>1. before(p[i], p[j])
    BY <1>1, <1>10, <1>13
  <2>2. a[p[i]].price \in Int /\ a[p[j]].price \in Int
    BY <1>2, <1>12
  <2> QED BY <2>1, <2>2 DEF Better
<1>14. StablyArranges(p, side, s, e, AddEntry(side, s, e))
  BY <1>1, <1>11, <1>12, <1>13 DEF StablyArranges, a, n
<1> QED BY <1>12, <1>14 DEF n

-----------------------------------------------------------------------------
(***************************************************************************)
(* The inductive invariant.  The engine keeps the unmatched quantity of a  *)
(* resting order twice, in the order and in its book entry, and brings the *)
(* two together only at the end of an iteration; NoOverfill rests on the   *)
(* entry never promising more than the order has.                          *)
(***************************************************************************)
\* Handlers that have handed their order over to the matcher.
Taken == {"submitted", "done"}

\* An order is in one place at a time: at most once in the channel, or
\* current; and only a handler past SubmitOrder has put it there.
QueueInv ==
  /\ \A i \in 1..Len(ch) : phase[ch[i]] \in Taken /\ ch[i] # cur
  /\ \A i, j \in 1..Len(ch) : ch[i] = ch[j] => i = j
  /\ cur # NoOrder => phase[cur] \in Taken
  /\ mpc \in {"match"} \cup TradeSteps => cur # NoOrder

\* Each side of the book is sorted and holds orders of that side, each once,
\* none of them queued or current.
BookInv ==
  \A side \in Sides :
    /\ SortedPrices(side, book[side])
    /\ \A i \in 1..Len(book[side]) :
         LET e == book[side][i]
         IN  /\ e.remaining > 0
             /\ e.order \in index
             /\ e.order # cur
             /\ \A k \in 1..Len(ch) : ch[k] # e.order
             /\ phase[e.order] \in Taken
             /\ order[e.order].side = side
    /\ \A i, j \in 1..Len(book[side]) :
         book[side][i].order = book[side][j].order => i = j

\* What the trade in progress has already filled of o while o's entry still
\* has its old quantity.
InFlight(o) ==
  IF \/ o = trade.buy /\ mpc \in TradeSteps \ {"fillBuy"}
     \/ o = trade.sell /\ mpc \in TradeSteps \ {"fillBuy", "fillSell"}
  THEN trade.qty ELSE 0

\* No entry promises more than its order has left.
EntriesCovered ==
  \A side \in Sides : \A i \in 1..Len(book[side]) :
    book[side][i].remaining
      <= RemainingQuantity(order[book[side][i].order]) + InFlight(book[side][i].order)

\* The trade in progress is between the current order and the best opposite
\* entry, and its quantity is still available until each side is filled.
TradeInv ==
  mpc \in TradeSteps =>
    /\ trade \in TradeRec
    /\ book[PassiveSide] # <<>>
    /\ trade.buy = IF order[cur].side = "BUY" THEN cur ELSE book[PassiveSide][1].order
    /\ trade.sell = IF order[cur].side = "BUY" THEN book[PassiveSide][1].order ELSE cur
    /\ trade.qty > 0
    /\ trade.qty <= book[PassiveSide][1].remaining
    /\ mpc = "fillBuy" => trade.qty <= RemainingQuantity(order[trade.buy])
    /\ mpc \in {"fillBuy", "fillSell"} => trade.qty <= RemainingQuantity(order[trade.sell])

\* A stored row is a past state of its order, and a final one is current.
RowInv ==
  \A o \in Orders :
    /\ phase[o] = "new" => repo[o] = NoRow
    /\ repo[o].filled <= order[o].filled
    /\ repo[o].status = "FILLED" => repo[o] = Row(order[o])

IInv ==
  /\ TypeOK
  /\ NoOverfill
  /\ QueueInv
  /\ BookInv
  /\ EntriesCovered
  /\ TradeInv
  /\ RowInv

-----------------------------------------------------------------------------
\* The fields of an order have their types, and its quantity is positive.
LEMMA OrderFacts ==
  ASSUME TypeOK, NEW o \in Orders
  PROVE  /\ order[o] \in OrderRec
         /\ order[o].side \in Sides /\ order[o].price \in Prices
         /\ order[o].quantity \in Quantities /\ order[o].quantity \in Nat
         /\ order[o].quantity > 0
         /\ order[o].filled \in Nat /\ order[o].status \in Statuses
<1>1. order[o] \in OrderRec
  BY DEF TypeOK
<1>2. /\ order[o].side \in Sides /\ order[o].price \in Prices
      /\ order[o].quantity \in Quantities
      /\ order[o].filled \in Nat /\ order[o].status \in Statuses
  BY <1>1 DEF OrderRec
<1>3. order[o].quantity \in Nat \ {0}
  BY <1>2, QuantityAssumption
<1> QED BY <1>1, <1>2, <1>3

\* The fields of a book entry have their types.
LEMMA EntryFacts ==
  ASSUME TypeOK, NEW side \in Sides, NEW i \in 1..Len(book[side])
  PROVE  /\ book[side] \in Seq(EntryRec) /\ book[side][i] \in EntryRec
         /\ book[side][i].order \in Orders
         /\ book[side][i].price \in Prices
         /\ book[side][i].remaining \in Nat
<1>1. book[side] \in Seq(EntryRec) /\ book[side][i] \in EntryRec
  BY DEF TypeOK
<1> QED BY <1>1 DEF EntryRec

\* The invariant holds before the first request.
LEMMA InitIInv == Init => IInv
<1> SUFFICES ASSUME Init PROVE IInv
  OBVIOUS
<1>1. TypeOK
  <2>1. NewOrders \subseteq OrderRec
    BY DEF NewOrders, OrderRec, Statuses
  <2>2. order \in [Orders -> OrderRec]
    BY <2>1 DEF Init
  <2>3. repo \in [Orders -> [status : Statuses \cup {"NONE"}, filled : Nat]]
    BY DEF Init, NoRow
  <2>4. /\ trades \in Seq(TradeRec) /\ accepted \in Seq(Orders)
        /\ ch \in Seq(Orders) /\ Len(ch) <= ChanCap
        /\ book \in [Sides -> Seq(EntryRec)]
    BY BoundAssumption DEF Init
  <2>5. /\ phase \in [Orders -> Phases]
        /\ mpc \in {"idle", "match", "stopped"} \cup TradeSteps
        /\ cur \in Orders \cup {NoOrder}
        /\ trade \in TradeRec \cup {NoTrade}
        /\ index \in SUBSET Orders
        /\ view.status \in {"absent", "initial", "live"}
    BY DEF Init, Phases
  <2>6. closed \in BOOLEAN
    BY Zenon DEF Init
  <2> QED
    BY <2>2, <2>3, <2>4, <2>5, <2>6 DEF TypeOK
<1>2. NoOverfill
  <2>1. \A o \in Orders : order[o].filled = 0 /\ order[o].status = "OPEN"
    BY DEF Init, NewOrders
  <2> QED BY <1>1, <2>1, OrderFacts DEF NoOverfill
<1>3. QueueInv
  BY DEF Init, QueueInv, TradeSteps
<1>4. BookInv
  BY DEF Init, BookInv, SortedPrices
<1>5. EntriesCovered
  BY DEF Init, EntriesCovered
<1>6. TradeInv
  BY DEF Init, TradeInv, TradeSteps
<1>7. RowInv
  <2>1. \A o \in Orders : repo[o] = NoRow
    BY DEF Init
  <2>2. \A o \in Orders : NoRow.filled <= order[o].filled
    BY <1>1, OrderFacts DEF NoRow
  <2>3. NoRow.status # "FILLED"
    BY DEF NoRow
  <2> QED BY <2>1, <2>2, <2>3 DEF RowInv
<1> QED BY <1>1, <1>2, <1>3, <1>4, <1>5, <1>6, <1>7 DEF IInv

\* Steps that leave the orders, rows, channel and book alone and move the
\* matcher from one point after the fills to the next.
LEMMA AnnouncePreserves ==
  ASSUME IInv,
         mpc \in TradeSteps \ {"fillBuy", "fillSell"},
         mpc' \in TradeSteps \ {"fillBuy", "fillSell"},
         UNCHANGED <<order, repo, trades, ch, closed, view, handlerVars, cur, trade, book, index>>
  PROVE  IInv'
<1> USE DEF IInv, handlerVars
<1>1. TypeOK'
  BY DEF TypeOK
<1>2. NoOverfill'
  BY DEF NoOverfill
<1>3. QueueInv'
  BY DEF QueueInv
<1>4. BookInv'
  BY DEF BookInv
<1>5. EntriesCovered'
  BY DEF EntriesCovered, InFlight
<1>6. TradeInv'
  BY DEF TradeInv, PassiveSide
<1>7. RowInv'
  BY DEF RowInv
<1> QED BY <1>1, <1>2, <1>3, <1>4, <1>5, <1>6, <1>7

\* Who takes part in the trade in progress.
LEMMA TradeParties ==
  ASSUME IInv, mpc \in TradeSteps
  PROVE  /\ cur \in Orders
         /\ PassiveSide \in Sides /\ order[cur].side \in Sides
         /\ PassiveSide # order[cur].side
         /\ book[PassiveSide] \in Seq(EntryRec) /\ Len(book[PassiveSide]) \in Nat \ {0}
         /\ book[PassiveSide][1] \in EntryRec
         /\ trade.buy \in Orders /\ trade.sell \in Orders
         /\ trade.qty \in Nat /\ trade.price \in Prices
         /\ trade.buy # trade.sell
         /\ phase[trade.buy] \in Taken /\ phase[trade.sell] \in Taken
<1>1. cur \in Orders
  BY DEF IInv, QueueInv, TypeOK
<1>2. PassiveSide \in Sides /\ PassiveSide # order[cur].side /\ order[cur].side \in Sides
  BY <1>1, OrderFacts DEF IInv, PassiveSide, Opposite, Sides
<1>3. book[PassiveSide] \in Seq(EntryRec) /\ book[PassiveSide] # <<>>
  BY <1>2 DEF IInv, TypeOK, TradeInv
<1>4. Len(book[PassiveSide]) \in Nat \ {0} /\ book[PassiveSide][1] \in EntryRec
  BY <1>3
<1>5. trade.buy \in Orders /\ trade.sell \in Orders /\ trade.qty \in Nat /\ trade.price \in Prices
  BY DEF IInv, TradeInv, TradeRec
<1>6. /\ order[book[PassiveSide][1].order].side = PassiveSide
      /\ phase[book[PassiveSide][1].order] \in Taken
  BY <1>2, <1>4 DEF IInv, BookInv
<1>7. phase[cur] \in Taken
  BY DEF IInv, QueueInv
<1>8. \/ trade.buy = cur /\ trade.sell = book[PassiveSide][1].order
      \/ trade.sell = cur /\ trade.buy = book[PassiveSide][1].order
  BY DEF IInv, TradeInv
<1> QED BY <1>1, <1>2, <1>3, <1>4, <1>5, <1>6, <1>7, <1>8

\* A row that is written holds its order's present state.
LEMMA UpdateOrderPreserves ==
  ASSUME IInv, NEW o \in Orders, phase[o] \in Taken, UpdateOrder(o),
         mpc \in TradeSteps \ {"fillBuy", "fillSell"},
         mpc' \in TradeSteps \ {"fillBuy", "fillSell"}
  PROVE  IInv'
<1> USE DEF IInv, UpdateOrder, handlerVars
<1>a. \/ repo' = [repo EXCEPT ![o] = Row(order[o])]
      \/ repo' = repo
  OBVIOUS
<1>b. Row(order[o]) \in [status : Statuses \cup {"NONE"}, filled : Nat]
  BY OrderFacts DEF Row
<1>1. TypeOK'
  <2>1. repo' \in [Orders -> [status : Statuses \cup {"NONE"}, filled : Nat]]
    BY <1>a, <1>b DEF TypeOK
  <2> QED BY <2>1 DEF TypeOK
<1>2. NoOverfill'
  BY DEF NoOverfill
<1>3. QueueInv'
  BY DEF QueueInv
<1>4. BookInv'
  BY DEF BookInv
<1>5. EntriesCovered'
  BY DEF EntriesCovered, InFlight
<1>6. TradeInv'
  BY DEF TradeInv, PassiveSide
<1>7. RowInv'
  <2> SUFFICES ASSUME NEW x \in Orders
               PROVE  /\ phase[x] = "new" => repo'[x] = NoRow
                      /\ repo'[x].filled <= order[x].filled
                      /\ repo'[x].status = "FILLED" => repo'[x] = Row(order[x])
    BY DEF RowInv
  <2>1. CASE repo'[x] = repo[x]
    BY <2>1 DEF RowInv
  <2>2. CASE repo'[x] # repo[x]
    <3>1. x = o /\ repo'[x] = Row(order[x])
      BY <1>a, <2>2 DEF TypeOK
    <3>2. Row(order[x]).filled = order[x].filled /\ order[x].filled \in Nat
      BY OrderFacts DEF Row
    <3>3. phase[x] # "new"
      BY <3>1 DEF Taken
    <3> QED BY <3>1, <3>2, <3>3
  <2> QED BY <2>1, <2>2
<1> QED BY <1>1, <1>2, <1>3, <1>4, <1>5, <1>6, <1>7

\* The steps of a handler touch only its own order, which the matcher does not
\* have before SubmitOrder.
LEMMA SaveOrderPreserves ==
  ASSUME IInv, NEW o \in Orders, SaveOrder(o)
  PROVE  IInv'
<1> USE DEF IInv, SaveOrder, matcherVars
<1>a. /\ repo' = [repo EXCEPT ![o] = Row(order[o])] \/ repo' = repo
      /\ phase' = [phase EXCEPT ![o] = "saved"] \/ phase' = [phase EXCEPT ![o] = "failed"]
      /\ phase[o] = "new"
  OBVIOUS
<1>b. Row(order[o]) \in [status : Statuses \cup {"NONE"}, filled : Nat]
  BY OrderFacts DEF Row
<1>c. \A x \in Orders : phase[x] \in Taken => phase'[x] = phase[x]
  BY <1>a DEF TypeOK, Taken
<1>1. TypeOK'
  <2>1. repo' \in [Orders -> [status : Statuses \cup {"NONE"}, filled : Nat]]
    BY <1>a, <1>b DEF TypeOK
  <2>2. phase' \in [Orders -> Phases]
    BY <1>a DEF TypeOK, Phases, Finished
  <2> QED BY <2>1, <2>2 DEF TypeOK
<1>2. NoOverfill'
  BY DEF NoOverfill
<1>3. QueueInv'
  BY <1>c DEF QueueInv, TypeOK
<1>4. BookInv'
  BY <1>c, EntryFacts DEF BookInv
<1>5. EntriesCovered'
  BY DEF EntriesCovered, InFlight
<1>6. TradeInv'
  BY DEF TradeInv, PassiveSide
<1>7. RowInv'
  <2> SUFFICES ASSUME NEW x \in Orders
               PROVE  /\ phase'[x] = "new" => repo'[x] = NoRow
                      /\ repo'[x].filled <= order[x].filled
                      /\ repo'[x].status = "FILLED" => repo'[x] = Row(order[x])
    BY DEF RowInv
  <2>1. CASE x # o
    <3>1. repo'[x] = repo[x] /\ phase'[x] = phase[x]
      BY <1>a, <2>1 DEF TypeOK
    <3> QED BY <3>1 DEF RowInv
  <2>2. CASE x = o
    <3>1. phase'[x] # "new"
      BY <1>a, <2>2 DEF TypeOK
    <3>2. repo'[x] = Row(order[x]) \/ repo'[x] = repo[x]
      BY <1>a, <2>2 DEF TypeOK
    <3>3. Row(order[x]).filled = order[x].filled /\ order[x].filled \in Nat
      BY OrderFacts DEF Row
    <3> QED BY <3>1, <3>2, <3>3 DEF RowInv
  <2> QED BY <2>1, <2>2
<1> QED BY <1>1, <1>2, <1>3, <1>4, <1>5, <1>6, <1>7

\* SubmitOrder puts a saved order, which is nowhere else, at the channel's end.
LEMMA SubmitOrderPreserves ==
  ASSUME IInv, NEW o \in Orders, SubmitOrder(o)
  PROVE  IInv'
<1> USE DEF IInv, SubmitOrder, matcherVars
<1>a. phase[o] = "saved" /\ phase \in [Orders -> Phases]
  BY DEF TypeOK
<1>b. \A x \in Orders : x # o => phase'[x] = phase[x]
  BY <1>a
<1>c. \A x \in Orders : phase[x] \in Taken => x # o /\ phase'[x] = phase[x]
  BY <1>a, <1>b DEF Taken
<1>d. /\ phase' \in [Orders -> Phases]
      /\ phase'[o] # "new"
  BY <1>a DEF Phases, Finished
<1>e. \/ ch' = ch /\ accepted' = accepted
      \/ /\ ch' = Append(ch, o) /\ accepted' = Append(accepted, o)
         /\ Len(ch) < ChanCap /\ phase'[o] \in Taken
  BY <1>a DEF Taken
<1>1. TypeOK'
  <2>1. ch \in Seq(Orders) /\ accepted \in Seq(Orders) /\ Len(ch) <= ChanCap
    BY DEF TypeOK
  <2>2. ch' \in Seq(Orders) /\ accepted' \in Seq(Orders) /\ Len(ch') <= ChanCap
    <3>1. CASE ch' = ch /\ accepted' = accepted
      BY <2>1, <3>1
    <3>2. CASE ch' = Append(ch, o) /\ accepted' = Append(accepted, o) /\ Len(ch) < ChanCap
      <4>1. ch' \in Seq(Orders) /\ accepted' \in Seq(Orders) /\ Len(ch') = Len(ch) + 1
        BY <2>1, <3>2
      <4> QED BY <2>1, <3>2, <4>1, BoundAssumption
    <3> QED BY <1>e, <3>1, <3>2
  <2> QED BY <1>d, <2>2 DEF TypeOK
<1>2. NoOverfill'
  BY DEF NoOverfill
<1>3. QueueInv'
  <2>1. \A i \in 1..Len(ch) : ch[i] \in Orders /\ ch[i] # o /\ phase'[ch[i]] \in Taken /\ ch[i] # cur
    BY <1>c DEF QueueInv, TypeOK
  <2>2. cur # o
    BY <1>a, NoOrderAssumption DEF QueueInv, Taken
  <2>3. CASE ch' = ch
    BY <1>c, <2>1, <2>3 DEF QueueInv, TypeOK
  <2>4. CASE ch' = Append(ch, o) /\ phase'[o] \in Taken
    <3>1. /\ Len(ch') = Len(ch) + 1 /\ ch'[Len(ch) + 1] = o
          /\ \A i \in 1..Len(ch) : ch'[i] = ch[i]
          /\ Len(ch) \in Nat
      BY <2>4 DEF TypeOK
    <3>2. \A i \in 1..Len(ch') : i \in 1..Len(ch) \/ i = Len(ch) + 1
      BY <3>1
    <3>3. \A i \in 1..Len(ch') : phase'[ch'[i]] \in Taken /\ ch'[i] # cur
      BY <2>1, <2>2, <2>4, <3>1, <3>2
    <3>4. \A i, j \in 1..Len(ch') : ch'[i] = ch'[j] => i = j
      BY <2>1, <3>1, <3>2 DEF QueueInv
    <3>5. cur # NoOrder => phase'[cur] \in Taken
      BY <1>c DEF QueueInv, TypeOK
    <3> QED BY <3>3, <3>4, <3>5 DEF QueueInv
  <2> QED BY <1>e, <2>3, <2>4
<1>4. BookInv'
  <2> SUFFICES ASSUME NEW side \in Sides, NEW i \in 1..Len(book[side])
               PROVE  /\ \A k \in 1..Len(ch') : ch'[k] # book[side][i].order
                      /\ phase'[book[side][i].order] \in Taken
    BY DEF BookInv
  <2>1. book[side][i].order \in Orders /\ phase[book[side][i].order] \in Taken
    BY EntryFacts DEF BookInv
  <2>2. book[side][i].order # o /\ phase'[book[side][i].order] \in Taken
    BY <1>c, <2>1
  <2>3. \A k \in 1..Len(ch) : ch[k] # book[side][i].order
    BY DEF BookInv
  <2>4. \A k \in 1..Len(ch') : ch'[k] = o \/ (k \in 1..Len(ch) /\ ch'[k] = ch[k])
    <3>1. ch \in Seq(Orders)
      BY DEF TypeOK
    <3>2. CASE ch' = ch
      BY <3>2
    <3>3. CASE ch' = Append(ch, o)
      BY <3>1, <3>3
    <3> QED BY <1>e, <3>2, <3>3
  <2> QED BY <2>2, <2>3, <2>4
<1>5. EntriesCovered'
  BY DEF EntriesCovered, InFlight
<1>6. TradeInv'
  BY DEF TradeInv, PassiveSide
<1>7. RowInv'
  BY <1>b, <1>d DEF RowInv
<1> QED BY <1>1, <1>2, <1>3, <1>4, <1>5, <1>6, <1>7

\* OrderCreated is published from a handler whose order was already handed over.
LEMMA PublishCreatedPreserves ==
  ASSUME IInv, NEW o \in Orders, PublishCreated(o)
  PROVE  IInv'
<1> USE DEF IInv, PublishCreated, matcherVars
<1>a. \A x \in Orders : phase[x] \in Taken => phase'[x] \in Taken
  BY DEF TypeOK, Taken
<1>b. \A x \in Orders : phase'[x] = "new" => phase[x] = "new"
  BY DEF TypeOK
<1>1. TypeOK'
  BY DEF TypeOK, Phases, Finished
<1>2. NoOverfill'
  BY DEF NoOverfill
<1>3. QueueInv'
  <2>1. cur # NoOrder => cur \in Orders /\ phase[cur] \in Taken
    BY DEF QueueInv, TypeOK
  <2>2. \A i \in 1..Len(ch) : ch[i] \in Orders /\ phase[ch[i]] \in Taken
    BY DEF QueueInv, TypeOK
  <2> QED BY <1>a, <2>1, <2>2 DEF QueueInv
<1>4. BookInv'
  <2> SUFFICES ASSUME NEW side \in Sides, NEW i \in 1..Len(book[side])
               PROVE  phase'[book[side][i].order] \in Taken
    BY DEF BookInv
  <2>1. book[side][i].order \in Orders /\ phase[book[side][i].order] \in Taken
    BY EntryFacts DEF BookInv
  <2> QED BY <1>a, <2>1
<1>5. EntriesCovered'
  BY DEF EntriesCovered, InFlight
<1>6. TradeInv'
  BY DEF TradeInv, PassiveSide
<1>7. RowInv'
  BY <1>b DEF RowInv
<1> QED BY <1>1, <1>2, <1>3, <1>4, <1>5, <1>6, <1>7

\* run takes the oldest order of the channel, which is not in the book.
LEMMA ReceivePreserves ==
  ASSUME IInv, Receive
  PROVE  IInv'
<1> USE DEF IInv, Receive, handlerVars
<1>1. CASE ch = <<>>
  <2>1. ch' = ch /\ cur' = cur /\ mpc = "idle" /\ mpc' = "stopped"
    BY <1>1
  <2>2. mpc \notin TradeSteps /\ mpc' \notin TradeSteps /\ mpc' # "match"
    BY <2>1 DEF TradeSteps
  <2>3. TypeOK'
    BY <2>1 DEF TypeOK
  <2>4. NoOverfill' /\ RowInv'
    BY DEF NoOverfill, RowInv
  <2>5. QueueInv' /\ BookInv'
    BY <2>1, <2>2 DEF QueueInv, BookInv
  <2>6. EntriesCovered'
    BY <2>2 DEF EntriesCovered, InFlight
  <2>7. TradeInv'
    BY <2>2 DEF TradeInv
  <2> QED BY <2>3, <2>4, <2>5, <2>6, <2>7
<1>2. CASE ch # <<>>
  <2>1. /\ cur' = ch[1] /\ ch' = Tail(ch) /\ mpc = "idle" /\ mpc' = "match"
    BY <1>2 DEF TypeOK
  <2>2. mpc \notin TradeSteps /\ mpc' \notin TradeSteps
    BY <2>1 DEF TradeSteps
  <2>3. /\ ch \in Seq(Orders) /\ Len(ch) <= ChanCap
        /\ Tail(ch) \in Seq(Orders) /\ Len(Tail(ch)) = Len(ch) - 1
        /\ \A i \in 1..Len(ch) - 1 : Tail(ch)[i] = ch[i + 1]
        /\ ch[1] \in Orders /\ Len(ch) \in Nat /\ Len(ch) > 0
    BY <1>2 DEF TypeOK
  <2>4. TypeOK'
    <3>1. Len(ch') <= ChanCap
      BY <2>1, <2>3, BoundAssumption
    <3> QED BY <2>1, <2>3, <3>1 DEF TypeOK
  <2>5. NoOverfill' /\ RowInv'
    BY DEF NoOverfill, RowInv
  <2>6. QueueInv'
    <3>1. \A i \in 1..Len(ch') : i + 1 \in 1..Len(ch) /\ ch'[i] = ch[i + 1] /\ i + 1 # 1
      BY <2>1, <2>3
    <3>2. \A i \in 1..Len(ch') : phase[ch'[i]] \in Taken /\ ch'[i] # cur'
      BY <2>1, <2>3, <3>1 DEF QueueInv
    <3>3. \A i, j \in 1..Len(ch') : ch'[i] = ch'[j] => i = j
      BY <2>3, <3>1 DEF QueueInv
    <3>4. phase[cur'] \in Taken /\ cur' # NoOrder
      BY <2>1, <2>3, NoOrderAssumption DEF QueueInv
    <3> QED BY <3>2, <3>3, <3>4 DEF QueueInv
  <2>7. BookInv'
    <3> SUFFICES ASSUME NEW side \in Sides, NEW i \in 1..Len(book[side])
                 PROVE  /\ \A k \in 1..Len(ch') : ch'[k] # book[side][i].order
                        /\ book[side][i].order # cur'
      BY DEF BookInv
    <3>1. \A k \in 1..Len(ch) : ch[k] # book[side][i].order
      BY DEF BookInv
    <3>2. \A k \in 1..Len(ch') : k + 1 \in 1..Len(ch) /\ ch'[k] = ch[k + 1]
      BY <2>1, <2>3
    <3> QED BY <2>1, <2>3, <3>1, <3>2
  <2>8. EntriesCovered'
    BY <2>2 DEF EntriesCovered, InFlight
  <2>9. TradeInv'
    BY <2>2 DEF TradeInv
  <2> QED BY <2>4, <2>5, <2>6, <2>7, <2>8, <2>9
<1> QED BY <1>1, <1>2

\* Outside a trade nothing is in flight; inside one, at most its quantity.
LEMMA InFlightFacts ==
  ASSUME IInv, NEW o
  PROVE  /\ InFlight(o) = 0 \/ (mpc \in TradeSteps /\ InFlight(o) = trade.qty)
         /\ InFlight(o) \in Nat
<1>1. CASE mpc \in TradeSteps
  BY <1>1, TradeParties DEF InFlight
<1>2. CASE mpc \notin TradeSteps
  BY <1>2 DEF InFlight
<1> QED BY <1>1, <1>2

\* A trade is built from what the current order and the best entry both have
\* left, whether or not tradeRepo.Save then succeeds.
LEMMA SaveTradePreserves ==
  ASSUME IInv, SaveTrade
  PROVE  IInv'
<1> DEFINE P == PassiveSide
           best == book[P][1]
           rem == RemainingQuantity(order[cur])
<1>a. /\ mpc = "match" /\ CanTrade /\ trade' = NextTrade
      /\ trades' \in {trades, Append(trades, NextTrade)}
      /\ mpc' \in {"fillBuy", "settle"}
      /\ UNCHANGED <<order, repo, ch, closed, view, phase, accepted, cur, book, index>>
  BY DEF SaveTrade, handlerVars
<1>b. mpc \notin TradeSteps /\ mpc' \in TradeSteps
  BY <1>a DEF TradeSteps
<1>c. cur \in Orders
  BY <1>a DEF IInv, QueueInv, TypeOK
<1>d. P \in Sides /\ order[cur].side \in Sides
  BY <1>c, OrderFacts DEF IInv, PassiveSide, Opposite, Sides
<1>e. book[P] \in Seq(EntryRec) /\ book[P] # <<>> /\ Head(book[P]) = best /\ 1 \in 1..Len(book[P])
  BY <1>a, <1>d DEF CanTrade, IInv, TypeOK
<1>f. /\ best \in EntryRec /\ best.order \in Orders /\ best.price \in Prices
      /\ best.remaining \in Nat
  BY <1>d, <1>e, EntryFacts DEF IInv
<1>g. best.remaining > 0
  BY <1>d, <1>e DEF IInv, BookInv
<1>h. rem \in Int /\ rem > 0
  BY <1>a, <1>c, OrderFacts DEF CanTrade, RemainingQuantity, IInv
<1>i. best.remaining <= RemainingQuantity(order[best.order])
  <2>1. InFlight(best.order) = 0
    BY <1>b DEF InFlight
  <2>2. best.remaining <= RemainingQuantity(order[best.order]) + InFlight(best.order)
    BY <1>d, <1>e DEF IInv, EntriesCovered
  <2>3. RemainingQuantity(order[best.order]) \in Int
    BY <1>f, OrderFacts DEF RemainingQuantity, IInv
  <2> QED BY <1>f, <2>1, <2>2, <2>3
<1> DEFINE isBuy == order[cur].side = "BUY"
<1>j. /\ trade'.buy = IF isBuy THEN cur ELSE best.order
      /\ trade'.sell = IF isBuy THEN best.order ELSE cur
      /\ trade'.price = best.price
      /\ trade'.qty = IF rem < best.remaining THEN rem ELSE best.remaining
      /\ trade' = [buy |-> trade'.buy, sell |-> trade'.sell,
                   price |-> trade'.price, qty |-> trade'.qty]
  BY <1>a, <1>e DEF NextTrade
<1>k. /\ trade'.buy \in Orders /\ trade'.sell \in Orders /\ trade'.price \in Prices
      /\ trade'.qty \in Nat /\ trade'.qty > 0
      /\ trade'.qty <= rem /\ trade'.qty <= best.remaining
  BY <1>c, <1>f, <1>g, <1>h, <1>j
<1>l. trade' \in TradeRec
  BY <1>j, <1>k DEF TradeRec
<1> HIDE DEF best, rem, P
<1>1. TypeOK'
  <2>1. trades' \in Seq(TradeRec)
    <3>1. trades \in Seq(TradeRec)
      BY DEF IInv, TypeOK
    <3>2. NextTrade \in TradeRec
      BY <1>a, <1>l
    <3>3. trades' = trades \/ trades' = Append(trades, NextTrade)
      BY <1>a
    <3> HIDE DEF isBuy
    <3> QED BY <3>1, <3>2, <3>3
  <2> QED BY <1>a, <1>b, <1>l, <2>1 DEF IInv, TypeOK
<1>2. NoOverfill'
  BY <1>a DEF IInv, NoOverfill
<1>3. QueueInv'
  BY <1>a, <1>c, NoOrderAssumption DEF IInv, QueueInv
<1>4. BookInv'
  BY <1>a DEF IInv, BookInv
<1>5. EntriesCovered'
  <2> SUFFICES ASSUME NEW side \in Sides, NEW i \in 1..Len(book[side])
               PROVE  book[side][i].remaining
                        <= RemainingQuantity(order[book[side][i].order])
                             + (InFlight(book[side][i].order))'
    BY <1>a DEF EntriesCovered
  <2> DEFINE e == book[side][i]
  <2>1. e.remaining <= RemainingQuantity(order[e.order]) + InFlight(e.order)
    BY DEF IInv, EntriesCovered
  <2>2. InFlight(e.order) = 0
    BY <1>b DEF InFlight
  <2>3. InFlight(e.order)' \in Nat
    BY <1>k, <1>a DEF InFlight
  <2>4. e.remaining \in Nat /\ RemainingQuantity(order[e.order]) \in Int
    BY EntryFacts, OrderFacts DEF RemainingQuantity, IInv
  <2> QED BY <2>1, <2>2, <2>3, <2>4
<1>6. TradeInv'
  <2>1. PassiveSide' = P
    BY <1>a DEF PassiveSide, P
  <2>2. /\ trade'.qty <= RemainingQuantity(order[trade'.buy])
        /\ trade'.qty <= RemainingQuantity(order[trade'.sell])
    <3>1. RemainingQuantity(order[best.order]) \in Int
      BY <1>f, OrderFacts DEF RemainingQuantity, IInv
    <3>2. trade'.qty <= RemainingQuantity(order[best.order])
      BY <1>f, <1>i, <1>k, <3>1
    <3>3. trade'.qty <= RemainingQuantity(order[cur])
      BY <1>k DEF rem
    <3> QED BY <1>j, <3>2, <3>3
  <2>3. book'[P] = book[P] /\ book[P][1] = best /\ order' = order /\ cur' = cur
    BY <1>a DEF best
  <2> QED BY <1>e, <1>j, <1>k, <1>l, <2>1, <2>2, <2>3 DEF TradeInv
<1>7. RowInv'
  BY <1>a DEF IInv, RowInv
<1> QED BY <1>1, <1>2, <1>3, <1>4, <1>5, <1>6, <1>7 DEF IInv

\* A fill takes what the trade has reserved: it moves the traded quantity from
\* the order's remainder to the quantity in flight.
LEMMA FillPreserves ==
  ASSUME IInv, NEW o \in Orders, FillOrder(o),
         \/ mpc = "fillBuy" /\ mpc' = "fillSell" /\ o = trade.buy
         \/ mpc = "fillSell" /\ mpc' = "updateBuy" /\ o = trade.sell
  PROVE  IInv'
<1>a. /\ order' = [order EXCEPT ![o] = Fill(order[o], trade.qty)]
      /\ UNCHANGED <<repo, trades, ch, closed, view, phase, accepted, cur, trade, book, index>>
  BY DEF FillOrder, handlerVars
<1>b. mpc \in TradeSteps /\ mpc' \in TradeSteps
  BY DEF TradeSteps
<1>c. /\ trade.buy # trade.sell /\ trade.buy \in Orders /\ trade.sell \in Orders
      /\ trade.qty \in Nat /\ cur \in Orders
  BY <1>b, TradeParties
<1>d. trade.qty > 0 /\ trade.qty <= RemainingQuantity(order[o])
  BY <1>b DEF IInv, TradeInv
<1>e. /\ order[o] \in OrderRec /\ order[o].quantity \in Nat /\ order[o].filled \in Nat
      /\ order[o].side \in Sides /\ order[o].price \in Prices
      /\ order[o].quantity \in Quantities
  BY OrderFacts DEF IInv
<1>f. \A x \in Orders : x # o => order'[x] = order[x]
  BY <1>a DEF IInv, TypeOK
<1>g. /\ order'[o] = Fill(order[o], trade.qty)
  BY <1>a DEF IInv, TypeOK
<1>h. /\ order'[o].side = order[o].side /\ order'[o].price = order[o].price
      /\ order'[o].quantity = order[o].quantity
      /\ order'[o].filled = order[o].filled + trade.qty
      /\ order'[o].status = IF order[o].filled + trade.qty >= order[o].quantity
                            THEN "FILLED" ELSE "PARTIAL"
      /\ order'[o] \in OrderRec
  <2>1. /\ order'[o].side = order[o].side /\ order'[o].price = order[o].price
        /\ order'[o].quantity = order[o].quantity
        /\ order'[o].filled = order[o].filled + trade.qty
        /\ order'[o].status = IF order[o].filled + trade.qty >= order[o].quantity
                              THEN "FILLED" ELSE "PARTIAL"
    BY <1>e, <1>g DEF Fill, OrderRec
  <2>2. order[o].filled + trade.qty \in Nat
    BY <1>c, <1>e
  <2>3. \A f \in Nat, st \in Statuses :
          [order[o] EXCEPT !.filled = f, !.status = st] \in OrderRec
    BY <1>e DEF OrderRec
  <2>4. order'[o] \in OrderRec
    BY <1>g, <2>2, <2>3 DEF Fill, Statuses
  <2> QED BY <2>1, <2>4
<1>i. order[o].filled + trade.qty <= order[o].quantity
  BY <1>c, <1>d, <1>e DEF RemainingQuantity
<1>j. \A x \in Orders : order'[x].side = order[x].side
  BY <1>f, <1>h
<1>k. PassiveSide' = PassiveSide
  BY <1>a, <1>c, <1>j DEF PassiveSide
<1>1. TypeOK'
  <2>1. order' \in [Orders -> OrderRec]
    BY <1>a, <1>g, <1>h DEF IInv, TypeOK
  <2> QED BY <1>a, <1>b, <2>1 DEF IInv, TypeOK
<1>2. NoOverfill'
  <2> SUFFICES ASSUME NEW x \in Orders
               PROVE  /\ order'[x].filled <= order'[x].quantity
                      /\ (order'[x].status = "FILLED") <=> (order'[x].filled = order'[x].quantity)
    BY DEF NoOverfill
  <2>1. CASE x # o
    BY <1>f, <2>1 DEF IInv, NoOverfill
  <2>2. CASE x = o
    BY <1>c, <1>e, <1>h, <1>i, <2>2
  <2> QED BY <2>1, <2>2
<1>3. QueueInv'
  BY <1>a, <1>b, <1>c, NoOrderAssumption DEF IInv, QueueInv
<1>4. BookInv'
  <2> SUFFICES ASSUME NEW side \in Sides, NEW i \in 1..Len(book[side])
               PROVE  order'[book[side][i].order].side = side
    BY <1>a DEF IInv, BookInv
  <2>1. book[side][i].order \in Orders
    BY EntryFacts DEF IInv
  <2> QED BY <1>j, <2>1 DEF IInv, BookInv
<1>5. EntriesCovered'
  <2> SUFFICES ASSUME NEW side \in Sides, NEW i \in 1..Len(book[side])
               PROVE  book[side][i].remaining
                        <= RemainingQuantity(order'[book[side][i].order])
                             + (InFlight(book[side][i].order))'
    BY <1>a DEF EntriesCovered
  <2>1. book[side][i].remaining \in Nat /\ book[side][i].order \in Orders
    BY EntryFacts DEF IInv
  <2>2. PICK x \in Orders : x = book[side][i].order
    BY <2>1
  <2>3. book[side][i].remaining <= RemainingQuantity(order[x]) + InFlight(x)
    BY <2>2 DEF IInv, EntriesCovered
  <2>4. (InFlight(book[side][i].order))' = (InFlight(x))'
    BY <1>a, <2>2 DEF InFlight
  <2>5. book[side][i].remaining <= RemainingQuantity(order'[x]) + (InFlight(x))'
    <3>1. CASE x # o
      <4>1. order'[x] = order[x]
        BY <1>f, <3>1
      <4>2. (InFlight(x))' = InFlight(x)
        BY <1>a, <1>c, <3>1 DEF InFlight, TradeSteps
      <4> QED BY <2>3, <4>1, <4>2
    <3>2. CASE x = o
      <4>1. InFlight(x) = 0 /\ (InFlight(x))' = trade.qty
        BY <1>a, <1>c, <3>2 DEF InFlight, TradeSteps
      <4>2. RemainingQuantity(order'[x]) = RemainingQuantity(order[x]) - trade.qty
        BY <1>c, <1>e, <1>h, <3>2 DEF RemainingQuantity
      <4>3. RemainingQuantity(order[x]) \in Int
        BY <1>e, <3>2 DEF RemainingQuantity
      <4> QED BY <1>c, <2>1, <2>3, <4>1, <4>2, <4>3
    <3> QED BY <3>1, <3>2
  <2> QED BY <2>2, <2>4, <2>5
<1>6. TradeInv'
  <2>1. mpc' # "fillBuy"
    OBVIOUS
  <2>2. mpc' = "fillSell" => trade.qty <= RemainingQuantity(order'[trade.sell])
    <3> SUFFICES ASSUME mpc' = "fillSell"
                 PROVE  trade.qty <= RemainingQuantity(order'[trade.sell])
      OBVIOUS
    <3>1. order'[trade.sell] = order[trade.sell]
      BY <1>c, <1>f
    <3> QED BY <1>b, <3>1 DEF IInv, TradeInv
  <2>3. order'[cur].side = order[cur].side
    BY <1>c, <1>j
  <2> QED BY <1>a, <1>b, <1>k, <2>1, <2>2, <2>3 DEF IInv, TradeInv
<1>7. RowInv'
  <2> SUFFICES ASSUME NEW x \in Orders
               PROVE  /\ phase[x] = "new" => repo[x] = NoRow
                      /\ repo[x].filled <= order'[x].filled
                      /\ repo[x].status = "FILLED" => repo[x] = Row(order'[x])
    BY <1>a DEF RowInv
  <2>0. /\ phase[x] = "new" => repo[x] = NoRow
        /\ repo[x].filled <= order[x].filled
        /\ repo[x].status = "FILLED" => repo[x] = Row(order[x])
    BY DEF IInv, RowInv
  <2>1. CASE x # o
    BY <1>f, <2>0, <2>1
  <2>2. CASE x = o
    <3>1. repo[o].filled \in Nat
      BY DEF IInv, TypeOK
    <3>2. repo[o].filled <= order'[o].filled
      BY <1>c, <1>e, <1>h, <2>0, <2>2, <3>1
    <3>3. repo[o].status # "FILLED"
      <4> SUFFICES ASSUME repo[o].status = "FILLED" PROVE FALSE
        OBVIOUS
      <4>1. order[o].status = "FILLED"
        BY <2>0, <2>2 DEF Row
      <4>2. order[o].filled = order[o].quantity
        BY <4>1 DEF IInv, NoOverfill
      <4> QED BY <1>c, <1>d, <1>e, <1>i, <4>2
    <3> QED BY <2>0, <2>2, <3>2, <3>3
  <2> QED BY <2>1, <2>2
<1> QED BY <1>1, <1>2, <1>3, <1>4, <1>5, <1>6, <1>7 DEF IInv

\* The end of an iteration: the best entry gives up what was traded, and goes
\* when nothing is left of it.
LEMMA SettlePreserves ==
  ASSUME IInv, Settle
  PROVE  IInv'
<1> DEFINE best == book[PassiveSide][1]
           left == best.remaining - trade.qty
<1>a. /\ mpc = "settle" /\ mpc' = "match" /\ trade' = NoTrade
      /\ UNCHANGED <<order, repo, trades, ch, closed, view, phase, accepted, cur>>
  BY DEF Settle, handlerVars
<1>b. mpc \in TradeSteps /\ mpc' \notin TradeSteps
  BY <1>a DEF TradeSteps
<1>c. /\ cur \in Orders /\ PassiveSide \in Sides
      /\ book[PassiveSide] \in Seq(EntryRec) /\ book[PassiveSide] # <<>>
      /\ 1 \in 1..Len(book[PassiveSide]) /\ Len(book[PassiveSide]) \in Nat
      /\ trade.qty \in Nat
  BY <1>b, TradeParties
<1>d. Head(book[PassiveSide]) = best
  BY <1>c
<1>e. \/ /\ left <= 0
         /\ book' = [s \in Sides |-> RemoveEntry(book[s], best.order)]
         /\ index' = index \ {best.order}
      \/ /\ left > 0
         /\ book' = [book EXCEPT ![PassiveSide][1].remaining = left]
         /\ index' = index
  <2>1. best.remaining \in Nat
    BY <1>c, EntryFacts DEF IInv
  <2>2. left <= 0 \/ left > 0
    BY <1>c, <2>1
  <2>3. left <= 0 \/ ~(left <= 0)
    OBVIOUS
  <2>4. ~(left <= 0) => left > 0
    BY <2>2
  <2> QED BY <1>d, <2>4 DEF Settle
<1>f. /\ best \in EntryRec /\ best.order \in Orders /\ best.remaining \in Nat
      /\ order[best.order].side = PassiveSide
  BY <1>c, EntryFacts DEF IInv, BookInv
<1>g. trade.buy \in {cur, best.order} /\ trade.sell \in {cur, best.order}
  BY <1>b DEF IInv, TradeInv
<1>h. \A s \in Sides : book[s] \in Seq(EntryRec)
  BY DEF IInv, TypeOK
<1>k. left <= 0 => /\ book' = [s \in Sides |-> RemoveEntry(book[s], best.order)]
                   /\ index' = index \ {best.order}
  <2>1. left \in Int
    BY <1>c, <1>f
  <2> HIDE DEF left
  <2> QED BY <1>e, <2>1
<1>l. left > 0 => /\ book' = [book EXCEPT ![PassiveSide][1].remaining = left]
                  /\ index' = index
  <2>1. left \in Int
    BY <1>c, <1>f
  <2> HIDE DEF left
  <2> QED BY <1>e, <2>1
\* Entries other than the best one belong to other orders, none in flight.
<1>i. ASSUME NEW s \in Sides, NEW i \in 1..Len(book[s]), s # PassiveSide \/ i # 1
      PROVE  /\ book[s][i].order # best.order
             /\ book[s][i].remaining <= RemainingQuantity(order[book[s][i].order])
  <2>1. book[s][i].order \in Orders /\ book[s][i].remaining \in Nat
    BY EntryFacts DEF IInv
  <2>2. book[s][i].order # cur /\ order[book[s][i].order].side = s
    BY DEF IInv, BookInv
  <2>3. book[s][i].order # best.order
    <3>1. CASE s # PassiveSide
      BY <1>f, <2>2, <3>1
    <3>2. CASE s = PassiveSide /\ i # 1
      BY <1>c, <3>2 DEF IInv, BookInv
    <3> QED BY <1>i, <3>1, <3>2
  <2>4. InFlight(book[s][i].order) = 0
    BY <1>g, <2>2, <2>3 DEF InFlight
  <2>5. book[s][i].remaining
          <= RemainingQuantity(order[book[s][i].order]) + InFlight(book[s][i].order)
    BY DEF IInv, EntriesCovered
  <2>6. RemainingQuantity(order[book[s][i].order]) \in Int
    BY <2>1, OrderFacts DEF RemainingQuantity, IInv
  <2> QED BY <2>1, <2>3, <2>4, <2>5, <2>6
\* Each side afterwards is the old one, without its first d entries.
<1> DEFINE Kept(s, d) ==
      /\ book'[s] \in Seq(EntryRec)
      /\ Len(book'[s]) = Len(book[s]) - d
      /\ \A i \in 1..Len(book'[s]) :
           /\ i + d \in 1..Len(book[s])
           /\ book'[s][i].order = book[s][i + d].order
           /\ book'[s][i].price = book[s][i + d].price
           /\ book'[s][i].order \in index'
           /\ book'[s][i].remaining > 0
           /\ book'[s][i].remaining <= RemainingQuantity(order[book[s][i + d].order])
<1>j. ASSUME NEW s \in Sides
      PROVE  \E d \in {0, 1} : Kept(s, d)
  <2> DEFINE b == book[s]
  <2>0. /\ b \in Seq(EntryRec) /\ Len(b) \in Nat
        /\ \A i \in 1..Len(b) : b[i].order \in index /\ b[i].remaining > 0
    BY <1>h DEF IInv, BookInv
  <2>1. CASE left <= 0 /\ s = PassiveSide
    <3>1. book'[s] = Tail(b)
      <4>1. book'[s] = RemoveEntry(b, b[1].order)
        BY <1>k, <2>1
      <4> QED BY <1>c, <2>0, <2>1, <4>1, RemoveHeadEntry
    <3>2. index' = index \ {best.order}
      BY <1>k, <2>1
    <3>3. /\ Tail(b) \in Seq(EntryRec) /\ Len(Tail(b)) = Len(b) - 1
          /\ \A i \in 1..Len(b) - 1 : i + 1 \in 1..Len(b) /\ Tail(b)[i] = b[i + 1] /\ i + 1 # 1
      BY <1>c, <2>0, <2>1
    <3>4. \A i \in 1..Len(b) - 1 :
            /\ b[i + 1].order # best.order
            /\ b[i + 1].remaining <= RemainingQuantity(order[b[i + 1].order])
      BY <1>i, <3>3
    <3>5. Kept(s, 1)
      BY <2>0, <3>1, <3>2, <3>3, <3>4
    <3> QED BY <3>5
  <2>2. CASE left <= 0 /\ s # PassiveSide
    <3>1. book'[s] = b
      <4>1. book'[s] = RemoveEntry(b, best.order)
        BY <1>k, <2>2
      <4>2. \A i \in 1..Len(b) : b[i].order # best.order
        BY <1>i, <2>2
      <4> QED BY <2>0, <4>1, <4>2, RemoveAbsentEntry
    <3>2. index' = index \ {best.order}
      BY <1>k, <2>2
    <3>3. \A i \in 1..Len(b) :
            /\ b[i].order # best.order
            /\ b[i].remaining <= RemainingQuantity(order[b[i].order])
      BY <1>i, <2>2
    <3>4. \A i \in 1..Len(b) : i + 0 = i
      OBVIOUS
    <3>5. Kept(s, 0)
      BY <2>0, <3>1, <3>2, <3>3, <3>4
    <3> QED BY <3>5
  <2>3. CASE left > 0 /\ s # PassiveSide
    <3>1. book'[s] = b /\ index' = index
      BY <1>l, <2>3 DEF IInv, TypeOK
    <3>3. \A i \in 1..Len(b) : b[i].remaining <= RemainingQuantity(order[b[i].order])
      BY <1>i, <2>3
    <3>4. \A i \in 1..Len(b) : i + 0 = i
      OBVIOUS
    <3>5. Kept(s, 0)
      BY <2>0, <3>1, <3>3, <3>4
    <3> QED BY <3>5
  <2>4. CASE left > 0 /\ s = PassiveSide
    <3>1. book'[s] = [b EXCEPT ![1].remaining = left] /\ index' = index
      <4>1. book \in [Sides -> Seq(EntryRec)]
        BY DEF IInv, TypeOK
      <4> HIDE DEF left
      <4> QED BY <1>l, <2>4, <4>1
    <3>2. left \in Nat
      BY <1>c, <1>f, <2>4
    <3>3. [b[1] EXCEPT !.remaining = left] \in EntryRec
      BY <1>f, <2>4, <3>2 DEF EntryRec
    <3>4. /\ book'[s] \in Seq(EntryRec) /\ Len(book'[s]) = Len(b)
          /\ book'[s][1] = [b[1] EXCEPT !.remaining = left]
          /\ \A i \in 1..Len(b) : i # 1 => book'[s][i] = b[i]
      BY <1>c, <2>0, <2>4, <3>1, <3>3
    <3>5. /\ book'[s][1].order = b[1].order /\ book'[s][1].price = b[1].price
          /\ book'[s][1].remaining = left
      BY <1>f, <2>4, <3>4 DEF EntryRec
    <3>6. left <= RemainingQuantity(order[b[1].order])
      <4>1. best.remaining <= RemainingQuantity(order[best.order]) + InFlight(best.order)
        BY <1>c DEF IInv, EntriesCovered
      <4>2. InFlight(best.order) = 0 \/ InFlight(best.order) = trade.qty
        BY InFlightFacts
      <4>3. RemainingQuantity(order[best.order]) \in Int
        BY <1>f, OrderFacts DEF RemainingQuantity, IInv
      <4> QED BY <1>c, <1>f, <2>4, <4>1, <4>2, <4>3
    <3>7. \A i \in 1..Len(b) :
            i # 1 => b[i].remaining <= RemainingQuantity(order[b[i].order])
      BY <1>i, <2>4
    <3>8. \A i \in 1..Len(b) : i + 0 = i
      OBVIOUS
    <3>9. Kept(s, 0)
      BY <2>0, <2>4, <3>1, <3>4, <3>5, <3>6, <3>7, <3>8
    <3> QED BY <3>9
  <2>5. left <= 0 \/ left > 0
    BY <1>e
  <2> QED BY <2>1, <2>2, <2>3, <2>4, <2>5
<1>1. TypeOK'
  <2>1. \A s \in Sides : book'[s] \in Seq(EntryRec)
    BY <1>j
  <2>2. DOMAIN book' = Sides /\ book' = [s \in Sides |-> book'[s]]
    BY <1>e DEF IInv, TypeOK
  <2>3. book' \in [Sides -> Seq(EntryRec)]
    BY <2>1, <2>2
  <2>4. index' \in SUBSET Orders
    BY <1>e DEF IInv, TypeOK
  <2> QED BY <1>a, <2>3, <2>4 DEF IInv, TypeOK
<1>2. NoOverfill'
  BY <1>a DEF IInv, NoOverfill
<1>3. QueueInv'
  BY <1>a, <1>b DEF IInv, QueueInv
<1> HIDE DEF best, left, Kept
<1>4. BookInv'
  <2> SUFFICES ASSUME NEW s \in Sides
               PROVE  /\ SortedPrices(s, book'[s])
                      /\ \A i \in 1..Len(book'[s]) :
                           LET e == book'[s][i]
                           IN  /\ e.remaining > 0
                               /\ e.order \in index'
                               /\ e.order # cur
                               /\ \A k \in 1..Len(ch) : ch[k] # e.order
                               /\ phase[e.order] \in Taken
                               /\ order[e.order].side = s
                      /\ \A i, j \in 1..Len(book'[s]) :
                           book'[s][i].order = book'[s][j].order => i = j
    BY <1>a DEF BookInv, SortedPrices
  <2>1. PICK d \in {0, 1} : Kept(s, d)
    BY <1>j
  <2>2. \A i, j \in 1..Len(book[s]) :
          /\ i < j => ~Better(s, book[s][j].price, book[s][i].price)
          /\ book[s][i].order = book[s][j].order => i = j
    BY DEF IInv, BookInv, SortedPrices
  <2>3. SortedPrices(s, book'[s])
    <3> SUFFICES ASSUME NEW i \in 1..Len(book'[s]), NEW j \in 1..Len(book'[s]), i < j
                 PROVE  ~Better(s, book'[s][j].price, book'[s][i].price)
      BY DEF SortedPrices
    <3>1. i + d < j + d /\ i + d \in 1..Len(book[s]) /\ j + d \in 1..Len(book[s])
      BY <2>1 DEF Kept
    <3>2. book'[s][i].price = book[s][i + d].price /\ book'[s][j].price = book[s][j + d].price
      BY <2>1 DEF Kept
    <3> QED BY <2>2, <3>1, <3>2
  <2>4. ASSUME NEW i \in 1..Len(book'[s]), NEW j \in 1..Len(book'[s]),
               book'[s][i].order = book'[s][j].order
        PROVE  i = j
    <3>1. i + d \in 1..Len(book[s]) /\ j + d \in 1..Len(book[s])
      BY <2>1 DEF Kept
    <3>2. book[s][i + d].order = book[s][j + d].order
      BY <2>1, <2>4 DEF Kept
    <3>3. i + d = j + d
      BY <2>2, <3>1, <3>2
    <3> QED BY <2>1, <3>3
  <2>5. ASSUME NEW i \in 1..Len(book'[s])
        PROVE  LET e == book'[s][i]
               IN  /\ e.remaining > 0
                   /\ e.order \in index'
                   /\ e.order # cur
                   /\ \A k \in 1..Len(ch) : ch[k] # e.order
                   /\ phase[e.order] \in Taken
                   /\ order[e.order].side = s
    <3>1. /\ i + d \in 1..Len(book[s]) /\ book'[s][i].order = book[s][i + d].order
          /\ book'[s][i].remaining > 0 /\ book'[s][i].order \in index'
      BY <2>1 DEF Kept
    <3>2. /\ book[s][i + d].order # cur
          /\ \A k \in 1..Len(ch) : ch[k] # book[s][i + d].order
          /\ phase[book[s][i + d].order] \in Taken
          /\ order[book[s][i + d].order].side = s
      BY <3>1 DEF IInv, BookInv
    <3> QED BY <3>1, <3>2
  <2> QED BY <2>3, <2>4, <2>5
<1>5. EntriesCovered'
  <2> SUFFICES ASSUME NEW s \in Sides, NEW i \in 1..Len(book'[s])
               PROVE  book'[s][i].remaining
                        <= RemainingQuantity(order[book'[s][i].order])
                             + (InFlight(book[s][i].order))'
    BY <1>a DEF EntriesCovered
  <2>1. PICK d \in {0, 1} : Kept(s, d)
    BY <1>j
  <2>2. (InFlight(book[s][i].order))' = 0
    BY <1>b DEF InFlight
  <2>3. /\ book'[s][i].remaining <= RemainingQuantity(order[book'[s][i].order])
        /\ i + d \in 1..Len(book[s]) /\ book'[s][i].order = book[s][i + d].order
    BY <2>1 DEF Kept
  <2>4. book'[s][i].order \in Orders
    BY <2>3, EntryFacts DEF IInv
  <2>5. RemainingQuantity(order[book'[s][i].order]) \in Int
    BY <2>4, OrderFacts DEF RemainingQuantity, IInv
  <2> QED BY <2>2, <2>3, <2>5
<1>6. TradeInv'
  BY <1>b DEF TradeInv
<1>7. RowInv'
  BY <1>a DEF IInv, RowInv
<1> QED BY <1>1, <1>2, <1>3, <1>4, <1>5, <1>6, <1>7 DEF IInv

\* What Append does, position by position.
LEMMA AppendFacts ==
  ASSUME NEW S, NEW s \in Seq(S), NEW e \in S
  PROVE  /\ \A k \in 1..Len(s) : Append(s, e)[k] = s[k]
         /\ Append(s, e)[Len(s) + 1] = e
         /\ \A k \in 1..Len(s) + 1 : k \in 1..Len(s) \/ k = Len(s) + 1
         /\ \A k \in 1..Len(s) + 1 : Append(s, e)[k] \in S
OBVIOUS

\* A function on 1..m is a sequence.
LEMMA FunctionIsSeq ==
  ASSUME NEW S, NEW m \in Nat, NEW f \in [1..m -> S]
  PROVE  f \in Seq(S)
OBVIOUS

\* After the loop the remainder joins its side of the book, in price order, or
\* the book stays as it is.
LEMMA RestOrderPreserves ==
  ASSUME IInv, RestOrder
  PROVE  IInv'
<1> DEFINE o == order[cur]
           rests == IsActive(o) /\ RemainingQuantity(o) > 0 /\ cur \notin index
           entry == [order |-> cur, price |-> o.price, remaining |-> RemainingQuantity(o)]
           own == book[o.side]
           n == Len(own)
<1>a. /\ mpc = "match" /\ mpc' = "idle" /\ cur' = NoOrder
      /\ UNCHANGED <<order, repo, trades, ch, closed, phase, accepted, trade>>
  BY DEF RestOrder, handlerVars
<1>b. /\ rests => /\ book' = [book EXCEPT ![o.side] = AddEntry(o.side, @, entry)]
                  /\ index' = index \cup {cur}
      /\ ~rests => book' = book /\ index' = index
  BY DEF RestOrder
<1>c. mpc \notin TradeSteps /\ mpc' \notin TradeSteps /\ mpc' # "match"
  BY <1>a DEF TradeSteps
<1>d. cur \in Orders /\ cur # NoOrder /\ phase[cur] \in Taken
  BY <1>a, NoOrderAssumption DEF IInv, QueueInv, TypeOK
<1>e. /\ o.side \in Sides /\ o.price \in Prices /\ o.quantity \in Nat /\ o.filled \in Nat
      /\ RemainingQuantity(o) \in Int
  BY <1>d, OrderFacts DEF IInv, RemainingQuantity
<1>f. book \in [Sides -> Seq(EntryRec)] /\ own \in Seq(EntryRec) /\ n \in Nat
  BY <1>e DEF IInv, TypeOK
<1>g. rests => entry \in EntryRec
  BY <1>d, <1>e DEF EntryRec
<1>h. view'.status \in {"absent", "initial", "live"}
  BY DEF RestOrder, IInv, TypeOK
\* Each side afterwards is sorted, and an entry of it is the new one or an old
\* one, in a new place.
<1> DEFINE Old(s, x) == \E k \in 1..Len(book[s]) : x = book[s][k]
           New(s, x) == rests /\ s = o.side /\ x = entry
           Arranged(s) ==
             /\ book'[s] \in Seq(EntryRec)
             /\ SortedPrices(s, book'[s])
             /\ \A i \in 1..Len(book'[s]) : Old(s, book'[s][i]) \/ New(s, book'[s][i])
             /\ \A i, j \in 1..Len(book'[s]) :
                  book'[s][i].order = book'[s][j].order => i = j
<1>i. ASSUME NEW s \in Sides, ~rests \/ s # o.side
      PROVE  Arranged(s)
  <2>1. book'[s] = book[s]
    BY <1>b, <1>f, <1>i
  <2>2. book[s] \in Seq(EntryRec)
    BY <1>f
  <2>3. /\ SortedPrices(s, book[s])
        /\ \A i, j \in 1..Len(book[s]) : book[s][i].order = book[s][j].order => i = j
    BY DEF IInv, BookInv
  <2> QED BY <2>1, <2>2, <2>3
<1>j. ASSUME rests PROVE Arranged(o.side)
  <2> DEFINE a == Append(own, entry)
             N == 1..n + 1
  <2>1. SortedPrices(o.side, own)
    BY <1>e DEF IInv, BookInv
  <2>2. entry \in EntryRec
    BY <1>g, <1>j
  <2>3. book'[o.side] = AddEntry(o.side, own, entry)
    BY <1>b, <1>e, <1>f, <1>j
  <2>a. PICK p \in [N -> N] : StablyArranges(p, o.side, own, entry, AddEntry(o.side, own, entry))
    BY <1>e, <1>f, <2>1, <2>2, AddEntryFacts
  <2>4. /\ \A i, j \in N : p[i] = p[j] => i = j
        /\ AddEntry(o.side, own, entry) = [i \in N |-> a[p[i]]]
        /\ \A i, j \in N : i < j => ~Better(o.side, a[p[j]].price, a[p[i]].price)
    BY <2>a DEF StablyArranges
  <2>5. /\ \A k \in 1..n : a[k] = own[k]
        /\ a[n + 1] = entry
        /\ \A k \in N : k \in 1..n \/ k = n + 1
        /\ \A k \in N : a[k] \in EntryRec
    BY <1>f, <2>2, AppendFacts
  <2>6. own = book[o.side] /\ n = Len(book[o.side]) /\ entry.order = cur
    OBVIOUS
  <2>7. \A k \in 1..n : own[k].order # cur
    BY <1>e DEF IInv, BookInv
  <2>8. \A i, j \in 1..n : own[i].order = own[j].order => i = j
    BY <1>e DEF IInv, BookInv
  <2> HIDE DEF a, own, n, entry, o, rests
  <2>9. book'[o.side] = [i \in N |-> a[p[i]]] /\ Len(book'[o.side]) = n + 1
    BY <1>f, <2>3, <2>4
  <2>10. book'[o.side] \in Seq(EntryRec)
    <3>1. n + 1 \in Nat
      BY <1>f
    <3>2. book'[o.side] \in [1..n + 1 -> EntryRec]
      BY <2>4, <2>5, <2>9
    <3> QED BY <3>1, <3>2, FunctionIsSeq
  <2>11. \A i \in N : book'[o.side][i] = a[p[i]] /\ p[i] \in N
    BY <2>4, <2>9
  <2>12. SortedPrices(o.side, book'[o.side])
    <3>1. \A i, j \in N : i < j => ~Better(o.side, book'[o.side][j].price, book'[o.side][i].price)
      BY <2>4, <2>11
    <3> QED BY <2>9, <3>1 DEF SortedPrices
  <2>13. \A i \in N : Old(o.side, book'[o.side][i]) \/ New(o.side, book'[o.side][i])
    <3> SUFFICES ASSUME NEW i \in N
                 PROVE  Old(o.side, book'[o.side][i]) \/ New(o.side, book'[o.side][i])
      OBVIOUS
    <3>1. CASE p[i] \in 1..n
      <4>1. book'[o.side][i] = book[o.side][p[i]] /\ p[i] \in 1..Len(book[o.side])
        BY <2>5, <2>6, <2>11, <3>1
      <4> QED BY <4>1
    <3>2. CASE p[i] = n + 1
      BY <1>j, <2>5, <2>11, <3>2
    <3> QED BY <2>5, <2>11, <3>1, <3>2
  <2>14. \A k, l \in N : a[k].order = a[l].order => k = l
    <3> SUFFICES ASSUME NEW k \in N, NEW l \in N, a[k].order = a[l].order
                 PROVE  k = l
      OBVIOUS
    <3>1. k \in 1..n \/ k = n + 1
      BY <2>5
    <3>2. l \in 1..n \/ l = n + 1
      BY <2>5
    <3> QED BY <2>5, <2>6, <2>7, <2>8, <3>1, <3>2
  <2>15. \A i, j \in N : book'[o.side][i].order = book'[o.side][j].order => i = j
    BY <2>4, <2>11, <2>14
  <2> QED BY <2>9, <2>10, <2>12, <2>13, <2>15
<1>k. \A s \in Sides : Arranged(s)
  <2> HIDE DEF Arranged, rests, o
  <2> QED BY <1>i, <1>j
<1>1. TypeOK'
  <2>1. book' = [s \in Sides |-> book'[s]]
    BY <1>b, <1>f
  <2>2. \A s \in Sides : book'[s] \in Seq(EntryRec)
    BY <1>k
  <2>3. book' \in [Sides -> Seq(EntryRec)]
    BY <2>1, <2>2
  <2>4. index' \in SUBSET Orders
    BY <1>b, <1>d DEF IInv, TypeOK
  <2> QED BY <1>a, <1>h, <2>3, <2>4 DEF IInv, TypeOK
<1>2. NoOverfill'
  BY <1>a DEF IInv, NoOverfill
<1>3. QueueInv'
  <2>1. \A i \in 1..Len(ch) : ch[i] # NoOrder
    BY NoOrderAssumption DEF IInv, TypeOK
  <2> QED BY <1>a, <1>c, <2>1 DEF IInv, QueueInv
<1>l. ASSUME NEW s \in Sides, NEW i \in 1..Len(book'[s])
      PROVE  LET e == book'[s][i]
             IN  /\ e.order \in Orders
                 /\ e.remaining > 0
                 /\ e.order \in index'
                 /\ \A k \in 1..Len(ch) : ch[k] # e.order
                 /\ phase[e.order] \in Taken
                 /\ order[e.order].side = s
                 /\ e.remaining <= RemainingQuantity(order[e.order])
  <2>1. CASE New(s, book'[s][i])
    <3>1. /\ book'[s][i].order = cur /\ book'[s][i].remaining = RemainingQuantity(o)
          /\ rests /\ s = o.side
      BY <2>1
    <3>2. \A k \in 1..Len(ch) : ch[k] # cur
      BY DEF IInv, QueueInv
    <3>3. cur \in index' /\ RemainingQuantity(o) > 0
      BY <1>b, <3>1
    <3> QED BY <1>d, <1>e, <3>1, <3>2, <3>3
  <2>2. CASE Old(s, book'[s][i])
    <3>1. PICK k \in 1..Len(book[s]) : book'[s][i] = book[s][k]
      BY <2>2
    <3>2. book[s][k].order \in Orders /\ book[s][k].remaining \in Nat
      BY EntryFacts DEF IInv
    <3>3. /\ book[s][k].remaining > 0
          /\ book[s][k].order \in index
          /\ \A j \in 1..Len(ch) : ch[j] # book[s][k].order
          /\ phase[book[s][k].order] \in Taken
          /\ order[book[s][k].order].side = s
      BY DEF IInv, BookInv
    <3>4. book[s][k].order \in index'
      BY <1>b, <3>3
    <3>5. book[s][k].remaining
            <= RemainingQuantity(order[book[s][k].order]) + InFlight(book[s][k].order)
      BY DEF IInv, EntriesCovered
    <3>6. InFlight(book[s][k].order) = 0
      BY <1>c DEF InFlight
    <3>7. RemainingQuantity(order[book[s][k].order]) \in Int
      BY <3>2, OrderFacts DEF RemainingQuantity, IInv
    <3>8. book[s][k].remaining <= RemainingQuantity(order[book[s][k].order])
      BY <3>2, <3>5, <3>6, <3>7
    <3> QED BY <3>1, <3>2, <3>3, <3>4, <3>8
  <2>3. New(s, book'[s][i]) \/ Old(s, book'[s][i])
    BY <1>k
  <2> QED BY <2>1, <2>2, <2>3
<1>4. BookInv'
  <2>1. \A s \in Sides : \A i \in 1..Len(book'[s]) : book'[s][i].order # cur'
    BY <1>a, <1>l, NoOrderAssumption
  <2>2. \A s \in Sides :
          /\ SortedPrices(s, book'[s])
          /\ \A i, j \in 1..Len(book'[s]) :
               book'[s][i].order = book'[s][j].order => i = j
    BY <1>k
  <2> HIDE DEF rests, entry, own, n, o, Old, New, Arranged
  <2> QED BY <1>a, <1>l, <2>1, <2>2 DEF BookInv, SortedPrices
<1>5. EntriesCovered'
  <2> HIDE DEF rests, entry, own, n, o, Old, New, Arranged
  <2> SUFFICES ASSUME NEW s \in Sides, NEW i \in 1..Len(book'[s])
               PROVE  book'[s][i].remaining
                        <= RemainingQuantity(order[book'[s][i].order])
                             + (InFlight(book[s][i].order))'
    BY <1>a DEF EntriesCovered
  <2>1. (InFlight(book[s][i].order))' = 0
    BY <1>c DEF InFlight
  <2>2. RemainingQuantity(order[book'[s][i].order]) \in Int
    BY <1>l, OrderFacts DEF RemainingQuantity, IInv
  <2> QED BY <1>l, <2>1, <2>2
<1>6. TradeInv'
  BY <1>c DEF TradeInv
<1>7. RowInv'
  BY <1>a DEF IInv, RowInv
<1> QED BY <1>1, <1>2, <1>3, <1>4, <1>5, <1>6, <1>7 DEF IInv

\* The steps that touch nothing the invariant speaks of but the stored order
\* book's status and the channel's closed flag.
LEMMA OutsidePreserves ==
  ASSUME IInv, InitStock \/ Stop \/ UNCHANGED vars
  PROVE  IInv'
<1>a. UNCHANGED <<order, repo, trades, ch, phase, accepted, mpc, cur, trade, book, index>>
  BY DEF InitStock, Stop, vars, handlerVars, matcherVars
<1>1. TypeOK'
  <2>1. view'.status \in {"absent", "initial", "live"}
    BY DEF InitStock, Stop, vars, IInv, TypeOK
  <2>2. closed' = closed \/ closed' = TRUE
    BY Zenon DEF InitStock, Stop, vars
  <2>3. closed \in BOOLEAN
    BY Zenon DEF IInv, TypeOK
  <2>4. closed' \in BOOLEAN
    BY <2>2, <2>3, Zenon
  <2> QED BY <1>a, <2>1, <2>4 DEF IInv, TypeOK
<1>2. NoOverfill' /\ RowInv'
  BY <1>a DEF IInv, NoOverfill, RowInv
<1>3. QueueInv' /\ BookInv'
  BY <1>a DEF IInv, QueueInv, BookInv
<1>4. EntriesCovered'
  BY <1>a DEF IInv, EntriesCovered, InFlight
<1>5. TradeInv'
  BY <1>a DEF IInv, TradeInv, PassiveSide
<1> QED BY <1>1, <1>2, <1>3, <1>4, <1>5 DEF IInv

\* Every step of the engine, the handlers, main and the feed keeps the
\* invariant.
LEMMA NextPreserves ==
  ASSUME IInv, [Next]_vars
  PROVE  IInv'
<1>1. ASSUME NEW o \in Orders, CreateOrder(o) PROVE IInv'
  BY <1>1, SaveOrderPreserves, SubmitOrderPreserves, PublishCreatedPreserves DEF CreateOrder
<1>2. CASE Receive
  BY <1>2, ReceivePreserves
<1>3. CASE SaveTrade
  BY <1>3, SaveTradePreserves
<1>4. CASE FillBuy
  <2>1. mpc \in TradeSteps
    BY <1>4 DEF FillBuy, TradeSteps
  <2> QED BY <1>4, <2>1, TradeParties, FillPreserves DEF FillBuy
<1>5. CASE FillSell
  <2>1. mpc \in TradeSteps
    BY <1>5 DEF FillSell, TradeSteps
  <2> QED BY <1>5, <2>1, TradeParties, FillPreserves DEF FillSell
<1>6. CASE UpdateBuy
  <2>1. /\ mpc \in TradeSteps \ {"fillBuy", "fillSell"}
        /\ mpc' \in TradeSteps \ {"fillBuy", "fillSell"}
        /\ UpdateOrder(trade.buy)
    BY <1>6 DEF UpdateBuy, TradeSteps
  <2> QED BY <2>1, TradeParties, UpdateOrderPreserves
<1>7. CASE UpdateSell
  <2>1. /\ mpc \in TradeSteps \ {"fillBuy", "fillSell"}
        /\ mpc' \in TradeSteps \ {"fillBuy", "fillSell"}
        /\ UpdateOrder(trade.sell)
    BY <1>7 DEF UpdateSell, TradeSteps
  <2> QED BY <2>1, TradeParties, UpdateOrderPreserves
<1>8. CASE UpdateTicker \/ PublishTrade \/ PublishBuy \/ PublishSell
  <2>1. /\ mpc \in TradeSteps \ {"fillBuy", "fillSell"}
        /\ mpc' \in TradeSteps \ {"fillBuy", "fillSell"}
    BY <1>8 DEF UpdateTicker, PublishTrade, PublishBuy, PublishSell, PublishStep, TradeSteps
  <2>2. UNCHANGED <<order, repo, trades, ch, closed, view, handlerVars, cur, trade, book, index>>
    BY <1>8 DEF UpdateTicker, PublishTrade, PublishBuy, PublishSell, PublishStep
  <2> QED BY <2>1, <2>2, AnnouncePreserves
<1>9. CASE Settle
  BY <1>9, SettlePreserves
<1>10. CASE RestOrder
  BY <1>10, RestOrderPreserves
<1>11. CASE InitStock \/ Stop \/ Terminated \/ UNCHANGED vars
  BY <1>11, OutsidePreserves DEF Terminated
<1> QED
  BY <1>1, <1>2, <1>3, <1>4, <1>5, <1>6, <1>7, <1>8, <1>9, <1>10, <1>11
  DEF Next, MatcherStep

\* The invariant holds throughout every behaviour of the engine.
THEOREM Invariance == Spec => []IInv
<1>1. IInv /\ [Next]_vars => IInv'
  BY NextPreserves
<1> QED BY <1>1, InitIInv, PTL DEF Spec

\* Every variable keeps its type and the channel never holds more than
\* matcherChanCap orders, for any number of concurrent CreateOrder handlers.
THEOREM TypeCorrect == Spec => []TypeOK
<1>1. IInv => TypeOK
  BY DEF IInv
<1> QED BY <1>1, Invariance, PTL

\* No order is filled beyond its quantity and FILLED means nothing remains,
\* for every set of orders, prices, quantities and storage failures.
THEOREM NeverOverfilled == Spec => []NoOverfill
<1>1. IInv => NoOverfill
  BY DEF IInv
<1> QED BY <1>1, Invariance, PTL

\* A step writes a row only with its order's present state, and orders only
\* fill up.
LEMMA RowStep ==
  ASSUME IInv, [Next]_vars
  PROVE  RowMovesForward
<1>1. \A o \in Orders : repo'[o] = repo[o] \/ repo'[o] = Row(order[o])
  <2>a. repo \in [Orders -> [status : Statuses \cup {"NONE"}, filled : Nat]]
    BY DEF IInv, TypeOK
  <2>1. ASSUME NEW x \in Orders, CreateOrder(x)
        PROVE  repo' = repo \/ repo' = [repo EXCEPT ![x] = Row(order[x])]
    BY <2>1 DEF CreateOrder, SaveOrder, SubmitOrder, PublishCreated
  <2>2. CASE \E x \in Orders : CreateOrder(x)
    BY <2>a, <2>1, <2>2
  <2>3. CASE UpdateBuy
    BY <2>a, <2>3 DEF UpdateBuy, UpdateOrder
  <2>4. CASE UpdateSell
    BY <2>a, <2>4 DEF UpdateSell, UpdateOrder
  <2>5. CASE Receive \/ SaveTrade \/ FillBuy \/ FillSell
    BY <2>5 DEF Receive, SaveTrade, FillBuy, FillSell, FillOrder
  <2>6. CASE UpdateTicker \/ PublishTrade \/ PublishBuy \/ PublishSell
    BY <2>6 DEF UpdateTicker, PublishTrade, PublishBuy, PublishSell, PublishStep
  <2>7. CASE Settle
    BY <2>7 DEF Settle
  <2>8. CASE RestOrder
    BY <2>8 DEF RestOrder
  <2>9. CASE InitStock \/ Stop \/ Terminated \/ UNCHANGED vars
    BY <2>9 DEF InitStock, Stop, Terminated, vars
  <2> QED
    BY <2>2, <2>3, <2>4, <2>5, <2>6, <2>7, <2>8, <2>9 DEF Next, MatcherStep
<1> SUFFICES ASSUME NEW o \in Orders
             PROVE  /\ repo[o].filled <= repo'[o].filled
                    /\ repo[o].status = "FILLED" => repo'[o] = repo[o]
  BY DEF RowMovesForward
<1>2. /\ repo[o].filled <= order[o].filled
      /\ repo[o].status = "FILLED" => repo[o] = Row(order[o])
  BY DEF IInv, RowInv
<1>3. repo[o].filled \in Nat
  BY DEF IInv, TypeOK
<1>4. Row(order[o]).filled = order[o].filled
  BY DEF Row
<1> QED BY <1>1, <1>2, <1>3, <1>4

\* What readers see of an order never goes back: the filled quantity of a row
\* never decreases and a FILLED row never changes again, whichever of the
\* handler's Save and the matcher's Update runs or fails.
THEOREM RowsForward == Spec => RowsMoveForward
<1>1. IInv /\ [Next]_vars => [RowMovesForward]_vars
  BY RowStep
<1> QED BY <1>1, Invariance, PTL DEF Spec, RowsMoveForward

-----------------------------------------------------------------------------
(***************************************************************************)
(* Matcher implements TradeLedger, for every set of orders, prices and     *)
(* quantities and every set of failing storage calls.  tradeRepo.Save is   *)
(* the ledger's Execute, or its Void when it fails although the INSERT was *)
(* committed; Save and Update of an order row are its Show; every other    *)
(* step of the engine leaves the ledger alone.  IInv supplies what the     *)
(* ledger's Deal demands: the quantity traded is available to both orders, *)
(* on opposite sides of the book.                                          *)
(***************************************************************************)

\* Before the first request nothing is pending and every order has all left.
LEMMA LedgerInit == Init => Ledger!LInit
<1> SUFFICES ASSUME Init PROVE Ledger!LInit
  OBVIOUS
<1>1. ASSUME NEW o \in Orders
      PROVE  /\ order[o].side \in Sides /\ order[o].price \in Prices
             /\ order[o].quantity \in Quantities /\ order[o].quantity \in Nat
             /\ order[o].filled = 0
             /\ Pending(o) = 0
             /\ repo[o].filled = 0
  <2>1. order[o] \in NewOrders
    BY DEF Init
  <2>2. /\ order[o].side \in Sides /\ order[o].price \in Prices
        /\ order[o].quantity \in Quantities /\ order[o].filled = 0
    BY <2>1 DEF NewOrders
  <2>3. Pending(o) = 0
    BY DEF Init, Pending
  <2>4. repo[o].filled = 0
    BY DEF Init, NoRow
  <2> QED BY <2>2, <2>3, <2>4, QuantityAssumption
<1>2. LedgerTerms \in [Orders -> Ledger!Terms]
  BY <1>1 DEF LedgerTerms, Ledger!Terms, Sides
<1>3. LedgerLeft = [o \in Orders |-> LedgerTerms[o].quantity]
  BY <1>1 DEF LedgerLeft, LedgerTerms, RemainingQuantity
<1>4. LedgerShown = [o \in Orders |-> 0]
  BY <1>1 DEF LedgerShown
<1>5. trades = <<>>
  BY DEF Init
<1> QED BY <1>2, <1>3, <1>4, <1>5 DEF Ledger!LInit

\* A step that changes neither an order, a row, a trade nor what is pending is
\* a stuttering step of the ledger.
LEMMA LedgerStutter ==
  ASSUME UNCHANGED <<order, repo, trades>>,
         \A o \in Orders : Pending(o)' = Pending(o)
  PROVE  UNCHANGED Ledger!lvars
<1>1. LedgerTerms' = LedgerTerms
  BY DEF LedgerTerms
<1>2. LedgerLeft' = LedgerLeft
  BY DEF LedgerLeft
<1>3. LedgerShown' = LedgerShown
  BY DEF LedgerShown
<1> QED BY <1>1, <1>2, <1>3 DEF Ledger!lvars

\* What is pending is a natural number, and none of it outside a trade.
LEMMA PendingFacts ==
  ASSUME IInv, NEW o
  PROVE  Pending(o) \in Nat /\ (mpc \notin {"fillBuy", "fillSell"} => Pending(o) = 0)
<1>1. CASE mpc \in {"fillBuy", "fillSell"}
  <2>1. mpc \in TradeSteps
    BY <1>1 DEF TradeSteps
  <2> QED BY <1>1, <2>1, TradeParties DEF Pending
<1>2. CASE mpc \notin {"fillBuy", "fillSell"}
  BY <1>2 DEF Pending
<1> QED BY <1>1, <1>2

\* Writing an order's present state to its row shows no more than was traded.
LEMMA LedgerShow ==
  ASSUME IInv, NEW o \in Orders,
         repo' = [repo EXCEPT ![o] = Row(order[o])],
         UNCHANGED <<order, trades, mpc, trade>> \/
           (UNCHANGED <<order, trades, trade>> /\ mpc \in TradeSteps \ {"fillBuy", "fillSell"}
              /\ mpc' \in TradeSteps \ {"fillBuy", "fillSell"})
  PROVE  Ledger!Show(o)
<1>1. \A x \in Orders : Pending(x)' = Pending(x)
  BY DEF Pending
<1>2. LedgerTerms' = LedgerTerms /\ LedgerLeft' = LedgerLeft /\ trades' = trades
  BY <1>1 DEF LedgerTerms, LedgerLeft
<1>3. repo \in [Orders -> [status : Statuses \cup {"NONE"}, filled : Nat]]
  BY DEF IInv, TypeOK
<1>4. Row(order[o]).filled = order[o].filled
  BY DEF Row
<1>5. LedgerShown' = [LedgerShown EXCEPT ![o] = order[o].filled]
  BY <1>3, <1>4 DEF LedgerShown
<1>6. /\ order[o].filled \in Nat /\ order[o].quantity \in Nat
      /\ repo[o].filled \in Nat /\ repo[o].filled <= order[o].filled
      /\ Pending(o) \in Nat
  BY <1>3, OrderFacts, PendingFacts DEF IInv, RowInv
<1>7. order[o].filled \in LedgerShown[o]..(LedgerTerms[o].quantity - LedgerLeft[o])
  <2>1. LedgerTerms[o].quantity - LedgerLeft[o] = order[o].filled + Pending(o)
    BY <1>6 DEF LedgerTerms, LedgerLeft, RemainingQuantity
  <2>2. LedgerShown[o] = repo[o].filled
    BY DEF LedgerShown
  <2> QED BY <1>6, <2>1, <2>2
<1> QED BY <1>2, <1>5, <1>7 DEF Ledger!Show

\* A book entry carries its order's limit price.
EntryPrices ==
  \A side \in Sides : \A i \in 1..Len(book[side]) :
    book[side][i].price = order[book[side][i].order].price

\* The end of an iteration keeps the entries' orders and prices, or drops the
\* best entry.
LEMMA SettleKeepsEntries ==
  ASSUME IInv, Settle
  PROVE  \A s \in Sides : \A i \in 1..Len(book'[s]) : \E k \in 1..Len(book[s]) :
           book'[s][i].order = book[s][k].order /\ book'[s][i].price = book[s][k].price
<1> DEFINE best == book[PassiveSide][1]
           rest == best.remaining - trade.qty
<1> SUFFICES ASSUME NEW s \in Sides, NEW i \in 1..Len(book'[s])
             PROVE  \E k \in 1..Len(book[s]) :
                      /\ book'[s][i].order = book[s][k].order
                      /\ book'[s][i].price = book[s][k].price
  OBVIOUS
<1>1. mpc \in TradeSteps
  BY DEF Settle, TradeSteps
<1>2. /\ PassiveSide \in Sides /\ book[PassiveSide] \in Seq(EntryRec)
      /\ book[PassiveSide] # <<>> /\ 1 \in 1..Len(book[PassiveSide])
      /\ Head(book[PassiveSide]) = best
  BY <1>1, TradeParties
<1>3. book \in [Sides -> Seq(EntryRec)] /\ book[s] \in Seq(EntryRec)
  BY DEF IInv, TypeOK
<1>4. CASE rest <= 0
  <2>1. book'[s] = RemoveEntry(book[s], best.order)
    BY <1>2, <1>4 DEF Settle
  <2>2. CASE s = PassiveSide
    <3>1. book'[s] = Tail(book[s])
      BY <1>2, <2>1, <2>2, RemoveHeadEntry
    <3>2. Len(Tail(book[s])) = Len(book[s]) - 1 /\ Len(book[s]) \in Nat
      BY <1>2, <2>2
    <3>3. i + 1 \in 1..Len(book[s]) /\ book'[s][i] = book[s][i + 1]
      BY <1>3, <3>1, <3>2
    <3> QED BY <3>3
  <2>3. CASE s # PassiveSide
    <3>1. \A j \in 1..Len(book[s]) : book[s][j].order # best.order
      BY <1>2, <2>3 DEF IInv, BookInv
    <3>2. book'[s] = book[s]
      BY <1>3, <2>1, <3>1, RemoveAbsentEntry
    <3> QED BY <3>2
  <2> QED BY <2>2, <2>3
<1>5. CASE ~(rest <= 0)
  <2>1. book' = [book EXCEPT ![PassiveSide][1].remaining = rest]
    BY <1>2, <1>5 DEF Settle
  <2>2. CASE s = PassiveSide
    <3>1. book'[s] = [book[s] EXCEPT ![1].remaining = rest]
      BY <1>2, <1>3, <2>1, <2>2
    <3>2. Len(book'[s]) = Len(book[s])
      BY <1>3, <3>1
    <3>3. i \in 1..Len(book[s]) /\ book[s][i] \in EntryRec
      BY <1>3, <3>2
    <3>4. \/ book'[s][i] = book[s][i]
          \/ book'[s][i] = [book[s][i] EXCEPT !.remaining = rest]
      BY <1>3, <3>1, <3>3
    <3> QED BY <3>3, <3>4 DEF EntryRec
  <2>3. CASE s # PassiveSide
    <3>1. book'[s] = book[s]
      BY <1>2, <1>3, <2>1, <2>3
    <3> QED BY <3>1
  <2> QED BY <2>2, <2>3
<1> QED BY <1>4, <1>5

\* addOrder adds one entry, with the price of the order it is for.
LEMMA RestAddsEntry ==
  ASSUME IInv, RestOrder
  PROVE  \A s \in Sides : \A i \in 1..Len(book'[s]) :
           \/ \E k \in 1..Len(book[s]) : book'[s][i] = book[s][k]
           \/ book'[s][i].order = cur /\ book'[s][i].price = order[cur].price
<1> DEFINE o == order[cur]
           rests == IsActive(o) /\ RemainingQuantity(o) > 0 /\ cur \notin index
           entry == [order |-> cur, price |-> o.price, remaining |-> RemainingQuantity(o)]
<1> SUFFICES ASSUME NEW s \in Sides, NEW i \in 1..Len(book'[s])
             PROVE  \/ \E k \in 1..Len(book[s]) : book'[s][i] = book[s][k]
                    \/ book'[s][i] = entry
  OBVIOUS
<1>1. /\ rests => book' = [book EXCEPT ![o.side] = AddEntry(o.side, @, entry)]
      /\ ~rests => book' = book
  BY DEF RestOrder
<1>2. cur \in Orders
  BY NoOrderAssumption DEF RestOrder, IInv, QueueInv, TypeOK
<1>3. book \in [Sides -> Seq(EntryRec)] /\ book[s] \in Seq(EntryRec) /\ Len(book[s]) \in Nat
  BY DEF IInv, TypeOK
<1>4. CASE ~(rests /\ s = o.side)
  <2>1. book'[s] = book[s]
    BY <1>1, <1>3, <1>4
  <2> QED BY <2>1
<1>5. CASE rests /\ s = o.side
  <2> DEFINE n == Len(book[s])
             a == Append(book[s], entry)
  <2>1. entry \in EntryRec
    BY <1>2, <1>5, OrderFacts DEF IInv, EntryRec, RemainingQuantity
  <2>2. book'[s] = AddEntry(s, book[s], entry)
    BY <1>1, <1>3, <1>5
  <2>a. SortedPrices(s, book[s])
    BY DEF IInv, BookInv
  <2>3. PICK p \in [1..n + 1 -> 1..n + 1] :
           /\ AddEntry(s, book[s], entry) = [j \in 1..n + 1 |-> a[p[j]]]
           /\ \A j, k \in 1..n + 1 : j < k => ~Better(s, a[p[k]].price, a[p[j]].price)
    <3> HIDE DEF entry
    <3>1. PICK p \in [1..n + 1 -> 1..n + 1] :
            StablyArranges(p, s, book[s], entry, AddEntry(s, book[s], entry))
      BY <1>3, <2>1, <2>a, AddEntryFacts
    <3> QED BY <3>1 DEF StablyArranges
  <2>4. i \in 1..n + 1
    BY <1>3, <2>2, <2>3
  <2>5. book'[s][i] = a[p[i]] /\ p[i] \in 1..n + 1
    BY <2>2, <2>3, <2>4
  <2>6. /\ \A k \in 1..n : a[k] = book[s][k]
        /\ a[n + 1] = entry
    BY <1>3, <2>1, AppendFacts
  <2>7. p[i] \in 1..n \/ p[i] = n + 1
    BY <1>3, <2>5
  <2> QED BY <2>5, <2>6, <2>7
<1> QED BY <1>4, <1>5

\* Every step keeps the entries' prices right: an order's limit price never
\* changes, and only addOrder makes entries.
LEMMA EntryPricesStep ==
  ASSUME IInv, IInv', EntryPrices, [Next]_vars
  PROVE  EntryPrices'
<1>1. \A x \in Orders : order'[x].price = order[x].price
  <2>0. order \in [Orders -> OrderRec]
    BY DEF IInv, TypeOK
  <2>1. CASE FillBuy \/ FillSell
    <3>1. PICK y : order' = [order EXCEPT ![y] = Fill(@, trade.qty)]
      BY <2>1 DEF FillBuy, FillSell, FillOrder
    <3>2. ASSUME NEW x \in Orders PROVE Fill(order[x], trade.qty).price = order[x].price
      <4>1. order[x] \in OrderRec
        BY <2>0
      <4> QED BY <4>1 DEF Fill, OrderRec
    <3> QED BY <2>0, <3>1, <3>2
  <2>2. CASE ~(FillBuy \/ FillSell)
    <3>1. order' = order
      BY <2>2 DEF Next, MatcherStep, CreateOrder, SaveOrder, SubmitOrder, PublishCreated,
                  Receive, SaveTrade, UpdateBuy, UpdateSell, UpdateOrder, UpdateTicker,
                  PublishTrade, PublishBuy, PublishSell, PublishStep, Settle, RestOrder,
                  InitStock, Stop, Terminated, vars
    <3> QED BY <3>1
  <2> QED BY <2>1, <2>2
<1>2. ASSUME NEW s \in Sides, NEW i \in 1..Len(book'[s])
      PROVE  \/ \E k \in 1..Len(book[s]) : /\ book'[s][i].order = book[s][k].order
                                           /\ book'[s][i].price = book[s][k].price
             \/ book'[s][i].price = order[book'[s][i].order].price
  <2>1. CASE Settle
    BY <2>1, SettleKeepsEntries
  <2>2. CASE RestOrder
    BY SMTT(30), <2>2, RestAddsEntry
  <2>3. CASE ~(Settle \/ RestOrder)
    <3>1. book' = book
      BY <2>3 DEF Next, MatcherStep, CreateOrder, SaveOrder, SubmitOrder, PublishCreated,
                  Receive, SaveTrade, FillBuy, FillSell, FillOrder, UpdateBuy, UpdateSell,
                  UpdateOrder, UpdateTicker, PublishTrade, PublishBuy, PublishSell,
                  PublishStep, InitStock, Stop, Terminated, vars, matcherVars
    <3> QED BY <3>1
  <2> QED BY <2>1, <2>2, <2>3
<1>3. ASSUME NEW s \in Sides, NEW i \in 1..Len(book'[s])
      PROVE  book'[s][i].price = order'[book'[s][i].order].price
  <2>1. book'[s][i].order \in Orders
    <3>1. book'[s] \in Seq(EntryRec)
      BY DEF IInv, TypeOK
    <3>2. book'[s][i] \in EntryRec
      BY <3>1
    <3> QED BY <3>2 DEF EntryRec
  <2> QED BY SMTT(30), <1>1, <1>2, <2>1 DEF EntryPrices
<1> QED BY <1>3 DEF EntryPrices

\* tradeRepo.Save makes a trade the ledger allows, or, when it fails, reports
\* such a trade or does nothing.
LEMMA LedgerExecute ==
  ASSUME IInv, EntryPrices, SaveTrade
  PROVE  \/ \E b, s \in Orders : \E p \in Prices, q \in 1..LedgerLeft[b] :
              Ledger!Execute(b, s, p, q) \/ Ledger!Void(b, s, p, q)
         \/ UNCHANGED Ledger!lvars
<1> DEFINE best == book[PassiveSide][1]
           rem == RemainingQuantity(order[cur])
           t == NextTrade
<1>1. /\ mpc = "match" /\ CanTrade /\ trade' = t
      /\ \/ trades' = Append(trades, t) /\ mpc' = "fillBuy"
         \/ "saveTrade" \in Failures /\ trades' = Append(trades, t) /\ mpc' = "settle"
         \/ trades' = trades /\ mpc' = "settle"
      /\ UNCHANGED <<order, repo>>
  BY DEF SaveTrade
<1>2. cur \in Orders
  BY <1>1 DEF IInv, QueueInv, TypeOK
<1>3. PassiveSide \in Sides /\ order[cur].side \in Sides /\ PassiveSide # order[cur].side
  BY <1>2, OrderFacts DEF IInv, PassiveSide, Opposite, Sides
<1>4. /\ book[PassiveSide] \in Seq(EntryRec) /\ Head(book[PassiveSide]) = best
      /\ 1 \in 1..Len(book[PassiveSide])
  BY <1>1, <1>3 DEF CanTrade, IInv, TypeOK
<1>5. best.order \in Orders /\ best.price \in Prices /\ best.remaining \in Nat
  BY <1>3, <1>4, EntryFacts DEF IInv
<1>6. /\ best.remaining > 0 /\ best.order # cur
      /\ order[best.order].side = PassiveSide
      /\ best.price = order[best.order].price
  BY <1>3, <1>4 DEF IInv, BookInv, EntryPrices
<1>7. best.remaining <= RemainingQuantity(order[best.order])
  <2>1. InFlight(best.order) = 0
    BY <1>1 DEF InFlight, TradeSteps
  <2>2. RemainingQuantity(order[best.order]) \in Int
    BY <1>5, OrderFacts DEF IInv, RemainingQuantity
  <2> QED BY <1>3, <1>4, <2>1, <2>2 DEF IInv, EntriesCovered
<1>8. rem \in Int /\ rem > 0
  BY <1>1, <1>2, OrderFacts DEF IInv, CanTrade, RemainingQuantity
<1>9. /\ t.buy = IF order[cur].side = "BUY" THEN cur ELSE best.order
      /\ t.sell = IF order[cur].side = "BUY" THEN best.order ELSE cur
      /\ t.price = best.price
      /\ t.qty \in Int /\ t.qty > 0 /\ t.qty <= rem /\ t.qty <= best.remaining
  BY <1>4, <1>5, <1>6, <1>8 DEF NextTrade
<1>10. t = [buy |-> t.buy, sell |-> t.sell, price |-> t.price, qty |-> t.qty]
  BY DEF NextTrade
<1> HIDE DEF t
<1>11. /\ t.buy \in Orders /\ t.sell \in Orders /\ t.buy # t.sell /\ t.price \in Prices
       /\ order[t.buy].side = "BUY" /\ order[t.sell].side = "SELL"
  BY <1>2, <1>3, <1>5, <1>6, <1>9 DEF Sides
<1>12. \A x \in Orders : Pending(x) = 0
  BY <1>1 DEF Pending
<1>13. \A x \in Orders : LedgerLeft[x] = RemainingQuantity(order[x])
  BY <1>12, OrderFacts DEF IInv, LedgerLeft, RemainingQuantity
<1>14. t.qty <= LedgerLeft[t.buy] /\ t.qty <= LedgerLeft[t.sell]
  <2>1. \A x \in Orders : RemainingQuantity(order[x]) \in Int
    BY OrderFacts DEF IInv, RemainingQuantity
  <2> QED BY <1>2, <1>5, <1>7, <1>9, <1>13, <2>1
<1>15. order[t.sell].price <= t.price /\ t.price <= order[t.buy].price
  <2>1. Overlaps(order[cur].side, order[cur].price, best.price)
    BY <1>1, <1>4 DEF CanTrade
  <2>2. order[cur].price \in Nat /\ best.price \in Nat
    BY <1>2, <1>5, OrderFacts, PriceAssumption DEF IInv
  <2> QED BY <1>3, <1>6, <1>9, <2>1, <2>2 DEF Overlaps, Sides
<1>16. t.price \in {order[t.buy].price, order[t.sell].price}
  BY <1>6, <1>9
<1>17. /\ LedgerTerms' = LedgerTerms /\ LedgerShown' = LedgerShown
       /\ Ledger!Deal(t.buy, t.sell, t.price, t.qty)
       /\ t.qty \in 1..LedgerLeft[t.buy]
  <2>1. LedgerTerms' = LedgerTerms /\ LedgerShown' = LedgerShown
    BY <1>1 DEF LedgerTerms, LedgerShown
  <2>2. /\ LedgerTerms[t.buy].side = "BUY" /\ LedgerTerms[t.sell].side = "SELL"
        /\ LedgerTerms[t.buy].price = order[t.buy].price
        /\ LedgerTerms[t.sell].price = order[t.sell].price
    BY <1>11 DEF LedgerTerms
  <2>3. Ledger!Deal(t.buy, t.sell, t.price, t.qty)
    BY <1>9, <1>14, <1>15, <1>16, <2>2 DEF Ledger!Deal
  <2>4. t.qty \in 1..LedgerLeft[t.buy]
    BY <1>9, <1>11, <1>13, <1>14, OrderFacts DEF IInv, RemainingQuantity
  <2> QED BY <2>1, <2>3, <2>4
<1>18. CASE trades' = Append(trades, t) /\ mpc' = "fillBuy"
  <2>1. \A x \in Orders : Pending(x)' = IF x \in {t.buy, t.sell} THEN t.qty ELSE 0
    BY <1>1, <1>18 DEF Pending
  <2>2. LedgerLeft' = [LedgerLeft EXCEPT ![t.buy] = @ - t.qty, ![t.sell] = @ - t.qty]
    <3>1. ASSUME NEW x \in Orders
          PROVE  LedgerLeft'[x] = [LedgerLeft EXCEPT ![t.buy] = @ - t.qty, ![t.sell] = @ - t.qty][x]
      <4>1. /\ LedgerLeft'[x] = RemainingQuantity(order[x]) - Pending(x)'
            /\ LedgerLeft[x] = RemainingQuantity(order[x])
            /\ RemainingQuantity(order[x]) \in Int
            /\ LedgerLeft = [y \in Orders |-> RemainingQuantity(order[y]) - Pending(y)]
        BY <1>1, <1>13, OrderFacts DEF IInv, LedgerLeft, RemainingQuantity
      <4> QED BY <1>9, <1>11, <2>1, <4>1
    <3>2. DOMAIN LedgerLeft' = Orders /\ DOMAIN LedgerLeft = Orders
      BY DEF LedgerLeft
    <3>3. LedgerLeft' = [x \in Orders |-> LedgerLeft'[x]]
      BY DEF LedgerLeft
    <3> QED BY <3>1, <3>2, <3>3
  <2>3. Ledger!Report(t.buy, t.sell, t.price, t.qty)
    BY <1>10, <1>18 DEF Ledger!Report
  <2>4. Ledger!Execute(t.buy, t.sell, t.price, t.qty)
    BY <1>17, <2>2, <2>3 DEF Ledger!Execute
  <2> QED BY <1>11, <1>17, <2>4
<1>19. CASE "saveTrade" \in Failures /\ trades' = Append(trades, t) /\ mpc' = "settle"
  <2>1. \A x \in Orders : Pending(x)' = Pending(x)
    BY <1>12, <1>19 DEF Pending
  <2>2. LedgerLeft' = LedgerLeft
    BY <1>1, <2>1 DEF LedgerLeft
  <2>3. Ledger!Report(t.buy, t.sell, t.price, t.qty)
    BY <1>10, <1>19 DEF Ledger!Report
  <2>4. Ledger!Void(t.buy, t.sell, t.price, t.qty)
    BY <1>17, <1>19, <2>2, <2>3 DEF Ledger!Void
  <2> QED BY <1>11, <1>17, <2>4
<1>20. CASE trades' = trades /\ mpc' = "settle"
  <2>1. \A x \in Orders : Pending(x)' = Pending(x)
    BY <1>12, <1>20 DEF Pending
  <2> QED BY <1>1, <1>20, <2>1, LedgerStutter
<1> QED BY <1>1, <1>18, <1>19, <1>20

\* A fill moves the traded quantity from pending to filled: what an order has
\* left does not change.
LEMMA LedgerFill ==
  ASSUME IInv, FillBuy \/ FillSell
  PROVE  UNCHANGED Ledger!lvars
<1> DEFINE o == IF mpc = "fillBuy" THEN trade.buy ELSE trade.sell
<1>1. /\ mpc \in {"fillBuy", "fillSell"}
      /\ mpc' = IF mpc = "fillBuy" THEN "fillSell" ELSE "updateBuy"
      /\ order' = [order EXCEPT ![o] = Fill(@, trade.qty)]
      /\ UNCHANGED <<repo, trades, trade>>
  BY DEF FillBuy, FillSell, FillOrder
<1>2. /\ trade.buy \in Orders /\ trade.sell \in Orders /\ trade.buy # trade.sell
      /\ trade.qty \in Nat
  BY <1>1, TradeParties DEF TradeSteps
<1>3. order \in [Orders -> OrderRec] /\ o \in Orders
  BY <1>2 DEF IInv, TypeOK
<1>4. ASSUME NEW x \in Orders
      PROVE  /\ order'[x].side = order[x].side /\ order'[x].price = order[x].price
             /\ order'[x].quantity = order[x].quantity
             /\ RemainingQuantity(order'[x]) - Pending(x)' = RemainingQuantity(order[x]) - Pending(x)
  <2>0. order[x] \in OrderRec /\ order[x].quantity \in Nat /\ order[x].filled \in Nat
    BY OrderFacts DEF IInv
  <2>1. CASE x = o
    <3>1. order'[x] = Fill(order[x], trade.qty)
      BY <1>1, <1>3, <2>1
    <3>2. /\ order'[x].side = order[x].side /\ order'[x].price = order[x].price
          /\ order'[x].quantity = order[x].quantity
          /\ order'[x].filled = order[x].filled + trade.qty
      BY <2>0, <3>1 DEF Fill, OrderRec
    <3>3. Pending(x) = trade.qty /\ Pending(x)' = 0
      BY <1>1, <1>2, <2>1 DEF Pending
    <3> QED BY <1>2, <2>0, <3>2, <3>3 DEF RemainingQuantity
  <2>2. CASE x # o
    <3>1. order'[x] = order[x]
      BY <1>1, <1>3, <2>2
    <3>2. Pending(x)' = Pending(x)
      BY <1>1, <1>2, <2>2 DEF Pending
    <3> QED BY <3>1, <3>2
  <2> QED BY <2>1, <2>2
<1>5. LedgerTerms' = LedgerTerms
  BY <1>4 DEF LedgerTerms
<1>6. LedgerLeft' = LedgerLeft
  BY <1>4 DEF LedgerLeft
<1>7. LedgerShown' = LedgerShown
  BY <1>1 DEF LedgerShown
<1> QED BY <1>1, <1>5, <1>6, <1>7 DEF Ledger!lvars

\* Every step of the engine, the handlers, main and the feed is a step of the
\* ledger or leaves it alone.
LEMMA LedgerStep ==
  ASSUME IInv, EntryPrices, [Next]_vars
  PROVE  [Ledger!LNext]_(Ledger!lvars)
<1>1. CASE SaveTrade
  BY <1>1, LedgerExecute DEF Ledger!LNext
<1>2. CASE FillBuy \/ FillSell
  BY <1>2, LedgerFill
<1>3. ASSUME NEW o \in Orders, SaveOrder(o) PROVE [Ledger!LNext]_(Ledger!lvars)
  <2>1. UNCHANGED <<order, trades, mpc, trade>>
    BY <1>3 DEF SaveOrder, matcherVars
  <2>2. CASE repo' = [repo EXCEPT ![o] = Row(order[o])]
    BY <2>1, <2>2, LedgerShow DEF Ledger!LNext
  <2>3. CASE repo' = repo
    <3>1. \A x \in Orders : Pending(x)' = Pending(x)
      BY <2>1 DEF Pending
    <3> QED BY <2>1, <2>3, <3>1, LedgerStutter
  <2> QED BY <1>3, <2>2, <2>3 DEF SaveOrder
<1>4. CASE UpdateBuy \/ UpdateSell
  <2>1. PICK o \in {trade.buy, trade.sell} : UpdateOrder(o)
    BY <1>4 DEF UpdateBuy, UpdateSell
  <2>2. /\ mpc \in TradeSteps \ {"fillBuy", "fillSell"}
        /\ mpc' \in TradeSteps \ {"fillBuy", "fillSell"}
    BY <1>4 DEF UpdateBuy, UpdateSell, TradeSteps
  <2>3. o \in Orders /\ UNCHANGED <<order, trades, trade>>
    BY <2>1, <2>2, TradeParties DEF UpdateOrder
  <2>4. CASE repo' = [repo EXCEPT ![o] = Row(order[o])]
    BY <2>2, <2>3, <2>4, LedgerShow DEF Ledger!LNext
  <2>5. CASE repo' = repo
    <3>1. \A x \in Orders : Pending(x)' = Pending(x)
      BY <2>2, <2>3 DEF Pending
    <3> QED BY <2>3, <2>5, <3>1, LedgerStutter
  <2> QED BY <2>1, <2>4, <2>5 DEF UpdateOrder
<1>5. CASE Receive \/ Settle \/ RestOrder
  <2>1. UNCHANGED <<order, repo, trades>>
    BY <1>5 DEF Receive, Settle, RestOrder
  <2>2. mpc \notin {"fillBuy", "fillSell"} /\ mpc' \notin {"fillBuy", "fillSell"}
    BY <1>5 DEF Receive, Settle, RestOrder
  <2>3. \A x \in Orders : Pending(x)' = Pending(x)
    BY <2>2 DEF Pending
  <2> QED BY <2>1, <2>3, LedgerStutter
<1>6. CASE UpdateTicker \/ PublishTrade \/ PublishBuy \/ PublishSell
  <2>1. UNCHANGED <<order, repo, trades>>
    BY <1>6 DEF UpdateTicker, PublishTrade, PublishBuy, PublishSell, PublishStep
  <2>2. mpc \notin {"fillBuy", "fillSell"} /\ mpc' \notin {"fillBuy", "fillSell"}
    BY <1>6 DEF UpdateTicker, PublishTrade, PublishBuy, PublishSell, PublishStep
  <2>3. \A x \in Orders : Pending(x)' = Pending(x)
    BY <2>2 DEF Pending
  <2> QED BY <2>1, <2>3, LedgerStutter
<1>7. CASE \/ \E o \in Orders : SubmitOrder(o) \/ PublishCreated(o)
           \/ InitStock \/ Stop \/ Terminated \/ UNCHANGED vars
  <2>1. UNCHANGED <<order, repo, trades, mpc, trade>>
    BY <1>7 DEF SubmitOrder, PublishCreated, InitStock, Stop, Terminated, vars, matcherVars
  <2>2. \A x \in Orders : Pending(x)' = Pending(x)
    BY <2>1 DEF Pending
  <2> QED BY <2>1, <2>2, LedgerStutter
<1> QED BY <1>1, <1>2, <1>3, <1>4, <1>5, <1>6, <1>7 DEF Next, MatcherStep, CreateOrder

\* The matching engine with its concurrent handlers implements the ledger,
\* whichever storage calls fail and whether or not a failed one was committed:
\* executeTrade never makes or reports a trade outside the limits or beyond the
\* quantity of either order, no trade is undone, no stored row shows a fill that
\* no saved trade accounts for, and unless tradeRepo.Save can fail every stored
\* trade is paid for by both orders.
THEOREM MatcherImplementsLedger == Spec => ImplementsLedger
<1>1. Init => EntryPrices
  BY DEF Init, EntryPrices
<1>2. IInv /\ IInv' /\ EntryPrices /\ [Next]_vars => EntryPrices'
  BY EntryPricesStep
<1>3. IInv /\ EntryPrices /\ [Next]_vars => [Ledger!LNext]_(Ledger!lvars)
  BY LedgerStep
<1> QED
  BY <1>1, <1>2, <1>3, LedgerInit, Invariance, PTL DEF Spec, ImplementsLedger, Ledger!LSpec

=============================================================================
