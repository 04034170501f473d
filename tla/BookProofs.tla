----------------------------- MODULE BookProofs -----------------------------
(***************************************************************************)
(* What the order book promises between and during orders: it is exactly   *)
(* the set of processed orders with something left, it is never crossed, a *)
(* trade takes the order that price-time priority puts first, and the      *)
(* depth stored for readers is that of the resting orders.  Also that the  *)
(* stored rows catch up with the orders.                                   *)
(*                                                                         *)
(* All but the last need tradeRepo.Save to succeed ("saveTrade" not in     *)
(* Failures): a trade that is not stored still empties the resting entry,  *)
(* and the order then has a remainder that rests nowhere.  The last needs  *)
(* orderRepo.Update to succeed.                                            *)
(***************************************************************************)
EXTENDS MatcherProofs

\* How many orders the matcher has received.
Received == Len(accepted) - Len(ch)

\* The channel is the end of the arrival order that has not been received,
\* the current order is the last one received, and nothing arrives twice.
ArrivalInv ==
  /\ Len(ch) <= Len(accepted)
  /\ \A k \in 1..Len(ch) : ch[k] = accepted[Received + k]
  /\ \A i \in 1..Len(accepted) : phase[accepted[i]] \in Taken
  /\ \A i, j \in 1..Len(accepted) : accepted[i] = accepted[j] => i = j
  /\ cur # NoOrder => Received > 0 /\ cur = accepted[Received]
  /\ mpc \in {"idle", "stopped"} => cur = NoOrder

\* The entries b are all of orders among the first m of the arrival order acc.
Among(b, acc, m) ==
  \A i \in 1..Len(b) : \E k \in 1..m : acc[k] = b[i].order

\* Entries of b at one price stand in the order of arrival.
Fifo(b, acc) ==
  \A i, j \in 1..Len(b) : \A k, l \in 1..Len(acc) :
    /\ i < j
    /\ b[i].price = b[j].price
    /\ acc[k] = b[i].order
    /\ acc[l] = b[j].order
    => k < l

\* A book entry is of an order that was received, and entries at one price
\* stand in the order of arrival.
TimeOrder ==
  \A side \in Sides : Among(book[side], accepted, Received) /\ Fifo(book[side], accepted)

\* The duplicate guard's index names no order without an entry.
IndexInv ==
  \A o \in index : \E side \in Sides : \E i \in 1..Len(book[side]) : book[side][i].order = o

\* No bid in the book reaches an ask in the book, not even while an incoming
\* order trades.
Uncrossed ==
  \A i \in 1..Len(book["BUY"]), j \in 1..Len(book["SELL"]) :
    book["BUY"][i].price < book["SELL"][j].price

\* The part that holds whatever storage calls fail.
BookShape == ArrivalInv /\ TimeOrder /\ IndexInv /\ Uncrossed

\* An entry's quantity is its order's remainder, but for the trade in
\* progress: with no failing tradeRepo.Save, EntriesCovered is an equation.
EntriesExact ==
  \A side \in Sides : \A i \in 1..Len(book[side]) :
    book[side][i].remaining
      = RemainingQuantity(order[book[side][i].order]) + InFlight(book[side][i].order)

\* Every order received before the current one that has something left has an
\* entry on its side of the book.
AllRest ==
  \A k \in 1..Received :
    accepted[k] # cur /\ RemainingQuantity(order[accepted[k]]) > 0
      => \E i \in 1..Len(book[order[accepted[k]].side]) :
           book[order[accepted[k]].side][i].order = accepted[k]

\* A stored row differs from its order only while the trade that filled the
\* order has not reached orderRepo.Update.
RowsCurrent ==
  \A o \in Orders :
    \/ repo[o].status = "NONE"
    \/ repo[o] = Row(order[o])
    \/ o = trade.buy /\ mpc \in {"fillSell", "updateBuy"}
    \/ o = trade.sell /\ mpc \in {"updateBuy", "updateSell"}

-----------------------------------------------------------------------------
\* The end of an iteration touches the best opposite entry only: the entry
\* goes when the whole of it was traded, and keeps its place otherwise.
LEMMA SettleEffect ==
  ASSUME IInv, Settle
  PROVE  LET best == book[PassiveSide][1]
             n == Len(book[PassiveSide])
         IN  /\ \A s \in Sides : s # PassiveSide => book'[s] = book[s]
             /\ \/ /\ best.remaining = trade.qty
                   /\ index' = index \ {best.order}
                   /\ Len(book'[PassiveSide]) = n - 1
                   /\ \A i \in 1..n - 1 : book'[PassiveSide][i] = book[PassiveSide][i + 1]
                \/ /\ best.remaining > trade.qty
                   /\ index' = index
                   /\ Len(book'[PassiveSide]) = n
                   /\ book'[PassiveSide][1].order = best.order
                   /\ book'[PassiveSide][1].price = best.price
                   /\ book'[PassiveSide][1].remaining = best.remaining - trade.qty
                   /\ \A i \in 2..n : book'[PassiveSide][i] = book[PassiveSide][i]
<1> DEFINE P == PassiveSide
           best == book[P][1]
           rest == best.remaining - trade.qty
           n == Len(book[P])
<1>1. mpc \in TradeSteps
  BY DEF Settle, TradeSteps
<1>2. /\ P \in Sides /\ book[P] \in Seq(EntryRec) /\ n \in Nat \ {0}
      /\ best \in EntryRec /\ trade.qty \in Nat
  BY <1>1, TradeParties
<1>3. Head(book[P]) = best /\ book[P] # <<>> /\ 1 \in 1..n
  BY <1>2
<1>4. best.remaining \in Nat /\ trade.qty <= best.remaining
  BY <1>1, <1>2 DEF IInv, TradeInv, EntryRec
<1>5. book \in [Sides -> Seq(EntryRec)]
  BY DEF IInv, TypeOK
<1>6. CASE rest <= 0
  <2>1. \A s \in Sides : book'[s] = RemoveEntry(book[s], best.order)
    BY <1>3, <1>6 DEF Settle
  <2>2. index' = index \ {best.order}
    BY <1>3, <1>6 DEF Settle
  <2>3. book'[P] = Tail(book[P])
    BY <1>2, <1>3, <2>1, RemoveHeadEntry
  <2>4. ASSUME NEW s \in Sides, s # P PROVE book'[s] = book[s]
    <3>1. \A j \in 1..Len(book[s]) : book[s][j].order # best.order
      BY <1>2, <1>3, <2>4 DEF IInv, BookInv
    <3> QED BY <1>5, <2>1, <3>1, RemoveAbsentEntry
  <2>5. best.remaining = trade.qty
    BY <1>2, <1>4, <1>6
  <2>6. Len(book'[P]) = n - 1 /\ \A i \in 1..n - 1 : book'[P][i] = book[P][i + 1]
    BY <1>2, <2>3
  <2> QED BY <2>2, <2>4, <2>5, <2>6
<1>7. CASE ~(rest <= 0)
  <2>1. book' = [book EXCEPT ![P][1].remaining = rest] /\ index' = index
    BY <1>3, <1>7 DEF Settle
  <2>2. book'[P] = [book[P] EXCEPT ![1].remaining = rest]
    BY <1>2, <1>5, <2>1
  <2>3. \A s \in Sides : s # P => book'[s] = book[s]
    BY <1>5, <2>1
  <2>4. /\ Len(book'[P]) = n /\ book'[P][1] = [best EXCEPT !.remaining = rest]
        /\ \A i \in 2..n : book'[P][i] = book[P][i]
    BY <1>2, <1>3, <2>2
  <2>5. /\ book'[P][1].order = best.order /\ book'[P][1].price = best.price
        /\ book'[P][1].remaining = rest
    BY <1>2, <2>4 DEF EntryRec
  <2>6. best.remaining > trade.qty
    BY <1>2, <1>4, <1>7
  <2> QED BY <2>1, <2>3, <2>4, <2>5, <2>6
<1> QED BY <1>6, <1>7

\* After the loop the remainder of the current order, if any, gets an entry:
\* the side is rearranged by p, sorted by price and then by place, the new
\* entry counting as the last.
Rests == IsActive(order[cur]) /\ RemainingQuantity(order[cur]) > 0 /\ cur \notin index

NewEntry == [order |-> cur, price |-> order[cur].price,
             remaining |-> RemainingQuantity(order[cur])]

LEMMA RestEffect ==
  ASSUME IInv, RestOrder
  PROVE  LET side == order[cur].side
             n == Len(book[side])
         IN  /\ side \in Sides /\ n \in Nat
             /\ \A s \in Sides : s # side => book'[s] = book[s]
             /\ ~Rests => book'[side] = book[side] /\ index' = index
             /\ Rests => index' = index \cup {cur}
             /\ Rests => \E p \in [1..n + 1 -> 1..n + 1] :
                  /\ Len(book'[side]) = n + 1
                  /\ \A k \in 1..n + 1 : \E i \in 1..n + 1 : p[i] = k
                  /\ \A i \in 1..n + 1 :
                       \/ p[i] \in 1..n /\ book'[side][i] = book[side][p[i]]
                       \/ p[i] = n + 1 /\ book'[side][i] = NewEntry
                  /\ \A i, j \in 1..n + 1 :
                       i < j /\ book'[side][i].price = book'[side][j].price => p[i] < p[j]
<1> DEFINE side == order[cur].side
           n == Len(book[side])
           N == 1..n + 1
           a == Append(book[side], NewEntry)
<1>1. mpc = "match" /\ cur \in Orders
  BY DEF RestOrder, IInv, QueueInv, TypeOK
<1>2. /\ side \in Sides /\ order[cur].price \in Prices
      /\ RemainingQuantity(order[cur]) \in Int
  BY <1>1, OrderFacts DEF IInv, RemainingQuantity
<1>3. book \in [Sides -> Seq(EntryRec)] /\ book[side] \in Seq(EntryRec) /\ n \in Nat
  BY <1>2 DEF IInv, TypeOK
<1>4. /\ ~Rests => book' = book /\ index' = index
      /\ Rests => /\ book' = [book EXCEPT ![side] = AddEntry(side, @, NewEntry)]
                  /\ index' = index \cup {cur}
  BY DEF RestOrder, Rests, NewEntry
<1>5. \A s \in Sides : s # side => book'[s] = book[s]
  BY <1>2, <1>3, <1>4
<1>6. ASSUME Rests
      PROVE  \E p \in [N -> N] :
               /\ Len(book'[side]) = n + 1
               /\ \A k \in N : \E i \in N : p[i] = k
               /\ \A i \in N : \/ p[i] \in 1..n /\ book'[side][i] = book[side][p[i]]
                               \/ p[i] = n + 1 /\ book'[side][i] = NewEntry
               /\ \A i, j \in N :
                    i < j /\ book'[side][i].price = book'[side][j].price => p[i] < p[j]
  <2>1. NewEntry \in EntryRec
    BY <1>1, <1>2, <1>6 DEF NewEntry, EntryRec, Rests
  <2>2. SortedPrices(side, book[side])
    BY <1>2 DEF IInv, BookInv
  <2>3. book'[side] = AddEntry(side, book[side], NewEntry)
    BY <1>2, <1>3, <1>4, <1>6
  <2>a. PICK p \in [N -> N] :
          StablyArranges(p, side, book[side], NewEntry, AddEntry(side, book[side], NewEntry))
    BY <1>2, <1>3, <2>1, <2>2, AddEntryFacts
  <2>4. /\ \A k \in N : \E i \in N : p[i] = k
        /\ AddEntry(side, book[side], NewEntry) = [i \in N |-> a[p[i]]]
        /\ \A i, j \in N : i < j /\ a[p[i]].price = a[p[j]].price => p[i] < p[j]
    BY <2>a DEF StablyArranges
  <2>5. /\ \A k \in 1..n : a[k] = book[side][k]
        /\ a[n + 1] = NewEntry
        /\ \A k \in N : k \in 1..n \/ k = n + 1
    BY <1>3, <2>1, AppendFacts
  <2> HIDE DEF a
  <2>6. book'[side] = [i \in N |-> a[p[i]]] /\ Len(book'[side]) = n + 1
    BY <1>3, <2>3, <2>4
  <2>7. \A i \in N : book'[side][i] = a[p[i]] /\ p[i] \in N
    BY <2>4, <2>6
  <2>8. \A i \in N : \/ p[i] \in 1..n /\ book'[side][i] = book[side][p[i]]
                     \/ p[i] = n + 1 /\ book'[side][i] = NewEntry
    BY <2>5, <2>7
  <2>9. \A i, j \in N :
          i < j /\ book'[side][i].price = book'[side][j].price => p[i] < p[j]
    BY <2>4, <2>7
  <2> QED BY <2>4, <2>6, <2>8, <2>9
<1> QED BY <1>2, <1>3, <1>4, <1>5, <1>6

-----------------------------------------------------------------------------
\* The steps, by what they touch of the queue and the book: a handler's, the
\* receive, the start of a trade, a fill, the rest of executeTrade, the end of
\* an iteration, the end of an order, and the steps of main and the feed.
LEMMA StepKinds ==
  ASSUME [Next]_vars
  PROVE  \/ \E o \in Orders : SaveOrder(o) \/ SubmitOrder(o) \/ PublishCreated(o)
         \/ Receive
         \/ SaveTrade
         \/ FillBuy
         \/ FillSell
         \/ UpdateBuy
         \/ UpdateSell
         \/ /\ mpc \in TradeSteps \ {"fillBuy", "fillSell", "updateBuy", "updateSell"}
            /\ mpc' \in TradeSteps \ {"fillBuy", "fillSell", "updateBuy", "updateSell"}
            /\ UNCHANGED <<order, repo, trades, ch, phase, accepted, cur, trade, book, index>>
         \/ Settle
         \/ RestOrder
         \/ UNCHANGED <<order, repo, trades, ch, phase, accepted, mpc, cur, trade, book, index>>
<1>1. CASE UpdateTicker \/ PublishTrade \/ PublishBuy \/ PublishSell
  <2>1. /\ mpc \in TradeSteps \ {"fillBuy", "fillSell", "updateBuy", "updateSell"}
        /\ mpc' \in TradeSteps \ {"fillBuy", "fillSell", "updateBuy", "updateSell"}
    BY <1>1 DEF UpdateTicker, PublishTrade, PublishBuy, PublishSell, PublishStep, TradeSteps
  <2>2. UNCHANGED <<order, repo, trades, ch, phase, accepted, cur, trade, book, index>>
    BY <1>1 DEF UpdateTicker, PublishTrade, PublishBuy, PublishSell, PublishStep, handlerVars
  <2> QED BY <2>1, <2>2
<1>2. CASE InitStock \/ Stop \/ Terminated \/ UNCHANGED vars
  <2>1. UNCHANGED <<order, repo, trades, ch, phase, accepted, mpc, cur, trade, book, index>>
    BY <1>2 DEF InitStock, Stop, Terminated, vars, handlerVars, matcherVars
  <2> QED BY <2>1
<1> QED BY <1>1, <1>2 DEF Next, MatcherStep, CreateOrder

\* In a trade step after SaveTrade, what the step leaves alone.
LEMMA TradeStepFrame ==
  ASSUME \/ SaveTrade \/ FillBuy \/ FillSell \/ UpdateBuy \/ UpdateSell
         \/ /\ mpc \in TradeSteps \ {"fillBuy", "fillSell", "updateBuy", "updateSell"}
            /\ mpc' \in TradeSteps \ {"fillBuy", "fillSell", "updateBuy", "updateSell"}
            /\ UNCHANGED <<order, repo, trades, ch, phase, accepted, cur, trade, book, index>>
  PROVE  /\ UNCHANGED <<ch, phase, accepted, cur, book, index>>
         /\ mpc' \in TradeSteps
<1>1. CASE SaveTrade
  BY <1>1 DEF SaveTrade, TradeSteps, handlerVars
<1>2. CASE FillBuy \/ FillSell
  BY <1>2 DEF FillBuy, FillSell, FillOrder, TradeSteps, handlerVars
<1>3. CASE UpdateBuy \/ UpdateSell
  BY <1>3 DEF UpdateBuy, UpdateSell, UpdateOrder, TradeSteps, handlerVars
<1> QED BY <1>1, <1>2, <1>3

\* No step changes an order's side or limit, or gives it back quantity.
LEMMA OrdersFillUp ==
  ASSUME IInv, [Next]_vars, NEW o \in Orders
  PROVE  /\ order'[o].side = order[o].side
         /\ order'[o].price = order[o].price
         /\ RemainingQuantity(order'[o]) <= RemainingQuantity(order[o])
<1>1. order \in [Orders -> OrderRec] /\ order[o] \in OrderRec
  BY DEF IInv, TypeOK
<1>2. RemainingQuantity(order[o]) \in Int
  BY OrderFacts DEF IInv, RemainingQuantity
<1>3. CASE FillBuy \/ FillSell
  <2>1. PICK y : order' = [order EXCEPT ![y] = Fill(@, trade.qty)]
    BY <1>3 DEF FillBuy, FillSell, FillOrder
  <2>2. trade.qty \in Nat
    BY <1>3, TradeParties DEF FillBuy, FillSell, TradeSteps
  <2>3. order'[o] = order[o] \/ order'[o] = Fill(order[o], trade.qty)
    BY <1>1, <2>1
  <2>4. /\ Fill(order[o], trade.qty).side = order[o].side
        /\ Fill(order[o], trade.qty).price = order[o].price
        /\ Fill(order[o], trade.qty).quantity = order[o].quantity
        /\ Fill(order[o], trade.qty).filled = order[o].filled + trade.qty
    BY <1>1 DEF Fill, OrderRec
  <2>5. RemainingQuantity(Fill(order[o], trade.qty)) <= RemainingQuantity(order[o])
    BY <2>2, <2>4, OrderFacts DEF IInv, RemainingQuantity
  <2> QED BY <1>2, <2>3, <2>4, <2>5
<1>4. CASE ~(FillBuy \/ FillSell)
  <2>1. order' = order
    BY <1>4 DEF Next, MatcherStep, CreateOrder, SaveOrder, SubmitOrder, PublishCreated,
                Receive, SaveTrade, UpdateBuy, UpdateSell, UpdateOrder, UpdateTicker,
                PublishTrade, PublishBuy, PublishSell, PublishStep, Settle, RestOrder,
                InitStock, Stop, Terminated, vars
  <2> QED BY <1>2, <2>1
<1> QED BY <1>3, <1>4

-----------------------------------------------------------------------------
\* The lengths the arrival order and the channel are measured by.
LEMMA ReceivedFacts ==
  ASSUME TypeOK, ArrivalInv
  PROVE  /\ accepted \in Seq(Orders) /\ ch \in Seq(Orders)
         /\ Len(accepted) \in Nat /\ Len(ch) \in Nat
         /\ Received \in Nat /\ Received <= Len(accepted)
         /\ 1..Received \subseteq 1..Len(accepted)
         /\ \A k \in 1..Len(accepted) : accepted[k] \in Orders
         /\ \A k \in Received + 1..Len(accepted) :
              k - Received \in 1..Len(ch) /\ accepted[k] = ch[k - Received]
<1>1. /\ accepted \in Seq(Orders) /\ ch \in Seq(Orders)
      /\ Len(accepted) \in Nat /\ Len(ch) \in Nat
  BY DEF TypeOK
<1>2. Received \in Nat /\ Received <= Len(accepted)
  BY <1>1 DEF Received, ArrivalInv
<1>3. ASSUME NEW k \in Received + 1..Len(accepted)
      PROVE  k - Received \in 1..Len(ch) /\ accepted[k] = ch[k - Received]
  <2>1. k - Received \in 1..Len(ch)
    BY <1>1, <1>2 DEF Received
  <2>2. Received + (k - Received) = k
    BY <1>2
  <2> QED BY <2>1, <2>2 DEF ArrivalInv
<1> QED BY <1>1, <1>2, <1>3

\* SubmitOrder: an order that was not in the arrival order joins its end.
LEMMA SubmitArrival ==
  ASSUME IInv, ArrivalInv, NEW o \in Orders, SubmitOrder(o)
  PROVE  /\ Received' = Received
         /\ \A i \in 1..Len(accepted) : accepted[i] # o /\ accepted'[i] = accepted[i]
         /\ \/ accepted' = accepted /\ ch' = ch
            \/ /\ Len(accepted') = Len(accepted) + 1 /\ accepted'[Len(accepted) + 1] = o
               /\ Len(ch') = Len(ch) + 1 /\ ch'[Len(ch) + 1] = o
               /\ \A i \in 1..Len(ch) : ch'[i] = ch[i]
               /\ phase'[o] \in Taken
<1>1. phase[o] = "saved" /\ phase \in [Orders -> Phases]
  BY DEF SubmitOrder, IInv, TypeOK
<1>2. accepted \in Seq(Orders) /\ ch \in Seq(Orders)
  BY DEF IInv, TypeOK
<1>3. \A i \in 1..Len(accepted) : accepted[i] # o
  BY <1>1 DEF ArrivalInv, Taken
<1>4. CASE accepted' = accepted /\ ch' = ch
  BY <1>3, <1>4 DEF Received
<1>5. CASE /\ accepted' = Append(accepted, o) /\ ch' = Append(ch, o)
           /\ phase' = [phase EXCEPT ![o] = "submitted"]
  <2>1. /\ Len(accepted') = Len(accepted) + 1 /\ accepted'[Len(accepted) + 1] = o
        /\ Len(ch') = Len(ch) + 1 /\ ch'[Len(ch) + 1] = o
        /\ \A i \in 1..Len(ch) : ch'[i] = ch[i]
        /\ \A i \in 1..Len(accepted) : accepted'[i] = accepted[i]
    BY <1>2, <1>5
  <2>2. Received' = Received
    BY <1>2, <2>1 DEF Received
  <2>3. phase'[o] \in Taken
    BY <1>1, <1>5 DEF Taken
  <2> QED BY <1>3, <2>1, <2>2, <2>3
<1> QED BY <1>4, <1>5 DEF SubmitOrder

\* Receive: the channel's head is the next order of the arrival order.
LEMMA ReceiveArrival ==
  ASSUME IInv, ArrivalInv, Receive
  PROVE  /\ UNCHANGED <<order, repo, trades, trade, phase, accepted, book, index>>
         /\ mpc = "idle" /\ cur = NoOrder
         /\ \/ UNCHANGED <<ch, cur>> /\ Received' = Received /\ mpc' = "stopped"
            \/ /\ mpc' = "match"
               /\ Received' = Received + 1
               /\ Received' <= Len(accepted)
               /\ cur' = accepted[Received + 1]
               /\ Len(ch') = Len(ch) - 1
               /\ \A k \in 1..Len(ch') : ch'[k] = accepted[Received' + k]
<1>1. /\ UNCHANGED <<order, repo, trades, trade, phase, accepted, book, index>>
      /\ mpc = "idle" /\ cur = NoOrder
  BY DEF Receive, handlerVars, ArrivalInv
<1>2. CASE ch = <<>> /\ mpc' = "stopped" /\ UNCHANGED <<cur, ch>>
  BY <1>1, <1>2 DEF Received
<1>3. CASE ch # <<>> /\ cur' = Head(ch) /\ ch' = Tail(ch) /\ mpc' = "match"
  <2>1. /\ ch \in Seq(Orders) /\ Len(ch) \in Nat \ {0} /\ Len(accepted) \in Nat
        /\ Len(ch') = Len(ch) - 1
        /\ cur' = ch[1]
        /\ \A k \in 1..Len(ch) - 1 : ch'[k] = ch[k + 1]
    BY <1>3 DEF IInv, TypeOK
  <2>2. Received \in Nat /\ Received' = Received + 1 /\ Received' <= Len(accepted)
    BY <1>1, <2>1 DEF Received, ArrivalInv
  <2>3. cur' = accepted[Received + 1]
    BY <2>1 DEF ArrivalInv
  <2>4. ASSUME NEW k \in 1..Len(ch') PROVE ch'[k] = accepted[Received' + k]
    <3>1. k + 1 \in 1..Len(ch) /\ ch'[k] = ch[k + 1]
      BY <2>1
    <3>2. ch[k + 1] = accepted[Received + (k + 1)]
      BY <3>1 DEF ArrivalInv
    <3>3. Received + (k + 1) = Received' + k
      BY <2>2
    <3> QED BY <3>1, <3>2, <3>3
  <2> QED BY <1>1, <1>3, <2>1, <2>2, <2>3, <2>4
<1> QED BY <1>2, <1>3 DEF Receive

\* Every step keeps the channel a suffix of the arrival order.
LEMMA ArrivalStep ==
  ASSUME IInv, ArrivalInv, [Next]_vars
  PROVE  ArrivalInv'
<1>0. /\ accepted \in Seq(Orders) /\ ch \in Seq(Orders)
      /\ Len(accepted) \in Nat /\ Len(ch) \in Nat
      /\ Received \in Nat /\ Received <= Len(accepted)
      /\ \A k \in 1..Len(accepted) : accepted[k] \in Orders
      /\ phase \in [Orders -> Phases]
  BY ReceivedFacts DEF IInv, TypeOK
<1>1. ASSUME NEW o \in Orders, SaveOrder(o) \/ PublishCreated(o) PROVE ArrivalInv'
  <2>1. UNCHANGED <<ch, accepted, mpc, cur>>
    BY <1>1 DEF SaveOrder, PublishCreated, matcherVars
  <2>2. \A x \in Orders : phase[x] \in Taken => phase'[x] \in Taken
    BY <1>0, <1>1 DEF SaveOrder, PublishCreated, Taken
  <2> QED BY <1>0, <2>1, <2>2 DEF ArrivalInv, Received
<1>2. ASSUME NEW o \in Orders, SubmitOrder(o) PROVE ArrivalInv'
  <2>1. /\ Received' = Received
        /\ \A i \in 1..Len(accepted) : accepted[i] # o /\ accepted'[i] = accepted[i]
        /\ \/ accepted' = accepted /\ ch' = ch
           \/ /\ Len(accepted') = Len(accepted) + 1 /\ accepted'[Len(accepted) + 1] = o
              /\ Len(ch') = Len(ch) + 1 /\ ch'[Len(ch) + 1] = o
              /\ \A i \in 1..Len(ch) : ch'[i] = ch[i]
              /\ phase'[o] \in Taken
    BY <1>2, SubmitArrival
  <2>2. UNCHANGED <<mpc, cur>>
    BY <1>2 DEF SubmitOrder, matcherVars
  <2>3. \A x \in Orders : phase[x] \in Taken => phase'[x] \in Taken
    BY <1>0, <1>2 DEF SubmitOrder, Taken
  <2>4. CASE accepted' = accepted /\ ch' = ch
    BY <1>0, <2>2, <2>3, <2>4 DEF ArrivalInv, Received
  <2>5. CASE /\ Len(accepted') = Len(accepted) + 1 /\ accepted'[Len(accepted) + 1] = o
             /\ Len(ch') = Len(ch) + 1 /\ ch'[Len(ch) + 1] = o
             /\ \A i \in 1..Len(ch) : ch'[i] = ch[i]
             /\ phase'[o] \in Taken
    <3>1. \A i \in 1..Len(accepted') : i \in 1..Len(accepted) \/ i = Len(accepted) + 1
      BY <1>0, <2>5
    <3>2. Len(ch') <= Len(accepted')
      BY <1>0, <2>5 DEF ArrivalInv
    <3>3. ASSUME NEW k \in 1..Len(ch') PROVE ch'[k] = accepted'[Received + k]
      <4>1. CASE k \in 1..Len(ch)
        <5>1. Received + k \in 1..Len(accepted)
          BY <1>0, <4>1 DEF Received
        <5> QED BY <2>1, <2>5, <4>1, <5>1 DEF ArrivalInv
      <4>2. CASE k = Len(ch) + 1
        <5>1. Received + k = Len(accepted) + 1
          BY <1>0, <4>2 DEF Received
        <5> QED BY <2>5, <4>2, <5>1
      <4> QED BY <1>0, <2>5, <4>1, <4>2
    <3>4. \A i \in 1..Len(accepted') : phase'[accepted'[i]] \in Taken
      BY <1>0, <2>1, <2>3, <2>5, <3>1 DEF ArrivalInv
    <3>5. \A i, j \in 1..Len(accepted') : accepted'[i] = accepted'[j] => i = j
      BY <2>1, <2>5, <3>1 DEF ArrivalInv
    <3>6. cur # NoOrder => Received > 0 /\ cur = accepted'[Received]
      <4>1. Received > 0 => Received \in 1..Len(accepted)
        BY <1>0
      <4> QED BY <2>1, <4>1 DEF ArrivalInv
    <3>7. mpc \in {"idle", "stopped"} => cur = NoOrder
      BY DEF ArrivalInv
    <3> QED BY <2>1, <2>2, <3>2, <3>3, <3>4, <3>5, <3>6, <3>7 DEF ArrivalInv
  <2> QED BY <2>1, <2>4, <2>5
<1>3. CASE Receive
  <2>1. /\ UNCHANGED <<phase, accepted>>
        /\ mpc = "idle" /\ cur = NoOrder
        /\ \/ UNCHANGED <<ch, cur>> /\ Received' = Received /\ mpc' = "stopped"
           \/ /\ mpc' = "match"
              /\ Received' = Received + 1
              /\ Received' <= Len(accepted)
              /\ cur' = accepted[Received + 1]
              /\ Len(ch') = Len(ch) - 1
              /\ \A k \in 1..Len(ch') : ch'[k] = accepted[Received' + k]
    BY <1>3, ReceiveArrival
  <2>2. CASE UNCHANGED <<ch, cur>> /\ Received' = Received /\ mpc' = "stopped"
    BY <2>1, <2>2 DEF ArrivalInv
  <2>3. CASE /\ mpc' = "match"
             /\ Received' = Received + 1
             /\ Received' <= Len(accepted)
             /\ cur' = accepted[Received + 1]
             /\ Len(ch') = Len(ch) - 1
             /\ \A k \in 1..Len(ch') : ch'[k] = accepted[Received' + k]
    <3>1. Len(ch') <= Len(accepted) /\ Received' > 0 /\ cur' = accepted[Received']
      BY <1>0, <2>3 DEF ArrivalInv
    <3> QED BY <2>1, <2>3, <3>1 DEF ArrivalInv
  <2> QED BY <2>1, <2>2, <2>3
<1>4. CASE RestOrder
  <2>1. UNCHANGED <<ch, phase, accepted>> /\ cur' = NoOrder /\ mpc' = "idle"
    BY <1>4 DEF RestOrder, handlerVars
  <2> QED BY <2>1 DEF ArrivalInv, Received
<1>5. CASE Settle
  <2>1. UNCHANGED <<ch, phase, accepted, cur>> /\ mpc' = "match"
    BY <1>5 DEF Settle, handlerVars
  <2> QED BY <2>1 DEF ArrivalInv, Received
<1>6. ASSUME UNCHANGED <<ch, phase, accepted, cur>>, mpc' \in TradeSteps \/ mpc' = mpc
      PROVE  ArrivalInv'
  BY <1>6 DEF ArrivalInv, Received, TradeSteps
<1> QED BY <1>1, <1>2, <1>3, <1>4, <1>5, <1>6, StepKinds, TradeStepFrame

\* The positions of a book entry's order in the arrival order.
LEMMA EntryArrival ==
  ASSUME IInv, ArrivalInv, TimeOrder, NEW side \in Sides, NEW i \in 1..Len(book[side])
  PROVE  \E k \in 1..Received : /\ accepted[k] = book[side][i].order
                                /\ k \in 1..Len(accepted)
                                /\ cur # NoOrder => k < Received
<1>1. PICK k \in 1..Received : accepted[k] = book[side][i].order
  BY DEF TimeOrder, Among
<1>2. k \in 1..Len(accepted) /\ Received \in Nat
  BY ReceivedFacts DEF IInv
<1>3. cur # NoOrder => k # Received
  BY <1>1 DEF ArrivalInv, IInv, BookInv
<1> QED BY <1>1, <1>2, <1>3

\* Dropping or rewriting the head of a side keeps its time order.
LEMMA FifoShift ==
  ASSUME NEW b, NEW c, NEW acc, NEW m, NEW d \in {0, 1},
         Among(b, acc, m), Fifo(b, acc),
         \A i \in 1..Len(c) : /\ i + d \in 1..Len(b)
                              /\ c[i].order = b[i + d].order
                              /\ c[i].price = b[i + d].price
  PROVE  Among(c, acc, m) /\ Fifo(c, acc)
<1>1. Among(c, acc, m)
  BY DEF Among
<1>2. ASSUME NEW i \in 1..Len(c), NEW j \in 1..Len(c),
             NEW k \in 1..Len(acc), NEW l \in 1..Len(acc),
             i < j, c[i].price = c[j].price, acc[k] = c[i].order, acc[l] = c[j].order
      PROVE  k < l
  <2>1. i + d < j + d
    BY <1>2
  <2>2. /\ i + d \in 1..Len(b) /\ j + d \in 1..Len(b)
        /\ b[i + d].price = b[j + d].price
        /\ acc[k] = b[i + d].order /\ acc[l] = b[j + d].order
    BY <1>2
  <2> QED BY <2>1, <2>2 DEF Fifo
<1>3. Fifo(c, acc)
  BY <1>2 DEF Fifo
<1> QED BY <1>1, <1>3

\* Each side of the book stays in the order of arrival at every price: only
\* addOrder brings an entry, of the order that arrived last, and the stable
\* sort puts it behind its equals.
LEMMA TimeOrderStep ==
  ASSUME IInv, ArrivalInv, TimeOrder, [Next]_vars
  PROVE  TimeOrder'
<1>0. /\ Len(accepted) \in Nat /\ Received \in Nat /\ Received <= Len(accepted)
      /\ 1..Received \subseteq 1..Len(accepted)
  BY ReceivedFacts DEF IInv
<1>1. ASSUME UNCHANGED <<accepted, book>>, Received' = Received
      PROVE  TimeOrder'
  BY <1>1 DEF TimeOrder
<1>2. ASSUME NEW o \in Orders, SubmitOrder(o) PROVE TimeOrder'
  <2>1. /\ Received' = Received
        /\ \A i \in 1..Len(accepted) : accepted[i] # o /\ accepted'[i] = accepted[i]
        /\ \/ accepted' = accepted /\ ch' = ch
           \/ Len(accepted') = Len(accepted) + 1 /\ accepted'[Len(accepted) + 1] = o
    BY <1>2, SubmitArrival
  <2>2. book' = book
    BY <1>2 DEF SubmitOrder, matcherVars
  <2>3. \A s \in Sides : \A i \in 1..Len(book[s]) : book[s][i].order # o
    BY <1>0, <2>1 DEF TimeOrder, Among
  <2>4. \A k \in 1..Len(accepted') : \/ k \in 1..Len(accepted) /\ accepted'[k] = accepted[k]
                                     \/ accepted'[k] = o
    BY <1>0, <2>1
  <2>5. ASSUME NEW s \in Sides PROVE Among(book[s], accepted', Received)
    BY <1>0, <2>1 DEF TimeOrder, Among
  <2>6. ASSUME NEW s \in Sides, NEW i \in 1..Len(book[s]), NEW j \in 1..Len(book[s]),
               NEW k \in 1..Len(accepted'), NEW l \in 1..Len(accepted'),
               i < j, book[s][i].price = book[s][j].price,
               accepted'[k] = book[s][i].order, accepted'[l] = book[s][j].order
        PROVE  k < l
    <3>1. /\ k \in 1..Len(accepted) /\ accepted[k] = book[s][i].order
          /\ l \in 1..Len(accepted) /\ accepted[l] = book[s][j].order
      BY <2>3, <2>4, <2>6
    <3> QED BY <2>6, <3>1 DEF TimeOrder, Fifo
  <2>7. \A s \in Sides : Fifo(book[s], accepted')
    BY <2>6 DEF Fifo
  <2> QED BY <2>1, <2>2, <2>5, <2>7 DEF TimeOrder
<1>3. CASE Receive
  <2>1. /\ UNCHANGED <<accepted, book>>
        /\ Received' = Received \/ Received' = Received + 1
    BY <1>3, ReceiveArrival
  <2>2. 1..Received \subseteq 1..Received'
    BY <1>0, <2>1
  <2>3. \A s \in Sides : Among(book[s], accepted, Received')
    BY <2>2 DEF TimeOrder, Among
  <2> QED BY <2>1, <2>3 DEF TimeOrder
<1>4. CASE Settle
  <2> DEFINE P == PassiveSide
             n == Len(book[P])
  <2>1. UNCHANGED <<accepted, ch>> /\ Received' = Received
    BY <1>4 DEF Settle, handlerVars, Received
  <2>2. n \in Nat /\ P \in Sides
    BY <1>4, TradeParties DEF Settle, TradeSteps
  <2>3. ASSUME NEW s \in Sides
        PROVE  Among(book'[s], accepted, Received) /\ Fifo(book'[s], accepted)
    <3>0. Among(book[s], accepted, Received) /\ Fifo(book[s], accepted)
      BY DEF TimeOrder
    <3>1. CASE s # P
      <4>1. book'[s] = book[s]
        BY <1>4, <3>1, SettleEffect
      <4> QED BY <3>0, <4>1
    <3>2. CASE s = P /\ Len(book'[P]) = n - 1 /\ \A i \in 1..n - 1 : book'[P][i] = book[P][i + 1]
      <4>1. \A i \in 1..Len(book'[s]) : /\ i + 1 \in 1..Len(book[s])
                                        /\ book'[s][i].order = book[s][i + 1].order
                                        /\ book'[s][i].price = book[s][i + 1].price
        BY <2>2, <3>2
      <4> QED BY <3>0, <4>1, FifoShift
    <3>3. CASE /\ s = P /\ Len(book'[P]) = n
               /\ book'[P][1].order = book[P][1].order
               /\ book'[P][1].price = book[P][1].price
               /\ \A i \in 2..n : book'[P][i] = book[P][i]
      <4>1. ASSUME NEW i \in 1..Len(book'[s])
            PROVE  /\ i + 0 \in 1..Len(book[s])
                   /\ book'[s][i].order = book[s][i + 0].order
                   /\ book'[s][i].price = book[s][i + 0].price
        <5>1. i \in 1..n /\ (i = 1 \/ i \in 2..n) /\ i + 0 = i
          BY <2>2, <3>3
        <5> QED BY <3>3, <5>1
      <4> QED BY <3>0, <4>1, FifoShift
    <3> QED BY <1>4, <3>1, <3>2, <3>3, SettleEffect
  <2> QED BY <2>1, <2>3 DEF TimeOrder
<1>5. CASE RestOrder
  <2> DEFINE side == order[cur].side
             n == Len(book[side])
             N == 1..n + 1
  <2>1. UNCHANGED <<accepted, ch>> /\ Received' = Received
    BY <1>5 DEF RestOrder, handlerVars, Received
  <2>2. cur # NoOrder /\ cur = accepted[Received] /\ Received > 0 /\ Received \in 1..Received
    BY <1>0, <1>5 DEF RestOrder, IInv, QueueInv, ArrivalInv
  <2>3. /\ side \in Sides /\ n \in Nat
        /\ \A s \in Sides : s # side => book'[s] = book[s]
        /\ ~Rests => book'[side] = book[side]
    BY <1>5, RestEffect
  <2>4. ASSUME Rests
        PROVE  Among(book'[side], accepted, Received) /\ Fifo(book'[side], accepted)
    <3>1. PICK p \in [N -> N] :
            /\ Len(book'[side]) = n + 1
            /\ \A k \in N : \E i \in N : p[i] = k
            /\ \A i \in N : \/ p[i] \in 1..n /\ book'[side][i] = book[side][p[i]]
                            \/ p[i] = n + 1 /\ book'[side][i] = NewEntry
            /\ \A i, j \in N :
                 i < j /\ book'[side][i].price = book'[side][j].price => p[i] < p[j]
      BY <1>5, <2>4, RestEffect
    <3>2. NewEntry.order = accepted[Received]
      BY <2>2 DEF NewEntry
    <3>3. ASSUME NEW i \in N
          PROVE  \E k \in 1..Received : accepted[k] = book'[side][i].order
      <4>1. CASE p[i] \in 1..n /\ book'[side][i] = book[side][p[i]]
        BY SMTT(30), <2>3, <4>1 DEF TimeOrder, Among
      <4>2. CASE book'[side][i] = NewEntry
        BY <2>2, <3>2, <4>2
      <4> QED BY <3>1, <4>1, <4>2
    <3>4. ASSUME NEW i \in N, NEW j \in N, NEW k \in 1..Len(accepted), NEW l \in 1..Len(accepted),
                 i < j, book'[side][i].price = book'[side][j].price,
                 accepted[k] = book'[side][i].order, accepted[l] = book'[side][j].order
          PROVE  k < l
      <4>1. p[i] < p[j] /\ p[i] \in N /\ p[j] \in N
        BY <3>1, <3>4
      <4>2. p[i] \in 1..n /\ book'[side][i] = book[side][p[i]]
        <5>1. p[i] # n + 1
          BY <2>3, <4>1
        <5> QED BY <3>1, <5>1
      <4>3. CASE p[j] \in 1..n /\ book'[side][j] = book[side][p[j]]
        <5>1. Fifo(book[side], accepted)
          BY <2>3 DEF TimeOrder
        <5>2. /\ book[side][p[i]].price = book[side][p[j]].price
              /\ accepted[k] = book[side][p[i]].order
              /\ accepted[l] = book[side][p[j]].order
          BY <3>4, <4>2, <4>3
        <5> QED BY <4>1, <4>2, <4>3, <5>1, <5>2 DEF Fifo
      <4>4. CASE p[j] = n + 1 /\ book'[side][j] = NewEntry
        <5>1. Received \in 1..Len(accepted) /\ l = Received
          BY <1>0, <2>2, <3>2, <3>4, <4>4 DEF ArrivalInv
        <5>2. PICK m \in 1..Received : /\ accepted[m] = book[side][p[i]].order
                                       /\ m \in 1..Len(accepted)
                                       /\ cur # NoOrder => m < Received
          BY <2>3, <4>2, EntryArrival
        <5>3. k = m
          BY <3>4, <4>2, <5>2 DEF ArrivalInv
        <5> QED BY <2>2, <5>1, <5>2, <5>3
      <4> QED BY <3>1, <4>3, <4>4
    <3>5. Among(book'[side], accepted, Received)
      BY <3>1, <3>3 DEF Among
    <3>6. Fifo(book'[side], accepted)
      BY <3>1, <3>4 DEF Fifo
    <3> QED BY <3>5, <3>6
  <2>5. ASSUME NEW s \in Sides, s # side \/ ~Rests
        PROVE  Among(book'[s], accepted, Received) /\ Fifo(book'[s], accepted)
    <3>1. book'[s] = book[s]
      BY <2>3, <2>5
    <3> QED BY <3>1 DEF TimeOrder
  <2> QED BY <2>1, <2>4, <2>5 DEF TimeOrder
<1>6. ASSUME UNCHANGED <<accepted, ch, book>> PROVE TimeOrder'
  <2>1. Received' = Received
    BY <1>6 DEF Received
  <2> QED BY <1>1, <1>6, <2>1
<1>7. ASSUME NEW o \in Orders, SaveOrder(o) \/ PublishCreated(o) PROVE TimeOrder'
  <2>1. UNCHANGED <<accepted, ch, book>>
    BY <1>7 DEF SaveOrder, PublishCreated, matcherVars
  <2> QED BY <1>6, <2>1
<1> QED BY <1>2, <1>3, <1>4, <1>5, <1>6, <1>7, StepKinds, TradeStepFrame

-----------------------------------------------------------------------------
\* Which entries the end of an iteration leaves, and where they came from.
LEMMA SettleEntries ==
  ASSUME IInv, Settle, NEW s \in Sides
  PROVE  /\ \A i \in 1..Len(book[s]) :
              s # PassiveSide \/ i # 1 \/ book[s][i].remaining > trade.qty
                => \E j \in 1..Len(book'[s]) : book'[s][j].order = book[s][i].order
         /\ \A j \in 1..Len(book'[s]) : \E i \in 1..Len(book[s]) :
              /\ book'[s][j].order = book[s][i].order
              /\ book'[s][j].price = book[s][i].price
              /\ \/ /\ s # PassiveSide \/ i # 1
                    /\ book'[s][j].remaining = book[s][i].remaining
                 \/ /\ s = PassiveSide /\ i = 1
                    /\ book'[s][j].remaining = book[s][i].remaining - trade.qty
<1> DEFINE P == PassiveSide
           n == Len(book[P])
<1>1. P \in Sides /\ n \in Nat \ {0} /\ trade.qty \in Nat
  BY TradeParties DEF Settle, TradeSteps
<1>2. CASE s # P
  <2>1. book'[s] = book[s]
    BY <1>2, SettleEffect
  <2> QED BY <1>2, <2>1
<1>3. CASE /\ s = P /\ book[P][1].remaining = trade.qty
           /\ Len(book'[P]) = n - 1
           /\ \A i \in 1..n - 1 : book'[P][i] = book[P][i + 1]
  <2>1. ASSUME NEW i \in 1..n, i # 1 \/ book[P][i].remaining > trade.qty
        PROVE  \E j \in 1..n - 1 : book'[P][j].order = book[P][i].order
    <3>1. i # 1
      BY <1>1, <1>3, <2>1
    <3>2. i - 1 \in 1..n - 1 /\ (i - 1) + 1 = i
      BY <1>1, <3>1
    <3>3. book'[P][i - 1] = book[P][(i - 1) + 1]
      BY <1>3, <3>2
    <3> QED BY <3>2, <3>3
  <2>2. ASSUME NEW j \in 1..n - 1
        PROVE  j + 1 \in 1..n /\ j + 1 # 1 /\ book'[P][j] = book[P][j + 1]
    BY <1>1, <1>3
  <2> QED BY <1>3, <2>1, <2>2
<1>4. CASE /\ s = P /\ book[P][1].remaining > trade.qty
           /\ Len(book'[P]) = n
           /\ book'[P][1].order = book[P][1].order
           /\ book'[P][1].price = book[P][1].price
           /\ book'[P][1].remaining = book[P][1].remaining - trade.qty
           /\ \A i \in 2..n : book'[P][i] = book[P][i]
  <2>1. \A i \in 1..n : i = 1 \/ i \in 2..n
    BY <1>1
  <2>2. \A i \in 1..n : book'[P][i].order = book[P][i].order
    BY <1>4, <2>1
  <2>3. \A i \in 1..n : /\ book'[P][i].price = book[P][i].price
                        /\ i # 1 => book'[P][i].remaining = book[P][i].remaining
    BY <1>4, <2>1
  <2> QED BY <1>4, <2>2, <2>3
<1> QED BY <1>2, <1>3, <1>4, SettleEffect

\* Which entries the end of an order leaves, and where they came from.
LEMMA RestEntries ==
  ASSUME IInv, RestOrder, NEW s \in Sides
  PROVE  /\ \A i \in 1..Len(book[s]) : \E j \in 1..Len(book'[s]) : book'[s][j] = book[s][i]
         /\ Rests /\ s = order[cur].side => \E j \in 1..Len(book'[s]) : book'[s][j] = NewEntry
         /\ \A j \in 1..Len(book'[s]) :
              \/ \E i \in 1..Len(book[s]) : book'[s][j] = book[s][i]
              \/ Rests /\ s = order[cur].side /\ book'[s][j] = NewEntry
<1> DEFINE side == order[cur].side
           n == Len(book[side])
           N == 1..n + 1
<1>1. /\ side \in Sides /\ n \in Nat
      /\ s # side => book'[s] = book[s]
      /\ ~Rests => book'[side] = book[side]
  BY RestEffect
<1>2. CASE s # side \/ ~Rests
  <2>1. book'[s] = book[s]
    BY <1>1, <1>2
  <2> QED BY <1>2, <2>1
<1>3. CASE s = side /\ Rests
  <2>1. PICK p \in [N -> N] :
          /\ Len(book'[side]) = n + 1
          /\ \A k \in N : \E i \in N : p[i] = k
          /\ \A i \in N : \/ p[i] \in 1..n /\ book'[side][i] = book[side][p[i]]
                          \/ p[i] = n + 1 /\ book'[side][i] = NewEntry
          /\ \A i, j \in N :
               i < j /\ book'[side][i].price = book'[side][j].price => p[i] < p[j]
    BY <1>3, RestEffect
  <2>2. ASSUME NEW i \in 1..n PROVE \E j \in N : book'[side][j] = book[side][i]
    <3>1. i \in N /\ i # n + 1
      BY <1>1
    <3>2. PICK j \in N : p[j] = i
      BY <2>1, <3>1
    <3> QED BY <2>1, <3>1, <3>2
  <2>3. \E j \in N : book'[side][j] = NewEntry
    <3>1. n + 1 \in N /\ n + 1 \notin 1..n
      BY <1>1
    <3>2. PICK j \in N : p[j] = n + 1
      BY <2>1, <3>1
    <3> QED BY <2>1, <3>1, <3>2
  <2>4. \A j \in N : \/ \E i \in 1..n : book'[side][j] = book[side][i]
                     \/ book'[side][j] = NewEntry
    BY <2>1
  <2> HIDE DEF side, n
  <2> QED BY <1>3, <2>1, <2>2, <2>3, <2>4 DEF side, n
<1> QED BY <1>2, <1>3

\* Only the end of an iteration and the end of an order touch the book.
LEMMA BookFrame ==
  ASSUME IInv, ArrivalInv, [Next]_vars, ~Settle, ~RestOrder
  PROVE  UNCHANGED <<book, index>>
<1>1. ASSUME NEW o \in Orders, SaveOrder(o) \/ SubmitOrder(o) \/ PublishCreated(o)
      PROVE  UNCHANGED <<book, index>>
  BY <1>1 DEF SaveOrder, SubmitOrder, PublishCreated, matcherVars
<1>2. CASE Receive
  BY <1>2, ReceiveArrival
<1> QED BY <1>1, <1>2, StepKinds, TradeStepFrame

\* removeOrder clears the index with the entry, addOrder sets it with one.
LEMMA IndexStep ==
  ASSUME IInv, ArrivalInv, IndexInv, [Next]_vars
  PROVE  IndexInv'
<1>1. CASE Settle
  <2> SUFFICES ASSUME NEW o \in index'
               PROVE  \E s \in Sides : \E j \in 1..Len(book'[s]) : book'[s][j].order = o
    BY DEF IndexInv
  <2>1. /\ PassiveSide \in Sides
        /\ book[PassiveSide][1].remaining > trade.qty \/ o # book[PassiveSide][1].order
        /\ o \in index
    BY <1>1, SettleEffect, TradeParties DEF Settle, TradeSteps
  <2>a. PICK s \in Sides : \E i \in 1..Len(book[s]) : book[s][i].order = o
    BY <2>1 DEF IndexInv
  <2>2. PICK i \in 1..Len(book[s]) : book[s][i].order = o
    BY <2>a
  <2>3. s # PassiveSide \/ i # 1 \/ book[s][i].remaining > trade.qty
    BY <2>1, <2>2
  <2>4. \E j \in 1..Len(book'[s]) : book'[s][j].order = book[s][i].order
    BY <1>1, <2>3, SettleEntries
  <2> QED BY <2>2, <2>4
<1>2. CASE RestOrder
  <2> SUFFICES ASSUME NEW o \in index'
               PROVE  \E s \in Sides : \E j \in 1..Len(book'[s]) : book'[s][j].order = o
    BY DEF IndexInv
  <2>0. order[cur].side \in Sides
    BY <1>2, RestEffect
  <2>1. CASE o \in index
    <3>a. PICK s \in Sides : \E i \in 1..Len(book[s]) : book[s][i].order = o
      BY <2>1 DEF IndexInv
    <3>1. PICK i \in 1..Len(book[s]) : book[s][i].order = o
      BY <3>a
    <3>2. \E j \in 1..Len(book'[s]) : book'[s][j] = book[s][i]
      BY <1>2, RestEntries
    <3> QED BY <3>1, <3>2
  <2>2. CASE Rests /\ o = cur
    <3>1. PICK j \in 1..Len(book'[order[cur].side]) : book'[order[cur].side][j] = NewEntry
      BY <1>2, <2>0, <2>2, RestEntries
    <3>2. NewEntry.order = o
      BY <2>2 DEF NewEntry
    <3> QED BY <2>0, <3>1, <3>2
  <2> QED BY <1>2, <2>1, <2>2, RestEffect
<1>3. CASE ~Settle /\ ~RestOrder
  BY <1>3, BookFrame DEF IndexInv
<1> QED BY <1>1, <1>2, <1>3

\* An order rests only when it does not reach the best opposite price, and so
\* no opposite price.
LEMMA UncrossedStep ==
  ASSUME IInv, ArrivalInv, EntryPrices, Uncrossed, [Next]_vars
  PROVE  Uncrossed'
<1>0. "BUY" \in Sides /\ "SELL" \in Sides
  BY DEF Sides
<1>1. CASE Settle
  BY <1>0, <1>1, SettleEntries DEF Uncrossed
<1>2. CASE RestOrder
  <2> DEFINE side == order[cur].side
             opp == PassiveSide
  <2>1. cur \in Orders /\ ~CanTrade
    BY <1>2 DEF RestOrder, IInv, QueueInv, TypeOK
  <2>2. side \in Sides /\ order[cur].price \in Int /\ opp = Opposite(side) /\ opp \in Sides
    <3>1. side \in Sides /\ order[cur].price \in Prices
      BY <2>1, OrderFacts DEF IInv
    <3>2. order[cur].price \in Nat
      BY <3>1, PriceAssumption
    <3> QED BY <3>1, <3>2 DEF PassiveSide, Opposite, Sides
  <2>3. ASSUME Rests, NEW i \in 1..Len(book[opp])
        PROVE  /\ side = "BUY" => order[cur].price < book[opp][i].price
               /\ side = "SELL" => book[opp][i].price < order[cur].price
    <3>1. book[opp] \in Seq(EntryRec) /\ book[opp] # <<>> /\ Head(book[opp]) = book[opp][1]
      BY <2>2, <2>3 DEF IInv, TypeOK
    <3>2. RemainingQuantity(order[cur]) > 0
      BY <2>3 DEF Rests
    <3>3. ~Overlaps(side, order[cur].price, book[opp][1].price)
      BY <2>1, <3>1, <3>2 DEF CanTrade
    <3>4. 1 \in 1..Len(book[opp])
      BY <3>1
    <3>5. book[opp][1].price \in Int /\ book[opp][i].price \in Int
      BY <2>2, <3>4, EntryFacts, EntryPrice DEF IInv
    <3>6. i = 1 \/ ~Better(opp, book[opp][i].price, book[opp][1].price)
      BY <2>2, <3>1, <3>4 DEF IInv, BookInv, SortedPrices
    <3> QED BY <2>2, <3>3, <3>5, <3>6 DEF Overlaps, Better, Opposite, Sides
  <2>4. NewEntry.price = order[cur].price
    BY DEF NewEntry
  <2>5. SUFFICES ASSUME NEW i \in 1..Len(book'["BUY"]), NEW j \in 1..Len(book'["SELL"])
                 PROVE  book'["BUY"][i].price < book'["SELL"][j].price
    BY DEF Uncrossed
  <2>6. \/ \E k \in 1..Len(book["BUY"]) : book'["BUY"][i] = book["BUY"][k]
        \/ Rests /\ side = "BUY" /\ book'["BUY"][i] = NewEntry
    BY <1>0, <1>2, RestEntries
  <2>7. \/ \E k \in 1..Len(book["SELL"]) : book'["SELL"][j] = book["SELL"][k]
        \/ Rests /\ side = "SELL" /\ book'["SELL"][j] = NewEntry
    BY <1>0, <1>2, RestEntries
  <2>8. CASE Rests /\ side = "BUY" /\ book'["BUY"][i] = NewEntry
    <3>1. opp = "SELL"
      BY <2>2, <2>8 DEF Opposite
    <3>2. PICK k \in 1..Len(book["SELL"]) : book'["SELL"][j] = book["SELL"][k]
      BY <2>7, <2>8
    <3> QED BY <2>3, <2>4, <2>8, <3>1, <3>2
  <2>9. CASE Rests /\ side = "SELL" /\ book'["SELL"][j] = NewEntry
    <3>1. opp = "BUY"
      BY <2>2, <2>9 DEF Opposite
    <3>2. PICK k \in 1..Len(book["BUY"]) : book'["BUY"][i] = book["BUY"][k]
      BY <2>6, <2>9
    <3> QED BY <2>3, <2>4, <2>9, <3>1, <3>2
  <2> QED BY <2>6, <2>7, <2>8, <2>9 DEF Uncrossed
<1>3. CASE ~Settle /\ ~RestOrder
  BY <1>3, BookFrame DEF Uncrossed
<1> QED BY <1>1, <1>2, <1>3

\* The shape of the book holds throughout, whichever storage calls fail.
LEMMA BookShapeInvariance == Spec => [](IInv /\ EntryPrices /\ BookShape)
<1>1. Init => IInv /\ EntryPrices /\ BookShape
  <2>1. Init => IInv /\ EntryPrices
    BY InitIInv DEF Init, EntryPrices
  <2>2. Init => ArrivalInv
    BY DEF Init, ArrivalInv, Received
  <2>3. Init => TimeOrder /\ IndexInv /\ Uncrossed
    BY DEF Init, TimeOrder, Among, Fifo, IndexInv, Uncrossed, Sides
  <2> QED BY <2>1, <2>2, <2>3 DEF BookShape
<1>2. IInv /\ EntryPrices /\ BookShape /\ [Next]_vars => (IInv /\ EntryPrices /\ BookShape)'
  <2> SUFFICES ASSUME IInv, EntryPrices, BookShape, [Next]_vars
               PROVE  (IInv /\ EntryPrices /\ BookShape)'
    OBVIOUS
  <2>1. IInv'
    BY NextPreserves
  <2>2. EntryPrices'
    BY <2>1, EntryPricesStep
  <2>3. ArrivalInv'
    BY ArrivalStep DEF BookShape
  <2>4. TimeOrder'
    BY TimeOrderStep DEF BookShape
  <2>5. IndexInv'
    BY IndexStep DEF BookShape
  <2>6. Uncrossed'
    BY UncrossedStep DEF BookShape
  <2> QED BY <2>1, <2>2, <2>3, <2>4, <2>5, <2>6 DEF BookShape
<1> QED BY <1>1, <1>2, PTL DEF Spec

-----------------------------------------------------------------------------
\* Outside a trade, and in one for an order that is not a party, nothing is in
\* flight.
LEMMA NotInFlight ==
  ASSUME NEW o, mpc \notin TradeSteps \/ (o # trade.buy /\ o # trade.sell)
  PROVE  InFlight(o) = 0
BY DEF InFlight

\* A step keeps the entries exact if it keeps each order's remainder together
\* with what is in flight of it.
LEMMA ExactFrame ==
  ASSUME IInv, EntriesExact, book' = book,
         \A o \in Orders : RemainingQuantity(order'[o]) + InFlight(o)'
                             = RemainingQuantity(order[o]) + InFlight(o)
  PROVE  EntriesExact'
<1> SUFFICES ASSUME NEW s \in Sides, NEW i \in 1..Len(book[s])
             PROVE  book[s][i].remaining
                      = RemainingQuantity(order'[book[s][i].order])
                          + InFlight(book[s][i].order)'
  BY DEF EntriesExact
<1>1. book[s][i].order \in Orders
  BY EntryFacts DEF IInv
<1>2. PICK o \in Orders : o = book[s][i].order
  BY <1>1
<1>3. InFlight(book[s][i].order)' = InFlight(o)'
  BY <1>2 DEF InFlight
<1> QED BY <1>2, <1>3 DEF EntriesExact

\* With every trade stored, fills and entries are brought together again at
\* the end of each iteration.
LEMMA ExactStep ==
  ASSUME "saveTrade" \notin Failures,
         IInv, ArrivalInv, EntriesExact, [Next]_vars
  PROVE  EntriesExact'
<1>1. ASSUME UNCHANGED <<order, book, trade>>,
             \/ mpc' = mpc
             \/ mpc \notin TradeSteps /\ mpc' \notin TradeSteps
             \/ /\ mpc \in TradeSteps \ {"fillBuy", "fillSell"}
                /\ mpc' \in TradeSteps \ {"fillBuy", "fillSell"}
      PROVE  EntriesExact'
  <2>1. \A o \in Orders : InFlight(o)' = InFlight(o)
    BY <1>1 DEF InFlight
  <2> QED BY <1>1, <2>1, ExactFrame
<1>2. ASSUME NEW o \in Orders, SaveOrder(o) \/ SubmitOrder(o) \/ PublishCreated(o)
      PROVE  EntriesExact'
  <2>1. UNCHANGED <<order, book, trade, mpc>>
    BY <1>2 DEF SaveOrder, SubmitOrder, PublishCreated, matcherVars
  <2> QED BY <1>1, <2>1
<1>3. CASE Receive
  <2>1. UNCHANGED <<order, book, trade>> /\ mpc = "idle" /\ mpc' \in {"stopped", "match"}
    BY <1>3, ReceiveArrival
  <2>2. mpc \notin TradeSteps /\ mpc' \notin TradeSteps
    BY <2>1 DEF TradeSteps
  <2> QED BY <1>1, <2>1, <2>2
<1>4. CASE SaveTrade
  <2>1. UNCHANGED <<order, book>> /\ mpc = "match" /\ mpc' = "fillBuy"
    BY <1>4 DEF SaveTrade
  <2>2. \A o \in Orders : InFlight(o) = 0 /\ InFlight(o)' = 0
    BY <2>1 DEF InFlight, TradeSteps
  <2> QED BY <2>1, <2>2, ExactFrame
<1>5. CASE FillBuy \/ FillSell
  <2> DEFINE y == IF mpc = "fillBuy" THEN trade.buy ELSE trade.sell
  <2>1. /\ mpc \in {"fillBuy", "fillSell"}
        /\ mpc' = IF mpc = "fillBuy" THEN "fillSell" ELSE "updateBuy"
        /\ order' = [order EXCEPT ![y] = Fill(@, trade.qty)]
        /\ UNCHANGED <<trade, book>>
    BY <1>5 DEF FillBuy, FillSell, FillOrder
  <2>2. /\ trade.buy \in Orders /\ trade.sell \in Orders /\ trade.buy # trade.sell
        /\ trade.qty \in Nat
    BY <2>1, TradeParties DEF TradeSteps
  <2>3. order \in [Orders -> OrderRec]
    BY DEF IInv, TypeOK
  <2>4. ASSUME NEW o \in Orders
        PROVE  RemainingQuantity(order'[o]) + InFlight(o)'
                 = RemainingQuantity(order[o]) + InFlight(o)
    <3>1. CASE o = y
      <4>1. order'[o] = Fill(order[o], trade.qty)
        BY <2>1, <2>3, <3>1
      <4>2. order'[o].quantity = order[o].quantity /\ order'[o].filled = order[o].filled + trade.qty
        BY <2>3, <4>1 DEF Fill, OrderRec
      <4>3. InFlight(o) = 0 /\ InFlight(o)' = trade.qty
        BY <2>1, <2>2, <3>1 DEF InFlight, TradeSteps
      <4>4. order[o].quantity \in Nat /\ order[o].filled \in Nat
        BY OrderFacts DEF IInv
      <4> QED BY <2>2, <4>2, <4>3, <4>4 DEF RemainingQuantity
    <3>2. CASE o # y
      <4>1. order'[o] = order[o]
        BY <2>1, <2>3, <3>2
      <4>2. InFlight(o)' = InFlight(o)
        BY <2>1, <2>2, <3>2 DEF InFlight, TradeSteps
      <4> QED BY <4>1, <4>2
    <3> QED BY <3>1, <3>2
  <2> QED BY <2>1, <2>4, ExactFrame
<1>6. CASE UpdateBuy \/ UpdateSell
  <2>1. /\ UNCHANGED <<order, book, trade>>
        /\ mpc \in TradeSteps \ {"fillBuy", "fillSell"}
        /\ mpc' \in TradeSteps \ {"fillBuy", "fillSell"}
    BY <1>6 DEF UpdateBuy, UpdateSell, UpdateOrder, TradeSteps
  <2> QED BY <1>1, <2>1
<1>7. CASE Settle
  <2>1. /\ mpc = "settle" /\ mpc \in TradeSteps /\ mpc' \notin TradeSteps
        /\ order' = order
    BY <1>7 DEF Settle, TradeSteps
  <2>2. /\ PassiveSide \in Sides /\ 1 \in 1..Len(book[PassiveSide])
        /\ trade.qty \in Nat
    BY <2>1, TradeParties
  <2> DEFINE best == book[PassiveSide][1]
  <2>3. \/ trade.buy = cur /\ trade.sell = best.order
        \/ trade.sell = cur /\ trade.buy = best.order
    BY <2>1 DEF IInv, TradeInv
  <2>4. InFlight(best.order) = trade.qty
    BY <2>1, <2>3 DEF InFlight
  <2> SUFFICES ASSUME NEW s \in Sides, NEW j \in 1..Len(book'[s])
               PROVE  book'[s][j].remaining
                        = RemainingQuantity(order'[book'[s][j].order])
                            + InFlight(book[s][j].order)'
    BY DEF EntriesExact
  <2>5. InFlight(book[s][j].order)' = 0
    BY <2>1 DEF InFlight
  <2>6. PICK i \in 1..Len(book[s]) :
          /\ book'[s][j].order = book[s][i].order
          /\ \/ /\ s # PassiveSide \/ i # 1
                /\ book'[s][j].remaining = book[s][i].remaining
             \/ /\ s = PassiveSide /\ i = 1
                /\ book'[s][j].remaining = book[s][i].remaining - trade.qty
    BY <1>7, SettleEntries
  <2>7. /\ book[s][i].remaining = RemainingQuantity(order[book[s][i].order])
                                    + InFlight(book[s][i].order)
        /\ book[s][i].order \in Orders /\ book[s][i].remaining \in Nat
    BY EntryFacts DEF IInv, EntriesExact
  <2>8. RemainingQuantity(order[book[s][i].order]) \in Int
    BY <2>7, OrderFacts DEF IInv, RemainingQuantity
  <2>9. CASE (s # PassiveSide \/ i # 1) /\ book'[s][j].remaining = book[s][i].remaining
    <3>1. book[s][i].order # cur /\ order[book[s][i].order].side = s
      BY DEF IInv, BookInv
    <3>2. order[best.order].side = PassiveSide
      BY <2>2 DEF IInv, BookInv
    <3>3. s = PassiveSide => book[s][i].order # best.order
      BY <2>2, <2>9 DEF IInv, BookInv
    <3>4. book[s][i].order # best.order
      BY <3>1, <3>2, <3>3
    <3>5. InFlight(book[s][i].order) = 0
      BY <2>3, <3>1, <3>4, NotInFlight
    <3> QED BY <2>1, <2>5, <2>6, <2>7, <2>8, <2>9, <3>5
  <2>10. CASE /\ s = PassiveSide /\ i = 1
              /\ book'[s][j].remaining = book[s][i].remaining - trade.qty
    BY <2>1, <2>2, <2>4, <2>5, <2>6, <2>7, <2>8, <2>10
  <2> QED BY <2>6, <2>9, <2>10
<1>8. CASE RestOrder
  <2>1. mpc \notin TradeSteps /\ mpc' \notin TradeSteps /\ order' = order /\ cur \in Orders
    BY <1>8 DEF RestOrder, TradeSteps, IInv, QueueInv, TypeOK
  <2> SUFFICES ASSUME NEW s \in Sides, NEW j \in 1..Len(book'[s])
               PROVE  book'[s][j].remaining
                        = RemainingQuantity(order'[book'[s][j].order])
                            + InFlight(book[s][j].order)'
    BY DEF EntriesExact
  <2>2. InFlight(book[s][j].order)' = 0
    BY <2>1 DEF InFlight
  <2>3. CASE book'[s][j] = NewEntry
    <3>1. book'[s][j].order = cur /\ book'[s][j].remaining = RemainingQuantity(order[cur])
      BY <2>3 DEF NewEntry
    <3>2. RemainingQuantity(order[cur]) \in Int
      BY <2>1, OrderFacts DEF IInv, RemainingQuantity
    <3> QED BY <2>1, <2>2, <3>1, <3>2
  <2>4. CASE \E i \in 1..Len(book[s]) : book'[s][j] = book[s][i]
    <3>1. PICK i \in 1..Len(book[s]) : book'[s][j] = book[s][i]
      BY <2>4
    <3>2. book[s][i].remaining = RemainingQuantity(order[book[s][i].order])
                                   + InFlight(book[s][i].order)
      BY DEF EntriesExact
    <3>3. InFlight(book[s][i].order) = 0
      BY <2>1, NotInFlight
    <3> QED BY <2>1, <2>2, <3>1, <3>2, <3>3
  <2> QED BY <1>8, <2>3, <2>4, RestEntries
<1>9. ASSUME UNCHANGED <<order, book, trade, mpc>> PROVE EntriesExact'
  BY <1>1, <1>9
<1>10. ASSUME UNCHANGED <<order, book, trade>>,
              mpc \in TradeSteps \ {"fillBuy", "fillSell", "updateBuy", "updateSell"},
              mpc' \in TradeSteps \ {"fillBuy", "fillSell", "updateBuy", "updateSell"}
       PROVE  EntriesExact'
  BY <1>1, <1>10
<1> QED BY <1>2, <1>3, <1>4, <1>5, <1>6, <1>7, <1>8, <1>9, <1>10, StepKinds

\* With every trade stored, an entry is dropped only when its order has
\* nothing left, and the current order leaves its remainder behind.
LEMMA AllRestStep ==
  ASSUME IInv, BookShape, EntriesExact, AllRest, [Next]_vars
  PROVE  AllRest'
<1>0. /\ Len(accepted) \in Nat /\ Received \in Nat /\ Received <= Len(accepted)
      /\ \A k \in 1..Len(accepted) : accepted[k] \in Orders
      /\ 1..Received \subseteq 1..Len(accepted)
      /\ ArrivalInv
  BY ReceivedFacts DEF IInv, BookShape
<1>a. \A o \in Orders : RemainingQuantity(order[o]) \in Int
  BY OrderFacts DEF IInv, RemainingQuantity
<1>1. ASSUME Received' = Received, cur' = cur, book' = book,
             \A k \in 1..Received : accepted'[k] = accepted[k],
             \A k \in 1..Received : RemainingQuantity(order'[accepted[k]]) \in Int
      PROVE  AllRest'
  <2> SUFFICES ASSUME NEW k \in 1..Received, accepted[k] # cur,
                      RemainingQuantity(order'[accepted[k]]) > 0
               PROVE  \E i \in 1..Len(book[order'[accepted[k]].side]) :
                        book[order'[accepted[k]].side][i].order = accepted[k]
    BY <1>1 DEF AllRest
  <2>1. /\ order'[accepted[k]].side = order[accepted[k]].side
        /\ RemainingQuantity(order'[accepted[k]]) <= RemainingQuantity(order[accepted[k]])
    BY <1>0, OrdersFillUp
  <2>2. RemainingQuantity(order[accepted[k]]) > 0
    BY <1>0, <1>a, <1>1, <2>1
  <2> QED BY <2>1, <2>2 DEF AllRest
<1>b. IInv'
  BY NextPreserves
<1>c. \A o \in Orders : RemainingQuantity(order'[o]) \in Int
  <2>1. ASSUME NEW o \in Orders PROVE order'[o].quantity \in Nat /\ order'[o].filled \in Nat
    <3>1. order'[o] \in OrderRec
      BY <1>b DEF IInv, TypeOK
    <3>2. order'[o].quantity \in Quantities /\ order'[o].filled \in Nat
      BY <3>1 DEF OrderRec
    <3> QED BY <3>2, QuantityAssumption
  <2> QED BY <2>1 DEF RemainingQuantity
<1>2. ASSUME UNCHANGED <<accepted, ch, cur, book>> PROVE AllRest'
  <2>1. Received' = Received
    BY <1>2 DEF Received
  <2> QED BY <1>0, <1>1, <1>2, <1>c, <2>1
<1>3. ASSUME NEW o \in Orders, SaveOrder(o) \/ PublishCreated(o) PROVE AllRest'
  <2>1. UNCHANGED <<accepted, ch, cur, book>>
    BY <1>3 DEF SaveOrder, PublishCreated, matcherVars
  <2> QED BY <1>2, <2>1
<1>4. ASSUME NEW o \in Orders, SubmitOrder(o) PROVE AllRest'
  <2>1. /\ Received' = Received
        /\ \A k \in 1..Received : accepted'[k] = accepted[k]
    BY <1>0, <1>4, SubmitArrival
  <2>2. UNCHANGED <<cur, book>>
    BY <1>4 DEF SubmitOrder, matcherVars
  <2> QED BY <1>0, <1>1, <1>c, <2>1, <2>2
<1>5. CASE Receive
  <2>1. /\ UNCHANGED <<order, accepted, book>> /\ cur = NoOrder
        /\ \/ Received' = Received /\ cur' = cur
           \/ Received' = Received + 1 /\ cur' = accepted[Received + 1]
    BY <1>0, <1>5, ReceiveArrival
  <2>2. CASE Received' = Received /\ cur' = cur
    BY <1>0, <1>1, <1>c, <2>1, <2>2
  <2>3. CASE Received' = Received + 1 /\ cur' = accepted[Received + 1]
    <3>1. \A k \in 1..Received' : k \in 1..Received \/ k = Received + 1
      BY <1>0, <2>3
    <3>2. \A k \in 1..Received : accepted[k] # cur
      BY <1>0, <2>1, NoOrderAssumption
    <3> QED BY <2>1, <2>3, <3>1, <3>2 DEF AllRest
  <2> QED BY <2>1, <2>2, <2>3
<1>6. CASE Settle
  <2>1. /\ UNCHANGED <<order, accepted, ch, cur>> /\ mpc = "settle" /\ mpc \in TradeSteps
    BY <1>6 DEF Settle, handlerVars, TradeSteps
  <2>2. Received' = Received
    BY <2>1 DEF Received
  <2> SUFFICES ASSUME NEW k \in 1..Received, accepted[k] # cur,
                      RemainingQuantity(order[accepted[k]]) > 0
               PROVE  \E j \in 1..Len(book'[order[accepted[k]].side]) :
                        book'[order[accepted[k]].side][j].order = accepted[k]
    BY <2>1, <2>2 DEF AllRest
  <2>3. PICK i \in 1..Len(book[order[accepted[k]].side]) :
          book[order[accepted[k]].side][i].order = accepted[k]
    BY DEF AllRest
  <2> DEFINE o == accepted[k]
             s == order[o].side
  <2>4. o \in Orders /\ s \in Sides
    BY <1>0, OrderFacts DEF IInv
  <2>5. s # PassiveSide \/ i # 1 \/ book[s][i].remaining > trade.qty
    <3> SUFFICES ASSUME s = PassiveSide, i = 1 PROVE book[s][i].remaining > trade.qty
      OBVIOUS
    <3>1. trade.buy = o \/ trade.sell = o
      BY <2>1, <2>3 DEF IInv, TradeInv
    <3>2. InFlight(o) = trade.qty /\ trade.qty \in Nat
      BY <2>1, <3>1, TradeParties DEF InFlight
    <3>3. book[s][i].remaining = RemainingQuantity(order[o]) + InFlight(o)
      BY <2>3, <2>4 DEF EntriesExact
    <3> QED BY <1>a, <2>4, <3>2, <3>3
  <2> QED BY ZenonT(30), <1>6, <2>3, <2>4, <2>5, SettleEntries
<1>7. CASE RestOrder
  <2>1. UNCHANGED <<order, accepted, ch>> /\ mpc = "match" /\ cur' = NoOrder
    BY <1>7 DEF RestOrder, handlerVars
  <2>2. Received' = Received
    BY <2>1 DEF Received
  <2>3. cur \in Orders /\ order[cur].side \in Sides
    BY <2>1, OrderFacts DEF IInv, QueueInv, TypeOK
  <2> SUFFICES ASSUME NEW k \in 1..Received,
                      RemainingQuantity(order[accepted[k]]) > 0
               PROVE  \E j \in 1..Len(book'[order[accepted[k]].side]) :
                        book'[order[accepted[k]].side][j].order = accepted[k]
    BY <2>1, <2>2 DEF AllRest
  <2>4. CASE accepted[k] = cur
    <3>1. RemainingQuantity(order[cur]) > 0
      BY <2>4
    <3>2. IsActive(order[cur])
      <4>1. order[cur].status \in Statuses /\ order[cur].quantity \in Nat /\ order[cur].filled \in Nat
        BY <2>3, OrderFacts DEF IInv
      <4>2. order[cur].filled # order[cur].quantity
        BY <3>1, <4>1 DEF RemainingQuantity
      <4>3. order[cur].status # "FILLED"
        BY <2>3, <4>2 DEF IInv, NoOverfill
      <4> QED BY <4>1, <4>3 DEF IsActive, Statuses
    <3>3. cur \notin index
      BY DEF BookShape, IndexInv, IInv, BookInv
    <3>4. Rests
      BY <3>1, <3>2, <3>3 DEF Rests
    <3>5. \E j \in 1..Len(book'[order[cur].side]) : book'[order[cur].side][j] = NewEntry
      BY <1>7, <2>3, <3>4, RestEntries
    <3>6. NewEntry.order = cur
      BY DEF NewEntry
    <3> QED BY <2>4, <3>5, <3>6
  <2>5. CASE accepted[k] # cur
    <3>1. PICK i \in 1..Len(book[order[accepted[k]].side]) :
            book[order[accepted[k]].side][i].order = accepted[k]
      BY <2>5 DEF AllRest
    <3>2. order[accepted[k]].side \in Sides
      BY <1>0, OrderFacts DEF IInv
    <3>3. \E j \in 1..Len(book'[order[accepted[k]].side]) :
            book'[order[accepted[k]].side][j] = book[order[accepted[k]].side][i]
      BY <1>7, <3>2, RestEntries
    <3> QED BY <3>1, <3>3
  <2> QED BY <2>4, <2>5
<1> QED BY <1>2, <1>3, <1>4, <1>5, <1>6, <1>7, StepKinds, TradeStepFrame

-----------------------------------------------------------------------------
(***************************************************************************)
(* The theorems.                                                           *)
(***************************************************************************)
\* The orders with an entry on a side.
Listed(side) == {book[side][i].order : i \in 1..Len(book[side])}

\* The inductive invariant when every trade is stored.
ExactBook == IInv /\ EntryPrices /\ BookShape /\ EntriesExact /\ AllRest

LEMMA ExactBookInvariance ==
  ASSUME "saveTrade" \notin Failures
  PROVE  Spec => []ExactBook
<1>1. Init => EntriesExact /\ AllRest
  BY DEF Init, EntriesExact, AllRest, Received
<1>2. IInv /\ EntryPrices /\ BookShape /\ EntriesExact /\ AllRest /\ [Next]_vars
        => EntriesExact' /\ AllRest'
  BY ExactStep, AllRestStep DEF BookShape
<1> QED BY <1>1, <1>2, BookShapeInvariance, PTL DEF Spec, ExactBook

\* Outside a trade, the orders listed on a side are those of that side that
\* were processed and have something left, and the entries say how much.
LEMMA ListedIsResting ==
  ASSUME ExactBook, mpc \notin TradeSteps, NEW side \in Sides
  PROVE  /\ Resting(side) = Listed(side)
         /\ \A i \in 1..Len(book[side]) :
              book[side][i].remaining = RemainingQuantity(order[book[side][i].order])
<1>0. /\ accepted \in Seq(Orders) /\ ch \in Seq(Orders) /\ Len(accepted) \in Nat
      /\ Received \in Nat /\ Received <= Len(accepted)
      /\ \A k \in 1..Len(accepted) : accepted[k] \in Orders
      /\ \A k \in Received + 1..Len(accepted) :
           k - Received \in 1..Len(ch) /\ accepted[k] = ch[k - Received]
  BY ReceivedFacts DEF ExactBook, BookShape, IInv
<1>1. ToSet(accepted) = {accepted[k] : k \in 1..Len(accepted)} /\ ToSet(ch) = {ch[k] : k \in 1..Len(ch)}
  BY <1>0 DEF ToSet
<1>2. ASSUME NEW i \in 1..Len(book[side])
      PROVE  /\ book[side][i].remaining = RemainingQuantity(order[book[side][i].order])
             /\ book[side][i].order \in Resting(side)
  <2> DEFINE o == book[side][i].order
  <2>1. o \in Orders /\ book[side][i].remaining > 0
    BY EntryFacts DEF ExactBook, IInv, BookInv
  <2>2. InFlight(o) = 0 /\ RemainingQuantity(order[o]) \in Int
    BY <2>1, NotInFlight, OrderFacts DEF ExactBook, IInv, RemainingQuantity
  <2>3. book[side][i].remaining = RemainingQuantity(order[o])
    BY <2>2 DEF ExactBook, EntriesExact
  <2>4. o \in ToSet(accepted)
    <3>1. PICK k \in 1..Received : accepted[k] = o
      BY DEF ExactBook, BookShape, TimeOrder, Among
    <3>2. k \in 1..Len(accepted)
      BY <1>0
    <3> QED BY <1>1, <3>1, <3>2
  <2>5. o \notin ToSet(ch) /\ o # cur /\ order[o].side = side
    BY <1>1 DEF ExactBook, IInv, BookInv
  <2>6. IsActive(order[o])
    <3>1. order[o].status \in Statuses /\ order[o].quantity \in Nat /\ order[o].filled \in Nat
      BY <2>1, OrderFacts DEF ExactBook, IInv
    <3>2. order[o].filled # order[o].quantity
      BY <2>1, <2>3, <3>1 DEF RemainingQuantity
    <3>3. order[o].status # "FILLED"
      BY <2>1, <3>2 DEF ExactBook, IInv, NoOverfill
    <3> QED BY <3>1, <3>3 DEF IsActive, Statuses
  <2> QED BY <2>1, <2>3, <2>4, <2>5, <2>6 DEF Resting, Processed
<1>3. ASSUME NEW o \in Resting(side)
      PROVE  o \in Listed(side)
  <2>1. /\ o \in ToSet(accepted) /\ o \notin ToSet(ch) /\ o # cur
        /\ order[o].side = side /\ RemainingQuantity(order[o]) > 0
    BY DEF Resting, Processed
  <2>2. PICK k \in 1..Len(accepted) : accepted[k] = o
    BY <1>1, <2>1
  <2>3. k \in 1..Received
    <3>1. k \notin Received + 1..Len(accepted)
      BY <1>0, <1>1, <2>1, <2>2
    <3> QED BY <1>0, <3>1
  <2>4. \E i \in 1..Len(book[side]) : book[side][i].order = o
    BY <2>1, <2>2, <2>3 DEF ExactBook, AllRest
  <2> QED BY <2>4 DEF Listed
<1> QED BY <1>2, <1>3 DEF Listed

\* Between orders the book holds exactly the active processed orders, each
\* once and with its true remaining quantity, and the duplicate guard's index
\* names exactly them, for every set of orders and any interleaving with the
\* handlers, provided tradeRepo.Save does not fail.
THEOREM RemaindersRest ==
  ASSUME "saveTrade" \notin Failures
  PROVE  Spec => []RemainderRests
<1>1. ExactBook => RemainderRests
  <2> SUFFICES ASSUME ExactBook, mpc \in {"idle", "stopped"}, NEW side \in Sides
               PROVE  /\ {<<e.order, e.remaining>> : e \in ToSet(book[side])}
                           = {<<o, RemainingQuantity(order[o])>> : o \in Resting(side)}
                      /\ Len(book[side]) = Cardinality(Resting(side))
                      /\ index = Resting("BUY") \cup Resting("SELL")
    BY DEF RemainderRests
  <2>0. mpc \notin TradeSteps /\ "BUY" \in Sides /\ "SELL" \in Sides
    BY DEF TradeSteps, Sides
  <2>1. /\ Resting(side) = Listed(side)
        /\ Resting("BUY") = Listed("BUY") /\ Resting("SELL") = Listed("SELL")
    BY <2>0, ListedIsResting
  <2>2. \A i \in 1..Len(book[side]) :
          book[side][i].remaining = RemainingQuantity(order[book[side][i].order])
    BY <2>0, ListedIsResting
  <2>3. book[side] \in Seq(EntryRec) /\ Len(book[side]) \in Nat
    BY DEF ExactBook, IInv, TypeOK
  <2>4. {<<e.order, e.remaining>> : e \in ToSet(book[side])}
          = {<<o, RemainingQuantity(order[o])>> : o \in Listed(side)}
    <3>1. ToSet(book[side]) = {book[side][i] : i \in 1..Len(book[side])}
      BY <2>3 DEF ToSet
    <3> QED BY <2>2, <3>1 DEF Listed
  <2>5. Len(book[side]) = Cardinality(Listed(side))
    <3> DEFINE f == [i \in 1..Len(book[side]) |-> book[side][i].order]
    <3>1. f \in Bijection(1..Len(book[side]), Listed(side))
      <4>1. f \in [1..Len(book[side]) -> Listed(side)]
        BY DEF Listed
      <4>2. \A i, j \in 1..Len(book[side]) : f[i] = f[j] => i = j
        BY DEF ExactBook, IInv, BookInv
      <4>3. \A o \in Listed(side) : \E i \in 1..Len(book[side]) : f[i] = o
        BY DEF Listed
      <4> QED BY <4>1, <4>2, <4>3 DEF Bijection, Injection, Surjection, IsInjective
    <3>2. ExistsBijection(1..Len(book[side]), Listed(side))
      BY <3>1 DEF ExistsBijection
    <3> QED BY <2>3, <3>2, FS_CountingElements
  <2>6. index = Listed("BUY") \cup Listed("SELL")
    <3>1. \A o \in index : o \in Listed("BUY") \/ o \in Listed("SELL")
      BY DEF ExactBook, BookShape, IndexInv, Listed, Sides
    <3>2. \A s \in Sides : \A o \in Listed(s) : o \in index
      BY DEF ExactBook, IInv, BookInv, Listed
    <3> QED BY <2>0, <3>1, <3>2
  <2> QED BY <2>1, <2>4, <2>5, <2>6
<1> QED BY <1>1, ExactBookInvariance, PTL

\* Between orders no processed bid with something left reaches a processed ask
\* with something left: matchBuy and matchSell have made every possible match,
\* provided tradeRepo.Save does not fail.
THEOREM NeverCrossed ==
  ASSUME "saveTrade" \notin Failures
  PROVE  Spec => []NotCrossed
<1>1. ExactBook => NotCrossed
  <2> SUFFICES ASSUME ExactBook, mpc \in {"idle", "stopped"},
                      NEW b \in Resting("BUY"), NEW s \in Resting("SELL")
               PROVE  order[b].price < order[s].price
    BY DEF NotCrossed
  <2>0. mpc \notin TradeSteps /\ "BUY" \in Sides /\ "SELL" \in Sides
    BY DEF TradeSteps, Sides
  <2>1. b \in Listed("BUY") /\ s \in Listed("SELL")
    BY <2>0, ListedIsResting
  <2>2. PICK i \in 1..Len(book["BUY"]) : book["BUY"][i].order = b
    BY <2>1 DEF Listed
  <2>3. PICK j \in 1..Len(book["SELL"]) : book["SELL"][j].order = s
    BY <2>1 DEF Listed
  <2>4. book["BUY"][i].price = order[b].price /\ book["SELL"][j].price = order[s].price
    BY <2>0, <2>2, <2>3 DEF ExactBook, EntryPrices
  <2> QED BY <2>4 DEF ExactBook, BookShape, Uncrossed
<1> QED BY <1>1, ExactBookInvariance, PTL

\* An order's arrival is its one place in the arrival order.
LEMMA ArrivalIs ==
  ASSUME IInv, ArrivalInv, NEW k \in 1..Len(accepted)
  PROVE  Arrival(accepted[k]) = k
<1>1. DOMAIN accepted = 1..Len(accepted)
  BY DEF IInv, TypeOK
<1>2. \A i \in DOMAIN accepted : accepted[i] = accepted[k] => i = k
  BY <1>1 DEF ArrivalInv
<1> QED BY <1>1, <1>2 DEF Arrival

\* The head of a side precedes every other order with something left there.
LEMMA HeadIsFirst ==
  ASSUME ExactBook, mpc \notin TradeSteps, NEW side \in Sides, book[side] # <<>>
  PROVE  /\ Head(book[side]) = book[side][1]
         /\ book[side][1].order \in Resting(side)
         /\ \A z \in Resting(side) \ {book[side][1].order} : Precedes(book[side][1].order, z)
<1>1. book[side] \in Seq(EntryRec) /\ Head(book[side]) = book[side][1] /\ 1 \in 1..Len(book[side])
  BY DEF ExactBook, IInv, TypeOK
<1>2. book[side][1].order \in Resting(side)
  BY <1>1, ListedIsResting DEF Listed
<1>3. ASSUME NEW z \in Resting(side), z # book[side][1].order
      PROVE  Precedes(book[side][1].order, z)
  <2> DEFINE x == book[side][1].order
  <2>1. PICK j \in 1..Len(book[side]) : book[side][j].order = z
    BY ListedIsResting DEF Listed
  <2>2. 1 < j
    BY <1>1, <1>3, <2>1
  <2>3. /\ book[side][1].price = order[x].price /\ book[side][j].price = order[z].price
        /\ order[x].side = side
    BY <1>1, <2>1 DEF ExactBook, EntryPrices, IInv, BookInv
  <2>4. book[side][1].price \in Int /\ book[side][j].price \in Int
    BY <1>1, EntryFacts, EntryPrice DEF ExactBook, IInv
  <2>5. ~Better(side, book[side][j].price, book[side][1].price)
    BY <1>1, <2>2 DEF ExactBook, IInv, BookInv, SortedPrices
  <2>6. CASE book[side][1].price # book[side][j].price
    <3>1. Better(side, order[x].price, order[z].price)
      BY <2>3, <2>4, <2>5, <2>6 DEF Better
    <3> QED BY <2>3, <3>1 DEF Precedes
  <2>7. CASE book[side][1].price = book[side][j].price
    <3>0. IInv /\ ArrivalInv /\ TimeOrder
      BY DEF ExactBook, BookShape
    <3>1. PICK k \in 1..Received : accepted[k] = x /\ k \in 1..Len(accepted)
      BY <1>1, <3>0, EntryArrival
    <3>2. PICK l \in 1..Received : accepted[l] = z /\ l \in 1..Len(accepted)
      BY <2>1, <3>0, EntryArrival
    <3>3. Fifo(book[side], accepted)
      BY <3>0 DEF TimeOrder
    <3>4. k < l
      BY <1>1, <2>1, <2>2, <2>7, <3>1, <3>2, <3>3 DEF Fifo
    <3>5. Arrival(x) = k /\ Arrival(z) = l
      BY <3>0, <3>1, <3>2, ArrivalIs
    <3> QED BY <2>3, <2>7, <3>4, <3>5 DEF Precedes
  <2> QED BY <2>6, <2>7
<1> QED BY <1>1, <1>2, <1>3

\* A trade takes the resting order that price-time priority puts first among
\* all processed orders with quantity left, at that order's price, provided
\* tradeRepo.Save does not fail: the stable sort of addOrder is enough, however
\* often the sides were sorted, shortened and refilled before.
THEOREM PriceTimeOrder ==
  ASSUME "saveTrade" \notin Failures
  PROVE  Spec => PriceTimePriority
<1>1. ExactBook /\ [Next]_vars => [TradeTakesFirst]_vars
  <2> SUFFICES ASSUME ExactBook, [Next]_vars PROVE TradeTakesFirst
    OBVIOUS
  <2>1. CASE SaveTrade
    <3>1. mpc = "match" /\ CanTrade /\ trades' = Append(trades, NextTrade) /\ mpc \notin TradeSteps
      BY <2>1 DEF SaveTrade, TradeSteps
    <3>2. cur \in Orders
      BY <3>1 DEF ExactBook, IInv, QueueInv, TypeOK
    <3>3. PassiveSide \in Sides /\ book[PassiveSide] # <<>>
      BY <3>1, <3>2, OrderFacts DEF CanTrade, ExactBook, IInv, PassiveSide, Opposite, Sides
    <3> DEFINE best == book[PassiveSide][1]
               t == NextTrade
    <3>4. /\ Head(book[PassiveSide]) = best
          /\ best.order \in Resting(PassiveSide)
          /\ \A z \in Resting(PassiveSide) \ {best.order} : Precedes(best.order, z)
      BY <3>1, <3>3, HeadIsFirst
    <3>5. 1 \in 1..Len(book[PassiveSide])
      BY <3>3 DEF ExactBook, IInv, TypeOK
    <3>6. best.order # cur /\ best.price = order[best.order].price
      BY <3>3, <3>5 DEF ExactBook, IInv, BookInv, EntryPrices
    <3>7. /\ t.buy = IF order[cur].side = "BUY" THEN cur ELSE best.order
          /\ t.sell = IF order[cur].side = "BUY" THEN best.order ELSE cur
          /\ t.price = best.price
      BY <3>4 DEF NextTrade
    <3> HIDE DEF t
    <3>8. (IF t.buy = cur THEN t.sell ELSE t.buy) = best.order
      BY <3>6, <3>7
    <3>9. Last(trades') = t
      <4>1. trades \in Seq(TradeRec) /\ t = NextTrade
        BY DEF ExactBook, IInv, TypeOK, t
      <4>2. trades' = Append(trades, t)
        BY <3>1, <4>1
      <4> QED BY <4>1, <4>2 DEF Last
    <3> QED BY <3>4, <3>6, <3>7, <3>8, <3>9 DEF TradeTakesFirst
  <2>2. CASE ~SaveTrade
    <3>1. trades' = trades
      BY <2>2 DEF Next, MatcherStep, CreateOrder, SaveOrder, SubmitOrder, PublishCreated,
                  Receive, FillBuy, FillSell, FillOrder, UpdateBuy, UpdateSell, UpdateOrder,
                  UpdateTicker, PublishTrade, PublishBuy, PublishSell, PublishStep, Settle,
                  RestOrder, InitStock, Stop, Terminated, vars
    <3> QED BY <3>1 DEF TradeTakesFirst
  <2> QED BY <2>1, <2>2
<1> QED BY <1>1, ExactBookInvariance, PTL DEF Spec, PriceTimePriority

\* Even where a trade is lost the book itself is never crossed, at any step of
\* the matching loop: a bid and an ask that both have entries never overlap.
THEOREM BookNeverCrossed == Spec => []Uncrossed
<1>1. IInv /\ EntryPrices /\ BookShape => Uncrossed
  BY DEF BookShape
<1> QED BY <1>1, BookShapeInvariance, PTL

-----------------------------------------------------------------------------
\* Each step keeps the rows current but for the trade in progress, if
\* orderRepo.Update does not fail.
LEMMA RowsCurrentStep ==
  ASSUME "updateOrder" \notin Failures, IInv, RowsCurrent, [Next]_vars
  PROVE  RowsCurrent'
<1>0. repo \in [Orders -> [status : Statuses \cup {"NONE"}, filled : Nat]]
  BY DEF IInv, TypeOK
<1>1. ASSUME UNCHANGED <<order, repo>>,
             mpc \notin {"fillSell", "updateBuy", "updateSell"}
      PROVE  RowsCurrent'
  BY <1>1 DEF RowsCurrent
<1>2. ASSUME UNCHANGED <<order, repo, trade, mpc>> PROVE RowsCurrent'
  BY <1>2 DEF RowsCurrent
<1>3. ASSUME NEW o \in Orders, SaveOrder(o) PROVE RowsCurrent'
  <2>1. UNCHANGED <<order, trade, mpc>>
    BY <1>3 DEF SaveOrder, matcherVars
  <2>2. CASE repo' = repo
    BY <1>2, <2>1, <2>2
  <2>3. CASE repo' = [repo EXCEPT ![o] = Row(order[o])]
    <3>1. \A x \in Orders : repo'[x] = repo[x] \/ repo'[x] = Row(order[x])
      BY <1>0, <2>3
    <3> QED BY <2>1, <3>1 DEF RowsCurrent
  <2> QED BY <1>3, <2>2, <2>3 DEF SaveOrder
<1>4. ASSUME NEW o \in Orders, SubmitOrder(o) \/ PublishCreated(o) PROVE RowsCurrent'
  <2>1. UNCHANGED <<order, repo, trade, mpc>>
    BY <1>4 DEF SubmitOrder, PublishCreated, matcherVars
  <2> QED BY <1>2, <2>1
<1>5. CASE Receive \/ SaveTrade \/ Settle \/ RestOrder
  <2>1. UNCHANGED <<order, repo>> /\ mpc \in {"idle", "match", "settle"}
    BY <1>5 DEF Receive, SaveTrade, Settle, RestOrder
  <2> QED BY <1>1, <2>1
<1>6. CASE FillBuy \/ FillSell
  <2> DEFINE y == IF mpc = "fillBuy" THEN trade.buy ELSE trade.sell
  <2>1. /\ mpc \in {"fillBuy", "fillSell"}
        /\ mpc' = IF mpc = "fillBuy" THEN "fillSell" ELSE "updateBuy"
        /\ order' = [order EXCEPT ![y] = Fill(@, trade.qty)]
        /\ UNCHANGED <<trade, repo>>
    BY <1>6 DEF FillBuy, FillSell, FillOrder
  <2>2. order \in [Orders -> OrderRec]
    BY DEF IInv, TypeOK
  <2>3. \A x \in Orders : x = y \/ order'[x] = order[x]
    BY <2>1, <2>2
  <2> QED BY <2>1, <2>3 DEF RowsCurrent
<1>7. CASE UpdateBuy
  <2>1. /\ mpc = "updateBuy" /\ mpc' = "updateSell" /\ UNCHANGED <<order, trade>>
        /\ \/ repo[trade.buy].status # "NONE" /\ repo' = [repo EXCEPT ![trade.buy] = Row(order[trade.buy])]
           \/ repo[trade.buy].status = "NONE" /\ repo' = repo
    BY <1>7 DEF UpdateBuy, UpdateOrder
  <2>2. trade.buy \in Orders
    BY <2>1, TradeParties DEF TradeSteps
  <2>3. \A x \in Orders : \/ x # trade.buy /\ repo'[x] = repo[x]
                          \/ x = trade.buy /\ repo'[x] = Row(order[x])
                          \/ x = trade.buy /\ repo'[x].status = "NONE"
    BY <1>0, <2>1, <2>2
  <2> QED BY <2>1, <2>3 DEF RowsCurrent
<1>8. CASE UpdateSell
  <2>1. /\ mpc = "updateSell" /\ mpc' = "ticker" /\ UNCHANGED <<order, trade>>
        /\ \/ repo[trade.sell].status # "NONE" /\ repo' = [repo EXCEPT ![trade.sell] = Row(order[trade.sell])]
           \/ repo[trade.sell].status = "NONE" /\ repo' = repo
    BY <1>8 DEF UpdateSell, UpdateOrder
  <2>2. trade.sell \in Orders
    BY <2>1, TradeParties DEF TradeSteps
  <2>3. \A x \in Orders : \/ x # trade.sell /\ repo'[x] = repo[x]
                          \/ x = trade.sell /\ repo'[x] = Row(order[x])
                          \/ x = trade.sell /\ repo'[x].status = "NONE"
    BY <1>0, <2>1, <2>2
  <2> QED BY <2>1, <2>3 DEF RowsCurrent
<1>9. ASSUME UNCHANGED <<order, repo>>,
             mpc \in TradeSteps \ {"fillBuy", "fillSell", "updateBuy", "updateSell"}
      PROVE  RowsCurrent'
  BY <1>1, <1>9
<1> QED BY <1>2, <1>3, <1>4, <1>5, <1>6, <1>7, <1>8, <1>9, StepKinds

\* Between orders every stored row is its order, whichever handler's Save or
\* matcher's Update came last and whichever trades were lost, provided
\* orderRepo.Update does not fail.
THEOREM RowsCatchUpAlways ==
  ASSUME "updateOrder" \notin Failures
  PROVE  Spec => []RowsCatchUp
<1>1. Init => RowsCurrent
  BY DEF Init, RowsCurrent, NoRow
<1>2. IInv /\ RowsCurrent /\ [Next]_vars => RowsCurrent'
  BY RowsCurrentStep
<1>3. RowsCurrent => RowsCatchUp
  BY DEF RowsCurrent, RowsCatchUp
<1> QED BY <1>1, <1>2, <1>3, Invariance, PTL DEF Spec

-----------------------------------------------------------------------------
(***************************************************************************)
(* The stored depth.  MapThenSumSet folds over a set and aggregateLevels   *)
(* over the entries of a side: each is first shown to take one step per    *)
(* element.                                                                *)
(***************************************************************************)
\* What a set of orders has left together.
Unfilled(S) == MapThenSumSet(LAMBDA o : RemainingQuantity(order[o]), S)

\* The element MapThenSumSet takes next.
Choice(W) == [T \in SUBSET W |-> CHOOSE x \in T : TRUE]

\* What each order of W has left.
Remainders(W) == [o \in W |-> RemainingQuantity(order[o])]

\* The sum is a fold over the subsets of any finite set of orders.
LEMMA UnfilledFold ==
  ASSUME TypeOK, NEW W \in SUBSET Orders, IsFiniteSet(W)
  PROVE  \E g \in [SUBSET W -> Int] :
           /\ Folded(g, W, 0, Choice(W), Adding(Remainders(W), W))
           /\ \A T \in SUBSET W : Unfilled(T) = g[T]
<1> DEFINE q == Remainders(W)
           E(f, V) == f = [s \in SUBSET V |->
                             IF s = {} THEN 0
                             ELSE RemainingQuantity(order[CHOOSE x \in s : TRUE])
                                    + f[s \ {CHOOSE x \in s : TRUE}]]
           sum(V) == CHOOSE f : E(f, V)
<1>1. q \in [W -> Int]
  <2>1. ASSUME NEW o \in W PROVE RemainingQuantity(order[o]) \in Int
    BY OrderFacts DEF RemainingQuantity
  <2> QED BY <2>1 DEF Remainders
<1>2. Adding(q, W) \in [Int \X W -> Int]
  <2>1. ASSUME NEW p \in Int \X W PROVE p[1] + q[p[2]] \in Int
    BY <1>1
  <2> HIDE DEF q
  <2> QED BY <2>1 DEF Adding
<1>3. \A V \in SUBSET W : \A T \in SUBSET V : T # {} =>
        Choice(V)[T] \in T /\ Choice(V)[T] = Choice(W)[T] /\ Choice(V)[T] = (CHOOSE x \in T : TRUE)
  BY DEF Choice
<1>4. PICK g \in [SUBSET W -> Int] : Folded(g, W, 0, Choice(W), Adding(q, W))
  <2>1. \A T \in SUBSET W : T # {} => Choice(W)[T] \in T
    BY <1>3
  <2>2. 0 \in Int
    OBVIOUS
  <2> HIDE DEF q
  <2> QED BY <1>2, <2>1, <2>2, FoldExists, Zenon
<1>5. ASSUME NEW T \in SUBSET W, T # {}
      PROVE  /\ Choice(W)[T] \in T /\ Choice(W)[T] = CHOOSE x \in T : TRUE
             /\ \A a \in Int : Adding(q, W)[<<a, Choice(W)[T]>>]
                                 = RemainingQuantity(order[Choice(W)[T]]) + a
  <2>1. Choice(W)[T] \in T /\ Choice(W)[T] = CHOOSE x \in T : TRUE
    BY <1>3, <1>5
  <2>2. Choice(W)[T] \in W
    BY <2>1
  <2>3. ASSUME NEW a \in Int
        PROVE  Adding(q, W)[<<a, Choice(W)[T]>>] = RemainingQuantity(order[Choice(W)[T]]) + a
    <3>1. q[Choice(W)[T]] = RemainingQuantity(order[Choice(W)[T]]) /\ q[Choice(W)[T]] \in Int
      BY <1>1, <2>2 DEF Remainders
    <3> HIDE DEF q
    <3>2. Adding(q, W)[<<a, Choice(W)[T]>>] = a + q[Choice(W)[T]]
      BY <2>2 DEF Adding
    <3> QED BY <3>1, <3>2
  <2> QED BY <2>1, <2>3
<1> HIDE DEF q
<1>6. ASSUME NEW V \in SUBSET W PROVE Unfilled(V) = g[V]
  <2> DEFINE h == [s \in SUBSET V |-> g[s]]
  <2>1. E(h, V)
    <3>1. ASSUME NEW s \in SUBSET V
          PROVE  h[s] = IF s = {} THEN 0
                        ELSE RemainingQuantity(order[CHOOSE x \in s : TRUE])
                               + h[s \ {CHOOSE x \in s : TRUE}]
      <4>1. CASE s = {}
        BY <1>4, <4>1 DEF Folded
      <4>2. CASE s # {}
        <5> DEFINE y == Choice(W)[s]
        <5>1. y \in s /\ y = CHOOSE x \in s : TRUE
          BY <1>5, <4>2
        <5> HIDE DEF y
        <5>2. s \ {y} \in SUBSET V /\ s \ {y} \in SUBSET W /\ s \in SUBSET W
          OBVIOUS
        <5>3. g[s] = Adding(q, W)[<<g[s \ {y}], y>>]
          BY <1>4, <4>2, <5>2 DEF Folded, y
        <5>4. g[s] = RemainingQuantity(order[y]) + g[s \ {y}]
          BY <1>5, <4>2, <5>2, <5>3 DEF y
        <5>5. h[s] = g[s] /\ h[s \ {y}] = g[s \ {y}]
          BY <5>2
        <5> HIDE DEF h
        <5> QED BY <4>2, <5>1, <5>4, <5>5
      <4> QED BY <4>1, <4>2
    <3>2. h = [s \in SUBSET V |-> h[s]]
      OBVIOUS
    <3> HIDE DEF h
    <3> QED BY <3>1, <3>2
  <2>2. E(sum(V), V)
    <3> HIDE DEF E, h
    <3> QED BY <2>1
  <2>3. Unfilled(V) = sum(V)[V]
    BY DEF Unfilled, MapThenSumSet, MapThenFoldSet
  <2> DEFINE f == sum(V)
  <2> HIDE DEF sum
  <2>4. f[{}] = g[{}]
    BY <1>4, <2>2 DEF Folded
  <2> DEFINE G == {T \in SUBSET V : f[T] = g[T]}
  <2>5. ASSUME NEW T \in SUBSET V, T # {} PROVE \E x \in T : T \ {x} \in G => T \in G
    <3> DEFINE y == CHOOSE x \in T : TRUE
    <3>1. y \in T /\ T \ {y} \in SUBSET V
      BY <2>5
    <3> HIDE DEF y
    <3>2. f[T] = RemainingQuantity(order[y]) + f[T \ {y}]
      BY <2>2, <2>5 DEF y
    <3>3. h[T] = RemainingQuantity(order[y]) + h[T \ {y}]
      <4> HIDE DEF h
      <4> QED BY <2>1, <2>5 DEF y
    <3>4. T \ {y} \in G => T \in G
      BY <3>1, <3>2, <3>3
    <3> QED BY <3>1, <3>4
  <2>6. IsFiniteSet(V) /\ {} \in G
    BY <2>4, FS_Subset
  <2>7. V \in G
    <3> HIDE DEF G
    <3> QED BY <2>5, <2>6, SubsetInduction
  <2> QED BY <2>3, <2>7
<1> QED BY <1>4, <1>6 DEF q

\* One order more.
LEMMA UnfilledAdd ==
  ASSUME TypeOK, NEW T \in SUBSET Orders, IsFiniteSet(T), NEW x \in Orders, x \notin T
  PROVE  /\ Unfilled({}) = 0 /\ Unfilled(T) \in Int
         /\ Unfilled(T \cup {x}) = Unfilled(T) + RemainingQuantity(order[x])
<1> DEFINE W == T \cup {x}
           q == Remainders(W)
<1>1. W \in SUBSET Orders /\ IsFiniteSet(W)
  BY FS_AddElement
<1>2. PICK g \in [SUBSET W -> Int] :
        Folded(g, W, 0, Choice(W), Adding(q, W)) /\ \A S \in SUBSET W : Unfilled(S) = g[S]
  <2> HIDE DEF W
  <2> QED BY <1>1, UnfilledFold DEF q
<1>3. q \in [W -> Int]
  <2>1. ASSUME NEW o \in W PROVE RemainingQuantity(order[o]) \in Int
    BY OrderFacts DEF RemainingQuantity
  <2> QED BY <2>1 DEF Remainders
<1>4. \A S \in SUBSET W : S # {} => Choice(W)[S] \in S
  BY DEF Choice
<1>5. SumsOver(g, W, q, Choice(W))
  <2> HIDE DEF W, q
  <2> QED BY <1>1, <1>2, <1>3, <1>4 DEF SumsOver
<1>6. W \in SUBSET W /\ T \in SUBSET W /\ {} \in SUBSET W /\ x \in W /\ W \ {x} = T
  OBVIOUS
<1>7. q[x] = RemainingQuantity(order[x])
  BY <1>6 DEF Remainders
<1>8. g[{}] = 0
  BY <1>2 DEF Folded
<1>9. g[W] = g[T] + q[x]
  <2>1. g[W] = g[W \ {x}] + q[x]
    <3>1. W \in SUBSET W /\ x \in W
      OBVIOUS
    <3> HIDE DEF W, q
    <3> QED BY <1>5, <3>1, SumRemove
  <2> QED BY <1>6, <2>1
<1>10. g[T] \in Int /\ Unfilled(T) = g[T] /\ Unfilled(W) = g[W] /\ Unfilled({}) = g[{}]
  BY <1>2, <1>6
<1> QED BY <1>7, <1>8, <1>9, <1>10

-----------------------------------------------------------------------------
(***************************************************************************)
(* aggregateLevels, one iteration after the other.                         *)
(***************************************************************************)
Level    == [price : Prices, quantity : Int, count : Int]
LevelAcc == [levels : Seq(Level), stopped : BOOLEAN]
NoLevels == [levels |-> <<>>, stopped |-> FALSE]

\* One iteration.
LevelStep(acc, e, maxLevels) ==
  LET ls == acc.levels
      n  == Len(ls)
  IN  IF acc.stopped \/ e.remaining <= 0 THEN acc
      ELSE IF n > 0 /\ ls[n].price = e.price
      THEN [acc EXCEPT !.levels[n] = [price    |-> @.price,
                                      quantity |-> @.quantity + e.remaining,
                                      count    |-> @.count + 1]]
      ELSE IF maxLevels > 0 /\ n >= maxLevels
      THEN [acc EXCEPT !.stopped = TRUE]
      ELSE [acc EXCEPT !.levels = Append(@,
              [price |-> e.price, quantity |-> e.remaining, count |-> 1])]

\* Its four outcomes.
LEMMA LevelStepIs ==
  ASSUME NEW acc \in LevelAcc, NEW e \in EntryRec, NEW max \in Nat, e.remaining > 0
  PROVE  LET ls == acc.levels
             n  == Len(acc.levels)
             r  == LevelStep(acc, e, max)
         IN  /\ r \in LevelAcc
             /\ \/ acc.stopped = TRUE /\ r = acc
                \/ /\ acc.stopped = FALSE /\ r.stopped = FALSE
                   /\ n > 0 /\ ls[n].price = e.price
                   /\ Len(r.levels) = n
                   /\ \A j \in 1..n - 1 : r.levels[j] = ls[j]
                   /\ r.levels[n].price = e.price
                   /\ r.levels[n].quantity = ls[n].quantity + e.remaining
                   /\ r.levels[n].count = ls[n].count + 1
                \/ /\ acc.stopped = FALSE /\ r.stopped = TRUE /\ r.levels = ls
                   /\ ~(n > 0 /\ ls[n].price = e.price)
                   /\ max > 0 /\ n >= max
                \/ /\ acc.stopped = FALSE /\ r.stopped = FALSE
                   /\ ~(n > 0 /\ ls[n].price = e.price)
                   /\ ~(max > 0 /\ n >= max)
                   /\ Len(r.levels) = n + 1
                   /\ \A j \in 1..n : r.levels[j] = ls[j]
                   /\ r.levels[n + 1].price = e.price
                   /\ r.levels[n + 1].quantity = e.remaining
                   /\ r.levels[n + 1].count = 1
<1> DEFINE ls == acc.levels
           n  == Len(ls)
           r  == LevelStep(acc, e, max)
           new == [price |-> e.price, quantity |-> e.remaining, count |-> 1]
<1>1. /\ ls \in Seq(Level) /\ acc.stopped \in BOOLEAN /\ n \in Nat
      /\ e.price \in Prices /\ e.remaining \in Nat
  BY DEF LevelAcc, EntryRec
<1>2. acc = [levels |-> ls, stopped |-> acc.stopped]
  BY DEF LevelAcc
<1>3. CASE acc.stopped
  <2>1. r = acc /\ acc.stopped = TRUE
    BY <1>1, <1>3 DEF LevelStep
  <2> QED BY <2>1
<1>4. CASE ~acc.stopped /\ n > 0 /\ ls[n].price = e.price
  <2> DEFINE l == ls[n]
             l2 == [price    |-> l.price,
                    quantity |-> l.quantity + e.remaining,
                    count    |-> l.count + 1]
             ms == [ls EXCEPT ![n] = l2]
  <2>1. n \in 1..n /\ l \in Level
    BY <1>1, <1>4
  <2>2. /\ l2 \in Level /\ l2.price = l.price
        /\ l2.quantity = l.quantity + e.remaining /\ l2.count = l.count + 1
    BY <1>1, <2>1 DEF Level
  <2>3. r = [acc EXCEPT !.levels[n] = [price    |-> @.price,
                                       quantity |-> @.quantity + e.remaining,
                                       count    |-> @.count + 1]]
    BY <1>1, <1>4 DEF LevelStep
  <2>4. r = [levels |-> ms, stopped |-> acc.stopped]
    <3>2. r = [acc EXCEPT !.levels[n] = l2]
      BY <2>3
    <3> HIDE DEF r, l2
    <3> QED BY <1>2, <3>2
  <2>5. ms \in Seq(Level) /\ Len(ms) = n /\ ms[n] = l2 /\ \A j \in 1..n - 1 : ms[j] = ls[j]
    <3> HIDE DEF l2
    <3> QED BY <1>1, <2>1, <2>2
  <2>6. acc.stopped = FALSE
    BY <1>1, <1>4
  <2> HIDE DEF ms, l2, r
  <2>7. r.levels = ms /\ r.stopped = FALSE /\ r \in LevelAcc
    BY <2>4, <2>5, <2>6 DEF LevelAcc
  <2> QED BY <1>4, <2>2, <2>5, <2>6, <2>7 DEF r
<1>5. CASE ~acc.stopped /\ ~(n > 0 /\ ls[n].price = e.price) /\ max > 0 /\ n >= max
  <2>1. r = [acc EXCEPT !.stopped = TRUE]
    BY <1>1, <1>5 DEF LevelStep
  <2>2. r = [levels |-> ls, stopped |-> TRUE]
    BY <1>2, <2>1
  <2>3. acc.stopped = FALSE
    BY <1>1, <1>5
  <2> HIDE DEF r
  <2>4. r.levels = ls /\ r.stopped = TRUE /\ r \in LevelAcc
    BY <1>1, <2>2 DEF LevelAcc
  <2> QED BY <1>5, <2>3, <2>4 DEF r
<1>6. CASE ~acc.stopped /\ ~(n > 0 /\ ls[n].price = e.price) /\ ~(max > 0 /\ n >= max)
  <2>1. r = [acc EXCEPT !.levels = Append(@, new)]
    BY <1>1, <1>6 DEF LevelStep
  <2>2. r = [levels |-> Append(ls, new), stopped |-> acc.stopped]
    BY <1>2, <2>1
  <2>3. acc.stopped = FALSE
    BY <1>1, <1>6
  <2>4. new \in Level /\ new.price = e.price /\ new.quantity = e.remaining /\ new.count = 1
    BY <1>1 DEF Level
  <2> DEFINE ms == Append(ls, new)
  <2>5. ms \in Seq(Level) /\ Len(ms) = n + 1 /\ ms[n + 1] = new /\ \A j \in 1..n : ms[j] = ls[j]
    <3> HIDE DEF new
    <3> QED BY <1>1, <2>4
  <2> HIDE DEF r, ms, new
  <2>6. r.levels = ms /\ r.stopped = FALSE /\ r \in LevelAcc
    BY <2>2, <2>3, <2>5 DEF LevelAcc, ms
  <2> QED BY <1>6, <2>3, <2>4, <2>5, <2>6 DEF r
<1> QED BY <1>3, <1>4, <1>5, <1>6

\* The largest of a set of positions.
LEMMA MaxIs ==
  ASSUME NEW n \in Nat, NEW T \in SUBSET (1..n), T # {}
  PROVE  Max(T) \in T /\ \A y \in T : Max(T) >= y
<1> DEFINE D == {n - y : y \in T}
<1>1. D \in SUBSET Nat /\ D # {}
  <2>1. ASSUME NEW y \in T PROVE n - y \in Nat
    <3>1. y \in 1..n
      OBVIOUS
    <3> QED BY <3>1
  <2>2. PICK y \in T : TRUE
    OBVIOUS
  <2>3. n - y \in D
    OBVIOUS
  <2> QED BY <2>1, <2>3
<1>2. PICK d \in D : \A k \in D : d <= k
  BY <1>1, LeastElement
<1>3. PICK x \in T : d = n - x
  BY <1>2
<1>4. ASSUME NEW y \in T PROVE x >= y
  <2>1. n - y \in D
    OBVIOUS
  <2>2. n - x <= n - y /\ x \in 1..n /\ y \in 1..n
    BY <1>2, <1>3, <2>1
  <2> QED BY <2>2
<1>5. \E z \in T : \A y \in T : z >= y
  BY <1>4
<1> QED BY <1>5 DEF Max

LEMMA MaxOfPrefix ==
  ASSUME NEW n \in Nat, n > 0
  PROVE  Max(1..n) = n /\ (1..n) \ {n} = 1..n - 1
<1>1. 1..n \in SUBSET (1..n) /\ 1..n # {}
  OBVIOUS
<1>2. Max(1..n) \in 1..n /\ \A y \in 1..n : Max(1..n) >= y
  BY <1>1, MaxIs
<1>3. n \in 1..n
  OBVIOUS
<1>4. Max(1..n) = n
  BY <1>2, <1>3
<1>5. (1..n) \ {n} = 1..n - 1
  OBVIOUS
<1> QED BY <1>4, <1>5

\* AggregateLevels takes one step per entry.
LEMMA AggregateLoop ==
  ASSUME NEW s \in Seq(EntryRec), NEW max \in Nat, \A k \in 1..Len(s) : s[k].remaining > 0
  PROVE  \E a \in [0..Len(s) -> LevelAcc] :
           /\ a[0] = NoLevels
           /\ \A n \in 1..Len(s) : a[n] = LevelStep(a[n - 1], s[n], max)
           /\ AggregateLevels(s, max) = a[Len(s)].levels
<1> DEFINE N == Len(s)
           W == 1..N
           c == [T \in SUBSET W |-> Max(T)]
           H == [p \in LevelAcc \X W |-> LevelStep(p[1], s[p[2]], max)]
           E(f) == f = [T \in SUBSET DOMAIN s |->
                          IF T = {} THEN NoLevels
                          ELSE LevelStep(f[T \ {Max(T)}], s[Max(T)], max)]
           fold == CHOOSE f : E(f)
<1>1. N \in Nat /\ DOMAIN s = W /\ IsFiniteSet(W)
  BY FS_Interval
<1>2. \A k \in W : s[k] \in EntryRec /\ s[k].remaining > 0
  OBVIOUS
<1>3. NoLevels \in LevelAcc
  BY DEF NoLevels, LevelAcc
<1>4. H \in [LevelAcc \X W -> LevelAcc]
  <2>1. ASSUME NEW p \in LevelAcc \X W PROVE LevelStep(p[1], s[p[2]], max) \in LevelAcc
    BY <1>2, LevelStepIs
  <2> QED BY <2>1
<1>5. ASSUME NEW T \in SUBSET W, T # {} PROVE c[T] \in T /\ c[T] = Max(T)
  BY <1>1, <1>5, MaxIs
<1>6. PICK g \in [SUBSET W -> LevelAcc] : Folded(g, W, NoLevels, c, H)
  <2>1. \A T \in SUBSET W : T # {} => c[T] \in T
    BY <1>5
  <2> HIDE DEF W, c, H
  <2> QED BY <1>1, <1>3, <1>4, <2>1, FoldExists, Zenon
<1>7. E(g)
  <2>1. ASSUME NEW T \in SUBSET W
        PROVE  g[T] = IF T = {} THEN NoLevels ELSE LevelStep(g[T \ {Max(T)}], s[Max(T)], max)
    <3>1. CASE T = {}
      BY <1>6, <3>1 DEF Folded
    <3>2. CASE T # {}
      <4> DEFINE x == c[T]
      <4>1. x \in T /\ x = Max(T)
        BY <1>5, <3>2
      <4>2. g[T] = H[<<g[T \ {x}], x>>]
        BY <1>6, <3>2 DEF Folded
      <4> HIDE DEF x
      <4>3. x \in W /\ g[T \ {x}] \in LevelAcc
        BY <4>1
      <4>4. H[<<g[T \ {x}], x>>] = LevelStep(g[T \ {x}], s[x], max)
        BY <4>3
      <4> QED BY <3>2, <4>1, <4>2, <4>4
    <3> QED BY <3>1, <3>2
  <2>2. g = [T \in SUBSET W |-> g[T]]
    OBVIOUS
  <2> QED BY <1>1, <2>1, <2>2
<1>8. E(fold)
  <2> HIDE DEF E
  <2> QED BY <1>7
<1>9. AggregateLevels(s, max) = fold[DOMAIN s].levels
  BY DEF AggregateLevels, FoldLeft, MapThenFoldSet, LevelStep, NoLevels
<1> HIDE DEF fold
<1> DEFINE a == [n \in 0..N |-> fold[1..n]]
<1>10. a[0] = NoLevels
  <2>1. fold[{}] = NoLevels
    BY <1>8
  <2>2. 1..0 = {} /\ 0 \in 0..N
    BY <1>1
  <2> QED BY <2>1, <2>2
<1>11. ASSUME NEW n \in 1..N PROVE a[n] = LevelStep(a[n - 1], s[n], max)
  <2>1. n \in Nat /\ n > 0 /\ 1..n \in SUBSET W /\ 1..n # {} /\ n \in 0..N /\ n - 1 \in 0..N
    BY <1>1
  <2>2. Max(1..n) = n /\ (1..n) \ {n} = 1..n - 1
    BY <2>1, MaxOfPrefix
  <2>3. fold[1..n] = LevelStep(fold[(1..n) \ {Max(1..n)}], s[Max(1..n)], max)
    BY <1>1, <1>8, <2>1
  <2> QED BY <2>1, <2>2, <2>3
<1> DEFINE B == {n \in 0..N : a[n] \notin LevelAcc}
<1> HIDE DEF a
<1>12. ASSUME B # {} PROVE FALSE
  <2>1. PICK m \in B : \A k \in B : m <= k
    <3>1. B \in SUBSET Nat
      BY <1>1
    <3> HIDE DEF B
    <3> QED BY <1>12, <3>1, LeastElement
  <2>2. m # 0
    BY <1>3, <1>10
  <2>3. m \in 1..N /\ m - 1 \in 0..N /\ m - 1 \notin B
    BY <1>1, <2>1, <2>2
  <2>4. a[m - 1] \in LevelAcc
    BY <2>3
  <2>5. LevelStep(a[m - 1], s[m], max) \in LevelAcc
    <3>1. s[m] \in EntryRec /\ s[m].remaining > 0
      BY <1>2, <2>3
    <3> QED BY <2>4, <3>1, LevelStepIs
  <2> QED BY <1>11, <2>3, <2>5
<1>13. a \in [0..N -> LevelAcc]
  <2>1. \A n \in 0..N : a[n] \in LevelAcc
    BY <1>12
  <2> QED BY <2>1 DEF a
<1>14. AggregateLevels(s, max) = a[N].levels
  BY <1>1, <1>9 DEF a
<1> QED BY <1>10, <1>11, <1>13, <1>14

-----------------------------------------------------------------------------
(***************************************************************************)
(* The loop invariant.                                                     *)
(***************************************************************************)
\* The orders with one of the first i entries of s, at price p.
At(s, i, p) == {s[k].order : k \in {k \in 1..i : s[k].price = p}}

\* Entries as they stand in the book between orders.
Entries(s, side) ==
  /\ s \in Seq(EntryRec) /\ side \in Sides
  /\ SortedPrices(side, s)
  /\ \A k \in 1..Len(s) : /\ s[k].remaining > 0
                          /\ s[k].remaining = RemainingQuantity(order[s[k].order])
  /\ \A k, l \in 1..Len(s) : s[k].order = s[l].order => k = l

\* Each level is for a price of its own, better ones first, and counts the
\* entries at that price among the first i.
Counted(ls, s, i, side) ==
  /\ \A j \in 1..Len(ls) :
       /\ \E k \in 1..i : s[k].price = ls[j].price
       /\ ls[j].count = Cardinality(At(s, i, ls[j].price))
       /\ ls[j].quantity = Unfilled(At(s, i, ls[j].price))
  /\ \A j, k \in 1..Len(ls) : j < k => Better(side, ls[j].price, ls[k].price)

\* An entry has a level, or its price is worse than that of every level.
HasLevel(ls, e)         == \E j \in 1..Len(ls) : ls[j].price = e.price
PastLevels(ls, e, side) == \A j \in 1..Len(ls) : Better(side, ls[j].price, e.price)

LevelInv(acc, s, i, side, max) ==
  /\ Counted(acc.levels, s, i, side)
  /\ max > 0 => Len(acc.levels) <= max
  /\ \A k \in 1..i :
       \/ HasLevel(acc.levels, s[k])
       \/ acc.stopped = TRUE /\ PastLevels(acc.levels, s[k], side)
  /\ acc.stopped = TRUE =>
       /\ max > 0 /\ Len(acc.levels) = max
       /\ \E k \in 1..i : PastLevels(acc.levels, s[k], side)

\* The orders at a price are finitely many.
LEMMA AtFinite ==
  ASSUME NEW s \in Seq(EntryRec), NEW i \in 0..Len(s), NEW p
  PROVE  IsFiniteSet(At(s, i, p)) /\ At(s, i, p) \in SUBSET Orders
<1>1. IsFiniteSet({k \in 1..i : s[k].price = p})
  <2>1. IsFiniteSet(1..i)
    BY FS_Interval
  <2>2. {k \in 1..i : s[k].price = p} \in SUBSET (1..i)
    OBVIOUS
  <2> QED BY <2>1, <2>2, FS_Subset
<1>2. IsFiniteSet(At(s, i, p))
  <2> DEFINE K == {k \in 1..i : s[k].price = p}
             f == [k \in K |-> s[k].order]
  <2>1. f \in Surjection(K, At(s, i, p))
    BY DEF At, Surjection
  <2> HIDE DEF K, f
  <2> QED BY <1>1, <2>1, FS_Surjection DEF K
<1>3. \A k \in 1..i : s[k].order \in Orders
  <2>1. ASSUME NEW k \in 1..i PROVE s[k] \in EntryRec
    OBVIOUS
  <2> QED BY <2>1 DEF EntryRec
<1> QED BY <1>2, <1>3 DEF At

\* The next entry joins the orders at its price, and only those.
LEMMA AtNext ==
  ASSUME TypeOK, NEW s, NEW side, Entries(s, side), NEW n \in 1..Len(s)
  PROVE  /\ \A p : p # s[n].price => At(s, n, p) = At(s, n - 1, p)
         /\ LET p == s[n].price
            IN  /\ Cardinality(At(s, n, p)) = Cardinality(At(s, n - 1, p)) + 1
                /\ Unfilled(At(s, n, p)) = Unfilled(At(s, n - 1, p)) + s[n].remaining
<1> DEFINE p == s[n].price
           o == s[n].order
           T == At(s, n - 1, p)
<1>1. s \in Seq(EntryRec) /\ n \in Nat /\ n - 1 \in 0..Len(s) /\ s[n] \in EntryRec /\ o \in Orders
  <2>1. s \in Seq(EntryRec)
    BY DEF Entries
  <2>2. s[n] \in EntryRec /\ n \in Nat /\ n - 1 \in 0..Len(s)
    BY <2>1
  <2> QED BY <2>1, <2>2 DEF EntryRec
<1>2. \A k \in 1..n : k # n => k \in 1..n - 1
  BY <1>1
<1>3. \A k \in 1..n - 1 : k \in 1..n /\ k # n /\ k \in 1..Len(s)
  BY <1>1
<1>4. n \in 1..n
  BY <1>1
<1>5. ASSUME NEW r, r # p PROVE At(s, n, r) = At(s, n - 1, r)
  <2>1. {k \in 1..n : s[k].price = r} = {k \in 1..n - 1 : s[k].price = r}
    BY <1>2, <1>3, <1>5
  <2> QED BY <2>1 DEF At
<1>6. At(s, n, p) = T \cup {o}
  <2>1. {k \in 1..n : s[k].price = p} = {k \in 1..n - 1 : s[k].price = p} \cup {n}
    BY <1>2, <1>3, <1>4
  <2> QED BY <2>1 DEF At
<1>7. o \notin T
  BY <1>3 DEF At, Entries
<1>8. IsFiniteSet(T) /\ T \in SUBSET Orders
  BY <1>1, AtFinite
<1>9. s[n].remaining = RemainingQuantity(order[o])
  BY DEF Entries
<1> HIDE DEF T, o
<1>10. Cardinality(T \cup {o}) = Cardinality(T) + 1
  BY <1>7, <1>8, FS_AddElement
<1>11. Unfilled(T \cup {o}) = Unfilled(T) + s[n].remaining
  BY <1>1, <1>7, <1>8, <1>9, UnfilledAdd
<1> QED BY <1>5, <1>6, <1>10, <1>11 DEF T

\* Prices are compared as a linear order.
LEMMA BetterFacts ==
  ASSUME NEW side \in Sides, NEW p \in Int, NEW q \in Int
  PROVE  /\ ~Better(side, p, p)
         /\ Better(side, p, q) => p # q /\ ~Better(side, q, p)
         /\ p = q \/ Better(side, p, q) \/ Better(side, q, p)
BY DEF Better, Sides

LEMMA BetterThrough ==
  ASSUME NEW side \in Sides, NEW p \in Int, NEW q \in Int, NEW r \in Int,
         Better(side, p, q), ~Better(side, r, q)
  PROVE  Better(side, p, r)
BY DEF Better, Sides

LEMMA EntryIs ==
  ASSUME NEW s, NEW side, Entries(s, side), NEW k \in 1..Len(s)
  PROVE  /\ s[k] \in EntryRec /\ s[k].price \in Int /\ s[k].remaining \in Nat
         /\ s[k].order \in Orders /\ s[k].remaining > 0 /\ side \in Sides
<1>1. s[k] \in EntryRec /\ s[k].remaining > 0 /\ side \in Sides
  BY DEF Entries
<1>2. s[k].price \in Int
  BY <1>1, EntryPrice
<1> QED BY <1>1, <1>2 DEF EntryRec

\* An entry worse than every level, or stopped at, leaves the levels as they are.
LEMMA CountedPast ==
  ASSUME TypeOK, NEW s, NEW side, Entries(s, side), NEW n \in 1..Len(s), NEW ls \in Seq(Level),
         Counted(ls, s, n - 1, side), PastLevels(ls, s[n], side)
  PROVE  Counted(ls, s, n, side)
<1>1. ASSUME NEW j \in 1..Len(ls)
      PROVE  /\ \E k \in 1..n : s[k].price = ls[j].price
             /\ At(s, n, ls[j].price) = At(s, n - 1, ls[j].price)
  <2>1. PICK k \in 1..n - 1 : s[k].price = ls[j].price
    BY DEF Counted
  <2>2. k \in 1..n /\ k \in 1..Len(s)
    BY DEF Entries
  <2>3. s[k].price \in Int /\ s[n].price \in Int /\ side \in Sides
    BY <2>2, EntryIs
  <2>4. ls[j].price # s[n].price
    BY <2>1, <2>3, BetterFacts DEF PastLevels
  <2> QED BY <2>1, <2>2, <2>4, AtNext
<1> QED BY <1>1 DEF Counted

\* The loop keeps its invariant.
LEMMA LevelInvStep ==
  ASSUME TypeOK, NEW s, NEW side, Entries(s, side), NEW n \in 1..Len(s), NEW max \in Nat,
         NEW acc \in LevelAcc, LevelInv(acc, s, n - 1, side, max)
  PROVE  LevelInv(LevelStep(acc, s[n], max), s, n, side, max)
<1> DEFINE ls == acc.levels
           N  == Len(ls)
           e  == s[n]
           r  == LevelStep(acc, e, max)
           rs == r.levels
<1>1. /\ s \in Seq(EntryRec) /\ Len(s) \in Nat /\ n \in Nat /\ n \in 1..n
      /\ \A k \in 1..n - 1 : k \in 1..n /\ k \in 1..Len(s) /\ k < n
      /\ \A k \in 1..n : k = n \/ k \in 1..n - 1
  BY DEF Entries
<1>2. /\ e \in EntryRec /\ e.price \in Int /\ e.remaining \in Nat /\ e.remaining > 0
      /\ side \in Sides
  BY EntryIs
<1>3. ls \in Seq(Level) /\ N \in Nat /\ acc.stopped \in BOOLEAN /\ r \in LevelAcc
      /\ rs \in Seq(Level) /\ Len(rs) \in Nat
  <2>1. r \in LevelAcc
    BY <1>2, LevelStepIs
  <2> HIDE DEF r
  <2> QED BY <2>1 DEF LevelAcc
<1>4. Counted(ls, s, n - 1, side)
  BY DEF LevelInv
<1>5. ASSUME NEW j \in 1..N
      PROVE  /\ ls[j].price \in Int
             /\ ~Better(side, e.price, ls[j].price)
  <2>1. PICK k \in 1..n - 1 : s[k].price = ls[j].price
    BY <1>4 DEF Counted
  <2>2. ~Better(side, s[n].price, s[k].price)
    BY <1>1 DEF Entries, SortedPrices
  <2>3. s[k].price \in Int
    BY <1>1, EntryIs
  <2> QED BY <2>1, <2>2, <2>3
<1>6. ASSUME acc.stopped = TRUE PROVE PastLevels(ls, e, side)
  <2>1. PICK k \in 1..n - 1 : PastLevels(ls, s[k], side)
    BY <1>6 DEF LevelInv
  <2>2. ~Better(side, e.price, s[k].price) /\ s[k].price \in Int
    BY <1>1, EntryIs DEF Entries, SortedPrices
  <2>3. ASSUME NEW j \in 1..N PROVE Better(side, ls[j].price, e.price)
    <3>1. Better(side, ls[j].price, s[k].price)
      BY <2>1 DEF PastLevels
    <3> QED BY <1>2, <1>5, <2>2, <3>1, BetterThrough
  <2> QED BY <2>3 DEF PastLevels
<1>7. ASSUME ~(N > 0 /\ ls[N].price = e.price) PROVE PastLevels(ls, e, side)
  <2>1. ASSUME NEW j \in 1..N PROVE Better(side, ls[j].price, e.price)
    <3>1. N \in 1..N /\ N > 0
      BY <1>3
    <3>2. Better(side, ls[N].price, e.price)
      BY <1>2, <1>5, <1>7, <3>1, BetterFacts
    <3>3. CASE j = N
      BY <3>2, <3>3
    <3>4. CASE j # N
      <4>1. j < N
        BY <1>3, <3>4
      <4>2. Better(side, ls[j].price, ls[N].price)
        BY <1>4, <3>1, <4>1 DEF Counted
      <4>3. ~Better(side, e.price, ls[N].price)
        BY <1>5, <3>1
      <4> QED BY <1>2, <1>5, <3>1, <4>2, <4>3, BetterThrough
    <3> QED BY <3>3, <3>4
  <2> QED BY <2>1 DEF PastLevels
<1> SUFFICES LevelInv(r, s, n, side, max)
  OBVIOUS
<1>0. LET m == Len(acc.levels)
      IN  \/ acc.stopped = TRUE /\ r = acc
          \/ /\ acc.stopped = FALSE /\ r.stopped = FALSE
             /\ m > 0 /\ ls[m].price = e.price
             /\ Len(rs) = m
             /\ \A j \in 1..m - 1 : rs[j] = ls[j]
             /\ rs[m].price = e.price
             /\ rs[m].quantity = ls[m].quantity + e.remaining
             /\ rs[m].count = ls[m].count + 1
          \/ /\ acc.stopped = FALSE /\ r.stopped = TRUE /\ rs = ls
             /\ ~(m > 0 /\ ls[m].price = e.price)
             /\ max > 0 /\ m >= max
          \/ /\ acc.stopped = FALSE /\ r.stopped = FALSE
             /\ ~(m > 0 /\ ls[m].price = e.price)
             /\ ~(max > 0 /\ m >= max)
             /\ Len(rs) = m + 1
             /\ \A j \in 1..m : rs[j] = ls[j]
             /\ rs[m + 1].price = e.price
             /\ rs[m + 1].quantity = e.remaining
             /\ rs[m + 1].count = 1
  BY <1>2, LevelStepIs, Zenon
<1> HIDE DEF r
<1>8. CASE acc.stopped = TRUE /\ r = acc
  <2>1. PastLevels(ls, e, side)
    BY <1>6, <1>8
  <2>2. Counted(ls, s, n, side)
    BY <1>3, <1>4, <2>1, CountedPast
  <2>3. \A k \in 1..n : HasLevel(ls, s[k]) \/ PastLevels(ls, s[k], side)
    BY <1>1, <2>1 DEF LevelInv
  <2>4. max > 0 /\ Len(ls) = max /\ Len(ls) <= max
    BY <1>8 DEF LevelInv
  <2>5. \E k \in 1..n : PastLevels(ls, s[k], side)
    BY <1>1, <2>1
  <2>6. r.levels = ls /\ r.stopped = TRUE
    BY <1>8
  <2> HIDE DEF ls
  <2> QED BY <2>2, <2>3, <2>4, <2>5, <2>6 DEF LevelInv
<1>9. CASE /\ acc.stopped = FALSE /\ r.stopped = FALSE
           /\ N > 0 /\ ls[N].price = e.price
           /\ Len(rs) = N
           /\ \A j \in 1..N - 1 : rs[j] = ls[j]
           /\ rs[N].price = e.price
           /\ rs[N].quantity = ls[N].quantity + e.remaining
           /\ rs[N].count = ls[N].count + 1
  <2>1. N \in 1..N /\ \A j \in 1..N : j = N \/ (j \in 1..N - 1 /\ j < N)
    BY <1>3, <1>9
  <2>2. \A j \in 1..N : rs[j].price = ls[j].price
    BY <1>9, <2>1
  <2>3. ASSUME NEW j \in 1..N
        PROVE  /\ \E k \in 1..n : s[k].price = rs[j].price
               /\ rs[j].count = Cardinality(At(s, n, rs[j].price))
               /\ rs[j].quantity = Unfilled(At(s, n, rs[j].price))
    <3>1. PICK k \in 1..n - 1 : s[k].price = ls[j].price
      BY <1>4 DEF Counted
    <3>2. /\ ls[j].count = Cardinality(At(s, n - 1, ls[j].price))
          /\ ls[j].quantity = Unfilled(At(s, n - 1, ls[j].price))
      BY <1>4 DEF Counted
    <3>3. \E l \in 1..n : s[l].price = rs[j].price
      BY <1>1, <2>2, <3>1
    <3>4. CASE j = N
      <4>1. /\ Cardinality(At(s, n, e.price)) = Cardinality(At(s, n - 1, e.price)) + 1
            /\ Unfilled(At(s, n, e.price)) = Unfilled(At(s, n - 1, e.price)) + e.remaining
        BY AtNext
      <4> QED BY <1>9, <3>2, <3>3, <3>4, <4>1
    <3>5. CASE j # N
      <4>1. j < N /\ rs[j] = ls[j]
        BY <1>9, <2>1, <3>5
      <4>2. Better(side, ls[j].price, ls[N].price)
        BY <1>4, <2>1, <4>1 DEF Counted
      <4>3. ls[j].price # e.price
        BY <1>2, <1>5, <1>9, <4>2, BetterFacts
      <4>4. At(s, n, ls[j].price) = At(s, n - 1, ls[j].price)
        BY <4>3, AtNext
      <4> QED BY <3>2, <3>3, <4>1, <4>4
    <3> QED BY <3>4, <3>5
  <2>4. \A j, k \in 1..N : j < k => Better(side, rs[j].price, rs[k].price)
    BY <1>4, <2>2 DEF Counted
  <2>5. Counted(rs, s, n, side)
    BY <1>9, <2>3, <2>4 DEF Counted
  <2>6. ASSUME NEW k \in 1..n PROVE HasLevel(rs, s[k])
    <3>1. CASE k = n
      BY <1>9, <2>1, <3>1 DEF HasLevel
    <3>2. CASE k # n
      <4>1. HasLevel(ls, s[k])
        BY <1>1, <1>9, <3>2 DEF LevelInv
      <4> QED BY <1>9, <2>2, <4>1 DEF HasLevel
    <3> QED BY <3>1, <3>2
  <2>7. max > 0 => Len(rs) <= max
    BY <1>9 DEF LevelInv
  <2>8. r.stopped # TRUE
    BY <1>9
  <2> QED BY <2>5, <2>6, <2>7, <2>8, Zenon DEF LevelInv
<1>10. CASE /\ acc.stopped = FALSE /\ r.stopped = TRUE /\ rs = ls
            /\ ~(N > 0 /\ ls[N].price = e.price)
            /\ max > 0 /\ N >= max
  <2>1. PastLevels(ls, e, side)
    BY <1>7, <1>10
  <2>2. Counted(ls, s, n, side)
    BY <1>3, <1>4, <2>1, CountedPast
  <2>3. \A k \in 1..n : HasLevel(ls, s[k]) \/ PastLevels(ls, s[k], side)
    BY <1>1, <1>10, <2>1 DEF LevelInv
  <2>4. max > 0 /\ Len(ls) = max /\ Len(ls) <= max
    BY <1>3, <1>10 DEF LevelInv
  <2>5. \E k \in 1..n : PastLevels(ls, s[k], side)
    BY <1>1, <2>1
  <2>6. r.levels = ls /\ r.stopped = TRUE
    BY <1>10
  <2> HIDE DEF ls
  <2> QED BY <2>2, <2>3, <2>4, <2>5, <2>6 DEF LevelInv
<1>11. CASE /\ acc.stopped = FALSE /\ r.stopped = FALSE
            /\ ~(N > 0 /\ ls[N].price = e.price)
            /\ ~(max > 0 /\ N >= max)
            /\ Len(rs) = N + 1
            /\ \A j \in 1..N : rs[j] = ls[j]
            /\ rs[N + 1].price = e.price
            /\ rs[N + 1].quantity = e.remaining
            /\ rs[N + 1].count = 1
  <2>1. PastLevels(ls, e, side)
    BY <1>7, <1>11
  <2>2. Counted(ls, s, n, side)
    BY <1>3, <1>4, <2>1, CountedPast
  <2>3. \A j \in 1..N + 1 : j = N + 1 \/ (j \in 1..N /\ j < N + 1)
    BY <1>3
  <2>4. At(s, n - 1, e.price) = {}
    <3>1. ASSUME NEW k \in 1..n - 1, s[k].price = e.price PROVE FALSE
      <4>1. PICK j \in 1..N : ls[j].price = s[k].price
        BY <1>11 DEF LevelInv, HasLevel
      <4>2. Better(side, ls[j].price, e.price)
        BY <2>1 DEF PastLevels
      <4> QED BY <1>2, <3>1, <4>1, <4>2, BetterFacts
    <3>2. {k \in 1..n - 1 : s[k].price = e.price} = {}
      BY <3>1
    <3> HIDE DEF e
    <3> QED BY <3>2 DEF At
  <2>5. Cardinality(At(s, n, e.price)) = 1 /\ Unfilled(At(s, n, e.price)) = e.remaining
    <3>1. Cardinality({}) = 0 /\ IsFiniteSet({})
      BY FS_EmptySet
    <3>2. Unfilled({}) = 0
      <4>1. e.order \in Orders /\ {} \in SUBSET Orders /\ e.order \notin {}
        BY <1>2 DEF EntryRec
      <4> QED BY <3>1, <4>1, UnfilledAdd
    <3>3. /\ Cardinality(At(s, n, e.price)) = Cardinality(At(s, n - 1, e.price)) + 1
          /\ Unfilled(At(s, n, e.price)) = Unfilled(At(s, n - 1, e.price)) + e.remaining
      BY AtNext
    <3>4. Cardinality(At(s, n - 1, e.price)) = 0 /\ Unfilled(At(s, n - 1, e.price)) = 0
      BY <2>4, <3>1, <3>2
    <3> HIDE DEF e
    <3> QED BY <1>2, <3>3, <3>4
  <2>6. ASSUME NEW j \in 1..N + 1
        PROVE  /\ \E k \in 1..n : s[k].price = rs[j].price
               /\ rs[j].count = Cardinality(At(s, n, rs[j].price))
               /\ rs[j].quantity = Unfilled(At(s, n, rs[j].price))
    <3>1. CASE j = N + 1
      BY <1>1, <1>11, <2>5, <3>1
    <3>2. CASE j \in 1..N
      BY <1>11, <2>2, <3>2 DEF Counted
    <3> QED BY <2>3, <3>1, <3>2
  <2>7. ASSUME NEW j \in 1..N + 1, NEW k \in 1..N + 1, j < k
        PROVE  Better(side, rs[j].price, rs[k].price)
    <3>1. j \in 1..N
      BY <1>3, <2>7
    <3>2. CASE k = N + 1
      BY <1>11, <2>1, <3>1, <3>2 DEF PastLevels
    <3>3. CASE k \in 1..N
      BY <1>11, <2>2, <2>7, <3>1, <3>3 DEF Counted
    <3> QED BY <2>3, <3>2, <3>3
  <2>8. Counted(rs, s, n, side)
    BY <1>11, <2>6, <2>7 DEF Counted
  <2>9. ASSUME NEW k \in 1..n PROVE HasLevel(rs, s[k])
    <3>0. N + 1 \in 1..N + 1 /\ \A j \in 1..N : j \in 1..N + 1
      BY <1>3
    <3>1. CASE k = n
      BY <1>11, <3>0, <3>1 DEF HasLevel
    <3>2. CASE k # n
      <4>1. HasLevel(ls, s[k])
        BY <1>1, <1>11, <3>2 DEF LevelInv
      <4> QED BY <1>11, <3>0, <4>1 DEF HasLevel
    <3> QED BY <3>1, <3>2
  <2>10. max > 0 => Len(rs) <= max
    BY <1>3, <1>11
  <2>11. r.stopped # TRUE
    BY <1>11
  <2> QED BY <2>8, <2>9, <2>10, <2>11, Zenon DEF LevelInv
<1> QED BY <1>0, <1>8, <1>9, <1>10, <1>11, Zenon

\* What the loop leaves at its end.
LEMMA AggregateInv ==
  ASSUME TypeOK, NEW s, NEW side, Entries(s, side), NEW max \in Nat
  PROVE  \E acc \in LevelAcc : /\ LevelInv(acc, s, Len(s), side, max)
                               /\ AggregateLevels(s, max) = acc.levels
<1> DEFINE N == Len(s)
<1>1. s \in Seq(EntryRec) /\ N \in Nat /\ \A k \in 1..N : s[k].remaining > 0
  BY DEF Entries
<1>2. PICK a \in [0..N -> LevelAcc] :
        /\ a[0] = NoLevels
        /\ \A n \in 1..N : a[n] = LevelStep(a[n - 1], s[n], max)
        /\ AggregateLevels(s, max) = a[N].levels
  BY <1>1, AggregateLoop
<1>3. LevelInv(a[0], s, 0, side, max)
  <2>1. a[0].levels = <<>> /\ a[0].stopped # TRUE /\ Len(a[0].levels) = 0
    BY <1>2 DEF NoLevels
  <2>2. Counted(a[0].levels, s, 0, side)
    <3>1. 1..Len(a[0].levels) = {}
      BY <2>1
    <3> QED BY <3>1 DEF Counted
  <2>3. max > 0 => Len(a[0].levels) <= max
    BY <2>1
  <2>4. 1..0 = {}
    OBVIOUS
  <2> QED BY <2>1, <2>2, <2>3, <2>4 DEF LevelInv
<1> DEFINE B == {n \in 0..N : ~LevelInv(a[n], s, n, side, max)}
<1>4. ASSUME B # {} PROVE FALSE
  <2>1. PICK m \in B : \A k \in B : m <= k
    <3>1. B \in SUBSET Nat
      BY <1>1
    <3> HIDE DEF B
    <3> QED BY <1>4, <3>1, LeastElement
  <2>2. m # 0
    BY <1>3
  <2>3. m \in 1..N /\ m - 1 \in 0..N /\ m - 1 \notin B
    BY <1>1, <2>1, <2>2
  <2>4. LevelInv(a[m - 1], s, m - 1, side, max) /\ a[m - 1] \in LevelAcc
    BY <1>2, <2>3
  <2>5. LevelInv(LevelStep(a[m - 1], s[m], max), s, m, side, max)
    BY <2>3, <2>4, LevelInvStep
  <2> QED BY <1>2, <2>3, <2>5
<1>5. N \in 0..N
  BY <1>1
<1>6. LevelInv(a[N], s, N, side, max) /\ a[N] \in LevelAcc
  BY <1>2, <1>4, <1>5
<1> QED BY <1>2, <1>6

\* Levels of ls have prices of P, each better than the next, and a price of P
\* without a level is worse than all of them.
Leads(ls, P, side) ==
  /\ side \in Sides /\ P \in SUBSET Int /\ IsFiniteSet(P) /\ Len(ls) \in Nat
  /\ \A j \in 1..Len(ls) : ls[j].price \in P
  /\ \A j, k \in 1..Len(ls) : j < k => Better(side, ls[j].price, ls[k].price)
  /\ \A p \in P : \/ \E j \in 1..Len(ls) : ls[j].price = p
                  \/ \A j \in 1..Len(ls) : Better(side, ls[j].price, p)

\* So the level at i is the i-th best price, and what is left over says whether
\* there are more prices than levels.
LEMMA LevelRank ==
  ASSUME NEW ls, NEW P, NEW side, Leads(ls, P, side)
  PROVE  /\ \A i \in 1..Len(ls) : Cardinality({p \in P : Better(side, p, ls[i].price)}) = i - 1
         /\ (\A p \in P : \E j \in 1..Len(ls) : ls[j].price = p) => Cardinality(P) = Len(ls)
         /\ (\E p \in P : \A j \in 1..Len(ls) : Better(side, ls[j].price, p)) => Cardinality(P) > Len(ls)
<1> DEFINE n == Len(ls)
           f == [j \in 1..n |-> ls[j].price]
<1>1. /\ side \in Sides /\ P \in SUBSET Int /\ IsFiniteSet(P) /\ n \in Nat
      /\ \A j \in 1..n : ls[j].price \in P /\ ls[j].price \in Int
      /\ \A j, k \in 1..n : j < k => Better(side, ls[j].price, ls[k].price)
  BY DEF Leads
<1>2. ASSUME NEW i \in 1..n, NEW j \in 1..n, f[i] = f[j] PROVE i = j
  <2>1. ls[i].price = ls[j].price /\ ls[i].price \in Int
    BY <1>1, <1>2
  <2>2. ~Better(side, ls[i].price, ls[i].price)
    BY <1>1, <2>1, BetterFacts
  <2>3. ~(i < j) /\ ~(j < i)
    BY <1>1, <2>1, <2>2
  <2> QED BY <1>1, <2>3
<1>3. ASSUME NEW i \in 1..n
      PROVE  Cardinality({p \in P : Better(side, p, ls[i].price)}) = i - 1
  <2> DEFINE V == {f[j] : j \in 1..i - 1}
  <2>1. i - 1 \in Nat /\ \A j \in 1..i - 1 : j \in 1..n /\ j < i
    BY <1>1
  <2>2. ASSUME NEW p \in P, Better(side, p, ls[i].price) PROVE p \in V
    <3>1. p \in Int /\ ~Better(side, ls[i].price, p)
      BY <1>1, <2>2, BetterFacts
    <3>2. PICK j \in 1..n : ls[j].price = p
      BY <3>1 DEF Leads
    <3>3. j # i
      BY <1>1, <2>2, <3>1, <3>2, BetterFacts
    <3>4. ~(i < j)
      BY <1>1, <3>1, <3>2
    <3>5. j \in 1..i - 1
      BY <1>1, <3>3, <3>4
    <3> QED BY <3>2, <3>5
  <2>3. ASSUME NEW j \in 1..i - 1 PROVE f[j] \in P /\ Better(side, f[j], ls[i].price)
    BY <1>1, <2>1
  <2>4. {p \in P : Better(side, p, ls[i].price)} = V
    BY <2>2, <2>3
  <2>5. Cardinality(V) = i - 1
    <3>1. \A j, k \in 1..i - 1 : f[j] = f[k] => j = k
      BY <1>2, <2>1
    <3> DEFINE m == i - 1
    <3>2. m \in Nat /\ V = {f[j] : j \in 1..m} /\ \A j, k \in 1..m : f[j] = f[k] => j = k
      BY <2>1, <3>1
    <3> HIDE DEF f, m, V
    <3>3. Cardinality(V) = m
      BY <3>2, CountValues
    <3> QED BY <3>3 DEF m
  <2> QED BY <2>4, <2>5
<1> DEFINE V == {f[j] : j \in 1..n}
<1>4. IsFiniteSet(V) /\ Cardinality(V) = n
  <2> HIDE DEF f, n
  <2> QED BY <1>1, <1>2, CountValues
<1>5. V \in SUBSET P
  BY <1>1
<1>6. ASSUME \A p \in P : \E j \in 1..n : ls[j].price = p PROVE Cardinality(P) = n
  <2>1. V = P
    BY <1>1, <1>6
  <2> QED BY <1>4, <2>1
<1>7. ASSUME NEW p \in P, \A j \in 1..n : Better(side, ls[j].price, p) PROVE Cardinality(P) > n
  <2>1. p \notin V
    <3>1. ASSUME NEW j \in 1..n PROVE ls[j].price # p
      BY <1>1, <1>7, BetterFacts
    <3> QED BY <3>1
  <2> HIDE DEF V
  <2>2. V \cup {p} \in SUBSET P /\ Cardinality(V \cup {p}) = n + 1
    BY <1>4, <1>5, <2>1, FS_AddElement
  <2>3. Cardinality(V \cup {p}) <= Cardinality(P) /\ Cardinality(P) \in Nat
    BY <1>1, <2>2, FS_Subset, FS_CardinalityType
  <2> QED BY <1>1, <2>2, <2>3
<1> QED BY <1>3, <1>6, <1>7

-----------------------------------------------------------------------------
(***************************************************************************)
(* The depth of the book is that of the resting orders.                    *)
(***************************************************************************)
LEMMA SidesEntries ==
  ASSUME ExactBook, mpc \notin TradeSteps, NEW side \in Sides
  PROVE  /\ TypeOK /\ Entries(book[side], side)
         /\ \A p : At(book[side], Len(book[side]), p) = {o \in Resting(side) : order[o].price = p}
         /\ {order[o].price : o \in Resting(side)}
              = {book[side][k].price : k \in 1..Len(book[side])}
<1> DEFINE s == book[side]
<1>1. TypeOK /\ s \in Seq(EntryRec)
  BY DEF ExactBook, IInv, TypeOK
<1>2. /\ Resting(side) = Listed(side)
      /\ \A k \in 1..Len(s) : s[k].remaining = RemainingQuantity(order[s[k].order])
  BY ListedIsResting
<1>3. \A k \in 1..Len(s) : s[k].price = order[s[k].order].price
  BY DEF ExactBook, EntryPrices
<1>4. Entries(s, side)
  BY <1>1, <1>2 DEF ExactBook, IInv, BookInv, Entries
<1>5. ASSUME NEW p
      PROVE  At(s, Len(s), p) = {o \in Resting(side) : order[o].price = p}
  BY <1>2, <1>3 DEF At, Listed
<1>6. {order[o].price : o \in Resting(side)} = {s[k].price : k \in 1..Len(s)}
  BY <1>2, <1>3 DEF Listed
<1> QED BY <1>1, <1>4, <1>5, <1>6

LEMMA DepthOfBook ==
  ASSUME ExactBook, mpc \notin TradeSteps, NEW side \in Sides
  PROVE  IsDepthOf(AggregateLevels(book[side], DepthLevels), side)
<1> DEFINE s == book[side]
           N == Len(s)
           P == {s[k].price : k \in 1..N}
           ls == AggregateLevels(s, DepthLevels)
<1>1. /\ TypeOK /\ Entries(s, side)
      /\ \A p : At(s, N, p) = {o \in Resting(side) : order[o].price = p}
      /\ {order[o].price : o \in Resting(side)} = P
  BY SidesEntries
<1>2. DepthLevels \in Nat /\ N \in Nat
  BY <1>1, BoundAssumption DEF Entries
<1>3. PICK acc \in LevelAcc : LevelInv(acc, s, N, side, DepthLevels) /\ ls = acc.levels
  <2> HIDE DEF s
  <2> QED BY <1>1, <1>2, AggregateInv
<1> HIDE DEF ls, s
<1>4. /\ ls \in Seq(Level) /\ Len(ls) \in Nat /\ DOMAIN ls = 1..Len(ls) /\ acc.stopped \in BOOLEAN
  BY <1>3 DEF LevelAcc
<1>5. /\ Counted(ls, s, N, side)
      /\ DepthLevels > 0 => Len(ls) <= DepthLevels
      /\ \A k \in 1..N : HasLevel(ls, s[k]) \/ (acc.stopped = TRUE /\ PastLevels(ls, s[k], side))
      /\ acc.stopped = TRUE => /\ DepthLevels > 0 /\ Len(ls) = DepthLevels
                               /\ \E k \in 1..N : PastLevels(ls, s[k], side)
  BY <1>3 DEF LevelInv
<1>6. P \in SUBSET Int /\ IsFiniteSet(P)
  <2>1. \A k \in 1..N : s[k].price \in Int
    BY <1>1, EntryIs
  <2>2. IsFiniteSet(1..N)
    BY <1>2, FS_Interval
  <2> DEFINE f == [k \in 1..N |-> s[k].price]
  <2>3. f \in Surjection(1..N, P)
    BY DEF Surjection
  <2>4. IsFiniteSet(P)
    <3> HIDE DEF f, P, N
    <3> QED BY <2>2, <2>3, FS_Surjection
  <2> QED BY <2>1, <2>4
<1>7. ASSUME NEW j \in 1..Len(ls)
      PROVE  /\ ls[j].price \in P
             /\ ls[j].count = Cardinality(At(s, N, ls[j].price))
             /\ ls[j].quantity = Unfilled(At(s, N, ls[j].price))
  BY <1>5 DEF Counted
<1>8. \A p \in P : \/ \E j \in 1..Len(ls) : ls[j].price = p
                   \/ \A j \in 1..Len(ls) : Better(side, ls[j].price, p)
  BY <1>5 DEF HasLevel, PastLevels
<1>9. Leads(ls, P, side)
  <2> HIDE DEF P
  <2> QED BY <1>4, <1>5, <1>6, <1>7, <1>8 DEF Leads, Counted
<1>10. /\ \A i \in 1..Len(ls) : Cardinality({p \in P : Better(side, p, ls[i].price)}) = i - 1
       /\ (\A p \in P : \E j \in 1..Len(ls) : ls[j].price = p) => Cardinality(P) = Len(ls)
       /\ (\E p \in P : \A j \in 1..Len(ls) : Better(side, ls[j].price, p))
            => Cardinality(P) > Len(ls)
  <2> HIDE DEF P
  <2> QED BY <1>9, LevelRank
<1>11. Len(ls) = IF DepthLevels > 0 /\ Cardinality(P) > DepthLevels
                 THEN DepthLevels ELSE Cardinality(P)
  <2>1. CASE acc.stopped = TRUE
    <3>1. \E p \in P : \A j \in 1..Len(ls) : Better(side, ls[j].price, p)
      BY <1>5, <2>1 DEF PastLevels
    <3> HIDE DEF P
    <3> QED BY <1>5, <1>10, <2>1, <3>1
  <2>2. CASE acc.stopped # TRUE
    <3>1. \A p \in P : \E j \in 1..Len(ls) : ls[j].price = p
      BY <1>5, <2>2 DEF HasLevel
    <3> HIDE DEF P
    <3>2. Cardinality(P) = Len(ls)
      BY <1>10, <3>1
    <3>3. DepthLevels > 0 => Len(ls) <= DepthLevels
      BY <1>5
    <3>4. ASSUME NEW a \in Nat, NEW d \in Nat, d > 0 => a <= d
          PROVE  a = IF d > 0 /\ a > d THEN d ELSE a
      BY <3>4
    <3> QED BY <1>2, <1>4, <3>2, <3>3, <3>4
  <2> QED BY <2>1, <2>2
<1>12. ASSUME NEW i \in DOMAIN ls
       PROVE  LET l == ls[i]
              IN  /\ l.price \in P
                  /\ Cardinality({p \in P : Better(side, p, l.price)}) = i - 1
                  /\ l.count = Cardinality({o \in Resting(side) : order[o].price = l.price})
                  /\ l.quantity = Unfilled({o \in Resting(side) : order[o].price = l.price})
  <2>1. i \in 1..Len(ls)
    BY <1>4
  <2>2. At(s, N, ls[i].price) = {o \in Resting(side) : order[o].price = ls[i].price}
    BY <1>1
  <2> HIDE DEF P
  <2> QED BY <1>7, <1>10, <2>1, <2>2
<1> HIDE DEF P
<1> QED BY <1>1, <1>11, <1>12 DEF IsDepthOf, Unfilled, ls, s

\* Between orders the stored depth, once there is one, is that of the book.
ViewCurrent ==
  mpc \in {"idle", "stopped"} /\ view.status = "live" =>
    \A side \in Sides : view.levels[side] = AggregateLevels(book[side], DepthLevels)

LEMMA ViewCurrentStep ==
  ASSUME TypeOK, ViewCurrent, [Next]_vars
  PROVE  ViewCurrent'
<1>1. ASSUME UNCHANGED <<mpc, view, book>> PROVE ViewCurrent'
  BY <1>1 DEF ViewCurrent
<1>2. ASSUME mpc' \notin {"idle", "stopped"} PROVE ViewCurrent'
  BY <1>2 DEF ViewCurrent
<1>3. ASSUME NEW o \in Orders, CreateOrder(o) PROVE ViewCurrent'
  BY <1>1, <1>3 DEF CreateOrder, SaveOrder, SubmitOrder, PublishCreated, matcherVars
<1>4. CASE Receive
  <2>1. UNCHANGED <<view, book>> /\ mpc = "idle"
    BY <1>4 DEF Receive
  <2> QED BY <2>1 DEF ViewCurrent
<1>5. CASE RestOrder
  <2>1. /\ view.status = "absent" => view' = view
        /\ view.status # "absent" =>
             view' = [status |-> "live",
                      levels |-> [s \in Sides |-> AggregateLevels(book'[s], DepthLevels)]]
    BY <1>5 DEF RestOrder
  <2>2. CASE view.status = "absent"
    BY <2>1, <2>2 DEF ViewCurrent
  <2>3. CASE view.status # "absent"
    <3>1. \A s \in Sides : view'.levels[s] = AggregateLevels(book'[s], DepthLevels)
      BY <2>1, <2>3
    <3> QED BY <3>1 DEF ViewCurrent
  <2> QED BY <2>2, <2>3
<1>6. CASE MatcherStep /\ ~Receive /\ ~RestOrder
  <2>1. mpc' \notin {"idle", "stopped"}
    BY <1>6 DEF MatcherStep, SaveTrade, FillBuy, FillSell, FillOrder, UpdateBuy, UpdateSell,
                UpdateOrder, UpdateTicker, PublishTrade, PublishBuy, PublishSell, PublishStep, Settle
  <2> QED BY <1>2, <2>1
<1>7. CASE InitStock
  <2>1. view'.status = "initial"
    BY <1>7 DEF InitStock
  <2> QED BY <2>1 DEF ViewCurrent
<1>8. CASE Stop \/ Terminated \/ UNCHANGED vars
  BY <1>1, <1>8 DEF Stop, Terminated, vars, matcherVars
<1> QED BY <1>3, <1>4, <1>5, <1>6, <1>7, <1>8 DEF Next

\* Between orders the stored order book of a registered stock is the true depth
\* of the resting orders: the best DepthLevels prices in order, each with the
\* quantity and the number of the orders resting there (aggregateLevels,
\* publishOrderBook), provided tradeRepo.Save does not fail.
THEOREM DepthAlwaysAccurate ==
  ASSUME "saveTrade" \notin Failures
  PROVE  Spec => []DepthIsAccurate
<1>1. Init => ViewCurrent
  BY DEF Init, ViewCurrent
<1>2. ExactBook /\ ViewCurrent /\ [Next]_vars => ViewCurrent'
  BY ViewCurrentStep DEF ExactBook, IInv
<1>3. ASSUME ExactBook, ViewCurrent PROVE DepthIsAccurate
  <2> SUFFICES ASSUME mpc \in {"idle", "stopped"}, view.status = "live", NEW side \in Sides
               PROVE  IsDepthOf(view.levels[side], side)
    BY DEF DepthIsAccurate
  <2>1. mpc \notin TradeSteps
    BY DEF TradeSteps
  <2>2. view.levels[side] = AggregateLevels(book[side], DepthLevels)
    BY <1>3 DEF ViewCurrent
  <2> QED BY <1>3, <2>1, <2>2, DepthOfBook
<1> QED BY <1>1, <1>2, <1>3, ExactBookInvariance, PTL DEF Spec

=============================================================================
