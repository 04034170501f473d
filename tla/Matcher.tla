------------------------------ MODULE Matcher ------------------------------
(***************************************************************************)
(* Order entry and matching for one stock: the HTTP handlers running       *)
(* order.Service.CreateOrder, the per-stock channel, and the Matcher       *)
(* goroutine that owns the order book.  Stocks share nothing but the event *)
(* bus and the repositories, so one stock is the whole engine.             *)
(*                                                                         *)
(* Processes                                                               *)
(*   - one handler goroutine per order: Save, SubmitOrder, Publish         *)
(*   - the matcher goroutine: receive, then the loop of matchBuy/matchSell *)
(*     with every repository call of executeTrade a step of its own,       *)
(*     because GET handlers and the event dispatcher run in between        *)
(*   - main, which closes the channel (Engine.Stop)                        *)
(*   - the price feed, which registers the stock (MarketRepo.InitStock)    *)
(*                                                                         *)
(* `pub` is the output port to the event bus: the event the last step      *)
(* published, if any.  Modules that model the bus compose through it.      *)
(* `accepted` is a history variable: the orders in the order in which the  *)
(* channel took them.                                                      *)
(***************************************************************************)
EXTENDS OrderBook

CONSTANTS
  Orders,        \* order IDs: one CreateOrder request each
  NoOrder,       \* the nil order pointer
  Prices,        \* limit prices a request may carry
  Quantities,    \* quantities a request may carry
  ChanCap,       \* matcherChanCap (1000 in the code)
  DepthLevels,   \* depthLevels (10 in the code)
  Failures,      \* the storage calls that may return an error: none with
                 \* the in-memory repositories, all with PostgreSQL
  GraceExpires   \* TRUE iff ShutdownTimeout may pass with handlers running

ASSUME NoOrderAssumption  == NoOrder \notin Orders
ASSUME PriceAssumption    == Prices \subseteq Nat \ {0}
ASSUME QuantityAssumption == Quantities \subseteq Nat \ {0}
ASSUME BoundAssumption    == ChanCap \in Nat /\ DepthLevels \in Nat
ASSUME FailureAssumption  == Failures \subseteq {"saveOrder", "saveTrade", "updateOrder"}
ASSUME GraceAssumption    == GraceExpires \in BOOLEAN

VARIABLES
  order,     \* the *entity.Order of each request, shared by pointer
  repo,      \* OrderRepository: the stored status and filled quantity
  trades,    \* TradeRepository, in insertion order
  phase,     \* where the handler of each order is in CreateOrder
  ch,        \* Matcher.ch
  closed,    \* ch has been closed by Engine.Stop
  accepted,  \* history: the orders ch has taken
  mpc,       \* where the matcher goroutine is
  cur,       \* the incoming order it is matching
  trade,     \* executeTrade's local trade record
  book,      \* orderBook.bids and orderBook.asks
  index,     \* orderBook.index
  view,      \* MarketRepo.books[stock]
  pub        \* event published by the last step

handlerVars == <<phase, accepted>>
matcherVars == <<mpc, cur, trade, book, index>>
vars == <<order, repo, trades, ch, closed, view, pub, handlerVars, matcherVars>>

-----------------------------------------------------------------------------
OrderRec == [side : Sides, price : Prices, quantity : Quantities,
             filled : Nat, status : Statuses]

\* A repository row; the status is "NONE" when there is no row.
Row(o) == [status |-> o.status, filled |-> o.filled]
NoRow  == [status |-> "NONE", filled |-> 0]

TradeRec == [buy : Orders, sell : Orders, price : Prices, qty : Nat]
NoTrade  == [buy |-> NoOrder, sell |-> NoOrder, price |-> 0, qty |-> 0]

Event(type, ref) == [type |-> type, ref |-> ref]
Publish(type, ref) == pub' = <<Event(type, ref)>>
NoPublish == pub' = <<>>

EmptyLevels == [s \in Sides |-> <<>>]

\* The request bodies that pass ValidateCreateOrder, as new orders.
NewOrders == [side : Sides, price : Prices, quantity : Quantities,
              filled : {0}, status : {"OPEN"}]

Init ==
  /\ order \in [Orders -> NewOrders]
  /\ repo = [o \in Orders |-> NoRow]
  /\ trades = <<>>
  /\ phase = [o \in Orders |-> "new"]
  /\ ch = <<>>
  /\ closed = FALSE
  /\ accepted = <<>>
  /\ mpc = "idle"
  /\ cur = NoOrder
  /\ trade = NoTrade
  /\ book = [s \in Sides |-> <<>>]
  /\ index = {}
  /\ view = [status |-> "absent", levels |-> EmptyLevels]
  /\ pub = <<>>

-----------------------------------------------------------------------------
(***************************************************************************)
(* order.Service.CreateOrder, one handler goroutine per order.             *)
(***************************************************************************)
\* orderRepo.Save; on an error the handler answers 500 and is done, whether or
\* not the INSERT was committed before its reply was lost.
SaveOrder(o) ==
  /\ phase[o] = "new"
  /\ ~closed \/ GraceExpires
  /\ \/ /\ repo' = [repo EXCEPT ![o] = Row(order[o])]
        /\ phase' = [phase EXCEPT ![o] = "saved"]
     \/ /\ "saveOrder" \in Failures
        /\ phase' = [phase EXCEPT ![o] = "failed"]
        /\ repo' \in {repo, [repo EXCEPT ![o] = Row(order[o])]}
  /\ NoPublish
  /\ UNCHANGED <<order, trades, ch, closed, accepted, view, matcherVars>>

\* Mutant: the channel takes one order too many.
SubmitOrderOffByOne(o) ==
  /\ phase[o] = "saved" /\ ~closed
  /\ Len(ch) <= ChanCap
  /\ ch' = Append(ch, o)
  /\ accepted' = Append(accepted, o)
  /\ phase' = [phase EXCEPT ![o] = "submitted"]
  /\ NoPublish
  /\ UNCHANGED <<order, repo, trades, closed, view, matcherVars>>

\* Engine.SubmitOrder: a non-blocking send.  A full channel is an error that
\* CreateOrder swallows: the caller is told 201 and the saved order is never
\* matched.  A send on the closed channel panics (net/http recovers it).
SubmitOrder(o) ==
  /\ phase[o] = "saved"
  /\ \/ /\ closed
        /\ phase' = [phase EXCEPT ![o] = "panicked"]
        /\ UNCHANGED <<ch, accepted>>
     \/ /\ ~closed
        /\ Len(ch) < ChanCap
        /\ ch' = Append(ch, o)
        /\ accepted' = Append(accepted, o)
        /\ phase' = [phase EXCEPT ![o] = "submitted"]
     \/ /\ ~closed
        /\ Len(ch) >= ChanCap
        /\ phase' = [phase EXCEPT ![o] = "rejected"]
        /\ UNCHANGED <<ch, accepted>>
  /\ NoPublish
  /\ UNCHANGED <<order, repo, trades, closed, view, matcherVars>>

\* Mutant: the snapshot is saved once more before it is announced.
PublishCreatedSaves(o) ==
  /\ phase[o] = "submitted"
  /\ phase' = [phase EXCEPT ![o] = "done"]
  /\ repo' = [repo EXCEPT ![o] = [status |-> "OPEN", filled |-> 0]]
  /\ Publish("OrderCreated", o)
  /\ UNCHANGED <<order, trades, ch, closed, accepted, view, matcherVars>>

\* bus.Publish(OrderCreated), after the matcher may already own the order.
PublishCreated(o) ==
  /\ phase[o] = "submitted"
  /\ phase' = [phase EXCEPT ![o] = "done"]
  /\ Publish("OrderCreated", o)
  /\ UNCHANGED <<order, repo, trades, ch, closed, accepted, view, matcherVars>>

CreateOrder(o) == SaveOrder(o) \/ SubmitOrder(o) \/ PublishCreated(o)

Finished == {"failed", "panicked", "rejected", "done"}

-----------------------------------------------------------------------------
(***************************************************************************)
(* The matcher goroutine.                                                  *)
(***************************************************************************)
\* Mutant: a closed channel ends the loop even when orders are queued.
ReceiveNoDrain ==
  /\ mpc = "idle"
  /\ \/ /\ ~closed /\ ch # <<>>
        /\ cur' = Head(ch)
        /\ ch' = Tail(ch)
        /\ mpc' = "match"
     \/ /\ closed
        /\ mpc' = "stopped"
        /\ UNCHANGED <<cur, ch>>
  /\ NoPublish
  /\ UNCHANGED <<order, repo, trades, closed, view, handlerVars, trade, book, index>>

\* run: receive the next order, or leave the loop when ch is closed and empty.
Receive ==
  /\ mpc = "idle"
  /\ \/ /\ ch # <<>>
        /\ cur' = Head(ch)
        /\ ch' = Tail(ch)
        /\ mpc' = "match"
     \/ /\ ch = <<>> /\ closed
        /\ mpc' = "stopped"
        /\ UNCHANGED <<cur, ch>>
  /\ NoPublish
  /\ UNCHANGED <<order, repo, trades, closed, view, handlerVars, trade, book, index>>

PassiveSide == Opposite(order[cur].side)

\* The loop condition of matchBuy / matchSell.
CanTrade ==
  /\ book[PassiveSide] # <<>>
  /\ Overlaps(order[cur].side, order[cur].price, Head(book[PassiveSide]).price)
  /\ RemainingQuantity(order[cur]) > 0

\* Mutant: min64 is forgotten, the resting quantity is traded.
NextTradeUncapped ==
  LET best  == Head(book[PassiveSide])
      isBuy == order[cur].side = "BUY"
  IN  [buy   |-> IF isBuy THEN cur ELSE best.order,
       sell  |-> IF isBuy THEN best.order ELSE cur,
       price |-> best.price,
       qty   |-> best.remaining]

\* The trade executeTrade builds: the passive order sets the price.
NextTrade ==
  LET best == Head(book[PassiveSide])
      rem  == RemainingQuantity(order[cur])
      isBuy == order[cur].side = "BUY"
  IN  [buy   |-> IF isBuy THEN cur ELSE best.order,
       sell  |-> IF isBuy THEN best.order ELSE cur,
       price |-> best.price,
       qty   |-> IF rem < best.remaining THEN rem ELSE best.remaining]

\* Mutant: the error of tradeRepo.Save is only logged.
SaveTradeGoesOn ==
  /\ mpc = "match" /\ CanTrade
  /\ trade' = NextTrade
  /\ \/ trades' = Append(trades, NextTrade)
     \/ "saveTrade" \in Failures /\ UNCHANGED trades
  /\ mpc' = "fillBuy"
  /\ NoPublish
  /\ UNCHANGED <<order, repo, ch, closed, view, handlerVars, cur, book, index>>

\* One iteration up to tradeRepo.Save.  On an error executeTrade returns
\* at once, and the caller goes on to update the resting entry; the INSERT may
\* have been committed all the same, and the trade is then stored unfilled.
SaveTrade ==
  /\ mpc = "match" /\ CanTrade
  /\ trade' = NextTrade
  /\ \/ /\ trades' = Append(trades, NextTrade)
        /\ mpc' = "fillBuy"
     \/ /\ "saveTrade" \in Failures
        /\ mpc' = "settle"
        /\ trades' \in {trades, Append(trades, NextTrade)}
  /\ NoPublish
  /\ UNCHANGED <<order, repo, ch, closed, view, handlerVars, cur, book, index>>

\* Mutant: the order is filled to its end whatever was traded.
FillOrderFully(o) ==
  /\ order' = [order EXCEPT ![o] = Fill(@, RemainingQuantity(@))]
  /\ NoPublish
  /\ UNCHANGED <<repo, trades, ch, closed, view, handlerVars, cur, trade, book, index>>

FillOrder(o) ==
  /\ order' = [order EXCEPT ![o] = Fill(@, trade.qty)]
  /\ NoPublish
  /\ UNCHANGED <<repo, trades, ch, closed, view, handlerVars, cur, trade, book, index>>

FillBuy  == mpc = "fillBuy"  /\ mpc' = "fillSell"  /\ FillOrder(trade.buy)
FillSell == mpc = "fillSell" /\ mpc' = "updateBuy" /\ FillOrder(trade.sell)

\* orderRepo.Update; an error (no such row, or storage down) is only logged, so
\* an UPDATE that was committed although it failed is like one that succeeded.
UpdateOrder(o) ==
  /\ \/ /\ repo[o].status # "NONE"
        /\ repo' = [repo EXCEPT ![o] = Row(order[o])]
     \/ /\ repo[o].status = "NONE" \/ "updateOrder" \in Failures
        /\ UNCHANGED repo
  /\ NoPublish
  /\ UNCHANGED <<order, trades, ch, closed, view, handlerVars, cur, trade, book, index>>

\* Mutant: the buy order is updated a second time.
UpdateSellWrong == mpc = "updateSell" /\ mpc' = "ticker" /\ UpdateOrder(trade.buy)

UpdateBuy  == mpc = "updateBuy"  /\ mpc' = "updateSell" /\ UpdateOrder(trade.buy)
UpdateSell == mpc = "updateSell" /\ mpc' = "ticker"     /\ UpdateOrder(trade.sell)

\* updateTicker: TickerUpdated is published only for a registered stock.
UpdateTicker ==
  /\ mpc = "ticker" /\ mpc' = "pubTrade"
  /\ IF view.status = "absent" THEN NoPublish ELSE Publish("TickerUpdated", NoOrder)
  /\ UNCHANGED <<order, repo, trades, ch, closed, view, handlerVars, cur, trade, book, index>>

\* The three Publish calls that end executeTrade.  TradeExecuted carries the
\* trade (named by its position in the repository); OrderUpdated carries the
\* live order pointer.
PublishStep(from, to, type, ref) ==
  /\ mpc = from /\ mpc' = to
  /\ Publish(type, ref)
  /\ UNCHANGED <<order, repo, trades, ch, closed, view, handlerVars, cur, trade, book, index>>

PublishTrade == PublishStep("pubTrade", "pubBuy", "TradeExecuted", Len(trades))
PublishBuy   == PublishStep("pubBuy", "pubSell", "OrderUpdated", trade.buy)
PublishSell  == PublishStep("pubSell", "settle", "OrderUpdated", trade.sell)

\* Mutant: a removed order stays in the duplicate guard's index.
SettleKeepsIndex ==
  LET best == Head(book[PassiveSide])
      left == best.remaining - trade.qty
  IN  /\ mpc = "settle" /\ mpc' = "match"
      /\ book' = IF left <= 0
                 THEN [s \in Sides |-> RemoveEntry(book[s], best.order)]
                 ELSE [book EXCEPT ![PassiveSide][1].remaining = left]
      /\ trade' = NoTrade
      /\ NoPublish
      /\ UNCHANGED <<order, repo, trades, ch, closed, view, handlerVars, cur, index>>

\* best.remaining -= qty; removeOrder when nothing is left.
Settle ==
  LET best == Head(book[PassiveSide])
      left == best.remaining - trade.qty
  IN  /\ mpc = "settle" /\ mpc' = "match"
      /\ IF left <= 0
         THEN /\ book' = [s \in Sides |-> RemoveEntry(book[s], best.order)]
              /\ index' = index \ {best.order}
         ELSE /\ book' = [book EXCEPT ![PassiveSide][1].remaining = left]
              /\ UNCHANGED index
      /\ trade' = NoTrade
      /\ NoPublish
      /\ UNCHANGED <<order, repo, trades, ch, closed, view, handlerVars, cur>>

\* matchOrder after the loop: the remainder rests (addOrder), and
\* publishOrderBook stores and publishes the new depth.
RestOrder ==
  LET o     == order[cur]
      rests == IsActive(o) /\ RemainingQuantity(o) > 0 /\ cur \notin index
      entry == [order |-> cur, price |-> o.price, remaining |-> RemainingQuantity(o)]
      after == IF rests THEN [book EXCEPT ![o.side] = AddEntry(o.side, @, entry)] ELSE book
  IN  /\ mpc = "match" /\ ~CanTrade
      /\ mpc' = "idle"
      /\ cur' = NoOrder
      /\ book' = after
      /\ index' = IF rests THEN index \cup {cur} ELSE index
      /\ view' = IF view.status = "absent" THEN view
                 ELSE [status |-> "live",
                       levels |-> [s \in Sides |-> AggregateLevels(after[s], DepthLevels)]]
      /\ Publish("OrderBookUpdated", NoOrder)
      /\ UNCHANGED <<order, repo, trades, ch, closed, handlerVars, trade>>

MatcherStep ==
  \/ Receive
  \/ SaveTrade
  \/ FillBuy    \/ FillSell
  \/ UpdateBuy  \/ UpdateSell
  \/ UpdateTicker
  \/ PublishTrade \/ PublishBuy \/ PublishSell
  \/ Settle
  \/ RestOrder

-----------------------------------------------------------------------------
\* The feed's InitStock: an empty order book, once.
InitStock ==
  /\ view.status = "absent"
  /\ view' = [status |-> "initial", levels |-> EmptyLevels]
  /\ NoPublish
  /\ UNCHANGED <<order, repo, trades, ch, closed, handlerVars, matcherVars>>

\* Engine.Stop, called by main once srv.Shutdown has returned: no handler is
\* running, or the grace period is over.
Stop ==
  /\ ~closed
  /\ GraceExpires \/ \A o \in Orders : phase[o] \in {"new"} \cup Finished
  /\ closed' = TRUE
  /\ NoPublish
  /\ UNCHANGED <<order, repo, trades, ch, view, handlerVars, matcherVars>>

\* The server has stopped and no handler is left: the behaviour ends here.
Terminated ==
  /\ mpc = "stopped"
  /\ \A o \in Orders : phase[o] \in {"new"} \cup Finished
  /\ view.status # "absent"
  /\ UNCHANGED vars

Next ==
  \/ \E o \in Orders : CreateOrder(o)
  \/ MatcherStep
  \/ InitStock
  \/ Stop
  \/ Terminated

Spec == Init /\ [][Next]_vars

\* Go schedules every runnable goroutine: the matcher never blocks except on
\* an empty channel, and a handler that has started runs to its end.
Fairness ==
  /\ WF_vars(MatcherStep)
  /\ \A o \in Orders : WF_vars(phase[o] # "new" /\ CreateOrder(o))

FairSpec == Spec /\ Fairness

-----------------------------------------------------------------------------
(***************************************************************************)
(* Properties.                                                             *)
(***************************************************************************)
Phases == {"new", "saved", "submitted"} \cup Finished

TradeSteps == {"fillBuy", "fillSell", "updateBuy", "updateSell", "ticker",
               "pubTrade", "pubBuy", "pubSell", "settle"}

EntryRec == [order : Orders, price : Prices, remaining : Nat]

\* Every variable holds a value of the type the code gives it, and the channel
\* respects its capacity.
TypeOK ==
  /\ order \in [Orders -> OrderRec]
  /\ repo \in [Orders -> [status : Statuses \cup {"NONE"}, filled : Nat]]
  /\ trades \in Seq(TradeRec)
  /\ phase \in [Orders -> Phases]
  /\ ch \in Seq(Orders) /\ Len(ch) <= ChanCap
  /\ closed \in BOOLEAN
  /\ accepted \in Seq(Orders)
  /\ mpc \in {"idle", "match", "stopped"} \cup TradeSteps
  /\ cur \in Orders \cup {NoOrder}
  /\ trade \in TradeRec \cup {NoTrade}
  /\ book \in [Sides -> Seq(EntryRec)]
  /\ index \in SUBSET Orders
  /\ view.status \in {"absent", "initial", "live"}

\* The orders the matcher is done with: accepted, not queued, not current.
Processed == ToSet(accepted) \ (ToSet(ch) \cup {cur})

\* Processed orders that still have something to trade.
Resting(side) == {o \in Processed : /\ order[o].side = side
                                    /\ IsActive(order[o])
                                    /\ RemainingQuantity(order[o]) > 0}

\* When o entered the channel.
Arrival(o) == CHOOSE i \in DOMAIN accepted : accepted[i] = o

\* x is to be served before y: both rest on the same side of the book.
Precedes(x, y) ==
  \/ Better(order[x].side, order[x].price, order[y].price)
  \/ order[x].price = order[y].price /\ Arrival(x) < Arrival(y)

\* What the trades of q say o has traded.
TradedIn(q, o) ==
  LET sum[n \in 0 .. Len(q)] ==
        IF n = 0 THEN 0
        ELSE sum[n - 1] + IF o \in {q[n].buy, q[n].sell} THEN q[n].qty ELSE 0
  IN  sum[Len(q)]

\* What the persisted trades say o has traded.
Traded(o) == TradedIn(trades, o)

\* No order is ever filled beyond its quantity, whatever storage calls fail,
\* and FILLED means exactly that nothing remains (entity.Order.Fill).
NoOverfill ==
  \A o \in Orders : /\ order[o].filled <= order[o].quantity
                    /\ (order[o].status = "FILLED") <=> (order[o].filled = order[o].quantity)

\* Between orders the stored rows are the engine's orders, whichever handler,
\* Save or Update came last.
RowsCatchUp ==
  mpc \in {"idle", "stopped"} =>
    \A o \in Orders : repo[o].status # "NONE" => repo[o] = Row(order[o])

\* "After exhausting matches, any remaining quantity rests in the book"
\* (matchOrder): between orders, the book holds exactly the active processed
\* orders, each once and with its true remaining quantity, and the duplicate
\* guard's index names exactly them.
RemainderRests ==
  mpc \in {"idle", "stopped"} =>
    \A side \in Sides :
      /\ {<<e.order, e.remaining>> : e \in ToSet(book[side])}
           = {<<o, RemainingQuantity(order[o])>> : o \in Resting(side)}
      /\ Len(book[side]) = Cardinality(Resting(side))
      /\ index = Resting("BUY") \cup Resting("SELL")

\* Between orders no resting bid reaches a resting ask: every possible match
\* has been made.
NotCrossed ==
  mpc \in {"idle", "stopped"} =>
    \A b \in Resting("BUY"), s \in Resting("SELL") : order[b].price < order[s].price

\* A trade takes the resting order that price-time priority puts first, among
\* all orders that really have quantity left, not only those in the book, and
\* is made at that order's price.
TradeTakesFirst ==
  trades' # trades =>
    LET t == Last(trades')
        passive == IF t.buy = cur THEN t.sell ELSE t.buy
    IN  /\ passive \in Resting(PassiveSide)
        /\ \A z \in Resting(PassiveSide) \ {passive} : Precedes(passive, z)
        /\ t.price = order[passive].price
PriceTimePriority == [][TradeTakesFirst]_vars

\* What clients see of an order only moves forward: the filled quantity of a
\* stored order never decreases and a FILLED row stays as it is.
RowMovesForward ==
  \A o \in Orders : /\ repo[o].filled <= repo'[o].filled
                    /\ repo[o].status = "FILLED" => repo'[o] = repo[o]
RowsMoveForward == [][RowMovesForward]_vars

\* The depth the stored snapshot must show for one side: the best DepthLevels
\* prices that have resting orders, with their total quantity and count.
IsDepthOf(levels, side) ==
  LET at(p)  == {o \in Resting(side) : order[o].price = p}
      prices == {order[o].price : o \in Resting(side)}
  IN  /\ Len(levels) = (IF DepthLevels > 0 /\ Cardinality(prices) > DepthLevels
                        THEN DepthLevels ELSE Cardinality(prices))
      /\ \A i \in DOMAIN levels :
           LET l == levels[i]
           IN  /\ l.price \in prices
               /\ Cardinality({p \in prices : Better(side, p, l.price)}) = i - 1
               /\ l.count = Cardinality(at(l.price))
               /\ l.quantity = MapThenSumSet(LAMBDA o : RemainingQuantity(order[o]), at(l.price))

\* Once the stock is registered and an order has been processed, the stored
\* order book is the true depth of the resting orders between two orders
\* (aggregateLevels, publishOrderBook).
DepthIsAccurate ==
  mpc \in {"idle", "stopped"} /\ view.status = "live" =>
    \A side \in Sides : IsDepthOf(view.levels[side], side)

\* The quantity of a saved trade that has not yet been filled into o.
Pending(o) ==
  IF \/ o = trade.buy /\ mpc = "fillBuy"
     \/ o = trade.sell /\ mpc \in {"fillBuy", "fillSell"}
  THEN trade.qty ELSE 0

\* The terms of the orders, what they have left once every saved trade is
\* counted, and the fills the stored rows show.
LedgerTerms == [o \in Orders |-> [side     |-> order[o].side,
                                  price    |-> order[o].price,
                                  quantity |-> order[o].quantity]]
LedgerLeft  == [o \in Orders |-> RemainingQuantity(order[o]) - Pending(o)]
LedgerShown == [o \in Orders |-> repo[o].filled]

Ledger == INSTANCE TradeLedger WITH
  terms <- LedgerTerms, left <- LedgerLeft, tape <- trades, shown <- LedgerShown,
  Voids <- "saveTrade" \in Failures

\* The engine implements the ledger: a trade counts from the moment
\* tradeRepo.Save has it, and each later step of executeTrade either changes
\* nothing the ledger speaks of or shows readers what was traded, whichever
\* storage calls fail in between.  Only a tradeRepo.Save that fails after its
\* INSERT was committed leaves a stored trade that counts for nobody.
ImplementsLedger == Ledger!LSpec

\* An order the channel has taken is eventually matched and rested, Stop or
\* no Stop ("drains queued orders").
AcceptedIsMatched ==
  \A o \in Orders : (o \in ToSet(accepted)) ~> (o \in Processed)

\* Closing the channel ends the matcher goroutine with nothing left in ch, so
\* Engine.Stop's wg.Wait returns.
StopDrains == closed ~> (mpc = "stopped" /\ ch = <<>>)

=============================================================================
