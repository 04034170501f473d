----------------------------- MODULE MarketData -----------------------------
(***************************************************************************)
(* The ticker and order book snapshots of one stock and everyone who       *)
(* writes them:                                                            *)
(*   - the matcher: updateTicker (MarketRepo.UpdateTickerFromTrade), the   *)
(*     TradeExecuted event, publishOrderBook                               *)
(*   - the Simulator goroutine of the stock: timer ticks and real trades,  *)
(*     each followed by emit (MarketRepo.UpdateTicker, TickerUpdated)      *)
(*   - the dispatcher: wireEvents' write-through to Redis and the          *)
(*     simulator's own TradeExecuted handler                               *)
(* Trades are taken from small sets; how they come about is module         *)
(* Matcher.  A ticker is stored by swapping a pointer, under the write     *)
(* lock in UpdateTickerFromTrade but under no lock in UpdateTicker.        *)
(* ChangePct and the timestamps are left out, and so are the OrderUpdated  *)
(* events, which nobody here handles.  An order book snapshot is its       *)
(* version number.                                                         *)
(***************************************************************************)
EXTENDS Integers, SequencesExt

CONSTANTS
  BasePrice,     \* entity.Stock.BasePrice
  TickSize,      \* entity.Stock.TickSize
  TradePrices,   \* prices of the trades the matcher makes
  TradeQtys,     \* and their quantities
  TickVolumes,   \* what a simulated tick may add to the volume (50..499)
  TradeChanCap,  \* capacity of a tradeChans channel (16 in the code)
  BusCap,        \* dispatchBufferSize (10000 in the code)
  RedisFails,    \* TRUE iff a Redis SET may fail
  MaxOrders,     \* bound: orders the matcher receives
  MaxTrades,     \* bound: trades the matcher makes
  MaxTicks       \* bound: timer ticks of the simulator

ASSUME StockAssumption == BasePrice \in Nat \ {0} /\ TickSize \in Nat
ASSUME TradeAssumption ==
  /\ TradePrices \subseteq Nat \ {0} /\ TradeQtys \subseteq Nat \ {0}
  /\ TickVolumes \subseteq Nat \ {0}
ASSUME CapAssumption ==
  /\ TradeChanCap \in Nat /\ BusCap \in Nat /\ RedisFails \in BOOLEAN
  /\ MaxOrders \in Nat /\ MaxTrades \in Nat /\ MaxTicks \in Nat

VARIABLES
  registered,  \* the stock is in MarketRepo.tickers and .books
  ticker,      \* the stored *entity.Ticker
  locked,      \* MarketRepo.mu is held by UpdateTickerFromTrade
  mpc,         \* where the matcher is
  deal,        \* the trade it is announcing
  loaded,      \* UpdateTickerFromTrade's `current`, then the copy it returns
  orders,      \* number of orders it has received
  depth,       \* version of its last order book snapshot
  stored,      \* version in MarketRepo.books
  spc,         \* where the simulator goroutine is
  sim,         \* its currentPrice, high, low and volume
  tradeCh,     \* its tradeChans channel
  subscribed,  \* its TradeExecuted handler is registered
  bus,         \* EventBus.ch
  redis,       \* the cached ticker and book, <<>> when there is none
  done,        \* history: the trades made so far
  ticks,       \* number of timer ticks so far
  lost         \* history: TRUE once an event, a trade, a SET or a snapshot was dropped

repoVars    == <<registered, ticker, locked>>
matcherVars == <<mpc, deal, loaded, orders, depth, stored, done>>
simVars     == <<spc, sim, tradeCh, subscribed, ticks>>
vars        == <<repoVars, matcherVars, simVars, bus, redis, lost>>

-----------------------------------------------------------------------------
(***************************************************************************)
(* entity.Ticker and entity.RoundToTick.                                   *)
(***************************************************************************)
EmptyTicker ==
  [last |-> 0, prevClose |-> 0, change |-> 0, high |-> 0, low |-> 0, volume |-> 0]

Higher(h, p) == IF p > h THEN p ELSE h
Lower(l, p)  == IF p < l \/ l = 0 THEN p ELSE l

\* Mutant: a low of zero is taken for a price.
UpdateFromTradeZeroLow(t, price, qty) ==
  [t EXCEPT !.last = price, !.volume = @ + qty,
            !.high = Higher(@, price),
            !.low = IF price < @ THEN price ELSE @,
            !.change = IF t.prevClose > 0 THEN price - t.prevClose ELSE @]

UpdateFromTrade(t, price, qty) ==
  [t EXCEPT !.last = price, !.volume = @ + qty,
            !.high = Higher(@, price), !.low = Lower(@, price),
            !.change = IF t.prevClose > 0 THEN price - t.prevClose ELSE @]

RoundToTick(price) == IF TickSize <= 0 THEN price ELSE (price \div TickSize) * TickSize

(***************************************************************************)
(* nextPrice: the prices one tick may lead to.  The random part is within  *)
(* half a percent of the current price, the reversion one percent of the   *)
(* distance to the base; in thousandths their sum lies in [from, to), and  *)
(* int64() cuts its fraction off.                                          *)
(***************************************************************************)
Truncate(x) == IF x >= 0 THEN x \div 1000 ELSE -((-x) \div 1000)

Clamp(v, lo, hi) == IF v < lo THEN lo ELSE IF v > hi THEN hi ELSE v

NextPrices(current) ==
  LET pull == 10 * (BasePrice - current)
      from == pull - 5 * current
      to   == pull + 5 * current
      step(d) == Clamp(RoundToTick(current + d),
                       (BasePrice * 90) \div 100, (BasePrice * 110) \div 100)
  IN  {Higher(TickSize, step(d)) : d \in Truncate(from)..Truncate(to - 1)}

-----------------------------------------------------------------------------
Init ==
  /\ registered = FALSE /\ ticker = EmptyTicker /\ locked = FALSE
  /\ mpc = "idle" /\ deal = [price |-> 0, qty |-> 0] /\ loaded = EmptyTicker
  /\ orders = 0 /\ depth = 0 /\ stored = 0 /\ done = <<>>
  /\ spc = "init"
  /\ sim = [price |-> BasePrice, high |-> BasePrice, low |-> BasePrice, volume |-> 0]
  /\ tradeCh = <<>> /\ subscribed = FALSE /\ ticks = 0
  /\ bus = <<>>
  /\ redis = [ticker |-> <<>>, book |-> <<>>]
  /\ lost = FALSE

TickerUpdated(t)    == [type |-> "TickerUpdated", payload |-> t]
TradeExecuted(d)    == [type |-> "TradeExecuted", payload |-> d]
OrderBookUpdated(n) == [type |-> "OrderBookUpdated", payload |-> n]

\* EventBus.Publish: dropped when the buffer is full.
Publish(e) ==
  \/ Len(bus) < BusCap /\ bus' = Append(bus, e) /\ UNCHANGED lost
  \/ Len(bus) >= BusCap /\ lost' = TRUE /\ UNCHANGED bus

-----------------------------------------------------------------------------
(***************************************************************************)
(* The matcher.  matchOrder makes any number of trades, each with          *)
(* updateTicker and its TradeExecuted event, and ends with                 *)
(* publishOrderBook.                                                       *)
(***************************************************************************)
Receive ==
  /\ mpc = "idle" /\ mpc' = "match"
  /\ orders < MaxOrders /\ orders' = orders + 1
  /\ UNCHANGED <<repoVars, deal, loaded, depth, stored, done, simVars, bus, redis, lost>>

\* UpdateTickerFromTrade takes the write lock and loads the pointer; for an
\* unknown stock it fails and TickerUpdated is skipped.
LoadTicker(p, q) ==
  /\ mpc = "match" /\ Len(done) < MaxTrades
  /\ ~locked
  /\ deal' = [price |-> p, qty |-> q]
  /\ done' = Append(done, deal')
  /\ IF registered
     THEN locked' = TRUE /\ loaded' = ticker /\ mpc' = "store"
     ELSE mpc' = "pubTrade" /\ UNCHANGED <<locked, loaded>>
  /\ UNCHANGED <<registered, ticker, orders, depth, stored, simVars, bus, redis, lost>>

StoreTicker ==
  /\ mpc = "store" /\ mpc' = "pubTicker"
  /\ ticker' = UpdateFromTrade(loaded, deal.price, deal.qty)
  /\ loaded' = ticker'
  /\ locked' = FALSE
  /\ UNCHANGED <<registered, deal, orders, depth, stored, done, simVars, bus, redis, lost>>

PublishTicker ==
  /\ mpc = "pubTicker" /\ mpc' = "pubTrade"
  /\ Publish(TickerUpdated(loaded))
  /\ UNCHANGED <<repoVars, deal, loaded, orders, depth, stored, done, simVars, redis>>

\* Mutant: the trade is not announced.
PublishTradeSkipped ==
  /\ mpc = "pubTrade" /\ mpc' = "match"
  /\ UNCHANGED <<repoVars, deal, loaded, orders, depth, stored, done, simVars, bus, redis, lost>>

PublishTrade ==
  /\ mpc = "pubTrade" /\ mpc' = "match"
  /\ Publish(TradeExecuted(deal))
  /\ UNCHANGED <<repoVars, deal, loaded, orders, depth, stored, done, simVars, redis>>

\* publishOrderBook: for an unknown stock UpdateOrderBook fails, and the
\* snapshot is published all the same.
StoreBook ==
  /\ mpc = "match" /\ mpc' = "pubBook"
  /\ ~locked
  /\ depth' = depth + 1
  /\ stored' = IF registered THEN depth' ELSE stored
  /\ lost' = (lost \/ ~registered)
  /\ UNCHANGED <<repoVars, deal, loaded, orders, done, simVars, bus, redis>>

PublishBook ==
  /\ mpc = "pubBook" /\ mpc' = "idle"
  /\ Publish(OrderBookUpdated(depth))
  /\ UNCHANGED <<repoVars, deal, loaded, orders, depth, stored, done, simVars, redis>>

MatcherStep ==
  \/ Receive
  \/ \E p \in TradePrices, q \in TradeQtys : LoadTicker(p, q)
  \/ StoreTicker \/ PublishTicker \/ PublishTrade
  \/ StoreBook \/ PublishBook

-----------------------------------------------------------------------------
(***************************************************************************)
(* Simulator.Start and simulateStock.                                      *)
(***************************************************************************)
InitStock ==
  /\ spc = "init" /\ spc' = "subscribe"
  /\ ~locked
  /\ registered' = TRUE
  /\ UNCHANGED <<ticker, locked, matcherVars, sim, tradeCh, subscribed, ticks, bus, redis, lost>>

Subscribe ==
  /\ spc = "subscribe" /\ spc' = "select"
  /\ subscribed' = TRUE
  /\ UNCHANGED <<repoVars, matcherVars, sim, tradeCh, ticks, bus, redis, lost>>

\* A new price and its volume enter the session's numbers.
Moved(price, volume) ==
  [price |-> price, high |-> Higher(sim.high, price), low |-> Lower(sim.low, price),
   volume |-> sim.volume + volume]

TakeTrade ==
  /\ spc = "select" /\ tradeCh # <<>> /\ spc' = "lookup"
  /\ sim' = Moved(Head(tradeCh).price, Head(tradeCh).qty)
  /\ tradeCh' = Tail(tradeCh)
  /\ UNCHANGED <<repoVars, matcherVars, subscribed, ticks, bus, redis, lost>>

Tick ==
  /\ spc = "select" /\ ticks < MaxTicks /\ spc' = "lookup"
  /\ ticks' = ticks + 1
  /\ \E p \in NextPrices(sim.price), v \in TickVolumes : sim' = Moved(p, v)
  /\ UNCHANGED <<repoVars, matcherVars, tradeCh, subscribed, bus, redis, lost>>

\* The ticker emit builds from the session's numbers.
SimTicker ==
  [last |-> sim.price, prevClose |-> BasePrice, change |-> sim.price - BasePrice,
   high |-> sim.high, low |-> sim.low, volume |-> sim.volume]

\* UpdateTicker: the entry is looked up under the read lock ...
LookupEntry ==
  /\ spc = "lookup" /\ spc' = "emit"
  /\ ~locked
  /\ UNCHANGED <<repoVars, matcherVars, sim, tradeCh, subscribed, ticks, bus, redis, lost>>

\* ... and the pointer is swapped after it has been released.
StoreEmitted ==
  /\ spc = "emit" /\ spc' = "publish"
  /\ ticker' = SimTicker
  /\ UNCHANGED <<registered, locked, matcherVars, sim, tradeCh, subscribed, ticks, bus, redis, lost>>

PublishEmitted ==
  /\ spc = "publish" /\ spc' = "select"
  /\ Publish(TickerUpdated(SimTicker))
  /\ UNCHANGED <<repoVars, matcherVars, sim, tradeCh, subscribed, ticks, redis>>

\* ctx.Done: the goroutine returns, and Start unsubscribes.
Cancelled ==
  /\ spc = "select" /\ spc' = "unsubscribe"
  /\ UNCHANGED <<repoVars, matcherVars, sim, tradeCh, subscribed, ticks, bus, redis, lost>>

Unsubscribe ==
  /\ spc = "unsubscribe" /\ spc' = "stopped"
  /\ subscribed' = FALSE
  /\ UNCHANGED <<repoVars, matcherVars, sim, tradeCh, ticks, bus, redis, lost>>

SimStep ==
  \/ InitStock \/ Subscribe \/ TakeTrade \/ Tick
  \/ LookupEntry \/ StoreEmitted \/ PublishEmitted
  \/ Cancelled \/ Unsubscribe

-----------------------------------------------------------------------------
(***************************************************************************)
(* The dispatcher and Redis.                                               *)
(***************************************************************************)
\* Mutant: the book is cached only when nothing is cached yet.
SetOrderBookOnce(n) ==
  /\ redis' = [redis EXCEPT !.book = IF @ = <<>> THEN <<n>> ELSE @]
  /\ UNCHANGED lost

\* Cache.SetTicker and Cache.SetOrderBook; an error is only logged.
SetTicker(t) ==
  \/ redis' = [redis EXCEPT !.ticker = <<t>>] /\ UNCHANGED lost
  \/ RedisFails /\ lost' = TRUE /\ UNCHANGED redis

SetOrderBook(n) ==
  \/ redis' = [redis EXCEPT !.book = <<n>>] /\ UNCHANGED lost
  \/ RedisFails /\ lost' = TRUE /\ UNCHANGED redis

\* Mutant: one trade more than the channel holds.
ForwardTradeOffByOne(d) ==
  IF subscribed /\ Len(tradeCh) <= TradeChanCap
  THEN tradeCh' = Append(tradeCh, d) /\ UNCHANGED lost
  ELSE lost' = TRUE /\ UNCHANGED tradeCh

\* The simulator's handler: dropped when its channel is full.  An event that
\* comes before Subscribe finds no handler.
ForwardTrade(d) ==
  IF subscribed /\ Len(tradeCh) < TradeChanCap
  THEN tradeCh' = Append(tradeCh, d) /\ UNCHANGED lost
  ELSE lost' = TRUE /\ UNCHANGED tradeCh

Dispatch ==
  /\ bus # <<>>
  /\ bus' = Tail(bus)
  /\ LET e == Head(bus)
     IN  \/ e.type = "TickerUpdated" /\ SetTicker(e.payload) /\ UNCHANGED tradeCh
         \/ e.type = "OrderBookUpdated" /\ SetOrderBook(e.payload) /\ UNCHANGED tradeCh
         \/ e.type = "TradeExecuted" /\ ForwardTrade(e.payload) /\ UNCHANGED redis
  /\ UNCHANGED <<repoVars, matcherVars, spc, sim, subscribed, ticks>>

\* A cached value reaches its time to live.
Expire ==
  /\ \/ redis.ticker # <<>> /\ redis' = [redis EXCEPT !.ticker = <<>>]
     \/ redis.book # <<>> /\ redis' = [redis EXCEPT !.book = <<>>]
  /\ UNCHANGED <<repoVars, matcherVars, simVars, bus, lost>>

(***************************************************************************)
(* What a read of market.Service may answer: the cached value when there   *)
(* is one, else, or when Redis fails, what the repository holds.           *)
(***************************************************************************)
CacheAside(cached, fallback) ==
  (IF cached # <<>> THEN {cached[1]} ELSE {fallback})
    \cup (IF RedisFails THEN {fallback} ELSE {})

GetTicker    == CacheAside(redis.ticker, ticker)
GetOrderBook == CacheAside(redis.book, stored)

\* Nothing is on its way: every goroutine waits for new input.
Quiet ==
  /\ mpc = "idle" /\ bus = <<>>
  /\ spc \in {"select", "stopped"}
  /\ spc = "select" => tradeCh = <<>>

Rest == Quiet /\ orders = MaxOrders /\ UNCHANGED vars

Next == MatcherStep \/ SimStep \/ Dispatch \/ Expire \/ Rest

Spec == Init /\ [][Next]_vars

-----------------------------------------------------------------------------
(***************************************************************************)
(* Properties.                                                             *)
(***************************************************************************)
Tickers == [last : Nat, prevClose : {0, BasePrice}, change : Int, high : Nat, low : Nat,
            volume : Nat]

\* A sequence of at most one element of S.
IsOptional(s, S) == s = <<>> \/ (Len(s) = 1 /\ s[1] \in S)

\* The type invariant; only UpdateTickerFromTrade holds the write lock across
\* a step of somebody else, and both channels keep their capacity.
TypeOK ==
  /\ registered \in BOOLEAN /\ ticker \in Tickers
  /\ mpc \in {"idle", "match", "store", "pubTicker", "pubTrade", "pubBook"}
  /\ locked = (mpc = "store")
  /\ loaded \in Tickers
  /\ orders \in 0..MaxOrders /\ depth \in 0..orders /\ stored \in 0..depth
  /\ Len(done) <= MaxTrades /\ ticks \in 0..MaxTicks
  /\ spc \in {"init", "subscribe", "select", "lookup", "emit", "publish",
              "unsubscribe", "stopped"}
  /\ Len(tradeCh) <= TradeChanCap /\ Len(bus) <= BusCap
  /\ IsOptional(redis.ticker, Tickers) /\ IsOptional(redis.book, 0..depth)
  /\ subscribed \in BOOLEAN /\ lost \in BOOLEAN

\* What a ticker says is consistent: its price lies between its low and its
\* high, and its change is the distance from the previous close when it has one.
Coherent(t) ==
  t.last # 0 => /\ 0 < t.low /\ t.low <= t.last /\ t.last <= t.high
                /\ t.prevClose > 0 => t.change = t.last - t.prevClose

\* Every ticker a client can be shown - the one GetTicker answers, from Redis or
\* from the repository, and those on their way to the hub - is coherent, however UpdateTickerFromTrade on a ticker
\* nobody has emitted yet and the simulator's emit interleave.
TickersCoherent ==
  /\ \A t \in GetTicker : Coherent(t)
  /\ \A i \in DOMAIN bus : bus[i].type = "TickerUpdated" => Coherent(bus[i].payload)

\* The volume of all trades so far.
Traded ==
  LET Sum[n \in 0..Len(done)] == IF n = 0 THEN 0 ELSE Sum[n - 1] + done[n].qty
  IN  Sum[Len(done)]

\* Whatever the two writers of the ticker overwrote on the way, once nothing is
\* in flight and nothing was dropped the simulator's emit has had the last word:
\* GetTicker answers its session, which counts every trade, cached or not.
QuietTickerIsSession ==
  (Quiet /\ ~lost /\ spc = "select" /\ (ticks > 0 \/ done # <<>>)) =>
    GetTicker = {SimTicker} /\ SimTicker.volume >= Traded

\* Once every event has been handled and nothing was dropped, GetOrderBook answers
\* the matcher's last snapshot and not an older version, whether the cached copy
\* has expired in the meantime or Redis does not answer.
BookCacheCatchesUp == (Quiet /\ ~lost) => GetOrderBook = {depth}

=============================================================================
