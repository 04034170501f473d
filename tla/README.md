# Verification of the mini exchange

TLA+ models of the exchange server under `src/`, checked with TLC on small
instances and, for the matching engine and its book, the write path to the database,
the WebSocket hub, the cluster, user accounts and the rate limiter, proved with TLAPS
for every instance.
Every definition is translated from the Go source; `PROJECT.json` (`map`) names
the lines each one stands for.

## 1. The system

A single Go process (`src/cmd/server/main.go`) takes orders over HTTP, matches
them in memory, announces what happens on an in-process event bus, and feeds
WebSocket clients, a PostgreSQL database and optionally NATS and Redis from that
bus. Several such processes may share a database and split the stocks among
themselves over NATS.

| Component | State it keeps | Operations | Talks to |
|---|---|---|---|
| entities, order book (`domain/entity`, `engine/orderbook.go`) | an order's filled quantity and status; bids and asks as sorted slices; the ID index | `Fill`, `addOrder`, `removeOrder`, `aggregateLevels` | owned by one matcher |
| matching engine (`engine/engine.go`, `matcher.go`) | one channel and one goroutine per stock | `SubmitOrder`, `Stop`, `run`/`matchOrder`/`matchBuy`/`matchSell`/`executeTrade` | repositories, event bus |
| order service (`app/order/service.go`) | none | `CreateOrder`: Save, SubmitOrder, Publish | order repository, engine, bus |
| repositories (`infra/storage/memory`, `postgres`) | order rows, trades, tickers, order book snapshots | Save, Update, FindAll, InitStock, UpdateTicker, UpdateOrderBook | called by handlers, matcher, feed |
| event bus (`infra/broker/eventbus.go`) | a channel of 10000 events, one dispatch goroutine | `Publish` (drops when full), `Stop` | the handlers of `wireEvents` |
| DB worker (`worker/dbworker.go`) | write queue, batch, `stopped` flag | `Enqueue`, batch/ticker/flush with retries, `Stop` | PostgreSQL |
| WebSocket hub and clients (`transport/ws`) | clients, subscriptions, per-IP counters, one send channel per client | register, unregister, subscribe, unsubscribe, broadcast, direct send | upgrade handler, two pumps per client, bus handlers |
| price feeds (`simulator`) | the simulator's session (price, high, low, volume) and trade channel per stock; the Binance feed's reconnect attempt | `InitStock`, ticks, real trades, emit; connect, backoff | market repository, bus |
| Redis cache (`infra/storage/redis/cache.go`, `app/market/service.go`) | last ticker and book per stock, with a time to live | write-through on events, cache-aside reads | dispatcher, HTTP handlers |
| partitioning (`pkg/partition`, `internal/partition`, `natsbroker`, `redis/pubsub.go`) | stock ownership, NATS or Redis connections and subscriptions | route or forward an order, fan events out to the other instances | NATS, Redis, engine, hub |
| authentication (`infra/auth`, `middleware/auth.go`, `user_repo.go`) | two maps of users per process, the users table | register, login, validate a token, load the users at start | HTTP handlers, PostgreSQL |
| rate limiter (`middleware/ratelimit.go`, `netutil/ip.go`) | token bucket and last use per address | get, allow, sweep, stop | HTTP handlers |
| list endpoints (`handler/order.go`, `handler/trade.go`, `validator`, `response`) | none | filter, count, page | repositories |
| HTTP layer, configuration | none, or read once | | |

What is hard about it:

* **Concurrency.** HTTP handlers, one matcher goroutine per stock, the
  dispatcher, the DB worker, the hub, two pumps per connection, the feed and
  `main` run at once. They share `*entity.Order` pointers: the matcher fills an
  order while the dispatcher copies it.
* **Order of events.** `OrderCreated` is published after the matcher has the
  order. The hub reads six channels with one `select`, so requests of one client
  overtake each other.
* **Partial failure.** `executeTrade` makes three repository calls; any may fail
  with PostgreSQL, and the code continues differently after each. A call that is
  reported as failed may have been committed all the same.
* **Distribution.** An order for another instance travels over NATS at most once;
  instances start without NATS, crash, lose their links, and may disagree on how
  many they are. Every instance hears its own events again, and the Redis client
  sends a PUBLISH again when it gets no answer.
* **Check-then-act.** `Register` hashes and saves between two looks at the map;
  a request uses its token bucket after it has released the lock the sweep takes;
  a list is counted and selected in two queries.
* **Limits.** Matcher channel, event bus, write queue and send channels are
  bounded, and each drops or rejects in its own way when full.
* **Shutdown.** `main` stops HTTP, engine, simulator, bus and worker in that order
  and waits for each; the worker also stops itself on the root context, and nobody
  waits for the Binance feed.

What makes each part correct: an order is never filled beyond its quantity;
fills, trades and stored rows agree; price-time priority; remaining quantity
stays in the book; the published depth is the book; accepted orders are matched;
the database never shows what the engine has not done and catches up when
nothing is lost; shutdown ends and keeps what was accepted; the hub's tables
agree, its limits hold, no closed channel is used, and dropped clients end;
tickers are coherent and, once nothing is in flight, show the session in
repository and cache alike; a feed reconnects until it is cancelled; a stock has
one book in the cluster, an order is matched at most once and lost only for a
reason; a name belongs to one user; an address never exceeds its rate, evicted
or not; a client that walks the pages of a list misses nothing.

`PROJECT.json` lists every component with its status and every hazard at the
line where it bites.

## 2. Modules

| Module | Models | Correspondence |
|---|---|---|
| `OrderBook` | `entity.Order`, `orderbook.go` | Constant-level operators. `SliceStable` states what `sort.SliceStable` guarantees; `AddEntry` is append and sort; `AggregateLevels` is the loop as a fold. |
| `Matcher` | `order.Service.CreateOrder`, `Engine`, `Matcher`, the repositories as the engine uses them | One action per call that another goroutine can observe. `phase[o]` is the program counter of the handler of order `o`, `mpc` that of the matcher goroutine, `trade` the local variable of `executeTrade`. |
| `Persistence` | `EventBus`, the DB part of `wireEvents`, `DBWorker`, the two tables, the price feed as a publisher, `main`'s shutdown | Extends `Matcher` and composes with it through `pub`, the event the last engine step published. `feed` is where the goroutine of the feed named by `PriceFeed` is: the simulator, which `sim.Stop` waits for, or Binance, which goes on publishing until it notices the cancelled context. `joined` records whether one was left when `main` went on; a publish on the closed bus by it is the end of the process (`main = "crash"`). |
| `Hub` | `transport/ws` | One action per `select` case of `Hub.Run` and per step of `ServeHTTP`, `readPump`, `writePump`. |
| `MarketData` | `MarketRepo`'s tickers, the simulator, the dispatcher's Redis write-through | Writers of one stock's ticker and book. `UpdateTickerFromTrade` is a load and a store with the lock held between them, `UpdateTicker` a lookup under the lock and a store outside it. `mpc` and `spc` are the matcher's and the simulator's program counters; the matcher is reduced to the trades it announces. |
| `BinanceFeed` | `simulator/binance.go` | `pc` is the position in `Start` and `connect`; `CalcBackoff` computes in two's complement of `Width` bits; `Shift[n]` is `1 << n`. |
| `TradeLedger` | what the exchange promises its users | Abstract: trades are appended between willing orders with quantity left, and shown fills only grow and never run ahead of the trades. Where `Voids` is true a trade may be reported without being made. `Matcher!Ledger` maps the engine's state to it, with `Voids` exactly where `tradeRepo.Save` can fail. |
| `Cluster` | `partitioner.go`, `router.go`, `natsbroker`, `redis/pubsub.go`, the wiring and shutdown in `main.go`, `Config.Validate` | Each instance reduced to what the others see: its matchers' channels, its event bus, its subscriptions. `phase[n]` is where `main` is; NATS and Redis are external. |
| `Auth` | `jwt.go`, `user_repo.go`, the register and login handlers, the middleware | `reg[r].pc` is the position of a request in `Register`; `users` and `byID` are the maps of each server, `table` the users table they share. |
| `RateLimiter` | `ratelimit.go`, `netutil/ip.go` | A handler's `getLimiter` and `Allow` are two actions; `ideal` is a history variable, the bucket nobody evicts. |
| `Queries` | `FindAll` of the four repositories, the list handlers, `ParsePage`, `NewMeta` | A client that walks the pages while rows are added and filled. The in-memory `FindAll` is its loop (`Matched`); the PostgreSQL one is two actions, count and select, over the rows `NewestFirst`. |
| `MCMatcher`, `MCPersistence`, `MCHub`, `MCCluster` | – | Instances for TLC. |
| `MCServices`, `MCLiveness` | – | Several components for TLC that share nothing: each behaviour follows one of them and leaves the others in an initial state. The states are the sum, not the product, of the components' states. |
| `MatcherProofs`, `BookProofs`, `PersistenceProofs`, `HubProofs`, `ClusterProofs`, `MarketProofs`, `ApiProofs` | – | Inductive invariants and theorems; `ApiProofs` is about `Auth`, `RateLimiter` and `Queries`. |
| `RecursionLemmas` | – | The least number principle, functions defined by recursion on `0..N`, and folds and sums over finite sets, for the other proofs. |

Abstractions, and why they lose nothing the properties speak of:

* One stock. Matchers of different stocks have separate channels, goroutines and
  books and share only the repositories (rows keyed by order) and the bus.
* A request is an order's side, price and quantity, chosen in `Init` from what
  `ValidateCreateOrder` lets through. A user may have any number of orders; the
  engine does not look at users, so they are left out.
* Timestamps, IDs and message bodies are opaque. Prices and quantities are small
  integers. Two computations can leave an `int64`, and there the width is kept: the
  shift of `calcBackoff` (`Width`) and `(page-1)*perPage` of the lists, since `page`
  has no upper bound (`IntLimit`). Session volumes and depths are sums of quantities
  and are taken to fit.
* A repository call is atomic: the memory repositories hold their mutex
  throughout, PostgreSQL runs one statement. A failing INSERT has been committed or
  not. A failing UPDATE of an order is only logged, so one that was committed all the
  same is no different from one that succeeded.
* `Persistence` has the engine on in-memory repositories (`MemoryStorage`), as the
  default `STORAGE_TYPE` does, and the worker as the only writer of the tables.
* Copying an order that the matcher is filling is a data race; `Copies` lets the
  reader see any mixture of old and new fields.
* A pgx batch is one implicit transaction; it may fail for reasons of its own
  before or after its commit (`DBFlaky`).
* `RemoveClients` treats the slow clients of one broadcast together; the hub
  handles them one by one inside the same `select` case, which nobody else can
  interleave with since only the hub touches the tables.
* `NextPrices` is the set of outcomes of `nextPrice` over all random numbers, with
  its `float64` arithmetic done exactly in thousandths. An order book snapshot is
  a version number. `ChangePct` is left out.
* `attempt` of the Binance feed stays at `Width`: from there on the shift yields
  zero, so no behaviour is lost. 16 bits and a second of 1000 units stand for 64
  bits and 10^9.
* `Cluster`: a matched order stands for the one event `publishOrderBook` always
  sends, named by its place in the history `matched`. The bus does not overflow
  there (`Persistence` has that), and the hash of a stock code is a constant.
  `config.total` gives each instance its own PARTITION_TOTAL_INSTANCES. Every
  instance begins up and, if it reached NATS, subscribed, before the first order is
  placed. The code does not see to that: `docker-compose.scaled.yml:133-139` does,
  where the balancer starts once every instance is up. An instance that starts
  later is one that `Restart`s.
* NATS is at most once. The Redis client keeps its default retries: `ResendEvent` is
  a PUBLISH sent a second time, and the first one may arrive as well, at any moment
  (`RouteCopy`); the retry counts as a fault.
* `Auth`: a registration is at once the request, the user ID it draws and the
  password it chooses. bcrypt and JWT signatures are taken to work; a token is its
  claims, an expired one is none.
* `RateLimiter`: `golang.org/x/time/rate` is external, with whole tokens and time
  units. `Stall` bounds how long a handler takes between `getLimiter` and `Allow`.
* `Queries`: a row is its timestamp; two rows never have the same. A walk begins at
  any page a client may ask for. A negative start is a panic that `Recovery` answers
  with 500, or an OFFSET that PostgreSQL refuses: either way the request fails.
* Mutant operators (marked `Mutant`) stand before the definition they vary and
  are used by no specification.

## 3. Runs

Bounds are named in the `.cfg` files.

| Run | Instance | Checks |
|---|---|---|
| `matcher` | 3 orders, all sides, 2 prices, 2 quantities, channel of 2, depth of 1 level, memory storage | `TypeOK NoOverfill RowsCatchUp RemainderRests NotCrossed DepthIsAccurate PriceTimePriority RowsMoveForward ImplementsLedger` |
| `matcher_failures` | 2 orders, 2 prices, 2 quantities, channel of 1, every storage call may fail, handlers may outlive the grace period, fair | `ImplementsLedger AcceptedIsMatched StopDrains`; `TypeOK`, `NoOverfill` and `RowsMoveForward` are proved for every set of failures |
| `matcher_trade_lost` | `tradeRepo.Save` may fail | finding: `RemainderRests` is violated |
| `persistence` | 2 orders, bus and queue of 1, flaky database, one retry, expiring grace period | `PTypeOK DBNeverAhead EnqueuedWritesLand RetryIsHarmless` |
| `persistence_two_fills` | one buy filled by two sells, a simulator with one price, bus of 2, flaky database, one retry | `NoSendOnClosedBus QuietMeansStored` |
| `persistence_shutdown_loss` | ample buffers, healthy database | finding: `ShutdownKeepsTrades` is violated |
| `persistence_late_created` | ample buffers, healthy database | finding: `HealthyRunStoresTrades` is violated |
| `hub` | 3 connections of one address, 2 allowed per address, every channel of capacity 1 | `TypeOK TablesAgree NoPanic ClosedClientsStayOut` |
| `hub_zombie` | 2 connections | finding: `ReturnedReaderIsGone` is violated |
| `liveness` | fair; shutdown with 1 order, a flaky database and a simulator, or a hub of 2 connections of which 1 is allowed, or 2 instances with 2 orders and 1 fault, or the Binance feed with 6-bit durations | `StopsWhenTold DroppedClientEnds OrderReachesEveryone` |
| `services` | the simulator (TLKM, 2 orders, up to 2 trades, 1 tick, trade channel of 1, bus of 3, failing SETs); or the Binance feed (16-bit durations); or 3 instances, 1 stock, 2 orders, 1 fault; or 3 registrations of one name on 2 servers, 2 restarts; or the rate limiter (2 requests at a time, 2 addresses, 5 time units); or lists of up to 3 rows with ints of 5 bits | `ServicesTypeOK`; `TickersCoherent QuietTickerIsSession BookCacheCatchesUp`; `StopsOnlyWhenCancelled BackoffGrows`; `OneBookPerStock OrdersAccountedFor SnapshotsInOrder`; `OneUserPerName RegistrationHolds`; `WithinLimit IdleAreForgotten`; `PagesTile WalkMissesNone` |
| `cluster_shutdown_panic` | 2 instances, 1 order | finding: `ShutsDownCleanly` is violated |

Why the bounds are enough for the cases that matter. Three orders give two
resting orders to choose from (priority by price and by time), a sweep through
two levels, a partial fill of either side, and a third handler meeting a full
channel of two. Two prices exceed a depth of one level. In `persistence` a bus
and a queue of one make every buffer overflow; in `persistence_two_fills` the
update of the first trade is still in the bus when the second trade fills the
order, the only situation in which the dispatcher can read a torn order. In
`hub` capacities of one let each channel be full and each pair of requests on
different channels be served in both orders; three clients against two places
reach the limit and its release. In `services`, two orders give a trade before
and after `InitStock` and a cached book that a second one must replace, and one
tick can fall between any two steps of a trade. Three instances that may each be
configured for one to three give a stock with one owner, several and none; two
orders can be in flight on one link in both roles, forwarded and local, and one
fault (a crash, a shutdown, a broken link, a lost message, a PUBLISH sent again, a
connection that was never made) is enough for each cause of loss, since a loss has one cause. Three
registrations let two race while a third comes after a restart. Five time units
against a TTL of three and a sweep every two let an address be evicted, come back
and spend its new bucket. Three rows against pages of one to three give full,
partly filled and empty last pages, with rows added at any moment of the walk; with
ints of five bits page 12 has a negative start, and page 99 is not a number.

`persistence_two_fills` starts from one fixed set of orders and drops states in
which something was lost (`Lossless`): both of its properties are about what
holds up to a loss. In `persistence` and `persistence_two_fills` states that differ
only in `pub` are one (`VIEW NoPort`): `pub` is written by each engine step and
read only within that step. `CHECK_DEADLOCK` is off only where the hub takes part:
after `ctx.Done` nobody serves its channels. Symmetry is used for order and client IDs, in runs
without liveness.

### Fairness

* `Matcher`, `Persistence`: weak fairness of the matcher goroutine, the
  dispatcher, the worker and `main`'s shutdown steps, and of a handler that has
  started. Go runs every runnable goroutine, the ticker fires every flush
  interval, and none of these steps waits for anything but the state in its
  guard. Nobody has to send a request or a signal. A feed that has started takes
  its steps, also after the cancellation; its start-up need not end.
* `Hub`: weak fairness of each `select` case (Go chooses among the ready cases at
  random, so a case that stays ready is taken), of the writers and of
  `ServeHTTP`. Strong fairness of a reader's send on `unregister`: senders
  blocked on a Go channel are queued and served in order, so a reader is not
  overtaken for ever. Peers are not assumed to disconnect.
* `BinanceFeed`: weak fairness of the goroutine's own steps, and strong fairness of
  the read's error return once the context is done: the library then closes the
  connection, though messages it already holds may come first. A read without that
  may block for ever.
  `Dial` is fair because its HTTP client times out after 10 seconds.
* `Cluster`: weak fairness of every goroutine of an instance (matchers, dispatcher,
  the callbacks of its subscriptions, `main`'s shutdown steps) and of the message
  server's routing. No fault has to happen, no link has to come back and nobody has
  to restart an instance: an order nobody can take is lost at once, not delayed.
* In `MCLiveness` the components that a behaviour does not follow have not begun;
  their fair actions are disabled, so their fairness asks for nothing.

### Findings

1. **`matcher_trade_lost`** – when `tradeRepo.Save` fails, `executeTrade` returns
   without filling but its caller still reduces or removes the resting entry.
   Quantity of an open order leaves the book, contrary to `matchOrder`'s comment.
2. **`persistence_late_created`** – `OrderCreated` may enter the bus after
   `TradeExecuted` of the same order. The trade's batch then violates its foreign
   key on each retry and is dropped, with a healthy database and no full buffer.
3. **`persistence_shutdown_loss`** – the DB worker stops itself when SIGTERM
   cancels the root context, ahead of its place in the shutdown sequence; trades
   made during the drain are refused.
4. **`hub_zombie`** – an unregister served before its register leaves a client in
   the tables whose reader has returned; it counts against the limits for good.

5. **`cluster_shutdown_panic`** – `eng.Stop` closes the matchers' channels before
   `natsSub.Close` ends the subscription whose callback sends on them. An order
   forwarded in between panics the process, ahead of the drain of bus and worker.

Each is quoted against the comment or document it contradicts in `PROJECT.json`.

Seen while modelling, without a run of their own:

* `UpdateTicker` stores outside the lock, so a tick between the load and the store
  of `UpdateTickerFromTrade` is overwritten, although `market_repo.go` says the two
  cannot race. `QuietTickerIsSession` shows that the damage is temporary.
* The simulator's `emit` replaces a ticker that already counts a trade it has not
  heard of: volume and session high go down for a moment.
* For TLKM (base 3500, tick 25) `nextPrice` never moves up by a whole tick, and the
  move is rounded down: the simulated price only falls.
* `attempt` of the Binance feed is never reset and the shift wraps around:
  `BackoffGrows` holds only as long as `1<<attempt` seconds fit in a `Duration`.
* An instance hears its own events again through NATS or Redis, although the comment
  of `wireNATSSubscriber` speaks of events "published by OTHER instances", and broadcasts the
  older snapshot after a newer one (`SnapshotsInOrder` states what remains: at most
  twice, and in order on the other instances).
* A PUBLISH that Redis executed and whose answer was lost is sent again: that snapshot
  may come twice on every instance, and after later ones. The order of the others and
  all that goes over NATS are untouched (`SnapshotsInOrder`).
* `main` closes the event bus without waiting for the Binance feed, which may be
  between a message and its `Publish`: a send on the closed channel panics the process.
  The simulator can do the same if SIGTERM comes before its `Start` has launched its
  goroutines. `NoSendOnClosedBus` shows that nothing else can.
* An INSERT of a trade that is committed and reported as failed leaves a trade on the
  tape that neither order's fill shows (`Void` of `TradeLedger`).
* BINANCE_RECONNECT_MAX is not validated: a cap below a second is the wait from the
  first attempt on.
* `page` of the lists has no upper bound: for a huge one `(page-1)*perPage` wraps
  around, to a negative start (the request answers 500) or into the table.
  `WalkMissesNone` shows that a walk from the first page never gets there.
* "Exactly-once" (`main.go:318`, `main.go:593`, `docs/11-horizontal-scaling.md:147`)
  is at most once: a forwarded order that finds no subscriber is lost, and its
  client has a 201. `OrdersAccountedFor` lists the ways.
* `Subscriber.Close` unsubscribes before it drains, so messages that have arrived
  and wait for their callback are discarded.
* The in-memory row of a forwarded order stays OPEN on the instance that took the
  request: the owner updates its own repository, which does not know the order.
* The in-memory `FindAll` lists the oldest first, the PostgreSQL one the newest. A
  client that follows `meta.pages` of the latter can miss the oldest row, since the
  count precedes the page (`WalkMissesNone`); rows with equal `created_at` have no
  fixed order at all.
* `InitStock` is called by the two feeds only: with the simulator off, or with
  Binance on, the default stocks have no ticker and no stored book.
* WS_MAX_* of the configuration never reach `NewHub`, which uses its own constants.

## 4. Proofs

Eight modules hold theorems; every leaf is checked by TLAPS.

### The engine

`MatcherProofs` proves, for every set of orders, prices and quantities, every
channel capacity, every subset of failing storage calls and both values of
`GraceExpires`:

| Theorem | Statement |
|---|---|
| `Invariance` | `Spec => []IInv` |
| `TypeCorrect` | `Spec => []TypeOK`, with the channel within its capacity |
| `NeverOverfilled` | `Spec => []NoOverfill` |
| `RowsForward` | `Spec => RowsMoveForward` |

Assumptions on the constants: prices and quantities are positive naturals
(`ValidateCreateOrder` rejects others), capacities are naturals, `NoOrder` is no
order, `Failures` names calls of the model.

**Argument.** `NoOverfill` is not inductive. The code keeps the unmatched
quantity of a resting order twice, as `quantity - filled` in the order and as
`remaining` in the book entry, and takes the smaller of the incoming order's
remainder and the *entry's* counter. So the order is safe only if the entry never
promises more than the order has. Between `Fill` and `best.remaining -= qty` it
does promise more, by exactly the traded quantity. `IInv` therefore adds

* `QueueInv`: an order is in one place (queue, current, book) and handed over;
* `BookInv`: sides sorted, each order once, on its own side, indexed, positive;
* `EntriesCovered`: `remaining <= RemainingQuantity(order) + InFlight(order)`,
  where `InFlight` is what the trade in progress has filled but not yet settled;
* `TradeInv`: the trade in progress is between the current order and the best
  opposite entry, and its quantity is available until each side has been filled;
* `RowInv`: a row is a past state of its order, and a `FILLED` row the present
  one. `RowsMoveForward` follows from it.

The inequality in `EntriesCovered`, not an equality, is what keeps the proof valid
when `tradeRepo.Save` fails (finding 1): the entry may then promise less.

There is one preservation lemma per action. `AddEntryFacts` (append and stable
sort yield a sorted rearrangement; the permutation `SliceStable` chooses exists)
and `RemoveHeadEntry` carry the book operations. `IInv` was model-checked on the
instances of `matcher` and `matcher_failures` before it was proved.

**`MatcherImplementsLedger`, `Spec => ImplementsLedger`**, in the same module. The ledger's
tape is the stored trades; what an order has left is its remaining quantity less
the part of a saved trade that has not been filled in yet (`Pending`); what readers
are shown is the filled quantity of its row. With this mapping `SaveTrade` is
`Execute`; when it reports a failure it is `Void` if PostgreSQL had committed the row
all the same, and a stutter if not. `SaveOrder`, `UpdateBuy` and `UpdateSell` are
`Show`, and every other step, the fills included, stutters: a fill moves quantity from
`Pending` into `filled`. `Voids` is `"saveTrade" \in Failures`: with storage whose
`tradeRepo.Save` cannot fail, the in-memory one among them, every trade on the tape is
one of the orders' fills; where it can, the tape may hold more, but a fill never
lacks its trade. `IInv` supplies what `Execute` and `Void` demand; one more
invariant, that the prices of book entries are those of their orders, makes the
trade's price lie between the limits.

### User accounts

`ApiProofs` proves `AuthTypeCorrect`, `NamesAreUnique` (`[]OneUserPerName`) and
`RegistrationsHold` (`[]RegistrationHolds`) for any number of servers, names,
registrations and restarts, assuming only that `NoUser` is no registration. Each
server decides by its own maps, which lag behind the table, so `OneUserPerName` is
not inductive. `AuthInv` adds: a name a map knows is in the table under the same
user (`MapsCopyTable`); a request whose row was saved owns the row (`SavedInTable`)
and is in no map of its server yet (`NotYetIn`), which is why the second check
under the write lock can never fail after a save; an answered request is in both
maps (`AnsweredIsIn`); tokens and acts agree with the table, which never changes a
row (`TokensAgree`).

### The rate limiter

`ApiProofs` proves `LimitHolds` (`[]WithinLimit`), `IdleForgotten`
(`[]IdleAreForgotten`) and `RateTypeCorrect` for any addresses, proxies, requests,
rate, burst and interval, from one assumption on the parameters: a bucket fills up
within `IdleTTL - Stall`. The invariant (`Tracks`) says that the bucket in the map
is the ideal one, or a new one that was made when the ideal one was full; in either
case both let the same requests pass and are equal after the next. That the ideal
bucket of whoever is absent is full (`AbsentAreFull`) follows at the sweep from
`RecentlyUsed`, and that no request holds an evicted bucket (`RequestsHold`) from
`Stall < IdleTTL`, which the assumption implies.

### The lists

`ApiProofs` proves `QueriesTypeCorrect`, `PagesAlwaysTile` (`[]PagesTile`) and
`WalksMissNone` (`[]WalkMissesNone`) for any number of rows, any defaults and limits
and whatever `page` and `per_page` a client sends, assuming that timestamps are
naturals, the two page sizes positive, and that the table and a page can be counted in
an int (`TableFits`); the product of page and page size need not fit.

*Tiling.* That the pages give the list back is not about states but about lists: the
first p pages, one after the other, are the list's first `p * perPage` rows, by
recursion on p; `Pages` rounds up, so the last page is not empty and reaches the end.
For PostgreSQL it takes one more fact, that a finite set of numbers has a
descending listing (`NewestFirst` is a `CHOOSE`).

*Walking.* `WalkMissesNone` speaks of the end of a walk; `QueriesInv` says what is true
half way. In memory rows are only appended, so what the client has is always the
first `(page - 1) * perPage` rows (`MemoryWalk`). In PostgreSQL new rows come in at the
front, wherever their timestamps put them, and push the others towards later pages:
a row the client wants is in what it has, or at least `(page - 1) * perPage` rows are
newer, so that it is still ahead (`PostgresWalk`). A short page means that nothing is.
The count plays no part in this, which is why a client that relies on `meta.pages`
is excluded. `InTable` keeps the arithmetic honest: a walk from page 1 asks for a page
only when the one before was full or the count reached further, so its start lies
within the table and does not wrap (`WrapIntKeeps`), and no such request fails. A walk
that begins elsewhere may get any page, or an error.

### The book

`BookProofs` builds on `IInv`. Its first invariant, `BookShape`, says how the book is
arranged and holds whatever storage calls fail: entries of one price stand in the
order in which their orders were received (`ArrivalInv`, `TimeOrder`), the index names
no order without an entry (`IndexInv`), and no bid entry reaches an ask entry
(`Uncrossed`; an incoming order is in the book only once it has been matched). From it
follows `BookNeverCrossed`.

| Theorem | Statement | Hypothesis |
|---|---|---|
| `BookNeverCrossed` | no bid entry reaches an ask entry, at any step | – |
| `RemaindersRest` | `Spec => []RemainderRests` | `"saveTrade" \notin Failures` |
| `NeverCrossed` | `Spec => []NotCrossed` | the same |
| `PriceTimeOrder` | `Spec => PriceTimePriority` | the same |
| `DepthAlwaysAccurate` | `Spec => []DepthIsAccurate` | the same |
| `RowsCatchUpAlways` | `Spec => []RowsCatchUp` | `"updateOrder" \notin Failures` |

Under the first hypothesis the inequality `EntriesCovered` becomes an equation
(`EntriesExact`) and every order with quantity left that the matcher has let go of is
in the book (`AllRest`). The in-memory repositories satisfy the hypothesis, and it is
necessary: run `matcher_trade_lost` shows `RemainderRests` violated without it.
`RowsCatchUpAlways` rests on `RowsCurrent`: a row is its order, except for a party of
the trade in progress between its `Fill` and its `Update`. `orderRepo.Update` must
not fail, because nothing writes the row again until the order's next trade.

`DepthAlwaysAccurate` has two halves. `ViewCurrent`: between two orders the stored depth
is `AggregateLevels` of the book, because every order ends with `publishOrderBook`. And
the loop: `LevelInv` is the loop invariant of `aggregateLevels` after i entries. Its
levels have the prices met so far, strictly from better to worse, each with the sum
and the number of the entries met at that price; an entry without a level is worse than
all of them, and then the loop has stopped with as many levels as were asked for.
Since the book is sorted, an entry belongs to the last level or behind it
(`LevelInvStep`). At the end the level at i has exactly i - 1 better prices
(`LevelRank`), and with `EntriesExact` the sums over entries are sums over the orders
resting there.

### The hub

`HubProofs` proves `HubTypeCorrect`, `HubTablesAgree` (`[]TablesAgree`), `HubNeverPanics`
(`[]NoPanic`) and `HubNoReturn` (`ClosedClientsStayOut`) for any number of clients and
addresses, any limits and capacities. `TablesAgree` counts the clients of an address,
so the invariant needs the tables finite (`FiniteTables`). `NoPanic` needs two facts
that no single channel guarantees: whoever is in the tables has an open send channel
(`TableIsOpen`), and a client is registered at most once, by its own handler
(`RegisterOnce`), so that an unregister that overtakes its register cannot make the hub
close a channel twice.

### The cluster

`ClusterProofs` proves `EveryOrderAccountedFor` (`[]OrdersAccountedFor`) and
`OneBookPerStockAlways` (`[]OneBookPerStock`) for any number of instances, stocks,
orders and faults. `ClusterInv` follows an order through the system: it is in one
place (`OnePlace`), each stage holds only what routing can have brought there
(`Routed`, `Healthy`), a lost order has a cause among those listed, and where no fault
has happened and the instances agree on their number, a full channel is the only one.
For the order of matching, `InFlowOrder` looks at flows: the orders for one stock that
one instance accepted. The owner's own flow goes straight to the matcher's channel
and every other one through outbox and mailbox, so no flow takes two ways, and each
keeps its order from stage to stage.

`SnapshotsStayInOrder` (`[]SnapshotsInOrder`) has an invariant of its own,
`EventsInOrder`: for every publisher and receiver the publisher's events form one rising
`Stream` over what the receiver's clients have seen, its mailbox, the publisher's outbox
and its bus. Where the two are the same instance, an event on the bus has not been
seen, and one in outbox or mailbox at most once. An event that the Redis client sends
again leaves the stream (`resent`): a smaller set of events is still in order
(`StreamThins`), and its copies, wherever they arrive, are none of that set
(`StreamAside`). With NATS nothing is sent again and the stream is all events.

`ClusterTypeCorrect` (`[]ClusterTypeOK`) follows from these invariants and from `Links`,
the types of the connections and the bound on faults.

### The write path

`PersistenceProofs` covers engine, bus, dispatcher, worker, tables and shutdown
together, for any number of orders, prices of a feed, capacities, batch size and
retries, with either feed or none and a flaky database or not, the engine's own
repositories being the in-memory ones (`MemoryStorage`):

| Theorem | Statement |
|---|---|
| `PipelineInvariant` | `PSpec => []PInv` |
| `PipelineTypeCorrect` | `PSpec => []PTypeOK` |
| `DatabaseNeverAhead` | `PSpec => []DBNeverAhead` |
| `AcceptedWritesLand` | `PSpec => []EnqueuedWritesLand` |
| `RetriesAreHarmless` | `PSpec => []RetryIsHarmless` |
| `BusClosedLast` | `PSpec => []NoSendOnClosedBus`, assuming `GraceExpires = FALSE` |
| `QuietStored` | `PSpec => []QuietMeansStored` |

`BusClosedLast` takes its hypothesis from the property itself: a handler that
outlives the timeout of `srv.Shutdown` may publish on the closed bus. A price feed
may do so too, if `main` has not waited for it; `ClosingInv` says that with every
other publisher, and with a feed whose goroutine `sim.Stop` has seen end, the bus is
closed last.

*Recursion.* What a batch does to the tables and what an order has traded are
defined by recursion over a sequence. `RecursionExists` of `RecursionLemmas` shows, by the least number
at which it would fail, that such a function exists on `0..N`; from it come
`Outcome` (what each statement of a batch has contributed after the first n) and the
sum of an order's trades when one is appended.

*Never ahead.* `FillsAreTrades` ties the engine to its tape: an order's trades sum
up to what it has filled plus what the trade in progress has still to fill in. Every
row in queue, batch or table was copied when the order had at most that much
(`NeverAhead`), torn or not, and no event announces a trade that is not stored
(`PipeTypes`, `LastTrade`). `Outcome` carries this through a commit.

*Accepted writes.* `WorkerInv`: an accepted trade is in the queue, in the batch or in
the table, through every retry, until a flush is given up; the worker is done
only with both empty.

*Retries.* An attempt may be reported as failed after its commit (`landed`). `RetryInv`
says what the tables then hold (`Absorbed`): every trade of the batch in hand, and for
every order the last row the batch writes to it. Only the worker writes the tables,
so this stays true while the engine goes on, and `Outcome` gives the retry: its
foreign keys are there, ON CONFLICT DO NOTHING keeps the trades, and the upserts end
with the rows the tables already have.

*Everything arrives.* The hardest of them, because rows are overwritten and events
arrive out of order: `OrderCreated` may come after the order's first trade, and an
update may copy a half-filled order. `Lossless` says of every order, while nothing has
been lost, one of four things. It is `Unheard`: not announced, and not traded but
for the trade in progress. It is `Announcing`: the matcher has yet to publish its
update, so whatever was copied before, torn copies included, will be replaced. It is
`Current`: the last row on its way, looking first at the bus, then the queue, then the
batch, then the table, is the order as it is. Or it is `Doomed`: a trade of it stands
ahead of its first row, so that the batch with that trade violates the foreign key at
every attempt and is given up, which is a loss (finding 2). An order that is all
quiet can only be `Current`. That the late `OrderCreated` never overwrites a newer row
without such a loss comes from `PartiesFilled`: an update is announced only after the
trade that caused it.

### Market data and price feeds

`MarketProofs` proves, for every stock, every set of trades, every capacity of the bus
and of the simulator's channel and any number of orders and ticks, from the named
assumptions on the constants alone:

| Theorem | Statement |
|---|---|
| `MarketTypesHold` | `Spec => []TypeOK` |
| `TickersStayCoherent` | `Spec => []TickersCoherent` |
| `BookCacheSettles` | `Spec => []BookCacheCatchesUp` |
| `SessionHasTheLastWord` | `Spec => []QuietTickerIsSession` |
| `FeedRetries` | `FeedSpec => []StopsOnlyWhenCancelled` |
| `FeedTypeCorrect` | `FeedSpec => []FeedTypeOK` |
| `BackoffAlwaysGrows` | `FeedSpec => BackoffGrows` |

*Coherence.* Matcher and simulator overwrite each other's tickers, so nothing can be
said about whose ticker is stored. It need not be: whatever `UpdateTickerFromTrade`
loaded, and whatever the random walk did, the ticker each of them writes has its last
price between its low and its high and the change that follows from it (`AllCoherent`,
of the stored, the loaded, the cached and the simulator's ticker; `EventOK`, of those
announced).

*The cached book.* `BookSettles`: unless an event was dropped or a write to Redis failed,
the matcher is about to publish its last snapshot, or the last `OrderBookUpdated` on the
bus is that snapshot, or there is none on the bus and the cache has it or has expired.

*The simulator's ticker.* That the system is quiet with the simulator's ticker stored is
not inductive: a trade overwrites it. `Unsettled` names the places where a trade can be
on its way (with the matcher, on the bus, in the channel, with the simulator between
hearing of it and storing), and `SessionSettles` says that in every other state the
stored ticker is the simulator's, and its `TickerUpdated` the last one on the bus or
already cached. `VolumeCounted` bounds the volume: the trades made sum up to at most the
session's volume plus what the channel, the bus and the matcher still hold. These are
sums over queues that grow at one end and shrink at the other; `SumsAppend`,
`SumsDrop` and `SumsUnique` say how they move.

*The feed.* `FeedRetries` needs the position in `Start` and whether the context is done.
`BackoffGrows` compares a wait with the one before it, so `BackoffInv` says which that
was: `CalcBackoff(attempt)` while the feed waits and `CalcBackoff(attempt - 1)` while it
dials and reads. As long as the shifted second is below half the range, the
wrap-around is the identity (`WrapKeeps`), the cap keeps the order, and each power is
twice the one before (`ShiftDoubles`, `ShiftGrows`). The cap may be any `Duration`: that
a wait never exceeds it holds at every attempt, and only "at least a second" has the
exception of a shorter cap. For the attempts whose shift overflows nothing more is
true: the wait is negative, later zero.

### Only model-checked

* Liveness: fairness is outside the prover's reach (`AcceptedIsMatched`, `StopDrains`,
  `StopsWhenTold`, `DroppedClientEnds`, `OrderReachesEveryone`).
* `ServicesTypeOK`, the conjunction that run `services` checks: each of its conjuncts is a
  theorem of its own service (`MarketTypesHold`, `FeedTypeCorrect`, `ClusterTypeCorrect`,
  `AuthTypeCorrect`, `RateTypeCorrect`, `QueriesTypeCorrect`), and the side-by-side
  composition exists for TLC only.

## 5. Not modelled

The load and compliance test tools under `cmd/` drive a running server from outside
and are not part of it. Logging, metrics, CORS and panic recovery wrap a request
and keep no state that another part reads. Reading the environment, JSON and the
wire formats of Binance, NATS, Redis and WebSocket messages, password hashing and
token signing are I/O or library code. Of the configuration only what `Validate`
decides about partitioning is modelled; all other settings are constants.

`STORAGE_TYPE=postgres` together with an enabled DB worker (`main.go:128-131`) is not
modelled: the repositories and the worker then write the same tables, the one
synchronously, the other late and with ON CONFLICT, and the engine's own rows would be
the worker's. `Matcher` covers either storage without the worker, `Persistence` the
worker with in-memory storage.

## 6. State of the plan

Done: `OrderBook`, `Matcher`, `Persistence`, `Hub`, `MarketData`, `BinanceFeed`,
`Cluster`, `Auth`, `RateLimiter`, `Queries`; the refinement of `TradeLedger`; the
theorems above.

Every safety invariant and action property that a passing run checks is a theorem
(`ServicesTypeOK` conjunct by conjunct). Left to the model checker are the liveness properties. A next step would be an abstract
specification of the cluster (one book per stock, fed at most once) that `Cluster`
refines, as `Matcher` refines `TradeLedger`.
