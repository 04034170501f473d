---------------------------- MODULE Persistence ----------------------------
(***************************************************************************)
(* The asynchronous write path: what the matcher and the handlers publish  *)
(* goes through the EventBus to the DBWorker and from there to PostgreSQL, *)
(* and main shuts the stages down one after the other.  Composes Matcher   *)
(* (whose output port `pub` feeds the bus) with                            *)
(*   - EventBus: a bounded channel and one dispatch goroutine              *)
(*   - the OrderCreated, OrderUpdated and TradeExecuted handlers of        *)
(*     wireEvents, as far as they concern the DB worker                    *)
(*   - DBWorker: bounded queue, batch, flush with retries                  *)
(*   - PostgreSQL: the orders and trades tables with their foreign keys    *)
(*   - the price feed as a publisher: the Simulator, which main waits for  *)
(*     before it closes the bus, or the BinanceFeed, which it does not     *)
(*   - main: the shutdown sequence after SIGTERM                           *)
(* The engine's own repositories are the in-memory ones, the worker is the *)
(* tables' only writer.                                                    *)
(***************************************************************************)
EXTENDS Matcher

CONSTANTS
  BusCap,      \* dispatchBufferSize (10000 in the code)
  QueueCap,    \* DBWorkerConfig.ChannelSize
  BatchSize,   \* DBWorkerConfig.BatchSize
  RetryMax,    \* DBWorkerConfig.RetryMax
  DBFlaky,     \* TRUE iff SendBatch may fail for reasons of its own
  PriceFeed,   \* the price feed main has started, if any
  MaxTicks     \* bound: the prices the feed publishes

ASSUME PipelineAssumption ==
  /\ BusCap \in Nat /\ QueueCap \in Nat
  /\ BatchSize \in Nat \ {0} /\ RetryMax \in Nat
  /\ DBFlaky \in BOOLEAN
ASSUME FeedAssumption == PriceFeed \in {"none", "simulator", "binance"} /\ MaxTicks \in Nat
ASSUME MemoryStorage  == Failures = {}

VARIABLES
  bus,       \* EventBus.ch
  busClosed, \* EventBus.Stop has closed it
  queue,     \* DBWorker.writeCh
  stopped,   \* DBWorker.stopped, set together with closing writeCh
  batch,     \* the batch of DBWorker.Start
  wpc,       \* where the worker goroutine is: select, flush, final, done
  attempt,   \* retries already spent on this flush
  db,        \* the two tables
  main,      \* where main is in its shutdown sequence
  feed,      \* where the feed's goroutine is: init, wait, emit, done
  ticks,     \* the prices it has taken
  losses,    \* history: the ways in which a write has been lost
  enqueued,  \* history: trades whose Enqueue returned nil
  landed,    \* history: a failed attempt has committed the batch in hand
  joined     \* history: no feed goroutine was left when main had called sim.Stop

busVars    == <<bus, busClosed>>
workerVars == <<queue, stopped, batch, wpc, attempt, db, landed>>
feedState  == <<feed, ticks>>
pvars      == <<vars, busVars, workerVars, main, feedState, losses, enqueued, joined>>

PInit ==
  /\ Init
  /\ bus = <<>> /\ busClosed = FALSE
  /\ queue = <<>> /\ stopped = FALSE /\ batch = <<>>
  /\ wpc = "select" /\ attempt = 0
  /\ db = [orders |-> [o \in Orders |-> NoRow], trades |-> {}]
  /\ main = "serve"
  /\ feed = (IF PriceFeed = "none" THEN "done" ELSE "init") /\ ticks = 0
  /\ losses = {} /\ enqueued = {} /\ landed = FALSE /\ joined = TRUE

\* The process is there: main has not returned and no goroutine has panicked.
Alive == main \notin {"exit", "crash"}

-----------------------------------------------------------------------------
(***************************************************************************)
(* EventBus.Publish: a non-blocking send, dropped when the buffer is full; *)
(* a send on the closed channel panics.                                    *)
(***************************************************************************)
BusPublish(events) ==
  \/ /\ events = <<>>
     /\ UNCHANGED <<bus, losses>>
  \/ /\ events # <<>> /\ busClosed
     /\ losses' = losses \cup {"panic"}
     /\ UNCHANGED bus
  \/ /\ events # <<>> /\ ~busClosed /\ Len(bus) < BusCap
     /\ bus' = bus \o events
     /\ UNCHANGED losses
  \/ /\ events # <<>> /\ ~busClosed /\ Len(bus) >= BusCap
     /\ losses' = losses \cup {"busFull"}
     /\ UNCHANGED bus

\* What the engine step has put on its port is published; the rest of the
\* pipeline does nothing meanwhile.
Piped == BusPublish(pub') /\ UNCHANGED <<busClosed, workerVars, main, ticks, enqueued, joined>>

Handler(o) == Alive /\ CreateOrder(o) /\ Piped /\ UNCHANGED feed
Engine     == Alive /\ MatcherStep /\ Piped /\ UNCHANGED feed

-----------------------------------------------------------------------------
(***************************************************************************)
(* The price feed: Simulator.Start with simulateStock, or                  *)
(* BinanceFeed.Start with connect and handleMessage.                       *)
(***************************************************************************)
\* Start registers the stock, and its goroutine is there.
FeedStart ==
  /\ Alive /\ feed = "init" /\ feed' = "wait"
  /\ InitStock /\ Piped

\* A tick, a trade or a message: it is taken also after the cancellation, as
\* long as the goroutine has not seen that.
FeedTake ==
  /\ Alive /\ feed = "wait" /\ feed' = "emit"
  /\ ticks < MaxTicks /\ ticks' = ticks + 1
  /\ UNCHANGED <<vars, busVars, workerVars, main, losses, enqueued, joined>>

\* bus.Publish(TickerUpdated).  Nothing recovers a panic of this goroutine.
FeedPublish ==
  /\ Alive /\ feed = "emit"
  /\ \/ /\ ~busClosed /\ feed' = "wait"
        /\ BusPublish(<<Event("TickerUpdated", NoOrder)>>)
        /\ UNCHANGED main
     \/ /\ busClosed /\ main' = "crash"
        /\ UNCHANGED <<bus, feed, losses>>
  /\ UNCHANGED <<vars, busClosed, workerVars, ticks, enqueued, joined>>

FeedEnd ==
  /\ Alive /\ feed = "wait" /\ feed' = "done"
  /\ main # "serve"
  /\ UNCHANGED <<vars, busVars, workerVars, main, ticks, losses, enqueued, joined>>

FeedStep == FeedStart \/ FeedTake \/ FeedPublish \/ FeedEnd

-----------------------------------------------------------------------------
(***************************************************************************)
(* The dispatch goroutine and the handlers of wireEvents.                  *)
(***************************************************************************)
OrderOp(o, row) == [kind |-> "order", id |-> o, row |-> row]
TradeOp(n)      == [kind |-> "trade", id |-> n, row |-> NoRow]

\* What `orderCopy := *o` may read: the order as it is, or any mixture with
\* the Fill call the matcher is in the middle of.
Copies(o) ==
  LET filling == \/ mpc = "fillBuy" /\ o = trade.buy
                 \/ mpc = "fillSell" /\ o = trade.sell
      old == order[o]
      new == IF filling THEN Fill(old, trade.qty) ELSE old
  IN  [status : {old.status, new.status}, filled : {old.filled, new.filled}]

\* The writes a handler may ask for: one, or none for the other events.
\* OrderCreated carries the snapshot taken before SubmitOrder.
OpsFor(e) ==
  IF e.type = "OrderCreated"
  THEN {<<OrderOp(e.ref, [status |-> "OPEN", filled |-> 0])>>}
  ELSE IF e.type = "OrderUpdated"
  THEN {<<OrderOp(e.ref, row)>> : row \in Copies(e.ref)}
  ELSE IF e.type = "TradeExecuted" THEN {<<TradeOp(e.ref)>>} ELSE {<<>>}

\* Mutant: the queue takes one operation too many.
EnqueueOffByOne(ops) ==
  \/ /\ ops = <<>> \/ stopped
     /\ UNCHANGED <<queue, losses, enqueued>>
  \/ /\ ops # <<>> /\ ~stopped /\ Len(queue) <= QueueCap
     /\ queue' = queue \o ops
     /\ UNCHANGED <<losses, enqueued>>

\* DBWorker.Enqueue: never blocks, never panics; the caller ignores the error.
Enqueue(ops) ==
  \/ /\ ops = <<>>
     /\ UNCHANGED <<queue, losses, enqueued>>
  \/ /\ ops # <<>> /\ stopped
     /\ losses' = losses \cup {"stopped"}
     /\ UNCHANGED <<queue, enqueued>>
  \/ /\ ops # <<>> /\ ~stopped /\ Len(queue) < QueueCap
     /\ queue' = queue \o ops
     /\ enqueued' = enqueued \cup {op.id : op \in {x \in ToSet(ops) : x.kind = "trade"}}
     /\ UNCHANGED losses
  \/ /\ ops # <<>> /\ ~stopped /\ Len(queue) >= QueueCap
     /\ losses' = losses \cup {"queueFull"}
     /\ UNCHANGED <<queue, enqueued>>

Dispatch ==
  /\ Alive /\ bus # <<>>
  /\ bus' = Tail(bus)
  /\ \E ops \in OpsFor(Head(bus)) : Enqueue(ops)
  /\ UNCHANGED <<vars, busClosed, stopped, batch, wpc, attempt, db, landed, main, feedState, joined>>

-----------------------------------------------------------------------------
(***************************************************************************)
(* The DBWorker goroutine.                                                 *)
(***************************************************************************)
WorkerReceive ==
  /\ Alive /\ wpc = "select" /\ queue # <<>>
  /\ batch' = Append(batch, Head(queue))
  /\ queue' = Tail(queue)
  /\ wpc' = IF Len(batch') >= BatchSize THEN "flush" ELSE "select"
  /\ UNCHANGED <<vars, busVars, stopped, attempt, db, landed, main, feedState, losses, enqueued, joined>>

\* Mutant: the batch is cut to length zero before it is flushed.
WorkerTickTruncates ==
  /\ Alive /\ wpc = "select" /\ batch # <<>>
  /\ batch' = <<>>
  /\ UNCHANGED <<vars, busVars, queue, stopped, wpc, attempt, db, landed, main, feedState, losses, enqueued, joined>>

WorkerTick ==
  /\ Alive /\ wpc = "select" /\ batch # <<>>
  /\ wpc' = "flush"
  /\ UNCHANGED <<vars, busVars, queue, stopped, batch, attempt, db, landed, main, feedState, losses, enqueued, joined>>

\* Mutant: the worker returns without its last flush.
WorkerClosedNoFlush ==
  /\ Alive /\ wpc = "select" /\ queue = <<>> /\ stopped
  /\ wpc' = "done"
  /\ UNCHANGED <<vars, busVars, queue, stopped, batch, attempt, db, landed, main, feedState, losses, enqueued, joined>>

\* writeCh is closed and drained: flush what is left, then return.
WorkerClosed ==
  /\ Alive /\ wpc = "select" /\ queue = <<>> /\ stopped
  /\ wpc' = IF batch = <<>> THEN "done" ELSE "final"
  /\ UNCHANGED <<vars, busVars, queue, stopped, batch, attempt, db, landed, main, feedState, losses, enqueued, joined>>

\* Mutant: the trades table has no foreign keys.
ApplyOpNoFK(acc, op) ==
  IF op.kind = "order"
  THEN [acc EXCEPT !.orders[op.id] = op.row]
  ELSE [acc EXCEPT !.trades = @ \cup {op.id}]

\* Mutant: a trade is inserted without ON CONFLICT DO NOTHING.
ApplyOpPlainInsert(acc, op) ==
  IF op.kind = "order"
  THEN [acc EXCEPT !.orders[op.id] = op.row]
  ELSE [acc EXCEPT !.trades = @ \cup {op.id},
                   !.ok = @ /\ op.id \notin acc.trades
                            /\ acc.orders[trades[op.id].buy].status # "NONE"
                            /\ acc.orders[trades[op.id].sell].status # "NONE"]

\* The statements of one pgx.Batch, an implicit transaction: orders are
\* upserted, trades inserted unless present; a trade whose orders have no row
\* violates its foreign keys and fails the whole batch.
ApplyOp(acc, op) ==
  IF op.kind = "order"
  THEN [acc EXCEPT !.orders[op.id] = op.row]
  ELSE [acc EXCEPT !.trades = @ \cup {op.id},
                   !.ok = @ /\ acc.orders[trades[op.id].buy].status # "NONE"
                            /\ acc.orders[trades[op.id].sell].status # "NONE"]

\* The tables after the first n statements of the batch.
AppliedUpTo[n \in 0 .. Len(batch)] ==
  IF n = 0 THEN [orders |-> db.orders, trades |-> db.trades, ok |-> TRUE]
  ELSE ApplyOp(AppliedUpTo[n - 1], batch[n])

Applied == AppliedUpTo[Len(batch)]

FlushDone ==
  /\ batch' = <<>>
  /\ attempt' = 0 /\ landed' = FALSE
  /\ wpc' = IF wpc = "final" THEN "done" ELSE "select"

FlushOK ==
  /\ Alive /\ wpc \in {"flush", "final"}
  /\ Applied.ok
  /\ db' = [orders |-> Applied.orders, trades |-> Applied.trades]
  /\ FlushDone
  /\ UNCHANGED <<vars, busVars, queue, stopped, main, feedState, losses, enqueued, joined>>

\* An attempt fails: the batch breaks a foreign key, or the database or the
\* network does, perhaps after the commit.  After RetryMax retries the batch
\* is given up with a log line.
FlushFail ==
  /\ Alive /\ wpc \in {"flush", "final"}
  /\ ~Applied.ok \/ DBFlaky
  /\ \E committed \in {FALSE, Applied.ok} :
       /\ db' = IF committed THEN [orders |-> Applied.orders, trades |-> Applied.trades] ELSE db
       /\ \/ /\ attempt < RetryMax
             /\ attempt' = attempt + 1
             /\ landed' = (landed \/ committed)
             /\ UNCHANGED <<batch, wpc, losses>>
          \/ /\ attempt >= RetryMax
             /\ FlushDone
             /\ losses' = losses \cup {"gaveUp"}
  /\ UNCHANGED <<vars, busVars, queue, stopped, main, feedState, enqueued, joined>>

\* `case <-ctx.Done(): go w.Stop()`: the root context is the one SIGTERM
\* cancels, so the worker stops itself as soon as shutdown begins.  The
\* spawned goroutine may get there while the worker is in its next flush.
WorkerCtxDone ==
  /\ Alive /\ main # "serve" /\ ~stopped
  /\ stopped' = TRUE
  /\ UNCHANGED <<vars, busVars, queue, batch, wpc, attempt, db, landed, main, feedState, losses, enqueued, joined>>

WorkerStep == WorkerReceive \/ WorkerTick \/ WorkerClosed \/ FlushOK \/ FlushFail \/ WorkerCtxDone

-----------------------------------------------------------------------------
(***************************************************************************)
(* main after the signal: HTTP, engine, simulator, event bus, DB worker.   *)
(***************************************************************************)
Signal ==
  /\ main = "serve" /\ main' = "http"
  /\ UNCHANGED <<vars, busVars, workerVars, feedState, losses, enqueued, joined>>

StopEngine ==
  /\ main = "http" /\ main' = "engine"
  /\ Stop
  /\ UNCHANGED <<busVars, workerVars, feedState, losses, enqueued, joined>>

\* eng.Stop has returned, and so has sim.Stop: it waits for the goroutines that
\* Start has launched by now.  main has no handle on the Binance feed.
StopFeed ==
  /\ main = "engine" /\ main' = "feed"
  /\ mpc = "stopped"
  /\ PriceFeed = "simulator" => feed \in {"init", "done"}
  /\ joined' = (feed = "done")
  /\ UNCHANGED <<vars, busVars, workerVars, feedState, losses, enqueued>>

\* Mutant: the bus is closed without waiting for the matcher to end.
StopBusEarly ==
  /\ main \in {"engine", "feed"} /\ main' = "bus"
  /\ busClosed' = TRUE
  /\ UNCHANGED <<vars, bus, workerVars, feedState, losses, enqueued, joined>>

StopBus ==
  /\ main = "feed" /\ main' = "bus"
  /\ busClosed' = TRUE
  /\ UNCHANGED <<vars, bus, workerVars, feedState, losses, enqueued, joined>>

StopWorker ==
  /\ main = "bus" /\ main' = "worker"
  /\ bus = <<>>
  /\ stopped' = TRUE
  /\ UNCHANGED <<vars, busVars, queue, batch, wpc, attempt, db, landed, feedState, losses, enqueued, joined>>

Exit ==
  /\ main = "worker" /\ main' = "exit"
  /\ wpc = "done"
  /\ UNCHANGED <<vars, busVars, workerVars, feedState, losses, enqueued, joined>>

MainStep == StopEngine \/ StopFeed \/ StopBus \/ StopWorker \/ Exit

Exited == ~Alive /\ UNCHANGED pvars

PNext ==
  \/ \E o \in Orders : Handler(o)
  \/ Engine \/ FeedStep
  \/ Dispatch
  \/ WorkerStep
  \/ Signal \/ MainStep
  \/ Exited

PSpec == PInit /\ [][PNext]_pvars

\* Every goroutine that can run eventually does; the ticker fires; nobody is
\* obliged to send a request or a signal, and the start-up need not end.
PFairness ==
  /\ WF_pvars(Engine)
  /\ \A o \in Orders : WF_pvars(phase[o] # "new" /\ Handler(o))
  /\ WF_pvars(Dispatch)
  /\ WF_pvars(WorkerStep)
  /\ WF_pvars(feed # "init" /\ FeedStep)
  /\ WF_pvars(MainStep)

PFairSpec == PSpec /\ PFairness

-----------------------------------------------------------------------------
(***************************************************************************)
(* Properties.                                                             *)
(***************************************************************************)
RowRec == [status : Statuses \cup {"NONE"}, filled : Nat]

Losses == {"busFull", "queueFull", "stopped", "gaveUp", "panic"}

IsOp(op) == \/ op.kind = "order" /\ op.id \in Orders /\ op.row \in RowRec
            \/ op.kind = "trade" /\ op.id \in DOMAIN trades

\* Every variable of the pipeline holds a value of the type the code gives it,
\* and the two channels respect their capacity.
PTypeOK ==
  /\ TypeOK
  /\ Len(bus) <= BusCap /\ Len(queue) <= QueueCap /\ Len(batch) <= BatchSize
  /\ \A op \in ToSet(queue) \cup ToSet(batch) : IsOp(op)
  /\ wpc \in {"select", "flush", "final", "done"}
  /\ attempt \in 0..RetryMax
  /\ db.orders \in [Orders -> RowRec]
  /\ db.trades \subseteq DOMAIN trades
  /\ main \in {"serve", "http", "engine", "feed", "bus", "worker", "exit", "crash"}
  /\ feed \in {"init", "wait", "emit", "done"} /\ ticks \in 0..MaxTicks
  /\ landed \in BOOLEAN /\ joined \in BOOLEAN
  /\ losses \subseteq Losses

\* Whatever is dropped, retried, torn or written twice, the database never
\* shows a fill or a trade that the engine has not made: a row's filled
\* quantity is covered by the engine's trades, and both orders of a stored
\* trade have a row (wireEvents' copies, flush's upserts).
DBNeverAhead ==
  /\ \A o \in Orders : db.orders[o].filled <= Traded(o)
  /\ \A n \in db.trades : /\ db.orders[trades[n].buy].status # "NONE"
                          /\ db.orders[trades[n].sell].status # "NONE"

InWorker == {op.id : op \in {x \in ToSet(queue) \cup ToSet(batch) : x.kind = "trade"}}

\* A trade whose Enqueue returned nil is queued, in the batch or stored,
\* unless a flush was given up; after main's dbWorker.Stop has returned it is
\* stored: no write is cut off when the pool is closed ("All writes complete
\* before close", docs/12).
EnqueuedWritesLand ==
  "gaveUp" \notin losses =>
    /\ enqueued \subseteq InWorker \cup db.trades
    /\ main = "exit" => enqueued \subseteq db.trades

\* Nothing is in flight between the engine and the database.
Quiet ==
  /\ mpc \in {"idle", "stopped"} /\ ch = <<>>
  /\ \A o \in Orders : phase[o] \in {"new"} \cup Finished
  /\ bus = <<>> /\ queue = <<>> /\ batch = <<>>

\* When everything is quiet and no stage has lost anything, the database is
\* the engine's state: every trade is stored and every announced order's row
\* is current, although OrderUpdated copies a live order and may read it half
\* way through a Fill.
QuietMeansStored ==
  Quiet /\ losses = {} =>
    /\ db.trades = DOMAIN trades
    /\ \A o \in Orders : phase[o] = "done" => db.orders[o] = Row(order[o])

\* A retry repeats the whole batch.  When an attempt has failed although the
\* database had committed it, its retry can only succeed, and it leaves the
\* tables as they are, whatever the engine has done meanwhile (flush's upserts
\* and ON CONFLICT DO NOTHING, sendBatch's transaction).
RetryIsHarmless ==
  landed => /\ Applied.ok
            /\ Applied.orders = db.orders /\ Applied.trades = db.trades

\* The shutdown order of main keeps every publisher ahead of the channel it
\* publishes to: neither the matcher nor a handler sends on the closed event
\* bus (unless handlers outlive the grace period), and only a price feed that
\* main has not waited for can take the process down: the Binance feed, or a
\* simulator that launches its goroutines after sim.Stop.
NoSendOnClosedBus ==
  /\ "panic" \notin losses
  /\ main = "crash" => ~joined

\* "Data tersedia di DB setelah 100ms" (docs/08): in normal operation, with no
\* buffer ever full and a database that never fails by itself, every trade is
\* stored once everything is quiet.
HealthyRunStoresTrades ==
  Quiet /\ main = "serve" /\ losses \subseteq {"gaveUp"} => db.trades = DOMAIN trades

\* "No data loss" (docs/12): a graceful shutdown in which no buffer was full
\* and no flush was given up leaves every trade in the database.
ShutdownKeepsTrades ==
  main = "exit" /\ losses \subseteq {"stopped"} => db.trades = DOMAIN trades

=============================================================================
