------------------------------ MODULE Cluster ------------------------------
(***************************************************************************)
(* Several instances of the server behind a load balancer: the partitioner *)
(* and the order router, the NATS connections (or Redis pub/sub) between   *)
(* the instances, the fan-out of events to every instance's WebSocket hub, *)
(* and main's start and shutdown as far as they touch these.               *)
(*                                                                         *)
(* Each instance is reduced to what the others see of it.  What a matcher  *)
(* does with an order is module Matcher, what the bus does at its limit    *)
(* Persistence, what the hub does with a broadcast Hub: here a matcher     *)
(* takes orders off its channel, every order it matches gives one event    *)
(* (the order book snapshot publishOrderBook always sends), and an event   *)
(* the hub broadcasts is `shown` to that instance's clients.  NATS and     *)
(* Redis are external: in order per connection, a message for which nobody *)
(* listens is gone.  NATS delivers at most once; the Redis client sends a  *)
(* PUBLISH again, over another connection, when its answer does not come.  *)
(***************************************************************************)
EXTENDS Integers, Sequences, SequencesExt, FiniteSets

CONSTANTS
  Total,      \* instances deployed; their PARTITION_INSTANCE_INDEX is 0 .. Total - 1
  Stocks,     \* stock codes
  Hash,       \* FNV-1a of a stock code
  ChanCap,    \* matcherChanCap (1000 in the code)
  MaxPlaced,  \* bound: orders the clients place
  MaxFaults   \* bound: crashes, shutdowns, broken or failed connections, late answers

ASSUME ClusterAssumption ==
  /\ Total \in Nat \ {0} /\ Hash \in [Stocks -> Nat]
  /\ ChanCap \in Nat /\ MaxPlaced \in Nat /\ MaxFaults \in Nat

Instances == 0 .. Total - 1

VARIABLES
  config,     \* partition: PARTITION_ENABLED; fanout: nats, redis or none;
              \* total: each instance's PARTITION_TOTAL_INSTANCES
  phase,      \* up; draining: SIGTERM received; closed: eng.Stop has closed the
              \* matcher channels; down; panicked
  pubUp,      \* natsPub # nil
  subUp,      \* natsSub # nil
  linked,     \* its subscriptions are registered with the message server
  placed,     \* the orders: stock and the instance that accepted the request
  outbox,     \* what an instance has published and the server not yet routed
  orderMail,  \* per instance and stock: the engine.orders subscription
  eventMail,  \* per instance: the event subscription
  copies,     \* per instance: the events whose PUBLISH it has sent again and the
              \* server not yet routed
  resent,     \* history: the events whose PUBLISH was sent again
  engineCh,   \* per instance and stock: Matcher.ch
  matched,    \* history: which instance has matched which order
  eventBus,   \* EventBus.ch: events, named by their place in `matched`
  shown,      \* history: the events an instance's hub has broadcast
  dropped,    \* history: orders lost, and why
  faults      \* number of faults so far

nodeVars    == <<phase, pubUp, subUp, linked, faults>>
messageVars == <<outbox, orderMail, eventMail>>
retryVars   == <<copies, resent>>
engineVars  == <<engineCh, matched, eventBus>>
clusterVars == <<config, nodeVars, placed, messageVars, retryVars, engineVars, shown, dropped>>

-----------------------------------------------------------------------------
(***************************************************************************)
(* Partitioner.                                                            *)
(***************************************************************************)
OwnerIndex(s, total) == IF total <= 0 THEN 0 ELSE Hash[s] % total

\* Mutant: the index and the remainder are compared off by one, so that the
\* last stocks have two owners.
OwnsStockLoosely(n, s) == OwnerIndex(s, config.total[n]) \in {n, n - 1}

OwnsStock(n, s) == OwnerIndex(s, config.total[n]) = n
OwnedStocks(n)  == {s \in Stocks : OwnsStock(n, s)}

\* Config.Validate: an index below the total, and NATS when partitioned.
ValidConfig(c) ==
  c.partition => c.fanout = "nats" /\ \A n \in Instances : n < c.total[n]

\* The matchers NewEngine is given.
EngineStocks(n) == IF config.partition THEN OwnedStocks(n) ELSE Stocks

\* main installs the Router only with a publisher; else the engine itself.
HasRouter(n) == config.partition /\ pubUp[n]

-----------------------------------------------------------------------------
NoMail == [s \in Stocks |-> <<>>]

\* Each connection to NATS may fail; main goes on without it.
NewPublisher  == IF config.fanout = "nats" THEN BOOLEAN ELSE {FALSE}
NewSubscriber == IF config.fanout = "nats" THEN BOOLEAN ELSE {FALSE}

\* How many of them did.
Missing(up) == IF config.fanout = "nats" THEN Cardinality({n \in Instances : ~up[n]}) ELSE 0

ClusterInit ==
  /\ config \in [partition : BOOLEAN, fanout : {"nats", "redis", "none"},
                 total : [Instances -> 1 .. Total]]
  /\ ValidConfig(config)
  /\ ~config.partition => config.total = [n \in Instances |-> Total]
  /\ phase = [n \in Instances |-> "up"]
  /\ pubUp \in [Instances -> NewPublisher] /\ subUp \in [Instances -> NewSubscriber]
  /\ faults = Missing(pubUp) + Missing(subUp) /\ faults <= MaxFaults
  /\ linked = [n \in Instances |-> config.fanout # "none"]
  /\ placed = <<>>
  /\ outbox = [n \in Instances |-> <<>>]
  /\ orderMail = [n \in Instances |-> NoMail]
  /\ eventMail = [n \in Instances |-> <<>>]
  /\ copies = [n \in Instances |-> {}] /\ resent = {}
  /\ engineCh = [n \in Instances |-> NoMail]
  /\ matched = <<>>
  /\ eventBus = [n \in Instances |-> <<>>]
  /\ shown = [n \in Instances |-> <<>>]
  /\ dropped = {}

Running(n) == phase[n] \in {"up", "draining", "closed"}

\* The NATS subscriptions last until natsSub.Close, the Redis ones (and the hub)
\* until the root context ends, on SIGTERM.
SubscribedNATS(n)  == config.fanout = "nats" /\ subUp[n] /\ Running(n)
SubscribedRedis(n) == config.fanout = "redis" /\ phase[n] = "up"
Listens(n) == linked[n] /\ (SubscribedNATS(n) \/ SubscribedRedis(n))

-----------------------------------------------------------------------------
(***************************************************************************)
(* Engine.SubmitOrder: an error for a stock without a matcher and for a    *)
(* full channel.  Its callers log or swallow it: the order is lost.        *)
(***************************************************************************)
EngineSubmit(n, o) ==
  LET s == placed'[o].stock
      has  == s \in EngineStocks(n)
      room == Len(engineCh[n][s]) < ChanCap
  IN  /\ engineCh' = IF has /\ room THEN [engineCh EXCEPT ![n][s] = Append(@, o)]
                     ELSE engineCh
      /\ dropped' = CASE ~has  -> dropped \cup {[order |-> o, why |-> "unknown stock"]}
                      [] has /\ ~room -> dropped \cup {[order |-> o, why |-> "full"]}
                      [] OTHER -> dropped

OrderMessage(o) == [kind |-> "order", id |-> o]
EventMessage(e) == [kind |-> "event", id |-> e]

\* Router.SubmitOrder, or the engine's own when there is no router.
SubmitOrder(n, o) ==
  IF HasRouter(n) /\ ~OwnsStock(n, placed'[o].stock)
    THEN /\ outbox' = [outbox EXCEPT ![n] = Append(@, OrderMessage(o))]
         /\ UNCHANGED <<engineCh, dropped>>
    ELSE EngineSubmit(n, o) /\ UNCHANGED outbox

\* Service.CreateOrder for a request the load balancer sends to instance n.
PlaceOrder(n, s) ==
  /\ phase[n] = "up" /\ Len(placed) < MaxPlaced
  /\ placed' = Append(placed, [stock |-> s, origin |-> n])
  /\ SubmitOrder(n, Len(placed'))
  /\ UNCHANGED <<config, retryVars, nodeVars, orderMail, eventMail, matched, eventBus,
                 shown>>

\* Matcher.run takes an order and publishes the book.
MatchOrder(n, s) ==
  /\ Running(n) /\ engineCh[n][s] # <<>>
  /\ engineCh' = [engineCh EXCEPT ![n][s] = Tail(@)]
  /\ matched' = Append(matched, [order |-> Head(engineCh[n][s]), by |-> n])
  /\ eventBus' = [eventBus EXCEPT ![n] = Append(@, Len(matched'))]
  /\ UNCHANGED <<config, retryVars, nodeVars, placed, messageVars, shown, dropped>>

Broadcast(n, e) == shown' = IF phase[n] = "up" THEN [shown EXCEPT ![n] = Append(@, e)]
                            ELSE shown

\* Mutant: events are published only where orders are routed.
PublishesWithRouter(n) == HasRouter(n)

\* Whether wireEvents' handlers have somewhere to publish an event to; the
\* Redis client is given the root context.
PublishesNATS(n)  == config.fanout = "nats" /\ pubUp[n]
PublishesRedis(n) == config.fanout = "redis" /\ phase[n] = "up"
Publishes(n) == PublishesNATS(n) \/ PublishesRedis(n)

\* Mutant: an event from another instance goes through the local bus, whose
\* handler publishes it again.
TakeEventRepublishes(n) ==
  /\ Running(n) /\ eventMail[n] # <<>>
  /\ Broadcast(n, Head(eventMail[n]))
  /\ outbox' = IF Publishes(n) /\ Head(eventMail[n]) \notin ToSet(shown[n])
               THEN [outbox EXCEPT ![n] = Append(@, EventMessage(Head(eventMail[n])))]
               ELSE outbox
  /\ eventMail' = [eventMail EXCEPT ![n] = Tail(@)]
  /\ UNCHANGED <<config, retryVars, nodeVars, placed, orderMail, engineVars, dropped>>

\* The dispatcher runs a wireEvents handler: the local hub, then the others.
HandleEvent(n) ==
  /\ Running(n) /\ eventBus[n] # <<>>
  /\ Broadcast(n, Head(eventBus[n]))
  /\ outbox' = IF Publishes(n)
               THEN [outbox EXCEPT ![n] = Append(@, EventMessage(Head(eventBus[n])))]
               ELSE outbox
  /\ eventBus' = [eventBus EXCEPT ![n] = Tail(@)]
  /\ UNCHANGED <<config, retryVars, nodeVars, placed, orderMail, eventMail, engineCh,
                 matched, dropped>>

\* A subscription hands an event to the local hub, which it does not leave again.
TakeEvent(n) ==
  /\ Running(n) /\ eventMail[n] # <<>>
  /\ Broadcast(n, Head(eventMail[n]))
  /\ eventMail' = [eventMail EXCEPT ![n] = Tail(@)]
  /\ UNCHANGED <<config, retryVars, nodeVars, placed, outbox, orderMail, engineVars, dropped>>

\* The handlers of wireNATSSubscriber and of wireRedisPubSubSubscriber.
TakeNATSEvent(n)  == config.fanout = "nats" /\ TakeEvent(n)
TakeRedisEvent(n) == config.fanout = "redis" /\ TakeEvent(n)

-----------------------------------------------------------------------------
(***************************************************************************)
(* The message server, external.  An order goes to one member of its queue *)
(* group, the instances wireEngineNATSOrders subscribed; an event to every *)
(* subscriber, the publisher included.                                     *)
(***************************************************************************)
QueueGroup(s) == {n \in Instances : Listens(n) /\ config.partition /\ OwnsStock(n, s)}

\* Mutant: a plain Subscribe instead of QueueSubscribe delivers an order to
\* every instance that believes it owns the stock.
RouteOrderToAll(n) ==
  /\ outbox[n] # <<>> /\ Head(outbox[n]).kind = "order"
  /\ outbox' = [outbox EXCEPT ![n] = Tail(@)]
  /\ LET o == Head(outbox[n]).id
         s == placed[o].stock
     IN  orderMail' = [m \in Instances |->
           IF m \in QueueGroup(s) THEN [orderMail[m] EXCEPT ![s] = Append(@, o)]
           ELSE orderMail[m]]
  /\ UNCHANGED <<config, retryVars, nodeVars, placed, eventMail, engineVars, shown, dropped>>

RouteOrder(n) ==
  /\ outbox[n] # <<>> /\ Head(outbox[n]).kind = "order"
  /\ outbox' = [outbox EXCEPT ![n] = Tail(@)]
  /\ LET o == Head(outbox[n]).id
         s == placed[o].stock
     IN  \/ /\ QueueGroup(s) = {}
            /\ dropped' = dropped \cup {[order |-> o, why |-> "no owner"]}
            /\ UNCHANGED orderMail
         \/ \E m \in QueueGroup(s) :
              /\ orderMail' = [orderMail EXCEPT ![m][s] = Append(@, o)]
              /\ UNCHANGED dropped
  /\ UNCHANGED <<config, retryVars, nodeVars, placed, eventMail, engineVars, shown>>

RouteEvent(n) ==
  /\ outbox[n] # <<>> /\ Head(outbox[n]).kind = "event"
  /\ outbox' = [outbox EXCEPT ![n] = Tail(@)]
  /\ eventMail' = [m \in Instances |->
       IF Listens(m) THEN Append(eventMail[m], Head(outbox[n]).id) ELSE eventMail[m]]
  /\ UNCHANGED <<config, retryVars, nodeVars, placed, orderMail, engineVars, shown, dropped>>

(***************************************************************************)
(* The callback of wireEngineNATSOrders.  Once eng.Stop has closed the     *)
(* matchers' channels, submit sends on a closed channel: that panics, in a *)
(* goroutine of the NATS client where nothing recovers.                    *)
(***************************************************************************)
Held(n) == UNION {ToSet(orderMail[n][s]) \cup ToSet(engineCh[n][s]) : s \in Stocks}

\* The process is gone, with its channels, its subscriptions and its books.
Gone(n, end, why) ==
  /\ phase' = [phase EXCEPT ![n] = end]
  /\ orderMail' = [orderMail EXCEPT ![n] = NoMail]
  /\ engineCh' = [engineCh EXCEPT ![n] = NoMail]
  /\ eventMail' = [eventMail EXCEPT ![n] = <<>>]
  /\ eventBus' = [eventBus EXCEPT ![n] = <<>>]
  /\ dropped' = dropped \cup [order : Held(n), why : {why}]
  /\ UNCHANGED <<config, retryVars, pubUp, subUp, linked, placed, outbox, matched, shown>>

TakeOrder(n, s) ==
  /\ phase[n] \in {"up", "draining"} /\ orderMail[n][s] # <<>>
  /\ UNCHANGED placed
  /\ orderMail' = [orderMail EXCEPT ![n][s] = Tail(@)]
  /\ EngineSubmit(n, Head(orderMail[n][s]))
  /\ UNCHANGED <<config, retryVars, nodeVars, outbox, eventMail, matched, eventBus, shown>>

TakeOrderTooLate(n, s) ==
  /\ phase[n] = "closed" /\ orderMail[n][s] # <<>>
  /\ Gone(n, "panicked", "panic")
  /\ UNCHANGED faults

-----------------------------------------------------------------------------
(***************************************************************************)
(* What goes wrong.                                                        *)
(***************************************************************************)
Fault == faults < MaxFaults /\ faults' = faults + 1

Crash(n) == Running(n) /\ Fault /\ Gone(n, "down", "crash")

\* The subscriber's connection breaks; the client reconnects for ever.
Unlink(n) ==
  /\ Running(n) /\ linked[n] /\ Fault
  /\ linked' = [linked EXCEPT ![n] = FALSE]
  /\ UNCHANGED <<config, retryVars, phase, pubUp, subUp, placed, messageVars, engineVars,
                 shown, dropped>>

Relink(n) ==
  /\ config.fanout # "none" /\ ~linked[n]
  /\ linked' = [linked EXCEPT ![n] = TRUE]
  /\ UNCHANGED <<config, retryVars, phase, pubUp, subUp, faults, placed, messageVars,
                 engineVars, shown, dropped>>

\* The publisher's connection breaks with a message in flight.
LoseMessage(n) ==
  /\ outbox[n] # <<>> /\ Fault
  /\ outbox' = [outbox EXCEPT ![n] = Tail(@)]
  /\ dropped' = IF Head(outbox[n]).kind = "order"
                THEN dropped \cup {[order |-> Head(outbox[n]).id, why |-> "in flight"]}
                ELSE dropped
  /\ UNCHANGED <<config, retryVars, phase, pubUp, subUp, linked, placed, orderMail, eventMail,
                 engineVars, shown>>

\* The answer to a PUBLISH does not come in time or the connection breaks: the
\* client closes it and sends the command again.  Either may come first, with
\* later ones in between, or be lost.
ResendEvent(n) ==
  /\ config.fanout = "redis" /\ outbox[n] # <<>> /\ Head(outbox[n]).kind = "event" /\ Fault
  /\ copies' = [copies EXCEPT ![n] = @ \cup {Head(outbox[n]).id}]
  /\ resent' = resent \cup {Head(outbox[n]).id}
  /\ UNCHANGED <<config, phase, pubUp, subUp, linked, placed, messageVars, engineVars,
                 shown, dropped>>

RouteCopy(n, e) ==
  /\ copies' = [copies EXCEPT ![n] = @ \ {e}]
  /\ eventMail' = [m \in Instances |->
       IF Listens(m) THEN Append(eventMail[m], e) ELSE eventMail[m]]
  /\ UNCHANGED <<config, nodeVars, placed, outbox, orderMail, resent, engineVars, shown,
                 dropped>>

\* main again, with empty books; without NATS it goes on alone.
Restart(n) ==
  /\ phase[n] \in {"down", "panicked"}
  /\ phase' = [phase EXCEPT ![n] = "up"]
  /\ \E pub \in NewPublisher, sub \in NewSubscriber :
       /\ pubUp' = [pubUp EXCEPT ![n] = pub]
       /\ subUp' = [subUp EXCEPT ![n] = sub]
       /\ config.fanout = "nats" /\ ~(pub /\ sub) => faults < MaxFaults
       /\ faults' = IF config.fanout = "nats" /\ ~(pub /\ sub) THEN faults + 1 ELSE faults
  /\ UNCHANGED <<config, retryVars, linked, placed, messageVars, engineVars, shown, dropped>>

(***************************************************************************)
(* Shutdown.  srv.Shutdown has waited for the requests when eng.Stop runs; *)
(* eng.Stop and eventBus.Stop wait for the matchers and the dispatcher;    *)
(* natsSub.Close unsubscribes, which discards what is pending.             *)
(***************************************************************************)
Sigterm(n) ==
  /\ phase[n] = "up" /\ Fault
  /\ phase' = [phase EXCEPT ![n] = "draining"]
  /\ UNCHANGED <<config, retryVars, pubUp, subUp, linked, placed, messageVars, engineVars,
                 shown, dropped>>

EngineStop(n) ==
  /\ phase[n] = "draining"
  /\ phase' = [phase EXCEPT ![n] = "closed"]
  /\ UNCHANGED <<config, retryVars, pubUp, subUp, linked, faults, placed, messageVars,
                 engineVars, shown, dropped>>

Exit(n) ==
  /\ phase[n] = "closed" /\ engineCh[n] = NoMail /\ eventBus[n] = <<>>
  /\ Gone(n, "down", "unsubscribed")
  /\ UNCHANGED faults

-----------------------------------------------------------------------------
InstanceStep(n) ==
  \/ \E s \in Stocks : MatchOrder(n, s) \/ TakeOrder(n, s) \/ TakeOrderTooLate(n, s)
  \/ HandleEvent(n) \/ TakeNATSEvent(n) \/ TakeRedisEvent(n) \/ EngineStop(n) \/ Exit(n)

MessageStep(n) == RouteOrder(n) \/ RouteEvent(n) \/ Relink(n)

FaultStep(n) ==
  \/ Crash(n) \/ Unlink(n) \/ LoseMessage(n) \/ Restart(n) \/ Sigterm(n)
  \/ ResendEvent(n) \/ (\E e \in copies[n] : RouteCopy(n, e))

\* Every order placed has been dealt with and nothing is on its way.
AllQuiet ==
  /\ Len(placed) = MaxPlaced /\ faults = MaxFaults
  /\ \A n \in Instances : phase[n] = "up" /\ linked[n] = (config.fanout # "none")
  /\ \A n \in Instances : /\ outbox[n] = <<>> /\ orderMail[n] = NoMail
                          /\ eventMail[n] = <<>> /\ eventBus[n] = <<>>
                          /\ engineCh[n] = NoMail /\ copies[n] = {}
  /\ UNCHANGED clusterVars

ClusterNext ==
  \/ \E n \in Instances : \/ \E s \in Stocks : PlaceOrder(n, s)
                          \/ InstanceStep(n) \/ MessageStep(n) \/ FaultStep(n)
  \/ AllQuiet

(***************************************************************************)
(* Goroutines run, the message server routes, clients reconnect; faults    *)
(* need not happen, and nobody has to restart an instance.                 *)
(***************************************************************************)
ClusterFairness ==
  \A n \in Instances :
    /\ \A s \in Stocks : /\ WF_clusterVars(MatchOrder(n, s))
                         /\ WF_clusterVars(TakeOrder(n, s) \/ TakeOrderTooLate(n, s))
    /\ WF_clusterVars(HandleEvent(n))
    /\ WF_clusterVars(TakeNATSEvent(n) \/ TakeRedisEvent(n))
    /\ WF_clusterVars(EngineStop(n)) /\ WF_clusterVars(Exit(n))
    /\ WF_clusterVars(RouteOrder(n) \/ RouteEvent(n))

ClusterSpec == ClusterInit /\ [][ClusterNext]_clusterVars /\ ClusterFairness
-----------------------------------------------------------------------------
\* The type invariant; dropped orders and events refer to what there is.
ClusterTypeOK ==
  /\ ValidConfig(config)
  /\ phase \in [Instances -> {"up", "draining", "closed", "down", "panicked"}]
  /\ {pubUp, subUp, linked} \subseteq [Instances -> BOOLEAN]
  /\ placed \in Seq([stock : Stocks, origin : Instances])
  /\ matched \in Seq([order : 1 .. Len(placed), by : Instances])
  /\ {d.order : d \in dropped} \subseteq 1 .. Len(placed)
  /\ \A n \in Instances :
       /\ \A s \in Stocks : \A o \in ToSet(engineCh[n][s]) \cup ToSet(orderMail[n][s]) :
            placed[o].stock = s
       /\ ToSet(eventBus[n]) \cup ToSet(eventMail[n]) \cup ToSet(shown[n])
            \subseteq 1 .. Len(matched)
  /\ faults \in 0 .. MaxFaults

Agreed == \A n \in Instances : config.total[n] = Total

\* With partitioning a stock has one book: when the instances agree on their
\* number, only the stock's owner matches its orders, and those one instance
\* accepted in the order it accepted them, local or forwarded.
OneBookPerStock ==
  config.partition /\ Agreed =>
    \A i \in 1 .. Len(matched) :
      LET o == matched[i].order IN
      /\ matched[i].by = OwnerIndex(placed[o].stock, Total)
      /\ \A j \in 1 .. i - 1 :
           (/\ placed[matched[j].order].stock = placed[o].stock
            /\ placed[matched[j].order].origin = placed[o].origin)
             => matched[j].order < o

MatchedAtMostOnce ==
  /\ \A i, j \in 1 .. Len(matched) : matched[i].order = matched[j].order => i = j
  /\ \A i \in 1 .. Len(matched) : \A d \in dropped : d.order # matched[i].order

LossHasACause == \A d \in dropped : d.why = "full" \/ faults > 0 \/ ~Agreed

\* "each order is processed by exactly one matching engine - eliminating
\* duplicates" (QueueSubscribe): whatever crashes, breaks or is restarted, and
\* even while instances disagree on PARTITION_TOTAL_INSTANCES, no order is
\* matched twice, nor matched and lost; and it is lost only when its matcher's
\* channel is full, something failed or was shut down, or instances disagree.
OrdersAccountedFor == MatchedAtMostOnce /\ LossHasACause

SentAgain(e) == config.fanout = "redis" /\ e \in resent

Count(e, q) == Cardinality({i \in 1 .. Len(q) : q[i] = e})

\* wireEvents, wireNATSSubscriber and wireRedisPubSubSubscriber: the clients of
\* another instance see a book's snapshots in the order they were published and
\* none twice, whatever is lost in between; those of the publishing instance see
\* each at most twice, the second time when it comes back through NATS or Redis,
\* by then perhaps older than what they were shown last.  Redis delivers so only
\* what its client did not send again: with it a snapshot that was may come
\* twice, and after later ones; with NATS no snapshot does.
SnapshotsInOrder ==
  \A n \in Instances : \A i \in 1 .. Len(shown[n]) :
    LET e == shown[n][i] IN
    ~SentAgain(e) =>
      /\ Count(e, shown[n]) <= IF matched[e].by = n THEN 2 ELSE 1
      /\ matched[e].by # n =>
           \A j \in 1 .. i - 1 :
             matched[shown[n][j]].by = matched[e].by /\ ~SentAgain(shown[n][j])
               => shown[n][j] < e

Settled(o) ==
  \/ \E d \in dropped : d.order = o
  \/ \E i \in 1 .. Len(matched) :
       /\ matched[i].order = o
       /\ \/ faults > 0 \/ config.fanout = "none"
          \/ \A n \in Instances : i \in ToSet(shown[n])

\* Router.SubmitOrder and the fan-out: an accepted order is eventually matched
\* (or lost, see above), and unless something fails its book then reaches the
\* clients of every instance.
OrderReachesEveryone ==
  (\E o \in 1 .. Len(placed) : ~Settled(o)) ~> (\A o \in 1 .. Len(placed) : Settled(o))

\* "Graceful shutdown - ordered to drain cleanly" (main): no process dies of a
\* panic.  The code violates it: eng.Stop closes the matchers' channels before
\* natsSub.Close ends the subscriptions that send on them.
ShutsDownCleanly == \A n \in Instances : phase[n] # "panicked"

=============================================================================
