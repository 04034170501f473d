---------------------------- MODULE MCLiveness ----------------------------
(***************************************************************************)
(* What must eventually happen, for TLC: the graceful shutdown of the      *)
(* write path (Persistence), the end of a client the hub has dropped       *)
(* (Hub), the delivery of orders and events between instances (Cluster),   *)
(* the reconnecting price feed (BinanceFeed).  They share nothing here; a  *)
(* behaviour follows one of them, and the others do not begin.             *)
(***************************************************************************)
EXTENDS Cluster, BinanceFeed

CONSTANTS
  Orders, NoOrder, Quantities, DepthLevels, Failures, GraceExpires,
  BusCap, QueueCap, BatchSize, RetryMax, DBFlaky, PriceFeed, MaxTicks,
  Clients, IPs, IPOf, Topics, MaxTotal, MaxPerIP, MaxSubs, ControlCap, MessageCap, SendCap,
  o1, c1, c2, ip1, ip2

VARIABLES
  order, repo, trades, handler, ch, closed, accepted, mpc, cur, trade, book, index,
  view, pub, bus, busClosed, queue, stopped, batch, wpc, retries, db, main, losses,
  enqueued, feed, ticks, landed, joined,
  register, unregister, subscribe, unsubscribe, broadcast, directSend,
  clients, subs, clientSubs, ipCount, send, sendClosed, conn, reader, writer,
  running, panicked,
  followed   \* the part of the server this behaviour follows

Pipeline == INSTANCE Persistence WITH phase <- handler, attempt <- retries
HubPart  == INSTANCE Hub

pipelineVars == <<order, repo, trades, handler, ch, closed, accepted, mpc, cur, trade,
                  book, index, view, pub, bus, busClosed, queue, stopped, batch, wpc,
                  retries, db, main, losses, enqueued,
                  feed, ticks, landed, joined>>
hubVars == <<register, unregister, subscribe, unsubscribe, broadcast, directSend,
             clients, subs, clientSubs, ipCount, send, sendClosed, conn, reader,
             writer, running, panicked>>
liveVars == <<pipelineVars, hubVars, clusterVars, feedVars, followed>>

OneOrder   == {o1}
OnePrice   == {1}
OneQty     == {1}
NoFailures == {}
TwoClients == {c1, c2}
TwoIPs     == {ip1, ip2}
OwnIP      == [c \in Clients |-> IF c = c1 THEN ip1 ELSE ip2]
OneTopic   == {"ticker"}
OneStock   == {"BBCA"}
Hash1      == [s \in OneStock |-> 1]

LivenessInit ==
  /\ followed \in {"shutdown", "hub", "cluster", "feed"}
  /\ Pipeline!PInit /\ HubPart!Init /\ ClusterInit /\ FeedInit
  /\ followed # "shutdown" => \A o \in Orders : order[o].side = "BUY"
  /\ followed # "cluster" => config.fanout = "none"

LivenessNext ==
  /\ \/ /\ followed = "shutdown" /\ Pipeline!PNext
        /\ UNCHANGED <<hubVars, clusterVars, feedVars>>
     \/ /\ followed = "hub" /\ HubPart!Next
        /\ UNCHANGED <<pipelineVars, clusterVars, feedVars>>
     \/ /\ followed = "cluster" /\ ClusterNext
        /\ UNCHANGED <<pipelineVars, hubVars, feedVars>>
     \/ /\ followed = "feed" /\ FeedNext
        /\ UNCHANGED <<pipelineVars, hubVars, clusterVars>>
  /\ UNCHANGED followed

\* In a part that is not followed nothing has begun: but for the feed's first
\* step its fair actions are disabled, and its fairness asks for nothing.
LivenessSpec ==
  /\ LivenessInit /\ [][LivenessNext]_liveVars
  /\ Pipeline!PFairness /\ HubPart!Fairness /\ ClusterFairness
  /\ LoopFairness /\ WF_feedVars(followed = "feed" /\ InitStocks)

\* Once told to stop, the server stops: after SIGTERM main gets to the end of its
\* shutdown sequence, flaky database or not, unless a price published on the
\* closed bus ends the process first; and once its context is cancelled the
\* Binance feed's Start returns, which until then redials whenever it has lost
\* its connection.
StopsWhenTold ==
  LET pending == main \notin {"serve", "exit", "crash"} \/ pc = "wait" \/ (ctxDone /\ pc # "stopped")
  IN  pending ~> ~pending

\* Once the hub has closed its send channel a client ends: its writePump
\* returns, and its readPump too unless the hub stopped (Hub.RemovedClientEnds).
DroppedClientEnds == HubPart!RemovedClientEnds

=============================================================================
