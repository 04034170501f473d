----------------------------- MODULE MCServices -----------------------------
(***************************************************************************)
(* The services around the matching core, for TLC.  Nothing is shared      *)
(* between them, so each behaviour follows one of them, `service`, while   *)
(* the others stay in one of their initial states.  The simulator and the  *)
(* Binance feed exclude each other in main as well.                        *)
(***************************************************************************)
EXTENDS MarketData, BinanceFeed, Cluster, Auth, RateLimiter, Queries

CONSTANTS v1, v2, r1, r2, r3, proxy, ann, h1, h2

VARIABLE service

\* The simulated stock TLKM of entity/stock.go.
TLKMBase   == 3500
TLKMTick   == 25
HighPrice  == {3550}
Lots       == {100}
TickVolume == {50}
OnePrice   == {1}

\* A stock of instance 1 when there are three, of instance 0 when there are two.
OneStock == {"BBCA"}
Hash4    == [s \in OneStock |-> 4]

TwoServers == {v1, v2}
OneName    == {"ann"}
ThreeRegistrations == {r1, r2, r3}
OnePeer    == {proxy}
OneClient  == {ann}
TwoHandlers == {h1, h2}
ThreeRows  == 1 .. 3
PerPages   == {0, 1, 5}

\* With ints of five bits page 12 is past the end, wraps around to a negative
\* start or to the second row, as the page size may be; page 99 is no int.
PageNumbers == {0, 2, 12, 99}

services == <<vars, feedVars, clusterVars, authVars, rateVars, queryVars, service>>

ServicesInit ==
  /\ service \in {"simulator", "binance", "cluster", "auth", "rate", "queries"}
  /\ Init /\ FeedInit /\ ClusterInit /\ AuthInit /\ RateInit /\ QueriesInit
  /\ service # "cluster" => config.fanout = "none"
  /\ service # "auth" => ~hasDB
  /\ service # "queries" =>
       /\ storage = "memory" /\ resource = "orders"
       /\ query = [onlyOpen |-> FALSE, page |-> 1, perPage |-> 1, byMeta |-> FALSE]

ServicesNext ==
  /\ \/ /\ service = "simulator" /\ Next
        /\ UNCHANGED <<feedVars, clusterVars, authVars, rateVars, queryVars>>
     \/ /\ service = "binance" /\ FeedNext
        /\ UNCHANGED <<vars, clusterVars, authVars, rateVars, queryVars>>
     \/ /\ service = "cluster" /\ ClusterNext
        /\ UNCHANGED <<vars, feedVars, authVars, rateVars, queryVars>>
     \/ /\ service = "auth" /\ AuthNext
        /\ UNCHANGED <<vars, feedVars, clusterVars, rateVars, queryVars>>
     \/ /\ service = "rate" /\ RateNext
        /\ UNCHANGED <<vars, feedVars, clusterVars, authVars, queryVars>>
     \/ /\ service = "queries" /\ QueriesNext
        /\ UNCHANGED <<vars, feedVars, clusterVars, authVars, rateVars>>
  /\ UNCHANGED service

ServicesSpec == ServicesInit /\ [][ServicesNext]_services

\* The type invariant of every service.
ServicesTypeOK ==
  TypeOK /\ FeedTypeOK /\ ClusterTypeOK /\ AuthTypeOK /\ RateTypeOK /\ QueriesTypeOK

=============================================================================
