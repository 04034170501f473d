---------------------------- MODULE RateLimiter ----------------------------
(***************************************************************************)
(* The per-IP rate limiter of middleware/ratelimit.go: a map from client   *)
(* address to token bucket, filled on first use and swept by a cleanup     *)
(* goroutine.  A handler fetches its bucket under the lock and takes a     *)
(* token after it has released it, so the sweep may come in between.       *)
(*                                                                         *)
(* The bucket is golang.org/x/time/rate, external: Rate tokens a time unit *)
(* up to Burst.  `ideal` is the bucket of each address that nobody evicts. *)
(***************************************************************************)
EXTENDS Integers, Sequences

CONSTANTS
  Peers,            \* addresses of direct connections
  TrustedPeers,     \* the ones in the trusted proxies' CIDRs
  Forwarded,        \* addresses an X-Forwarded-For header may name first
  NoAddress,        \* no such header
  Handlers,         \* concurrent requests
  Rate, Burst,      \* RATE_LIMIT_RPS, RATE_LIMIT_BURST
  CleanupInterval,  \* cleanupInterval
  IdleTTL,          \* idleTTL
  Stall,            \* longest time a handler takes to get its token
  MaxClock          \* bound: time units

\* Whoever has been idle long enough to be evicted has a full bucket by then:
\* the defaults give 100 a second for ten minutes against a burst of 200.
ASSUME RateAssumption ==
  /\ Rate \in Nat /\ Burst \in Nat \ {0} /\ CleanupInterval \in Nat \ {0}
  /\ Stall \in Nat /\ IdleTTL \in Nat /\ Rate * (IdleTTL - Stall) >= Burst
  /\ TrustedPeers \subseteq Peers /\ MaxClock \in Nat

Addresses == Peers \cup (Forwarded \ {NoAddress})

VARIABLES
  clock,      \* time.Now
  clients,    \* RateLimiter.clients: address to bucket and lastSeen
  buckets,    \* the rate.Limiters made so far, reachable or not
  ideal,      \* history: the bucket each address ought to have
  request,    \* per handler: the bucket it holds, since when, for whom
  nextSweep,  \* when the ticker fires
  swept       \* done is open: the cleanup goroutine runs

rateVars == <<clock, clients, buckets, ideal, request, nextSweep, swept>>

(***************************************************************************)
(* rate.Limiter: NewLimiter and Allow.                                     *)
(***************************************************************************)
NewLimiter == [tokens |-> Burst, last |-> clock]

Advanced(b) ==
  LET t == b.tokens + Rate * (clock - b.last)
  IN  [tokens |-> IF t > Burst THEN Burst ELSE t, last |-> clock]

Taken(b) == [Advanced(b) EXCEPT !.tokens = @ - 1]

\* netutil.ExtractClientIP: the header counts only behind a trusted proxy.
ExtractClientIP(peer, forwarded) ==
  IF peer \in TrustedPeers /\ forwarded # NoAddress THEN forwarded ELSE peer

RateInit ==
  /\ clock = 0 /\ clients = << >> /\ buckets = <<>>
  /\ ideal = [a \in Addresses |-> [tokens |-> Burst, last |-> 0]]
  /\ request = [h \in Handlers |-> <<>>]
  /\ nextSweep = CleanupInterval /\ swept = TRUE

-----------------------------------------------------------------------------
\* Mutant: lastSeen is set when the entry is made, not on every use.
GetLimiterOnce(h, ip) ==
  /\ request[h] = <<>>
  /\ IF ip \in DOMAIN clients
       THEN UNCHANGED <<buckets, clients>>
       ELSE /\ buckets' = Append(buckets, NewLimiter)
            /\ clients' = [a \in DOMAIN clients \cup {ip} |->
                 IF a = ip THEN [limiter |-> Len(buckets'), lastSeen |-> clock]
                 ELSE clients[a]]
  /\ request' = [request EXCEPT ![h] = [ip |-> ip, limiter |-> clients'[ip].limiter,
                                        since |-> clock]]
  /\ UNCHANGED <<clock, ideal, nextSweep, swept>>

\* getLimiter, under the lock.
GetLimiter(h, ip) ==
  /\ request[h] = <<>>
  /\ LET known == ip \in DOMAIN clients
         k == IF known THEN clients[ip].limiter ELSE Len(buckets) + 1
     IN  /\ buckets' = IF known THEN buckets ELSE Append(buckets, NewLimiter)
         /\ clients' = [a \in DOMAIN clients \cup {ip} |->
              IF a = ip THEN [limiter |-> k, lastSeen |-> clock] ELSE clients[a]]
         /\ request' = [request EXCEPT ![h] = [ip |-> ip, limiter |-> k, since |-> clock]]
  /\ UNCHANGED <<clock, ideal, nextSweep, swept>>

\* limiter.Allow: the request passes or gets 429.
Allow(h) ==
  /\ request[h] # <<>>
  /\ LET k == request[h].limiter
         ip == request[h].ip
     IN  IF Advanced(buckets[k]).tokens >= 1
           THEN /\ buckets' = [buckets EXCEPT ![k] = Taken(@)]
                /\ ideal' = [ideal EXCEPT ![ip] = Taken(@)]
           ELSE UNCHANGED <<buckets, ideal>>
  /\ request' = [request EXCEPT ![h] = <<>>]
  /\ UNCHANGED <<clock, clients, nextSweep, swept>>

\* Mutant: the sweep looks at the interval instead of the TTL.
IdleTooSoon(ip) == clock - clients[ip].lastSeen >= CleanupInterval

Idle(ip) == clock - clients[ip].lastSeen > IdleTTL

\* cleanup, on the ticker; one tick of the ticker may wait for it.
Sweep ==
  /\ swept /\ clock >= nextSweep
  /\ clients' = [ip \in {a \in DOMAIN clients : ~Idle(a)} |-> clients[ip]]
  /\ nextSweep' = nextSweep + CleanupInterval
  /\ UNCHANGED <<clock, buckets, ideal, request, swept>>

\* Stop: the cleanup goroutine returns.
StopLimiter ==
  /\ swept' = FALSE
  /\ UNCHANGED <<clock, clients, buckets, ideal, request, nextSweep>>

\* Time passes; a sweep is not late and a handler does not stall for longer.
PassTime ==
  /\ clock < MaxClock /\ clock' = clock + 1
  /\ swept => clock < nextSweep
  /\ \A h \in Handlers : request[h] # <<>> => clock - request[h].since < Stall
  /\ UNCHANGED <<clients, buckets, ideal, request, nextSweep, swept>>

RateNext ==
  \/ \E h \in Handlers :
       \/ \E p \in Peers, f \in Forwarded \cup {NoAddress} : GetLimiter(h, ExtractClientIP(p, f))
       \/ Allow(h)
  \/ Sweep \/ StopLimiter \/ PassTime

RateSpec == RateInit /\ [][RateNext]_rateVars
-----------------------------------------------------------------------------
\* The type invariant.
RateTypeOK ==
  /\ clock \in 0 .. MaxClock /\ nextSweep \in Nat /\ swept \in BOOLEAN
  /\ DOMAIN clients \subseteq Addresses
  /\ \A a \in DOMAIN clients : /\ clients[a].limiter \in 1 .. Len(buckets)
                               /\ clients[a].lastSeen \in 0 .. clock
  /\ \A h \in Handlers : request[h] # <<>> =>
       request[h].ip \in Addresses /\ request[h].limiter \in 1 .. Len(buckets)

\* "a per-IP token-bucket rate limit": evicting a client and giving it a new,
\* full bucket never lets it make a request that its one bucket, kept for ever,
\* would have refused, although a bucket is fetched under the lock and used later.
WithinLimit == \A a \in Addresses : ideal[a].tokens >= 0

\* "preventing unbounded memory growth": while the cleanup goroutine runs, an
\* address that stays away is forgotten before another round of the ticker has
\* passed, and one that has been seen within the TTL is not.
IdleAreForgotten ==
  /\ swept => \A a \in DOMAIN clients : clock - clients[a].lastSeen <= IdleTTL + CleanupInterval
  /\ \A h \in Handlers : request[h] # <<>> =>
       request[h].ip \in DOMAIN clients /\ clients[request[h].ip].limiter = request[h].limiter

=============================================================================
