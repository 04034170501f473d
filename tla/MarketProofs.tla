---------------------------- MODULE MarketProofs ----------------------------
(***************************************************************************)
(* Theorems about MarketData and BinanceFeed, for every stock, every set   *)
(* of trades, every capacity of the bus and of the simulator's channel and *)
(* every number of orders and ticks.  That GetTicker ends up with the      *)
(* simulator's session takes three facts: every trade makes the simulator  *)
(* emit again (SessionSettles), its event is the last of its kind on the   *)
(* bus, and no volume is missing between the matcher and the session       *)
(* (VolumeCounted).                                                        *)
(***************************************************************************)
EXTENDS MarketData, BinanceFeed, RecursionLemmas

Deals == [price : Nat \ {0}, qty : Nat]
Sims  == [price : Nat, high : Nat, low : Nat, volume : Nat]

\* What an event carries; n is the last book version.
EventOK(e, n) ==
  \/ e.type = "TickerUpdated" /\ e.payload \in Tickers /\ Coherent(e.payload)
  \/ e.type = "OrderBookUpdated" /\ e.payload \in 0..n
  \/ e.type = "TradeExecuted" /\ e.payload \in Deals

Events == [type : {"TickerUpdated", "OrderBookUpdated", "TradeExecuted"},
           payload : Tickers \cup Nat \cup Deals]

Caches == [ticker : {<<>>} \cup {<<t>> : t \in Tickers}, book : {<<>>} \cup {<<n>> : n \in Nat}]

\* Types, as far as TypeOK does not give them.
MarketTypes ==
  /\ sim \in Sims
  /\ tradeCh \in Seq(Deals) /\ done \in Seq(Deals)
  /\ bus \in Seq(Events)
  /\ \A i \in 1..Len(bus) : EventOK(bus[i], depth)
  /\ redis \in Caches
  /\ mpc \in {"store", "pubTicker", "pubTrade"} => deal \in Deals

\* One snapshot for every order but the one being matched.
OneSnapshotEach == orders = depth + (IF mpc \in {"idle", "pubBook"} THEN 0 ELSE 1)

\* Every ticker anybody holds is coherent.
AllCoherent ==
  /\ Coherent(ticker) /\ Coherent(loaded) /\ Coherent(SimTicker)
  /\ \A t \in Tickers : redis.ticker = <<t>> => Coherent(t)

\* The last event of its type in q is e; there is none of a type.
LastIs(q, e) ==
  \E i \in 1..Len(q) : q[i] = e /\ \A j \in i + 1..Len(q) : q[j].type # e.type
NoneOf(q, type) == \A i \in 1..Len(q) : q[i].type # type

\* The cached book becomes the matcher's last snapshot when the events on the
\* bus have been handled.
BookSettles ==
  ~lost =>
    /\ stored = depth
    /\ \/ mpc = "pubBook"
       \/ LastIs(bus, OrderBookUpdated(depth))
       \/ NoneOf(bus, "OrderBookUpdated") /\ redis.book \in {<<>>, <<depth>>}

\* A trade has yet to reach the simulator, or the simulator to store its ticker.
Unsettled ==
  \/ mpc \in {"store", "pubTicker", "pubTrade"}
  \/ ~NoneOf(bus, "TradeExecuted")
  \/ tradeCh # <<>>
  \/ spc \in {"lookup", "emit"}

\* The simulator has the last word, in the repository and in the cache.
SessionSettles ==
  (~lost /\ ~Unsettled /\ (ticks > 0 \/ done # <<>>)) =>
    /\ ticker = SimTicker
    /\ \/ spc = "publish"
       \/ LastIs(bus, TickerUpdated(SimTicker))
       \/ NoneOf(bus, "TickerUpdated") /\ redis.ticker \in {<<>>, <<SimTicker>>}

\* v is the sum of the first n numbers of w.
Sums(w, n, v) ==
  \E f \in [0..n -> Int] :
    /\ f[0] = 0 /\ f[n] = v
    /\ \A i \in 1..n : f[i] = f[i - 1] + w[i]

\* The quantities of trades, and of the trades among events.
Qtys(q)      == [i \in 1..Len(q) |-> q[i].qty]
EventQty(e)  == IF e.type = "TradeExecuted" THEN e.payload.qty ELSE 0
EventQtys(q) == [i \in 1..Len(q) |-> EventQty(q[i])]
Held         == IF mpc \in {"store", "pubTicker", "pubTrade"} THEN deal.qty ELSE 0

\* What has been traded is in the session or on its way to it.
VolumeCounted ==
  \E a, b, t \in Int :
    /\ Sums(Qtys(tradeCh), Len(tradeCh), a)
    /\ Sums(EventQtys(bus), Len(bus), b)
    /\ Sums(Qtys(done), Len(done), t)
    /\ ~lost => t <= sim.volume + a + b + Held

MarketInv ==
  TypeOK /\ MarketTypes /\ OneSnapshotEach /\ AllCoherent /\ BookSettles /\ SessionSettles
    /\ VolumeCounted

-----------------------------------------------------------------------------
(***************************************************************************)
(* Queues that grow at the end and shrink at the front.                    *)
(***************************************************************************)
\* r is q with e added; r is q without its first element.
Appended(q, r, e) ==
  /\ Len(q) \in Nat /\ Len(r) = Len(q) + 1 /\ r[Len(q) + 1] = e
  /\ \A i \in 1..Len(q) : r[i] = q[i]
Dropped(q, r) ==
  /\ Len(q) \in Nat /\ Len(r) = Len(q) - 1 /\ Len(r) \in Nat
  /\ \A i \in 1..Len(r) : r[i] = q[i + 1]

\* What Append and Tail make of a sequence.
LEMMA AppendIs ==
  ASSUME NEW S, NEW q \in Seq(S), NEW e \in S
  PROVE  Append(q, e) \in Seq(S) /\ Appended(q, Append(q, e), e)
BY DEF Appended

LEMMA TailIs ==
  ASSUME NEW S, NEW q \in Seq(S), q # <<>>
  PROVE  /\ Tail(q) \in Seq(S) /\ Dropped(q, Tail(q))
         /\ Head(q) = q[1] /\ q[1] \in S /\ 1 \in 1..Len(q)
BY DEF Dropped

\* The event just added is the last of its type, and changes nothing for others.
LEMMA LastAppended ==
  ASSUME NEW q, NEW r, NEW e, Appended(q, r, e)
  PROVE  LastIs(r, e) /\ ~NoneOf(r, e.type)
<1>1. Len(q) + 1 \in 1..Len(r) /\ r[Len(q) + 1] = e
  BY DEF Appended
<1>2. \A j \in Len(q) + 1 + 1..Len(r) : FALSE
  BY DEF Appended
<1> QED BY <1>1, <1>2 DEF LastIs, NoneOf

LEMMA OthersAppended ==
  ASSUME NEW q, NEW r, NEW e, Appended(q, r, e)
  PROVE  /\ \A f : f.type # e.type /\ LastIs(q, f) => LastIs(r, f)
         /\ \A y : y # e.type => (NoneOf(r, y) <=> NoneOf(q, y))
         /\ \A y : ~NoneOf(q, y) => ~NoneOf(r, y)
<1>1. /\ Len(q) \in Nat /\ Len(r) = Len(q) + 1
      /\ \A j \in 1..Len(r) : j \in 1..Len(q) \/ (j = Len(q) + 1 /\ r[j] = e)
      /\ \A j \in 1..Len(q) : j \in 1..Len(r) /\ r[j] = q[j]
      /\ Len(q) + 1 \in 1..Len(r)
  BY DEF Appended
<1>2. ASSUME NEW f, f.type # e.type, LastIs(q, f) PROVE LastIs(r, f)
  <2>1. PICK i \in 1..Len(q) : q[i] = f /\ \A j \in i + 1..Len(q) : q[j].type # f.type
    BY <1>2 DEF LastIs
  <2>2. ASSUME NEW j \in i + 1..Len(r) PROVE r[j].type # f.type
    <3>1. j \in 1..Len(r) /\ (j \in 1..Len(q) => j \in i + 1..Len(q))
      BY <1>1, <2>1
    <3> QED BY <1>1, <1>2, <2>1, <3>1
  <2>3. i \in 1..Len(r) /\ r[i] = f
    BY <1>1, <2>1
  <2> QED BY <2>2, <2>3 DEF LastIs
<1>3. ASSUME NEW y, y # e.type PROVE NoneOf(r, y) <=> NoneOf(q, y)
  BY <1>1, <1>3 DEF NoneOf
<1>4. ASSUME NEW y, ~NoneOf(q, y) PROVE ~NoneOf(r, y)
  BY <1>1, <1>4 DEF NoneOf
<1> QED BY <1>2, <1>3, <1>4

\* When the head is handled the last event of a type stays, unless it was the head.
LEMMA LastDropped ==
  ASSUME NEW q, NEW r, Dropped(q, r)
  PROVE  /\ \A e : LastIs(q, e) => LastIs(r, e) \/ (q[1] = e /\ NoneOf(r, e.type))
         /\ \A y : NoneOf(q, y) => NoneOf(r, y) /\ q[1].type # y
         /\ \A y : NoneOf(r, y) => NoneOf(q, y) \/ q[1].type = y
<1>1. /\ Len(q) \in Nat /\ Len(r) = Len(q) - 1 /\ 1 \in 1..Len(q)
      /\ \A i \in 1..Len(r) : r[i] = q[i + 1] /\ i + 1 \in 1..Len(q)
      /\ \A i \in 1..Len(q) : i # 1 => i - 1 \in 1..Len(r) /\ r[i - 1] = q[i]
  BY DEF Dropped
<1>2. ASSUME NEW e, LastIs(q, e) PROVE LastIs(r, e) \/ (q[1] = e /\ NoneOf(r, e.type))
  <2>1. PICK i \in 1..Len(q) : q[i] = e /\ \A j \in i + 1..Len(q) : q[j].type # e.type
    BY <1>2 DEF LastIs
  <2>2. CASE i = 1
    <3>1. \A j \in 1..Len(r) : j + 1 \in i + 1..Len(q)
      BY <1>1, <2>2
    <3>2. NoneOf(r, e.type)
      BY <1>1, <2>1, <3>1 DEF NoneOf
    <3> QED BY <2>1, <2>2, <3>2
  <2>3. CASE i # 1
    <3>1. i - 1 \in 1..Len(r) /\ r[i - 1] = e
      BY <1>1, <2>1, <2>3
    <3>2. ASSUME NEW j \in i - 1 + 1..Len(r) PROVE r[j].type # e.type
      <4>1. j \in 1..Len(r) /\ j + 1 \in i + 1..Len(q)
        BY <1>1, <2>1
      <4> QED BY <1>1, <2>1, <4>1
    <3> QED BY <3>1, <3>2 DEF LastIs
  <2> QED BY <2>2, <2>3
<1>3. ASSUME NEW y, NoneOf(q, y) PROVE NoneOf(r, y) /\ q[1].type # y
  BY <1>1, <1>3 DEF NoneOf
<1>4. ASSUME NEW y, NoneOf(r, y) PROVE NoneOf(q, y) \/ q[1].type = y
  BY <1>1, <1>4 DEF NoneOf
<1> QED BY <1>2, <1>3, <1>4

-----------------------------------------------------------------------------
(***************************************************************************)
(* Sums.                                                                   *)
(***************************************************************************)
\* One number more.
LEMMA SumsAppend ==
  ASSUME NEW n \in Nat, NEW w, NEW v \in Int, Sums(w, n, v), NEW x \in Int,
         NEW u, \A i \in 1..n : u[i] = w[i], u[n + 1] = x
  PROVE  Sums(u, n + 1, v + x)
<1>1. PICK f \in [0..n -> Int] :
        f[0] = 0 /\ f[n] = v /\ \A i \in 1..n : f[i] = f[i - 1] + w[i]
  BY DEF Sums
<1> DEFINE g == [i \in 0..n + 1 |-> IF i = n + 1 THEN v + x ELSE f[i]]
<1>2. g \in [0..n + 1 -> Int] /\ g[n + 1] = v + x /\ \A i \in 0..n : g[i] = f[i]
  BY <1>1
<1>3. ASSUME NEW i \in 1..n + 1 PROVE g[i] = g[i - 1] + u[i]
  <2>1. CASE i = n + 1
    <3>1. n \in 0..n /\ i - 1 = n
      BY <2>1
    <3> QED BY <1>1, <1>2, <2>1, <3>1
  <2>2. CASE i # n + 1
    <3>1. i \in 1..n /\ i \in 0..n /\ i - 1 \in 0..n
      BY <2>2
    <3> QED BY <1>1, <1>2, <3>1
  <2> QED BY <2>1, <2>2
<1>4. g[0] = 0
  BY <1>1, <1>2
<1> HIDE DEF g
<1> QED BY <1>2, <1>3, <1>4 DEF Sums

LEMMA Shifted ==
  ASSUME NEW y \in Int, NEW z \in Int, NEW k \in Int
  PROVE  (y + z) - k = (y - k) + z
OBVIOUS

\* The first number less.
LEMMA SumsDrop ==
  ASSUME NEW n \in Nat, n # 0, NEW w, NEW v \in Int, Sums(w, n, v),
         \A i \in 1..n : w[i] \in Int, NEW u, \A i \in 1..n - 1 : u[i] = w[i + 1]
  PROVE  Sums(u, n - 1, v - w[1])
<1>1. PICK f \in [0..n -> Int] :
        f[0] = 0 /\ f[n] = v /\ \A i \in 1..n : f[i] = f[i - 1] + w[i]
  BY DEF Sums
<1> DEFINE g == [i \in 0..n - 1 |-> f[i + 1] - w[1]]
<1>2. 1 \in 1..n /\ f[1] = w[1] /\ n - 1 \in Nat /\ n - 1 + 1 = n
  BY <1>1
<1>3. \A i \in 0..n - 1 : i + 1 \in 0..n
  BY <1>2
<1>4. g \in [0..n - 1 -> Int] /\ \A i \in 0..n - 1 : g[i] = f[i + 1] - w[1]
  BY <1>1, <1>3
<1>5. g[0] = 0 /\ g[n - 1] = v - w[1]
  BY <1>1, <1>2, <1>4
<1>6. ASSUME NEW i \in 1..n - 1 PROVE g[i] = g[i - 1] + u[i]
  <2>1. /\ i \in 0..n - 1 /\ i - 1 \in 0..n - 1 /\ i + 1 \in 1..n
        /\ i + 1 - 1 = i /\ i - 1 + 1 = i /\ i \in 0..n
    BY <1>2
  <2>2. f[i + 1] = f[i] + w[i + 1]
    BY <1>1, <2>1
  <2>3. f[i] \in Int /\ f[i + 1] \in Int
    BY <1>1, <2>1
  <2>4. g[i] = f[i + 1] - w[1] /\ g[i - 1] = f[i] - w[1]
    BY <1>4, <2>1
  <2>5. u[i] = w[i + 1]
    OBVIOUS
  <2>6. w[i + 1] \in Int /\ w[1] \in Int
    BY <1>2, <2>1
  <2> HIDE DEF g
  <2>7. (f[i] + w[i + 1]) - w[1] = (f[i] - w[1]) + w[i + 1]
    BY Shifted, <2>3, <2>6
  <2> QED BY <2>2, <2>4, <2>5, <2>7
<1> HIDE DEF g
<1> QED BY <1>4, <1>5, <1>6 DEF Sums

\* Nothing sums to nothing, and a sum is one number.
LEMMA SumsUnique ==
  ASSUME NEW n \in Nat, NEW w, NEW v, NEW x, Sums(w, n, v), Sums(w, n, x)
  PROVE  v = x
<1>1. PICK f \in [0..n -> Int] :
        f[0] = 0 /\ f[n] = v /\ \A i \in 1..n : f[i] = f[i - 1] + w[i]
  BY DEF Sums
<1>2. PICK g \in [0..n -> Int] :
        g[0] = 0 /\ g[n] = x /\ \A i \in 1..n : g[i] = g[i - 1] + w[i]
  BY DEF Sums
<1> DEFINE T == {i \in 0..n : f[i] # g[i]}
<1>3. ASSUME T # {} PROVE FALSE
  <2>1. T \in SUBSET Nat
    OBVIOUS
  <2>2. PICK m \in T : \A k \in T : m <= k
    BY <1>3, <2>1, LeastElement
  <2>3. m # 0
    BY <1>1, <1>2, <2>2
  <2>4. m - 1 \in 0..n /\ m - 1 \notin T /\ m \in 1..n
    BY <2>2, <2>3
  <2>5. f[m - 1] = g[m - 1]
    BY <2>4
  <2>6. f[m] = f[m - 1] + w[m] /\ g[m] = g[m - 1] + w[m]
    BY <1>1, <1>2, <2>4
  <2> QED BY <2>2, <2>5, <2>6
<1>4. n \in 0..n
  OBVIOUS
<1> QED BY <1>1, <1>2, <1>3, <1>4

LEMMA SumsEmpty ==
  ASSUME NEW w
  PROVE  Sums(w, 0, 0)
<1> DEFINE f == [i \in 0..0 |-> 0]
<1>1. f \in [0..0 -> Int] /\ f[0] = 0
  OBVIOUS
<1>2. \A i \in 1..0 : FALSE
  OBVIOUS
<1> HIDE DEF f
<1> QED BY <1>1, <1>2 DEF Sums

\* Traded is the sum of the quantities of the trades made.
LEMMA TradedIs ==
  ASSUME done \in Seq(Deals), NEW t \in Int, Sums(Qtys(done), Len(done), t)
  PROVE  Traded = t
<1> DEFINE n == Len(done)
           E(s) == s = [i \in 0..n |-> IF i = 0 THEN 0 ELSE s[i - 1] + done[i].qty]
           sum  == CHOOSE s : E(s)
<1>0. n \in Nat /\ \A i \in 1..n : Qtys(done)[i] = done[i].qty /\ done[i].qty \in Int
  <2>1. n \in Nat /\ \A i \in 1..n : done[i] \in Deals
    OBVIOUS
  <2>2. \A i \in 1..n : done[i].qty \in Int
    BY <2>1 DEF Deals
  <2>3. \A i \in 1..n : Qtys(done)[i] = done[i].qty
    BY DEF Qtys
  <2> QED BY <2>1, <2>2, <2>3
<1>1. PICK f \in [0..n -> Int] :
        f[0] = 0 /\ f[n] = t /\ \A i \in 1..n : f[i] = f[i - 1] + Qtys(done)[i]
  BY DEF Sums
<1>2. E(f)
  <2>1. \A i \in 0..n : f[i] = IF i = 0 THEN 0 ELSE f[i - 1] + done[i].qty
    BY <1>0, <1>1
  <2> QED BY <2>1, <1>1
<1>3. E(sum)
  BY <1>2
<1> HIDE DEF sum
<1>4. sum[0] = 0 /\ \A i \in 1..n : sum[i] = sum[i - 1] + Qtys(done)[i]
  BY <1>0, <1>3
<1> DEFINE T == {i \in 0..n : f[i] # sum[i]}
<1>5. ASSUME T # {} PROVE FALSE
  <2>1. T \in SUBSET Nat
    BY <1>0
  <2>2. PICK m \in T : \A k \in T : m <= k
    BY <1>5, <2>1, LeastElement
  <2>3. m # 0
    BY <1>1, <1>4, <2>2
  <2>4. m - 1 \in 0..n /\ m - 1 \notin T /\ m \in 1..n
    BY <1>0, <2>2, <2>3
  <2>5. f[m - 1] = sum[m - 1]
    BY <2>4
  <2>6. f[m] = f[m - 1] + Qtys(done)[m] /\ sum[m] = sum[m - 1] + Qtys(done)[m]
    BY <1>1, <1>4, <2>4
  <2> QED BY <2>2, <2>5, <2>6
<1>6. sum[n] = t
  BY <1>0, <1>1, <1>5
<1>7. Traded = sum[n]
  BY DEF Traded, sum
<1> QED BY <1>6, <1>7

-----------------------------------------------------------------------------
(***************************************************************************)
(* Types and coherence.                                                    *)
(***************************************************************************)
Base == TypeOK /\ MarketTypes /\ OneSnapshotEach /\ AllCoherent

\* nextPrice never answers a negative price.
LEMMA NextPricesNat ==
  ASSUME NEW c \in Nat, NEW p \in NextPrices(c)
  PROVE  p \in Nat
<1> DEFINE pull == 10 * (BasePrice - c)
           from == pull - 5 * c
           to   == pull + 5 * c
           step(d) == Clamp(RoundToTick(c + d),
                            (BasePrice * 90) \div 100, (BasePrice * 110) \div 100)
<1>0. BasePrice \in Nat /\ TickSize \in Nat
  BY StockAssumption
<1>1. (BasePrice * 90) \div 100 \in Nat /\ (BasePrice * 110) \div 100 \in Nat
  BY <1>0
<1>2. Truncate(from) \in Int /\ Truncate(to - 1) \in Int
  BY <1>0 DEF Truncate
<1>3. PICK d \in Truncate(from)..Truncate(to - 1) : p = Higher(TickSize, step(d))
  BY DEF NextPrices
<1>4. d \in Int
  BY <1>2, <1>3
<1>5. RoundToTick(c + d) \in Int
  BY <1>0, <1>4 DEF RoundToTick
<1>6. step(d) \in Nat
  BY <1>1, <1>5 DEF Clamp
<1> HIDE DEF step
<1> QED BY <1>0, <1>3, <1>6 DEF Higher

\* UpdateFromTrade makes a coherent ticker of any ticker.
LEMMA TradeCoherent ==
  ASSUME NEW t \in Tickers, NEW p \in Nat \ {0}, NEW q \in Nat
  PROVE  UpdateFromTrade(t, p, q) \in Tickers /\ Coherent(UpdateFromTrade(t, p, q))
<1> DEFINE u == UpdateFromTrade(t, p, q)
<1>0. /\ t.last \in Nat /\ t.prevClose \in {0, BasePrice} /\ t.change \in Int
      /\ t.high \in Nat /\ t.low \in Nat /\ t.volume \in Nat
      /\ BasePrice \in Nat /\ t.prevClose \in Nat
  BY StockAssumption DEF Tickers
<1> DEFINE x == IF t.prevClose > 0 THEN p - t.prevClose ELSE t.change
<1>1. u = [t EXCEPT !.last = p, !.volume = t.volume + q, !.high = Higher(t.high, p),
                    !.low = Lower(t.low, p), !.change = x]
  BY DEF UpdateFromTrade
<1>2. Higher(t.high, p) \in Nat /\ p <= Higher(t.high, p)
  BY <1>0 DEF Higher
<1>3. Lower(t.low, p) \in Nat /\ 0 < Lower(t.low, p) /\ Lower(t.low, p) <= p
  BY <1>0 DEF Lower
<1>4. x \in Int /\ (t.prevClose > 0 => x = p - t.prevClose)
  BY <1>0
<1> HIDE DEF u, x
<1>5. u \in Tickers
  <2>1. \A h \in Nat, l \in Nat, v \in Nat, c \in Int :
          [t EXCEPT !.last = p, !.volume = v, !.high = h, !.low = l, !.change = c] \in Tickers
    BY DEF Tickers
  <2>2. /\ Higher(t.high, p) \in Nat /\ Lower(t.low, p) \in Nat
        /\ t.volume + q \in Nat /\ x \in Int
    BY <1>0, <1>2, <1>3, <1>4
  <2> QED BY Zenon, <1>1, <2>1, <2>2
<1>6. Coherent(u)
  <2>1. /\ u.last = p /\ u.low = Lower(t.low, p) /\ u.high = Higher(t.high, p)
        /\ u.prevClose = t.prevClose /\ u.change = x
    BY <1>1 DEF Tickers
  <2> QED BY <1>0, <1>2, <1>3, <1>4, <2>1 DEF Coherent
<1> QED BY <1>5, <1>6 DEF u

\* So does a new price of the simulator.
LEMMA MovedCoherent ==
  ASSUME sim \in Sims, NEW p \in Nat, NEW v \in Nat, sim' = Moved(p, v)
  PROVE  /\ sim' \in Sims /\ SimTicker' \in Tickers /\ Coherent(SimTicker')
         /\ sim'.volume = sim.volume + v /\ sim.volume \in Nat
<1>0. /\ sim.price \in Nat /\ sim.high \in Nat /\ sim.low \in Nat /\ sim.volume \in Nat
      /\ BasePrice \in Nat
  BY StockAssumption DEF Sims
<1>1. Higher(sim.high, p) \in Nat /\ p <= Higher(sim.high, p)
  BY <1>0 DEF Higher
<1>2. Lower(sim.low, p) \in Nat /\ Lower(sim.low, p) <= p /\ (p # 0 => 0 < Lower(sim.low, p))
  BY <1>0 DEF Lower
<1>3. /\ sim'.price = p /\ sim'.high = Higher(sim.high, p) /\ sim'.low = Lower(sim.low, p)
      /\ sim'.volume = sim.volume + v
      /\ sim' = [price |-> p, high |-> Higher(sim.high, p), low |-> Lower(sim.low, p),
                 volume |-> sim.volume + v]
  BY DEF Moved
<1>4. sim' \in Sims
  BY <1>0, <1>1, <1>2, <1>3 DEF Sims
<1>5. SimTicker' = [last |-> p, prevClose |-> BasePrice, change |-> p - BasePrice,
                    high |-> Higher(sim.high, p), low |-> Lower(sim.low, p),
                    volume |-> sim.volume + v]
  BY <1>3 DEF SimTicker
<1>6. SimTicker' \in Tickers
  BY <1>0, <1>1, <1>2, <1>5 DEF Tickers
<1>7. Coherent(SimTicker')
  BY <1>0, <1>1, <1>2, <1>5 DEF Coherent
<1> QED BY <1>0, <1>3, <1>4, <1>6, <1>7

\* The session's ticker is one.
LEMMA SimTickerIs == sim \in Sims => SimTicker \in Tickers
BY StockAssumption DEF Sims, SimTicker, Tickers

\* Publish adds the event or loses it.
LEMMA PublishIs ==
  ASSUME Base, NEW e \in Events, EventOK(e, depth), Publish(e)
  PROVE  /\ bus' \in Seq(Events) /\ Len(bus') <= BusCap /\ lost' \in BOOLEAN
         /\ \A i \in 1..Len(bus') : EventOK(bus'[i], depth)
         /\ \/ Appended(bus, bus', e) /\ lost' = lost
            \/ bus' = bus /\ lost' = TRUE
<1>1. /\ bus \in Seq(Events) /\ Len(bus) <= BusCap /\ lost \in BOOLEAN /\ BusCap \in Nat
      /\ \A i \in 1..Len(bus) : EventOK(bus[i], depth)
  BY CapAssumption DEF Base, TypeOK, MarketTypes
<1>2. CASE Len(bus) < BusCap /\ bus' = Append(bus, e) /\ lost' = lost
  <2>1. bus' \in Seq(Events) /\ Appended(bus, bus', e)
    BY <1>1, <1>2, AppendIs
  <2>2. \A i \in 1..Len(bus') : EventOK(bus'[i], depth)
    BY <1>1, <2>1 DEF Appended
  <2>3. Len(bus') <= BusCap
    BY <1>1, <1>2, <2>1 DEF Appended
  <2> QED BY <1>1, <1>2, <2>1, <2>2, <2>3
<1>3. CASE lost' = TRUE /\ bus' = bus
  BY <1>1, <1>3
<1> QED BY <1>2, <1>3 DEF Publish

\* Publish that has lost nothing, nor anybody before it, has added the event.
LEMMA PublishKept ==
  ASSUME NEW e, Publish(e), ~lost'
  PROVE  ~lost /\ bus' = Append(bus, e)
<1>1. CASE bus' = Append(bus, e) /\ lost' = lost
  BY Zenon, <1>1
<1>2. CASE lost' = TRUE
  BY Zenon, <1>2
<1> QED BY Zenon, <1>1, <1>2 DEF Publish

\* The flags; mpc is "store" exactly while UpdateTickerFromTrade holds the lock.
Flags ==
  /\ registered \in BOOLEAN /\ subscribed \in BOOLEAN /\ lost \in BOOLEAN
  /\ locked = (mpc = "store")

LEMMA FlagsStep == Base /\ [Next]_vars => Flags'
<1> SUFFICES ASSUME Base, [Next]_vars PROVE Flags'
  OBVIOUS
<1>0. Flags
  BY DEF Base, TypeOK, Flags
<1>1. CASE MatcherStep
  BY Zenon, <1>0, <1>1 DEF MatcherStep, Receive, LoadTicker, StoreTicker, PublishTicker,
     PublishTrade, StoreBook, PublishBook, Publish, repoVars, simVars, Flags
<1>2. CASE SimStep
  BY Zenon, <1>0, <1>2 DEF SimStep, InitStock, Subscribe, TakeTrade, Tick, LookupEntry,
     StoreEmitted, PublishEmitted, Cancelled, Unsubscribe, Publish, repoVars, matcherVars, Flags
<1>3. CASE Dispatch \/ Expire \/ Rest \/ UNCHANGED vars
  BY Zenon, <1>0, <1>3 DEF Dispatch, Expire, Rest, SetTicker, SetOrderBook, ForwardTrade, repoVars,
     matcherVars, simVars, vars, Flags
<1> QED BY <1>1, <1>2, <1>3 DEF Next

\* Where everybody is and how far they have come.
Counters ==
  /\ mpc \in {"idle", "match", "store", "pubTicker", "pubTrade", "pubBook"}
  /\ spc \in {"init", "subscribe", "select", "lookup", "emit", "publish",
              "unsubscribe", "stopped"}
  /\ orders \in 0..MaxOrders /\ depth \in 0..orders /\ stored \in 0..depth
  /\ ticks \in 0..MaxTicks
  /\ OneSnapshotEach

LEMMA CountersStep == Base /\ [Next]_vars => Counters' /\ depth <= depth'
<1> SUFFICES ASSUME Base, [Next]_vars PROVE Counters' /\ depth <= depth'
  OBVIOUS
<1>0. Counters /\ MaxOrders \in Nat /\ MaxTicks \in Nat /\ depth \in Nat /\ orders \in Nat
  BY CapAssumption DEF Base, TypeOK, Counters
<1>1. CASE MatcherStep
  <2>1. CASE Receive
    BY <1>0, <2>1 DEF Receive, simVars, Counters, OneSnapshotEach
  <2>2. ASSUME NEW p \in TradePrices, NEW q \in TradeQtys, LoadTicker(p, q)
        PROVE  Counters' /\ depth <= depth'
    BY <1>0, <2>2 DEF LoadTicker, simVars, Counters, OneSnapshotEach
  <2>3. CASE StoreTicker \/ PublishTicker \/ PublishTrade
    BY <1>0, <2>3 DEF StoreTicker, PublishTicker, PublishTrade, simVars, Counters, OneSnapshotEach
  <2>4. CASE StoreBook
    BY <1>0, <2>4 DEF StoreBook, simVars, Counters, OneSnapshotEach
  <2>5. CASE PublishBook
    BY <1>0, <2>5 DEF PublishBook, simVars, Counters, OneSnapshotEach
  <2> QED BY <1>1, <2>1, <2>2, <2>3, <2>4, <2>5 DEF MatcherStep
<1>2. CASE SimStep
  <2>1. UNCHANGED <<mpc, orders, depth, stored>>
    BY <1>2 DEF SimStep, InitStock, Subscribe, TakeTrade, Tick, LookupEntry, StoreEmitted,
       PublishEmitted, Cancelled, Unsubscribe, matcherVars
  <2>2. /\ spc' \in {"init", "subscribe", "select", "lookup", "emit", "publish",
                     "unsubscribe", "stopped"}
        /\ ticks' = ticks \/ (ticks < MaxTicks /\ ticks' = ticks + 1)
    BY <1>2 DEF SimStep, InitStock, Subscribe, TakeTrade, Tick, LookupEntry, StoreEmitted,
       PublishEmitted, Cancelled, Unsubscribe
  <2> QED BY <1>0, <2>1, <2>2 DEF Counters, OneSnapshotEach
<1>3. CASE Dispatch \/ Expire \/ Rest \/ UNCHANGED vars
  <2>1. UNCHANGED <<mpc, orders, depth, stored, spc, ticks>>
    BY <1>3 DEF Dispatch, Expire, Rest, matcherVars, simVars, vars
  <2> QED BY <1>0, <2>1 DEF Counters, OneSnapshotEach
<1> QED BY <1>1, <1>2, <1>3 DEF Next

\* The prices and tickers everybody holds.
Quotes ==
  /\ ticker \in Tickers /\ loaded \in Tickers /\ sim \in Sims
  /\ Coherent(ticker) /\ Coherent(loaded) /\ Coherent(SimTicker)
  /\ mpc \in {"store", "pubTicker", "pubTrade"} => deal \in Deals
  /\ redis \in Caches
  /\ \A t \in Tickers : redis.ticker = <<t>> => Coherent(t)
  /\ \A n \in Nat : redis.book = <<n>> => n <= depth

\* Every price of a trade is one, and so is every quantity.
LEMMA DealIs ==
  ASSUME NEW p \in TradePrices, NEW q \in TradeQtys
  PROVE  [price |-> p, qty |-> q] \in Deals
BY TradeAssumption DEF Deals

LEMMA QuotesStep == Base /\ [Next]_vars => Quotes'
<1> SUFFICES ASSUME Base, [Next]_vars PROVE Quotes'
  OBVIOUS
<1>0. Quotes /\ SimTicker \in Tickers
  BY SimTickerIs DEF Base, TypeOK, MarketTypes, AllCoherent, Quotes, IsOptional, Caches
<1>a. depth \in Nat /\ depth' \in Nat /\ depth <= depth'
  BY CountersStep, CapAssumption DEF Base, TypeOK, Counters
<1>1. CASE MatcherStep
  <2>1. UNCHANGED <<sim, redis>> /\ SimTicker' = SimTicker
    BY <1>1 DEF MatcherStep, Receive, LoadTicker, StoreTicker, PublishTicker, PublishTrade,
       StoreBook, PublishBook, simVars, SimTicker
  <2>2. ASSUME NEW p \in TradePrices, NEW q \in TradeQtys, LoadTicker(p, q)
        PROVE  Quotes'
    <3>1. deal' \in Deals
      BY <2>2, DealIs DEF LoadTicker
    <3>2. ticker' = ticker /\ loaded' \in {ticker, loaded}
      BY <2>2 DEF LoadTicker
    <3> QED BY <1>0, <1>a, <2>1, <3>1, <3>2 DEF Quotes
  <2>3. CASE StoreTicker
    <3>1. /\ ticker' = UpdateFromTrade(loaded, deal.price, deal.qty) /\ loaded' = ticker'
          /\ deal' = deal /\ deal \in Deals
      BY <1>0, <2>3 DEF StoreTicker, Quotes
    <3>2. deal.price \in Nat \ {0} /\ deal.qty \in Nat /\ loaded \in Tickers
      BY <1>0, <3>1 DEF Deals, Quotes
    <3>3. ticker' \in Tickers /\ Coherent(ticker')
      BY <3>1, <3>2, TradeCoherent
    <3> QED BY <1>0, <1>a, <2>1, <3>1, <3>3 DEF Quotes
  <2>4. CASE Receive \/ PublishTicker \/ PublishTrade \/ StoreBook \/ PublishBook
    <3>1. UNCHANGED <<ticker, loaded, deal>>
      BY <2>4 DEF Receive, PublishTicker, PublishTrade, StoreBook, PublishBook, repoVars
    <3>2. mpc' \in {"store", "pubTicker", "pubTrade"} => mpc \in {"store", "pubTicker", "pubTrade"}
      BY <2>4 DEF Receive, PublishTicker, PublishTrade, StoreBook, PublishBook
    <3> QED BY <1>0, <1>a, <2>1, <3>1, <3>2 DEF Quotes
  <2> QED BY <1>1, <2>2, <2>3, <2>4 DEF MatcherStep
<1>2. CASE SimStep
  <2>1. UNCHANGED <<redis, loaded, deal, mpc>>
    BY <1>2 DEF SimStep, InitStock, Subscribe, TakeTrade, Tick, LookupEntry, StoreEmitted,
       PublishEmitted, Cancelled, Unsubscribe, matcherVars
  <2>2. CASE TakeTrade \/ Tick
    <3>1. ticker' = ticker
      BY <2>2 DEF TakeTrade, Tick, repoVars
    <3>2. \E p \in Nat, v \in Nat : sim' = Moved(p, v)
      <4>1. CASE TakeTrade
        <5>1. Head(tradeCh) \in Deals
          BY <4>1, TailIs DEF TakeTrade, Base, MarketTypes
        <5> QED BY <4>1, <5>1 DEF TakeTrade, Deals
      <4>2. CASE Tick
        <5>1. sim.price \in Nat
          BY <1>0 DEF Quotes, Sims
        <5>2. PICK p \in NextPrices(sim.price), v \in TickVolumes : sim' = Moved(p, v)
          BY <4>2 DEF Tick
        <5>3. p \in Nat /\ v \in Nat
          BY <5>1, <5>2, NextPricesNat, TradeAssumption
        <5> QED BY <5>2, <5>3
      <4> QED BY <2>2, <4>1, <4>2
    <3>3. sim' \in Sims /\ Coherent(SimTicker')
      BY <1>0, <3>2, MovedCoherent DEF Quotes
    <3> QED BY <1>0, <1>a, <2>1, <3>1, <3>3 DEF Quotes
  <2>3. CASE ~(TakeTrade \/ Tick)
    <3>1. sim' = sim /\ SimTicker' = SimTicker /\ ticker' \in {ticker, SimTicker}
      BY <1>2, <2>3 DEF SimStep, InitStock, Subscribe, LookupEntry, StoreEmitted,
         PublishEmitted, Cancelled, Unsubscribe, repoVars, SimTicker
    <3> QED BY <1>0, <1>a, <2>1, <3>1 DEF Quotes
  <2> QED BY <2>2, <2>3
<1>3. CASE Dispatch \/ Expire
  <2>1. UNCHANGED <<ticker, loaded, sim, deal, mpc>> /\ SimTicker' = SimTicker
    BY <1>3 DEF Dispatch, Expire, repoVars, matcherVars, simVars, SimTicker
  <2>2. /\ redis' \in Caches
        /\ \A t \in Tickers : redis'.ticker = <<t>> => Coherent(t)
        /\ \A n \in Nat : redis'.book = <<n>> => n <= depth
    <3>1. CASE redis' = redis
      BY <1>0, <3>1 DEF Quotes, Caches
    <3>2. CASE redis' = [redis EXCEPT !.ticker = <<>>] \/ redis' = [redis EXCEPT !.book = <<>>]
      BY <1>0, <3>2 DEF Quotes, Caches
    <3>3. ASSUME NEW t \in Tickers, Coherent(t), redis' = [redis EXCEPT !.ticker = <<t>>]
          PROVE  /\ redis' \in Caches
                 /\ \A u \in Tickers : redis'.ticker = <<u>> => Coherent(u)
                 /\ \A m \in Nat : redis'.book = <<m>> => m <= depth
      BY <1>0, <3>3 DEF Quotes, Caches
    <3>4. ASSUME NEW n \in 0..depth, redis' = [redis EXCEPT !.book = <<n>>]
          PROVE  /\ redis' \in Caches
                 /\ \A u \in Tickers : redis'.ticker = <<u>> => Coherent(u)
                 /\ \A m \in Nat : redis'.book = <<m>> => m <= depth
      BY <1>0, <3>4 DEF Quotes, Caches
    <3>5. CASE Dispatch
      <4>1. Head(bus) = bus[1] /\ EventOK(bus[1], depth) /\ depth \in Nat
        BY <3>5, TailIs DEF Dispatch, Base, TypeOK, MarketTypes
      <4>2. CASE Head(bus).type = "TickerUpdated" /\ SetTicker(Head(bus).payload)
        BY <3>1, <3>3, <4>1, <4>2 DEF SetTicker, EventOK
      <4>3. CASE Head(bus).type = "OrderBookUpdated" /\ SetOrderBook(Head(bus).payload)
        BY <3>1, <3>4, <4>1, <4>3 DEF SetOrderBook, EventOK
      <4> QED BY <3>1, <3>5, <4>2, <4>3 DEF Dispatch
    <3> QED BY <1>3, <3>2, <3>5 DEF Expire
  <2> QED BY <1>0, <1>a, <2>1, <2>2 DEF Quotes
<1>4. CASE Rest \/ UNCHANGED vars
  <2>1. UNCHANGED <<ticker, loaded, sim, deal, mpc, redis>> /\ SimTicker' = SimTicker
    BY <1>4 DEF Rest, repoVars, matcherVars, simVars, vars, SimTicker
  <2> QED BY <1>0, <1>a, <2>1 DEF Quotes
<1> QED BY <1>1, <1>2, <1>3, <1>4 DEF Next

\* What a step does to the bus: what it adds, what it handles.
BusMove ==
  \/ /\ UNCHANGED bus
     /\ lost => lost'
  \/ /\ \/ Appended(bus, bus', TickerUpdated(loaded)) /\ PublishTicker
        \/ Appended(bus, bus', TradeExecuted(deal)) /\ PublishTrade
        \/ Appended(bus, bus', OrderBookUpdated(depth)) /\ PublishBook
        \/ Appended(bus, bus', TickerUpdated(SimTicker)) /\ PublishEmitted
     /\ UNCHANGED lost
  \/ Dropped(bus, bus') /\ Dispatch

LEMMA BusStep ==
  ASSUME Base, [Next]_vars
  PROVE  /\ bus' \in Seq(Events) /\ Len(bus') <= BusCap
         /\ \A i \in 1..Len(bus') : EventOK(bus'[i], depth')
         /\ BusMove
<1>0. /\ bus \in Seq(Events) /\ Len(bus) <= BusCap /\ BusCap \in Nat /\ depth \in Nat
      /\ \A i \in 1..Len(bus) : EventOK(bus[i], depth)
  BY CapAssumption DEF Base, TypeOK, MarketTypes
<1>1. ASSUME NEW e \in Events, EventOK(e, depth), Publish(e), depth' = depth,
             Appended(bus, bus', e) /\ lost' = lost => BusMove
      PROVE  /\ bus' \in Seq(Events) /\ Len(bus') <= BusCap
             /\ \A i \in 1..Len(bus') : EventOK(bus'[i], depth')
             /\ BusMove
  <2>1. /\ bus' \in Seq(Events) /\ Len(bus') <= BusCap
        /\ \A i \in 1..Len(bus') : EventOK(bus'[i], depth)
        /\ \/ Appended(bus, bus', e) /\ lost' = lost
           \/ bus' = bus /\ lost' = TRUE
    BY <1>1, PublishIs
  <2> QED BY <1>1, <2>1 DEF BusMove
<1>2. CASE PublishTicker
  <2>1. TickerUpdated(loaded) \in Events /\ EventOK(TickerUpdated(loaded), depth)
    BY DEF TickerUpdated, Events, EventOK, Base, TypeOK, AllCoherent
  <2>2. Publish(TickerUpdated(loaded)) /\ depth' = depth
    BY <1>2 DEF PublishTicker
  <2>3. Appended(bus, bus', TickerUpdated(loaded)) /\ lost' = lost => BusMove
    BY <1>2 DEF BusMove
  <2> QED BY <1>1, <2>1, <2>2, <2>3
<1>3. CASE PublishTrade
  <2>1. deal \in Deals
    BY <1>3 DEF PublishTrade, Base, MarketTypes
  <2>2. TradeExecuted(deal) \in Events /\ EventOK(TradeExecuted(deal), depth)
    BY <2>1 DEF TradeExecuted, Events, EventOK
  <2>3. Publish(TradeExecuted(deal)) /\ depth' = depth
    BY <1>3 DEF PublishTrade
  <2>4. Appended(bus, bus', TradeExecuted(deal)) /\ lost' = lost => BusMove
    BY <1>3 DEF BusMove
  <2> QED BY <1>1, <2>2, <2>3, <2>4
<1>4. CASE PublishBook
  <2>1. OrderBookUpdated(depth) \in Events /\ EventOK(OrderBookUpdated(depth), depth)
    BY <1>0 DEF OrderBookUpdated, Events, EventOK
  <2>2. Publish(OrderBookUpdated(depth)) /\ depth' = depth
    BY <1>4 DEF PublishBook
  <2>3. Appended(bus, bus', OrderBookUpdated(depth)) /\ lost' = lost => BusMove
    BY <1>4 DEF BusMove
  <2> QED BY <1>1, <2>1, <2>2, <2>3
<1>5. CASE PublishEmitted
  <2>1. TickerUpdated(SimTicker) \in Events /\ EventOK(TickerUpdated(SimTicker), depth)
    BY SimTickerIs DEF TickerUpdated, Events, EventOK, Base, MarketTypes, AllCoherent
  <2>2. Publish(TickerUpdated(SimTicker)) /\ depth' = depth
    BY <1>5 DEF PublishEmitted, matcherVars
  <2>3. Appended(bus, bus', TickerUpdated(SimTicker)) /\ lost' = lost => BusMove
    BY <1>5 DEF BusMove
  <2> QED BY <1>1, <2>1, <2>2, <2>3
<1>6. CASE Dispatch
  <2>1. bus # <<>> /\ bus' = Tail(bus) /\ depth' = depth
    BY <1>6 DEF Dispatch, matcherVars
  <2>2. bus' \in Seq(Events) /\ Dropped(bus, bus')
    BY <1>0, <2>1, TailIs
  <2>3. Len(bus') <= BusCap /\ \A i \in 1..Len(bus') : bus'[i] = bus[i + 1] /\ i + 1 \in 1..Len(bus)
    BY <1>0, <2>2 DEF Dropped
  <2>4. \A i \in 1..Len(bus') : EventOK(bus'[i], depth')
    BY <1>0, <2>1, <2>3
  <2> QED BY <1>6, <2>2, <2>3, <2>4 DEF BusMove
<1>7. CASE ~(PublishTicker \/ PublishTrade \/ PublishBook \/ PublishEmitted \/ Dispatch)
  <2>1. bus' = bus /\ lost' \in {lost, lost \/ ~registered}
    BY Zenon, <1>7 DEF Next, MatcherStep, Receive, LoadTicker, StoreTicker, StoreBook, SimStep,
       InitStock, Subscribe, TakeTrade, Tick, LookupEntry, StoreEmitted, Cancelled, Unsubscribe,
       Expire, Rest, vars
  <2>2. lost => lost'
    BY Zenon, <2>1
  <2>3. depth <= depth' /\ depth' \in Nat
    BY CountersStep, CapAssumption DEF Counters
  <2>4. \A i \in 1..Len(bus') : EventOK(bus'[i], depth')
    <3>1. 0..depth \subseteq 0..depth'
      BY <1>0, <2>3
    <3>2. \A e : EventOK(e, depth) => EventOK(e, depth')
      BY Zenon, <3>1 DEF EventOK
    <3> QED BY <1>0, <2>1, <3>2
  <2> QED BY <1>0, <2>1, <2>2, <2>4 DEF BusMove
<1> QED BY <1>2, <1>3, <1>4, <1>5, <1>6, <1>7

\* The simulator's channel and the trades made.
LEMMA TradesStep ==
  ASSUME Base, [Next]_vars
  PROVE  /\ tradeCh' \in Seq(Deals) /\ Len(tradeCh') <= TradeChanCap
         /\ done' \in Seq(Deals) /\ Len(done') <= MaxTrades
<1>0. /\ tradeCh \in Seq(Deals) /\ Len(tradeCh) <= TradeChanCap /\ TradeChanCap \in Nat
      /\ done \in Seq(Deals) /\ Len(done) <= MaxTrades /\ MaxTrades \in Nat
  BY CapAssumption DEF Base, TypeOK, MarketTypes
<1>1. ASSUME NEW p \in TradePrices, NEW q \in TradeQtys, LoadTicker(p, q)
      PROVE  /\ tradeCh' = tradeCh
             /\ done' \in Seq(Deals) /\ Len(done') <= MaxTrades
  <2>1. /\ deal' \in Deals /\ done' = Append(done, deal') /\ Len(done) < MaxTrades
        /\ tradeCh' = tradeCh
    BY <1>1, DealIs DEF LoadTicker, simVars
  <2> QED BY <1>0, <2>1
<1>2. CASE TakeTrade
  <2>1. done' = done /\ tradeCh # <<>> /\ tradeCh' = Tail(tradeCh)
    BY <1>2 DEF TakeTrade, matcherVars
  <2> QED BY <1>0, <2>1
<1>3. CASE Dispatch
  <2>1. done' = done
    BY <1>3 DEF Dispatch, matcherVars
  <2>2. CASE tradeCh' = tradeCh
    BY <1>0, <2>1, <2>2
  <2>3. CASE tradeCh' # tradeCh
    <3>1. Head(bus).type = "TradeExecuted" /\ ForwardTrade(Head(bus).payload)
      BY <1>3, <2>3 DEF Dispatch
    <3>2. Head(bus).payload \in Deals
      <4>1. Head(bus) = bus[1] /\ EventOK(bus[1], depth)
        BY <1>3, TailIs DEF Dispatch, Base, MarketTypes
      <4> QED BY <3>1, <4>1 DEF EventOK
    <3>3. Len(tradeCh) < TradeChanCap /\ tradeCh' = Append(tradeCh, Head(bus).payload)
      BY <2>3, <3>1 DEF ForwardTrade
    <3> QED BY <1>0, <2>1, <3>2, <3>3
  <2> QED BY <2>2, <2>3
<1>4. CASE ~(MatcherStep /\ done' # done) /\ ~TakeTrade /\ ~Dispatch
  <2>1. done' = done /\ tradeCh' = tradeCh
    BY <1>4 DEF Next, MatcherStep, Receive, LoadTicker, StoreTicker, PublishTicker, PublishTrade,
       StoreBook, PublishBook, SimStep, InitStock, Subscribe, Tick, LookupEntry, StoreEmitted,
       PublishEmitted, Cancelled, Unsubscribe, Expire, Rest, vars, simVars, matcherVars
  <2> QED BY <1>0, <2>1
<1>5. CASE MatcherStep /\ done' # done
  <2>1. \E p \in TradePrices, q \in TradeQtys : LoadTicker(p, q)
    BY <1>5 DEF MatcherStep, Receive, StoreTicker, PublishTicker, PublishTrade,
       StoreBook, PublishBook
  <2> QED BY <1>0, <1>1, <2>1
<1> QED BY <1>2, <1>3, <1>4, <1>5

LEMMA OptionalIs ==
  ASSUME NEW S, NEW s, s = <<>> \/ \E t \in S : s = <<t>>
  PROVE  IsOptional(s, S)
<1>1. ASSUME NEW t \in S, s = <<t>> PROVE Len(s) = 1 /\ s[1] \in S
  BY <1>1
<1> QED BY <1>1 DEF IsOptional

\* Types and coherence are inductive.
LEMMA BaseStep == Base /\ [Next]_vars => Base'
<1> SUFFICES ASSUME Base, [Next]_vars PROVE Base'
  OBVIOUS
<1>1. Flags' /\ Counters' /\ Quotes'
  BY FlagsStep, CountersStep, QuotesStep
<1>2. /\ bus' \in Seq(Events) /\ Len(bus') <= BusCap
      /\ \A i \in 1..Len(bus') : EventOK(bus'[i], depth')
  BY BusStep
<1>3. /\ tradeCh' \in Seq(Deals) /\ Len(tradeCh') <= TradeChanCap
      /\ done' \in Seq(Deals) /\ Len(done') <= MaxTrades
  BY TradesStep
<1>4. MarketTypes' /\ OneSnapshotEach' /\ AllCoherent'
  BY <1>1, <1>2, <1>3 DEF MarketTypes, AllCoherent, Counters, Quotes
<1>5. IsOptional(redis'.ticker, Tickers) /\ IsOptional(redis'.book, 0..depth')
  <2>1. redis' \in Caches /\ (\A n \in Nat : redis'.book = <<n>> => n <= depth') /\ depth' \in Nat
    BY <1>1, CapAssumption DEF Quotes, Counters
  <2>2. redis'.ticker = <<>> \/ \E t \in Tickers : redis'.ticker = <<t>>
    BY <2>1 DEF Caches
  <2>3. redis'.book = <<>> \/ \E n \in 0..depth' : redis'.book = <<n>>
    BY <2>1 DEF Caches
  <2>4. IsOptional(redis'.ticker, Tickers)
    BY <2>2, OptionalIs
  <2>5. IsOptional(redis'.book, 0..depth')
    BY <2>3, OptionalIs
  <2> QED BY <2>4, <2>5
<1>6. TypeOK'
  BY <1>1, <1>2, <1>3, <1>5 DEF TypeOK, Flags, Counters, Quotes
<1> QED BY <1>4, <1>6 DEF Base

-----------------------------------------------------------------------------
(***************************************************************************)
(* The order book catches up.                                              *)
(***************************************************************************)
LEMMA BookStep == Base /\ BookSettles /\ [Next]_vars => BookSettles'
<1> SUFFICES ASSUME Base, BookSettles, [Next]_vars, ~lost' PROVE BookSettles'
  BY DEF BookSettles
<1> DEFINE Cached == /\ \/ mpc = "pubBook"
                        \/ LastIs(bus, OrderBookUpdated(depth))
                        \/ NoneOf(bus, "OrderBookUpdated") /\ redis.book \in {<<>>, <<depth>>}
<1>0. BusMove /\ lost \in BOOLEAN /\ lost' \in BOOLEAN /\ depth \in Nat
  BY BusStep, FlagsStep DEF Base, TypeOK, Flags
<1>1. ASSUME ~lost PROVE stored = depth /\ Cached
  BY <1>1 DEF BookSettles
<1>2. CASE StoreBook
  <2>1. ~lost /\ registered
    BY Zenon, <1>2 DEF StoreBook
  <2>2. mpc' = "pubBook" /\ stored' = depth'
    BY <1>2, <2>1 DEF StoreBook
  <2> QED BY <2>2 DEF BookSettles
<1>3. CASE PublishBook
  <2>1. UNCHANGED <<depth, stored, redis>> /\ Publish(OrderBookUpdated(depth))
    BY <1>3 DEF PublishBook
  <2>2. ~lost /\ bus' = Append(bus, OrderBookUpdated(depth))
    BY <2>1, PublishKept
  <2>3. OrderBookUpdated(depth) \in Events /\ bus \in Seq(Events)
    BY <1>0 DEF OrderBookUpdated, Events, Base, MarketTypes
  <2>4. LastIs(bus', OrderBookUpdated(depth))
    BY <2>2, <2>3, AppendIs, LastAppended
  <2> QED BY <1>1, <2>1, <2>2, <2>4 DEF BookSettles
<1>4. CASE PublishTicker \/ PublishTrade \/ PublishEmitted
  <2>1. UNCHANGED <<depth, stored, redis>> /\ (mpc = "pubBook" => mpc' = "pubBook")
    BY <1>4 DEF PublishTicker, PublishTrade, PublishEmitted, matcherVars
  <2>2. ~lost /\ \E e \in Events : e.type # "OrderBookUpdated" /\ bus' = Append(bus, e)
    <3>1. CASE PublishTicker
      <4>1. Publish(TickerUpdated(loaded)) /\ TickerUpdated(loaded) \in Events
        BY <3>1 DEF PublishTicker, TickerUpdated, Events, Base, TypeOK
      <4>2. TickerUpdated(loaded).type # "OrderBookUpdated"
        BY DEF TickerUpdated
      <4> QED BY <4>1, <4>2, PublishKept
    <3>2. CASE PublishTrade
      <4>1. Publish(TradeExecuted(deal)) /\ TradeExecuted(deal) \in Events
        BY <3>2 DEF PublishTrade, TradeExecuted, Events, Base, MarketTypes
      <4>2. TradeExecuted(deal).type # "OrderBookUpdated"
        BY DEF TradeExecuted
      <4> QED BY <4>1, <4>2, PublishKept
    <3>3. CASE PublishEmitted
      <4>1. Publish(TickerUpdated(SimTicker)) /\ TickerUpdated(SimTicker) \in Events
        BY <3>3, SimTickerIs DEF PublishEmitted, TickerUpdated, Events, Base, MarketTypes
      <4>2. TickerUpdated(SimTicker).type # "OrderBookUpdated"
        BY DEF TickerUpdated
      <4> QED BY <4>1, <4>2, PublishKept
    <3> QED BY <1>4, <3>1, <3>2, <3>3
  <2>3. PICK e \in Events : e.type # "OrderBookUpdated" /\ Appended(bus, bus', e)
    BY <2>2, AppendIs DEF Base, MarketTypes
  <2>4. OrderBookUpdated(depth).type = "OrderBookUpdated"
    BY DEF OrderBookUpdated
  <2>5. /\ LastIs(bus, OrderBookUpdated(depth)) => LastIs(bus', OrderBookUpdated(depth))
        /\ NoneOf(bus, "OrderBookUpdated") => NoneOf(bus', "OrderBookUpdated")
    BY <2>3, <2>4, OthersAppended
  <2> QED BY <1>1, <2>1, <2>2, <2>5 DEF BookSettles
<1>5. CASE Dispatch
  <2>1. UNCHANGED <<depth, stored, mpc>> /\ bus' = Tail(bus) /\ bus # <<>>
    BY <1>5 DEF Dispatch, matcherVars
  <2>2. Dropped(bus, bus') /\ Head(bus) = bus[1]
    BY <2>1, TailIs DEF Base, MarketTypes
  <2>3. /\ LastIs(bus, OrderBookUpdated(depth)) =>
             \/ LastIs(bus', OrderBookUpdated(depth))
             \/ bus[1] = OrderBookUpdated(depth) /\ NoneOf(bus', OrderBookUpdated(depth).type)
        /\ NoneOf(bus, "OrderBookUpdated") =>
             NoneOf(bus', "OrderBookUpdated") /\ bus[1].type # "OrderBookUpdated"
    BY <2>2, LastDropped
  <2>4. /\ OrderBookUpdated(depth).type = "OrderBookUpdated"
        /\ OrderBookUpdated(depth).payload = depth
    BY DEF OrderBookUpdated
  <2>5. ~lost
    BY Zenon, <1>5 DEF Dispatch, SetTicker, SetOrderBook, ForwardTrade
  <2>6. CASE bus[1].type = "OrderBookUpdated"
    <3>1. redis' = [redis EXCEPT !.book = <<bus[1].payload>>]
      BY <1>5, <2>2, <2>6 DEF Dispatch, SetOrderBook
    <3>2. redis'.book = <<bus[1].payload>>
      BY <3>1 DEF Base, MarketTypes, Caches
    <3> QED BY <1>1, <2>1, <2>3, <2>4, <2>5, <2>6, <3>2 DEF BookSettles
  <2>7. CASE bus[1].type # "OrderBookUpdated"
    <3>1. redis' = redis \/ \E t : redis' = [redis EXCEPT !.ticker = <<t>>]
      BY <1>5, <2>2, <2>7 DEF Dispatch, SetTicker
    <3>2. redis'.book = redis.book
      BY <3>1 DEF Base, MarketTypes, Caches
    <3> QED BY <1>1, <2>1, <2>3, <2>4, <2>5, <2>7, <3>2 DEF BookSettles
  <2> QED BY <2>6, <2>7
<1>6. CASE Expire
  <2>1. UNCHANGED <<depth, stored, mpc, bus, lost>>
    BY <1>6 DEF Expire, matcherVars
  <2>2. redis'.book \in {<<>>, redis.book}
    BY <1>6 DEF Expire, Base, MarketTypes, Caches
  <2> QED BY <1>1, <2>1, <2>2 DEF BookSettles
<1>7. CASE ~(StoreBook \/ PublishBook \/ PublishTicker \/ PublishTrade \/ PublishEmitted
             \/ Dispatch \/ Expire)
  <2>1. /\ UNCHANGED <<depth, stored, bus, redis, lost>>
        /\ mpc = "pubBook" => mpc' = "pubBook"
    BY <1>7 DEF Next, MatcherStep, Receive, LoadTicker, StoreTicker, SimStep, InitStock,
       Subscribe, TakeTrade, Tick, LookupEntry, StoreEmitted, Cancelled, Unsubscribe,
       Rest, vars, matcherVars
  <2> QED BY <1>1, <2>1 DEF BookSettles
<1> QED BY <1>2, <1>3, <1>4, <1>5, <1>6, <1>7

-----------------------------------------------------------------------------
(***************************************************************************)
(* The simulator has the last word.                                        *)
(***************************************************************************)
LEMMA SessionStep == Base /\ SessionSettles /\ [Next]_vars => SessionSettles'
<1> DEFINE Cached == \/ spc = "publish"
                     \/ LastIs(bus, TickerUpdated(SimTicker))
                     \/ NoneOf(bus, "TickerUpdated") /\ redis.ticker \in {<<>>, <<SimTicker>>}
<1> SUFFICES ASSUME Base, SessionSettles, [Next]_vars,
                    ~lost', ~Unsettled', ticks' > 0 \/ done' # <<>>
             PROVE  ticker' = SimTicker' /\ Cached'
  BY DEF SessionSettles
<1>a. /\ mpc' \notin {"store", "pubTicker", "pubTrade"} /\ NoneOf(bus', "TradeExecuted")
      /\ tradeCh' = <<>> /\ spc' \notin {"lookup", "emit"}
  BY DEF Unsettled
<1>b. TickerUpdated(SimTicker).type = "TickerUpdated"
  BY DEF TickerUpdated
<1>1. ASSUME ~lost, ~Unsettled, ticks > 0 \/ done # <<>> PROVE ticker = SimTicker /\ Cached
  BY <1>1 DEF SessionSettles
<1> HIDE DEF Cached
<1>2. CASE \/ \E p \in TradePrices, q \in TradeQtys : LoadTicker(p, q)
           \/ StoreTicker \/ PublishTicker \/ TakeTrade \/ Tick \/ LookupEntry
  <2>1. mpc' \in {"store", "pubTicker", "pubTrade"} \/ spc' \in {"lookup", "emit"}
    BY <1>2 DEF LoadTicker, StoreTicker, PublishTicker, TakeTrade, Tick, LookupEntry
  <2> QED BY <1>a, <2>1
<1>3. CASE PublishTrade
  <2>1. Publish(TradeExecuted(deal)) /\ TradeExecuted(deal) \in Events /\ bus \in Seq(Events)
    BY <1>3 DEF PublishTrade, TradeExecuted, Events, Base, MarketTypes
  <2>2. Appended(bus, bus', TradeExecuted(deal))
    BY <2>1, PublishKept, AppendIs
  <2>3. TradeExecuted(deal).type = "TradeExecuted"
    BY DEF TradeExecuted
  <2> QED BY <1>a, <2>2, <2>3, LastAppended
<1>4. CASE StoreEmitted
  <2>1. ticker' = SimTicker /\ SimTicker' = SimTicker /\ spc' = "publish"
    BY <1>4 DEF StoreEmitted, SimTicker
  <2> QED BY <2>1 DEF Cached
<1>5. CASE PublishEmitted
  <2>1. /\ UNCHANGED <<ticker, mpc, tradeCh, ticks, done>> /\ SimTicker' = SimTicker
        /\ Publish(TickerUpdated(SimTicker)) /\ spc = "publish"
    BY <1>5 DEF PublishEmitted, repoVars, matcherVars, SimTicker
  <2>2. ~lost /\ Appended(bus, bus', TickerUpdated(SimTicker))
    <3>1. TickerUpdated(SimTicker) \in Events /\ bus \in Seq(Events)
      BY SimTickerIs DEF TickerUpdated, Events, Base, MarketTypes
    <3> QED BY <2>1, <3>1, PublishKept, AppendIs
  <2>3. NoneOf(bus, "TradeExecuted")
    BY <1>a, <1>b, <2>2, OthersAppended
  <2>4. ~Unsettled
    BY <1>a, <2>1, <2>3 DEF Unsettled
  <2>5. LastIs(bus', TickerUpdated(SimTicker))
    BY <2>2, LastAppended
  <2> QED BY <1>1, <2>1, <2>2, <2>4, <2>5 DEF Cached
<1>6. CASE PublishBook
  <2>1. /\ UNCHANGED <<ticker, spc, tradeCh, ticks, done, redis>> /\ SimTicker' = SimTicker
        /\ Publish(OrderBookUpdated(depth)) /\ mpc = "pubBook"
    BY <1>6 DEF PublishBook, repoVars, simVars, SimTicker
  <2>2. ~lost /\ Appended(bus, bus', OrderBookUpdated(depth))
    <3>1. OrderBookUpdated(depth) \in Events /\ bus \in Seq(Events)
      BY CapAssumption DEF OrderBookUpdated, Events, Base, TypeOK, MarketTypes
    <3> QED BY <2>1, <3>1, PublishKept, AppendIs
  <2>3. OrderBookUpdated(depth).type = "OrderBookUpdated"
    BY DEF OrderBookUpdated
  <2>4. /\ NoneOf(bus, "TradeExecuted")
        /\ LastIs(bus, TickerUpdated(SimTicker)) => LastIs(bus', TickerUpdated(SimTicker))
        /\ NoneOf(bus, "TickerUpdated") => NoneOf(bus', "TickerUpdated")
    BY <1>a, <1>b, <2>2, <2>3, OthersAppended
  <2>5. ~Unsettled
    BY <1>a, <2>1, <2>4 DEF Unsettled
  <2> QED BY <1>1, <2>1, <2>2, <2>4, <2>5 DEF Cached
<1>7. CASE Dispatch
  <2>1. /\ UNCHANGED <<ticker, mpc, spc, ticks, done>> /\ SimTicker' = SimTicker
        /\ bus' = Tail(bus) /\ bus # <<>>
    BY <1>7 DEF Dispatch, repoVars, matcherVars, SimTicker
  <2>2. Dropped(bus, bus') /\ Head(bus) = bus[1]
    BY <2>1, TailIs DEF Base, MarketTypes
  <2>3. ~lost
    BY Zenon, <1>7 DEF Dispatch, SetTicker, SetOrderBook, ForwardTrade
  <2>4. bus[1].type # "TradeExecuted"
    <3>1. ASSUME bus[1].type = "TradeExecuted" PROVE FALSE
      <4>1. ForwardTrade(Head(bus).payload)
        BY <1>7, <2>2, <3>1 DEF Dispatch
      <4>2. tradeCh' = Append(tradeCh, Head(bus).payload)
        BY Zenon, <4>1 DEF ForwardTrade
      <4>3. Head(bus).payload \in Deals /\ tradeCh \in Seq(Deals)
        <5>1. EventOK(bus[1], depth)
          BY <2>1, TailIs DEF Base, MarketTypes
        <5> QED BY <2>2, <3>1, <5>1 DEF EventOK, Base, MarketTypes
      <4> QED BY <1>a, <4>2, <4>3
    <3> QED BY <3>1
  <2>5. tradeCh' = tradeCh
    BY <1>7, <2>2, <2>4 DEF Dispatch
  <2>6. NoneOf(bus, "TradeExecuted")
    BY <1>a, <2>2, <2>4, LastDropped
  <2>7. ~Unsettled
    BY <1>a, <2>1, <2>5, <2>6 DEF Unsettled
  <2>8. /\ LastIs(bus, TickerUpdated(SimTicker)) =>
             \/ LastIs(bus', TickerUpdated(SimTicker))
             \/ bus[1] = TickerUpdated(SimTicker) /\ NoneOf(bus', TickerUpdated(SimTicker).type)
        /\ NoneOf(bus, "TickerUpdated") =>
             NoneOf(bus', "TickerUpdated") /\ bus[1].type # "TickerUpdated"
    BY <2>2, LastDropped
  <2>9. ticker = SimTicker /\ Cached
    BY <1>1, <2>1, <2>3, <2>7
  <2>10. CASE bus[1].type = "TickerUpdated"
    <3>1. redis' = [redis EXCEPT !.ticker = <<bus[1].payload>>]
      BY <1>7, <2>2, <2>10 DEF Dispatch, SetTicker
    <3>2. redis'.ticker = <<bus[1].payload>>
      BY <3>1 DEF Base, MarketTypes, Caches
    <3>3. TickerUpdated(SimTicker).payload = SimTicker
      BY DEF TickerUpdated
    <3> QED BY <1>b, <2>1, <2>8, <2>9, <2>10, <3>2, <3>3 DEF Cached
  <2>11. CASE bus[1].type # "TickerUpdated"
    <3>1. redis' = redis \/ \E n : redis' = [redis EXCEPT !.book = <<n>>]
      BY <1>7, <2>2, <2>11 DEF Dispatch, SetOrderBook
    <3>2. redis'.ticker = redis.ticker
      BY <3>1 DEF Base, MarketTypes, Caches
    <3> QED BY <1>b, <2>1, <2>8, <2>9, <2>11, <3>2 DEF Cached
  <2> QED BY <2>10, <2>11
<1>8. CASE Expire
  <2>1. UNCHANGED <<ticker, mpc, spc, tradeCh, ticks, done, bus, lost>> /\ SimTicker' = SimTicker
    BY <1>8 DEF Expire, repoVars, matcherVars, simVars, SimTicker
  <2>2. redis'.ticker \in {<<>>, redis.ticker}
    BY <1>8 DEF Expire, Base, MarketTypes, Caches
  <2>3. ~Unsettled
    BY <1>a, <2>1 DEF Unsettled
  <2> QED BY <1>1, <2>1, <2>2, <2>3 DEF Cached
<1>9. CASE Receive \/ StoreBook \/ InitStock \/ Subscribe \/ Cancelled \/ Unsubscribe \/ Rest
           \/ UNCHANGED vars
  <2>1. /\ UNCHANGED <<ticker, tradeCh, ticks, done, bus, redis>> /\ SimTicker' = SimTicker
        /\ mpc \in {"store", "pubTicker", "pubTrade"} => mpc' = mpc
        /\ spc' # spc => spc \notin {"lookup", "emit", "publish"}
    BY <1>9 DEF Receive, StoreBook, InitStock, Subscribe, Cancelled, Unsubscribe, Rest, vars,
       repoVars, matcherVars, simVars, SimTicker
  <2>2. lost' \in {lost, lost \/ ~registered}
    BY Zenon, <1>9 DEF Receive, StoreBook, InitStock, Subscribe, Cancelled, Unsubscribe, Rest, vars
  <2>3. ~lost
    BY Zenon, <2>2
  <2>4. ~Unsettled
    BY <1>a, <2>1 DEF Unsettled
  <2> QED BY <1>1, <2>1, <2>3, <2>4 DEF Cached
<1> QED BY <1>2, <1>3, <1>4, <1>5, <1>6, <1>7, <1>8, <1>9 DEF Next, MatcherStep, SimStep

-----------------------------------------------------------------------------
(***************************************************************************)
(* No volume is lost.                                                      *)
(***************************************************************************)
\* A queue of trades that grows, or loses its first one.
LEMMA QtysAppended ==
  ASSUME NEW q \in Seq(Deals), NEW d \in Deals, NEW v \in Int, Sums(Qtys(q), Len(q), v)
  PROVE  Sums(Qtys(Append(q, d)), Len(Append(q, d)), v + d.qty)
<1> DEFINE r == Append(q, d)
           n == Len(q)
<1>1. Appended(q, r, d)
  BY AppendIs
<1> HIDE DEF r
<1>2. n \in Nat /\ Len(r) = n + 1 /\ d.qty \in Int
  BY <1>1 DEF Appended, Deals
<1>3. (\A i \in 1..n : Qtys(r)[i] = Qtys(q)[i]) /\ Qtys(r)[n + 1] = d.qty
  BY <1>1, <1>2 DEF Appended, Qtys
<1>4. Sums(Qtys(r), n + 1, v + d.qty)
  BY <1>2, <1>3, SumsAppend
<1> QED BY <1>2, <1>4 DEF r

LEMMA QtysDropped ==
  ASSUME NEW q \in Seq(Deals), q # <<>>, NEW v \in Int, Sums(Qtys(q), Len(q), v)
  PROVE  Head(q) \in Deals /\ Sums(Qtys(Tail(q)), Len(Tail(q)), v - Head(q).qty)
<1> DEFINE r == Tail(q)
           n == Len(q)
<1>1. Dropped(q, r) /\ Head(q) = q[1] /\ q[1] \in Deals
  BY TailIs
<1> HIDE DEF r
<1>2. n \in Nat /\ n # 0 /\ Len(r) = n - 1
  BY <1>1 DEF Dropped
<1>3. \A i \in 1..n : Qtys(q)[i] = q[i].qty /\ Qtys(q)[i] \in Int
  <2>1. \A i \in 1..n : q[i] \in Deals
    OBVIOUS
  <2> QED BY <2>1 DEF Qtys, Deals
<1>4. \A i \in 1..n - 1 : Qtys(r)[i] = Qtys(q)[i + 1]
  BY <1>1, <1>2 DEF Dropped, Qtys
<1>5. Sums(Qtys(r), n - 1, v - Qtys(q)[1])
  BY <1>2, <1>3, <1>4, SumsDrop
<1>6. Qtys(q)[1] = Head(q).qty
  BY <1>1, <1>2, <1>3
<1> QED BY <1>1, <1>2, <1>5, <1>6 DEF r

\* The same for the events on the bus.
LEMMA EventQtyIs ==
  ASSUME NEW e, NEW n, EventOK(e, n)
  PROVE  EventQty(e) \in Int
BY DEF EventOK, EventQty, Deals

LEMMA EventsAppended ==
  ASSUME NEW q, NEW r, NEW e, Appended(q, r, e), EventQty(e) \in Int,
         NEW v \in Int, Sums(EventQtys(q), Len(q), v)
  PROVE  Sums(EventQtys(r), Len(r), v + EventQty(e))
<1> DEFINE n == Len(q)
<1>2. n \in Nat /\ Len(r) = n + 1
  BY DEF Appended
<1>3. (\A i \in 1..n : EventQtys(r)[i] = EventQtys(q)[i]) /\ EventQtys(r)[n + 1] = EventQty(e)
  BY <1>2 DEF Appended, EventQtys
<1>4. Sums(EventQtys(r), n + 1, v + EventQty(e))
  BY <1>2, <1>3, SumsAppend
<1> QED BY <1>2, <1>4

LEMMA EventsDropped ==
  ASSUME NEW q, NEW r, Dropped(q, r), \A i \in 1..Len(q) : EventQty(q[i]) \in Int,
         NEW v \in Int, Sums(EventQtys(q), Len(q), v)
  PROVE  Sums(EventQtys(r), Len(r), v - EventQty(q[1]))
<1> DEFINE n == Len(q)
<1>2. n \in Nat /\ n # 0 /\ Len(r) = n - 1
  BY DEF Dropped
<1>3. \A i \in 1..n : EventQtys(q)[i] = EventQty(q[i]) /\ EventQtys(q)[i] \in Int
  BY DEF EventQtys
<1>4. \A i \in 1..n - 1 : EventQtys(r)[i] = EventQtys(q)[i + 1]
  BY <1>2 DEF Dropped, EventQtys
<1>5. Sums(EventQtys(r), n - 1, v - EventQtys(q)[1])
  BY <1>2, <1>3, <1>4, SumsDrop
<1>6. EventQtys(q)[1] = EventQty(q[1])
  BY <1>2, <1>3
<1> QED BY <1>2, <1>5, <1>6

LEMMA VolumeStep == Base /\ VolumeCounted /\ [Next]_vars => VolumeCounted'
<1> SUFFICES ASSUME Base, VolumeCounted, [Next]_vars PROVE VolumeCounted'
  OBVIOUS
<1> DEFINE DealSum(q, v)  == Sums(Qtys(q), Len(q), v)
           EventSum(q, v) == Sums(EventQtys(q), Len(q), v)
<1>0. PICK a \in Int, b \in Int, t \in Int :
        /\ DealSum(tradeCh, a) /\ EventSum(bus, b) /\ DealSum(done, t)
        /\ ~lost => t <= sim.volume + a + b + Held
  BY DEF VolumeCounted
<1>a. /\ sim \in Sims /\ sim.volume \in Nat /\ tradeCh \in Seq(Deals) /\ done \in Seq(Deals)
      /\ bus \in Seq(Events) /\ \A i \in 1..Len(bus) : EventQty(bus[i]) \in Int
  BY EventQtyIs DEF Base, MarketTypes, Sims
<1>b. Held \in Int
  BY DEF Base, MarketTypes, Deals, Held
<1>c. ASSUME NEW x \in Int, NEW y \in Int, NEW z \in Int,
             DealSum(tradeCh', x), EventSum(bus', y), DealSum(done', z),
             ~lost' => z <= sim'.volume + x + y + Held'
      PROVE  VolumeCounted'
  BY <1>c DEF VolumeCounted
<1>d. /\ UNCHANGED tradeCh => DealSum(tradeCh', a)
      /\ UNCHANGED bus => EventSum(bus', b)
      /\ UNCHANGED done => DealSum(done', t)
  BY <1>0
<1>e. (~lost => t <= sim.volume + a + b + Held) /\ sim.volume \in Nat
  BY <1>0, <1>a
<1>f. tradeCh \in Seq(Deals) /\ done \in Seq(Deals)
  BY <1>a
<1> HIDE DEF DealSum, EventSum
<1>1. ASSUME NEW p \in TradePrices, NEW q \in TradeQtys, LoadTicker(p, q)
      PROVE  VolumeCounted'
  <2>1. /\ UNCHANGED <<tradeCh, bus, sim, lost>> /\ done' = Append(done, deal')
        /\ deal' \in Deals /\ deal'.qty \in Nat
        /\ mpc = "match" /\ mpc' \in {"store", "pubTrade"}
    BY <1>1, DealIs DEF LoadTicker, simVars, Deals
  <2>2. DealSum(done', t + deal'.qty)
    BY <1>0, <1>a, <2>1, QtysAppended DEF DealSum
  <2>3. Held = 0 /\ Held' = deal'.qty
    BY <2>1 DEF Held
  <2>4. DealSum(tradeCh', a) /\ EventSum(bus', b)
    BY <1>d, <2>1
  <2>5. ~lost' => t + deal'.qty <= sim'.volume + a + b + Held'
    BY <1>e, <2>1, <2>3
  <2>6. t + deal'.qty \in Int
    BY <2>1
  <2> QED BY <1>c, <2>2, <2>4, <2>5, <2>6
<1>2. CASE TakeTrade
  <2>1. /\ UNCHANGED <<done, bus, mpc, deal, lost>> /\ tradeCh # <<>> /\ tradeCh' = Tail(tradeCh)
        /\ sim' = Moved(Head(tradeCh).price, Head(tradeCh).qty)
    BY <1>2 DEF TakeTrade, matcherVars
  <2>2. Head(tradeCh) \in Deals /\ DealSum(tradeCh', a - Head(tradeCh).qty)
    BY <1>0, <1>a, <2>1, QtysDropped DEF DealSum
  <2>3. Head(tradeCh).price \in Nat /\ Head(tradeCh).qty \in Nat
    BY <2>2 DEF Deals
  <2>4. sim'.volume = sim.volume + Head(tradeCh).qty
    BY <1>a, <2>1, <2>3, MovedCoherent
  <2>5. Held' = Held
    BY <2>1 DEF Held
  <2>6. EventSum(bus', b) /\ DealSum(done', t)
    BY <1>d, <2>1
  <2>7. ~lost' => t <= sim'.volume + (a - Head(tradeCh).qty) + b + Held'
    BY <1>e, <1>b, <2>1, <2>3, <2>4, <2>5
  <2>8. a - Head(tradeCh).qty \in Int
    BY <2>3
  <2> QED BY <1>c, <2>2, <2>6, <2>7, <2>8
<1>3. CASE Tick
  <2>1. UNCHANGED <<done, bus, mpc, deal, lost, tradeCh>>
    BY <1>3 DEF Tick, matcherVars
  <2>2. sim.price \in Nat
    BY <1>a DEF Sims
  <2>3. PICK p \in Nat, v \in Nat : sim' = Moved(p, v)
    BY <1>3, <2>2, NextPricesNat, TradeAssumption DEF Tick
  <2>4. sim'.volume = sim.volume + v
    BY <1>a, <2>3, MovedCoherent
  <2>5. Held' = Held
    BY <2>1 DEF Held
  <2>6. DealSum(tradeCh', a) /\ EventSum(bus', b) /\ DealSum(done', t)
    BY <1>d, <2>1
  <2>7. ~lost' => t <= sim'.volume + a + b + Held'
    BY <1>e, <1>b, <2>1, <2>4, <2>5
  <2> QED BY <1>c, <2>6, <2>7
<1>4. ASSUME NEW e, Publish(e), UNCHANGED <<tradeCh, done, sim>>, EventOK(e, depth), e \in Events,
             Held = Held' + EventQty(e), Held' \in Int
      PROVE  VolumeCounted'
  <2>1. EventQty(e) \in Int
    BY <1>4, EventQtyIs
  <2>2. DealSum(tradeCh', a) /\ DealSum(done', t)
    BY <1>4, <1>d
  <2>3. CASE Appended(bus, bus', e) /\ lost' = lost
    <3>1. EventSum(bus', b + EventQty(e))
      BY <1>0, <2>1, <2>3, EventsAppended DEF EventSum
    <3>2. ~lost' => t <= sim'.volume + a + (b + EventQty(e)) + Held'
      BY <1>e, <1>4, <2>1, <2>3
    <3>3. b + EventQty(e) \in Int
      BY <2>1
    <3> QED BY <1>c, <2>2, <3>1, <3>2, <3>3
  <2>4. CASE bus' = bus /\ lost' = TRUE
    <3>1. EventSum(bus', b)
      BY <1>d, <2>4
    <3> QED BY <1>c, <2>2, <2>4, <3>1
  <2> QED BY <1>4, <2>3, <2>4, PublishIs
<1>5. CASE PublishTicker
  <2>1. /\ Publish(TickerUpdated(loaded)) /\ UNCHANGED <<tradeCh, done, sim, deal>>
        /\ mpc = "pubTicker" /\ mpc' = "pubTrade"
    BY <1>5 DEF PublishTicker, simVars
  <2>2. /\ EventOK(TickerUpdated(loaded), depth) /\ TickerUpdated(loaded) \in Events
        /\ EventQty(TickerUpdated(loaded)) = 0
    BY DEF TickerUpdated, Events, EventOK, EventQty, Base, TypeOK, AllCoherent
  <2>3. Held' = Held
    BY <2>1 DEF Held
  <2> QED BY <1>b, <1>4, <2>1, <2>2, <2>3
<1>6. CASE PublishTrade
  <2>1. /\ Publish(TradeExecuted(deal)) /\ UNCHANGED <<tradeCh, done, sim>> /\ deal \in Deals
        /\ mpc = "pubTrade" /\ mpc' = "match"
    BY <1>6 DEF PublishTrade, simVars, Base, MarketTypes
  <2>2. /\ EventOK(TradeExecuted(deal), depth) /\ TradeExecuted(deal) \in Events
        /\ EventQty(TradeExecuted(deal)) = deal.qty
    BY <2>1 DEF TradeExecuted, Events, EventOK, EventQty
  <2>3. Held' = 0 /\ Held = deal.qty
    BY <2>1 DEF Held
  <2> QED BY <1>b, <1>4, <2>1, <2>2, <2>3
<1>7. CASE PublishBook
  <2>1. /\ Publish(OrderBookUpdated(depth)) /\ UNCHANGED <<tradeCh, done, sim>>
        /\ mpc = "pubBook" /\ mpc' = "idle" /\ depth \in Nat
    BY <1>7, CapAssumption DEF PublishBook, simVars, Base, TypeOK
  <2>2. /\ EventOK(OrderBookUpdated(depth), depth) /\ OrderBookUpdated(depth) \in Events
        /\ EventQty(OrderBookUpdated(depth)) = 0
    BY <2>1 DEF OrderBookUpdated, Events, EventOK, EventQty
  <2>3. Held' = 0 /\ Held = 0
    BY <2>1 DEF Held
  <2> QED BY <1>4, <2>1, <2>2, <2>3
<1>8. CASE PublishEmitted
  <2>1. /\ Publish(TickerUpdated(SimTicker)) /\ UNCHANGED <<tradeCh, done, sim, deal, mpc>>
    BY <1>8 DEF PublishEmitted, matcherVars
  <2>2. /\ EventOK(TickerUpdated(SimTicker), depth) /\ TickerUpdated(SimTicker) \in Events
        /\ EventQty(TickerUpdated(SimTicker)) = 0
    BY SimTickerIs DEF TickerUpdated, Events, EventOK, EventQty, Base, MarketTypes, AllCoherent
  <2>3. Held' = Held
    BY <2>1 DEF Held
  <2> QED BY <1>b, <1>4, <2>1, <2>2, <2>3
<1>9. CASE Dispatch
  <2>1. UNCHANGED <<done, sim, deal, mpc>> /\ bus' = Tail(bus) /\ bus # <<>>
    BY <1>9 DEF Dispatch, matcherVars
  <2>2. /\ Dropped(bus, bus') /\ Head(bus) = bus[1] /\ 1 \in 1..Len(bus)
    BY <1>a, <2>1, TailIs
  <2>3. EventOK(bus[1], depth) /\ EventQty(bus[1]) \in Int
    BY <1>a, <2>2 DEF Base, MarketTypes
  <2>4. EventSum(bus', b - EventQty(bus[1])) /\ DealSum(done', t) /\ b - EventQty(bus[1]) \in Int
    <3>1. EventSum(bus', b - EventQty(bus[1]))
      BY <1>0, <1>a, <2>2, EventsDropped DEF EventSum
    <3> QED BY <1>d, <2>1, <2>3, <3>1
  <2>5. Held' = Held
    BY <2>1 DEF Held
  <2>6. CASE bus[1].type = "TradeExecuted"
    <3>1. ForwardTrade(bus[1].payload)
      BY <1>9, <2>2, <2>6 DEF Dispatch
    <3>2. bus[1].payload \in Deals /\ EventQty(bus[1]) = bus[1].payload.qty
      BY <2>3, <2>6 DEF EventOK, EventQty
    <3>3. CASE tradeCh' = Append(tradeCh, bus[1].payload) /\ lost' = lost
      <4>1. DealSum(tradeCh', a + EventQty(bus[1])) /\ a + EventQty(bus[1]) \in Int
        <5>1. DealSum(Append(tradeCh, bus[1].payload), a + bus[1].payload.qty)
          BY <1>0, <1>f, <3>2, QtysAppended DEF DealSum
        <5> QED BY <2>3, <3>2, <3>3, <5>1
      <4>2. ~lost' => t <= sim'.volume + (a + EventQty(bus[1])) + (b - EventQty(bus[1])) + Held'
        BY <1>e, <1>b, <2>1, <2>3, <2>5, <3>3
      <4> QED BY <1>c, <2>4, <4>1, <4>2
    <3>4. CASE tradeCh' = tradeCh /\ lost' = TRUE
      <4>1. DealSum(tradeCh', a)
        BY <1>d, <3>4
      <4> QED BY <1>c, <2>4, <3>4, <4>1
    <3> QED BY <3>1, <3>3, <3>4 DEF ForwardTrade
  <2>7. CASE bus[1].type # "TradeExecuted"
    <3>1. tradeCh' = tradeCh
      BY <1>9, <2>2, <2>7 DEF Dispatch
    <3>2. ~lost' => ~lost
      BY Zenon, <1>9 DEF Dispatch, SetTicker, SetOrderBook, ForwardTrade
    <3>3. EventQty(bus[1]) = 0
      BY <2>7 DEF EventQty
    <3>4. DealSum(tradeCh', a)
      BY <1>d, <3>1
    <3>5. ~lost' => t <= sim'.volume + a + (b - EventQty(bus[1])) + Held'
      BY <1>e, <1>b, <2>1, <2>5, <3>3, <3>2
    <3> QED BY <1>c, <2>4, <3>4, <3>5
  <2> QED BY <2>6, <2>7
<1>10. CASE \/ Receive \/ StoreTicker \/ StoreBook
            \/ InitStock \/ Subscribe \/ LookupEntry \/ StoreEmitted \/ Cancelled \/ Unsubscribe
            \/ Expire \/ Rest \/ UNCHANGED vars
  <2>1. /\ UNCHANGED <<tradeCh, bus, done, sim, deal>>
        /\ mpc' \in {"store", "pubTicker", "pubTrade"}
             <=> mpc \in {"store", "pubTicker", "pubTrade"}
    BY <1>10 DEF Receive, StoreTicker, StoreBook, InitStock, Subscribe, LookupEntry, StoreEmitted,
       Cancelled, Unsubscribe, Expire, Rest, vars, matcherVars, simVars
  <2>2. lost' \in {lost, lost \/ ~registered}
    BY Zenon, <1>10 DEF Receive, StoreTicker, StoreBook, InitStock, Subscribe, LookupEntry,
       StoreEmitted, Cancelled, Unsubscribe, Expire, Rest, vars
  <2>3. ~lost' => ~lost
    BY Zenon, <2>2
  <2>4. Held' = Held
    BY <2>1 DEF Held
  <2>5. DealSum(tradeCh', a) /\ EventSum(bus', b) /\ DealSum(done', t)
    BY <1>d, <2>1
  <2>6. ~lost' => t <= sim'.volume + a + b + Held'
    BY <1>e, <2>1, <2>3, <2>4
  <2> QED BY <1>c, <2>5, <2>6
<1> QED BY <1>1, <1>2, <1>3, <1>5, <1>6, <1>7, <1>8, <1>9, <1>10 DEF Next, MatcherStep, SimStep

-----------------------------------------------------------------------------
(***************************************************************************)
(* The theorems.                                                           *)
(***************************************************************************)
LEMMA MarketStarts == Init => MarketInv
<1> SUFFICES ASSUME Init PROVE MarketInv
  OBVIOUS
<1>0. BasePrice \in Nat \ {0}
  BY StockAssumption
<1>1. EmptyTicker \in Tickers /\ Coherent(EmptyTicker)
  BY <1>0 DEF EmptyTicker, Tickers, Coherent
<1>2. sim \in Sims
  BY <1>0 DEF Init, Sims
<1>3. Coherent(SimTicker)
  BY <1>0 DEF Init, SimTicker, Coherent
<1>4. TypeOK
  <2>1. /\ Len(done) = 0 /\ Len(tradeCh) = 0 /\ Len(bus) = 0
        /\ redis.ticker = <<>> /\ redis.book = <<>>
    BY DEF Init
  <2>2. /\ locked = (mpc = "store") /\ registered \in BOOLEAN /\ subscribed \in BOOLEAN
        /\ lost \in BOOLEAN
    BY DEF Init
  <2> QED BY <1>1, <2>1, <2>2, CapAssumption DEF Init, TypeOK, IsOptional
<1>5. MarketTypes
  BY <1>2 DEF Init, MarketTypes, Caches
<1>6. OneSnapshotEach /\ AllCoherent
  BY <1>1, <1>3 DEF Init, OneSnapshotEach, AllCoherent
<1>7. BookSettles /\ SessionSettles
  BY DEF Init, BookSettles, SessionSettles, NoneOf
<1>8. VolumeCounted
  <2>1. /\ Len(done) = 0 /\ Len(tradeCh) = 0 /\ Len(bus) = 0
        /\ sim.volume = 0 /\ Held = 0
    BY DEF Init, Held
  <2>2. /\ Sums(Qtys(tradeCh), Len(tradeCh), 0) /\ Sums(EventQtys(bus), Len(bus), 0)
        /\ Sums(Qtys(done), Len(done), 0)
    BY <2>1, SumsEmpty
  <2> QED BY <2>1, <2>2 DEF VolumeCounted
<1> QED BY <1>4, <1>5, <1>6, <1>7, <1>8 DEF MarketInv

LEMMA MarketInvariant == Spec => []MarketInv
<1>1. MarketInv /\ [Next]_vars => MarketInv'
  BY BaseStep, BookStep, SessionStep, VolumeStep DEF MarketInv, Base
<1> QED BY <1>1, MarketStarts, PTL DEF Spec

\* The ticker and book snapshots, the simulator and the caches keep their types,
\* the write lock is held only by UpdateTickerFromTrade, the channels keep their
\* capacity.
THEOREM MarketTypesHold == Spec => []TypeOK
BY MarketInvariant, PTL DEF MarketInv

\* Whatever the matcher and the simulator overwrite of each other, no client is
\* shown a ticker whose price is outside its low and high or whose change is not
\* the distance from the previous close.
THEOREM TickersStayCoherent == Spec => []TickersCoherent
<1>1. MarketInv => TickersCoherent
  <2> SUFFICES ASSUME MarketInv PROVE TickersCoherent
    OBVIOUS
  <2>1. \A t \in GetTicker : Coherent(t)
    <3>1. redis.ticker = <<>> \/ \E t \in Tickers : redis.ticker = <<t>> /\ Coherent(t)
      BY DEF MarketInv, MarketTypes, AllCoherent, Caches
    <3>2. Coherent(ticker)
      BY DEF MarketInv, AllCoherent
    <3> QED BY <3>1, <3>2 DEF GetTicker, CacheAside
  <2>2. ASSUME NEW i \in DOMAIN bus, bus[i].type = "TickerUpdated" PROVE Coherent(bus[i].payload)
    <3>1. i \in 1..Len(bus)
      BY DEF MarketInv, MarketTypes
    <3>2. EventOK(bus[i], depth)
      BY <3>1 DEF MarketInv, MarketTypes
    <3> QED BY <2>2, <3>2 DEF EventOK
  <2> QED BY <2>1, <2>2 DEF TickersCoherent
<1> QED BY <1>1, MarketInvariant, PTL

\* Once everything has been handled and nothing was dropped, GetOrderBook answers
\* the matcher's last snapshot, from the cache or from the repository.
THEOREM BookCacheSettles == Spec => []BookCacheCatchesUp
<1>1. MarketInv => BookCacheCatchesUp
  <2> SUFFICES ASSUME MarketInv, Quiet, ~lost PROVE GetOrderBook = {depth}
    BY DEF BookCacheCatchesUp
  <2>1. /\ stored = depth
        /\ \/ LastIs(bus, OrderBookUpdated(depth))
           \/ redis.book \in {<<>>, <<depth>>}
    BY DEF MarketInv, BookSettles, Quiet
  <2>2. ~LastIs(bus, OrderBookUpdated(depth))
    <3>1. Len(bus) = 0
      BY DEF Quiet
    <3> QED BY <3>1 DEF LastIs
  <2> QED BY <2>1, <2>2 DEF GetOrderBook, CacheAside
<1> QED BY <1>1, MarketInvariant, PTL

\* Once nothing is in flight and nothing was dropped, GetTicker answers the
\* simulator's session, which counts every trade the matcher made.
THEOREM SessionHasTheLastWord == Spec => []QuietTickerIsSession
<1>1. MarketInv => QuietTickerIsSession
  <2> SUFFICES ASSUME MarketInv, Quiet, ~lost, spc = "select", ticks > 0 \/ done # <<>>
               PROVE  GetTicker = {SimTicker} /\ SimTicker.volume >= Traded
    BY DEF QuietTickerIsSession
  <2>1. Len(bus) = 0 /\ tradeCh = <<>> /\ Len(tradeCh) = 0 /\ mpc = "idle"
    BY DEF Quiet
  <2>2. ~Unsettled
    BY <2>1 DEF Unsettled, NoneOf
  <2>3. /\ ticker = SimTicker
        /\ LastIs(bus, TickerUpdated(SimTicker)) \/ redis.ticker \in {<<>>, <<SimTicker>>}
    BY <2>2 DEF MarketInv, SessionSettles
  <2>4. ~LastIs(bus, TickerUpdated(SimTicker))
    BY <2>1 DEF LastIs
  <2>5. GetTicker = {SimTicker}
    BY <2>3, <2>4 DEF GetTicker, CacheAside
  <2>6. PICK a \in Int, b \in Int, t \in Int :
          /\ Sums(Qtys(tradeCh), Len(tradeCh), a) /\ Sums(EventQtys(bus), Len(bus), b)
          /\ Sums(Qtys(done), Len(done), t)
          /\ t <= sim.volume + a + b + Held
    BY DEF MarketInv, VolumeCounted
  <2>7. a = 0 /\ b = 0
    BY <2>1, <2>6, SumsEmpty, SumsUnique
  <2>8. Held = 0 /\ sim.volume \in Nat /\ SimTicker.volume = sim.volume
    BY <2>1 DEF Held, SimTicker, MarketInv, MarketTypes, Sims
  <2>9. Traded = t
    BY <2>6, TradedIs DEF MarketInv, MarketTypes
  <2> QED BY <2>5, <2>6, <2>7, <2>8, <2>9
<1> QED BY <1>1, MarketInvariant, PTL

\* The Binance feed ends for no other reason than a cancelled context, whatever
\* goes wrong with the connection and however long it goes on.
THEOREM FeedRetries == FeedSpec => []StopsOnlyWhenCancelled
<1>1. FeedInit => StopsOnlyWhenCancelled
  BY DEF FeedInit, StopsOnlyWhenCancelled
<1>2. StopsOnlyWhenCancelled /\ [FeedNext]_feedVars => StopsOnlyWhenCancelled'
  BY DEF StopsOnlyWhenCancelled, FeedNext, FeedStep, InitStocks, Cancel, Loop, Dial, Disconnected,
     ReadError, SkipMessage, HandleMessage, PublishQuote, Wait, Stopped, feedVars
<1> QED BY <1>1, <1>2, PTL DEF FeedSpec

-----------------------------------------------------------------------------
(***************************************************************************)
(* The Binance feed's backoff.  The delay before one attempt is compared   *)
(* with the one before, so the invariant says which delay `backoff` holds. *)
(***************************************************************************)
\* Shift doubles.
LEMMA ShiftDoubles ==
  /\ Shift \in [0..Width -> Nat] /\ Shift[0] = 1
  /\ \A n \in 1..Width : Shift[n] = 2 * Shift[n - 1]
<1> DEFINE G == [p \in Nat \X (1..Width) |-> 2 * p[1]]
           E(f) == f = [n \in 0..Width |-> IF n = 0 THEN 1 ELSE 2 * f[n - 1]]
<1>1. Width \in Nat /\ 1 \in Nat
  BY WidthAssumption
<1>2. G \in [Nat \X (1..Width) -> Nat]
  OBVIOUS
<1>3. PICK g \in [0..Width -> Nat] : Follows(g, Width, 1, G)
  <2> HIDE DEF G
  <2> QED BY <1>1, <1>2, RecursionExists
<1>4. ASSUME NEW n \in 1..Width PROVE g[n] = 2 * g[n - 1]
  <2>1. n - 1 \in 0..Width /\ g[n - 1] \in Nat
    BY <1>1, <1>3
  <2>2. g[n] = G[<<g[n - 1], n>>]
    <3> HIDE DEF G
    <3> QED BY <1>3 DEF Follows
  <2> QED BY <2>1, <2>2
<1>5. g[0] = 1
  BY <1>3 DEF Follows
<1>6. E(g)
  <2>1. \A n \in 0..Width : n = 0 \/ n \in 1..Width
    BY <1>1
  <2>2. g = [n \in 0..Width |-> g[n]]
    OBVIOUS
  <2> QED BY <1>4, <1>5, <2>1, <2>2
<1>7. E(Shift)
  <2>1. Shift = CHOOSE f : E(f)
    BY DEF Shift
  <2> HIDE DEF E
  <2> QED BY <1>6, <2>1
<1> DEFINE B == {n \in 0..Width : Shift[n] # g[n]}
<1>8. ASSUME B # {} PROVE FALSE
  <2>1. PICK k \in B : \A j \in B : k <= j
    <3>1. B \in SUBSET Nat
      BY <1>1
    <3> HIDE DEF B
    <3> QED BY <1>8, <3>1, LeastElement
  <2>2. k # 0
    BY <1>5, <1>7
  <2>3. k \in 1..Width /\ k - 1 \in 0..Width /\ k - 1 \notin B
    BY <1>1, <2>1, <2>2
  <2> QED BY <1>4, <1>7, <2>2, <2>3
<1>9. \A n \in 0..Width : Shift[n] = g[n]
  BY <1>8
<1>10. Shift = [n \in 0..Width |-> Shift[n]]
  BY <1>7
<1>11. Shift \in [0..Width -> Nat]
  BY <1>9, <1>10
<1>12. \A n \in 1..Width : n \in 0..Width /\ n - 1 \in 0..Width
  BY <1>1
<1> QED BY <1>1, <1>4, <1>5, <1>9, <1>11, <1>12

\* It is at least 1, and a larger shift is no smaller.
LEMMA ShiftGrows ==
  ASSUME NEW n \in 1..Width
  PROVE  Shift[n] = 2 * Shift[n - 1] /\ Shift[n] \in Nat /\ Shift[n - 1] \in Nat /\ Shift[n - 1] >= 1
<1>1. Width \in Nat
  BY WidthAssumption
<1> DEFINE B == {k \in 0..Width : ~(Shift[k] >= 1)}
<1>2. ASSUME B # {} PROVE FALSE
  <2>1. PICK k \in B : \A j \in B : k <= j
    <3>1. B \in SUBSET Nat
      BY <1>1
    <3> HIDE DEF B
    <3> QED BY <1>2, <3>1, LeastElement
  <2>2. k # 0
    BY ShiftDoubles
  <2>3. k \in 1..Width /\ k - 1 \in 0..Width /\ k - 1 \notin B
    BY <1>1, <2>1, <2>2
  <2>4. Shift[k] = 2 * Shift[k - 1] /\ Shift[k - 1] >= 1 /\ Shift[k - 1] \in Nat
    BY <2>3, ShiftDoubles
  <2> QED BY <2>4
<1>3. n \in 0..Width /\ n - 1 \in 0..Width
  BY <1>1
<1> QED BY <1>2, <1>3, ShiftDoubles

\* What fits in a Duration is left as it is.
LEMMA WrapKeeps ==
  ASSUME NEW x \in Nat, x < Shift[Width - 1]
  PROVE  Wrap(x) = x
<1>1. Width \in 1..Width
  BY WidthAssumption
<1>2. /\ Shift[Width] = 2 * Shift[Width - 1] /\ Shift[Width] \in Nat /\ Shift[Width - 1] \in Nat
      /\ Shift[Width - 1] >= 1
  BY <1>1, ShiftGrows
<1>3. x < Shift[Width] /\ Shift[Width] > 0
  BY <1>2
<1>4. ASSUME NEW m \in Nat, m > 0, x < m PROVE x % m = x
  BY <1>4
<1>5. x % Shift[Width] = x
  BY <1>2, <1>3, <1>4
<1> QED BY <1>2, <1>5 DEF Wrap

\* The delay as long as 1<<a seconds fit in a Duration.
LEMMA BackoffIs ==
  ASSUME NEW a \in 0..Width, Shift[a] * Second < Shift[Width - 1]
  PROVE  /\ Shift[a] \in Nat
         /\ CalcBackoff(a) = IF Shift[a] * Second > MaxBackoff THEN MaxBackoff ELSE Shift[a] * Second
<1>1. Shift[a] \in Nat /\ Second \in Nat /\ Second >= 1 /\ Shift[Width - 1] \in Nat
  BY ShiftDoubles, WidthAssumption, BackoffAssumption
<1>2. Shift[a] * Second \in Nat /\ Shift[a] <= Shift[a] * Second
  BY <1>1
<1>3. Wrap(Shift[a]) = Shift[a]
  BY <1>1, <1>2, WrapKeeps
<1>4. Wrap(Shift[a] * Second) = Shift[a] * Second
  BY <1>2, WrapKeeps
<1> QED BY <1>1, <1>3, <1>4 DEF CalcBackoff

LEMMA BackoffSteps ==
  ASSUME NEW a \in 0..Width, Shift[a] * Second < Shift[Width - 1]
  PROVE  /\ CalcBackoff(a) = MaxBackoff \/ CalcBackoff(a) >= Second
         /\ a < Width
         /\ a > 0 => CalcBackoff(a) >= CalcBackoff(a - 1)
<1>0. Width \in Nat \ {0} /\ Width \in 1..Width /\ Width - 1 \in 0..Width
  BY WidthAssumption
<1>1. Second \in Nat /\ Second >= 1 /\ MaxBackoff \in Int
  BY BackoffAssumption
<1>2. CalcBackoff(a) = IF Shift[a] * Second > MaxBackoff THEN MaxBackoff ELSE Shift[a] * Second
  BY BackoffIs
<1>3. Shift[a] \in Nat /\ Shift[a] >= 1
  <2>1. CASE a = 0
    BY <2>1, ShiftDoubles
  <2>2. CASE a # 0
    <3>1. a \in 1..Width
      BY <1>0, <2>2
    <3> QED BY <3>1, ShiftGrows
  <2> QED BY <2>1, <2>2
<1>4. Shift[a] * Second \in Nat /\ Second <= Shift[a] * Second /\ Shift[a] <= Shift[a] * Second
  BY <1>1, <1>3
<1>5. CalcBackoff(a) = MaxBackoff \/ CalcBackoff(a) >= Second
  BY <1>1, <1>2, <1>4
<1>6. a < Width
  <2>1. Shift[Width] = 2 * Shift[Width - 1] /\ Shift[Width - 1] \in Nat /\ Shift[Width] \in Nat
    BY <1>0, ShiftGrows
  <2>2. a # Width
    BY <1>3, <1>4, <2>1
  <2> QED BY <1>0, <2>2
<1>7. ASSUME a > 0 PROVE CalcBackoff(a) >= CalcBackoff(a - 1)
  <2>1. a \in 1..Width /\ a - 1 \in 0..Width
    BY <1>0, <1>7
  <2>2. Shift[a] = 2 * Shift[a - 1] /\ Shift[a - 1] \in Nat
    BY <2>1, ShiftGrows
  <2> DEFINE y == Shift[a - 1] * Second
  <2>3. y \in Nat /\ Shift[a] * Second = 2 * y
    BY <1>1, <2>2
  <2>4. y < Shift[Width - 1]
    <3>1. Shift[Width - 1] \in Nat
      BY <1>0, ShiftDoubles
    <3> HIDE DEF y
    <3> QED BY <2>3, <3>1
  <2>5. CalcBackoff(a - 1) = IF y > MaxBackoff THEN MaxBackoff ELSE y
    BY <2>1, <2>4, BackoffIs
  <2> HIDE DEF y
  <2> QED BY <1>1, <1>2, <2>3, <2>5
<1> QED BY <1>5, <1>6, <1>7

\* The delay that was waited for last, or is being waited for.
BackoffInv ==
  /\ FeedTypeOK
  /\ pc = "wait" => backoff = CalcBackoff(attempt)
  /\ pc \notin {"wait", "stopped"} /\ attempt > 0 /\ attempt < Width =>
       backoff = CalcBackoff(attempt - 1)

LEMMA CalcBackoffInt ==
  ASSUME NEW a \in 0..Width
  PROVE  CalcBackoff(a) \in Int /\ CalcBackoff(a) <= MaxBackoff
<1>0. Width \in 1..Width /\ Width \in Nat
  BY WidthAssumption
<1>1. /\ Shift[Width] \in Nat /\ Shift[Width - 1] \in Nat /\ Shift[a] \in Nat
      /\ Shift[Width] > 0
  BY <1>0, ShiftGrows, ShiftDoubles
<1>2. ASSUME NEW x \in Int PROVE Wrap(x) \in Int
  <2>1. x % Shift[Width] \in Int
    BY <1>1
  <2> QED BY <1>1, <2>1 DEF Wrap
<1>3. Second \in Int /\ MaxBackoff \in Int
  BY BackoffAssumption
<1>4. Wrap(Shift[a]) * Second \in Int
  BY <1>1, <1>2, <1>3
<1> QED BY <1>2, <1>3, <1>4 DEF CalcBackoff

LEMMA FeedInductive == BackoffInv /\ [FeedNext]_feedVars => BackoffInv'
<1> SUFFICES ASSUME BackoffInv, [FeedNext]_feedVars PROVE BackoffInv'
  OBVIOUS
<1>0. Width \in Nat /\ attempt \in 0..Width /\ attempt \in Nat
  BY WidthAssumption DEF BackoffInv, FeedTypeOK
<1>1. CASE InitStocks \/ Loop \/ SkipMessage \/ PublishQuote \/ Cancel \/ Stopped \/ UNCHANGED feedVars
  <2>1. FeedTypeOK'
    <3>1. ctxDone' \in BOOLEAN
      <4>1. ctxDone' = ctxDone \/ ctxDone' = TRUE
        BY <1>1 DEF InitStocks, Loop, SkipMessage, PublishQuote, Cancel, Stopped, feedVars
      <4> QED BY <4>1 DEF BackoffInv, FeedTypeOK
    <3>2. /\ pc' \in {"init", "loop", "dial", "read", "publish", "wait", "stopped"}
          /\ pc' # "init" => pc # "init" \/ quote' = 0
          /\ quote' = quote \/ quote' = 0
          /\ published' = published \/ (published' = quote /\ pc # "init")
          /\ UNCHANGED <<attempt, backoff>>
      BY <1>1 DEF BackoffInv, FeedTypeOK, InitStocks, Loop, SkipMessage, PublishQuote, Cancel,
                  Stopped, feedVars
    <3>3. -1 \notin Prices /\ 0 # -1
      BY PriceAssumption
    <3> QED BY <3>1, <3>2, <3>3 DEF BackoffInv, FeedTypeOK
  <2>2. UNCHANGED <<attempt, backoff>> /\ (pc' = pc \/ (pc # "wait" /\ pc # "stopped" /\ pc' # "wait"))
    BY <1>1 DEF InitStocks, Loop, SkipMessage, PublishQuote, Cancel, Stopped, feedVars
  <2> QED BY <2>1, <2>2 DEF BackoffInv
<1>2. ASSUME NEW p \in Prices, HandleMessage(p) PROVE BackoffInv'
  <2>1. FeedTypeOK'
    <3>1. p \in Nat \ {0}
      BY PriceAssumption
    <3> QED BY <1>2, <3>1 DEF BackoffInv, FeedTypeOK, HandleMessage
  <2> QED BY <1>2, <2>1 DEF BackoffInv, HandleMessage
<1>3. CASE pc \in {"dial", "read"} /\ Disconnected
  <2>1. CalcBackoff(attempt) \in Int
    BY <1>0, CalcBackoffInt
  <2>2. FeedTypeOK'
    BY <1>3, <2>1 DEF BackoffInv, FeedTypeOK, Disconnected
  <2> QED BY <1>3, <2>2 DEF BackoffInv, Disconnected
<1>4. CASE Dial /\ ~Disconnected
  <2>1. pc = "dial" /\ pc' = "read" /\ UNCHANGED <<ctxDone, attempt, backoff, quote, published>>
    BY <1>4 DEF Dial
  <2> QED BY <2>1 DEF BackoffInv, FeedTypeOK
<1>5. CASE Wait
  <2>1. /\ pc = "wait" /\ UNCHANGED <<ctxDone, backoff, quote, published>>
        /\ \/ pc' = "stopped" /\ attempt' = attempt
           \/ pc' = "loop" /\ attempt' = IF attempt < Width THEN attempt + 1 ELSE attempt
    BY <1>5 DEF Wait
  <2>2. attempt' \in 0..Width
    BY <1>0, <2>1
  <2>3. FeedTypeOK'
    BY <2>1, <2>2 DEF BackoffInv, FeedTypeOK
  <2>4. pc' = "loop" /\ attempt' < Width => attempt' - 1 = attempt
    BY <1>0, <2>1
  <2> QED BY <2>1, <2>3, <2>4 DEF BackoffInv
<1> QED BY <1>1, <1>2, <1>3, <1>4, <1>5 DEF FeedNext, FeedStep, Dial, ReadError

LEMMA FeedInvariant == FeedSpec => []BackoffInv
<1>1. FeedInit => BackoffInv
  <2> SUFFICES ASSUME FeedInit PROVE BackoffInv
    OBVIOUS
  <2>1. 0 \in 0..Width /\ 0 \in Int
    BY WidthAssumption
  <2>2. ctxDone \in BOOLEAN
    BY DEF FeedInit
  <2>3. FeedTypeOK
    BY <2>1, <2>2 DEF FeedInit, FeedTypeOK
  <2>4. pc = "init" /\ ~(attempt > 0)
    BY DEF FeedInit
  <2> QED BY <2>3, <2>4 DEF BackoffInv
<1> QED BY <1>1, FeedInductive, PTL DEF FeedSpec

\* The feed's state stays well-typed.
THEOREM FeedTypeCorrect == FeedSpec => []FeedTypeOK
<1>1. BackoffInv => FeedTypeOK
  BY DEF BackoffInv
<1> QED BY <1>1, FeedInvariant, PTL

\* calcBackoff, for every width, every second and every cap, be it less than a
\* second or negative: no wait exceeds the cap, also when the shift has
\* overflowed, and as long as 1<<attempt seconds fit in a Duration a wait is the
\* cap or at least a second and never shorter than the one before.
THEOREM BackoffAlwaysGrows == FeedSpec => BackoffGrows
<1>1. ASSUME BackoffInv, [FeedNext]_feedVars
      PROVE  [pc' = "wait" /\ pc # "wait" =>
                /\ backoff' <= MaxBackoff
                /\ Shift[attempt] * Second < Shift[Width - 1] =>
                     /\ backoff' = MaxBackoff \/ backoff' >= Second
                     /\ attempt > 0 => backoff' >= backoff]_feedVars
  <2> SUFFICES ASSUME pc' = "wait", pc # "wait"
               PROVE  /\ backoff' <= MaxBackoff
                      /\ Shift[attempt] * Second < Shift[Width - 1] =>
                           /\ backoff' = MaxBackoff \/ backoff' >= Second
                           /\ attempt > 0 => backoff' >= backoff
    OBVIOUS
  <2>1. pc \in {"dial", "read"} /\ backoff' = CalcBackoff(attempt)
    BY <1>1 DEF FeedNext, FeedStep, InitStocks, Loop, SkipMessage, PublishQuote, Cancel, Stopped,
                HandleMessage, Dial, ReadError, Disconnected, Wait, feedVars
  <2>2. attempt \in 0..Width
    BY <1>1 DEF BackoffInv, FeedTypeOK
  <2>3. backoff' <= MaxBackoff
    BY <2>1, <2>2, CalcBackoffInt
  <2>4. ASSUME Shift[attempt] * Second < Shift[Width - 1]
        PROVE  /\ backoff' = MaxBackoff \/ backoff' >= Second
               /\ attempt > 0 => backoff' >= backoff
    <3>1. /\ CalcBackoff(attempt) = MaxBackoff \/ CalcBackoff(attempt) >= Second
          /\ attempt < Width
          /\ attempt > 0 => CalcBackoff(attempt) >= CalcBackoff(attempt - 1)
      BY <2>2, <2>4, BackoffSteps
    <3>2. attempt > 0 => backoff = CalcBackoff(attempt - 1)
      BY <1>1, <2>1, <3>1 DEF BackoffInv
    <3> QED BY <2>1, <3>1, <3>2
  <2> QED BY <2>3, <2>4
<1> QED BY <1>1, FeedInvariant, PTL DEF FeedSpec, BackoffGrows

=============================================================================
