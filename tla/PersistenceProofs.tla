------------------------- MODULE PersistenceProofs -------------------------
(***************************************************************************)
(* Theorems about module Persistence, for every set of orders, every size  *)
(* of bus, queue and batch, every number of retries and every database:    *)
(* the database never runs ahead of the engine, a retry after a commit is  *)
(* harmless, writes the worker accepted are stored, nobody main waited for *)
(* sends on the closed bus, and when nothing was lost the database ends up *)
(* as the engine's state.                                                  *)
(***************************************************************************)
EXTENDS Persistence, MatcherProofs

-----------------------------------------------------------------------------
(***************************************************************************)
(* What the stored trades say an order has traded.                         *)
(***************************************************************************)
\* What t counts for o.
Share(t, o) == IF o \in {t.buy, t.sell} THEN t.qty ELSE 0

\* The step of the sum over q.
SumStep(q, o) == [p \in Nat \X (1..Len(q)) |-> p[1] + Share(q[p[2]], o)]

LEMMA ShareType ==
  ASSUME NEW q \in Seq(TradeRec), NEW o, NEW n \in 1..Len(q)
  PROVE  Share(q[n], o) \in Nat
<1>1. q[n] \in TradeRec
  OBVIOUS
<1> QED BY <1>1 DEF TradeRec, Share

\* The sum exists and is what the recursion says.
LEMMA TradedInSteps ==
  ASSUME NEW q \in Seq(TradeRec), NEW o
  PROVE  \E f \in [0..Len(q) -> Nat] :
            Follows(f, Len(q), 0, SumStep(q, o)) /\ TradedIn(q, o) = f[Len(q)]
<1> DEFINE N == Len(q)
           E(s) == s = [n \in 0..N |-> IF n = 0 THEN 0 ELSE s[n - 1] + Share(q[n], o)]
<1>0. N \in Nat
  OBVIOUS
<1>1. SumStep(q, o) \in [Nat \X (1..N) -> Nat]
  <2>1. ASSUME NEW p \in Nat \X (1..N) PROVE p[1] + Share(q[p[2]], o) \in Nat
    <3>1. p[1] \in Nat /\ p[2] \in 1..N
      OBVIOUS
    <3>2. Share(q[p[2]], o) \in Nat
      BY <3>1, ShareType
    <3> HIDE DEF N
    <3> QED BY <3>1, <3>2
  <2> QED BY <2>1 DEF SumStep
<1>2. PICK f \in [0..N -> Nat] : Follows(f, N, 0, SumStep(q, o))
  BY <1>0, <1>1, RecursionExists
<1>3. \A n \in 1..N : f[n] = f[n - 1] + Share(q[n], o)
  <2> SUFFICES ASSUME NEW n \in 1..N PROVE f[n] = f[n - 1] + Share(q[n], o)
    OBVIOUS
  <2>1. n - 1 \in 0..N /\ f[n - 1] \in Nat
    BY <1>0, <1>2
  <2>2. <<f[n - 1], n>> \in Nat \X (1..N)
    BY <2>1
  <2>3. SumStep(q, o)[<<f[n - 1], n>>] = f[n - 1] + Share(q[n], o)
    BY <2>2 DEF SumStep
  <2> QED BY <1>2, <2>3 DEF Follows
<1>4. E(f)
  <2>1. f[0] = 0
    BY <1>2 DEF Follows
  <2>2. \A n \in 0..N : f[n] = IF n = 0 THEN 0 ELSE f[n - 1] + Share(q[n], o)
    BY <1>0, <1>3, <2>1
  <2> QED BY <2>2
<1> DEFINE sum == CHOOSE s : E(s)
<1>5. E(sum)
  <2> HIDE DEF E
  <2> QED BY <1>4
<1>6. TradedIn(q, o) = sum[N]
  BY DEF TradedIn, Share
<1> HIDE DEF sum
<1>7. \A n \in 0..N : sum[n] = f[n]
  <2> DEFINE T == {n \in 0..N : sum[n] # f[n]}
  <2>1. ASSUME T # {} PROVE FALSE
    <3>1. T \in SUBSET Nat
      OBVIOUS
    <3>2. PICK m \in T : \A k \in T : m <= k
      BY <2>1, <3>1, LeastElement
    <3>3. m # 0
      BY <1>2, <1>5, <3>2 DEF Follows
    <3>4. m - 1 \in 0..N /\ m - 1 \notin T /\ m \in 1..N
      BY <1>0, <3>2, <3>3
    <3>5. sum[m] = sum[m - 1] + Share(q[m], o)
      BY <1>5, <3>3, <3>4
    <3>6. sum[m - 1] = f[m - 1]
      BY <3>4
    <3>7. f[m] = f[m - 1] + Share(q[m], o)
      BY <1>3, <3>4
    <3> QED BY <3>2, <3>5, <3>6, <3>7
  <2> QED BY <2>1
<1>8. TradedIn(q, o) = f[N]
  BY <1>0, <1>6, <1>7
<1> QED BY <1>2, <1>8

\* One more trade adds its share.
LEMMA TradedInAppend ==
  ASSUME NEW q \in Seq(TradeRec), NEW t \in TradeRec, NEW o
  PROVE  /\ TradedIn(q, o) \in Nat
         /\ TradedIn(Append(q, t), o) = TradedIn(q, o) + Share(t, o)
<1> DEFINE r == Append(q, t)
           N == Len(q)
<1>1. r \in Seq(TradeRec) /\ Len(r) = N + 1 /\ N \in Nat
  OBVIOUS
<1>2. PICK f \in [0..N -> Nat] : Follows(f, N, 0, SumStep(q, o)) /\ TradedIn(q, o) = f[N]
  BY TradedInSteps
<1>3. PICK g \in [0..N + 1 -> Nat] :
        Follows(g, N + 1, 0, SumStep(r, o)) /\ TradedIn(r, o) = g[N + 1]
  <2> HIDE DEF r
  <2>1. \E g \in [0..Len(r) -> Nat] :
          Follows(g, Len(r), 0, SumStep(r, o)) /\ TradedIn(r, o) = g[Len(r)]
    BY <1>1, TradedInSteps
  <2> QED BY <1>1, <2>1
<1>4. \A n \in 1..N : q[n] = r[n]
  OBVIOUS
<1>5. r[N + 1] = t
  OBVIOUS
<1> HIDE DEF r
<1>6. \A n \in 1..N : f[n] = f[n - 1] + Share(q[n], o)
  <2> SUFFICES ASSUME NEW n \in 1..N PROVE f[n] = f[n - 1] + Share(q[n], o)
    OBVIOUS
  <2>0. n - 1 \in 0..N
    BY <1>1
  <2>1. <<f[n - 1], n>> \in Nat \X (1..N)
    BY <1>2, <2>0
  <2>2. SumStep(q, o)[<<f[n - 1], n>>] = f[n - 1] + Share(q[n], o)
    BY <2>1 DEF SumStep
  <2> QED BY <1>2, <2>2 DEF Follows
<1>7. \A n \in 1..N + 1 : g[n] = g[n - 1] + Share(r[n], o)
  <2> SUFFICES ASSUME NEW n \in 1..N + 1 PROVE g[n] = g[n - 1] + Share(r[n], o)
    OBVIOUS
  <2>0. n - 1 \in 0..N + 1
    BY <1>1
  <2>1. <<g[n - 1], n>> \in Nat \X (1..Len(r))
    BY <1>1, <1>3, <2>0
  <2>2. SumStep(r, o)[<<g[n - 1], n>>] = g[n - 1] + Share(r[n], o)
    BY <2>1 DEF SumStep
  <2> QED BY <1>3, <2>2 DEF Follows
<1>8. \A n \in 0..N : g[n] = f[n]
  <2> DEFINE T == {n \in 0..N : g[n] # f[n]}
  <2>1. ASSUME T # {} PROVE FALSE
    <3>1. T \in SUBSET Nat
      BY <1>1
    <3>2. PICK m \in T : \A k \in T : m <= k
      BY <2>1, <3>1, LeastElement
    <3>3. m # 0
      BY <1>2, <1>3, <3>2 DEF Follows
    <3>4. m - 1 \in 0..N /\ m - 1 \notin T /\ m \in 1..N /\ m \in 1..N + 1
      BY SMTT(30), <1>1, <3>2, <3>3
    <3>5. g[m] = g[m - 1] + Share(q[m], o) /\ f[m] = f[m - 1] + Share(q[m], o)
      BY <1>4, <1>6, <1>7, <3>4
    <3>6. g[m - 1] = f[m - 1]
      BY <3>4
    <3> QED BY <3>2, <3>5, <3>6
  <2> QED BY <2>1
<1>9. g[N + 1] = g[N] + Share(t, o)
  <2>1. N + 1 \in 1..N + 1 /\ (N + 1) - 1 = N
    BY <1>1
  <2>2. g[N + 1] = g[(N + 1) - 1] + Share(r[N + 1], o)
    BY <1>7, <2>1
  <2> QED BY <1>5, <2>1, <2>2
<1>10. g[N] = f[N] /\ f[N] \in Nat
  BY <1>1, <1>2, <1>8
<1> QED BY <1>2, <1>3, <1>9, <1>10 DEF r

\* No trade, nothing traded.
LEMMA TradedInNone == ASSUME NEW o PROVE TradedIn(<<>>, o) = 0
<1>1. <<>> \in Seq(TradeRec) /\ Len(<<>>) = 0
  OBVIOUS
<1>2. PICK f \in [0..0 -> Nat] :
        Follows(f, 0, 0, SumStep(<<>>, o)) /\ TradedIn(<<>>, o) = f[0]
  BY <1>1, TradedInSteps
<1> QED BY <1>2 DEF Follows

-----------------------------------------------------------------------------
(***************************************************************************)
(* What the statements of a batch do to the tables.                        *)
(***************************************************************************)
OpRec == [kind : {"order", "trade"}, id : Orders \cup Nat, row : RowRec]

\* A row is written for an order, and never an empty one; a stored trade is
\* one the engine made (D are the positions of its trades).
OpOver(op, D) == \/ op.kind = "order" /\ op.id \in Orders /\ op.row.status # "NONE"
                 \/ op.kind = "trade" /\ op.id \in D

OpsOK(s, D) ==
  /\ s \in Seq(OpRec)
  /\ \A i \in 1..Len(s) : OpOver(s[i], D)

LEMMA OpIsOp ==
  ASSUME NEW s, OpsOK(s, DOMAIN trades), NEW n \in 1..Len(s)
  PROVE  s[n] \in OpRec /\ IsOp(s[n])
<1>1. s[n] \in OpRec /\ OpOver(s[n], DOMAIN trades)
  BY DEF OpsOK
<1>2. s[n].row \in RowRec
  BY <1>1 DEF OpRec
<1> QED BY <1>1, <1>2 DEF OpOver, IsOp

WritesTo(op, o) == op.kind = "order" /\ op.id = o

TablesOK ==
  /\ DOMAIN db = {"orders", "trades"}
  /\ db.orders \in [Orders -> RowRec]
  /\ db.trades \in SUBSET Nat

Acc == [orders : [Orders -> RowRec], trades : SUBSET Nat, ok : BOOLEAN]

LEMMA ApplyOpType ==
  ASSUME NEW a \in Acc, NEW op \in OpRec, IsOp(op), TypeOK
  PROVE  ApplyOp(a, op) \in Acc
<1>1. DOMAIN trades \subseteq Nat
  <2>1. trades \in Seq(TradeRec)
    BY DEF TypeOK
  <2> QED BY <2>1
<1>2. CASE op.kind = "order"
  BY <1>2 DEF ApplyOp, Acc, OpRec, IsOp
<1>3. CASE op.kind = "trade"
  <2>1. op.id \in Nat
    BY <1>1, <1>3 DEF IsOp
  <2>2. (a.ok /\ a.orders[trades[op.id].buy].status # "NONE"
              /\ a.orders[trades[op.id].sell].status # "NONE") \in BOOLEAN
    OBVIOUS
  <2> DEFINE ok == a.ok /\ a.orders[trades[op.id].buy].status # "NONE"
                       /\ a.orders[trades[op.id].sell].status # "NONE"
  <2>3. ApplyOp(a, op) = [a EXCEPT !.trades = @ \cup {op.id}, !.ok = ok]
    BY <1>3 DEF ApplyOp
  <2> HIDE DEF ok
  <2>4. ok \in BOOLEAN
    BY <2>2 DEF ok
  <2>5. a.orders \in [Orders -> RowRec] /\ a.trades \cup {op.id} \in SUBSET Nat
    BY <2>1 DEF Acc
  <2>6. ApplyOp(a, op) = [orders |-> a.orders, trades |-> a.trades \cup {op.id}, ok |-> ok]
    BY <2>3 DEF Acc
  <2> QED BY <2>4, <2>5, <2>6 DEF Acc
<1> QED BY <1>2, <1>3 DEF OpRec

BatchStep == [p \in Acc \X (1..Len(batch)) |-> ApplyOp(p[1], batch[p[2]])]

BatchStart == [orders |-> db.orders, trades |-> db.trades, ok |-> TRUE]

\* The statements are applied one after the other.
LEMMA AppliedSteps ==
  ASSUME OpsOK(batch, DOMAIN trades), TablesOK, TypeOK
  PROVE  \E f \in [0..Len(batch) -> Acc] :
            /\ f[0] = BatchStart
            /\ \A n \in 1..Len(batch) : f[n] = ApplyOp(f[n - 1], batch[n])
            /\ Applied = f[Len(batch)]
<1> DEFINE N == Len(batch)
           E(s) == s = [n \in 0..N |-> IF n = 0 THEN BatchStart ELSE ApplyOp(s[n - 1], batch[n])]
<1>0. N \in Nat /\ \A n \in 1..N : batch[n] \in OpRec /\ IsOp(batch[n])
  BY OpIsOp DEF OpsOK
<1> HIDE DEF N
<1>1. BatchStep \in [Acc \X (1..N) -> Acc]
  <2>1. ASSUME NEW p \in Acc \X (1..N) PROVE ApplyOp(p[1], batch[p[2]]) \in Acc
    <3>1. p[1] \in Acc /\ p[2] \in 1..N
      OBVIOUS
    <3>2. batch[p[2]] \in OpRec /\ IsOp(batch[p[2]])
      BY <1>0, <3>1
    <3> QED BY <3>1, <3>2, ApplyOpType
  <2> QED BY <2>1 DEF BatchStep, N
<1>2. BatchStart \in Acc
  BY DEF BatchStart, Acc, TablesOK
<1>3. PICK f \in [0..N -> Acc] : Follows(f, N, BatchStart, BatchStep)
  BY <1>0, <1>1, <1>2, RecursionExists
<1>4. \A n \in 1..N : f[n] = ApplyOp(f[n - 1], batch[n])
  <2> SUFFICES ASSUME NEW n \in 1..N PROVE f[n] = ApplyOp(f[n - 1], batch[n])
    OBVIOUS
  <2>1. n - 1 \in 0..N
    BY <1>0
  <2>2. <<f[n - 1], n>> \in Acc \X (1..N)
    BY <1>3, <2>1
  <2>3. BatchStep[<<f[n - 1], n>>] = ApplyOp(f[n - 1], batch[n])
    BY <2>2 DEF BatchStep, N
  <2> QED BY <1>3, <2>3 DEF Follows
<1>5. E(f)
  <2>1. f[0] = BatchStart
    BY <1>3 DEF Follows
  <2>2. \A n \in 0..N : f[n] = IF n = 0 THEN BatchStart ELSE ApplyOp(f[n - 1], batch[n])
    BY <1>0, <1>4, <2>1
  <2> QED BY <2>2
<1> DEFINE up == CHOOSE s : E(s)
<1>6. E(up)
  <2> HIDE DEF E
  <2> QED BY <1>5
<1>7. Applied = up[N]
  BY DEF Applied, AppliedUpTo, BatchStart, N
<1> HIDE DEF up
<1>8. \A n \in 0..N : up[n] = f[n]
  <2> DEFINE T == {n \in 0..N : up[n] # f[n]}
  <2>1. ASSUME T # {} PROVE FALSE
    <3>1. T \in SUBSET Nat
      BY <1>0
    <3>2. PICK m \in T : \A k \in T : m <= k
      BY <2>1, <3>1, LeastElement
    <3>3. m # 0
      BY <1>3, <1>6, <3>2 DEF Follows
    <3>4. m - 1 \in 0..N /\ m - 1 \notin T /\ m \in 1..N
      BY <1>0, <3>2, <3>3
    <3>5. up[m] = ApplyOp(up[m - 1], batch[m])
      BY <1>6, <3>3, <3>4
    <3>6. up[m - 1] = f[m - 1]
      BY <3>4
    <3> QED BY <1>4, <3>2, <3>4, <3>5, <3>6
  <2> QED BY <2>1
<1>9. Applied = f[N] /\ f[0] = BatchStart
  BY <1>0, <1>3, <1>7, <1>8 DEF Follows
<1> QED BY <1>3, <1>4, <1>9 DEF N

\* What the first n statements of the batch have made of the tables: its
\* trades are added, an order has the row of the last statement about it, and
\* unless a foreign key is broken both orders of a trade had a row before it.
Outcome(a, n) ==
  /\ \A x : x \in a.trades <=> \/ x \in db.trades
                               \/ \E i \in 1..n : batch[i].kind = "trade" /\ batch[i].id = x
  /\ \A o \in Orders :
       \/ /\ a.orders[o] = db.orders[o]
          /\ \A i \in 1..n : ~WritesTo(batch[i], o)
       \/ \E j \in 1..n : /\ WritesTo(batch[j], o)
                          /\ a.orders[o] = batch[j].row
                          /\ \A i \in j + 1..n : ~WritesTo(batch[i], o)
  /\ a.ok =>
       \A i \in 1..n : batch[i].kind = "trade" =>
         \A o \in {trades[batch[i].id].buy, trades[batch[i].id].sell} :
           \/ db.orders[o].status # "NONE"
           \/ \E j \in 1..i - 1 : WritesTo(batch[j], o)

\* One statement more.
LEMMA OutcomeStep ==
  ASSUME OpsOK(batch, DOMAIN trades), TablesOK, TypeOK,
         NEW n \in 1..Len(batch), NEW a \in Acc, Outcome(a, n - 1)
  PROVE  Outcome(ApplyOp(a, batch[n]), n)
<1> DEFINE op == batch[n]
           b == ApplyOp(a, op)
<1>0. /\ op \in OpRec /\ IsOp(op) /\ n \in Nat
      /\ 1..n = (1..n - 1) \cup {n} /\ n \notin 1..n - 1
  BY OpIsOp DEF OpsOK
<1> HIDE DEF op
<1>1. CASE op.kind = "order"
  <2>1. b = [a EXCEPT !.orders[op.id] = op.row]
    BY <1>1 DEF ApplyOp
  <2>2. op.id \in Orders
    BY <1>0, <1>1 DEF IsOp
  <2>3. b.trades = a.trades /\ b.ok = a.ok
    BY <2>1 DEF Acc
  <2>4. \A o \in Orders : b.orders[o] = IF o = op.id THEN op.row ELSE a.orders[o]
    BY <2>1, <2>2 DEF Acc
  <2> HIDE DEF b
  <2>5. \A x : x \in b.trades <=> \/ x \in db.trades
                                 \/ \E i \in 1..n : batch[i].kind = "trade" /\ batch[i].id = x
    BY <1>0, <1>1, <2>3 DEF Outcome, op
  <2>6. ASSUME NEW o \in Orders
        PROVE  \/ /\ b.orders[o] = db.orders[o]
                  /\ \A i \in 1..n : ~WritesTo(batch[i], o)
               \/ \E j \in 1..n : /\ WritesTo(batch[j], o)
                                  /\ b.orders[o] = batch[j].row
                                  /\ \A i \in j + 1..n : ~WritesTo(batch[i], o)
    <3>1. CASE o = op.id
      <4>1. WritesTo(batch[n], o) /\ b.orders[o] = batch[n].row /\ n \in 1..n
        BY <1>0, <1>1, <2>4, <3>1 DEF WritesTo, op
      <4>2. \A i \in n + 1..n : ~WritesTo(batch[i], o)
        BY <1>0
      <4> QED BY <4>1, <4>2
    <3>2. CASE o # op.id
      <4>1. ~WritesTo(batch[n], o) /\ b.orders[o] = a.orders[o]
        BY <2>4, <3>2 DEF WritesTo, op
      <4>2. CASE a.orders[o] = db.orders[o] /\ \A i \in 1..n - 1 : ~WritesTo(batch[i], o)
        BY <1>0, <4>1, <4>2
      <4>3. ASSUME NEW j \in 1..n - 1, WritesTo(batch[j], o), a.orders[o] = batch[j].row,
                   \A i \in j + 1..n - 1 : ~WritesTo(batch[i], o)
            PROVE  \E k \in 1..n : /\ WritesTo(batch[k], o)
                                   /\ b.orders[o] = batch[k].row
                                   /\ \A i \in k + 1..n : ~WritesTo(batch[i], o)
        <5>1. \A i \in j + 1..n : i \in j + 1..n - 1 \/ i = n
          BY <1>0
        <5>2. \A i \in j + 1..n : ~WritesTo(batch[i], o)
          BY <4>1, <4>3, <5>1
        <5>3. j \in 1..n
          BY <1>0
        <5> QED BY <4>1, <4>3, <5>2, <5>3
      <4> QED BY <4>2, <4>3 DEF Outcome
    <3> QED BY <3>1, <3>2
  <2>7. ASSUME b.ok, NEW i \in 1..n, batch[i].kind = "trade",
               NEW o \in {trades[batch[i].id].buy, trades[batch[i].id].sell}
        PROVE  \/ db.orders[o].status # "NONE"
               \/ \E j \in 1..i - 1 : WritesTo(batch[j], o)
    <3>1. i \in 1..n - 1
      BY <1>0, <1>1, <2>7 DEF op
    <3> QED BY <2>3, <2>7, <3>1 DEF Outcome
  <2> QED BY <2>5, <2>6, <2>7 DEF Outcome, b, op
<1>2. CASE op.kind = "trade"
  <2>1. b.trades = a.trades \cup {op.id} /\ b.orders = a.orders
    BY <1>2 DEF ApplyOp, Acc
  <2>2. b.ok => /\ a.ok
                /\ a.orders[trades[op.id].buy].status # "NONE"
                /\ a.orders[trades[op.id].sell].status # "NONE"
    BY <1>2 DEF ApplyOp, Acc
  <2>3. \A o : ~WritesTo(batch[n], o)
    BY <1>2 DEF WritesTo, op
  <2>4. trades[op.id].buy \in Orders /\ trades[op.id].sell \in Orders
    <3>1. op.id \in DOMAIN trades /\ trades \in Seq(TradeRec)
      BY <1>0, <1>2 DEF IsOp, TypeOK
    <3>2. trades[op.id] \in TradeRec
      BY <3>1
    <3> QED BY <3>2 DEF TradeRec
  <2> HIDE DEF b
  <2>5. \A x : x \in b.trades <=> \/ x \in db.trades
                                 \/ \E i \in 1..n : batch[i].kind = "trade" /\ batch[i].id = x
    BY <1>0, <1>2, <2>1 DEF Outcome, op
  <2>6. ASSUME NEW o \in Orders
        PROVE  \/ /\ b.orders[o] = db.orders[o]
                  /\ \A i \in 1..n : ~WritesTo(batch[i], o)
               \/ \E j \in 1..n : /\ WritesTo(batch[j], o)
                                  /\ b.orders[o] = batch[j].row
                                  /\ \A i \in j + 1..n : ~WritesTo(batch[i], o)
    <3>1. CASE a.orders[o] = db.orders[o] /\ \A i \in 1..n - 1 : ~WritesTo(batch[i], o)
      BY <1>0, <2>1, <2>3, <3>1
    <3>2. ASSUME NEW j \in 1..n - 1, WritesTo(batch[j], o), a.orders[o] = batch[j].row,
                 \A i \in j + 1..n - 1 : ~WritesTo(batch[i], o)
          PROVE  \E k \in 1..n : /\ WritesTo(batch[k], o)
                                 /\ b.orders[o] = batch[k].row
                                 /\ \A i \in k + 1..n : ~WritesTo(batch[i], o)
      <4>1. \A i \in j + 1..n : i \in j + 1..n - 1 \/ i = n
        BY <1>0
      <4>2. \A i \in j + 1..n : ~WritesTo(batch[i], o)
        BY <2>3, <3>2, <4>1
      <4>3. j \in 1..n
        BY <1>0
      <4> QED BY <2>1, <3>2, <4>2, <4>3
    <3> QED BY <3>1, <3>2 DEF Outcome
  <2>7. ASSUME b.ok, NEW i \in 1..n, batch[i].kind = "trade",
               NEW o \in {trades[batch[i].id].buy, trades[batch[i].id].sell}
        PROVE  \/ db.orders[o].status # "NONE"
               \/ \E j \in 1..i - 1 : WritesTo(batch[j], o)
    <3>1. CASE i \in 1..n - 1
      <4>1. a.ok => \A k \in 1..n - 1 : batch[k].kind = "trade" =>
                      \A p \in {trades[batch[k].id].buy, trades[batch[k].id].sell} :
                        \/ db.orders[p].status # "NONE"
                        \/ \E j \in 1..k - 1 : WritesTo(batch[j], p)
        BY Zenon DEF Outcome
      <4> QED BY Zenon, <2>2, <2>7, <3>1, <4>1
    <3>2. CASE i = n
      <4>1. o \in Orders /\ a.orders[o].status # "NONE"
        BY <2>2, <2>4, <2>7, <3>2 DEF op
      <4> QED BY <3>2, <4>1 DEF Outcome
    <3> QED BY <1>0, <3>1, <3>2
  <2> QED BY <2>5, <2>6, <2>7 DEF Outcome, b, op
<1> QED BY <1>0, <1>1, <1>2 DEF OpRec

\* After each of them.
LEMMA AppliedOutcomes ==
  ASSUME OpsOK(batch, DOMAIN trades), TablesOK, TypeOK
  PROVE  \E f \in [0..Len(batch) -> Acc] :
            /\ f[0] = BatchStart
            /\ \A n \in 1..Len(batch) : f[n] = ApplyOp(f[n - 1], batch[n])
            /\ Applied = f[Len(batch)]
            /\ \A n \in 0..Len(batch) : Outcome(f[n], n)
<1> DEFINE N == Len(batch)
<1>0. N \in Nat
  BY DEF OpsOK
<1>1. PICK f \in [0..N -> Acc] :
            /\ f[0] = BatchStart
            /\ \A n \in 1..N : f[n] = ApplyOp(f[n - 1], batch[n])
            /\ Applied = f[N]
  BY AppliedSteps
<1> HIDE DEF N
<1> DEFINE T == {n \in 0..N : ~Outcome(f[n], n)}
<1>2. ASSUME T # {} PROVE FALSE
  <2>1. T \in SUBSET Nat
    BY <1>0
  <2>2. PICK m \in T : \A k \in T : m <= k
    BY <1>2, <2>1, LeastElement
  <2>3. Outcome(BatchStart, 0)
    <3>1. BatchStart.trades = db.trades /\ BatchStart.orders = db.orders
      BY DEF BatchStart
    <3>2. 1..0 = {}
      OBVIOUS
    <3> QED BY <3>1, <3>2 DEF Outcome
  <2>4. m # 0
    BY <1>1, <2>2, <2>3
  <2>5. m - 1 \in 0..N /\ m - 1 \notin T /\ m \in 1..N
    BY <1>0, <2>2, <2>4
  <2>6. f[m - 1] \in Acc /\ Outcome(f[m - 1], m - 1)
    BY <1>1, <2>5
  <2>7. Outcome(ApplyOp(f[m - 1], batch[m]), m)
    BY <2>5, <2>6, OutcomeStep DEF N
  <2> QED BY <1>1, <2>2, <2>5, <2>7
<1>3. \A n \in 0..N : Outcome(f[n], n)
  BY <1>2
<1> QED BY <1>1, <1>3 DEF N

\* All of them.
LEMMA AppliedFacts ==
  ASSUME OpsOK(batch, DOMAIN trades), TablesOK, TypeOK
  PROVE  Applied \in Acc /\ Outcome(Applied, Len(batch))
<1>1. Len(batch) \in 0..Len(batch)
  BY DEF OpsOK
<1> QED BY <1>1, AppliedOutcomes

\* Foreign keys that the tables themselves satisfy are not broken by what the
\* batch writes before them.
LEMMA AppliedAgain ==
  ASSUME OpsOK(batch, DOMAIN trades), TablesOK, TypeOK,
         \A i \in 1..Len(batch) : batch[i].kind = "trade" =>
           /\ db.orders[trades[batch[i].id].buy].status # "NONE"
           /\ db.orders[trades[batch[i].id].sell].status # "NONE"
  PROVE  Applied.ok
<1> DEFINE N == Len(batch)
<1>0. /\ N \in Nat
      /\ \A i \in 1..N : batch[i] \in OpRec /\ OpOver(batch[i], DOMAIN trades)
      /\ \A i \in 1..N : batch[i].kind = "trade" =>
           /\ db.orders[trades[batch[i].id].buy].status # "NONE"
           /\ db.orders[trades[batch[i].id].sell].status # "NONE"
  BY DEF OpsOK
<1>1. PICK f \in [0..N -> Acc] :
            /\ f[0] = BatchStart
            /\ \A n \in 1..N : f[n] = ApplyOp(f[n - 1], batch[n])
            /\ Applied = f[N]
            /\ \A n \in 0..N : Outcome(f[n], n)
  BY AppliedOutcomes
<1> HIDE DEF N
<1>2. ASSUME NEW n \in 0..N, NEW o \in Orders, db.orders[o].status # "NONE"
      PROVE  f[n].orders[o].status # "NONE"
  <2>0. Outcome(f[n], n)
    BY <1>1
  <2>1. \/ f[n].orders[o] = db.orders[o]
        \/ \E j \in 1..n : WritesTo(batch[j], o) /\ f[n].orders[o] = batch[j].row
    <3>1. \A p \in Orders :
            \/ /\ f[n].orders[p] = db.orders[p]
               /\ \A i \in 1..n : ~WritesTo(batch[i], p)
            \/ \E j \in 1..n : /\ WritesTo(batch[j], p)
                               /\ f[n].orders[p] = batch[j].row
                               /\ \A i \in j + 1..n : ~WritesTo(batch[i], p)
      BY Zenon, <2>0 DEF Outcome
    <3> QED BY <3>1
  <2>2. \A j \in 1..n : j \in 1..N
    BY <1>0
  <2>3. \A j \in 1..n : WritesTo(batch[j], o) => batch[j].row.status # "NONE"
    BY <1>0, <2>2 DEF OpOver, WritesTo
  <2> QED BY <1>2, <2>1, <2>3
<1> DEFINE T == {n \in 0..N : f[n].ok # TRUE}
<1>3. ASSUME T # {} PROVE FALSE
  <2>1. T \in SUBSET Nat
    BY <1>0
  <2>2. PICK m \in T : \A k \in T : m <= k
    BY <1>3, <2>1, LeastElement
  <2>3. m # 0
    <3>1. BatchStart.ok = TRUE
      BY DEF BatchStart
    <3> QED BY <1>1, <2>2, <3>1
  <2>4. m - 1 \in 0..N /\ m - 1 \notin T /\ m \in 1..N
    <3>1. N \in Nat /\ m \in 0..N
      BY <1>0
    <3>2. m - 1 \in 0..N /\ m \in 1..N /\ ~ (m <= m - 1)
      BY <2>3, <3>1
    <3> HIDE DEF T
    <3> QED BY <2>2, <3>2
  <2>5. f[m - 1] \in Acc /\ f[m - 1].ok = TRUE /\ f[m] = ApplyOp(f[m - 1], batch[m])
    BY <1>1, <2>4
  <2>6. CASE batch[m].kind = "order"
    <3>1. f[m].ok = f[m - 1].ok
      BY <2>5, <2>6 DEF ApplyOp, Acc
    <3> QED BY <2>2, <2>5, <3>1
  <2>7. CASE batch[m].kind = "trade"
    <3> DEFINE t == trades[batch[m].id]
    <3>1. t.buy \in Orders /\ t.sell \in Orders
      <4>1. batch[m].id \in DOMAIN trades /\ trades \in Seq(TradeRec)
        BY <1>0, <2>4, <2>7 DEF OpOver, TypeOK
      <4>2. t \in TradeRec
        BY <4>1
      <4> QED BY <4>2 DEF TradeRec
    <3>2. db.orders[t.buy].status # "NONE" /\ db.orders[t.sell].status # "NONE"
      BY <1>0, <2>4, <2>7
    <3>3. f[m - 1].orders[t.buy].status # "NONE" /\ f[m - 1].orders[t.sell].status # "NONE"
      BY <1>2, <2>4, <3>1, <3>2
    <3>4. f[m].ok = (f[m - 1].ok /\ f[m - 1].orders[t.buy].status # "NONE"
                                /\ f[m - 1].orders[t.sell].status # "NONE")
      BY <2>5, <2>7 DEF ApplyOp, Acc
    <3>5. f[m].ok = TRUE
      BY <2>5, <3>3, <3>4
    <3> QED BY <2>2, <3>5
  <2> QED BY <1>0, <2>4, <2>6, <2>7 DEF OpRec
<1>4. N \in 0..N
  BY <1>0
<1>5. T = {}
  <2> HIDE DEF T
  <2> QED BY <1>3
<1>6. f[N].ok = TRUE
  BY <1>4, <1>5
<1> QED BY <1>1, <1>6

-----------------------------------------------------------------------------
(***************************************************************************)
(* The engine's fills are its stored trades.                               *)
(***************************************************************************)
\* An order is filled by what its stored trades say, but for the part of the
\* trade in progress that has not been filled in yet.
FillsAreTrades == \A o \in Orders : Traded(o) = order[o].filled + Pending(o)

\* A step of a handler, the matcher or the feed.
EngineMove == (\E o \in Orders : CreateOrder(o)) \/ MatcherStep \/ InitStock

\* Stored trades are only ever added, at the end.
LEMMA TradesGrow ==
  ASSUME IInv, EngineMove \/ UNCHANGED vars \/ Stop
  PROVE  \/ trades' = trades
         \/ /\ SaveTrade
            /\ trades' = Append(trades, NextTrade)
            /\ mpc' = "fillBuy"
<1>1. CASE SaveTrade
  BY <1>1, MemoryStorage DEF SaveTrade
<1>2. CASE ~SaveTrade
  BY <1>2 DEF EngineMove, CreateOrder, SaveOrder, SubmitOrder, PublishCreated, MatcherStep, Receive,
     FillBuy, FillSell, FillOrder, UpdateBuy, UpdateSell, UpdateOrder, UpdateTicker, PublishTrade,
     PublishBuy, PublishSell, PublishStep, Settle, RestOrder, InitStock, Stop, vars
<1> QED BY <1>1, <1>2

\* The trade a step of the matcher has just stored.
LEMMA NewTrade ==
  ASSUME IInv, SaveTrade, mpc' = "fillBuy"
  PROVE  trade' = NextTrade /\ NextTrade \in TradeRec
<1>1. IInv'
  BY NextPreserves DEF Next, MatcherStep
<1>2. trade' \in TradeRec
  BY <1>1 DEF IInv, TradeInv, TradeSteps
<1> QED BY <1>2 DEF SaveTrade

LEMMA FillsAreTradesStep ==
  ASSUME IInv, FillsAreTrades, EngineMove \/ UNCHANGED vars \/ Stop
  PROVE  FillsAreTrades'
<1> SUFFICES ASSUME NEW o \in Orders
             PROVE  Traded(o)' = order'[o].filled + Pending(o)'
  BY DEF FillsAreTrades
<1>0. /\ Traded(o) = order[o].filled + Pending(o)
      /\ order[o].filled \in Nat
      /\ trades \in Seq(TradeRec)
  BY OrderFacts DEF FillsAreTrades, IInv, TypeOK, OrderRec
<1>1. CASE SaveTrade /\ mpc' = "fillBuy"
  <2>1. trades' = Append(trades, NextTrade) /\ trade' = NextTrade /\ NextTrade \in TradeRec
    BY <1>1, NewTrade DEF SaveTrade
  <2>2. TradedIn(trades', o) = TradedIn(trades, o) + Share(NextTrade, o)
    BY <1>0, <2>1, TradedInAppend
  <2>3. Pending(o) = 0 /\ order' = order
    BY <1>1 DEF SaveTrade, Pending
  <2>4. Pending(o)' = Share(NextTrade, o)
    BY <1>1, <2>1 DEF Pending, Share
  <2> QED BY <1>0, <2>2, <2>3, <2>4 DEF Traded
<1>2. CASE FillBuy \/ FillSell
  <2>1. mpc \in TradeSteps
    BY <1>2 DEF FillBuy, FillSell, TradeSteps
  <2>2. /\ trade.buy \in Orders /\ trade.sell \in Orders /\ trade.buy # trade.sell
        /\ trade.qty \in Nat
    BY <2>1, TradeParties
  <2>3. trades' = trades /\ trade' = trade
    BY <1>2 DEF FillBuy, FillSell, FillOrder
  <2>4. CASE FillBuy
    <3>1. /\ mpc = "fillBuy" /\ mpc' = "fillSell"
          /\ order' = [order EXCEPT ![trade.buy] = Fill(@, trade.qty)]
      BY <2>4 DEF FillBuy, FillOrder
    <3>2. order \in [Orders -> OrderRec]
      BY DEF IInv, TypeOK
    <3>3. order'[o].filled = IF o = trade.buy THEN order[o].filled + trade.qty ELSE order[o].filled
      BY <2>2, <3>1, <3>2 DEF Fill, OrderRec
    <3>4. Pending(o) = IF o \in {trade.buy, trade.sell} THEN trade.qty ELSE 0
      BY <3>1 DEF Pending
    <3>5. Pending(o)' = IF o = trade.sell THEN trade.qty ELSE 0
      BY <2>3, <3>1 DEF Pending
    <3> QED BY <1>0, <2>2, <2>3, <3>3, <3>4, <3>5 DEF Traded
  <2>5. CASE FillSell
    <3>1. /\ mpc = "fillSell" /\ mpc' = "updateBuy"
          /\ order' = [order EXCEPT ![trade.sell] = Fill(@, trade.qty)]
      BY <2>5 DEF FillSell, FillOrder
    <3>2. order \in [Orders -> OrderRec]
      BY DEF IInv, TypeOK
    <3>3. order'[o].filled = IF o = trade.sell THEN order[o].filled + trade.qty ELSE order[o].filled
      BY <2>2, <3>1, <3>2 DEF Fill, OrderRec
    <3>4. Pending(o) = IF o = trade.sell THEN trade.qty ELSE 0
      BY <3>1 DEF Pending
    <3>5. Pending(o)' = 0
      BY <2>3, <3>1 DEF Pending
    <3> QED BY <1>0, <2>2, <2>3, <3>3, <3>4, <3>5 DEF Traded
  <2> QED BY <1>2, <2>4, <2>5
<1>3. CASE ~(SaveTrade /\ mpc' = "fillBuy") /\ ~FillBuy /\ ~FillSell
  <2>1. trades' = trades
    BY <1>3, TradesGrow
  <2>2. order' = order
    BY <1>3 DEF EngineMove, CreateOrder, SaveOrder, SubmitOrder, PublishCreated, MatcherStep, Receive,
       SaveTrade, UpdateBuy, UpdateSell, UpdateOrder, UpdateTicker, PublishTrade,
       PublishBuy, PublishSell, PublishStep, Settle, RestOrder, InitStock, Stop, vars
  <2>3. \/ mpc' = mpc /\ trade' = trade
        \/ mpc \notin {"fillBuy", "fillSell"} /\ mpc' \notin {"fillBuy", "fillSell"}
    <3>1. CASE EngineMove
      BY <1>3, <3>1 DEF EngineMove, CreateOrder, SaveOrder, SubmitOrder, PublishCreated, MatcherStep, Receive,
         SaveTrade, UpdateBuy, UpdateSell, UpdateOrder, UpdateTicker, PublishTrade,
         PublishBuy, PublishSell, PublishStep, Settle, RestOrder, InitStock, matcherVars
    <3>2. CASE UNCHANGED vars \/ Stop
      BY <3>2 DEF Stop, vars, matcherVars
    <3> QED BY <3>1, <3>2
  <2>4. Pending(o)' = Pending(o)
    BY <2>3 DEF Pending
  <2> QED BY <1>0, <2>1, <2>2, <2>4 DEF Traded
<1> QED BY <1>1, <1>2, <1>3

\* What has been traded of an order only grows.
LEMMA TradedGrows ==
  ASSUME IInv, EngineMove \/ UNCHANGED vars \/ Stop, NEW o \in Orders
  PROVE  Traded(o) \in Nat /\ Traded(o)' \in Nat /\ Traded(o) <= Traded(o)'
<1>0. trades \in Seq(TradeRec)
  BY DEF IInv, TypeOK
<1>1. CASE trades' = trades
  <2>1. \E f \in [0..Len(trades) -> Nat] : TradedIn(trades, o) = f[Len(trades)]
    BY <1>0, TradedInSteps
  <2>2. Len(trades) \in 0..Len(trades)
    BY <1>0
  <2> QED BY <1>1, <2>1, <2>2 DEF Traded
<1>2. CASE SaveTrade /\ trades' = Append(trades, NextTrade) /\ mpc' = "fillBuy"
  <2>1. NextTrade \in TradeRec
    BY <1>2, NewTrade
  <2>2. /\ TradedIn(trades, o) \in Nat
        /\ TradedIn(trades', o) = TradedIn(trades, o) + Share(NextTrade, o)
    BY <1>0, <1>2, <2>1, TradedInAppend
  <2>3. Share(NextTrade, o) \in Nat
    BY <2>1 DEF Share, TradeRec
  <2> QED BY <2>2, <2>3 DEF Traded
<1> QED BY <1>1, <1>2, TradesGrow

-----------------------------------------------------------------------------
(***************************************************************************)
(* Steps of the pipeline.                                                  *)
(***************************************************************************)
EngineStep == /\ Alive /\ EngineMove /\ Piped
              /\ feed' = feed \/ (feed = "init" /\ feed' = "wait")

LEMMA StepCases ==
  ASSUME [PNext]_pvars
  PROVE  \/ EngineStep \/ Dispatch \/ FeedTake \/ FeedPublish \/ FeedEnd
         \/ WorkerReceive \/ WorkerTick \/ WorkerClosed
         \/ FlushOK \/ FlushFail \/ WorkerCtxDone
         \/ Signal \/ StopEngine \/ StopFeed \/ StopBus \/ StopWorker \/ Exit
         \/ UNCHANGED pvars
<1>1. ASSUME NEW o \in Orders, Handler(o) PROVE EngineStep
  BY <1>1 DEF Handler, EngineStep, EngineMove
<1>2. Engine \/ FeedStart => EngineStep
  BY DEF Engine, FeedStart, EngineStep, EngineMove
<1>3. Exited => UNCHANGED pvars
  BY DEF Exited
<1> QED BY <1>1, <1>2, <1>3 DEF PNext, WorkerStep, FeedStep, MainStep

\* Every step is a step of the engine or leaves it alone.
LEMMA EngineInside ==
  ASSUME [PNext]_pvars
  PROVE  [Next]_vars /\ (EngineMove \/ UNCHANGED vars \/ Stop)
<1>1. CASE EngineStep
  BY <1>1 DEF EngineStep, EngineMove, Next
<1>2. CASE StopEngine
  BY <1>2 DEF StopEngine, Next
<1>3. CASE ~EngineStep /\ ~StopEngine
  <2>1. UNCHANGED vars
    BY <1>3, StepCases DEF Dispatch, WorkerReceive, WorkerTick, WorkerClosed, FlushOK, FlushFail,
       WorkerCtxDone, FeedTake, FeedPublish, FeedEnd, Signal, StopFeed, StopBus, StopWorker, Exit, pvars
  <2> QED BY <2>1
<1> QED BY <1>1, <1>2, <1>3

Filling == {"fillBuy", "fillSell", "updateBuy", "updateSell", "ticker", "pubTrade"}

\* Until it is announced, the trade in progress is the last one stored.
LastTrade == mpc \in Filling => trades # <<>> /\ trades[Len(trades)] = trade

LEMMA LastTradeStep ==
  ASSUME IInv, LastTrade, EngineMove \/ UNCHANGED vars \/ Stop
  PROVE  LastTrade'
<1> SUFFICES ASSUME mpc' \in Filling
             PROVE  trades' # <<>> /\ trades'[Len(trades')] = trade'
  BY DEF LastTrade
<1>0. trades \in Seq(TradeRec)
  BY DEF IInv, TypeOK
<1>1. CASE SaveTrade
  <2>1. mpc' = "fillBuy" /\ trades' = Append(trades, NextTrade) /\ trade' = NextTrade
    BY <1>1 DEF SaveTrade, Filling
  <2>2. NextTrade \in TradeRec
    BY <1>1, <2>1, NewTrade
  <2> QED BY <1>0, <2>1, <2>2
<1>2. CASE ~SaveTrade
  <2>1. mpc \in Filling /\ trade' = trade
    <3>1. CASE EngineMove
      BY <1>2, <3>1 DEF EngineMove, CreateOrder, SaveOrder, SubmitOrder, PublishCreated,
         MatcherStep, Receive, FillBuy, FillSell, FillOrder, UpdateBuy, UpdateSell, UpdateOrder,
         UpdateTicker, PublishTrade, PublishBuy, PublishSell, PublishStep, Settle, RestOrder,
         InitStock, matcherVars, Filling
    <3>2. CASE UNCHANGED vars \/ Stop
      BY <3>2 DEF Stop, vars, matcherVars
    <3> QED BY <3>1, <3>2
  <2>2. trades' = trades
    BY <1>2, TradesGrow
  <2> QED BY <2>1, <2>2 DEF LastTrade
<1> QED BY <1>1, <1>2

\* What was stored stays as it is.
LEMMA TradesKept ==
  ASSUME IInv, EngineMove \/ UNCHANGED vars \/ Stop
  PROVE  /\ trades \in Seq(TradeRec)
         /\ DOMAIN trades \subseteq Nat /\ DOMAIN trades \subseteq DOMAIN trades'
         /\ \A n \in DOMAIN trades : trades'[n] = trades[n]
<1>0. trades \in Seq(TradeRec)
  BY DEF IInv, TypeOK
<1>1. CASE trades' = trades
  BY <1>0, <1>1
<1>2. CASE SaveTrade /\ trades' = Append(trades, NextTrade) /\ mpc' = "fillBuy"
  <2>1. NextTrade \in TradeRec
    BY <1>2, NewTrade
  <2> QED BY <1>0, <1>2, <2>1
<1> QED BY <1>1, <1>2, TradesGrow

-----------------------------------------------------------------------------
(***************************************************************************)
(* Operations and events on their way.                                     *)
(***************************************************************************)
EventTypes == {"OrderCreated", "OrderUpdated", "TradeExecuted", "TickerUpdated", "OrderBookUpdated"}
EventRec   == [type : EventTypes, ref : Orders \cup {NoOrder} \cup Nat]

\* An event about an order names one, and a trade it announces is stored.
EventOver(e, D) ==
  /\ e.type \in {"OrderCreated", "OrderUpdated"} => e.ref \in Orders
  /\ e.type = "TradeExecuted" => e.ref \in D

EventsOK(b, D) ==
  /\ b \in Seq(EventRec)
  /\ \A i \in 1..Len(b) : EventOver(b[i], D)

LEMMA OpsAppend ==
  ASSUME NEW s, NEW D, OpsOK(s, D), NEW op \in OpRec, OpOver(op, D)
  PROVE  OpsOK(Append(s, op), D) /\ Len(Append(s, op)) = Len(s) + 1
<1> DEFINE r == Append(s, op)
<1>1. s \in Seq(OpRec) /\ r \in Seq(OpRec) /\ Len(r) = Len(s) + 1
  BY DEF OpsOK
<1>2. \A i \in 1..Len(r) : r[i] = IF i <= Len(s) THEN s[i] ELSE op
  BY <1>1
<1> HIDE DEF r
<1>3. \A i \in 1..Len(r) : OpOver(r[i], D)
  BY <1>1, <1>2 DEF OpsOK
<1>4. OpsOK(r, D) /\ Len(r) = Len(s) + 1
  BY <1>1, <1>3 DEF OpsOK
<1> QED BY <1>4 DEF r

LEMMA OpsTail ==
  ASSUME NEW s, NEW D, OpsOK(s, D), s # <<>>
  PROVE  /\ OpsOK(Tail(s), D) /\ Len(Tail(s)) = Len(s) - 1
         /\ Head(s) \in OpRec /\ OpOver(Head(s), D) /\ Head(s) = s[1]
<1>1. /\ s \in Seq(OpRec) /\ Tail(s) \in Seq(OpRec) /\ Len(Tail(s)) = Len(s) - 1
      /\ Head(s) = s[1] /\ 1 \in 1..Len(s)
  BY DEF OpsOK
<1>2. \A i \in 1..Len(Tail(s)) : Tail(s)[i] = s[i + 1] /\ i + 1 \in 1..Len(s)
  BY <1>1
<1> QED BY <1>1, <1>2 DEF OpsOK

LEMMA OpsEmpty == ASSUME NEW D PROVE OpsOK(<<>>, D)
BY DEF OpsOK

LEMMA OpsMore ==
  ASSUME NEW s, NEW D, NEW E, OpsOK(s, D), D \subseteq E
  PROVE  OpsOK(s, E)
BY DEF OpsOK, OpOver

LEMMA EventsAppend ==
  ASSUME NEW b, NEW D, EventsOK(b, D), NEW e \in EventRec, EventOver(e, D)
  PROVE  EventsOK(Append(b, e), D) /\ Len(Append(b, e)) = Len(b) + 1
<1> DEFINE r == Append(b, e)
<1>1. b \in Seq(EventRec) /\ r \in Seq(EventRec) /\ Len(r) = Len(b) + 1
  BY DEF EventsOK
<1>2. \A i \in 1..Len(r) : r[i] = IF i <= Len(b) THEN b[i] ELSE e
  BY <1>1
<1> HIDE DEF r
<1>3. \A i \in 1..Len(r) : EventOver(r[i], D)
  BY <1>1, <1>2 DEF EventsOK
<1>4. EventsOK(r, D) /\ Len(r) = Len(b) + 1
  BY <1>1, <1>3 DEF EventsOK
<1> QED BY <1>4 DEF r

LEMMA EventsTail ==
  ASSUME NEW b, NEW D, EventsOK(b, D), b # <<>>
  PROVE  /\ EventsOK(Tail(b), D) /\ Len(Tail(b)) = Len(b) - 1
         /\ Head(b) \in EventRec /\ EventOver(Head(b), D) /\ Head(b) = b[1]
<1>1. /\ b \in Seq(EventRec) /\ Tail(b) \in Seq(EventRec) /\ Len(Tail(b)) = Len(b) - 1
      /\ Head(b) = b[1] /\ 1 \in 1..Len(b)
  BY DEF EventsOK
<1>2. \A i \in 1..Len(Tail(b)) : Tail(b)[i] = b[i + 1] /\ i + 1 \in 1..Len(b)
  BY <1>1
<1> QED BY <1>1, <1>2 DEF EventsOK

LEMMA EventsMore ==
  ASSUME NEW b, NEW D, NEW E, EventsOK(b, D), D \subseteq E
  PROVE  EventsOK(b, E)
BY DEF EventsOK, EventOver

-----------------------------------------------------------------------------
(***************************************************************************)
(* What the engine publishes and what the dispatcher makes of it.          *)
(***************************************************************************)
\* An engine step publishes nothing, or one event about what is there.
LEMMA PubFacts ==
  ASSUME IInv, LastTrade, EngineMove
  PROVE  \/ pub' = <<>>
         \/ \E e \in EventRec : pub' = <<e>> /\ EventOver(e, DOMAIN trades')
<1>0. trades \in Seq(TradeRec)
  BY DEF IInv, TypeOK
<1>1. ASSUME NEW o \in Orders, PublishCreated(o)
      PROVE  \E e \in EventRec : pub' = <<e>> /\ EventOver(e, DOMAIN trades')
  <2>1. Event("OrderCreated", o) \in EventRec
    BY DEF Event, EventRec, EventTypes
  <2>2. pub' = <<Event("OrderCreated", o)>>
    BY <1>1 DEF PublishCreated, Publish
  <2>3. EventOver(Event("OrderCreated", o), DOMAIN trades')
    BY DEF EventOver, Event
  <2> QED BY <2>1, <2>2, <2>3
<1>2. CASE PublishTrade
  <2>1. trades # <<>> /\ trades' = trades
    BY <1>2 DEF PublishTrade, PublishStep, LastTrade, Filling
  <2>2. Len(trades) \in DOMAIN trades' /\ Len(trades) \in Nat
    BY <1>0, <2>1
  <2>3. Event("TradeExecuted", Len(trades)) \in EventRec
    BY <2>2 DEF Event, EventRec, EventTypes
  <2>4. pub' = <<Event("TradeExecuted", Len(trades))>>
    BY <1>2 DEF PublishTrade, PublishStep, Publish
  <2>5. EventOver(Event("TradeExecuted", Len(trades)), DOMAIN trades')
    BY <2>2 DEF EventOver, Event
  <2> QED BY <2>3, <2>4, <2>5
<1>3. ASSUME NEW o \in Orders, pub' = <<Event("OrderUpdated", o)>>
      PROVE  \E e \in EventRec : pub' = <<e>> /\ EventOver(e, DOMAIN trades')
  <2>1. Event("OrderUpdated", o) \in EventRec
    BY DEF Event, EventRec, EventTypes
  <2>2. EventOver(Event("OrderUpdated", o), DOMAIN trades')
    BY DEF EventOver, Event
  <2> QED BY <1>3, <2>1, <2>2
<1>4. CASE PublishBuy \/ PublishSell
  <2>1. mpc \in TradeSteps
    BY <1>4 DEF PublishBuy, PublishSell, PublishStep, TradeSteps
  <2>2. trade.buy \in Orders /\ trade.sell \in Orders
    BY <2>1, TradeParties
  <2>3. \/ pub' = <<Event("OrderUpdated", trade.buy)>>
        \/ pub' = <<Event("OrderUpdated", trade.sell)>>
    BY <1>4 DEF PublishBuy, PublishSell, PublishStep, Publish
  <2> QED BY <1>3, <2>2, <2>3
<1>5. ASSUME NEW t \in {"TickerUpdated", "OrderBookUpdated"}, pub' = <<Event(t, NoOrder)>>
      PROVE  \E e \in EventRec : pub' = <<e>> /\ EventOver(e, DOMAIN trades')
  <2>1. Event(t, NoOrder) \in EventRec
    BY DEF Event, EventRec, EventTypes
  <2>2. EventOver(Event(t, NoOrder), DOMAIN trades')
    BY DEF EventOver, Event
  <2> QED BY <1>5, <2>1, <2>2
<1>6. CASE UpdateTicker \/ RestOrder
  <2>1. \/ pub' = <<>>
        \/ pub' = <<Event("TickerUpdated", NoOrder)>>
        \/ pub' = <<Event("OrderBookUpdated", NoOrder)>>
    BY <1>6 DEF UpdateTicker, RestOrder, Publish, NoPublish
  <2> QED BY <1>5, <2>1
<1>7. ASSUME NEW o \in Orders, SaveOrder(o) \/ SubmitOrder(o) PROVE pub' = <<>>
  BY <1>7 DEF SaveOrder, SubmitOrder, NoPublish
<1>8. CASE Receive \/ SaveTrade \/ FillBuy \/ FillSell \/ UpdateBuy \/ UpdateSell \/ Settle \/ InitStock
  BY <1>8 DEF Receive, SaveTrade, FillBuy, FillSell, FillOrder, UpdateBuy, UpdateSell, UpdateOrder,
     Settle, InitStock, NoPublish
<1> QED BY <1>1, <1>2, <1>4, <1>6, <1>7, <1>8 DEF EngineMove, CreateOrder, MatcherStep

\* An event enters the bus or is lost.
LEMMA PublishFacts ==
  ASSUME IInv, LastTrade, EngineMove, BusPublish(pub'), bus \in Seq(EventRec)
  PROVE  \/ pub' = <<>> /\ bus' = bus /\ losses' = losses
         \/ /\ bus' = bus
            /\ \/ losses' = losses \cup {"busFull"}
               \/ busClosed /\ losses' = losses \cup {"panic"}
         \/ \E e \in EventRec :
              /\ pub' = <<e>> /\ EventOver(e, DOMAIN trades')
              /\ Len(bus) < BusCap
              /\ bus' = Append(bus, e)
              /\ losses' = losses
<1>1. CASE pub' = <<>>
  BY <1>1 DEF BusPublish
<1>2. ASSUME NEW e \in EventRec, pub' = <<e>>, EventOver(e, DOMAIN trades'),
             Len(bus) < BusCap, bus' = bus \o pub', losses' = losses
      PROVE  bus' = Append(bus, e)
  <2>1. bus \o <<e>> = Append(bus, e)
    OBVIOUS
  <2> QED BY <1>2, <2>1
<1> QED BY <1>1, <1>2, PubFacts DEF BusPublish

Tick == Event("TickerUpdated", NoOrder)

LEMMA TickFacts == Tick \in EventRec /\ Tick.type = "TickerUpdated" /\ \A D : EventOver(Tick, D)
BY DEF Tick, Event, EventRec, EventTypes, EventOver

\* A price enters the bus or is lost, or it finds the bus closed.
PriceSent ==
  \/ main' = main /\ bus' = bus /\ losses' = losses \cup {"busFull"}
  \/ main' = main /\ Len(bus) < BusCap /\ bus' = Append(bus, Tick) /\ losses' = losses
  \/ busClosed /\ main' = "crash" /\ bus' = bus /\ losses' = losses

LEMMA FeedPublishFacts ==
  ASSUME FeedPublish, bus \in Seq(EventRec)
  PROVE  PriceSent /\ UNCHANGED <<vars, busClosed, workerVars, ticks, enqueued, joined>>
<1>1. <<Tick>> # <<>> /\ bus \o <<Tick>> = Append(bus, Tick)
  BY TickFacts
<1>2. UNCHANGED <<vars, busClosed, workerVars, ticks, enqueued, joined>>
  BY DEF FeedPublish
<1>3. CASE ~busClosed
  <2>1. BusPublish(<<Tick>>) /\ main' = main
    BY <1>3 DEF FeedPublish, Tick
  <2> QED BY <1>1, <1>2, <1>3, <2>1 DEF BusPublish, PriceSent
<1>4. CASE busClosed
  BY <1>2, <1>4 DEF FeedPublish, PriceSent
<1> QED BY <1>3, <1>4

\* A copy of a live order is a row that has not been traded beyond, and the
\* order itself unless the matcher is just filling it.
LEMMA CopiesFacts ==
  ASSUME IInv, FillsAreTrades, NEW o \in Orders, NEW row \in Copies(o)
  PROVE  /\ row \in RowRec /\ row.status # "NONE"
         /\ row.filled <= Traded(o)
         /\ \/ row = Row(order[o])
            \/ mpc = "fillBuy" /\ o = trade.buy
            \/ mpc = "fillSell" /\ o = trade.sell
<1> DEFINE filling == \/ mpc = "fillBuy" /\ o = trade.buy
                      \/ mpc = "fillSell" /\ o = trade.sell
           new == IF filling THEN Fill(order[o], trade.qty) ELSE order[o]
<1>0. /\ order[o].filled \in Nat /\ order[o].status \in Statuses
      /\ Traded(o) = order[o].filled + Pending(o)
      /\ order[o] \in OrderRec
  BY OrderFacts DEF IInv, FillsAreTrades
<1>1. row \in [status : {order[o].status, new.status}, filled : {order[o].filled, new.filled}]
  BY DEF Copies
<1>2. /\ row = [status |-> row.status, filled |-> row.filled]
      /\ row.status \in {order[o].status, new.status}
      /\ row.filled \in {order[o].filled, new.filled}
  BY <1>1
<1>3. CASE filling
  <2>1. mpc \in TradeSteps
    BY <1>3 DEF TradeSteps
  <2>2. trade.qty \in Nat
    BY <2>1, TradeParties
  <2>3. Pending(o) = trade.qty
    BY <1>3 DEF Pending
  <2>4. new.filled = order[o].filled + trade.qty /\ new.status \in Statuses
    BY <1>0, <1>3 DEF Fill, OrderRec, Statuses
  <2> HIDE DEF new
  <2>5. row.filled \in Nat /\ row.filled <= Traded(o) /\ row.status \in Statuses
    BY <1>0, <1>2, <2>2, <2>3, <2>4
  <2> QED BY <1>2, <1>3, <2>5 DEF RowRec, Statuses
<1>4. CASE ~filling
  <2>1. row.status = order[o].status /\ row.filled = order[o].filled
    BY <1>2, <1>4
  <2>2. Pending(o) \in Nat
    <3>1. CASE mpc \in TradeSteps
      BY <3>1, TradeParties DEF Pending
    <3>2. CASE mpc \notin TradeSteps
      BY <3>2 DEF Pending, TradeSteps
    <3> QED BY <3>1, <3>2
  <2>3. row.filled <= Traded(o)
    BY <1>0, <2>1, <2>2
  <2>4. row = Row(order[o])
    BY <1>2, <2>1 DEF Row
  <2> QED BY <1>0, <2>1, <2>3, <2>4, <1>2 DEF RowRec, Statuses
<1> QED BY <1>3, <1>4

OpenRow == [status |-> "OPEN", filled |-> 0]

\* op is what the handler of event e writes.
WrittenFor(e, op) ==
  \/ e.type = "OrderCreated" /\ op = OrderOp(e.ref, OpenRow)
  \/ e.type = "OrderUpdated" /\ \E row \in Copies(e.ref) : op = OrderOp(e.ref, row)
  \/ e.type = "TradeExecuted" /\ op = TradeOp(e.ref)

\* The dispatcher takes the first event, and its write enters the queue, is
\* lost, or is not called for.
LEMMA DispatchFacts ==
  ASSUME IInv, FillsAreTrades, EventsOK(bus, DOMAIN trades), OpsOK(queue, DOMAIN trades), Dispatch
  PROVE  /\ bus # <<>> /\ bus' = Tail(bus)
         /\ \/ /\ Head(bus).type \notin {"OrderCreated", "OrderUpdated", "TradeExecuted"}
               /\ queue' = queue /\ enqueued' = enqueued /\ losses' = losses
            \/ /\ queue' = queue /\ enqueued' = enqueued
               /\ losses' = losses \cup {"stopped"} \/ losses' = losses \cup {"queueFull"}
            \/ \E op \in OpRec :
                 /\ WrittenFor(Head(bus), op) /\ OpOver(op, DOMAIN trades)
                 /\ op.kind = "order" => op.row.filled <= Traded(op.id)
                 /\ ~stopped /\ Len(queue) < QueueCap
                 /\ queue' = Append(queue, op) /\ losses' = losses
                 /\ enqueued' = enqueued \cup {x \in {op.id} : op.kind = "trade"}
<1> DEFINE e == Head(bus)
<1>0. bus # <<>> /\ bus' = Tail(bus)
  BY DEF Dispatch
<1>1. e \in EventRec /\ EventOver(e, DOMAIN trades)
  BY <1>0, EventsTail
<1>2. PICK ops \in OpsFor(e) : Enqueue(ops)
  BY DEF Dispatch
<1>3. CASE e.type \notin {"OrderCreated", "OrderUpdated", "TradeExecuted"}
  <2>1. ops = <<>>
    BY <1>2, <1>3 DEF OpsFor
  <2> QED BY <1>0, <1>2, <1>3, <2>1 DEF Enqueue
<1>4. ASSUME e.type \in {"OrderCreated", "OrderUpdated", "TradeExecuted"}
      PROVE  \E op \in OpRec : /\ ops = <<op>> /\ WrittenFor(e, op) /\ OpOver(op, DOMAIN trades)
                               /\ op.kind = "order" => op.row.filled <= Traded(op.id)
  <2>1. CASE e.type = "OrderCreated"
    <3>1. ops = <<OrderOp(e.ref, OpenRow)>> /\ e.ref \in Orders
      BY <1>1, <1>2, <2>1 DEF OpsFor, OpenRow, EventOver
    <3>2. OpenRow \in RowRec /\ OpenRow.status # "NONE" /\ OpenRow.filled = 0
      BY DEF OpenRow, RowRec, Statuses
    <3>3. OrderOp(e.ref, OpenRow) \in OpRec /\ OpOver(OrderOp(e.ref, OpenRow), DOMAIN trades)
      BY <3>1, <3>2 DEF OrderOp, OpRec, OpOver
    <3>4. 0 <= Traded(e.ref)
      <4>1. trades \in Seq(TradeRec)
        BY DEF IInv, TypeOK
      <4>2. \E f \in [0..Len(trades) -> Nat] : TradedIn(trades, e.ref) = f[Len(trades)]
        BY <4>1, TradedInSteps
      <4>3. Len(trades) \in 0..Len(trades)
        BY <4>1
      <4> QED BY <4>2, <4>3 DEF Traded
    <3>5. OrderOp(e.ref, OpenRow).row.filled <= Traded(OrderOp(e.ref, OpenRow).id)
      BY <3>2, <3>4 DEF OrderOp
    <3> QED BY <2>1, <3>1, <3>3, <3>5 DEF WrittenFor
  <2>2. CASE e.type = "OrderUpdated"
    <3>1. e.ref \in Orders
      BY <1>1, <2>2 DEF EventOver
    <3>2. PICK row \in Copies(e.ref) : ops = <<OrderOp(e.ref, row)>>
      BY <1>2, <2>2 DEF OpsFor
    <3>3. row \in RowRec /\ row.status # "NONE" /\ row.filled <= Traded(e.ref)
      BY <3>1, CopiesFacts
    <3>4. OrderOp(e.ref, row) \in OpRec /\ OpOver(OrderOp(e.ref, row), DOMAIN trades)
      BY <3>1, <3>3 DEF OrderOp, OpRec, OpOver
    <3>5. OrderOp(e.ref, row).row.filled <= Traded(OrderOp(e.ref, row).id)
      BY <3>3 DEF OrderOp
    <3> QED BY <2>2, <3>2, <3>4, <3>5 DEF WrittenFor
  <2>3. CASE e.type = "TradeExecuted"
    <3>1. ops = <<TradeOp(e.ref)>> /\ e.ref \in DOMAIN trades /\ e.ref \in Nat
      <4>1. trades \in Seq(TradeRec)
        BY DEF IInv, TypeOK
      <4> QED BY <1>1, <1>2, <2>3, <4>1 DEF OpsFor, EventOver
    <3>2. NoRow \in RowRec
      BY DEF NoRow, RowRec
    <3>3. TradeOp(e.ref) \in OpRec /\ OpOver(TradeOp(e.ref), DOMAIN trades)
      BY <3>1, <3>2 DEF TradeOp, OpRec, OpOver
    <3>4. TradeOp(e.ref).kind # "order"
      BY DEF TradeOp
    <3> QED BY <2>3, <3>1, <3>3, <3>4 DEF WrittenFor
  <2> QED BY <1>4, <2>1, <2>2, <2>3
<1>5. CASE e.type \in {"OrderCreated", "OrderUpdated", "TradeExecuted"}
  <2>1. PICK op \in OpRec : /\ ops = <<op>> /\ WrittenFor(e, op) /\ OpOver(op, DOMAIN trades)
                            /\ op.kind = "order" => op.row.filled <= Traded(op.id)
    BY <1>4, <1>5
  <2>2. ops # <<>>
    BY <2>1
  <2>3. queue \o ops = Append(queue, op)
    BY <2>1 DEF OpsOK
  <2>4. {x.id : x \in {y \in ToSet(ops) : y.kind = "trade"}} = {x \in {op.id} : op.kind = "trade"}
    <3>1. ToSet(ops) = {op}
      BY <2>1 DEF ToSet
    <3> QED BY <3>1
  <2>5. \/ /\ queue' = queue /\ enqueued' = enqueued
           /\ losses' = losses \cup {"stopped"} \/ losses' = losses \cup {"queueFull"}
        \/ /\ ~stopped /\ Len(queue) < QueueCap
           /\ queue' = Append(queue, op) /\ losses' = losses
           /\ enqueued' = enqueued \cup {x \in {op.id} : op.kind = "trade"}
    BY <1>2, <2>2, <2>3, <2>4 DEF Enqueue
  <2> QED BY <1>0, <2>1, <2>5
<1> QED BY <1>3, <1>5

-----------------------------------------------------------------------------
(***************************************************************************)
(* The first invariant: types and capacities of the pipeline.              *)
(***************************************************************************)
Stages == {"serve", "http", "engine", "feed", "bus", "worker", "exit", "crash"}

PipeTypes ==
  /\ EventsOK(bus, DOMAIN trades) /\ Len(bus) <= BusCap
  /\ OpsOK(queue, DOMAIN trades) /\ Len(queue) <= QueueCap
  /\ OpsOK(batch, DOMAIN trades) /\ Len(batch) <= BatchSize
  /\ wpc = "select" => Len(batch) < BatchSize
  /\ wpc \in {"select", "flush", "final", "done"}
  /\ attempt \in 0..RetryMax
  /\ TablesOK /\ db.trades \subseteq DOMAIN trades
  /\ main \in Stages
  /\ losses \subseteq Losses

\* The batch is in the tables.
Committed == Applied.ok /\ db' = [orders |-> Applied.orders, trades |-> Applied.trades]

LEMMA CommitFacts ==
  ASSUME TypeOK, PipeTypes, Committed
  PROVE  /\ TablesOK' /\ db'.trades \subseteq DOMAIN trades
         /\ db'.orders = Applied.orders /\ db'.trades = Applied.trades
         /\ Applied \in Acc /\ Outcome(Applied, Len(batch))
<1>1. Applied \in Acc /\ Outcome(Applied, Len(batch))
  BY AppliedFacts DEF PipeTypes
<1>2. /\ DOMAIN db' = {"orders", "trades"}
      /\ db'.orders = Applied.orders /\ db'.trades = Applied.trades
  BY DEF Committed
<1>3. TablesOK'
  BY <1>1, <1>2 DEF TablesOK, Acc
<1>4. ASSUME NEW x \in Applied.trades PROVE x \in DOMAIN trades
  <2>1. CASE x \in db.trades
    BY <2>1 DEF PipeTypes
  <2>2. ASSUME NEW i \in 1..Len(batch), batch[i].kind = "trade", batch[i].id = x
        PROVE  x \in DOMAIN trades
    BY <2>2 DEF PipeTypes, OpsOK, OpOver
  <2> QED BY <1>1, <2>1, <2>2 DEF Outcome
<1> QED BY <1>1, <1>2, <1>3, <1>4

\* How an attempt to flush can end.
LEMMA FlushFacts ==
  ASSUME FlushOK \/ FlushFail, attempt \in 0..RetryMax
  PROVE  /\ UNCHANGED <<vars, busVars, queue, stopped, main, feedState, enqueued, joined>>
         /\ wpc \in {"flush", "final"}
         /\ db' = db \/ Committed
         /\ \/ /\ batch' = batch /\ wpc' = wpc /\ losses' = losses
               /\ attempt' \in 0..RetryMax
               /\ landed' \in BOOLEAN
               /\ landed' => Committed \/ (landed /\ db' = db)
            \/ /\ batch' = <<>> /\ attempt' = 0 /\ landed' = FALSE
               /\ wpc' = IF wpc = "final" THEN "done" ELSE "select"
               /\ \/ losses' = losses /\ Committed
                  \/ losses' = losses \cup {"gaveUp"}
<1>1. CASE FlushOK
  BY <1>1 DEF FlushOK, FlushDone, Committed
<1>2. CASE FlushFail
  <2>1. /\ UNCHANGED <<vars, busVars, queue, stopped, main, feedState, enqueued, joined>>
        /\ wpc \in {"flush", "final"}
    BY <1>2 DEF FlushFail
  <2>0. PICK committed \in {FALSE, Applied.ok} :
          /\ db' = IF committed THEN [orders |-> Applied.orders, trades |-> Applied.trades] ELSE db
          /\ \/ /\ attempt < RetryMax
                /\ attempt' = attempt + 1
                /\ landed' = (landed \/ committed)
                /\ UNCHANGED <<batch, wpc, losses>>
             \/ /\ attempt >= RetryMax
                /\ FlushDone
                /\ losses' = losses \cup {"gaveUp"}
    BY <1>2 DEF FlushFail
  <2>a. \/ committed /\ Committed
        \/ ~committed /\ db' = db
    BY <2>0 DEF Committed
  <2>2. CASE attempt < RetryMax
    <3>1. attempt' = attempt + 1 /\ batch' = batch /\ wpc' = wpc /\ losses' = losses
      BY <2>0, <2>2, PipelineAssumption
    <3>2. attempt' \in 0..RetryMax
      BY <2>2, <3>1, PipelineAssumption
    <3>3. landed' = (landed \/ committed)
      BY <2>0, <2>2, PipelineAssumption
    <3>4. landed' \in BOOLEAN /\ (landed' => Committed \/ (landed /\ db' = db))
      BY Zenon, <2>a, <3>3
    <3> QED BY <2>1, <2>a, <3>1, <3>2, <3>4
  <2>3. CASE ~(attempt < RetryMax)
    <3>1. FlushDone /\ losses' = losses \cup {"gaveUp"}
      BY <2>0, <2>3
    <3> QED BY <2>1, <2>a, <3>1 DEF FlushDone
  <2> QED BY <2>2, <2>3
<1> QED BY <1>1, <1>2

LEMMA PipeTypesStep ==
  ASSUME IInv, FillsAreTrades, LastTrade, PipeTypes, [PNext]_pvars
  PROVE  PipeTypes'
<1> DEFINE D == DOMAIN trades
<1>0. /\ EventsOK(bus, D) /\ Len(bus) <= BusCap
      /\ OpsOK(queue, D) /\ Len(queue) <= QueueCap
      /\ OpsOK(batch, D) /\ Len(batch) <= BatchSize
      /\ (wpc = "select" => Len(batch) < BatchSize)
      /\ wpc \in {"select", "flush", "final", "done"}
      /\ attempt \in 0..RetryMax
      /\ TablesOK /\ db.trades \subseteq D
      /\ main \in Stages
      /\ losses \subseteq Losses
  BY DEF PipeTypes
<1>a. D \subseteq DOMAIN trades'
  BY EngineInside, TradesKept
<1>b. Len(bus) \in Nat /\ Len(queue) \in Nat /\ Len(batch) \in Nat
  BY <1>0 DEF EventsOK, OpsOK
<1>c. TypeOK
  BY DEF IInv
<1>1. CASE EngineStep
  <2>1. /\ EngineMove /\ BusPublish(pub')
        /\ UNCHANGED <<queue, stopped, batch, wpc, attempt, db, main>>
    BY <1>1 DEF EngineStep, Piped, workerVars
  <2>2. bus \in Seq(EventRec)
    BY <1>0 DEF EventsOK
  <2>3. EventsOK(bus, DOMAIN trades')
    BY <1>0, <1>a, EventsMore
  <2>4. EventsOK(bus', DOMAIN trades') /\ Len(bus') <= BusCap /\ losses' \subseteq Losses
    <3>1. CASE bus' = bus /\ losses' \in {losses, losses \cup {"busFull"}, losses \cup {"panic"}}
      BY <1>0, <2>3, <3>1 DEF Losses
    <3>2. ASSUME NEW e \in EventRec, EventOver(e, DOMAIN trades'), Len(bus) < BusCap,
                 bus' = Append(bus, e), losses' = losses
          PROVE  EventsOK(bus', DOMAIN trades') /\ Len(bus') <= BusCap /\ losses' \subseteq Losses
      <4>1. EventsOK(Append(bus, e), DOMAIN trades') /\ Len(Append(bus, e)) = Len(bus) + 1
        BY <2>3, <3>2, EventsAppend
      <4> QED BY <1>0, <1>b, <3>2, <4>1, PipelineAssumption
    <3> QED BY <2>1, <2>2, <3>1, <3>2, PublishFacts
  <2>5. OpsOK(queue, DOMAIN trades') /\ OpsOK(batch, DOMAIN trades')
    BY <1>0, <1>a, OpsMore
  <2>6. TablesOK' /\ db'.trades \subseteq DOMAIN trades'
    BY <1>0, <1>a, <2>1 DEF TablesOK
  <2> QED BY <1>0, <2>1, <2>4, <2>5, <2>6 DEF PipeTypes
<1>2. CASE Dispatch
  <2>1. /\ UNCHANGED <<batch, wpc, attempt, db, main>> /\ trades' = trades
    BY <1>2 DEF Dispatch, vars
  <2>2. bus # <<>> /\ bus' = Tail(bus)
    BY <1>2 DEF Dispatch
  <2>3. EventsOK(bus', D) /\ Len(bus') <= BusCap
    <3>1. EventsOK(Tail(bus), D) /\ Len(Tail(bus)) = Len(bus) - 1
      BY <1>0, <2>2, EventsTail
    <3> QED BY <1>0, <1>b, <2>2, <3>1, PipelineAssumption
  <2>4. OpsOK(queue', D) /\ Len(queue') <= QueueCap /\ losses' \subseteq Losses
    <3>1. CASE queue' = queue /\ losses' \in {losses, losses \cup {"stopped"}, losses \cup {"queueFull"}}
      BY <1>0, <3>1 DEF Losses
    <3>2. ASSUME NEW op \in OpRec, OpOver(op, D), Len(queue) < QueueCap,
                 queue' = Append(queue, op), losses' = losses
          PROVE  OpsOK(queue', D) /\ Len(queue') <= QueueCap /\ losses' \subseteq Losses
      <4>1. OpsOK(Append(queue, op), D) /\ Len(Append(queue, op)) = Len(queue) + 1
        BY <1>0, <3>2, OpsAppend
      <4> QED BY <1>0, <1>b, <3>2, <4>1, PipelineAssumption
    <3> QED BY <1>0, <1>2, <3>1, <3>2, DispatchFacts
  <2>5. TablesOK'
    BY <1>0, <2>1 DEF TablesOK
  <2> QED BY <1>0, <2>1, <2>3, <2>4, <2>5 DEF PipeTypes
<1>3. CASE WorkerReceive
  <2>1. /\ UNCHANGED <<attempt, db, main, losses>> /\ trades' = trades /\ bus' = bus
        /\ wpc = "select" /\ queue # <<>>
        /\ batch' = Append(batch, Head(queue)) /\ queue' = Tail(queue)
        /\ wpc' = IF Len(batch') >= BatchSize THEN "flush" ELSE "select"
    BY <1>3 DEF WorkerReceive, vars, busVars
  <2>2. /\ OpsOK(Tail(queue), D) /\ Len(Tail(queue)) = Len(queue) - 1
        /\ Head(queue) \in OpRec /\ OpOver(Head(queue), D)
    BY <1>0, <2>1, OpsTail
  <2>3. OpsOK(Append(batch, Head(queue)), D) /\ Len(Append(batch, Head(queue))) = Len(batch) + 1
    BY <1>0, <2>2, OpsAppend
  <2>4. /\ OpsOK(queue', D) /\ Len(queue') <= QueueCap
        /\ OpsOK(batch', D) /\ Len(batch') <= BatchSize
        /\ wpc' = "select" => Len(batch') < BatchSize
        /\ wpc' \in {"select", "flush", "final", "done"}
    BY <1>0, <1>b, <2>1, <2>2, <2>3, PipelineAssumption
  <2>5. TablesOK'
    BY <1>0, <2>1 DEF TablesOK
  <2> QED BY <1>0, <2>1, <2>4, <2>5 DEF PipeTypes
<1>4. CASE FlushOK \/ FlushFail
  <2>1. trades' = trades /\ bus' = bus /\ queue' = queue /\ main' = main
    BY <1>0, <1>4, FlushFacts DEF vars, busVars
  <2>2. TablesOK' /\ db'.trades \subseteq D
    <3>1. CASE db' = db
      BY <1>0, <3>1 DEF TablesOK
    <3>2. CASE Committed
      BY <1>c, <3>2, CommitFacts
    <3> QED BY <1>0, <1>4, <3>1, <3>2, FlushFacts
  <2>3. /\ OpsOK(batch', D) /\ Len(batch') <= BatchSize
        /\ wpc' = "select" => Len(batch') < BatchSize
        /\ wpc' \in {"select", "flush", "final", "done"}
        /\ attempt' \in 0..RetryMax
        /\ losses' \subseteq Losses
    <3>1. CASE batch' = batch /\ wpc' = wpc /\ losses' = losses /\ attempt' \in 0..RetryMax
      BY <1>0, <3>1
    <3>2. CASE /\ batch' = <<>> /\ attempt' = 0
               /\ wpc' = IF wpc = "final" THEN "done" ELSE "select"
               /\ losses' = losses \/ losses' = losses \cup {"gaveUp"}
      <4>1. OpsOK(<<>>, D)
        BY OpsEmpty
      <4>2. Len(batch') = 0
        BY <3>2
      <4>3. losses' \subseteq Losses
        BY <1>0, <3>2 DEF Losses
      <4> QED BY <3>2, <4>1, <4>2, <4>3, PipelineAssumption
    <3> QED BY <1>0, <1>4, <3>1, <3>2, FlushFacts
  <2> QED BY <1>0, <2>1, <2>2, <2>3 DEF PipeTypes
<1>5. CASE \/ WorkerTick \/ WorkerClosed \/ WorkerCtxDone \/ FeedTake \/ FeedEnd
           \/ Signal \/ StopEngine \/ StopFeed \/ StopBus \/ StopWorker \/ Exit
           \/ UNCHANGED pvars
  <2>1. UNCHANGED <<trades, bus, queue, batch, attempt, db, losses>>
    BY <1>5 DEF WorkerTick, WorkerClosed, WorkerCtxDone, FeedTake, FeedEnd, Signal, StopEngine, Stop, StopFeed, StopBus,
       StopWorker, Exit, pvars, vars, busVars, workerVars
  <2>2. /\ main' \in Stages
        /\ wpc' \in {"flush", "final", "done"} \/ wpc' = wpc
    BY <1>0, <1>5 DEF WorkerTick, WorkerClosed, WorkerCtxDone, FeedTake, FeedEnd, Signal, StopEngine, StopFeed, StopBus,
       StopWorker, Exit, pvars, workerVars, Stages
  <2>3. TablesOK'
    BY <1>0, <2>1 DEF TablesOK
  <2>4. wpc' = "select" => wpc = "select"
    BY <2>2
  <2> QED BY <1>0, <2>1, <2>2, <2>3, <2>4 DEF PipeTypes
<1>6. CASE FeedPublish
  <2>1. bus \in Seq(EventRec)
    BY <1>0 DEF EventsOK
  <2>2. PriceSent /\ UNCHANGED <<trades, queue, batch, wpc, attempt, db>>
    BY <1>6, <2>1, FeedPublishFacts DEF vars, workerVars
  <2>3. EventsOK(bus', D) /\ Len(bus') <= BusCap
    <3>1. EventsOK(Append(bus, Tick), D) /\ Len(Append(bus, Tick)) = Len(bus) + 1
      <4>1. Tick \in EventRec /\ EventOver(Tick, D)
        BY TickFacts
      <4> HIDE DEF D
      <4> QED BY <1>0, <4>1, EventsAppend
    <3>2. bus' = bus \/ (Len(bus) < BusCap /\ bus' = Append(bus, Tick))
      BY <2>2 DEF PriceSent
    <3> HIDE DEF D
    <3>3. CASE bus' = bus
      BY <1>0, <3>3
    <3>4. CASE Len(bus) < BusCap /\ bus' = Append(bus, Tick)
      <4>1. EventsOK(bus', D) /\ Len(bus') = Len(bus) + 1
        BY <3>1, <3>4
      <4> QED BY <1>b, <3>4, <4>1, PipelineAssumption
    <3> QED BY <3>2, <3>3, <3>4
  <2>4. main' \in Stages /\ losses' \subseteq Losses
    BY <1>0, <2>2 DEF PriceSent, Stages, Losses
  <2>5. TablesOK'
    BY <1>0, <2>2 DEF TablesOK
  <2> QED BY <1>0, <2>2, <2>3, <2>4, <2>5 DEF PipeTypes
<1> QED BY <1>1, <1>2, <1>3, <1>4, <1>5, <1>6, StepCases

-----------------------------------------------------------------------------
(***************************************************************************)
(* The database never runs ahead of the engine.  Whatever is on its way to *)
(* it has been traded already, and a row is not taken away again.          *)
(***************************************************************************)
TradedSoFar == [o \in Orders |-> Traded(o)]

WrittenUpTo(s, T) == \A i \in 1..Len(s) : s[i].kind = "order" => s[i].row.filled <= T[s[i].id]

NeverAhead ==
  /\ DBNeverAhead
  /\ WrittenUpTo(queue, TradedSoFar) /\ WrittenUpTo(batch, TradedSoFar)

LEMMA WrittenMore ==
  ASSUME NEW s, NEW D, OpsOK(s, D), NEW T \in [Orders -> Nat], NEW U \in [Orders -> Nat],
         \A o \in Orders : T[o] <= U[o], WrittenUpTo(s, T)
  PROVE  WrittenUpTo(s, U)
<1> SUFFICES ASSUME NEW i \in 1..Len(s), s[i].kind = "order"
             PROVE  s[i].row.filled <= U[s[i].id]
  BY DEF WrittenUpTo
<1>1. s[i] \in OpRec /\ s[i].id \in Orders
  BY DEF OpsOK, OpOver
<1>2. s[i].row.filled \in Nat
  BY <1>1 DEF OpRec, RowRec
<1>3. T[s[i].id] \in Nat /\ U[s[i].id] \in Nat /\ T[s[i].id] <= U[s[i].id]
  BY <1>1
<1>4. s[i].row.filled <= T[s[i].id]
  BY DEF WrittenUpTo
<1> QED BY <1>2, <1>3, <1>4

LEMMA WrittenAppend ==
  ASSUME NEW s, NEW D, OpsOK(s, D), NEW T, WrittenUpTo(s, T), NEW op \in OpRec,
         op.kind = "order" => op.row.filled <= T[op.id]
  PROVE  WrittenUpTo(Append(s, op), T)
<1>1. s \in Seq(OpRec)
  BY DEF OpsOK
<1>2. \A i \in 1..Len(Append(s, op)) :
        (i \in 1..Len(s) /\ Append(s, op)[i] = s[i]) \/ Append(s, op)[i] = op
  BY <1>1
<1> QED BY <1>2 DEF WrittenUpTo

LEMMA WrittenTail ==
  ASSUME NEW s, NEW D, OpsOK(s, D), s # <<>>, NEW T, WrittenUpTo(s, T)
  PROVE  /\ WrittenUpTo(Tail(s), T)
         /\ Head(s).kind = "order" => Head(s).row.filled <= T[Head(s).id]
<1>1. s \in Seq(OpRec) /\ Head(s) = s[1] /\ 1 \in 1..Len(s)
  BY DEF OpsOK
<1>2. \A i \in 1..Len(Tail(s)) : Tail(s)[i] = s[i + 1] /\ i + 1 \in 1..Len(s)
  BY <1>1
<1> QED BY <1>1, <1>2 DEF WrittenUpTo

\* What a commit leaves in the tables: no row is ahead of the trades, and both
\* orders of every stored trade have one.
LEMMA CommitNeverAhead ==
  ASSUME TypeOK, PipeTypes, NeverAhead, Committed
  PROVE  /\ \A o \in Orders : db'.orders[o].filled <= Traded(o)
         /\ \A n \in db'.trades : /\ db'.orders[trades[n].buy].status # "NONE"
                                  /\ db'.orders[trades[n].sell].status # "NONE"
         /\ db.trades \subseteq db'.trades
         /\ \A o \in Orders : db.orders[o].status # "NONE" => db'.orders[o].status # "NONE"
<1> DEFINE N == Len(batch)
<1>0. /\ db'.orders = Applied.orders /\ db'.trades = Applied.trades /\ Applied.ok
      /\ Outcome(Applied, N)
  BY CommitFacts DEF Committed
<1>a. N \in Nat /\ \A i \in 1..N : batch[i] \in OpRec /\ OpOver(batch[i], DOMAIN trades)
  BY DEF PipeTypes, OpsOK
<1>b. \A o \in Orders : db.orders[o].filled <= Traded(o)
  BY DEF NeverAhead, DBNeverAhead
<1>c. \A i \in 1..N : batch[i].kind = "order" => /\ batch[i].row.filled <= Traded(batch[i].id)
                                                 /\ batch[i].row.status # "NONE"
  <2> SUFFICES ASSUME NEW i \in 1..N, batch[i].kind = "order"
               PROVE  batch[i].row.filled <= Traded(batch[i].id) /\ batch[i].row.status # "NONE"
    OBVIOUS
  <2>1. batch[i].id \in Orders /\ batch[i].row.status # "NONE"
    BY <1>a DEF OpOver
  <2>2. batch[i].row.filled <= TradedSoFar[batch[i].id]
    BY DEF NeverAhead, WrittenUpTo
  <2> QED BY <2>1, <2>2 DEF TradedSoFar
<1> HIDE DEF N
<1>1. ASSUME NEW o \in Orders
      PROVE  \/ db'.orders[o] = db.orders[o]
             \/ \E j \in 1..N : WritesTo(batch[j], o) /\ db'.orders[o] = batch[j].row
  BY <1>0 DEF Outcome
<1>2. ASSUME NEW o \in Orders PROVE db'.orders[o].filled <= Traded(o)
  BY <1>1, <1>b, <1>c DEF WritesTo
<1>3. ASSUME NEW o \in Orders, db.orders[o].status # "NONE" PROVE db'.orders[o].status # "NONE"
  BY <1>1, <1>3, <1>c DEF WritesTo
<1>4. ASSUME NEW o \in Orders, NEW j \in 1..N, WritesTo(batch[j], o)
      PROVE  db'.orders[o].status # "NONE"
  <2>1. ~\A i \in 1..N : ~WritesTo(batch[i], o)
    BY <1>4
  <2>2. \E k \in 1..N : WritesTo(batch[k], o) /\ db'.orders[o] = batch[k].row
    BY <1>0, <2>1 DEF Outcome
  <2> QED BY <2>2, <1>c DEF WritesTo
<1>5. ASSUME NEW n \in db'.trades, NEW o \in {trades[n].buy, trades[n].sell}
      PROVE  db'.orders[o].status # "NONE"
  <2>1. n \in DOMAIN trades
    BY CommitFacts, <1>0
  <2>2. o \in Orders
    <3>1. trades[n] \in TradeRec
      BY <2>1 DEF TypeOK
    <3> QED BY <3>1 DEF TradeRec
  <2>3. CASE n \in db.trades
    <3>1. db.orders[o].status # "NONE"
      BY <2>3 DEF NeverAhead, DBNeverAhead
    <3> QED BY <1>3, <2>2, <3>1
  <2>4. ASSUME NEW i \in 1..N, batch[i].kind = "trade", batch[i].id = n
        PROVE  db'.orders[o].status # "NONE"
    <3>1. \/ db.orders[o].status # "NONE"
          \/ \E j \in 1..i - 1 : WritesTo(batch[j], o)
      BY <1>0, <2>4 DEF Outcome
    <3>2. \A j \in 1..i - 1 : j \in 1..N
      BY <1>a
    <3> QED BY <1>3, <1>4, <2>2, <3>1, <3>2
  <2> QED BY <1>0, <2>3, <2>4 DEF Outcome
<1>6. db.trades \subseteq db'.trades
  BY <1>0 DEF Outcome
<1> QED BY <1>2, <1>3, <1>5, <1>6

LEMMA NeverAheadStep ==
  ASSUME IInv, FillsAreTrades, LastTrade, PipeTypes, NeverAhead, [PNext]_pvars
  PROVE  NeverAhead'
<1> DEFINE D == DOMAIN trades
           T == TradedSoFar
<1>0. /\ EventsOK(bus, D) /\ OpsOK(queue, D) /\ OpsOK(batch, D)
      /\ WrittenUpTo(queue, T) /\ WrittenUpTo(batch, T)
      /\ TypeOK /\ attempt \in 0..RetryMax /\ db.trades \subseteq D
      /\ \A o \in Orders : db.orders[o].filled <= Traded(o)
      /\ \A n \in db.trades : /\ db.orders[trades[n].buy].status # "NONE"
                              /\ db.orders[trades[n].sell].status # "NONE"
  BY DEF PipeTypes, NeverAhead, IInv, DBNeverAhead
<1>a. \A o \in Orders : Traded(o) \in Nat /\ Traded(o)' \in Nat /\ Traded(o) <= Traded(o)'
  BY EngineInside, TradedGrows
<1>b. /\ T \in [Orders -> Nat] /\ T' \in [Orders -> Nat]
      /\ \A o \in Orders : T[o] <= T'[o]
  BY <1>a DEF TradedSoFar
<1>c. /\ D \subseteq DOMAIN trades'
      /\ \A n \in D : trades'[n] = trades[n]
  BY EngineInside, TradesKept
<1>d. WrittenUpTo(queue, T') /\ WrittenUpTo(batch, T')
  <2> HIDE DEF T
  <2> QED BY <1>0, <1>b, WrittenMore
<1>e. ASSUME db' = db PROVE DBNeverAhead'
  <2>1. ASSUME NEW o \in Orders PROVE db'.orders[o].filled <= Traded(o)'
    <3>1. db.orders[o].filled \in Nat
      BY DEF PipeTypes, TablesOK, RowRec
    <3> QED BY <1>0, <1>a, <1>e, <3>1
  <2>2. ASSUME NEW n \in db'.trades
        PROVE  /\ db'.orders[trades'[n].buy].status # "NONE"
               /\ db'.orders[trades'[n].sell].status # "NONE"
    BY <1>0, <1>c, <1>e
  <2> QED BY <2>1, <2>2 DEF DBNeverAhead
<1> HIDE DEF T
<1>1. CASE EngineStep
  <2>1. UNCHANGED <<queue, batch, db>>
    BY <1>1 DEF EngineStep, Piped, workerVars
  <2> QED BY <1>d, <1>e, <2>1 DEF NeverAhead, T
<1>2. CASE Dispatch
  <2>1. UNCHANGED <<batch, db>> /\ trades' = trades
    BY <1>2 DEF Dispatch, vars
  <2>2. WrittenUpTo(queue', T')
    <3>1. CASE queue' = queue
      BY <1>d, <3>1
    <3>2. ASSUME NEW op \in OpRec, OpOver(op, D), queue' = Append(queue, op),
                 op.kind = "order" => op.row.filled <= Traded(op.id)
          PROVE  WrittenUpTo(queue', T')
      <4>1. op.kind = "order" => op.row.filled <= T'[op.id]
        <5>1. SUFFICES ASSUME op.kind = "order" PROVE op.row.filled <= T'[op.id]
          OBVIOUS
        <5>2. op.id \in Orders /\ op.row.filled \in Nat
          BY <3>2, <5>1 DEF OpOver, OpRec, RowRec
        <5>3. op.row.filled <= T[op.id]
          BY <3>2, <5>1, <5>2 DEF T, TradedSoFar
        <5>4. T[op.id] \in Nat /\ T'[op.id] \in Nat /\ T[op.id] <= T'[op.id]
          BY <1>b, <5>2
        <5> QED BY <5>2, <5>3, <5>4
      <4> QED BY <1>0, <1>d, <3>2, <4>1, WrittenAppend
    <3> QED BY <1>0, <1>2, <3>1, <3>2, DispatchFacts
  <2> QED BY <1>d, <1>e, <2>1, <2>2 DEF NeverAhead, T
<1>3. CASE WorkerReceive
  <2>1. /\ db' = db /\ queue # <<>>
        /\ batch' = Append(batch, Head(queue)) /\ queue' = Tail(queue)
    BY <1>3 DEF WorkerReceive
  <2>2. /\ WrittenUpTo(Tail(queue), T')
        /\ Head(queue).kind = "order" => Head(queue).row.filled <= T'[Head(queue).id]
    BY <1>0, <1>d, <2>1, WrittenTail
  <2>3. Head(queue) \in OpRec
    BY <1>0, <2>1, OpsTail
  <2>4. WrittenUpTo(Append(batch, Head(queue)), T')
    BY <1>0, <1>d, <2>2, <2>3, WrittenAppend
  <2> QED BY <1>e, <2>1, <2>2, <2>4 DEF NeverAhead, T
<1>4. CASE FlushOK \/ FlushFail
  <2>1. UNCHANGED vars /\ queue' = queue /\ (batch' = batch \/ batch' = <<>>) /\ (db' = db \/ Committed)
    BY <1>0, <1>4, FlushFacts
  <2>2. WrittenUpTo(batch', T')
    <3>1. WrittenUpTo(<<>>, T')
      BY DEF WrittenUpTo
    <3> QED BY <1>d, <2>1, <3>1
  <2>3. ASSUME Committed PROVE DBNeverAhead'
    <3>1. trades' = trades
      BY <2>1 DEF vars
    <3>2. \A o \in Orders : Traded(o)' = Traded(o)
      BY <3>1 DEF Traded
    <3>3. /\ \A o \in Orders : db'.orders[o].filled <= Traded(o)
          /\ \A n \in db'.trades : /\ db'.orders[trades[n].buy].status # "NONE"
                                   /\ db'.orders[trades[n].sell].status # "NONE"
      BY <1>0, <2>3, CommitNeverAhead
    <3> QED BY <3>1, <3>2, <3>3 DEF DBNeverAhead
  <2> QED BY <1>d, <1>e, <2>1, <2>2, <2>3 DEF NeverAhead, T
<1>5. CASE \/ WorkerTick \/ WorkerClosed \/ WorkerCtxDone \/ FeedTake \/ FeedEnd
           \/ Signal \/ StopEngine \/ StopFeed \/ StopBus \/ StopWorker \/ Exit
           \/ UNCHANGED pvars
  <2>1. UNCHANGED <<queue, batch, db>>
    BY <1>5 DEF WorkerTick, WorkerClosed, WorkerCtxDone, FeedTake, FeedEnd, Signal, StopEngine, StopFeed, StopBus,
       StopWorker, Exit, pvars, workerVars
  <2> QED BY <1>d, <1>e, <2>1 DEF NeverAhead, T
<1>6. CASE FeedPublish
  <2>1. UNCHANGED <<queue, batch, db>>
    BY <1>6 DEF FeedPublish, workerVars
  <2> QED BY <1>d, <1>e, <2>1 DEF NeverAhead, T
<1> QED BY <1>1, <1>2, <1>3, <1>4, <1>5, <1>6, StepCases

-----------------------------------------------------------------------------
(***************************************************************************)
(* The worker keeps what it has accepted.                                  *)
(***************************************************************************)
StoresTrade(op, n) == op.kind = "trade" /\ op.id = n

\* Trade n is among the operations of s.
Holds(s, n) == \E i \in 1..Len(s) : StoresTrade(s[i], n)

WorkerInv ==
  /\ wpc \in {"final", "done"} => stopped /\ queue = <<>>
  /\ wpc = "done" => batch = <<>>
  /\ main = "exit" => wpc = "done"
  /\ "gaveUp" \notin losses =>
       \A n \in enqueued : n \in db.trades \/ Holds(queue, n) \/ Holds(batch, n)

LEMMA HoldsAppend ==
  ASSUME NEW s \in Seq(OpRec), NEW op \in OpRec, NEW n
  PROVE  Holds(Append(s, op), n) <=> Holds(s, n) \/ StoresTrade(op, n)
<1> DEFINE r == Append(s, op)
<1>1. Len(r) = Len(s) + 1 /\ Len(s) \in Nat
  OBVIOUS
<1>2. \A i \in 1..Len(r) : (i \in 1..Len(s) /\ r[i] = s[i]) \/ (i = Len(s) + 1 /\ r[i] = op)
  OBVIOUS
<1>3. \A i \in 1..Len(s) : i \in 1..Len(r) /\ r[i] = s[i]
  OBVIOUS
<1>4. Len(s) + 1 \in 1..Len(r) /\ r[Len(s) + 1] = op
  OBVIOUS
<1> HIDE DEF r
<1>5. Holds(r, n) <=> Holds(s, n) \/ StoresTrade(op, n)
  BY <1>2, <1>3, <1>4 DEF Holds
<1> QED BY <1>5 DEF r

LEMMA HoldsTail ==
  ASSUME NEW s \in Seq(OpRec), s # <<>>, NEW n
  PROVE  Holds(s, n) <=> StoresTrade(Head(s), n) \/ Holds(Tail(s), n)
<1>1. Head(s) = s[1] /\ 1 \in 1..Len(s) /\ Len(s) \in Nat /\ Len(Tail(s)) = Len(s) - 1
  OBVIOUS
<1>2. \A i \in 1..Len(Tail(s)) : Tail(s)[i] = s[i + 1] /\ i + 1 \in 1..Len(s)
  BY <1>1
<1>3. \A i \in 1..Len(s) : i = 1 \/ (i - 1 \in 1..Len(Tail(s)) /\ Tail(s)[i - 1] = s[i])
  BY <1>1
<1> QED BY <1>1, <1>2, <1>3 DEF Holds

\* A commit stores every trade of the batch.
LEMMA CommitStores ==
  ASSUME TypeOK, PipeTypes, Committed
  PROVE  \A n : n \in db'.trades <=> n \in db.trades \/ Holds(batch, n)
<1>1. db'.trades = Applied.trades /\ Outcome(Applied, Len(batch))
  BY CommitFacts
<1> QED BY <1>1 DEF Outcome, Holds, StoresTrade

LEMMA WorkerInvStep ==
  ASSUME IInv, FillsAreTrades, PipeTypes, WorkerInv, [PNext]_pvars
  PROVE  WorkerInv'
<1> DEFINE D == DOMAIN trades
           Kept(n) == n \in db.trades \/ Holds(queue, n) \/ Holds(batch, n)
           Kept1(n) == n \in db'.trades \/ Holds(queue', n) \/ Holds(batch', n)
<1>0. /\ EventsOK(bus, D) /\ OpsOK(queue, D) /\ TypeOK /\ attempt \in 0..RetryMax
      /\ queue \in Seq(OpRec) /\ batch \in Seq(OpRec)
  BY DEF PipeTypes, IInv, OpsOK
<1>a. /\ (wpc \in {"final", "done"} => stopped /\ queue = <<>>)
      /\ (wpc = "done" => batch = <<>>)
      /\ (main = "exit" => wpc = "done")
      /\ ("gaveUp" \notin losses => \A n \in enqueued : Kept(n))
  BY DEF WorkerInv
<1>1. CASE EngineStep
  <2>1. UNCHANGED <<queue, stopped, batch, wpc, db, main, enqueued>>
    BY <1>1 DEF EngineStep, Piped, workerVars
  <2>2. "gaveUp" \notin losses' => "gaveUp" \notin losses
    BY <1>1 DEF EngineStep, Piped, BusPublish
  <2> QED BY <1>a, <2>1, <2>2 DEF WorkerInv
<1>2. CASE Dispatch
  <2>1. UNCHANGED <<stopped, batch, wpc, db, main>>
    BY <1>2 DEF Dispatch
  <2>2. CASE /\ queue' = queue /\ enqueued' = enqueued
             /\ losses' \in {losses, losses \cup {"stopped"}, losses \cup {"queueFull"}}
    <3>1. "gaveUp" \notin losses' => "gaveUp" \notin losses
      BY <2>2
    <3> QED BY <1>a, <2>1, <2>2, <3>1 DEF WorkerInv
  <2>3. ASSUME NEW op \in OpRec, ~stopped, queue' = Append(queue, op), losses' = losses,
               enqueued' = enqueued \cup {x \in {op.id} : op.kind = "trade"}
        PROVE  WorkerInv'
    <3>1. wpc \notin {"final", "done"}
      BY <1>a, <2>3
    <3>2. \A n : Holds(queue', n) <=> Holds(queue, n) \/ StoresTrade(op, n)
      BY <1>0, <2>3, HoldsAppend
    <3>3. ASSUME "gaveUp" \notin losses', NEW n \in enqueued' PROVE Kept1(n)
      <4>1. CASE n \in enqueued
        BY <1>a, <2>1, <2>3, <3>2, <3>3, <4>1
      <4>2. CASE n = op.id /\ op.kind = "trade"
        BY <3>2, <4>2 DEF StoresTrade
      <4> QED BY <2>3, <3>3, <4>1, <4>2
    <3> QED BY <1>a, <2>1, <3>1, <3>3 DEF WorkerInv
  <2> QED BY <1>0, <1>2, <2>2, <2>3, DispatchFacts
<1>3. CASE WorkerReceive
  <2>1. /\ UNCHANGED <<db, main, losses, enqueued>> /\ wpc = "select" /\ queue # <<>>
        /\ batch' = Append(batch, Head(queue)) /\ queue' = Tail(queue)
        /\ wpc' \in {"select", "flush"}
    BY <1>3 DEF WorkerReceive
  <2>2. Head(queue) \in OpRec
    BY <1>0, <2>1
  <2>3. \A n : Holds(batch', n) <=> Holds(batch, n) \/ StoresTrade(Head(queue), n)
    BY <1>0, <2>1, <2>2, HoldsAppend
  <2>4. \A n : Holds(queue, n) <=> StoresTrade(Head(queue), n) \/ Holds(queue', n)
    BY <1>0, <2>1, HoldsTail
  <2> QED BY <1>a, <2>1, <2>3, <2>4 DEF WorkerInv
<1>4. CASE FlushOK \/ FlushFail
  <2>1. /\ UNCHANGED <<queue, stopped, main, enqueued>>
        /\ wpc \in {"flush", "final"}
        /\ db' = db \/ Committed
    BY <1>0, <1>4, FlushFacts
  <2>2. main' # "exit"
    BY <1>a, <2>1
  <2>3. Committed => \A n : n \in db'.trades <=> n \in db.trades \/ Holds(batch, n)
    BY <1>0, CommitStores
  <2>4. CASE batch' = batch /\ wpc' = wpc /\ losses' = losses
    <3>1. \A n : Kept(n) => Kept1(n)
      BY <2>1, <2>3, <2>4
    <3> QED BY <1>a, <2>1, <2>2, <2>4, <3>1 DEF WorkerInv
  <2>5. CASE /\ batch' = <<>>
             /\ wpc' = IF wpc = "final" THEN "done" ELSE "select"
             /\ losses' = losses /\ Committed
    <3>1. \A n : Kept(n) => Kept1(n)
      BY <2>1, <2>3, <2>5
    <3> QED BY <1>a, <2>1, <2>2, <2>5, <3>1 DEF WorkerInv
  <2>6. CASE /\ batch' = <<>>
             /\ wpc' = IF wpc = "final" THEN "done" ELSE "select"
             /\ losses' = losses \cup {"gaveUp"}
    BY <1>a, <2>1, <2>2, <2>6 DEF WorkerInv
  <2> QED BY <1>0, <1>4, <2>4, <2>5, <2>6, FlushFacts
<1>5. CASE WorkerTick \/ WorkerClosed
  <2>1. UNCHANGED <<queue, stopped, batch, db, main, losses, enqueued>> /\ wpc = "select"
    BY <1>5 DEF WorkerTick, WorkerClosed
  <2>2. \/ wpc' = "flush"
        \/ /\ queue = <<>> /\ stopped
           /\ wpc' = IF batch = <<>> THEN "done" ELSE "final"
    BY <1>5 DEF WorkerTick, WorkerClosed
  <2> QED BY <1>a, <2>1, <2>2 DEF WorkerInv
<1>6. CASE WorkerCtxDone \/ StopWorker
  <2>1. UNCHANGED <<queue, batch, wpc, db, losses, enqueued>> /\ stopped' /\ main' # "exit"
    BY <1>6, <1>a DEF WorkerCtxDone, StopWorker, PipeTypes
  <2> QED BY <1>a, <2>1 DEF WorkerInv
<1>7. CASE FeedTake \/ FeedEnd \/ Signal \/ StopEngine \/ StopFeed \/ StopBus \/ Exit \/ UNCHANGED pvars
  <2>1. /\ UNCHANGED <<queue, stopped, batch, wpc, db, losses, enqueued>>
        /\ main' = "exit" => wpc = "done"
    BY <1>7, <1>a DEF FeedTake, FeedEnd, Signal, StopEngine, StopFeed, StopBus, Exit, pvars, workerVars
  <2> QED BY <1>a, <2>1 DEF WorkerInv
<1>8. CASE FeedPublish
  <2>1. bus \in Seq(EventRec)
    BY <1>0 DEF EventsOK
  <2>2. PriceSent /\ UNCHANGED <<queue, stopped, batch, wpc, db, enqueued>>
    BY <1>8, <2>1, FeedPublishFacts DEF workerVars
  <2>3. /\ "gaveUp" \notin losses' => "gaveUp" \notin losses
        /\ main' = "exit" => main = "exit"
    BY <2>2 DEF PriceSent
  <2> QED BY <1>a, <2>2, <2>3 DEF WorkerInv
<1> QED BY <1>1, <1>2, <1>3, <1>4, <1>5, <1>6, <1>7, <1>8, StepCases

-----------------------------------------------------------------------------
(***************************************************************************)
(* The feed's and the retries' own state.                                  *)
(***************************************************************************)
FeedTypes ==
  /\ feed \in {"init", "wait", "emit", "done"} /\ ticks \in 0..MaxTicks
  /\ landed \in BOOLEAN /\ joined \in BOOLEAN

LEMMA FeedTypesStep ==
  ASSUME PipeTypes, FeedTypes, [PNext]_pvars
  PROVE  FeedTypes'
<1>0. attempt \in 0..RetryMax
  BY DEF PipeTypes
<1>1. feed' \in {"init", "wait", "emit", "done"}
  <2>1. CASE FlushOK \/ FlushFail
    BY <2>1, <1>0, FlushFacts DEF FeedTypes, feedState
  <2>2. CASE ~FlushOK /\ ~FlushFail
    BY <2>2, StepCases DEF FeedTypes, EngineStep, Dispatch, WorkerReceive, WorkerTick, WorkerClosed,
       WorkerCtxDone, FeedTake, FeedPublish, FeedEnd, Signal, StopEngine, StopFeed, StopBus,
       StopWorker, Exit, pvars, feedState
  <2> QED BY <2>1, <2>2
<1>2. ticks' \in 0..MaxTicks
  <2>1. CASE FeedTake
    BY <2>1, FeedAssumption DEF FeedTake, FeedTypes
  <2>2. CASE ~FeedTake
    <3>1. ticks' = ticks
      BY <2>2, StepCases DEF EngineStep, Piped, Dispatch, WorkerReceive, WorkerTick, WorkerClosed,
         FlushOK, FlushFail, WorkerCtxDone, FeedPublish, FeedEnd, Signal, StopEngine, StopFeed,
         StopBus, StopWorker, Exit, pvars, feedState
    <3> QED BY <3>1 DEF FeedTypes
  <2> QED BY <2>1, <2>2
<1>3. landed' \in BOOLEAN
  <2>1. CASE FlushOK \/ FlushFail
    BY <2>1, <1>0, FlushFacts
  <2>2. CASE ~FlushOK /\ ~FlushFail
    <3>1. landed' = landed
      BY <2>2, StepCases DEF EngineStep, Piped, Dispatch, WorkerReceive, WorkerTick, WorkerClosed,
         WorkerCtxDone, FeedTake, FeedPublish, FeedEnd, Signal, StopEngine, StopFeed, StopBus,
         StopWorker, Exit, pvars, workerVars
    <3> QED BY <3>1 DEF FeedTypes
  <2> QED BY <2>1, <2>2
<1>4. joined' \in BOOLEAN
  <2>1. CASE StopFeed
    <3>1. joined' = (feed = "done")
      BY <2>1 DEF StopFeed
    <3> QED BY Zenon, <3>1
  <2>2. CASE ~StopFeed
    <3>1. joined' = joined
      BY <2>2, StepCases DEF EngineStep, Piped, Dispatch, WorkerReceive, WorkerTick, WorkerClosed,
         FlushOK, FlushFail, WorkerCtxDone, FeedTake, FeedPublish, FeedEnd, Signal, StopEngine,
         StopBus, StopWorker, Exit, pvars
    <3> QED BY <3>1 DEF FeedTypes
  <2> QED BY <2>1, <2>2
<1> QED BY <1>1, <1>2, <1>3, <1>4 DEF FeedTypes

\* The tables d hold all that the batch s writes: its trades, and for an order
\* the row of its last statement about it.
Absorbed(s, d) ==
  /\ \A n : Holds(s, n) => n \in d.trades
  /\ \A o \in Orders : \A i \in 1..Len(s) :
       WritesTo(s[i], o) /\ (\A j \in i + 1..Len(s) : ~WritesTo(s[j], o)) =>
         d.orders[o] = s[i].row

\* A batch that has been committed although its attempt failed is still the one
\* in hand, and it is in the tables.
RetryInv == landed => wpc \in {"flush", "final"} /\ Absorbed(batch, db)

LEMMA CommitAbsorbs ==
  ASSUME TypeOK, PipeTypes, Committed
  PROVE  Absorbed(batch, db')
<1> DEFINE N == Len(batch)
<1>0. /\ db'.orders = Applied.orders /\ Outcome(Applied, N) /\ N \in Nat
  BY CommitFacts DEF PipeTypes, OpsOK
<1>1. \A n : Holds(batch, n) => n \in db'.trades
  BY CommitStores
<1>2. ASSUME NEW o \in Orders, NEW i \in 1..N, WritesTo(batch[i], o),
             \A k \in i + 1..N : ~WritesTo(batch[k], o)
      PROVE  db'.orders[o] = batch[i].row
  <2>1. PICK j \in 1..N : /\ WritesTo(batch[j], o)
                          /\ db'.orders[o] = batch[j].row
                          /\ \A k \in j + 1..N : ~WritesTo(batch[k], o)
    BY <1>0, <1>2 DEF Outcome
  <2>2. ~(i < j) /\ ~(j < i)
    <3>1. i < j => j \in i + 1..N
      BY <1>0
    <3>2. j < i => i \in j + 1..N
      BY <1>0
    <3> QED BY <1>2, <2>1, <3>1, <3>2
  <2>3. i = j
    BY <1>0, <2>2
  <2> QED BY <2>1, <2>3
<1> QED BY <1>1, <1>2 DEF Absorbed

LEMMA RetryInvStep ==
  ASSUME IInv, PipeTypes, RetryInv, [PNext]_pvars
  PROVE  RetryInv'
<1>0. TypeOK /\ attempt \in 0..RetryMax
  BY DEF IInv, PipeTypes
<1>1. CASE FlushOK \/ FlushFail
  <2> SUFFICES ASSUME landed' PROVE wpc' \in {"flush", "final"} /\ Absorbed(batch', db')
    BY DEF RetryInv
  <2>1. /\ batch' = batch /\ wpc' = wpc /\ wpc \in {"flush", "final"}
        /\ Committed \/ (landed /\ db' = db)
    BY <1>0, <1>1, FlushFacts
  <2>2. Absorbed(batch, db')
    BY <1>0, <2>1, CommitAbsorbs DEF RetryInv
  <2> QED BY <2>1, <2>2
<1>2. CASE WorkerReceive \/ WorkerTick \/ WorkerClosed
  <2>1. wpc = "select" /\ landed' = landed
    BY <1>2 DEF WorkerReceive, WorkerTick, WorkerClosed
  <2> QED BY <2>1 DEF RetryInv
<1>3. CASE ~FlushOK /\ ~FlushFail /\ ~WorkerReceive /\ ~WorkerTick /\ ~WorkerClosed
  <2>1. UNCHANGED <<batch, wpc, db, landed>>
    BY <1>3, StepCases DEF EngineStep, Piped, Dispatch, WorkerCtxDone, FeedTake, FeedPublish, FeedEnd,
       Signal, StopEngine, StopFeed, StopBus, StopWorker, Exit, pvars, workerVars
  <2> QED BY <2>1 DEF RetryInv
<1> QED BY <1>1, <1>2, <1>3

-----------------------------------------------------------------------------
(***************************************************************************)
(* main stops the publishers before it closes the bus.                     *)
(***************************************************************************)
\* The engine and the simulator have been stopped.
Stopped == {"feed", "bus", "worker", "exit"}

ClosingInv ==
  /\ closed => \A o \in Orders : phase[o] \in {"new"} \cup Finished
  /\ mpc = "stopped" => closed
  /\ main \in Stopped => mpc = "stopped" /\ (joined => feed = "done")
  /\ busClosed => main \in Stopped \cup {"crash"} /\ mpc = "stopped"
  /\ main = "crash" => ~joined
  /\ "panic" \notin losses

LEMMA ClosingInvStep ==
  ASSUME GraceExpires = FALSE, IInv, FillsAreTrades, LastTrade, PipeTypes, ClosingInv, [PNext]_pvars
  PROVE  ClosingInv'
<1>0. /\ EventsOK(bus, DOMAIN trades) /\ OpsOK(queue, DOMAIN trades) /\ attempt \in 0..RetryMax
      /\ bus \in Seq(EventRec)
  BY DEF PipeTypes, EventsOK
<1>1. CASE EngineStep
  <2>1. EngineMove /\ BusPublish(pub') /\ busClosed' = busClosed /\ closed' = closed
    BY <1>1 DEF EngineStep, Piped, EngineMove, CreateOrder, SaveOrder, SubmitOrder, PublishCreated,
       MatcherStep, Receive, SaveTrade, FillBuy, FillSell, FillOrder, UpdateBuy, UpdateSell,
       UpdateOrder, UpdateTicker, PublishTrade, PublishBuy, PublishSell, PublishStep, Settle,
       RestOrder, InitStock
  <2>2. closed => \A o \in Orders : ~CreateOrder(o)
    BY DEF ClosingInv, CreateOrder, SaveOrder, SubmitOrder, PublishCreated, Finished
  <2>3. closed => phase' = phase
    BY <2>1, <2>2 DEF EngineMove, MatcherStep, Receive, SaveTrade, FillBuy, FillSell, FillOrder,
       UpdateBuy, UpdateSell, UpdateOrder, UpdateTicker, PublishTrade, PublishBuy, PublishSell,
       PublishStep, Settle, RestOrder, InitStock, handlerVars
  <2>4. mpc = "stopped" => ~MatcherStep
    BY DEF MatcherStep, Receive, SaveTrade, FillBuy, FillSell, UpdateBuy, UpdateSell, UpdateTicker,
       PublishTrade, PublishBuy, PublishSell, PublishStep, Settle, RestOrder
  <2>5. mpc' = "stopped" => closed
    BY <2>1 DEF ClosingInv, EngineMove, CreateOrder, SaveOrder, SubmitOrder, PublishCreated,
       MatcherStep, Receive, SaveTrade, FillBuy, FillSell, FillOrder, UpdateBuy, UpdateSell,
       UpdateOrder, UpdateTicker, PublishTrade, PublishBuy, PublishSell, PublishStep, Settle,
       RestOrder, InitStock, matcherVars
  <2>6. mpc = "stopped" => InitStock
    BY <2>1, <2>2, <2>4 DEF ClosingInv, EngineMove
  <2>7. mpc = "stopped" => pub' = <<>> /\ mpc' = mpc
    BY <2>6 DEF InitStock, NoPublish, matcherVars
  <2>8. "panic" \notin losses'
    BY <2>1, <2>7 DEF BusPublish, ClosingInv
  <2>9. /\ main' = main /\ joined' = joined /\ (feed = "done" => feed' = "done")
    BY <1>1 DEF EngineStep, Piped
  <2> QED BY <2>1, <2>3, <2>5, <2>7, <2>8, <2>9 DEF ClosingInv
<1>2. CASE StopEngine
  <2>1. /\ busClosed' = busClosed /\ losses' = losses /\ mpc' = mpc /\ phase' = phase /\ closed'
        /\ \A o \in Orders : phase[o] \in {"new"} \cup Finished
        /\ main = "http" /\ main' = "engine"
    BY <1>2 DEF StopEngine, Stop, busVars, handlerVars, matcherVars
  <2> QED BY <2>1 DEF ClosingInv, Stopped
<1>3. CASE ~EngineStep /\ ~StopEngine
  <2>1. UNCHANGED <<closed, phase, mpc>>
    BY <1>3, StepCases DEF Dispatch, WorkerReceive, WorkerTick, WorkerClosed, FlushOK, FlushFail,
       WorkerCtxDone, FeedTake, FeedPublish, FeedEnd, Signal, StopFeed, StopBus, StopWorker, Exit,
       pvars, vars, handlerVars, matcherVars
  <2>2. /\ main' \in Stopped => mpc = "stopped" /\ (joined' => feed' = "done")
        /\ busClosed' => main' \in Stopped \cup {"crash"} /\ mpc = "stopped"
        /\ main' = "crash" => ~joined'
    <3>1. CASE StopFeed
      BY <3>1 DEF StopFeed, ClosingInv, Stopped, busVars, feedState
    <3>2. CASE Signal \/ StopBus \/ StopWorker \/ Exit
      BY <3>2 DEF Signal, StopBus, StopWorker, Exit, ClosingInv, Stopped, busVars, feedState
    <3>3. CASE FeedPublish
      <4>1. /\ joined' = joined /\ busClosed' = busClosed /\ feed = "emit" /\ main # "crash"
            /\ main' = main \/ (busClosed /\ main' = "crash")
        BY <3>3 DEF FeedPublish, Alive
      <4> QED BY <4>1 DEF ClosingInv, Stopped
    <3>4. CASE FeedTake \/ FeedEnd
      BY <3>4 DEF FeedTake, FeedEnd, ClosingInv, busVars
    <3>5. CASE \/ Dispatch \/ WorkerReceive \/ WorkerTick \/ WorkerClosed \/ FlushOK \/ FlushFail
               \/ WorkerCtxDone \/ UNCHANGED pvars
      <4>1. UNCHANGED <<main, joined, feed, busClosed>>
        BY <3>5 DEF Dispatch, WorkerReceive, WorkerTick, WorkerClosed, FlushOK, FlushFail,
           WorkerCtxDone, pvars, busVars, feedState
      <4> QED BY <4>1 DEF ClosingInv
    <3> QED BY <1>3, <3>1, <3>2, <3>3, <3>4, <3>5, StepCases
  <2>3. "panic" \notin losses'
    <3>1. CASE Dispatch
      BY <3>1, <1>0, DispatchFacts DEF ClosingInv
    <3>2. CASE FlushOK \/ FlushFail
      <4>1. losses' = losses \/ losses' = losses \cup {"gaveUp"}
        BY <3>2, <1>0, FlushFacts
      <4> QED BY <4>1 DEF ClosingInv
    <3>3. CASE FeedPublish
      BY <3>3, <1>0, FeedPublishFacts DEF PriceSent, ClosingInv
    <3>4. CASE ~Dispatch /\ ~FlushOK /\ ~FlushFail /\ ~FeedPublish
      <4>1. losses' = losses
        BY <1>3, <3>4, StepCases DEF WorkerReceive, WorkerTick, WorkerClosed,
           WorkerCtxDone, FeedTake, FeedEnd, Signal, StopFeed, StopBus, StopWorker, Exit, pvars
      <4> QED BY <4>1 DEF ClosingInv
    <3> QED BY <3>1, <3>2, <3>3, <3>4
  <2> QED BY <2>1, <2>2, <2>3 DEF ClosingInv
<1> QED BY <1>1, <1>2, <1>3

-----------------------------------------------------------------------------
(***************************************************************************)
(* The invariants together, and what follows from them.                    *)
(***************************************************************************)
PInv ==
  /\ IInv /\ PipeTypes /\ FillsAreTrades /\ LastTrade /\ NeverAhead /\ WorkerInv
  /\ FeedTypes /\ RetryInv

LEMMA InitPInv == PInit => PInv
<1> SUFFICES ASSUME PInit PROVE PInv
  OBVIOUS
<1>1. IInv
  BY InitIInv DEF PInit
<1>2. /\ trades = <<>> /\ mpc = "idle" /\ order \in [Orders -> NewOrders]
      /\ bus = <<>> /\ queue = <<>> /\ batch = <<>> /\ wpc = "select" /\ attempt = 0
      /\ db = [orders |-> [o \in Orders |-> NoRow], trades |-> {}]
      /\ main = "serve" /\ losses = {} /\ enqueued = {}
  BY DEF PInit, Init
<1>3. PipeTypes
  <2>1. EventsOK(<<>>, DOMAIN trades) /\ OpsOK(<<>>, DOMAIN trades) /\ Len(<<>>) = 0
    BY DEF EventsOK, OpsOK
  <2>2. NoRow \in RowRec
    BY DEF NoRow, RowRec
  <2>3. TablesOK /\ db.trades \subseteq DOMAIN trades
    BY <1>2, <2>2 DEF TablesOK
  <2> QED BY <1>2, <2>1, <2>3, PipelineAssumption DEF PipeTypes, Stages
<1>4. FillsAreTrades
  <2> SUFFICES ASSUME NEW o \in Orders PROVE Traded(o) = order[o].filled + Pending(o)
    BY DEF FillsAreTrades
  <2>1. Traded(o) = 0
    BY <1>2, TradedInNone DEF Traded
  <2>2. order[o].filled = 0
    BY <1>2 DEF NewOrders
  <2>3. Pending(o) = 0
    BY <1>2 DEF Pending
  <2> QED BY <2>1, <2>2, <2>3
<1>5. LastTrade
  BY <1>2 DEF LastTrade, Filling
<1>6. NeverAhead
  <2>1. \A o \in Orders : db.orders[o].filled = 0 /\ Traded(o) = 0
    BY <1>2, TradedInNone DEF Traded, NoRow
  <2>2. db.trades = {}
    BY <1>2
  <2>3. WrittenUpTo(<<>>, TradedSoFar)
    BY DEF WrittenUpTo
  <2> QED BY <1>2, <2>1, <2>2, <2>3 DEF NeverAhead, DBNeverAhead
<1>7. WorkerInv
  BY <1>2 DEF WorkerInv
<1>8. FeedTypes /\ RetryInv
  <2>1. landed = FALSE /\ joined = TRUE /\ ticks = 0 /\ feed \in {"init", "done"}
    BY DEF PInit
  <2>2. landed \in BOOLEAN /\ joined \in BOOLEAN
    BY Zenon, <2>1
  <2>3. ticks \in 0..MaxTicks
    BY <2>1, FeedAssumption
  <2> QED BY <2>1, <2>2, <2>3 DEF FeedTypes, RetryInv
<1> QED BY <1>1, <1>3, <1>4, <1>5, <1>6, <1>7, <1>8 DEF PInv

LEMMA PInvStep == PInv /\ [PNext]_pvars => PInv'
<1> SUFFICES ASSUME PInv, [PNext]_pvars PROVE PInv'
  OBVIOUS
<1>0. /\ IInv /\ PipeTypes /\ FillsAreTrades /\ LastTrade /\ NeverAhead /\ WorkerInv
      /\ FeedTypes /\ RetryInv
  BY DEF PInv
<1>1. [Next]_vars /\ (EngineMove \/ UNCHANGED vars \/ Stop)
  BY EngineInside
<1>2. IInv'
  BY <1>0, <1>1, NextPreserves
<1>3. FillsAreTrades' /\ LastTrade'
  BY <1>0, <1>1, FillsAreTradesStep, LastTradeStep
<1>4. PipeTypes' /\ NeverAhead' /\ WorkerInv'
  BY <1>0, PipeTypesStep, NeverAheadStep, WorkerInvStep
<1>5. FeedTypes' /\ RetryInv'
  BY <1>0, FeedTypesStep, RetryInvStep
<1> QED BY <1>2, <1>3, <1>4, <1>5 DEF PInv

\* The invariants of the write path hold together: the types, the fills against
\* the trades, the announced trade, what the database may show, and the worker's
\* promise.
THEOREM PipelineInvariant == PSpec => []PInv
BY InitPInv, PInvStep, PTL DEF PSpec

\* The pipeline keeps its types and its capacities, whatever is lost, retried
\* or torn: the two channels never exceed theirs (Publish, Enqueue), a batch
\* never exceeds BatchSize, a flush is attempted RetryMax + 1 times at most.
THEOREM PipelineTypeCorrect == PSpec => []PTypeOK
<1>1. PInv => PTypeOK
  <2> SUFFICES ASSUME PInv PROVE PTypeOK
    OBVIOUS
  <2>1. PipeTypes /\ TypeOK /\ FeedTypes
    BY DEF PInv, IInv
  <2>2. ASSUME NEW s \in {queue, batch}, NEW op \in ToSet(s) PROVE IsOp(op)
    <3>1. OpsOK(s, DOMAIN trades)
      BY <2>1 DEF PipeTypes
    <3>2. s \in Seq(OpRec)
      BY <3>1 DEF OpsOK
    <3>3. PICK i \in 1..Len(s) : op = s[i]
      BY <3>2 DEF ToSet
    <3> QED BY <3>1, <3>3, OpIsOp
  <2>3. \A op \in ToSet(queue) \cup ToSet(batch) : IsOp(op)
    BY <2>2
  <2> QED BY <2>1, <2>3 DEF PTypeOK, PipeTypes, TablesOK, FeedTypes, Stages
<1> QED BY <1>1, PipelineInvariant, PTL

\* Nothing dropped, retried, torn half way through a Fill or written twice
\* makes the database show a fill or a trade the engine has not made, and a
\* stored trade always has both its orders (flush, wireEvents).
THEOREM DatabaseNeverAhead == PSpec => []DBNeverAhead
<1>1. PInv => DBNeverAhead
  BY DEF PInv, NeverAhead
<1> QED BY <1>1, PipelineInvariant, PTL

\* A trade whose Enqueue returned nil is never lost unless a flush was given
\* up, and is stored when main exits (DBWorker.Enqueue, Start, Stop).
THEOREM AcceptedWritesLand == PSpec => []EnqueuedWritesLand
<1>1. PInv => EnqueuedWritesLand
  <2> SUFFICES ASSUME PInv, "gaveUp" \notin losses
               PROVE  /\ enqueued \subseteq InWorker \cup db.trades
                      /\ main = "exit" => enqueued \subseteq db.trades
    BY DEF EnqueuedWritesLand
  <2>1. PipeTypes /\ WorkerInv
    BY DEF PInv
  <2>2. \A n \in enqueued : n \in db.trades \/ Holds(queue, n) \/ Holds(batch, n)
    BY <2>1 DEF WorkerInv
  <2>3. ASSUME NEW s \in {queue, batch}, NEW n, Holds(s, n) PROVE n \in InWorker
    <3>1. s \in Seq(OpRec)
      BY <2>1 DEF PipeTypes, OpsOK
    <3>2. PICK i \in 1..Len(s) : s[i].kind = "trade" /\ s[i].id = n
      BY <2>3 DEF Holds, StoresTrade
    <3>3. s[i] \in ToSet(s)
      BY <3>1, <3>2 DEF ToSet
    <3>4. s[i] \in ToSet(queue) \cup ToSet(batch)
      BY <3>3
    <3> QED BY <3>2, <3>4 DEF InWorker
  <2>4. ASSUME main = "exit", NEW n \in enqueued PROVE n \in db.trades
    <3>1. queue = <<>> /\ batch = <<>>
      BY <2>1, <2>4 DEF WorkerInv
    <3>2. ~Holds(<<>>, n)
      BY DEF Holds
    <3> QED BY <2>2, <3>1, <3>2
  <2> QED BY <2>2, <2>3, <2>4
<1> QED BY <1>1, PipelineInvariant, PTL

\* A retry of a batch that had been committed although its attempt failed
\* breaks no foreign key, inserts no trade again and takes no row back,
\* whatever the engine and the dispatcher have done meanwhile (flush's upserts
\* and ON CONFLICT DO NOTHING, sendBatch).
THEOREM RetriesAreHarmless == PSpec => []RetryIsHarmless
<1>1. PInv => RetryIsHarmless
  <2> SUFFICES ASSUME PInv, landed
               PROVE  /\ Applied.ok
                      /\ Applied.orders = db.orders /\ Applied.trades = db.trades
    BY DEF RetryIsHarmless
  <2> DEFINE N == Len(batch)
  <2>0. /\ TypeOK /\ OpsOK(batch, DOMAIN trades) /\ TablesOK /\ DBNeverAhead
        /\ Absorbed(batch, db)
    BY DEF PInv, IInv, PipeTypes, NeverAhead, RetryInv
  <2>1. Applied \in Acc /\ Outcome(Applied, N)
    BY <2>0, AppliedFacts
  <2>2. \A i \in 1..N : batch[i].kind = "trade" => batch[i].id \in db.trades
    BY <2>0 DEF Absorbed, Holds, StoresTrade
  <2>3. Applied.ok
    <3>1. \A i \in 1..N : batch[i].kind = "trade" =>
            /\ db.orders[trades[batch[i].id].buy].status # "NONE"
            /\ db.orders[trades[batch[i].id].sell].status # "NONE"
      BY <2>0, <2>2 DEF DBNeverAhead
    <3> QED BY <2>0, <3>1, AppliedAgain
  <2>4. Applied.trades = db.trades
    <3>1. \A x : x \in Applied.trades <=> x \in db.trades
      BY <2>1, <2>2 DEF Outcome
    <3> QED BY <3>1
  <2>5. Applied.orders = db.orders
    <3>1. \A o \in Orders : Applied.orders[o] = db.orders[o]
      BY <2>0, <2>1 DEF Outcome, Absorbed
    <3>2. Applied.orders \in [Orders -> RowRec] /\ db.orders \in [Orders -> RowRec]
      BY <2>0, <2>1 DEF Acc, TablesOK
    <3> QED BY <3>1, <3>2
  <2> QED BY <2>3, <2>4, <2>5
<1> QED BY <1>1, PipelineInvariant, PTL

\* If every handler ends within the grace period, neither a handler nor the
\* matcher sends on the closed event bus, and no price feed does whose
\* goroutines main had waited for: only the Binance feed, or a simulator
\* launched after sim.Stop, can (main's shutdown sequence).
THEOREM BusClosedLast ==
  ASSUME GraceExpires = FALSE
  PROVE  PSpec => []NoSendOnClosedBus
<1>1. PInit => ClosingInv
  <2> SUFFICES ASSUME PInit PROVE ClosingInv
    OBVIOUS
  <2>1. closed = FALSE /\ busClosed = FALSE /\ mpc = "idle" /\ losses = {} /\ main = "serve"
    BY DEF PInit, Init
  <2> QED BY <2>1 DEF ClosingInv, Stopped
<1>2. PInv /\ ClosingInv /\ [PNext]_pvars => ClosingInv'
  BY ClosingInvStep DEF PInv
<1>3. ClosingInv => NoSendOnClosedBus
  BY DEF ClosingInv, NoSendOnClosedBus
<1> QED BY <1>1, <1>2, <1>3, PipelineInvariant, PTL DEF PSpec

-----------------------------------------------------------------------------
(***************************************************************************)
(* Where things stand in a channel: W are the operations (or events) that  *)
(* write an order's row, T those that store one of its trades, L those of  *)
(* W that write a given row.                                               *)
(***************************************************************************)
\* Nothing of W is in s.
FreeOf(s, W) == \A i \in 1..Len(s) : s[i] \notin W

\* Something of T comes before anything of W.
BlockedBy(s, T, W) == \E i \in 1..Len(s) : s[i] \in T /\ \A j \in 1..i - 1 : s[j] \notin W

\* The last of W in s is in L.
LastIn(s, L, W) == \E i \in 1..Len(s) : s[i] \in L /\ \A j \in i + 1..Len(s) : s[j] \notin W

LEMMA EmptyFacts ==
  ASSUME NEW T, NEW W, NEW L
  PROVE  FreeOf(<<>>, W) /\ ~BlockedBy(<<>>, T, W) /\ ~LastIn(<<>>, L, W)
BY DEF FreeOf, BlockedBy, LastIn

\* r is s with x at its end.
Appended(r, s, x, T, W, L) ==
  /\ FreeOf(r, W) <=> FreeOf(s, W) /\ x \notin W
  /\ BlockedBy(r, T, W) <=> BlockedBy(s, T, W) \/ (FreeOf(s, W) /\ x \in T)
  /\ LastIn(r, L, W) <=> x \in L \/ (LastIn(s, L, W) /\ x \notin W)

LEMMA AppendedFacts ==
  ASSUME NEW S, NEW s \in Seq(S), NEW x \in S, NEW r, r = Append(s, x), NEW T, NEW W, NEW L
  PROVE  Appended(r, s, x, T, W, L)
<1> DEFINE n == Len(s)
<1>1. n \in Nat /\ Len(r) = n + 1 /\ r[n + 1] = x /\ \A i \in 1..n : r[i] = s[i]
  OBVIOUS
<1> HIDE DEF n
<1>2. 1..n + 1 = (1..n) \cup {n + 1}
  BY <1>1
<1>3. FreeOf(r, W) <=> FreeOf(s, W) /\ x \notin W
  BY <1>1, <1>2 DEF FreeOf, n
<1>4. BlockedBy(r, T, W) <=> BlockedBy(s, T, W) \/ (FreeOf(s, W) /\ x \in T)
  <2>1. \A i \in 1..n : \A j \in 1..i - 1 : j \in 1..n /\ r[j] = s[j]
    BY <1>1
  <2>2. 1..(n + 1) - 1 = 1..n
    BY <1>1
  <2>3. ASSUME BlockedBy(r, T, W) PROVE BlockedBy(s, T, W) \/ (FreeOf(s, W) /\ x \in T)
    <3>1. PICK i \in 1..n + 1 : r[i] \in T /\ \A j \in 1..i - 1 : r[j] \notin W
      BY <1>1, <2>3 DEF BlockedBy
    <3>2. CASE i = n + 1
      BY <1>1, <2>2, <3>1, <3>2 DEF FreeOf, n
    <3>3. CASE i \in 1..n
      BY <1>1, <2>1, <3>1, <3>3 DEF BlockedBy, n
    <3> QED BY <1>2, <3>2, <3>3
  <2>4. ASSUME BlockedBy(s, T, W) PROVE BlockedBy(r, T, W)
    <3>1. PICK i \in 1..n : s[i] \in T /\ \A j \in 1..i - 1 : s[j] \notin W
      BY <2>4 DEF BlockedBy, n
    <3>2. r[i] \in T /\ (\A j \in 1..i - 1 : r[j] \notin W) /\ i \in 1..Len(r)
      BY <1>1, <2>1, <3>1
    <3> QED BY <3>2 DEF BlockedBy
  <2>5. ASSUME FreeOf(s, W), x \in T PROVE BlockedBy(r, T, W)
    <3>1. r[n + 1] \in T /\ (\A j \in 1..(n + 1) - 1 : r[j] \notin W) /\ n + 1 \in 1..Len(r)
      BY <1>1, <2>2, <2>5 DEF FreeOf, n
    <3> QED BY <3>1 DEF BlockedBy
  <2> QED BY <2>3, <2>4, <2>5
<1>5. LastIn(r, L, W) <=> x \in L \/ (LastIn(s, L, W) /\ x \notin W)
  <2>1. \A i \in 1..n : i + 1..n + 1 = (i + 1..n) \cup {n + 1}
    BY <1>1
  <2>2. \A i \in 1..n : \A j \in i + 1..n : r[j] = s[j]
    BY <1>1
  <2>3. ASSUME LastIn(r, L, W) PROVE x \in L \/ (LastIn(s, L, W) /\ x \notin W)
    <3>1. PICK i \in 1..n + 1 : r[i] \in L /\ \A j \in i + 1..n + 1 : r[j] \notin W
      BY <1>1, <2>3 DEF LastIn
    <3>2. CASE i = n + 1
      BY <1>1, <3>1, <3>2
    <3>3. CASE i \in 1..n
      <4>1. s[i] \in L /\ x \notin W /\ \A j \in i + 1..n : s[j] \notin W
        BY <1>1, <2>1, <2>2, <3>1, <3>3
      <4> QED BY <3>3, <4>1 DEF LastIn, n
    <3> QED BY <1>2, <3>2, <3>3
  <2>4. ASSUME x \in L PROVE LastIn(r, L, W)
    <3>1. n + 1 \in 1..Len(r) /\ r[n + 1] \in L /\ (n + 1) + 1..Len(r) = {}
      BY <1>1, <2>4
    <3> QED BY <3>1 DEF LastIn
  <2>5. ASSUME LastIn(s, L, W), x \notin W PROVE LastIn(r, L, W)
    <3>1. PICK i \in 1..n : s[i] \in L /\ \A j \in i + 1..n : s[j] \notin W
      BY <2>5 DEF LastIn, n
    <3>2. i \in 1..Len(r) /\ r[i] \in L /\ \A j \in i + 1..Len(r) : r[j] \notin W
      BY <1>1, <2>1, <2>2, <2>5, <3>1
    <3> QED BY <3>2 DEF LastIn
  <2> QED BY <2>3, <2>4, <2>5
<1> QED BY <1>3, <1>4, <1>5 DEF Appended

\* s is r with x before it.
Prepended(s, x, r, T, W, L) ==
  /\ FreeOf(s, W) <=> x \notin W /\ FreeOf(r, W)
  /\ BlockedBy(s, T, W) <=> x \in T \/ (x \notin W /\ BlockedBy(r, T, W))
  /\ LastIn(s, L, W) <=> LastIn(r, L, W) \/ (x \in L /\ FreeOf(r, W))

LEMMA HeadTailFacts ==
  ASSUME NEW S, NEW s \in Seq(S), s # <<>>, NEW T, NEW W, NEW L
  PROVE  Prepended(s, Head(s), Tail(s), T, W, L)
<1> DEFINE r == Tail(s)
           n == Len(r)
<1>1. /\ n \in Nat /\ Len(s) = n + 1 /\ Head(s) = s[1] /\ 1 \in 1..Len(s)
      /\ \A i \in 1..n : r[i] = s[i + 1]
  OBVIOUS
<1> HIDE DEF r, n
<1>2. \A i \in 1..n + 1 : i = 1 \/ (i - 1 \in 1..n /\ s[i] = r[i - 1])
  BY <1>1
<1>3. FreeOf(s, W) <=> Head(s) \notin W /\ FreeOf(r, W)
  <2>1. \A i \in 1..n : i + 1 \in 1..Len(s)
    BY <1>1
  <2> QED BY <1>1, <1>2, <2>1 DEF FreeOf, n
<1>4. BlockedBy(s, T, W) <=> Head(s) \in T \/ (Head(s) \notin W /\ BlockedBy(r, T, W))
  <2>1. ASSUME BlockedBy(s, T, W) PROVE Head(s) \in T \/ (Head(s) \notin W /\ BlockedBy(r, T, W))
    <3>1. PICK i \in 1..n + 1 : s[i] \in T /\ \A j \in 1..i - 1 : s[j] \notin W
      BY <1>1, <2>1 DEF BlockedBy
    <3>2. CASE i # 1
      <4>1. i - 1 \in 1..n /\ r[i - 1] \in T /\ 1 \in 1..i - 1
        BY <1>1, <1>2, <3>1, <3>2
      <4>2. \A j \in 1..(i - 1) - 1 : r[j] = s[j + 1] /\ j + 1 \in 1..i - 1
        BY <1>1, <3>1
      <4>3. \A j \in 1..(i - 1) - 1 : r[j] \notin W
        BY <3>1, <4>2
      <4> QED BY <1>1, <3>1, <4>1, <4>3 DEF BlockedBy, n
    <3> QED BY <1>1, <3>1, <3>2
  <2>2. ASSUME Head(s) \in T PROVE BlockedBy(s, T, W)
    <3>1. 1..1 - 1 = {}
      OBVIOUS
    <3> QED BY <1>1, <2>2, <3>1 DEF BlockedBy
  <2>3. ASSUME Head(s) \notin W, BlockedBy(r, T, W) PROVE BlockedBy(s, T, W)
    <3>1. PICK i \in 1..n : r[i] \in T /\ \A j \in 1..i - 1 : r[j] \notin W
      BY <2>3 DEF BlockedBy, n
    <3>2. i + 1 \in 1..Len(s) /\ s[i + 1] \in T
      BY <1>1, <3>1
    <3>3. ASSUME NEW j \in 1..(i + 1) - 1 PROVE s[j] \notin W
      <4>1. j = 1 \/ (j - 1 \in 1..i - 1 /\ s[j] = r[j - 1])
        BY <1>1, <3>1
      <4> QED BY <1>1, <2>3, <3>1, <4>1
    <3> QED BY <3>2, <3>3 DEF BlockedBy
  <2> QED BY <2>1, <2>2, <2>3
<1>5. LastIn(s, L, W) <=> LastIn(r, L, W) \/ (Head(s) \in L /\ FreeOf(r, W))
  <2>1. ASSUME LastIn(s, L, W) PROVE LastIn(r, L, W) \/ (Head(s) \in L /\ FreeOf(r, W))
    <3>1. PICK i \in 1..n + 1 : s[i] \in L /\ \A j \in i + 1..n + 1 : s[j] \notin W
      BY <1>1, <2>1 DEF LastIn
    <3>2. CASE i = 1
      <4>1. \A j \in 1..n : r[j] = s[j + 1] /\ j + 1 \in i + 1..n + 1
        BY <1>1, <3>2
      <4> QED BY <1>1, <3>1, <3>2, <4>1 DEF FreeOf, n
    <3>3. CASE i # 1
      <4>1. i - 1 \in 1..n /\ r[i - 1] \in L
        BY <1>1, <1>2, <3>1, <3>3
      <4>2. \A j \in (i - 1) + 1..n : r[j] = s[j + 1] /\ j + 1 \in i + 1..n + 1
        BY <1>1, <3>1
      <4> QED BY <3>1, <4>1, <4>2 DEF LastIn, n
    <3> QED BY <3>2, <3>3
  <2>2. ASSUME LastIn(r, L, W) PROVE LastIn(s, L, W)
    <3>1. PICK i \in 1..n : r[i] \in L /\ \A j \in i + 1..n : r[j] \notin W
      BY <2>2 DEF LastIn, n
    <3>2. i + 1 \in 1..Len(s) /\ s[i + 1] \in L
      BY <1>1, <3>1
    <3>3. ASSUME NEW j \in (i + 1) + 1..Len(s) PROVE s[j] \notin W
      <4>1. j - 1 \in i + 1..n /\ s[j] = r[j - 1]
        BY <1>1, <3>1
      <4> QED BY <3>1, <4>1
    <3> QED BY <3>2, <3>3 DEF LastIn
  <2>3. ASSUME Head(s) \in L, FreeOf(r, W) PROVE LastIn(s, L, W)
    <3>1. ASSUME NEW j \in 1 + 1..Len(s) PROVE s[j] \notin W
      <4>1. j - 1 \in 1..n /\ s[j] = r[j - 1]
        BY <1>1
      <4> QED BY <2>3, <4>1 DEF FreeOf, n
    <3> QED BY <1>1, <2>3, <3>1 DEF LastIn
  <2> QED BY <2>1, <2>2, <2>3
<1> QED BY <1>3, <1>4, <1>5 DEF r, Prepended

-----------------------------------------------------------------------------
(***************************************************************************)
(* When no stage loses anything, everything arrives.  What the bus, the    *)
(* queue, the batch and the tables hold of an order, taken together, says  *)
(* what its row will be once everything has been written.                  *)
(***************************************************************************)
\* The operations that write o's row, those that write row r, and those that
\* store a trade of o (q are the engine's trades).
Writes(o)       == {op \in OpRec : WritesTo(op, o)}
WritesRow(o, r) == {op \in OpRec : WritesTo(op, o) /\ op.row = r}
TradesOf(q, o)  == {op \in OpRec : op.kind = "trade" /\ o \in {q[op.id].buy, q[op.id].sell}}

\* The events that will: OrderCreated writes an open row, OrderUpdated the
\* order as it is then.
Announces(o)       == {e \in EventRec : e.type \in {"OrderCreated", "OrderUpdated"} /\ e.ref = o}
AnnouncesRow(o, r) == {e \in Announces(o) : e.type = "OrderUpdated" \/ r = OpenRow}
TradeEvents(q, o)  == {e \in EventRec : e.type = "TradeExecuted" /\ o \in {q[e.ref].buy, q[e.ref].sell}}
Executions(n)      == {e \in EventRec : e.type = "TradeExecuted" /\ e.ref = n}

\* A trade of o comes before any row of o: its foreign key will fail.
Doomed(o) ==
  /\ db.orders[o].status = "NONE"
  /\ \/ BlockedBy(batch, TradesOf(trades, o), Writes(o))
     \/ /\ FreeOf(batch, Writes(o))
        /\ BlockedBy(queue, TradesOf(trades, o), Writes(o))
     \/ /\ FreeOf(batch, Writes(o)) /\ FreeOf(queue, Writes(o))
        /\ BlockedBy(bus, TradeEvents(trades, o), Announces(o))

\* The last row on its way, or the stored one if there is none, is o as it is.
Current(o) ==
  LET r == Row(order[o])
  IN  \/ LastIn(bus, AnnouncesRow(o, r), Announces(o))
      \/ /\ FreeOf(bus, Announces(o))
         /\ \/ LastIn(queue, WritesRow(o, r), Writes(o))
            \/ /\ FreeOf(queue, Writes(o))
               /\ \/ LastIn(batch, WritesRow(o, r), Writes(o))
                  \/ FreeOf(batch, Writes(o)) /\ db.orders[o] = r

\* The matcher has still to announce o's update.
Announcing(o) ==
  \/ o = trade.buy /\ mpc \in Filling \cup {"pubBuy"}
  \/ o = trade.sell /\ mpc \in Filling \cup {"pubBuy", "pubSell"}

\* Nothing has been announced of o, and nothing has happened to it but for the
\* trade the matcher is about to announce.
Unheard(o) ==
  /\ FreeOf(bus, Announces(o)) /\ FreeOf(queue, Writes(o)) /\ FreeOf(batch, Writes(o))
  /\ db.orders[o].status = "NONE"
  /\ Row(order[o]) = OpenRow \/ (o \in {trade.buy, trade.sell} /\ mpc \in Filling)

OrderFollows(o) ==
  /\ phase[o] # "done" => Doomed(o) \/ Unheard(o)
  /\ phase[o] = "done" => Doomed(o) \/ Announcing(o) \/ Current(o)

TradeFollows(n) ==
  \/ n \in db.trades \/ Holds(queue, n) \/ Holds(batch, n)
  \/ ~FreeOf(bus, Executions(n))
  \/ n = Len(trades) /\ mpc \in Filling

Lossless ==
  losses = {} => /\ \A o \in Orders : OrderFollows(o)
                 /\ \A n \in DOMAIN trades : TradeFollows(n)

\* By the time its updates are announced, the trade has filled both orders.
PartiesFilled ==
  /\ mpc \in {"fillSell", "updateBuy", "updateSell", "ticker", "pubTrade", "pubBuy", "pubSell"} =>
       order[trade.buy].filled > 0
  /\ mpc \in {"updateBuy", "updateSell", "ticker", "pubTrade", "pubBuy", "pubSell"} =>
       order[trade.sell].filled > 0

LEMMA PartiesFilledStep ==
  ASSUME IInv, PartiesFilled, EngineMove \/ UNCHANGED vars \/ Stop
  PROVE  PartiesFilled'
<1>1. CASE FillBuy \/ FillSell
  <2>1. mpc \in TradeSteps
    BY <1>1 DEF FillBuy, FillSell, TradeSteps
  <2>2. /\ trade.buy \in Orders /\ trade.sell \in Orders /\ trade.buy # trade.sell
        /\ trade.qty \in Nat /\ trade.qty > 0
    BY <2>1, TradeParties DEF IInv, TradeInv
  <2>3. /\ order \in [Orders -> OrderRec]
        /\ order[trade.buy].filled \in Nat /\ order[trade.sell].filled \in Nat
    BY <2>2 DEF IInv, TypeOK, OrderRec
  <2>4. CASE FillBuy
    <3>1. /\ mpc' = "fillSell" /\ trade' = trade
          /\ order' = [order EXCEPT ![trade.buy] = Fill(@, trade.qty)]
      BY <2>4 DEF FillBuy, FillOrder
    <3>2. order'[trade.buy].filled = order[trade.buy].filled + trade.qty
      BY <2>2, <2>3, <3>1 DEF Fill, OrderRec
    <3> QED BY <2>2, <2>3, <3>1, <3>2 DEF PartiesFilled
  <2>5. CASE FillSell
    <3>1. /\ mpc = "fillSell" /\ mpc' = "updateBuy" /\ trade' = trade
          /\ order' = [order EXCEPT ![trade.sell] = Fill(@, trade.qty)]
      BY <2>5 DEF FillSell, FillOrder
    <3>2. order'[trade.sell].filled = order[trade.sell].filled + trade.qty
      BY <2>2, <2>3, <3>1 DEF Fill, OrderRec
    <3>3. order'[trade.buy].filled = order[trade.buy].filled
      BY <2>2, <2>3, <3>1
    <3> QED BY <2>2, <2>3, <3>1, <3>2, <3>3 DEF PartiesFilled
  <2> QED BY <1>1, <2>4, <2>5
<1>2. CASE ~FillBuy /\ ~FillSell
  <2>1. order' = order
    BY <1>2 DEF EngineMove, CreateOrder, SaveOrder, SubmitOrder, PublishCreated, MatcherStep, Receive,
       SaveTrade, UpdateBuy, UpdateSell, UpdateOrder, UpdateTicker, PublishTrade,
       PublishBuy, PublishSell, PublishStep, Settle, RestOrder, InitStock, Stop, vars
  <2>2. \/ mpc' = mpc /\ trade' = trade
        \/ mpc' \in {"idle", "match", "stopped", "fillBuy", "settle"}
        \/ /\ trade' = trade
           /\ mpc \in {"updateBuy", "updateSell", "ticker", "pubTrade", "pubBuy", "pubSell"}
    <3>1. CASE EngineMove
      BY <1>2, <3>1 DEF EngineMove, CreateOrder, SaveOrder, SubmitOrder, PublishCreated, MatcherStep,
         Receive, SaveTrade, UpdateBuy, UpdateSell, UpdateOrder, UpdateTicker, PublishTrade,
         PublishBuy, PublishSell, PublishStep, Settle, RestOrder, InitStock, matcherVars
    <3>2. CASE UNCHANGED vars \/ Stop
      BY <3>2 DEF Stop, vars, matcherVars
    <3> QED BY <3>1, <3>2
  <2> QED BY <2>1, <2>2 DEF PartiesFilled
<1> QED BY <1>1, <1>2

\* A trade on its way stays one of o's when the engine stores more trades.
LEMMA BlockedMore ==
  ASSUME NEW q, NEW r, NEW o, NEW D, \A n \in D : r[n] = q[n]
  PROVE  /\ \A s : OpsOK(s, D) /\ BlockedBy(s, TradesOf(q, o), Writes(o))
                     => BlockedBy(s, TradesOf(r, o), Writes(o))
         /\ \A b : EventsOK(b, D) /\ BlockedBy(b, TradeEvents(q, o), Announces(o))
                     => BlockedBy(b, TradeEvents(r, o), Announces(o))
<1>1. ASSUME NEW s, OpsOK(s, D), BlockedBy(s, TradesOf(q, o), Writes(o))
      PROVE  BlockedBy(s, TradesOf(r, o), Writes(o))
  <2>1. PICK i \in 1..Len(s) : /\ s[i] \in TradesOf(q, o)
                               /\ \A j \in 1..i - 1 : s[j] \notin Writes(o)
    BY <1>1 DEF BlockedBy
  <2>2. s[i].kind = "trade" /\ s[i].id \in D
    BY <1>1, <2>1 DEF OpsOK, OpOver, TradesOf
  <2>3. s[i] \in TradesOf(r, o)
    BY <2>1, <2>2 DEF TradesOf
  <2> QED BY <2>1, <2>3 DEF BlockedBy
<1>2. ASSUME NEW b, EventsOK(b, D), BlockedBy(b, TradeEvents(q, o), Announces(o))
      PROVE  BlockedBy(b, TradeEvents(r, o), Announces(o))
  <2>1. PICK i \in 1..Len(b) : /\ b[i] \in TradeEvents(q, o)
                               /\ \A j \in 1..i - 1 : b[j] \notin Announces(o)
    BY <1>2 DEF BlockedBy
  <2>2. b[i].type = "TradeExecuted" /\ b[i].ref \in D
    BY <1>2, <2>1 DEF EventsOK, EventOver, TradeEvents
  <2>3. b[i] \in TradeEvents(r, o)
    BY <2>1, <2>2 DEF TradeEvents
  <2> QED BY <2>1, <2>3 DEF BlockedBy
<1> QED BY <1>1, <1>2

\* What was doomed stays so while the engine runs.
LEMMA EngineKeepsDoomed ==
  ASSUME PipeTypes, NEW o, UNCHANGED <<queue, batch, db>>,
         \A n \in DOMAIN trades : trades'[n] = trades[n],
         bus' = bus \/ \E e \in EventRec : bus' = Append(bus, e),
         Doomed(o)
  PROVE  Doomed(o)'
<1>0. /\ OpsOK(queue, DOMAIN trades) /\ OpsOK(batch, DOMAIN trades) /\ EventsOK(bus, DOMAIN trades)
      /\ bus \in Seq(EventRec)
  BY DEF PipeTypes, EventsOK
<1>1. /\ BlockedBy(batch, TradesOf(trades, o), Writes(o)) => BlockedBy(batch, TradesOf(trades', o), Writes(o))
      /\ BlockedBy(queue, TradesOf(trades, o), Writes(o)) => BlockedBy(queue, TradesOf(trades', o), Writes(o))
      /\ BlockedBy(bus, TradeEvents(trades, o), Announces(o)) => BlockedBy(bus, TradeEvents(trades', o), Announces(o))
  BY <1>0, BlockedMore
<1>2. BlockedBy(bus, TradeEvents(trades', o), Announces(o)) => BlockedBy(bus', TradeEvents(trades', o), Announces(o))
  <2>1. CASE bus' = bus
    BY <2>1
  <2>2. ASSUME NEW e \in EventRec, bus' = Append(bus, e)
        PROVE  BlockedBy(bus, TradeEvents(trades', o), Announces(o)) => BlockedBy(bus', TradeEvents(trades', o), Announces(o))
    <3>1. Appended(bus', bus, e, TradeEvents(trades', o), Announces(o), {})
      BY <1>0, <2>2, AppendedFacts
    <3> QED BY <3>1 DEF Appended
  <2> QED BY <2>1, <2>2
<1> QED BY <1>1, <1>2 DEF Doomed

\* An event that does not announce o leaves what is known of o as it is.
LEMMA EngineKeepsCurrent ==
  ASSUME PipeTypes, NEW o, UNCHANGED <<queue, batch, db>>, order'[o] = order[o],
         \/ bus' = bus
         \/ \E e \in EventRec : bus' = Append(bus, e) /\ e \notin Announces(o)
  PROVE  /\ Current(o) => Current(o)'
         /\ FreeOf(bus, Announces(o)) => FreeOf(bus', Announces(o))
<1> DEFINE r == Row(order[o])
<1>0. bus \in Seq(EventRec) /\ Row(order'[o]) = r
  BY DEF PipeTypes, EventsOK, Row
<1> HIDE DEF r
<1>1. /\ FreeOf(bus, Announces(o)) => FreeOf(bus', Announces(o))
      /\ LastIn(bus, AnnouncesRow(o, r), Announces(o)) => LastIn(bus', AnnouncesRow(o, r), Announces(o))
  <2>1. CASE bus' = bus
    BY <2>1
  <2>2. ASSUME NEW e \in EventRec, bus' = Append(bus, e), e \notin Announces(o)
        PROVE  /\ FreeOf(bus, Announces(o)) => FreeOf(bus', Announces(o))
               /\ LastIn(bus, AnnouncesRow(o, r), Announces(o)) => LastIn(bus', AnnouncesRow(o, r), Announces(o))
    <3>1. Appended(bus', bus, e, {}, Announces(o), AnnouncesRow(o, r))
      BY <1>0, <2>2, AppendedFacts
    <3> QED BY <2>2, <3>1 DEF Appended
  <2> QED BY <2>1, <2>2
<1> QED BY <1>0, <1>1 DEF Current, r

\* While nothing is lost, what an engine step publishes enters the bus.
LEMMA LosslessPublish ==
  ASSUME IInv, LastTrade, EngineMove, BusPublish(pub'), bus \in Seq(EventRec), losses' = {}
  PROVE  /\ losses = {}
         /\ \/ pub' = <<>> /\ bus' = bus
            \/ \E e \in EventRec : pub' = <<e>> /\ bus' = Append(bus, e)
<1>1. losses = {}
  BY DEF BusPublish
<1>2. losses' # losses \cup {"busFull"} /\ losses' # losses \cup {"panic"}
  OBVIOUS
<1> QED BY <1>1, <1>2, PublishFacts

\* An engine step that fills, stores or announces nothing changes nothing that
\* is known of o.
OtherMove ==
  \/ \E o \in Orders : SaveOrder(o) \/ SubmitOrder(o)
  \/ Receive \/ UpdateBuy \/ UpdateSell \/ UpdateTicker \/ Settle \/ RestOrder \/ InitStock

LEMMA OtherMoveFacts ==
  ASSUME IInv, OtherMove
  PROVE  /\ UNCHANGED <<order, trades>>
         /\ \A o \in Orders : phase'[o] = "done" <=> phase[o] = "done"
         /\ mpc \in Filling \cup {"pubBuy", "pubSell"} => trade' = trade
         /\ mpc \in Filling => mpc' \in Filling
         /\ mpc \in {"pubBuy", "pubSell"} => mpc' = mpc
         /\ \A e : pub' = <<e>> => e.type \notin {"OrderCreated", "OrderUpdated", "TradeExecuted"}
<1>1. ASSUME NEW o \in Orders, SaveOrder(o) \/ SubmitOrder(o)
      PROVE  /\ UNCHANGED <<order, trades, mpc, trade>> /\ pub' = <<>>
             /\ \A x \in Orders : phase'[x] = "done" <=> phase[x] = "done"
  <2>1. UNCHANGED <<order, trades, mpc, trade>> /\ pub' = <<>>
    BY <1>1 DEF SaveOrder, SubmitOrder, NoPublish, matcherVars
  <2>2. /\ phase[o] # "done" /\ phase \in [Orders -> Phases]
        /\ \E p \in {"saved", "failed", "panicked", "submitted", "rejected"} :
             phase' = [phase EXCEPT ![o] = p]
    BY <1>1 DEF SaveOrder, SubmitOrder, IInv, TypeOK
  <2> QED BY <2>1, <2>2
<1>2. ASSUME Receive \/ UpdateBuy \/ UpdateSell \/ UpdateTicker \/ Settle \/ RestOrder \/ InitStock
      PROVE  /\ UNCHANGED <<order, trades, phase>>
             /\ \/ pub' = <<>>
                \/ pub' = <<Event("TickerUpdated", NoOrder)>>
                \/ pub' = <<Event("OrderBookUpdated", NoOrder)>>
  BY <1>2 DEF Receive, UpdateBuy, UpdateSell, UpdateOrder, UpdateTicker, Settle, RestOrder, InitStock,
     NoPublish, Publish, handlerVars
<1>3. ASSUME Receive \/ UpdateBuy \/ UpdateSell \/ UpdateTicker \/ Settle \/ RestOrder \/ InitStock
      PROVE  /\ mpc \in Filling \cup {"pubBuy", "pubSell"} => trade' = trade
             /\ mpc \in Filling => mpc' \in Filling
             /\ mpc \in {"pubBuy", "pubSell"} => mpc' = mpc
  BY <1>3 DEF Receive, UpdateBuy, UpdateSell, UpdateOrder, UpdateTicker, Settle, RestOrder, InitStock,
     matcherVars, Filling
<1>4. ASSUME NEW e, pub' = <<e>>
      PROVE  e.type \notin {"OrderCreated", "OrderUpdated", "TradeExecuted"}
  <2>1. pub' # <<>>
    BY <1>4
  <2>2. \/ <<e>> = <<Event("TickerUpdated", NoOrder)>>
        \/ <<e>> = <<Event("OrderBookUpdated", NoOrder)>>
    BY <1>1, <1>2, <1>4, <2>1 DEF OtherMove
  <2>3. e = Event("TickerUpdated", NoOrder) \/ e = Event("OrderBookUpdated", NoOrder)
    BY <2>2
  <2> QED BY <2>3 DEF Event
<1> QED BY <1>1, <1>2, <1>3, <1>4 DEF OtherMove

LEMMA EngineCases ==
  ASSUME EngineMove
  PROVE  \/ \E x \in Orders : PublishCreated(x)
         \/ FillBuy \/ FillSell \/ SaveTrade \/ PublishTrade \/ PublishBuy \/ PublishSell
         \/ OtherMove
BY DEF EngineMove, CreateOrder, MatcherStep, OtherMove

\* What is known of an order follows the engine.
LEMMA EngineFollows ==
  ASSUME IInv, LastTrade, PartiesFilled, PipeTypes, EngineStep, losses' = {},
         NEW o \in Orders, OrderFollows(o)
  PROVE  OrderFollows(o)'
<1>0. /\ EngineMove /\ BusPublish(pub') /\ UNCHANGED <<queue, batch, db>> /\ bus \in Seq(EventRec)
      /\ order \in [Orders -> OrderRec] /\ phase \in [Orders -> Phases]
  BY DEF EngineStep, Piped, workerVars, PipeTypes, EventsOK, IInv, TypeOK
<1>a. \/ pub' = <<>> /\ bus' = bus
      \/ \E e \in EventRec : pub' = <<e>> /\ bus' = Append(bus, e)
  BY <1>0, LosslessPublish
<1>b. Doomed(o) => Doomed(o)'
  <2>1. \A n \in DOMAIN trades : trades'[n] = trades[n]
    BY <1>0, TradesKept
  <2>2. bus' = bus \/ \E e \in EventRec : bus' = Append(bus, e)
    BY <1>a
  <2> QED BY <1>0, <2>1, <2>2, EngineKeepsDoomed
<1>c. ASSUME order'[o] = order[o], \A e \in EventRec : pub' = <<e>> => e \notin Announces(o)
      PROVE  /\ Current(o) => Current(o)'
             /\ FreeOf(bus, Announces(o)) => FreeOf(bus', Announces(o))
  <2>1. \/ bus' = bus
        \/ \E e \in EventRec : bus' = Append(bus, e) /\ e \notin Announces(o)
    BY <1>a, <1>c
  <2> QED BY <1>0, <1>c, <2>1, EngineKeepsCurrent
<1>d. ASSUME NEW e, pub' = <<e>>
      PROVE  e \in EventRec /\ bus' = Append(bus, e)
  <2>1. pub' # <<>>
    BY <1>d
  <2>2. PICK f \in EventRec : pub' = <<f>> /\ bus' = Append(bus, f)
    BY <1>a, <2>1
  <2>3. f = e
    BY <1>d, <2>2
  <2> QED BY <2>2, <2>3
\* The event announces o itself.
<1>e. ASSUME NEW e, pub' = <<e>>, e \in AnnouncesRow(o, Row(order'[o]))
      PROVE  Current(o)'
  <2> DEFINE r == Row(order'[o])
  <2>1. Appended(bus', bus, e, {}, Announces(o), AnnouncesRow(o, r))
    BY <1>0, <1>d, <1>e, AppendedFacts
  <2>2. LastIn(bus', AnnouncesRow(o, r), Announces(o))
    BY <1>e, <2>1 DEF Appended
  <2> QED BY <2>2 DEF Current
<1>1. ASSUME NEW x \in Orders, PublishCreated(x) PROVE OrderFollows(o)'
  <2> DEFINE e == Event("OrderCreated", x)
  <2>1. /\ UNCHANGED <<order, trades, mpc, trade>> /\ pub' = <<e>>
        /\ phase[x] = "submitted" /\ phase' = [phase EXCEPT ![x] = "done"]
    BY <1>1 DEF PublishCreated, Publish, matcherVars
  <2>2. e.type = "OrderCreated" /\ e.ref = x /\ e \in EventRec
    BY <1>d, <2>1 DEF Event
  <2> HIDE DEF e
  <2>3. CASE o = x
    <3>1. phase[o] # "done" /\ phase'[o] = "done"
      BY <1>0, <2>1, <2>3
    <3>2. CASE Unheard(o) /\ Row(order[o]) = OpenRow
      <4>1. e \in AnnouncesRow(o, Row(order'[o]))
        BY <2>1, <2>2, <2>3, <3>2 DEF AnnouncesRow, Announces, Row
      <4> QED BY <1>e, <2>1, <3>1, <4>1 DEF OrderFollows
    <3>3. CASE o \in {trade.buy, trade.sell} /\ mpc \in Filling
      BY <2>1, <3>1, <3>3 DEF OrderFollows, Announcing
    <3> QED BY <1>b, <3>1, <3>2, <3>3 DEF OrderFollows, Unheard
  <2>4. CASE o # x
    <3>1. phase'[o] = phase[o]
      BY <1>0, <2>1, <2>4
    <3>2. e \notin Announces(o)
      BY <2>2, <2>4 DEF Announces
    <3>3. \A f \in EventRec : pub' = <<f>> => f \notin Announces(o)
      BY <2>1, <3>2
    <3>4. /\ Current(o) => Current(o)'
          /\ FreeOf(bus, Announces(o)) => FreeOf(bus', Announces(o))
      BY <1>c, <2>1, <3>3
    <3>5. Unheard(o) => Unheard(o)'
      BY <1>0, <2>1, <3>4 DEF Unheard, Row
    <3>6. Announcing(o) => Announcing(o)'
      BY <2>1 DEF Announcing
    <3> QED BY <1>b, <3>1, <3>4, <3>5, <3>6 DEF OrderFollows
  <2> QED BY <2>3, <2>4
<1>2. CASE FillBuy \/ FillSell
  <2>1. /\ UNCHANGED <<phase, trade>> /\ pub' = <<>> /\ mpc \in Filling /\ mpc' \in Filling
        /\ \E x \in {trade.buy, trade.sell} : order' = [order EXCEPT ![x] = Fill(@, trade.qty)]
    BY <1>2 DEF FillBuy, FillSell, FillOrder, NoPublish, handlerVars, Filling
  <2>2. bus' = bus
    BY <1>a, <2>1
  <2>3. CASE o \in {trade.buy, trade.sell}
    <3>1. Announcing(o)'
      BY <2>1, <2>3 DEF Announcing
    <3>2. Unheard(o) => Unheard(o)'
      BY <1>0, <2>1, <2>2, <2>3 DEF Unheard
    <3> QED BY <1>b, <2>1, <3>1, <3>2 DEF OrderFollows
  <2>4. CASE o \notin {trade.buy, trade.sell}
    <3>1. order'[o] = order[o]
      BY <1>0, <2>1, <2>4
    <3>2. \A e \in EventRec : pub' = <<e>> => e \notin Announces(o)
      BY <2>1
    <3>3. Current(o) => Current(o)'
      BY <1>c, <3>1, <3>2
    <3>4. Unheard(o) => Unheard(o)'
      BY <1>0, <2>1, <2>2, <3>1 DEF Unheard, Row
    <3>5. ~Announcing(o)
      BY <2>4 DEF Announcing
    <3> QED BY <1>b, <2>1, <3>3, <3>4, <3>5 DEF OrderFollows
  <2> QED BY <2>3, <2>4
<1>3. CASE SaveTrade
  <2>1. UNCHANGED <<phase, order>> /\ pub' = <<>> /\ mpc = "match"
    BY <1>3 DEF SaveTrade, NoPublish, handlerVars
  <2>2. bus' = bus
    BY <1>a, <2>1
  <2>3. Current(o) => Current(o)'
    BY <1>c, <2>1
  <2>4. ~Announcing(o) /\ (Unheard(o) => Row(order[o]) = OpenRow)
    BY <2>1 DEF Announcing, Unheard, Filling
  <2>5. Unheard(o) => Unheard(o)'
    BY <1>0, <2>1, <2>2, <2>4 DEF Unheard, Row
  <2> QED BY <1>b, <2>1, <2>3, <2>4, <2>5 DEF OrderFollows
<1>4. CASE PublishTrade
  <2> DEFINE e == Event("TradeExecuted", Len(trades))
  <2>1. /\ UNCHANGED <<phase, order, trades, trade>> /\ pub' = <<e>>
        /\ mpc = "pubTrade" /\ mpc' = "pubBuy"
    BY <1>4 DEF PublishTrade, PublishStep, Publish, handlerVars
  <2>2. e.type = "TradeExecuted" /\ e.ref = Len(trades) /\ e \in EventRec /\ bus' = Append(bus, e)
    BY <1>d, <2>1 DEF Event
  <2> HIDE DEF e
  <2>3. e \notin Announces(o)
    BY <2>2 DEF Announces
  <2>4. \A f \in EventRec : pub' = <<f>> => f \notin Announces(o)
    BY <2>1, <2>3
  <2>5. /\ Current(o) => Current(o)'
        /\ FreeOf(bus, Announces(o)) => FreeOf(bus', Announces(o))
    BY <1>c, <2>1, <2>4
  <2>6. Announcing(o) => Announcing(o)'
    BY <2>1 DEF Announcing
  <2>7. ASSUME Unheard(o) PROVE Doomed(o)' \/ Unheard(o)'
    <3>1. CASE Row(order[o]) = OpenRow
      <4>1. Unheard(o)'
        BY <1>0, <2>1, <2>5, <2>7, <3>1 DEF Unheard, Row
      <4> QED BY <4>1
    <3>2. CASE o \in {trade.buy, trade.sell}
      <4>1. trades[Len(trades)] = trade
        BY <2>1 DEF LastTrade, Filling
      <4>2. e \in TradeEvents(trades', o)
        BY <2>1, <2>2, <3>2, <4>1 DEF TradeEvents
      <4>3. Appended(bus', bus, e, TradeEvents(trades', o), Announces(o), {})
        BY <1>0, <2>2, AppendedFacts
      <4>4. BlockedBy(bus', TradeEvents(trades', o), Announces(o))
        BY <2>7, <4>2, <4>3 DEF Appended, Unheard
      <4> QED BY <1>0, <2>7, <4>4 DEF Doomed, Unheard
    <3> QED BY <2>7, <3>1, <3>2 DEF Unheard
  <2> QED BY <1>b, <2>1, <2>5, <2>6, <2>7 DEF OrderFollows
<1>5. ASSUME NEW x \in {trade.buy, trade.sell}, mpc' # mpc,
             UNCHANGED <<phase, order, trades, trade>>, pub' = <<Event("OrderUpdated", x)>>,
             \/ mpc = "pubBuy" /\ mpc' = "pubSell" /\ x = trade.buy
             \/ mpc = "pubSell" /\ mpc' = "settle" /\ x = trade.sell
      PROVE  OrderFollows(o)'
  <2> DEFINE e == Event("OrderUpdated", x)
  <2>1. e.type = "OrderUpdated" /\ e.ref = x /\ e \in EventRec
    BY <1>d, <1>5 DEF Event
  <2>2. pub' = <<e>>
    BY <1>5
  <2> HIDE DEF e
  <2>3. mpc \in TradeSteps
    BY <1>5 DEF TradeSteps
  <2>4. trade.buy # trade.sell
    BY <2>3, TradeParties
  <2>5. CASE o = x
    <3>1. e \in AnnouncesRow(o, Row(order'[o]))
      BY <2>1, <2>5 DEF AnnouncesRow, Announces
    <3>2. Current(o)'
      BY <1>e, <2>2, <3>1
    <3>3. order[o].filled > 0
      BY <1>5, <2>5 DEF PartiesFilled
    <3>4. Row(order[o]) # OpenRow
      <4>1. Row(order[o]).filled = order[o].filled /\ OpenRow.filled = 0
        BY DEF Row, OpenRow
      <4>2. order[o].filled # 0
        BY <3>3
      <4> QED BY <4>1, <4>2
    <3>5. ~Unheard(o)
      BY <1>5, <3>4 DEF Unheard, Filling
    <3> QED BY <1>b, <1>5, <3>2, <3>5 DEF OrderFollows
  <2>6. CASE o # x
    <3>1. e \notin Announces(o)
      BY <2>1, <2>6 DEF Announces
    <3>2. \A f \in EventRec : pub' = <<f>> => f \notin Announces(o)
      BY <2>2, <3>1
    <3>3. /\ Current(o) => Current(o)'
          /\ FreeOf(bus, Announces(o)) => FreeOf(bus', Announces(o))
      BY <1>c, <1>5, <3>2
    <3>4. Announcing(o) => Announcing(o)'
      BY <1>5, <2>4, <2>6 DEF Announcing, Filling
    <3>5. Unheard(o) => Row(order[o]) = OpenRow
      BY <1>5 DEF Unheard, Filling
    <3>6. Unheard(o) => Unheard(o)'
      BY <1>0, <1>5, <3>3, <3>5 DEF Unheard, Row
    <3> QED BY <1>b, <1>5, <3>3, <3>4, <3>6 DEF OrderFollows
  <2> QED BY <2>5, <2>6
<1>6. CASE PublishBuy \/ PublishSell
  <2>1. CASE PublishBuy
    BY <1>5, <2>1 DEF PublishBuy, PublishStep, Publish, handlerVars
  <2>2. CASE PublishSell
    BY <1>5, <2>2 DEF PublishSell, PublishStep, Publish, handlerVars
  <2> QED BY <1>6, <2>1, <2>2
<1>7. CASE OtherMove
  <2>1. /\ UNCHANGED <<order, trades>>
        /\ phase'[o] = "done" <=> phase[o] = "done"
        /\ mpc \in Filling \cup {"pubBuy", "pubSell"} => trade' = trade
        /\ mpc \in Filling => mpc' \in Filling
        /\ mpc \in {"pubBuy", "pubSell"} => mpc' = mpc
    BY <1>7, OtherMoveFacts
  <2>2. \A e \in EventRec : pub' = <<e>> => e \notin Announces(o)
    BY <1>7, OtherMoveFacts DEF Announces
  <2>3. /\ Current(o) => Current(o)'
        /\ FreeOf(bus, Announces(o)) => FreeOf(bus', Announces(o))
    BY <1>c, <2>1, <2>2
  <2>4. Announcing(o) => Announcing(o)'
    BY <2>1 DEF Announcing
  <2>5. Unheard(o) => Unheard(o)'
    BY <1>0, <2>1, <2>3 DEF Unheard, Row
  <2> QED BY <1>b, <2>1, <2>3, <2>4, <2>5 DEF OrderFollows
<1> QED BY <1>0, <1>1, <1>2, <1>3, <1>4, <1>6, <1>7, EngineCases

\* Nor does the dispatcher change what will become of an order.
LEMMA DispatchFollows ==
  ASSUME IInv, FillsAreTrades, PipeTypes, Dispatch, losses' = {},
         NEW o \in Orders, OrderFollows(o)
  PROVE  losses = {} /\ OrderFollows(o)'
<1> DEFINE e == Head(bus)
           r == Row(order[o])
           W == Writes(o)
           A == Announces(o)
           T == TradesOf(trades, o)
           E == TradeEvents(trades, o)
           L == WritesRow(o, r)
           M == AnnouncesRow(o, r)
<1>0. /\ EventsOK(bus, DOMAIN trades) /\ OpsOK(queue, DOMAIN trades)
      /\ bus \in Seq(EventRec) /\ queue \in Seq(OpRec)
  BY DEF PipeTypes, EventsOK, OpsOK
<1>1. /\ UNCHANGED <<batch, db>> /\ UNCHANGED <<order, trades, phase, mpc, trade>>
      /\ bus # <<>> /\ bus' = Tail(bus)
  BY DEF Dispatch, vars, handlerVars, matcherVars
<1>2. Prepended(bus, e, bus', E, A, M) /\ e \in EventRec
  BY <1>0, <1>1, HeadTailFacts
<1>3. losses = {}
  BY DEF Dispatch, Enqueue
<1>4. /\ losses' # losses \cup {"stopped"} /\ losses' # losses \cup {"queueFull"}
  OBVIOUS
<1>5. /\ Announcing(o)' = Announcing(o)
  BY <1>1 DEF Announcing
<1>6. CASE e.type \notin {"OrderCreated", "OrderUpdated", "TradeExecuted"} /\ queue' = queue
  <2>1. e \notin A /\ e \notin E /\ e \notin M
    BY <1>6 DEF Announces, TradeEvents, AnnouncesRow
  <2> HIDE DEF e, W, A, T, E, L, M
  <2>2. /\ FreeOf(bus', A) <=> FreeOf(bus, A)
        /\ BlockedBy(bus', E, A) <=> BlockedBy(bus, E, A)
        /\ LastIn(bus', M, A) <=> LastIn(bus, M, A)
    BY <1>2, <2>1 DEF Prepended
  <2>3. Doomed(o) => Doomed(o)'
    BY <1>1, <1>6, <2>2 DEF Doomed, A, E
  <2>4. Unheard(o) => Unheard(o)'
    BY <1>1, <1>6, <2>2 DEF Unheard, A
  <2>5. Current(o) => Current(o)'
    BY <1>1, <1>6, <2>2 DEF Current, A, M
  <2> QED BY <1>1, <1>3, <1>5, <2>3, <2>4, <2>5 DEF OrderFollows
<1>7. ASSUME NEW op \in OpRec, WrittenFor(e, op), queue' = Append(queue, op)
      PROVE  OrderFollows(o)'
  <2>1. Appended(queue', queue, op, T, W, L)
    BY <1>0, <1>7, AppendedFacts
  <2>2. op \in W <=> e \in A
    BY <1>2, <1>7 DEF WrittenFor, Writes, WritesTo, Announces, OrderOp, TradeOp
  <2>3. op \in T <=> e \in E
    BY <1>2, <1>7 DEF WrittenFor, TradesOf, TradeEvents, OrderOp, TradeOp
  <2>4. e \in M => op \in L \/ Announcing(o)
    <3> SUFFICES ASSUME e \in M PROVE op \in L \/ Announcing(o)
      OBVIOUS
    <3>1. e.ref = o /\ (e.type = "OrderUpdated" \/ (e.type = "OrderCreated" /\ r = OpenRow))
      BY DEF AnnouncesRow, Announces
    <3>2. CASE e.type = "OrderCreated" /\ r = OpenRow
      <4>1. op = OrderOp(o, OpenRow)
        BY <1>7, <3>1, <3>2 DEF WrittenFor
      <4> HIDE DEF r
      <4> QED BY <1>7, <3>2, <4>1 DEF WritesRow, WritesTo, OrderOp
    <3>3. CASE e.type = "OrderUpdated"
      <4>1. PICK row \in Copies(o) : op = OrderOp(o, row)
        BY <1>7, <3>1, <3>3 DEF WrittenFor
      <4>2. \/ row = r
            \/ mpc = "fillBuy" /\ o = trade.buy
            \/ mpc = "fillSell" /\ o = trade.sell
        BY CopiesFacts
      <4> HIDE DEF r
      <4>3. row = r => op \in L
        BY <1>7, <4>1 DEF WritesRow, WritesTo, OrderOp
      <4> QED BY <4>2, <4>3 DEF Announcing, Filling
    <3> QED BY <3>1, <3>2, <3>3
  <2> HIDE DEF e, W, A, T, E, L, M
  <2>5. Doomed(o) => Doomed(o)'
    <3>1. /\ BlockedBy(queue, T, W) => BlockedBy(queue', T, W)
          /\ FreeOf(queue, W) /\ BlockedBy(bus, E, A) =>
               BlockedBy(queue', T, W) \/ (FreeOf(queue', W) /\ BlockedBy(bus', E, A))
      BY <1>2, <2>1, <2>2, <2>3 DEF Prepended, Appended
    <3> QED BY <1>1, <3>1 DEF Doomed, A, E, T, W
  <2>6. Unheard(o) => Unheard(o)'
    <3>1. FreeOf(bus, A) /\ FreeOf(queue, W) => FreeOf(bus', A) /\ FreeOf(queue', W)
      BY <1>2, <2>1, <2>2 DEF Prepended, Appended
    <3> QED BY <1>1, <3>1 DEF Unheard, A, W
  <2>7. Current(o) => Current(o)' \/ Announcing(o)
    <3>1. LastIn(bus, M, A) =>
            LastIn(bus', M, A) \/ Announcing(o) \/ (FreeOf(bus', A) /\ LastIn(queue', L, W))
      BY <1>2, <2>1, <2>4 DEF Prepended, Appended
    <3>2. FreeOf(bus, A) => /\ FreeOf(bus', A)
                            /\ LastIn(queue, L, W) => LastIn(queue', L, W)
                            /\ FreeOf(queue, W) => FreeOf(queue', W)
      BY <1>2, <2>1, <2>2 DEF Prepended, Appended
    <3> QED BY <1>1, <3>1, <3>2 DEF Current, A, W, L, M
  <2> QED BY <1>1, <1>5, <2>5, <2>6, <2>7 DEF OrderFollows
<1> QED BY <1>0, <1>3, <1>4, <1>6, <1>7, DispatchFacts

\* Nor the worker when it takes an operation into its batch.
LEMMA ReceiveFollows ==
  ASSUME PipeTypes, WorkerReceive, NEW o \in Orders, OrderFollows(o)
  PROVE  OrderFollows(o)'
<1> DEFINE op == Head(queue)
           r == Row(order[o])
           W == Writes(o)
           T == TradesOf(trades, o)
           L == WritesRow(o, r)
<1>0. queue \in Seq(OpRec) /\ batch \in Seq(OpRec)
  BY DEF PipeTypes, OpsOK
<1>1. /\ UNCHANGED <<bus, db>> /\ UNCHANGED <<order, trades, phase, mpc, trade>>
      /\ queue # <<>> /\ queue' = Tail(queue) /\ batch' = Append(batch, op)
  BY DEF WorkerReceive, vars, busVars, handlerVars, matcherVars
<1>2. Prepended(queue, op, queue', T, W, L) /\ op \in OpRec
  BY <1>0, <1>1, HeadTailFacts
<1>3. Appended(batch', batch, op, T, W, L)
  BY <1>0, <1>1, <1>2, AppendedFacts
<1> HIDE DEF op, W, T, L
<1>4. Doomed(o) => Doomed(o)'
  <2>1. /\ BlockedBy(batch, T, W) => BlockedBy(batch', T, W)
        /\ FreeOf(batch, W) /\ BlockedBy(queue, T, W) =>
             BlockedBy(batch', T, W) \/ (FreeOf(batch', W) /\ BlockedBy(queue', T, W))
        /\ FreeOf(batch, W) /\ FreeOf(queue, W) => FreeOf(batch', W) /\ FreeOf(queue', W)
    BY <1>2, <1>3 DEF Prepended, Appended
  <2> QED BY <1>1, <2>1 DEF Doomed, T, W
<1>5. Unheard(o) => Unheard(o)'
  <2>1. FreeOf(batch, W) /\ FreeOf(queue, W) => FreeOf(batch', W) /\ FreeOf(queue', W)
    BY <1>2, <1>3 DEF Prepended, Appended
  <2> QED BY <1>1, <2>1 DEF Unheard, W
<1>6. Current(o) => Current(o)'
  <2>1. LastIn(queue, L, W) => LastIn(queue', L, W) \/ (FreeOf(queue', W) /\ LastIn(batch', L, W))
    BY <1>2, <1>3 DEF Prepended, Appended
  <2>2. FreeOf(queue, W) => /\ FreeOf(queue', W)
                            /\ LastIn(batch, L, W) => LastIn(batch', L, W)
                            /\ FreeOf(batch, W) => FreeOf(batch', W)
    BY <1>2, <1>3 DEF Prepended, Appended
  <2> QED BY <1>1, <2>1, <2>2 DEF Current, L, W
<1>7. Announcing(o)' = Announcing(o)
  BY <1>1 DEF Announcing
<1> QED BY <1>1, <1>4, <1>5, <1>6, <1>7 DEF OrderFollows

\* A commit leaves an order the row its last write in the batch says, and the
\* foreign keys refuse a batch in which a trade comes before its orders.
LEMMA CommitRows ==
  ASSUME TypeOK, PipeTypes, Committed, NEW o \in Orders
  PROVE  /\ FreeOf(batch, Writes(o)) => db'.orders[o] = db.orders[o]
         /\ \A r : LastIn(batch, WritesRow(o, r), Writes(o)) => db'.orders[o] = r
         /\ db.orders[o].status = "NONE" => ~BlockedBy(batch, TradesOf(trades, o), Writes(o))
<1> DEFINE N == Len(batch)
<1>0. /\ db'.orders = Applied.orders /\ Applied.ok /\ Outcome(Applied, N)
      /\ N \in Nat /\ \A i \in 1..N : batch[i] \in OpRec
  BY CommitFacts DEF Committed, PipeTypes, OpsOK
<1>1. \A i \in 1..N : batch[i] \in Writes(o) <=> WritesTo(batch[i], o)
  BY <1>0 DEF Writes
<1>2. \/ /\ db'.orders[o] = db.orders[o]
         /\ \A i \in 1..N : ~WritesTo(batch[i], o)
      \/ \E j \in 1..N : /\ WritesTo(batch[j], o)
                         /\ db'.orders[o] = batch[j].row
                         /\ \A i \in j + 1..N : ~WritesTo(batch[i], o)
  BY <1>0 DEF Outcome
<1>3. FreeOf(batch, Writes(o)) => db'.orders[o] = db.orders[o]
  BY <1>1, <1>2 DEF FreeOf
<1>4. ASSUME NEW r, LastIn(batch, WritesRow(o, r), Writes(o)) PROVE db'.orders[o] = r
  <2>1. PICK i \in 1..N : /\ batch[i] \in WritesRow(o, r)
                          /\ \A k \in i + 1..N : batch[k] \notin Writes(o)
    BY <1>4 DEF LastIn
  <2>2. WritesTo(batch[i], o) /\ batch[i].row = r
    BY <2>1 DEF WritesRow
  <2>3. PICK j \in 1..N : /\ WritesTo(batch[j], o)
                          /\ db'.orders[o] = batch[j].row
                          /\ \A k \in j + 1..N : ~WritesTo(batch[k], o)
    BY <1>2, <2>2
  <2>4. ~(i < j) /\ ~(j < i)
    <3>1. i < j => j \in i + 1..N
      BY <1>0
    <3>2. j < i => i \in j + 1..N
      BY <1>0
    <3> QED BY <1>1, <2>1, <2>2, <2>3, <3>1, <3>2
  <2>5. i = j
    BY <1>0, <2>4
  <2> QED BY <2>2, <2>3, <2>5
<1>5. ASSUME db.orders[o].status = "NONE", BlockedBy(batch, TradesOf(trades, o), Writes(o))
      PROVE  FALSE
  <2>1. PICK i \in 1..N : /\ batch[i] \in TradesOf(trades, o)
                          /\ \A j \in 1..i - 1 : batch[j] \notin Writes(o)
    BY <1>5 DEF BlockedBy
  <2>2. batch[i].kind = "trade" /\ o \in {trades[batch[i].id].buy, trades[batch[i].id].sell}
    BY <2>1 DEF TradesOf
  <2>3. PICK j \in 1..i - 1 : WritesTo(batch[j], o)
    BY SMTT(30), <1>0, <1>5, <2>2 DEF Outcome
  <2>4. j \in 1..N
    BY <1>0
  <2> QED BY <1>1, <2>1, <2>3, <2>4
<1> QED BY <1>3, <1>4, <1>5

\* Nor a flush that loses nothing.
LEMMA FlushFollows ==
  ASSUME IInv, PipeTypes, FlushOK \/ FlushFail, losses' = {}, NEW o \in Orders, OrderFollows(o)
  PROVE  losses = {} /\ OrderFollows(o)'
<1>0. TypeOK /\ attempt \in 0..RetryMax
  BY DEF IInv, PipeTypes
<1>1. /\ UNCHANGED <<bus, queue>> /\ UNCHANGED <<order, trades, phase, mpc, trade>>
      /\ db' = db \/ Committed
      /\ batch' = batch \/ (batch' = <<>> /\ Committed)
      /\ losses = {}
  <2>1. losses' # losses \cup {"gaveUp"}
    OBVIOUS
  <2> QED BY <1>0, <2>1, FlushFacts DEF vars, busVars, handlerVars, matcherVars
<1> DEFINE W == Writes(o)
           T == TradesOf(trades, o)
           L == WritesRow(o, Row(order[o]))
<1>2. Committed => /\ FreeOf(batch, W) => db'.orders[o] = db.orders[o]
                   /\ LastIn(batch, L, W) => db'.orders[o] = Row(order[o])
                   /\ db.orders[o].status = "NONE" => ~BlockedBy(batch, T, W)
  BY <1>0, CommitRows
<1>3. FreeOf(<<>>, W)
  BY EmptyFacts
<1> HIDE DEF W, T, L
<1>4. FreeOf(batch, W) => FreeOf(batch', W) /\ db'.orders[o] = db.orders[o]
  BY <1>1, <1>2, <1>3
<1>5. Doomed(o) => Doomed(o)'
  <2>1. db.orders[o].status = "NONE" /\ BlockedBy(batch, T, W) => batch' = batch /\ db' = db
    BY <1>1, <1>2
  <2> QED BY <1>1, <1>4, <2>1 DEF Doomed, T, W
<1>6. Unheard(o) => Unheard(o)'
  BY <1>1, <1>4 DEF Unheard, W
<1>7. Current(o) => Current(o)'
  <2>1. LastIn(batch, L, W) =>
          LastIn(batch', L, W) \/ (FreeOf(batch', W) /\ db'.orders[o] = Row(order[o]))
    BY <1>1, <1>2, <1>3
  <2> QED BY <1>1, <1>4, <2>1 DEF Current, L, W
<1>8. Announcing(o)' = Announcing(o)
  BY <1>1 DEF Announcing
<1> QED BY <1>1, <1>5, <1>6, <1>7, <1>8 DEF OrderFollows

\* A stored trade stays on its way until it is in the database.
LEMMA TradeFollowsStep ==
  ASSUME PInv, [PNext]_pvars, losses' = {}, losses = {}, NEW n \in DOMAIN trades',
         n \in DOMAIN trades => TradeFollows(n)
  PROVE  TradeFollows(n)'
<1>0. /\ IInv /\ FillsAreTrades /\ LastTrade /\ PipeTypes /\ TypeOK /\ trades \in Seq(TradeRec)
      /\ EventsOK(bus, DOMAIN trades) /\ OpsOK(queue, DOMAIN trades) /\ attempt \in 0..RetryMax
      /\ bus \in Seq(EventRec) /\ queue \in Seq(OpRec) /\ batch \in Seq(OpRec)
  BY DEF PInv, IInv, TypeOK, PipeTypes, EventsOK, OpsOK
<1>a. /\ losses' # losses \cup {"stopped"} /\ losses' # losses \cup {"queueFull"}
      /\ losses' # losses \cup {"gaveUp"}
  OBVIOUS
<1>1. CASE EngineStep
  <2>1. EngineMove /\ BusPublish(pub') /\ UNCHANGED <<queue, batch, db>>
    BY <1>1 DEF EngineStep, Piped, workerVars
  <2>2. \/ pub' = <<>> /\ bus' = bus
        \/ \E e \in EventRec : pub' = <<e>> /\ bus' = Append(bus, e)
    BY <1>0, <2>1, LosslessPublish
  <2>3. ~FreeOf(bus, Executions(n)) => ~FreeOf(bus', Executions(n))
    <3>1. ASSUME NEW e \in EventRec, bus' = Append(bus, e)
          PROVE  ~FreeOf(bus, Executions(n)) => ~FreeOf(bus', Executions(n))
      <4>1. Appended(bus', bus, e, {}, Executions(n), {})
        BY <1>0, <3>1, AppendedFacts
      <4> QED BY <4>1 DEF Appended
    <3> QED BY <2>2, <3>1
  <2>4. CASE SaveTrade
    <3>1. /\ mpc = "match"
          /\ \/ trades' = trades
             \/ trades' = Append(trades, NextTrade) /\ mpc' = "fillBuy"
      BY <2>4, MemoryStorage DEF SaveTrade
    <3>2. CASE n \in DOMAIN trades
      BY <2>1, <2>3, <3>1, <3>2 DEF TradeFollows, Filling
    <3>3. CASE n \notin DOMAIN trades
      <4>1. trades' = Append(trades, NextTrade) /\ mpc' = "fillBuy"
        BY <3>1, <3>3
      <4>2. NextTrade \in TradeRec
        BY <1>0, <2>4, <4>1, NewTrade
      <4>3. n = Len(trades')
        BY <1>0, <3>3, <4>1, <4>2
      <4> QED BY <4>1, <4>3 DEF TradeFollows, Filling
    <3> QED BY <3>2, <3>3
  <2>5. CASE PublishTrade
    <3> DEFINE e == Event("TradeExecuted", Len(trades))
    <3>1. trades' = trades /\ pub' = <<e>>
      BY <2>5 DEF PublishTrade, PublishStep, Publish
    <3>2. e \in EventRec /\ bus' = Append(bus, e)
      <4>1. pub' # <<>>
        BY <3>1
      <4>2. PICK f \in EventRec : pub' = <<f>> /\ bus' = Append(bus, f)
        BY <2>2, <4>1
      <4>3. f = e
        BY <3>1, <4>2
      <4> QED BY <4>2, <4>3
    <3>3. CASE n = Len(trades)
      <4>1. e \in Executions(n)
        BY <3>2, <3>3 DEF Executions, Event
      <4> HIDE DEF e
      <4>2. Appended(bus', bus, e, {}, Executions(n), {})
        BY <1>0, <3>2, AppendedFacts
      <4>3. ~FreeOf(bus', Executions(n))
        BY <4>1, <4>2 DEF Appended
      <4> QED BY <4>3 DEF TradeFollows
    <3>4. CASE n # Len(trades)
      BY <2>1, <2>3, <3>1, <3>4 DEF TradeFollows
    <3> QED BY <3>3, <3>4
  <2>6. CASE ~SaveTrade /\ ~PublishTrade
    <3>1. trades' = trades
      BY <1>0, <2>1, <2>6, TradesGrow
    <3>2. mpc \in Filling => mpc' \in Filling
      BY <2>1, <2>6 DEF EngineMove, CreateOrder, SaveOrder, SubmitOrder, PublishCreated,
         MatcherStep, Receive, FillBuy, FillSell, UpdateBuy, UpdateSell, UpdateTicker,
         PublishBuy, PublishSell, PublishStep, Settle, RestOrder, InitStock, matcherVars, Filling
    <3> QED BY <2>1, <2>3, <3>1, <3>2 DEF TradeFollows
  <2> QED BY <2>4, <2>5, <2>6
<1>2. CASE Dispatch
  <2>1. /\ UNCHANGED <<batch, db>> /\ UNCHANGED <<trades, mpc>>
        /\ bus # <<>> /\ bus' = Tail(bus)
    BY <1>2 DEF Dispatch, vars, matcherVars
  <2>2. Prepended(bus, Head(bus), bus', {}, Executions(n), {}) /\ Head(bus) \in EventRec
    BY SMTT(30), <1>0, <2>1, HeadTailFacts
  <2>3. CASE /\ Head(bus).type \notin {"OrderCreated", "OrderUpdated", "TradeExecuted"}
             /\ queue' = queue
    <3>1. Head(bus) \notin Executions(n)
      BY <2>3 DEF Executions
    <3>2. ~FreeOf(bus, Executions(n)) => ~FreeOf(bus', Executions(n))
      BY <2>2, <3>1 DEF Prepended
    <3> QED BY <2>1, <2>3, <3>2 DEF TradeFollows
  <2>4. ASSUME NEW op \in OpRec, WrittenFor(Head(bus), op), queue' = Append(queue, op)
        PROVE  TradeFollows(n)'
    <3>1. Holds(queue', n) <=> Holds(queue, n) \/ StoresTrade(op, n)
      BY <1>0, <2>4, HoldsAppend
    <3>2. Head(bus) \in Executions(n) => StoresTrade(op, n)
      BY <2>4 DEF Executions, WrittenFor, TradeOp, StoresTrade
    <3>3. ~FreeOf(bus, Executions(n)) => ~FreeOf(bus', Executions(n)) \/ Holds(queue', n)
      BY <2>2, <3>1, <3>2 DEF Prepended
    <3> QED BY <2>1, <3>1, <3>3 DEF TradeFollows
  <2> QED BY <1>0, <1>a, <1>2, <2>3, <2>4, DispatchFacts
<1>3. CASE WorkerReceive
  <2>1. /\ UNCHANGED <<bus, db>> /\ UNCHANGED <<trades, mpc>> /\ queue # <<>>
        /\ queue' = Tail(queue) /\ batch' = Append(batch, Head(queue))
    BY <1>3 DEF WorkerReceive, vars, busVars, matcherVars
  <2>2. Head(queue) \in OpRec
    BY <1>0, <2>1
  <2>3. /\ Holds(queue, n) <=> StoresTrade(Head(queue), n) \/ Holds(queue', n)
        /\ Holds(batch', n) <=> Holds(batch, n) \/ StoresTrade(Head(queue), n)
    BY <1>0, <2>1, <2>2, HoldsTail, HoldsAppend
  <2> QED BY <2>1, <2>3 DEF TradeFollows
<1>4. CASE FlushOK \/ FlushFail
  <2>1. /\ UNCHANGED <<bus, queue>> /\ UNCHANGED <<trades, mpc>>
        /\ db' = db \/ Committed
        /\ batch' = batch \/ Committed
    BY <1>0, <1>4, <1>a, FlushFacts DEF vars, busVars, matcherVars
  <2>2. Committed => (n \in db'.trades <=> n \in db.trades \/ Holds(batch, n))
    BY <1>0, CommitStores
  <2> QED BY <2>1, <2>2 DEF TradeFollows
<1>5. CASE \/ WorkerTick \/ WorkerClosed \/ WorkerCtxDone \/ FeedTake \/ FeedEnd
           \/ Signal \/ StopEngine \/ StopFeed \/ StopBus \/ StopWorker \/ Exit
           \/ UNCHANGED pvars
  <2>1. UNCHANGED <<trades, mpc, bus, queue, batch, db>>
    BY <1>5 DEF WorkerTick, WorkerClosed, WorkerCtxDone, FeedTake, FeedEnd, Signal, StopEngine, Stop, StopFeed, StopBus,
       StopWorker, Exit, pvars, vars, busVars, workerVars, matcherVars
  <2> QED BY <2>1 DEF TradeFollows
<1>6. CASE FeedPublish
  <2>1. PriceSent /\ UNCHANGED <<trades, mpc, queue, batch, db>>
    BY <1>0, <1>6, FeedPublishFacts DEF vars, matcherVars, workerVars
  <2>2. bus' = bus \/ bus' = Append(bus, Tick)
    BY <2>1 DEF PriceSent
  <2>3. ~FreeOf(bus, Executions(n)) => ~FreeOf(bus', Executions(n))
    <3>1. ASSUME bus' = Append(bus, Tick)
          PROVE  ~FreeOf(bus, Executions(n)) => ~FreeOf(bus', Executions(n))
      <4>1. Appended(bus', bus, Tick, {}, Executions(n), {})
        BY <1>0, <3>1, TickFacts, AppendedFacts
      <4> QED BY <4>1 DEF Appended
    <3> QED BY <2>2, <3>1
  <2> QED BY <2>1, <2>3 DEF TradeFollows
<1> QED BY <1>1, <1>2, <1>3, <1>4, <1>5, <1>6, StepCases

\* A price that is published says nothing of an order.
LEMMA PriceFollows ==
  ASSUME PipeTypes, FeedPublish, losses' = {}, NEW o \in Orders, OrderFollows(o)
  PROVE  OrderFollows(o)'
<1>0. bus \in Seq(EventRec)
  BY DEF PipeTypes, EventsOK
<1>1. PriceSent /\ UNCHANGED <<trades, order, phase, mpc, trade, queue, batch, db>>
  BY <1>0, FeedPublishFacts DEF vars, handlerVars, matcherVars, workerVars
<1>2. Tick \in EventRec /\ Tick \notin Announces(o)
  BY TickFacts DEF Announces
<1>3. bus' = bus \/ bus' = Append(bus, Tick)
  BY <1>1 DEF PriceSent
<1>4. Doomed(o) => Doomed(o)'
  BY <1>1, <1>2, <1>3, EngineKeepsDoomed
<1>5. /\ Current(o) => Current(o)'
      /\ FreeOf(bus, Announces(o)) => FreeOf(bus', Announces(o))
  BY <1>1, <1>2, <1>3, EngineKeepsCurrent
<1>6. Unheard(o) => Unheard(o)'
  BY <1>1, <1>5 DEF Unheard
<1>7. Announcing(o) => Announcing(o)'
  BY <1>1 DEF Announcing
<1> QED BY <1>1, <1>4, <1>5, <1>6, <1>7 DEF OrderFollows

LEMMA LosslessStep ==
  ASSUME PInv, PartiesFilled, Lossless, [PNext]_pvars
  PROVE  Lossless'
<1> SUFFICES ASSUME losses' = {}
             PROVE  /\ \A o \in Orders : OrderFollows(o)'
                    /\ \A n \in DOMAIN trades' : TradeFollows(n)'
  BY DEF Lossless
<1>0. IInv /\ FillsAreTrades /\ LastTrade /\ PipeTypes /\ bus \in Seq(EventRec) /\ attempt \in 0..RetryMax
  BY DEF PInv, PipeTypes, EventsOK
<1>1. losses = {}
  <2>1. losses \subseteq losses'
    <3>1. CASE EngineStep
      BY <3>1 DEF EngineStep, Piped, BusPublish
    <3>2. CASE Dispatch
      BY <3>2 DEF Dispatch, Enqueue
    <3>3. CASE FeedPublish
      BY <1>0, <3>3, FeedPublishFacts DEF PriceSent
    <3>4. CASE ~EngineStep /\ ~Dispatch /\ ~FeedPublish
      BY <3>4, StepCases DEF WorkerReceive, WorkerTick, WorkerClosed, FlushOK, FlushFail,
         WorkerCtxDone, FeedTake, FeedEnd, Signal, StopEngine, StopFeed, StopBus, StopWorker, Exit, pvars
    <3> QED BY <3>1, <3>2, <3>3, <3>4
  <2> QED BY <2>1
<1>2. /\ \A o \in Orders : OrderFollows(o)
      /\ \A n \in DOMAIN trades : TradeFollows(n)
  BY <1>1 DEF Lossless
<1>3. \A n \in DOMAIN trades' : TradeFollows(n)'
  BY <1>1, <1>2, TradeFollowsStep
<1>4. ASSUME NEW o \in Orders PROVE OrderFollows(o)'
  <2>0. OrderFollows(o)
    BY <1>2
  <2>1. CASE EngineStep
    BY <1>0, <2>0, <2>1, EngineFollows
  <2>2. CASE Dispatch
    BY <1>0, <2>0, <2>2, DispatchFollows
  <2>3. CASE WorkerReceive
    BY <1>0, <2>0, <2>3, ReceiveFollows
  <2>4. CASE FlushOK \/ FlushFail
    BY <1>0, <2>0, <2>4, FlushFollows
  <2>5. CASE \/ WorkerTick \/ WorkerClosed \/ WorkerCtxDone \/ FeedTake \/ FeedEnd
             \/ Signal \/ StopEngine \/ StopFeed \/ StopBus \/ StopWorker \/ Exit
             \/ UNCHANGED pvars
    <3>1. UNCHANGED <<trades, mpc, order, phase, trade, bus, queue, batch, db>>
      BY <2>5 DEF WorkerTick, WorkerClosed, WorkerCtxDone, FeedTake, FeedEnd, Signal, StopEngine, Stop, StopFeed, StopBus,
         StopWorker, Exit, pvars, vars, busVars, workerVars, matcherVars, handlerVars
    <3>2. /\ Doomed(o)' = Doomed(o) /\ Unheard(o)' = Unheard(o)
          /\ Current(o)' = Current(o) /\ Announcing(o)' = Announcing(o)
      BY <3>1 DEF Doomed, Unheard, Current, Announcing
    <3> QED BY <2>0, <3>1, <3>2 DEF OrderFollows
  <2>6. CASE FeedPublish
    BY <1>0, <2>0, <2>6, PriceFollows
  <2> QED BY <2>1, <2>2, <2>3, <2>4, <2>5, <2>6, StepCases
<1> QED BY <1>3, <1>4

\* When everything is quiet and nothing was lost, the database is the engine's
\* state, for any interleaving of handlers, matcher, dispatcher and worker and
\* any number of retries after attempts that failed before or after their
\* commit: every trade is stored, and every announced order's row is current.
THEOREM QuietStored == PSpec => []QuietMeansStored
<1>1. PInit => PartiesFilled /\ Lossless
  <2> SUFFICES ASSUME PInit PROVE PartiesFilled /\ Lossless
    OBVIOUS
  <2>1. /\ trades = <<>> /\ mpc = "idle" /\ order \in [Orders -> NewOrders]
        /\ phase = [o \in Orders |-> "new"]
        /\ bus = <<>> /\ queue = <<>> /\ batch = <<>>
        /\ db = [orders |-> [o \in Orders |-> NoRow], trades |-> {}]
    BY DEF PInit, Init
  <2>2. PartiesFilled
    BY <2>1 DEF PartiesFilled
  <2>3. ASSUME NEW o \in Orders PROVE OrderFollows(o)
    <3>1. phase[o] = "new" /\ db.orders[o].status = "NONE"
      BY <2>1 DEF NoRow
    <3>2. order[o].filled = 0 /\ order[o].status = "OPEN"
      BY <2>1 DEF NewOrders
    <3>3. Row(order[o]) = OpenRow
      BY <3>2 DEF Row, OpenRow
    <3>4. /\ FreeOf(bus, Announces(o)) /\ FreeOf(queue, Writes(o)) /\ FreeOf(batch, Writes(o))
      BY <2>1, EmptyFacts
    <3>5. Unheard(o)
      BY <3>1, <3>3, <3>4 DEF Unheard
    <3> QED BY <3>1, <3>5 DEF OrderFollows
  <2>4. DOMAIN trades = {}
    BY <2>1
  <2> QED BY <2>2, <2>3, <2>4 DEF Lossless
<1>2. PInv /\ PartiesFilled /\ Lossless /\ [PNext]_pvars => (PartiesFilled /\ Lossless)'
  <2> SUFFICES ASSUME PInv, PartiesFilled, Lossless, [PNext]_pvars
               PROVE  PartiesFilled' /\ Lossless'
    OBVIOUS
  <2>1. PartiesFilled'
    BY EngineInside, PartiesFilledStep DEF PInv
  <2> QED BY <2>1, LosslessStep
<1>3. PInv /\ Lossless => QuietMeansStored
  <2> SUFFICES ASSUME PInv, Lossless, Quiet, losses = {}
               PROVE  /\ db.trades = DOMAIN trades
                      /\ \A o \in Orders : phase[o] = "done" => db.orders[o] = Row(order[o])
    BY DEF QuietMeansStored
  <2>1. mpc \in {"idle", "stopped"} /\ bus = <<>> /\ queue = <<>> /\ batch = <<>>
    BY DEF Quiet
  <2>2. ASSUME NEW n \in DOMAIN trades PROVE n \in db.trades
    <3>1. TradeFollows(n)
      BY DEF Lossless
    <3>2. FreeOf(bus, Executions(n))
      BY <2>1, EmptyFacts
    <3>3. ~Holds(queue, n) /\ ~Holds(batch, n)
      BY <2>1 DEF Holds
    <3>4. mpc \notin Filling
      BY <2>1 DEF Filling
    <3> QED BY <3>1, <3>2, <3>3, <3>4 DEF TradeFollows
  <2>3. db.trades \subseteq DOMAIN trades
    BY DEF PInv, PipeTypes
  <2>4. ASSUME NEW o \in Orders, phase[o] = "done" PROVE db.orders[o] = Row(order[o])
    <3>1. OrderFollows(o)
      BY DEF Lossless
    <3>2. ~Announcing(o)
      BY <2>1 DEF Announcing, Filling
    <3>3. ~Doomed(o)
      BY <2>1, EmptyFacts DEF Doomed
    <3>4. /\ ~LastIn(bus, AnnouncesRow(o, Row(order[o])), Announces(o))
          /\ ~LastIn(queue, WritesRow(o, Row(order[o])), Writes(o))
          /\ ~LastIn(batch, WritesRow(o, Row(order[o])), Writes(o))
      BY <2>1, EmptyFacts
    <3> QED BY <2>4, <3>1, <3>2, <3>3, <3>4 DEF OrderFollows, Current
  <2> QED BY <2>2, <2>3, <2>4
<1> QED BY <1>1, <1>2, <1>3, PipelineInvariant, PTL DEF PSpec

=============================================================================
