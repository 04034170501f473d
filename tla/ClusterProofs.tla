--------------------------- MODULE ClusterProofs ---------------------------
(***************************************************************************)
(* Orders in a cluster, for every number of instances, stocks, orders and  *)
(* faults: an order is in one place at a time on its way from the instance *)
(* that accepted it to the matcher, so it is matched at most once and not  *)
(* matched and lost; a loss has a cause; and with agreed partitioning a    *)
(* stock has one book, fed in the order of each instance's requests.  The  *)
(* snapshots an instance publishes reach the clients of the others in      *)
(* order.                                                                  *)
(***************************************************************************)
EXTENDS Cluster, TLAPS, FiniteSetTheorems

\* What travels between instances, and the per-stock queues of the instances.
Message == [kind : {"order", "event"}, id : Nat]
Queues  == [Instances -> [Stocks -> Seq(Nat)]]

\* The orders in a family of queues, in the outboxes, matched and lost.
Ids(Q) ==
  {o \in Nat : \E n \in Instances, s \in Stocks : \E i \in 1..Len(Q[n][s]) : Q[n][s][i] = o}
OutIds(B) ==
  {o \in Nat : \E n \in Instances : \E i \in 1..Len(B[n]) : B[n][i] = OrderMessage(o)}
MatchedIds(M) == {o \in Nat : \E i \in 1..Len(M) : M[i].order = o}
DroppedIds(D) == {o \in Nat : \E d \in D : d.order = o}

\* No order is twice in a family of queues, in the outboxes, or matched.
Once(Q) ==
  \A n, m \in Instances : \A s, t \in Stocks : \A i \in 1..Len(Q[n][s]), j \in 1..Len(Q[m][t]) :
    Q[n][s][i] = Q[m][t][j] => n = m /\ s = t /\ i = j
OutOnce(B) ==
  \A n, m \in Instances : \A i \in 1..Len(B[n]), j \in 1..Len(B[m]) :
    B[n][i].kind = "order" /\ B[n][i] = B[m][j] => n = m /\ i = j
MatchedOnce(M) == \A i, j \in 1..Len(M) : M[i].order = M[j].order => i = j

ClusterTypes ==
  /\ placed \in Seq([stock : Stocks, origin : Instances])
  /\ outbox \in [Instances -> Seq(Message)]
  /\ orderMail \in Queues
  /\ engineCh \in Queues
  /\ matched \in Seq([order : Nat, by : Instances])
  /\ eventBus \in [Instances -> Seq(Nat)]
  /\ phase \in [Instances -> {"up", "draining", "closed", "down", "panicked"}]
  /\ \A d \in dropped : d.order \in Nat

\* The orders in five places are among the first N, and no two places share one.
Apart(O, E, C, M, D, N) ==
  /\ \A o \in O \cup E \cup C \cup M \cup D : o \in 1..N
  /\ \A o \in O : o \notin E /\ o \notin C /\ o \notin M /\ o \notin D
  /\ \A o \in E : o \notin C /\ o \notin M /\ o \notin D
  /\ \A o \in C : o \notin M /\ o \notin D
  /\ \A o \in M : o \notin D

\* An order that was placed is on its way in one place, matched, or lost.
OnePlace ==
  /\ Once(orderMail) /\ Once(engineCh) /\ OutOnce(outbox) /\ MatchedOnce(matched)
  /\ Apart(OutIds(outbox), Ids(orderMail), Ids(engineCh), MatchedIds(matched),
           DroppedIds(dropped), Len(placed))

\* As long as nothing has failed every instance is up and connected.
Healthy ==
  /\ faults \in Nat
  /\ ValidConfig(config)
  /\ faults = 0 =>
       \A n \in Instances :
         /\ phase[n] = "up"
         /\ config.fanout = "nats" => pubUp[n] /\ subUp[n] /\ linked[n]

\* Orders wait where they belong: in the outbox of their origin, which is not
\* their owner, and with an instance that has their stock's matcher.
OutRouted(P, B) ==
  \A n \in Instances : \A i \in 1..Len(B[n]) :
    B[n][i].kind = "order" =>
      /\ P[B[n][i].id].origin = n
      /\ config.partition /\ ~OwnsStock(n, P[B[n][i].id].stock)
MailRouted(P, Q) ==
  \A n \in Instances, s \in Stocks : \A i \in 1..Len(Q[n][s]) :
    /\ P[Q[n][s][i]].stock = s
    /\ config.partition /\ OwnsStock(n, s)
    /\ ~OwnsStock(P[Q[n][s][i]].origin, s)
EngineRouted(P, Q) ==
  \A n \in Instances, s \in Stocks : \A i \in 1..Len(Q[n][s]) :
    P[Q[n][s][i]].stock = s /\ s \in EngineStocks(n)
MatchedRouted(P, M) ==
  \A i \in 1..Len(M) : P[M[i].order].stock \in EngineStocks(M[i].by)
Routed ==
  /\ OutRouted(placed, outbox) /\ MailRouted(placed, orderMail)
  /\ EngineRouted(placed, engineCh) /\ MatchedRouted(placed, matched)

\* Two orders for the same stock that the same instance accepted.
SameFlow(P, o, p) == P[o].stock = P[p].stock /\ P[o].origin = P[p].origin

\* The queues have the orders of a flow, and the outboxes all orders, in the
\* order they were placed; so were they matched.
Sorted(P, Q) ==
  \A n \in Instances, s \in Stocks : \A i, j \in 1..Len(Q[n][s]) :
    i < j /\ SameFlow(P, Q[n][s][i], Q[n][s][j]) => Q[n][s][i] < Q[n][s][j]
OutSorted(B) ==
  \A n \in Instances : \A i, j \in 1..Len(B[n]) :
    i < j /\ B[n][i].kind = "order" /\ B[n][j].kind = "order" => B[n][i].id < B[n][j].id
MatchedSorted(P, M) ==
  \A i, j \in 1..Len(M) :
    i < j /\ SameFlow(P, M[i].order, M[j].order) => M[i].order < M[j].order

\* The orders of a flow in S were placed before those in T.
Earlier(P, S, T) == \A p \in S, o \in T : SameFlow(P, p, o) => p < o

\* A flow keeps its order from stage to stage.
Flows(P, B, E, C, M) ==
  /\ OutSorted(B) /\ Sorted(P, E) /\ Sorted(P, C) /\ MatchedSorted(P, M)
  /\ Earlier(P, MatchedIds(M), Ids(C))
  /\ Earlier(P, MatchedIds(M), Ids(E)) /\ Earlier(P, Ids(C), Ids(E))
  /\ Earlier(P, MatchedIds(M), OutIds(B)) /\ Earlier(P, Ids(C), OutIds(B))
  /\ Earlier(P, Ids(E), OutIds(B))

InFlowOrder ==
  config.partition /\ Agreed => Flows(placed, outbox, orderMail, engineCh, matched)

-----------------------------------------------------------------------------
(***************************************************************************)
(* Queues and outboxes.                                                    *)
(***************************************************************************)

\* The queues R are Q with o at the end of n's queue for s.
Pushed(Q, R, n, s, o) ==
  /\ R \in Queues
  /\ \A m \in Instances, t \in Stocks : \A i \in 1..Len(R[m][t]) :
       \/ i \in 1..Len(Q[m][t]) /\ R[m][t][i] = Q[m][t][i]
       \/ m = n /\ t = s /\ i = Len(Q[n][s]) + 1 /\ R[m][t][i] = o
  /\ Ids(R) = Ids(Q) \cup {o}
  /\ Once(Q) /\ o \notin Ids(Q) => Once(R)

\* EngineSubmit and RouteOrder append an order to one queue.
LEMMA PushQueue ==
  ASSUME NEW Q \in Queues, NEW n \in Instances, NEW s \in Stocks, NEW o \in Nat,
         NEW R, R = [Q EXCEPT ![n][s] = Append(@, o)]
  PROVE  Pushed(Q, R, n, s, o)
<1>1. /\ R \in Queues
      /\ \A m \in Instances, t \in Stocks :
           R[m][t] = IF m = n /\ t = s THEN Append(Q[n][s], o) ELSE Q[m][t]
  BY DEF Queues
<1>2. /\ Len(R[n][s]) = Len(Q[n][s]) + 1 /\ R[n][s][Len(Q[n][s]) + 1] = o
      /\ \A i \in 1..Len(Q[n][s]) : R[n][s][i] = Q[n][s][i]
      /\ Len(Q[n][s]) \in Nat
  BY <1>1 DEF Queues
<1>3. \A m \in Instances, t \in Stocks : Len(Q[m][t]) \in Nat
  BY DEF Queues
<1>4. ASSUME NEW m \in Instances, NEW t \in Stocks, NEW i \in 1..Len(R[m][t])
      PROVE  \/ i \in 1..Len(Q[m][t]) /\ R[m][t][i] = Q[m][t][i]
             \/ m = n /\ t = s /\ i = Len(Q[n][s]) + 1 /\ R[m][t][i] = o
  BY <1>1, <1>2, <1>3
<1>5. ASSUME NEW m \in Instances, NEW t \in Stocks, NEW i \in 1..Len(Q[m][t])
      PROVE  i \in 1..Len(R[m][t]) /\ R[m][t][i] = Q[m][t][i]
  BY <1>1, <1>2, <1>3
<1>6. Ids(R) \subseteq Ids(Q) \cup {o}
  BY <1>4 DEF Ids
<1>7. Ids(Q) \subseteq Ids(R)
  BY <1>5 DEF Ids
<1>8. o \in Ids(R)
  <2>1. Len(Q[n][s]) + 1 \in 1..Len(R[n][s])
    BY <1>2
  <2> QED BY <2>1, <1>2 DEF Ids
<1>9. ASSUME Once(Q), o \notin Ids(Q)
      PROVE  Once(R)
  <2> SUFFICES ASSUME NEW a \in Instances, NEW b \in Instances, NEW t \in Stocks, NEW u \in Stocks,
                      NEW i \in 1..Len(R[a][t]), NEW j \in 1..Len(R[b][u]),
                      R[a][t][i] = R[b][u][j]
               PROVE  a = b /\ t = u /\ i = j
    BY DEF Once
  <2>1. \A m \in Instances, v \in Stocks : \A k \in 1..Len(Q[m][v]) : Q[m][v][k] # o
    BY <1>9 DEF Ids
  <2>2. \/ i \in 1..Len(Q[a][t]) /\ R[a][t][i] = Q[a][t][i]
        \/ a = n /\ t = s /\ i = Len(Q[n][s]) + 1 /\ R[a][t][i] = o
    BY <1>4
  <2>3. \/ j \in 1..Len(Q[b][u]) /\ R[b][u][j] = Q[b][u][j]
        \/ b = n /\ u = s /\ j = Len(Q[n][s]) + 1 /\ R[b][u][j] = o
    BY <1>4
  <2> QED BY SMTT(30), <2>1, <2>2, <2>3, <1>9 DEF Once
<1> QED BY <1>1, <1>4, <1>6, <1>7, <1>8, <1>9 DEF Pushed

\* What Tail leaves of a queue.
LEMMA TailFacts ==
  ASSUME NEW S, NEW q \in Seq(S), q # <<>>
  PROVE  /\ Head(q) = q[1] /\ Len(q) \in Nat /\ 1 \in 1..Len(q) /\ q[1] \in S
         /\ Tail(q) \in Seq(S) /\ Len(Tail(q)) = Len(q) - 1
         /\ \A i \in 1..Len(Tail(q)) : i + 1 \in 1..Len(q) /\ Tail(q)[i] = q[i + 1]
OBVIOUS

\* The queues R are what is left of Q without the first order of n's queue for s.
Popped(Q, R, n, s) ==
  /\ R \in Queues
  /\ Head(Q[n][s]) \in Ids(Q) /\ Head(Q[n][s]) = Q[n][s][1] /\ 1 \in 1..Len(Q[n][s])
  /\ \A m \in Instances, t \in Stocks :
       \A i \in 1..Len(R[m][t]) : LET k == IF m = n /\ t = s THEN i + 1 ELSE i IN
         k \in 1..Len(Q[m][t]) /\ R[m][t][i] = Q[m][t][k]
  /\ Ids(R) \subseteq Ids(Q)
  /\ Once(Q) => Once(R) /\ Ids(R) = Ids(Q) \ {Head(Q[n][s])}

\* MatchOrder and TakeOrder take the first order of one queue.
LEMMA PopQueue ==
  ASSUME NEW Q \in Queues, NEW n \in Instances, NEW s \in Stocks, Q[n][s] # <<>>,
         NEW R, R = [Q EXCEPT ![n][s] = Tail(@)]
  PROVE  Popped(Q, R, n, s)
<1>1. /\ R \in Queues
      /\ \A m \in Instances, t \in Stocks :
           R[m][t] = IF m = n /\ t = s THEN Tail(Q[n][s]) ELSE Q[m][t]
  BY DEF Queues
<1>2. Q[n][s] \in Seq(Nat)
  BY DEF Queues
<1>3. /\ Head(Q[n][s]) = Q[n][s][1] /\ Len(Q[n][s]) \in Nat /\ 1 \in 1..Len(Q[n][s])
      /\ Len(R[n][s]) = Len(Q[n][s]) - 1
      /\ \A i \in 1..Len(R[n][s]) : R[n][s][i] = Q[n][s][i + 1]
      /\ Q[n][s][1] \in Nat
  <2>1. R[n][s] = Tail(Q[n][s])
    BY <1>1
  <2> QED BY ZenonT(30), <1>2, <2>1, TailFacts
<1>4. \A m \in Instances, t \in Stocks : Len(Q[m][t]) \in Nat
  BY DEF Queues
<1>5. ASSUME NEW m \in Instances, NEW t \in Stocks, NEW i \in 1..Len(R[m][t])
      PROVE  LET k == IF m = n /\ t = s THEN i + 1 ELSE i IN
             k \in 1..Len(Q[m][t]) /\ R[m][t][i] = Q[m][t][k]
  BY <1>1, <1>3, <1>4
<1>6. Head(Q[n][s]) \in Ids(Q)
  BY <1>3 DEF Ids
<1> DEFINE Was(m, t, i, k) == k = (IF m = n /\ t = s THEN i + 1 ELSE i) /\ R[m][t][i] = Q[m][t][k]
<1>9. \A m \in Instances, t \in Stocks : \A i \in 1..Len(R[m][t]) :
        \E k \in 1..Len(Q[m][t]) : Was(m, t, i, k)
  BY <1>5
<1>7. Ids(R) \subseteq Ids(Q)
  BY <1>5 DEF Ids
<1>8. ASSUME Once(Q)
      PROVE  Once(R) /\ Ids(R) = Ids(Q) \ {Head(Q[n][s])}
  <2>1. Once(R)
    <3> SUFFICES ASSUME NEW a \in Instances, NEW b \in Instances, NEW t \in Stocks,
                        NEW u \in Stocks, NEW i \in 1..Len(R[a][t]), NEW j \in 1..Len(R[b][u]),
                        R[a][t][i] = R[b][u][j]
                 PROVE  a = b /\ t = u /\ i = j
      BY DEF Once
    <3> HIDE DEF Was
    <3>1. PICK k \in 1..Len(Q[a][t]) : Was(a, t, i, k)
      BY <1>9
    <3>2. PICK l \in 1..Len(Q[b][u]) : Was(b, u, j, l)
      BY <1>9
    <3> USE DEF Was
    <3>3. Q[a][t][k] = Q[b][u][l]
      BY <3>1, <3>2
    <3>4. a = b /\ t = u /\ k = l
      BY SMTT(30), <3>3, <1>8 DEF Once
    <3> QED BY <3>1, <3>2, <3>4
  <2>2. Head(Q[n][s]) \notin Ids(R)
    <3> SUFFICES ASSUME NEW m \in Instances, NEW t \in Stocks, NEW i \in 1..Len(R[m][t]),
                        R[m][t][i] = Q[n][s][1]
                 PROVE  FALSE
      BY <1>3 DEF Ids
    <3>1. PICK k \in 1..Len(Q[m][t]) :
            k = (IF m = n /\ t = s THEN i + 1 ELSE i) /\ R[m][t][i] = Q[m][t][k]
      BY SMTT(30), <1>5
    <3>2. Q[m][t][k] = Q[n][s][1] /\ 1 \in 1..Len(Q[n][s])
      BY <3>1, <1>3
    <3>3. m = n /\ t = s /\ k = 1
      BY <3>2, <1>8 DEF Once
    <3> QED BY <3>1, <3>3
  <2>3. ASSUME NEW o \in Ids(Q), o # Q[n][s][1]
        PROVE  o \in Ids(R)
    <3>1. PICK m \in Instances, t \in Stocks : \E i \in 1..Len(Q[m][t]) : Q[m][t][i] = o
      BY DEF Ids
    <3>2. PICK i \in 1..Len(Q[m][t]) : Q[m][t][i] = o
      BY <3>1
    <3>3. CASE m = n /\ t = s
      <4>1. i # 1
        BY <3>2, <3>3, <2>3
      <4>2. i - 1 \in 1..Len(R[n][s]) /\ R[n][s][i - 1] = o
        BY SMTT(30), <4>1, <3>2, <3>3, <1>3
      <4> QED BY <4>2 DEF Ids
    <3>4. CASE ~(m = n /\ t = s)
      BY <3>4, <3>2, <1>1 DEF Ids
    <3> QED BY <3>3, <3>4
  <2> QED BY <2>1, <2>2, <2>3, <1>3, <1>7
<1> QED BY <1>1, <1>3, <1>5, <1>6, <1>7, <1>8 DEF Popped

\* The queues R are Q without the orders of n.
Cleared(Q, R, n) ==
  /\ R \in Queues
  /\ \A m \in Instances, t \in Stocks : \A i \in 1..Len(R[m][t]) :
       m # n /\ i \in 1..Len(Q[m][t]) /\ R[m][t][i] = Q[m][t][i]
  /\ Ids(R) \subseteq Ids(Q)
  /\ Once(Q) => /\ Once(R)
                /\ \A t \in Stocks : \A i \in 1..Len(Q[n][t]) : Q[n][t][i] \notin Ids(R)

\* A process that is gone takes the orders of its queues with it.
LEMMA ClearQueue ==
  ASSUME NEW Q \in Queues, NEW n \in Instances, NEW R, R = [Q EXCEPT ![n] = NoMail]
  PROVE  Cleared(Q, R, n)
<1>1. /\ R \in Queues
      /\ \A m \in Instances, t \in Stocks : R[m][t] = IF m = n THEN <<>> ELSE Q[m][t]
  BY DEF Queues, NoMail
<1>2. ASSUME NEW m \in Instances, NEW t \in Stocks, NEW i \in 1..Len(R[m][t])
      PROVE  m # n /\ i \in 1..Len(Q[m][t]) /\ R[m][t][i] = Q[m][t][i]
  BY <1>1
<1>3. Ids(R) \subseteq Ids(Q)
  BY <1>2 DEF Ids
<1>4. ASSUME Once(Q)
      PROVE  Once(R)
  BY <1>2, <1>4 DEF Once
<1>5. ASSUME Once(Q), NEW t \in Stocks, NEW i \in 1..Len(Q[n][t])
      PROVE  Q[n][t][i] \notin Ids(R)
  BY <1>2, <1>5 DEF Once, Ids
<1> QED BY <1>1, <1>2, <1>3, <1>4, <1>5 DEF Cleared

\* The outboxes C are B with message x at the end of n's.
OutPushed(B, C, n, x) ==
  /\ C \in [Instances -> Seq(Message)]
  /\ \A m \in Instances : \A i \in 1..Len(C[m]) :
       \/ i \in 1..Len(B[m]) /\ C[m][i] = B[m][i]
       \/ m = n /\ i = Len(B[n]) + 1 /\ C[m][i] = x
  /\ OutIds(C) = OutIds(B) \cup (IF x.kind = "order" THEN {x.id} ELSE {})
  /\ OutOnce(B) /\ (x.kind = "order" => x.id \notin OutIds(B)) => OutOnce(C)

\* Router.SubmitOrder and HandleEvent publish a message.
LEMMA PushOutbox ==
  ASSUME NEW B \in [Instances -> Seq(Message)], NEW n \in Instances, NEW x \in Message,
         NEW C, C = [B EXCEPT ![n] = Append(@, x)]
  PROVE  OutPushed(B, C, n, x)
<1>1. /\ C \in [Instances -> Seq(Message)]
      /\ \A m \in Instances : C[m] = IF m = n THEN Append(B[n], x) ELSE B[m]
  OBVIOUS
<1>2. \A m \in Instances : B[m] \in Seq(Message) /\ Len(B[m]) \in Nat
  OBVIOUS
<1>3. /\ Len(C[n]) = Len(B[n]) + 1 /\ C[n][Len(B[n]) + 1] = x
      /\ \A i \in 1..Len(B[n]) : C[n][i] = B[n][i]
  BY <1>1, <1>2
<1>4. ASSUME NEW m \in Instances, NEW i \in 1..Len(C[m])
      PROVE  \/ i \in 1..Len(B[m]) /\ C[m][i] = B[m][i]
             \/ m = n /\ i = Len(B[n]) + 1 /\ C[m][i] = x
  BY <1>1, <1>2, <1>3
<1>5. ASSUME NEW m \in Instances, NEW i \in 1..Len(B[m])
      PROVE  i \in 1..Len(C[m]) /\ C[m][i] = B[m][i]
  BY <1>1, <1>2, <1>3
<1>6. x.kind \in {"order", "event"} /\ x.id \in Nat
  BY DEF Message
<1>7. \A o : x = OrderMessage(o) <=> x.kind = "order" /\ x.id = o
  BY DEF Message, OrderMessage
<1>8. OutIds(C) = OutIds(B) \cup (IF x.kind = "order" THEN {x.id} ELSE {})
  <2>1. OutIds(C) \subseteq OutIds(B) \cup (IF x.kind = "order" THEN {x.id} ELSE {})
    BY <1>4, <1>7 DEF OutIds
  <2>2. OutIds(B) \subseteq OutIds(C)
    BY <1>5 DEF OutIds
  <2>3. ASSUME x.kind = "order" PROVE x.id \in OutIds(C)
    <3>1. Len(B[n]) + 1 \in 1..Len(C[n])
      BY <1>2, <1>3
    <3> QED BY <3>1, <2>3, <1>3, <1>6, <1>7 DEF OutIds
  <2> QED BY <2>1, <2>2, <2>3
<1>9. ASSUME OutOnce(B), x.kind = "order" => x.id \notin OutIds(B)
      PROVE  OutOnce(C)
  <2> SUFFICES ASSUME NEW a \in Instances, NEW b \in Instances,
                      NEW i \in 1..Len(C[a]), NEW j \in 1..Len(C[b]),
                      C[a][i].kind = "order", C[a][i] = C[b][j]
               PROVE  a = b /\ i = j
    BY DEF OutOnce
  <2>1. x.kind = "order" => \A m \in Instances : \A k \in 1..Len(B[m]) : B[m][k] # x
    BY <1>9, <1>6, <1>7 DEF OutIds
  <2>2. \/ i \in 1..Len(B[a]) /\ C[a][i] = B[a][i]
        \/ a = n /\ i = Len(B[n]) + 1 /\ C[a][i] = x
    BY <1>4
  <2>3. \/ j \in 1..Len(B[b]) /\ C[b][j] = B[b][j]
        \/ b = n /\ j = Len(B[n]) + 1 /\ C[b][j] = x
    BY <1>4
  <2> QED BY <2>1, <2>2, <2>3, <1>9 DEF OutOnce
<1> QED BY <1>1, <1>4, <1>8, <1>9 DEF OutPushed

\* C is what is left of the outboxes B without the first message of n.
Shifted(B, C, n) ==
  \A m \in Instances : \A i \in 1..Len(C[m]) :
    \E k \in 1..Len(B[m]) : k = (IF m = n THEN i + 1 ELSE i) /\ C[m][i] = B[m][k]

\* What is once in the outboxes is once in what is left of them.
LEMMA OutOnceKept ==
  ASSUME NEW B, NEW C, NEW n, OutOnce(B), Shifted(B, C, n)
  PROVE  OutOnce(C)
<1> DEFINE Was(m, i, k) == k = (IF m = n THEN i + 1 ELSE i) /\ C[m][i] = B[m][k]
<1>1. \A m \in Instances : \A i \in 1..Len(C[m]) : \E k \in 1..Len(B[m]) : Was(m, i, k)
  BY DEF Shifted
<1> HIDE DEF Was
<1> SUFFICES ASSUME NEW a \in Instances, NEW b \in Instances,
                    NEW i \in 1..Len(C[a]), NEW j \in 1..Len(C[b]),
                    C[a][i].kind = "order", C[a][i] = C[b][j]
             PROVE  a = b /\ i = j
  BY DEF OutOnce
<1>2. PICK k \in 1..Len(B[a]) : Was(a, i, k)
  BY <1>1
<1>3. PICK l \in 1..Len(B[b]) : Was(b, j, l)
  BY <1>1
<1>4. B[a][k].kind = "order" /\ B[a][k] = B[b][l]
  BY <1>2, <1>3 DEF Was
<1>5. a = b /\ k = l
  BY <1>4 DEF OutOnce
<1> QED BY <1>2, <1>3, <1>5 DEF Was

\* The outboxes C are what is left of B without the first message of n.
OutPopped(B, C, n) ==
  /\ C \in [Instances -> Seq(Message)]
  /\ Head(B[n]) = B[n][1] /\ 1 \in 1..Len(B[n]) /\ Head(B[n]) \in Message
  /\ \A m \in Instances : \A i \in 1..Len(C[m]) :
       LET k == IF m = n THEN i + 1 ELSE i IN
       k \in 1..Len(B[m]) /\ C[m][i] = B[m][k]
  /\ OutIds(C) \subseteq OutIds(B)
  /\ Head(B[n]).kind = "order" => Head(B[n]).id \in OutIds(B)
  /\ OutOnce(B) => /\ OutOnce(C)
                   /\ Head(B[n]).kind = "order" => Head(B[n]).id \notin OutIds(C)

\* The message server takes an instance's oldest message, or it is lost.
LEMMA PopOutbox ==
  ASSUME NEW B \in [Instances -> Seq(Message)], NEW n \in Instances, B[n] # <<>>,
         NEW C, C = [B EXCEPT ![n] = Tail(@)]
  PROVE  OutPopped(B, C, n)
<1>1. /\ C \in [Instances -> Seq(Message)]
      /\ \A m \in Instances : C[m] = IF m = n THEN Tail(B[n]) ELSE B[m]
  OBVIOUS
<1>2. \A m \in Instances : B[m] \in Seq(Message) /\ Len(B[m]) \in Nat
  OBVIOUS
<1>3. /\ Head(B[n]) = B[n][1] /\ 1 \in 1..Len(B[n]) /\ B[n][1] \in Message
      /\ Len(C[n]) = Len(B[n]) - 1
      /\ \A i \in 1..Len(C[n]) : C[n][i] = B[n][i + 1]
  <2>1. C[n] = Tail(B[n])
    BY <1>1
  <2> QED BY <1>2, <2>1, TailFacts
<1>4. ASSUME NEW m \in Instances, NEW i \in 1..Len(C[m])
      PROVE  LET k == IF m = n THEN i + 1 ELSE i IN
             k \in 1..Len(B[m]) /\ C[m][i] = B[m][k]
  BY <1>1, <1>2, <1>3
<1> DEFINE Was(m, i, k) == k = (IF m = n THEN i + 1 ELSE i) /\ C[m][i] = B[m][k]
<1>5. \A m \in Instances : \A i \in 1..Len(C[m]) : \E k \in 1..Len(B[m]) : Was(m, i, k)
  BY <1>4
<1>6. OutIds(C) \subseteq OutIds(B)
  BY <1>4 DEF OutIds
<1>7. B[n][1].kind = "order" => B[n][1] = OrderMessage(B[n][1].id) /\ B[n][1].id \in Nat
  BY <1>3 DEF Message, OrderMessage
<1>8. B[n][1].kind = "order" => B[n][1].id \in OutIds(B)
  BY <1>3, <1>7 DEF OutIds
<1>9. ASSUME OutOnce(B)
      PROVE  OutOnce(C)
  <2>1. Shifted(B, C, n)
    BY <1>5 DEF Shifted
  <2> QED BY <1>9, <2>1, OutOnceKept
<1>10. ASSUME OutOnce(B), B[n][1].kind = "order", B[n][1].id \in OutIds(C)
       PROVE  FALSE
  <2> HIDE DEF Was
  <2>1. PICK m \in Instances : \E i \in 1..Len(C[m]) : C[m][i] = B[n][1]
    BY <1>7, <1>10 DEF OutIds
  <2>2. PICK i \in 1..Len(C[m]) : C[m][i] = B[n][1]
    BY <2>1
  <2>3. PICK k \in 1..Len(B[m]) : Was(m, i, k)
    BY <1>5
  <2>4. B[n][1] = B[m][k]
    BY <2>2, <2>3 DEF Was
  <2>5. m = n /\ k = 1
    BY <2>4, <1>3, <1>10 DEF OutOnce
  <2> QED BY <2>3, <2>5 DEF Was
<1> QED BY <1>1, <1>3, <1>4, <1>6, <1>8, <1>9, <1>10 DEF OutPopped

\* L is what is matched, M, and then order o by n.
Grown(M, L, o, n) ==
  /\ L \in Seq([order : Nat, by : Instances])
  /\ Len(L) = Len(M) + 1 /\ Len(M) \in Nat
  /\ L[Len(M) + 1].order = o /\ L[Len(M) + 1].by = n
  /\ \A i \in 1..Len(M) : L[i] = M[i]
  /\ MatchedIds(L) = MatchedIds(M) \cup {o}
  /\ MatchedOnce(M) /\ o \notin MatchedIds(M) => MatchedOnce(L)

\* What is matched and what is lost only grows.
LEMMA GrowMatched ==
  ASSUME NEW M \in Seq([order : Nat, by : Instances]), NEW o \in Nat, NEW n \in Instances,
         NEW L, L = Append(M, [order |-> o, by |-> n])
  PROVE  Grown(M, L, o, n)
<1> DEFINE r == [order |-> o, by |-> n]
           T == [order : Nat, by : Instances]
<1>0. r \in T /\ M \in Seq(T) /\ L = Append(M, r) /\ r.order = o
  OBVIOUS
<1>1. /\ L \in Seq([order : Nat, by : Instances])
      /\ Len(L) = Len(M) + 1 /\ Len(M) \in Nat
      /\ L[Len(M) + 1] = [order |-> o, by |-> n]
      /\ \A i \in 1..Len(M) : L[i] = M[i]
  <2> HIDE DEF r, T
  <2>1. L \in Seq(T) /\ Len(L) = Len(M) + 1 /\ Len(M) \in Nat /\ L[Len(M) + 1] = r
        /\ \A i \in 1..Len(M) : L[i] = M[i]
    BY <1>0
  <2> QED BY <2>1 DEF r, T
<1>2. L[Len(M) + 1].order = o /\ L[Len(M) + 1].by = n
  BY <1>1
<1>3. ASSUME NEW i \in 1..Len(L)
      PROVE  \/ i \in 1..Len(M) /\ L[i].order = M[i].order
             \/ i = Len(M) + 1 /\ L[i].order = o
  BY <1>1, <1>2
<1>4. MatchedIds(L) = MatchedIds(M) \cup {o}
  <2>1. MatchedIds(L) \subseteq MatchedIds(M) \cup {o}
    BY <1>3 DEF MatchedIds
  <2>2. ASSUME NEW i \in 1..Len(M) PROVE i \in 1..Len(L) /\ L[i].order = M[i].order
    BY <1>1
  <2>3. MatchedIds(M) \subseteq MatchedIds(L)
    BY <2>2 DEF MatchedIds
  <2>4. Len(M) + 1 \in 1..Len(L)
    BY <1>1
  <2> QED BY <2>1, <2>3, <2>4, <1>2 DEF MatchedIds
<1>5. ASSUME MatchedOnce(M), o \notin MatchedIds(M), NEW i \in 1..Len(L), NEW j \in 1..Len(L),
             L[i].order = L[j].order
      PROVE  i = j
  <2>1. \A k \in 1..Len(M) : M[k].order # o
    BY <1>5 DEF MatchedIds
  <2> QED BY <2>1, <1>3, <1>5 DEF MatchedOnce
<1> QED BY <1>1, <1>2, <1>4, <1>5 DEF MatchedOnce, Grown

LEMMA DropOne ==
  ASSUME NEW D, NEW o \in Nat, NEW w, NEW X, X = D \cup {[order |-> o, why |-> w]}
  PROVE  DroppedIds(X) = DroppedIds(D) \cup {o}
<1>1. [order |-> o, why |-> w].order = o
  OBVIOUS
<1> QED BY <1>1 DEF DroppedIds

LEMMA DropAll ==
  ASSUME NEW D, NEW H, H \subseteq Nat, NEW w, NEW X, X = D \cup [order : H, why : {w}]
  PROVE  DroppedIds(X) = DroppedIds(D) \cup H
<1>1. \A o \in H : [order |-> o, why |-> w] \in [order : H, why : {w}]
  OBVIOUS
<1>2. \A d \in [order : H, why : {w}] : d.order \in H
  OBVIOUS
<1>3. \A o : [order |-> o, why |-> w].order = o
  OBVIOUS
<1> QED BY <1>1, <1>2, <1>3 DEF DroppedIds

\* What an instance's process holds.
InQueue(Q, n, s, o) == \E i \in 1..Len(Q[n][s]) : o = Q[n][s][i]

LEMMA HeldIs ==
  ASSUME orderMail \in Queues, engineCh \in Queues, NEW n \in Instances, NEW o \in Held(n)
  PROVE  \E s \in Stocks : InQueue(orderMail, n, s, o) \/ InQueue(engineCh, n, s, o)
<1>1. \A s \in Stocks : /\ DOMAIN orderMail[n][s] = 1..Len(orderMail[n][s])
                        /\ DOMAIN engineCh[n][s] = 1..Len(engineCh[n][s])
  BY DEF Queues
<1>2. \E s \in Stocks : o \in ToSet(orderMail[n][s]) \cup ToSet(engineCh[n][s])
  BY DEF Held
<1> QED BY <1>1, <1>2 DEF ToSet, InQueue

LEMMA InQueueIds ==
  ASSUME NEW Q \in Queues, NEW n \in Instances, NEW s \in Stocks, NEW o, InQueue(Q, n, s, o)
  PROVE  o \in Ids(Q) /\ o \in Nat
<1>1. \A i \in 1..Len(Q[n][s]) : Q[n][s][i] \in Nat
  BY DEF Queues
<1> QED BY <1>1 DEF InQueue, Ids

-----------------------------------------------------------------------------
(***************************************************************************)
(* Types.                                                                  *)
(***************************************************************************)
\* The steps that do not move an order or an event.
IdleStep ==
  \/ \E n \in Instances : \/ Unlink(n) \/ Relink(n) \/ Restart(n) \/ Sigterm(n) \/ EngineStop(n)
                          \/ ResendEvent(n)
  \/ AllQuiet
  \/ UNCHANGED clusterVars

\* The copy of an event arrives.
CopyStep(n) == \E e \in copies[n] : RouteCopy(n, e)

\* A process ends: it crashes, panics or exits.
EndStep(n) ==
  \/ Crash(n) \/ Exit(n)
  \/ \E s \in Stocks : TakeOrderTooLate(n, s)

\* Next by what it does to the orders.
LEMMA StepCases ==
  ASSUME [ClusterNext]_clusterVars
  PROVE  \/ IdleStep
         \/ \E n \in Instances :
              \/ \E s \in Stocks : PlaceOrder(n, s) \/ MatchOrder(n, s) \/ TakeOrder(n, s)
              \/ EndStep(n) \/ HandleEvent(n) \/ TakeEvent(n) \/ CopyStep(n)
              \/ RouteOrder(n) \/ RouteEvent(n) \/ LoseMessage(n)
<1>1. CASE UNCHANGED clusterVars
  BY <1>1 DEF IdleStep
<1>2. CASE AllQuiet
  BY <1>2 DEF IdleStep
<1>3. ASSUME NEW n \in Instances, NEW s \in Stocks, PlaceOrder(n, s)
      PROVE  \E m \in Instances : \E t \in Stocks : PlaceOrder(m, t)
  BY <1>3
<1>4. ASSUME NEW n \in Instances, InstanceStep(n)
      PROVE  \/ EngineStop(n) \/ EndStep(n) \/ HandleEvent(n) \/ TakeEvent(n)
             \/ \E s \in Stocks : MatchOrder(n, s) \/ TakeOrder(n, s)
  BY <1>4 DEF InstanceStep, EndStep, TakeNATSEvent, TakeRedisEvent
<1>5. ASSUME NEW n \in Instances, FaultStep(n)
      PROVE  \/ EndStep(n) \/ Unlink(n) \/ LoseMessage(n) \/ Restart(n) \/ Sigterm(n)
             \/ ResendEvent(n) \/ CopyStep(n)
  BY <1>5 DEF FaultStep, EndStep, CopyStep
<1> QED
  BY <1>1, <1>2, <1>3, <1>4, <1>5 DEF ClusterNext, MessageStep, IdleStep

\* Unless an instance is idle its process ends by Gone.
LEMMA EndIsGone ==
  ASSUME NEW n \in Instances, EndStep(n)
  PROVE  /\ \E end \in {"down", "panicked"}, why \in {"crash", "panic", "unsubscribed"} :
              Gone(n, end, why)
         /\ \/ faults' = faults /\ phase[n] = "closed"
            \/ faults' = faults + 1
<1>1. CASE Crash(n)
  BY <1>1 DEF Crash, Fault
<1>2. CASE Exit(n)
  BY <1>2 DEF Exit
<1>3. CASE \E s \in Stocks : TakeOrderTooLate(n, s)
  BY <1>3 DEF TakeOrderTooLate
<1> QED BY <1>1, <1>2, <1>3 DEF EndStep

\* Engine.SubmitOrder puts the order in its matcher's channel or loses it.
LEMMA SubmitEffect ==
  ASSUME NEW n, NEW o, EngineSubmit(n, o)
  PROVE  \/ /\ placed'[o].stock \in EngineStocks(n) /\ dropped' = dropped
            /\ engineCh' = [engineCh EXCEPT ![n][placed'[o].stock] = Append(@, o)]
         \/ /\ engineCh' = engineCh
            /\ \/ dropped' = dropped \cup {[order |-> o, why |-> "full"]}
               \/ /\ placed'[o].stock \notin EngineStocks(n)
                  /\ dropped' = dropped \cup {[order |-> o, why |-> "unknown stock"]}
BY DEF EngineSubmit

\* A stock with a matcher is a stock.
LEMMA EngineStocksAre ==
  ASSUME NEW n
  PROVE  EngineStocks(n) \subseteq Stocks
BY DEF EngineStocks, OwnedStocks

\* An order has a stock and an origin.
LEMMA PlacedOrder ==
  ASSUME NEW P \in Seq([stock : Stocks, origin : Instances]), NEW o \in 1..Len(P)
  PROVE  P[o].stock \in Stocks /\ P[o].origin \in Instances
<1> DEFINE T == [stock : Stocks, origin : Instances]
<1>1. P \in Seq(T)
  OBVIOUS
<1> HIDE DEF T
<1>2. P[o] \in T
  BY <1>1
<1> QED BY <1>2 DEF T

\* Appending to the orders placed.
LEMMA GrowPlaced ==
  ASSUME NEW P \in Seq([stock : Stocks, origin : Instances]), NEW s \in Stocks,
         NEW n \in Instances, NEW R, R = Append(P, [stock |-> s, origin |-> n])
  PROVE  /\ R \in Seq([stock : Stocks, origin : Instances])
         /\ Len(P) \in Nat /\ Len(R) = Len(P) + 1
         /\ R[Len(R)].stock = s /\ R[Len(R)].origin = n
         /\ \A i \in 1..Len(P) : R[i] = P[i]
<1> DEFINE r == [stock |-> s, origin |-> n]
           T == [stock : Stocks, origin : Instances]
<1>1. r \in T /\ P \in Seq(T) /\ R = Append(P, r) /\ r.stock = s /\ r.origin = n
  OBVIOUS
<1> HIDE DEF r, T
<1>2. R \in Seq(T) /\ Len(P) \in Nat /\ Len(R) = Len(P) + 1 /\ R[Len(R)] = r
  BY <1>1
<1>3. \A i \in 1..Len(P) : R[i] = P[i]
  BY <1>1
<1> QED BY <1>1, <1>2, <1>3 DEF T

\* What the idle steps leave alone.
LEMMA IdleFrame ==
  ASSUME IdleStep
  PROVE  /\ UNCHANGED <<config, placed, messageVars, engineVars, shown, dropped>>
         /\ phase' = phase \/ \E n \in Instances : \E x \in {"up", "draining", "closed"} :
                                phase' = [phase EXCEPT ![n] = x]
BY DEF IdleStep, Unlink, Relink, Restart, Sigterm, EngineStop, ResendEvent, AllQuiet, clusterVars,
       nodeVars, messageVars, engineVars

LEMMA TypesInit == ClusterInit => ClusterTypes
<1> SUFFICES ASSUME ClusterInit PROVE ClusterTypes
  OBVIOUS
<1>1. NoMail \in [Stocks -> Seq(Nat)]
  BY DEF NoMail
<1>2. orderMail \in Queues /\ engineCh \in Queues
  BY <1>1 DEF ClusterInit, Queues
<1>3. /\ placed \in Seq([stock : Stocks, origin : Instances])
      /\ matched \in Seq([order : Nat, by : Instances])
      /\ outbox \in [Instances -> Seq(Message)]
      /\ eventBus \in [Instances -> Seq(Nat)]
  BY DEF ClusterInit
<1>4. phase \in [Instances -> {"up", "draining", "closed", "down", "panicked"}]
  BY DEF ClusterInit
<1>5. \A d \in dropped : d.order \in Nat
  BY DEF ClusterInit
<1> QED BY <1>2, <1>3, <1>4, <1>5 DEF ClusterTypes

\* Losing orders keeps what is known of the lost ones.
LEMMA DroppedTyped ==
  ASSUME NEW D, \A d \in D : d.order \in Nat, NEW w
  PROVE  /\ \A o \in Nat : \A d \in D \cup {[order |-> o, why |-> w]} : d.order \in Nat
         /\ \A H : H \subseteq Nat => \A d \in D \cup [order : H, why : {w}] : d.order \in Nat
OBVIOUS

LEMMA HeldNat ==
  ASSUME orderMail \in Queues, engineCh \in Queues, NEW n \in Instances
  PROVE  Held(n) \subseteq Nat
BY HeldIs, InQueueIds

\* The effect of Engine.SubmitOrder on types.
LEMMA SubmitTypes ==
  ASSUME ClusterTypes, NEW n \in Instances, NEW o \in Nat, EngineSubmit(n, o)
  PROVE  engineCh' \in Queues /\ \A d \in dropped' : d.order \in Nat
<1>1. engineCh \in Queues /\ \A d \in dropped : d.order \in Nat
  BY DEF ClusterTypes
<1>2. CASE /\ placed'[o].stock \in EngineStocks(n) /\ dropped' = dropped
           /\ engineCh' = [engineCh EXCEPT ![n][placed'[o].stock] = Append(@, o)]
  <2>1. Pushed(engineCh, engineCh', n, placed'[o].stock, o)
    BY <1>1, <1>2, PushQueue, EngineStocksAre
  <2> QED BY <1>1, <1>2, <2>1 DEF Pushed
<1>3. ASSUME engineCh' = engineCh,
             NEW w, dropped' = dropped \cup {[order |-> o, why |-> w]}
      PROVE  engineCh' \in Queues /\ \A d \in dropped' : d.order \in Nat
  BY <1>1, <1>3, DroppedTyped
<1> QED BY <1>2, <1>3, SubmitEffect

LEMMA TypesStep ==
  ASSUME ClusterTypes, OnePlace, [ClusterNext]_clusterVars
  PROVE  ClusterTypes'
<1>0. /\ placed \in Seq([stock : Stocks, origin : Instances])
      /\ outbox \in [Instances -> Seq(Message)]
      /\ orderMail \in Queues /\ engineCh \in Queues
      /\ matched \in Seq([order : Nat, by : Instances])
      /\ eventBus \in [Instances -> Seq(Nat)]
      /\ \A d \in dropped : d.order \in Nat
  BY DEF ClusterTypes
<1>1. ASSUME IdleStep PROVE ClusterTypes'
  <2>1. phase' \in [Instances -> {"up", "draining", "closed", "down", "panicked"}]
    BY <1>1, IdleFrame DEF ClusterTypes
  <2> QED BY <2>1, <1>1, IdleFrame DEF ClusterTypes, messageVars, engineVars
<1>2. ASSUME NEW n \in Instances, NEW s \in Stocks, PlaceOrder(n, s) PROVE ClusterTypes'
  <2> DEFINE o == Len(placed')
  <2>1. o \in Nat /\ placed' \in Seq([stock : Stocks, origin : Instances])
    BY <1>2, <1>0, GrowPlaced DEF PlaceOrder
  <2>2. OrderMessage(o) \in Message
    BY <2>1 DEF OrderMessage, Message
  <2>3. SubmitOrder(n, o) /\ UNCHANGED <<phase, orderMail, matched, eventBus>>
    BY <1>2 DEF PlaceOrder, nodeVars
  <2> HIDE DEF o
  <2>4. CASE EngineSubmit(n, o) /\ UNCHANGED outbox
    BY <2>1, <2>3, <2>4, SubmitTypes DEF ClusterTypes
  <2>5. CASE /\ outbox' = [outbox EXCEPT ![n] = Append(@, OrderMessage(o))]
             /\ UNCHANGED <<engineCh, dropped>>
    <3>1. outbox' \in [Instances -> Seq(Message)]
      BY <2>2, <2>5, <1>0, PushOutbox DEF OutPushed
    <3> QED BY <2>1, <2>3, <2>5, <3>1 DEF ClusterTypes
  <2> QED BY <2>3, <2>4, <2>5 DEF SubmitOrder
<1>3. ASSUME NEW n \in Instances, NEW s \in Stocks, MatchOrder(n, s) PROVE ClusterTypes'
  <2>0. engineCh[n][s] # <<>> /\ engineCh' = [engineCh EXCEPT ![n][s] = Tail(@)]
    BY <1>3 DEF MatchOrder
  <2>1. engineCh' \in Queues /\ Head(engineCh[n][s]) \in Nat
    <3>1. Popped(engineCh, engineCh', n, s)
      BY <2>0, <1>0, PopQueue
    <3> QED BY <3>1 DEF Popped, Ids
  <2>2. matched' \in Seq([order : Nat, by : Instances]) /\ Len(matched') \in Nat
    <3>1. matched' = Append(matched, [order |-> Head(engineCh[n][s]), by |-> n])
      BY <1>3 DEF MatchOrder
    <3>2. Grown(matched, matched', Head(engineCh[n][s]), n)
      BY <3>1, <2>1, <1>0, GrowMatched
    <3> QED BY <3>2 DEF Grown
  <2>3. eventBus' \in [Instances -> Seq(Nat)]
    BY <1>3, <1>0, <2>2 DEF MatchOrder
  <2> QED BY <1>3, <2>1, <2>2, <2>3 DEF MatchOrder, ClusterTypes, nodeVars, messageVars
<1>4. ASSUME NEW n \in Instances, NEW s \in Stocks, TakeOrder(n, s) PROVE ClusterTypes'
  <2>0. orderMail[n][s] # <<>> /\ orderMail' = [orderMail EXCEPT ![n][s] = Tail(@)]
    BY <1>4 DEF TakeOrder
  <2>1. orderMail' \in Queues /\ Head(orderMail[n][s]) \in Nat
    <3>1. Popped(orderMail, orderMail', n, s)
      BY <2>0, <1>0, PopQueue
    <3> QED BY <3>1 DEF Popped, Ids
  <2>2. engineCh' \in Queues /\ \A d \in dropped' : d.order \in Nat
    BY <1>4, <2>1, SubmitTypes DEF TakeOrder
  <2> QED BY <1>4, <2>1, <2>2 DEF TakeOrder, ClusterTypes, nodeVars
<1>5. ASSUME NEW n \in Instances, EndStep(n) PROVE ClusterTypes'
  <2>1. PICK end \in {"down", "panicked"}, why \in {"crash", "panic", "unsubscribed"} :
          Gone(n, end, why)
    BY <1>5, EndIsGone
  <2>2. orderMail' \in Queues /\ engineCh' \in Queues
    <3>1. Cleared(orderMail, orderMail', n) /\ Cleared(engineCh, engineCh', n)
      BY <2>1, <1>0, ClearQueue DEF Gone
    <3> QED BY <3>1 DEF Cleared
  <2>3. \A d \in dropped' : d.order \in Nat
    BY <2>1, <1>0, HeldNat, DroppedTyped DEF Gone
  <2>4. phase' \in [Instances -> {"up", "draining", "closed", "down", "panicked"}]
    BY <2>1 DEF Gone, ClusterTypes
  <2>5. eventBus' \in [Instances -> Seq(Nat)]
    BY <2>1, <1>0 DEF Gone
  <2> QED BY <2>1, <2>2, <2>3, <2>4, <2>5 DEF Gone, ClusterTypes
<1>6. ASSUME NEW n \in Instances, HandleEvent(n) PROVE ClusterTypes'
  <2>1. Head(eventBus[n]) \in Nat /\ eventBus' \in [Instances -> Seq(Nat)]
    BY <1>6, <1>0 DEF HandleEvent
  <2>2. EventMessage(Head(eventBus[n])) \in Message
    BY <2>1 DEF EventMessage, Message
  <2>3. outbox' \in [Instances -> Seq(Message)]
    BY <1>6, <1>0, <2>2, PushOutbox DEF HandleEvent, OutPushed
  <2> QED BY <1>6, <2>1, <2>3 DEF HandleEvent, ClusterTypes, nodeVars
<1>7. ASSUME NEW n \in Instances, TakeEvent(n) \/ CopyStep(n) PROVE ClusterTypes'
  <2>1. UNCHANGED <<placed, outbox, orderMail, nodeVars, engineVars, dropped>>
    BY <1>7 DEF TakeEvent, CopyStep, RouteCopy
  <2> QED BY <2>1 DEF ClusterTypes, nodeVars, engineVars
<1>8. ASSUME NEW n \in Instances, RouteOrder(n) PROVE ClusterTypes'
  <2> DEFINE o == Head(outbox[n]).id
  <2>0. outbox[n] # <<>> /\ outbox' = [outbox EXCEPT ![n] = Tail(@)]
        /\ Head(outbox[n]).kind = "order"
    BY <1>8 DEF RouteOrder
  <2>1. outbox' \in [Instances -> Seq(Message)] /\ Head(outbox[n]) \in Message
        /\ o \in OutIds(outbox)
    <3>1. OutPopped(outbox, outbox', n)
      BY <2>0, <1>0, PopOutbox
    <3> QED BY <2>0, <3>1 DEF OutPopped
  <2>2. o \in 1..Len(placed) /\ o \in Nat
    BY <2>1 DEF OnePlace, Apart, OutIds
  <2>3. placed[o].stock \in Stocks
    BY <2>2, <1>0, PlacedOrder
  <2> HIDE DEF o
  <2>4. CASE /\ dropped' = dropped \cup {[order |-> o, why |-> "no owner"]}
             /\ UNCHANGED orderMail
    <3>1. \A d \in dropped' : d.order \in Nat
      BY <2>2, <2>4, <1>0, DroppedTyped
    <3> QED BY <3>1, <2>1, <2>4, <1>8 DEF RouteOrder, ClusterTypes, nodeVars, engineVars
  <2>5. ASSUME NEW m \in Instances, UNCHANGED dropped,
               orderMail' = [orderMail EXCEPT ![m][placed[o].stock] = Append(@, o)]
        PROVE  ClusterTypes'
    <3>1. orderMail' \in Queues
      <4>1. Pushed(orderMail, orderMail', m, placed[o].stock, o)
        BY <2>2, <2>3, <2>5, <1>0, PushQueue
      <4> QED BY <4>1 DEF Pushed
    <3> QED BY <3>1, <2>1, <2>5, <1>8 DEF RouteOrder, ClusterTypes, nodeVars, engineVars
  <2> QED BY <2>4, <2>5, <1>8 DEF RouteOrder, QueueGroup, o
<1>9. ASSUME NEW n \in Instances, RouteEvent(n) \/ LoseMessage(n) PROVE ClusterTypes'
  <2>0. outbox[n] # <<>> /\ outbox' = [outbox EXCEPT ![n] = Tail(@)]
    BY <1>9 DEF RouteEvent, LoseMessage
  <2>1. outbox' \in [Instances -> Seq(Message)] /\ Head(outbox[n]) \in Message
    <3>1. OutPopped(outbox, outbox', n)
      BY <2>0, <1>0, PopOutbox
    <3> QED BY <3>1 DEF OutPopped
  <2>2. Head(outbox[n]).id \in Nat
    BY <2>1 DEF Message
  <2>3. dropped' = dropped \/ dropped' = dropped \cup {[order |-> Head(outbox[n]).id, why |-> "in flight"]}
    BY <1>9 DEF RouteEvent, LoseMessage
  <2>4. \A d \in dropped' : d.order \in Nat
    <3>1. \A d \in dropped : d.order \in Nat
      BY <1>0
    <3>2. \A d \in dropped \cup {[order |-> Head(outbox[n]).id, why |-> "in flight"]} : d.order \in Nat
      BY <2>2, <3>1, DroppedTyped
    <3> QED BY <2>3, <3>1, <3>2
  <2> QED BY <2>1, <2>4, <1>9 DEF RouteEvent, LoseMessage, ClusterTypes, nodeVars, engineVars
<1> QED BY StepCases, <1>1, <1>2, <1>3, <1>4, <1>5, <1>6, <1>7, <1>8, <1>9

-----------------------------------------------------------------------------
(***************************************************************************)
(* An order is in one place.                                               *)
(***************************************************************************)
LEMMA SubmitPlaces ==
  ASSUME ClusterTypes, Once(engineCh), NEW n \in Instances, NEW o \in Nat, EngineSubmit(n, o),
         o \notin Ids(engineCh)
  PROVE  /\ Once(engineCh')
         /\ \/ /\ Ids(engineCh') = Ids(engineCh) \cup {o}
               /\ DroppedIds(dropped') = DroppedIds(dropped)
            \/ /\ Ids(engineCh') = Ids(engineCh)
               /\ DroppedIds(dropped') = DroppedIds(dropped) \cup {o}
<1>1. engineCh \in Queues
  BY DEF ClusterTypes
<1>2. CASE /\ placed'[o].stock \in EngineStocks(n) /\ dropped' = dropped
           /\ engineCh' = [engineCh EXCEPT ![n][placed'[o].stock] = Append(@, o)]
  <2>1. placed'[o].stock \in Stocks
    BY <1>2, EngineStocksAre
  <2>2. Pushed(engineCh, engineCh', n, placed'[o].stock, o)
    BY <1>1, <1>2, <2>1, PushQueue
  <2> QED BY <1>2, <2>2 DEF Pushed
<1>3. ASSUME engineCh' = engineCh,
             NEW w, dropped' = dropped \cup {[order |-> o, why |-> w]}
      PROVE  /\ Once(engineCh') /\ Ids(engineCh') = Ids(engineCh)
             /\ DroppedIds(dropped') = DroppedIds(dropped) \cup {o}
  <2>1. DroppedIds(dropped') = DroppedIds(dropped) \cup {o}
    BY <1>3, DropOne
  <2> QED BY <1>3, <2>1
<1> QED BY <1>2, <1>3, SubmitEffect

\* Nothing is placed yet.
LEMMA PlacesInit == ClusterInit => OnePlace
<1> SUFFICES ASSUME ClusterInit PROVE OnePlace
  OBVIOUS
<1>1. \A n \in Instances, s \in Stocks : Len(orderMail[n][s]) = 0 /\ Len(engineCh[n][s]) = 0
  BY DEF ClusterInit, NoMail
<1>2. \A n \in Instances : Len(outbox[n]) = 0
  BY DEF ClusterInit
<1>3. Len(matched) = 0 /\ dropped = {} /\ Len(placed) = 0
  BY DEF ClusterInit
<1>4. \A i : i \notin 1..0
  OBVIOUS
<1>5. Ids(orderMail) = {} /\ Ids(engineCh) = {} /\ OutIds(outbox) = {} /\ MatchedIds(matched) = {}
      /\ DroppedIds(dropped) = {}
  BY <1>1, <1>2, <1>3, <1>4 DEF Ids, OutIds, MatchedIds, DroppedIds
<1>6. Once(orderMail) /\ Once(engineCh) /\ OutOnce(outbox) /\ MatchedOnce(matched)
  BY <1>1, <1>2, <1>3, <1>4 DEF Once, OutOnce, MatchedOnce
<1> QED BY <1>5, <1>6 DEF OnePlace, Apart

LEMMA PlacesStep ==
  ASSUME ClusterTypes, OnePlace, [ClusterNext]_clusterVars
  PROVE  OnePlace'
<1> DEFINE O == OutIds(outbox)
           E == Ids(orderMail)
           C == Ids(engineCh)
           M == MatchedIds(matched)
           D == DroppedIds(dropped)
           N == Len(placed)
<1>0. /\ placed \in Seq([stock : Stocks, origin : Instances])
      /\ outbox \in [Instances -> Seq(Message)]
      /\ orderMail \in Queues /\ engineCh \in Queues
      /\ matched \in Seq([order : Nat, by : Instances])
      /\ eventBus \in [Instances -> Seq(Nat)]
      /\ N \in Nat
  BY DEF ClusterTypes
<1>a. /\ Once(orderMail) /\ Once(engineCh) /\ OutOnce(outbox) /\ MatchedOnce(matched)
      /\ Apart(O, E, C, M, D, N)
  BY DEF OnePlace
<1>b. SUFFICES /\ Once(orderMail') /\ Once(engineCh') /\ OutOnce(outbox') /\ MatchedOnce(matched')
               /\ Apart(OutIds(outbox'), Ids(orderMail'), Ids(engineCh'), MatchedIds(matched'),
                        DroppedIds(dropped'), Len(placed'))
  BY DEF OnePlace
<1> DEFINE Goal ==
             /\ Once(orderMail') /\ Once(engineCh') /\ OutOnce(outbox') /\ MatchedOnce(matched')
             /\ Apart(OutIds(outbox'), Ids(orderMail'), Ids(engineCh'), MatchedIds(matched'),
                      DroppedIds(dropped'), Len(placed'))
<1>1. ASSUME IdleStep PROVE Goal
  <2>1. UNCHANGED <<placed, outbox, orderMail, engineCh, matched, dropped>>
    BY <1>1, IdleFrame DEF messageVars, engineVars
  <2> QED BY <2>1, <1>a
<1>2. ASSUME NEW n \in Instances, NEW s \in Stocks, PlaceOrder(n, s) PROVE Goal
  <2> DEFINE o == Len(placed')
  <2>1. o \in Nat /\ o = N + 1
    BY <1>2, <1>0, GrowPlaced DEF PlaceOrder
  <2>2. SubmitOrder(n, o) /\ UNCHANGED <<orderMail, matched>>
    BY <1>2 DEF PlaceOrder
  <2> HIDE DEF o, O, E, C, M, D, N
  <2>3. o \notin O /\ o \notin E /\ o \notin C /\ o \notin M /\ o \notin D
    BY <2>1, <1>0, <1>a DEF Apart
  <2>4. CASE EngineSubmit(n, o) /\ UNCHANGED outbox
    <3>1. /\ Once(engineCh')
          /\ \/ Ids(engineCh') = C \cup {o} /\ DroppedIds(dropped') = D
             \/ Ids(engineCh') = C /\ DroppedIds(dropped') = D \cup {o}
      BY <2>1, <2>3, <2>4, <1>a, SubmitPlaces DEF C, D
    <3>2. Apart(O, E, Ids(engineCh'), M, DroppedIds(dropped'), o)
      BY <3>1, <2>1, <2>3, <1>0, <1>a DEF Apart
    <3> QED BY <3>1, <3>2, <2>2, <2>4, <1>a DEF O, E, M, o
  <2>5. CASE /\ outbox' = [outbox EXCEPT ![n] = Append(@, OrderMessage(o))]
             /\ UNCHANGED <<engineCh, dropped>>
    <3>1. /\ OrderMessage(o) \in Message
          /\ OrderMessage(o).kind = "order" /\ OrderMessage(o).id = o
      BY <2>1 DEF OrderMessage, Message
    <3>2. OutIds(outbox') = O \cup {o} /\ OutOnce(outbox')
      <4>1. OutPushed(outbox, outbox', n, OrderMessage(o))
        BY <3>1, <2>5, <1>0, PushOutbox
      <4> QED BY <4>1, <3>1, <2>3, <1>a DEF OutPushed, O
    <3>3. Apart(OutIds(outbox'), E, C, M, D, o)
      BY <3>2, <2>1, <2>3, <1>0, <1>a DEF Apart
    <3> QED BY <3>2, <3>3, <2>2, <2>5, <1>a DEF E, C, M, D, o
  <2> QED BY <2>2, <2>4, <2>5 DEF SubmitOrder
<1>3. ASSUME NEW n \in Instances, NEW s \in Stocks, MatchOrder(n, s) PROVE Goal
  <2> DEFINE o == Head(engineCh[n][s])
  <2>1. engineCh[n][s] # <<>> /\ engineCh' = [engineCh EXCEPT ![n][s] = Tail(@)]
        /\ matched' = Append(matched, [order |-> o, by |-> n])
        /\ UNCHANGED <<placed, outbox, orderMail, dropped>>
    BY <1>3 DEF MatchOrder, messageVars
  <2>2. Popped(engineCh, engineCh', n, s)
    BY <2>1, <1>0, PopQueue
  <2>3. Once(engineCh') /\ Ids(engineCh') = C \ {o} /\ o \in C /\ o \in Nat
    BY <2>2, <1>a DEF Popped, Ids
  <2> HIDE DEF o, O, E, C, M, D, N
  <2>4. o \notin M
    BY <2>3, <1>a DEF Apart
  <2>5. MatchedIds(matched') = M \cup {o} /\ MatchedOnce(matched')
    <3>1. Grown(matched, matched', o, n)
      BY <2>1, <2>3, <1>0, GrowMatched
    <3> QED BY <3>1, <2>4, <1>a DEF Grown, M
  <2>6. Apart(O, E, Ids(engineCh'), MatchedIds(matched'), D, N)
    BY <2>3, <2>5, <1>a DEF Apart
  <2> QED BY <2>1, <2>3, <2>5, <2>6, <1>a DEF O, E, D, N
<1>4. ASSUME NEW n \in Instances, NEW s \in Stocks, TakeOrder(n, s) PROVE Goal
  <2> DEFINE o == Head(orderMail[n][s])
  <2>1. orderMail[n][s] # <<>> /\ orderMail' = [orderMail EXCEPT ![n][s] = Tail(@)]
        /\ EngineSubmit(n, o)
        /\ UNCHANGED <<placed, outbox, matched>>
    BY <1>4 DEF TakeOrder
  <2>2. Popped(orderMail, orderMail', n, s)
    BY <2>1, <1>0, PopQueue
  <2>3. Once(orderMail') /\ Ids(orderMail') = E \ {o} /\ o \in E /\ o \in Nat
    BY <2>2, <1>a DEF Popped, Ids
  <2> HIDE DEF o, O, E, C, M, D, N
  <2>4. o \notin C
    BY <2>3, <1>a DEF Apart
  <2>5. /\ Once(engineCh')
        /\ \/ Ids(engineCh') = C \cup {o} /\ DroppedIds(dropped') = D
           \/ Ids(engineCh') = C /\ DroppedIds(dropped') = D \cup {o}
    BY <2>1, <2>3, <2>4, <1>a, SubmitPlaces DEF C, D
  <2>6. Apart(O, Ids(orderMail'), Ids(engineCh'), M, DroppedIds(dropped'), N)
    BY <2>3, <2>5, <1>a DEF Apart
  <2> QED BY <2>1, <2>3, <2>5, <2>6, <1>a DEF O, M, N
<1>5. ASSUME NEW n \in Instances, EndStep(n) PROVE Goal
  <2>1. PICK end \in {"down", "panicked"}, why \in {"crash", "panic", "unsubscribed"} :
          Gone(n, end, why)
    BY <1>5, EndIsGone
  <2>2. /\ orderMail' = [orderMail EXCEPT ![n] = NoMail]
        /\ engineCh' = [engineCh EXCEPT ![n] = NoMail]
        /\ dropped' = dropped \cup [order : Held(n), why : {why}]
        /\ UNCHANGED <<placed, outbox, matched>>
    BY <2>1 DEF Gone
  <2>3. /\ Once(orderMail') /\ \A o \in Ids(orderMail') : o \in E
        /\ \A t \in Stocks : \A i \in 1..Len(orderMail[n][t]) :
             orderMail[n][t][i] \notin Ids(orderMail')
    <3>1. Cleared(orderMail, orderMail', n)
      BY <2>2, <1>0, ClearQueue
    <3> QED BY <3>1, <1>a DEF Cleared
  <2>4. /\ Once(engineCh') /\ \A o \in Ids(engineCh') : o \in C
        /\ \A t \in Stocks : \A i \in 1..Len(engineCh[n][t]) :
             engineCh[n][t][i] \notin Ids(engineCh')
    <3>1. Cleared(engineCh, engineCh', n)
      BY <2>2, <1>0, ClearQueue
    <3> QED BY <3>1, <1>a DEF Cleared
  <2>5. \A o \in Held(n) : /\ o \in E \/ o \in C
                           /\ o \in E => o \notin C
    <3>1. \A o \in Held(n) : o \in E \/ o \in C
      BY <1>0, HeldIs, InQueueIds
    <3> HIDE DEF O, E, C, M, D, N
    <3> QED BY <3>1, <1>a DEF Apart
  <2>6. \A o \in Held(n) : o \notin Ids(orderMail') /\ o \notin Ids(engineCh')
    <3> SUFFICES ASSUME NEW o \in Held(n) PROVE o \notin Ids(orderMail') /\ o \notin Ids(engineCh')
      OBVIOUS
    <3>1. PICK t \in Stocks : InQueue(orderMail, n, t, o) \/ InQueue(engineCh, n, t, o)
      BY <1>0, HeldIs
    <3>2. CASE InQueue(orderMail, n, t, o)
      <4>1. o \in E
        BY <3>2, <1>0, InQueueIds
      <4>2. o \notin Ids(orderMail')
        BY <3>2, <2>3 DEF InQueue
      <4> QED BY <4>1, <4>2, <2>4, <2>5
    <3>3. CASE InQueue(engineCh, n, t, o)
      <4>1. o \in C
        BY <3>3, <1>0, InQueueIds
      <4>2. o \notin Ids(engineCh')
        BY <3>3, <2>4 DEF InQueue
      <4> QED BY <4>1, <4>2, <2>3, <2>5
    <3> QED BY <3>1, <3>2, <3>3
  <2>7. DroppedIds(dropped') = D \cup Held(n)
    <3>1. Held(n) \subseteq Nat
      BY <1>0, HeldNat
    <3> QED BY <3>1, <2>2, DropAll
  <2> HIDE DEF O, E, C, M, D, N
  <2>8. Apart(O, Ids(orderMail'), Ids(engineCh'), M, DroppedIds(dropped'), N)
    BY <2>3, <2>4, <2>5, <2>6, <2>7, <1>a DEF Apart
  <2> QED BY <2>2, <2>3, <2>4, <2>8, <1>a DEF O, M, N
<1>6. ASSUME NEW n \in Instances, HandleEvent(n) PROVE Goal
  <2>1. UNCHANGED <<placed, orderMail, engineCh, matched, dropped>>
    BY <1>6 DEF HandleEvent
  <2>2. CASE outbox' = outbox
    BY <2>1, <2>2, <1>a
  <2>3. CASE outbox' = [outbox EXCEPT ![n] = Append(@, EventMessage(Head(eventBus[n])))]
    <3>1. Head(eventBus[n]) \in Nat
      BY <1>6, <1>0 DEF HandleEvent
    <3>2. /\ EventMessage(Head(eventBus[n])) \in Message
          /\ EventMessage(Head(eventBus[n])).kind # "order"
      BY <3>1 DEF EventMessage, Message
    <3>3. OutIds(outbox') = O /\ OutOnce(outbox')
      <4>1. OutPushed(outbox, outbox', n, EventMessage(Head(eventBus[n])))
        BY <3>2, <2>3, <1>0, PushOutbox
      <4> QED BY <4>1, <3>2, <1>a DEF OutPushed
    <3> QED BY <2>1, <3>3, <1>a
  <2> QED BY <1>6, <2>2, <2>3 DEF HandleEvent
<1>7. ASSUME NEW n \in Instances, TakeEvent(n) \/ CopyStep(n) PROVE Goal
  <2>1. UNCHANGED <<placed, outbox, orderMail, engineCh, matched, dropped>>
    BY <1>7 DEF TakeEvent, CopyStep, RouteCopy, engineVars
  <2> QED BY <2>1, <1>a
<1>8. ASSUME NEW n \in Instances, RouteOrder(n) PROVE Goal
  <2> DEFINE o == Head(outbox[n]).id
  <2>1. /\ outbox[n] # <<>> /\ outbox' = [outbox EXCEPT ![n] = Tail(@)]
        /\ Head(outbox[n]).kind = "order"
        /\ UNCHANGED <<placed, engineCh, matched>>
    BY <1>8 DEF RouteOrder, engineVars
  <2>2. OutPopped(outbox, outbox', n)
    BY <2>1, <1>0, PopOutbox
  <2>3. OutOnce(outbox') /\ o \in O /\ o \notin OutIds(outbox') /\ OutIds(outbox') \subseteq O
    BY <2>1, <2>2, <1>a DEF OutPopped
  <2>4. o \in Nat /\ placed[o].stock \in Stocks
    <3>1. o \in 1..N /\ o \in Nat
      BY <2>3, <1>a DEF Apart, OutIds
    <3> HIDE DEF o
    <3> QED BY <3>1, <1>0, PlacedOrder
  <2>5. \/ dropped' = dropped \cup {[order |-> o, why |-> "no owner"]} /\ UNCHANGED orderMail
        \/ /\ UNCHANGED dropped
           /\ \E m \in Instances :
                orderMail' = [orderMail EXCEPT ![m][placed[o].stock] = Append(@, o)]
    BY <1>8 DEF RouteOrder, QueueGroup
  <2> HIDE DEF o, O, E, C, M, D, N
  <2>6. CASE dropped' = dropped \cup {[order |-> o, why |-> "no owner"]} /\ UNCHANGED orderMail
    <3>1. DroppedIds(dropped') = D \cup {o}
      BY <2>4, <2>6, DropOne DEF D
    <3>2. Apart(OutIds(outbox'), E, C, M, DroppedIds(dropped'), N)
      BY <3>1, <2>3, <1>a DEF Apart
    <3> QED BY <3>2, <2>1, <2>3, <2>6, <1>a DEF E, C, M, N
  <2>7. ASSUME NEW m \in Instances, UNCHANGED dropped,
               orderMail' = [orderMail EXCEPT ![m][placed[o].stock] = Append(@, o)]
        PROVE  Goal
    <3>1. o \notin E
      BY <2>3, <1>a DEF Apart
    <3>2. Ids(orderMail') = E \cup {o} /\ Once(orderMail')
      <4>1. Pushed(orderMail, orderMail', m, placed[o].stock, o)
        BY <2>4, <2>7, <1>0, PushQueue
      <4> QED BY <4>1, <3>1, <1>a DEF Pushed, E
    <3>3. Apart(OutIds(outbox'), Ids(orderMail'), C, M, D, N)
      BY <3>2, <2>3, <1>a DEF Apart
    <3> QED BY <3>2, <3>3, <2>1, <2>3, <2>7, <1>a DEF C, M, D, N
  <2> QED BY <2>5, <2>6, <2>7
<1>9. ASSUME NEW n \in Instances, RouteEvent(n) PROVE Goal
  <2>1. /\ outbox[n] # <<>> /\ outbox' = [outbox EXCEPT ![n] = Tail(@)]
        /\ UNCHANGED <<placed, orderMail, engineCh, matched, dropped>>
    BY <1>9 DEF RouteEvent, engineVars
  <2>2. OutPopped(outbox, outbox', n)
    BY <2>1, <1>0, PopOutbox
  <2>3. OutOnce(outbox') /\ OutIds(outbox') \subseteq O
    BY <2>2, <1>a DEF OutPopped
  <2> HIDE DEF O, E, C, M, D, N
  <2>4. Apart(OutIds(outbox'), E, C, M, D, N)
    BY <2>3, <1>a DEF Apart
  <2> QED BY <2>1, <2>3, <2>4, <1>a DEF E, C, M, D, N
<1>10. ASSUME NEW n \in Instances, LoseMessage(n) PROVE Goal
  <2> DEFINE o == Head(outbox[n]).id
  <2>1. /\ outbox[n] # <<>> /\ outbox' = [outbox EXCEPT ![n] = Tail(@)]
        /\ UNCHANGED <<placed, orderMail, engineCh, matched>>
        /\ dropped' = IF Head(outbox[n]).kind = "order"
                      THEN dropped \cup {[order |-> o, why |-> "in flight"]} ELSE dropped
    BY <1>10 DEF LoseMessage, engineVars
  <2>2. OutPopped(outbox, outbox', n)
    BY <2>1, <1>0, PopOutbox
  <2>3. OutOnce(outbox') /\ OutIds(outbox') \subseteq O
    BY <2>2, <1>a DEF OutPopped
  <2>4. CASE Head(outbox[n]).kind = "order"
    <3>1. o \in O /\ o \notin OutIds(outbox') /\ o \in Nat
      BY <2>2, <2>4, <1>a DEF OutPopped, OutIds
    <3>2. DroppedIds(dropped') = D \cup {o}
      <4>1. dropped' = dropped \cup {[order |-> o, why |-> "in flight"]}
        BY <2>1, <2>4
      <4> QED BY <4>1, <3>1, DropOne
    <3> HIDE DEF o, O, E, C, M, D, N
    <3>3. Apart(OutIds(outbox'), E, C, M, DroppedIds(dropped'), N)
      BY <3>1, <3>2, <2>3, <1>a DEF Apart
    <3> QED BY <3>3, <2>1, <2>3, <1>a DEF E, C, M, N
  <2>5. CASE Head(outbox[n]).kind # "order"
    <3> HIDE DEF O, E, C, M, D, N
    <3>1. Apart(OutIds(outbox'), E, C, M, D, N)
      BY <2>3, <1>a DEF Apart
    <3> QED BY <3>1, <2>1, <2>3, <2>5, <1>a DEF E, C, M, D, N
  <2> QED BY <2>4, <2>5
<1> QED BY StepCases, <1>1, <1>2, <1>3, <1>4, <1>5, <1>6, <1>7, <1>8, <1>9, <1>10

-----------------------------------------------------------------------------
(***************************************************************************)
(* A loss has a cause.                                                     *)
(***************************************************************************)
\* main connects every instance, or counts a fault.
LEMMA HealthyInit == ClusterInit => Healthy
<1> SUFFICES ASSUME ClusterInit PROVE Healthy
  OBVIOUS
<1>1. IsFiniteSet(Instances)
  BY FS_Interval, ClusterAssumption DEF Instances
<1> DEFINE Off(up) == {n \in Instances : ~up[n]}
<1>2. ASSUME NEW up PROVE Missing(up) \in Nat /\ (config.fanout = "nats" /\ Missing(up) = 0 =>
                                                    \A n \in Instances : up[n])
  <2>1. IsFiniteSet(Off(up))
    BY <1>1, FS_Subset
  <2>2. Cardinality(Off(up)) \in Nat /\ (Cardinality(Off(up)) = 0 => Off(up) = {})
    BY <2>1, FS_CardinalityType, FS_EmptySet
  <2>3. CASE config.fanout = "nats"
    BY <2>2, <2>3 DEF Missing
  <2>4. CASE config.fanout # "nats"
    BY <2>4 DEF Missing
  <2> QED BY <2>3, <2>4
<1>3. faults = Missing(pubUp) + Missing(subUp)
  BY DEF ClusterInit
<1>4. faults \in Nat /\ (faults = 0 => Missing(pubUp) = 0 /\ Missing(subUp) = 0)
  BY <1>2, <1>3
<1>5. ASSUME NEW n \in Instances PROVE phase[n] = "up" /\ (config.fanout = "nats" => linked[n])
  BY DEF ClusterInit
<1>6. ValidConfig(config)
  BY DEF ClusterInit
<1> QED BY <1>2, <1>4, <1>5, <1>6 DEF Healthy

\* The steps that do not touch an instance's connections or phase.
LEMMA HealthyFrame ==
  ASSUME Healthy, UNCHANGED <<config, nodeVars>>
  PROVE  Healthy'
BY DEF Healthy, ValidConfig, nodeVars

LEMMA HealthyStep ==
  ASSUME Healthy, [ClusterNext]_clusterVars
  PROVE  Healthy' /\ config' = config
<1> DEFINE Goal == Healthy' /\ config' = config
<1>0. faults \in Nat
  BY DEF Healthy
<1>1. ASSUME IdleStep PROVE Goal
  <2>1. config' = config
    BY <1>1, IdleFrame
  <2>2. ASSUME NEW n \in Instances, Unlink(n) \/ Sigterm(n) \/ ResendEvent(n) PROVE Goal
    <3>1. faults' = faults + 1
      BY <2>2 DEF Unlink, Sigterm, ResendEvent, Fault
    <3> QED BY <3>1, <2>1, <1>0 DEF Healthy, ValidConfig
  <2>3. ASSUME NEW n \in Instances, Restart(n) \/ EngineStop(n) PROVE Goal
    <3>1. phase[n] # "up" /\ (faults' = faults \/ faults' = faults + 1)
      BY <2>3 DEF Restart, EngineStop
    <3>2. faults # 0
      BY <3>1 DEF Healthy
    <3> QED BY <3>1, <3>2, <2>1, <1>0 DEF Healthy, ValidConfig
  <2>4. ASSUME NEW n \in Instances, Relink(n) PROVE Goal
    <3>1. /\ UNCHANGED <<config, phase, pubUp, subUp, faults>> /\ ~linked[n]
      BY <2>4 DEF Relink
    <3>2. faults = 0 => config.fanout # "nats"
      BY <3>1 DEF Healthy
    <3> QED BY <3>1, <3>2 DEF Healthy, ValidConfig
  <2>5. CASE UNCHANGED clusterVars \/ AllQuiet
    <3>1. UNCHANGED <<config, nodeVars>>
      BY <2>5 DEF clusterVars, AllQuiet
    <3> QED BY <3>1, HealthyFrame
  <2> QED BY <1>1, <2>2, <2>3, <2>4, <2>5 DEF IdleStep
<1>2. ASSUME NEW n \in Instances, NEW s \in Stocks,
             PlaceOrder(n, s) \/ MatchOrder(n, s) \/ TakeOrder(n, s)
      PROVE  Goal
  BY <1>2, HealthyFrame DEF PlaceOrder, MatchOrder, TakeOrder
<1>3. ASSUME NEW n \in Instances, EndStep(n) PROVE Goal
  <2>1. config' = config
    BY <1>3, EndIsGone DEF Gone
  <2>2. (faults' = faults /\ phase[n] = "closed") \/ faults' = faults + 1
    BY <1>3, EndIsGone
  <2>3. faults' \in Nat /\ faults' # 0
    BY <2>2, <1>0 DEF Healthy
  <2> QED BY <2>1, <2>3 DEF Healthy, ValidConfig
<1>4. ASSUME NEW n \in Instances,
             HandleEvent(n) \/ TakeEvent(n) \/ CopyStep(n) \/ RouteOrder(n) \/ RouteEvent(n)
      PROVE  Goal
  BY <1>4, HealthyFrame DEF HandleEvent, TakeEvent, CopyStep, RouteCopy, RouteOrder, RouteEvent
<1>5. ASSUME NEW n \in Instances, LoseMessage(n) PROVE Goal
  <2>1. faults' = faults + 1 /\ config' = config
    BY <1>5 DEF LoseMessage, Fault
  <2> QED BY <2>1, <1>0 DEF Healthy, ValidConfig
<1> QED BY StepCases, <1>1, <1>2, <1>3, <1>4, <1>5

\* Who owns a stock depends on the configuration only.
LEMMA SameOwners ==
  ASSUME config' = config
  PROVE  /\ \A n, s : OwnsStock(n, s)' <=> OwnsStock(n, s)
         /\ \A n : EngineStocks(n)' = EngineStocks(n)
BY DEF OwnsStock, EngineStocks, OwnedStocks

\* Every order on its way was placed.
LEMMA WasPlaced ==
  ASSUME ClusterTypes, OnePlace
  PROVE  /\ \A n \in Instances : \A i \in 1..Len(outbox[n]) :
              outbox[n][i].kind = "order" =>
                outbox[n][i].id \in 1..Len(placed) /\ outbox[n][i].id \in OutIds(outbox)
         /\ \A n \in Instances, s \in Stocks : \A i \in 1..Len(orderMail[n][s]) :
              orderMail[n][s][i] \in 1..Len(placed) /\ orderMail[n][s][i] \in Ids(orderMail)
         /\ \A n \in Instances, s \in Stocks : \A i \in 1..Len(engineCh[n][s]) :
              engineCh[n][s][i] \in 1..Len(placed) /\ engineCh[n][s][i] \in Ids(engineCh)
         /\ \A i \in 1..Len(matched) :
              matched[i].order \in 1..Len(placed) /\ matched[i].order \in MatchedIds(matched)
<1>0. /\ \A o \in OutIds(outbox) : o \in 1..Len(placed)
      /\ \A o \in Ids(orderMail) : o \in 1..Len(placed)
      /\ \A o \in Ids(engineCh) : o \in 1..Len(placed)
      /\ \A o \in MatchedIds(matched) : o \in 1..Len(placed)
  BY DEF OnePlace, Apart
<1>1. ASSUME NEW n \in Instances, NEW i \in 1..Len(outbox[n]), outbox[n][i].kind = "order"
      PROVE  outbox[n][i].id \in OutIds(outbox)
  <2>1. outbox[n][i] \in Message
    BY DEF ClusterTypes
  <2>2. outbox[n][i] = OrderMessage(outbox[n][i].id) /\ outbox[n][i].id \in Nat
    BY <2>1, <1>1 DEF Message, OrderMessage
  <2> QED BY <2>2 DEF OutIds
<1>2. ASSUME NEW Q \in Queues, NEW n \in Instances, NEW s \in Stocks, NEW i \in 1..Len(Q[n][s])
      PROVE  Q[n][s][i] \in Ids(Q)
  <2>1. Q[n][s][i] \in Nat
    BY DEF Queues
  <2> QED BY <2>1 DEF Ids
<1>3. orderMail \in Queues /\ engineCh \in Queues
  BY DEF ClusterTypes
<1>4. ASSUME NEW i \in 1..Len(matched) PROVE matched[i].order \in MatchedIds(matched)
  <2> DEFINE T == [order : Nat, by : Instances]
  <2>1. matched \in Seq(T)
    BY DEF ClusterTypes
  <2> HIDE DEF T
  <2>2. matched[i] \in T
    BY <2>1
  <2>3. matched[i].order \in Nat
    BY <2>2 DEF T
  <2> QED BY <2>3 DEF MatchedIds
<1> QED BY <1>0, <1>1, <1>2, <1>3, <1>4

\* Routing survives as more orders are placed.
LEMMA RoutedGrows ==
  ASSUME ClusterTypes, OnePlace, Routed, NEW P, \A o \in 1..Len(placed) : P[o] = placed[o]
  PROVE  /\ OutRouted(P, outbox) /\ MailRouted(P, orderMail)
         /\ EngineRouted(P, engineCh) /\ MatchedRouted(P, matched)
<1>1. OutRouted(P, outbox)
  BY WasPlaced DEF Routed, OutRouted
<1>2. MailRouted(P, orderMail)
  BY WasPlaced DEF Routed, MailRouted
<1>3. EngineRouted(P, engineCh)
  BY WasPlaced DEF Routed, EngineRouted
<1>4. MatchedRouted(P, matched)
  BY WasPlaced DEF Routed, MatchedRouted
<1> QED BY <1>1, <1>2, <1>3, <1>4

\* Engine.SubmitOrder keeps the channels routed.
LEMMA SubmitRouted ==
  ASSUME engineCh \in Queues, NEW n \in Instances, NEW o \in Nat, EngineSubmit(n, o),
         EngineRouted(placed', engineCh)
  PROVE  EngineRouted(placed', engineCh')
<1>1. CASE engineCh' = engineCh
  BY <1>1
<1>2. CASE /\ placed'[o].stock \in EngineStocks(n)
           /\ engineCh' = [engineCh EXCEPT ![n][placed'[o].stock] = Append(@, o)]
  <2>1. Pushed(engineCh, engineCh', n, placed'[o].stock, o)
    BY <1>2, PushQueue, EngineStocksAre
  <2>2. \A m \in Instances, t \in Stocks : \A i \in 1..Len(engineCh'[m][t]) :
          \/ i \in 1..Len(engineCh[m][t]) /\ engineCh'[m][t][i] = engineCh[m][t][i]
          \/ m = n /\ t = placed'[o].stock /\ engineCh'[m][t][i] = o
    BY <2>1 DEF Pushed
  <2> HIDE DEF EngineStocks
  <2> QED BY <2>2, <1>2 DEF EngineRouted
<1> QED BY <1>1, <1>2, SubmitEffect

\* Every order in the queues R is in the same queue of Q.
Kept(Q, R) ==
  \A m \in Instances, t \in Stocks : \A i \in 1..Len(R[m][t]) :
    \E k \in 1..Len(Q[m][t]) : R[m][t][i] = Q[m][t][k]

LEMMA PoppedKept ==
  ASSUME NEW Q, NEW R, NEW n, NEW s, Popped(Q, R, n, s)
  PROVE  Kept(Q, R)
<1> SUFFICES ASSUME NEW m \in Instances, NEW t \in Stocks, NEW i \in 1..Len(R[m][t])
             PROVE  \E k \in 1..Len(Q[m][t]) : R[m][t][i] = Q[m][t][k]
  BY DEF Kept
<1>1. LET k == IF m = n /\ t = s THEN i + 1 ELSE i IN
      k \in 1..Len(Q[m][t]) /\ R[m][t][i] = Q[m][t][k]
  BY DEF Popped
<1> QED BY <1>1

LEMMA KeptRouted ==
  ASSUME NEW P, NEW Q, NEW R, Kept(Q, R)
  PROVE  /\ MailRouted(P, Q) => MailRouted(P, R)
         /\ EngineRouted(P, Q) => EngineRouted(P, R)
<1>1. ASSUME MailRouted(P, Q) PROVE MailRouted(P, R)
  BY <1>1 DEF Kept, MailRouted
<1>2. ASSUME EngineRouted(P, Q) PROVE EngineRouted(P, R)
  BY <1>2 DEF Kept, EngineRouted
<1> QED BY <1>1, <1>2

LEMMA RoutedInit == ClusterInit => Routed
<1> SUFFICES ASSUME ClusterInit PROVE Routed
  OBVIOUS
<1>1. \A n \in Instances, s \in Stocks : Len(orderMail[n][s]) = 0 /\ Len(engineCh[n][s]) = 0
  BY DEF ClusterInit, NoMail
<1>2. \A n \in Instances : Len(outbox[n]) = 0
  BY DEF ClusterInit
<1>3. Len(matched) = 0
  BY DEF ClusterInit
<1>4. \A i : i \notin 1..0
  OBVIOUS
<1> QED BY <1>1, <1>2, <1>3, <1>4 DEF Routed, OutRouted, MailRouted, EngineRouted, MatchedRouted

LEMMA RoutedStep ==
  ASSUME ClusterTypes, OnePlace, Routed, [ClusterNext]_clusterVars, config' = config
  PROVE  Routed'
<1> DEFINE Goal == /\ OutRouted(placed', outbox') /\ MailRouted(placed', orderMail')
                   /\ EngineRouted(placed', engineCh') /\ MatchedRouted(placed', matched')
<1>0. /\ placed \in Seq([stock : Stocks, origin : Instances])
      /\ outbox \in [Instances -> Seq(Message)]
      /\ orderMail \in Queues /\ engineCh \in Queues
      /\ matched \in Seq([order : Nat, by : Instances])
      /\ eventBus \in [Instances -> Seq(Nat)]
  BY DEF ClusterTypes
<1>a. /\ OutRouted(placed, outbox) /\ MailRouted(placed, orderMail)
      /\ EngineRouted(placed, engineCh) /\ MatchedRouted(placed, matched)
  BY DEF Routed
<1>b. ASSUME Goal PROVE Routed'
  BY <1>b, SameOwners DEF Routed, OutRouted, MailRouted, EngineRouted, MatchedRouted
<1>1. ASSUME IdleStep PROVE Goal
  <2>1. UNCHANGED <<placed, outbox, orderMail, engineCh, matched>>
    BY <1>1, IdleFrame DEF messageVars, engineVars
  <2> QED BY <2>1, <1>a
<1>2. ASSUME NEW n \in Instances, NEW s \in Stocks, PlaceOrder(n, s) PROVE Goal
  <2> DEFINE o == Len(placed')
  <2>1. o \in Nat /\ o = Len(placed) + 1 /\ placed'[o].stock = s /\ placed'[o].origin = n
        /\ \A p \in 1..Len(placed) : placed'[p] = placed[p]
    BY <1>2, <1>0, GrowPlaced DEF PlaceOrder
  <2>2. SubmitOrder(n, o) /\ UNCHANGED <<orderMail, matched>>
    BY <1>2 DEF PlaceOrder
  <2> HIDE DEF o
  <2>3. /\ OutRouted(placed', outbox) /\ MailRouted(placed', orderMail)
        /\ EngineRouted(placed', engineCh) /\ MatchedRouted(placed', matched)
    BY <2>1, RoutedGrows
  <2>4. CASE EngineSubmit(n, o) /\ UNCHANGED outbox
    <3>1. EngineRouted(placed', engineCh')
      BY <2>1, <2>3, <2>4, <1>0, SubmitRouted
    <3> QED BY <3>1, <2>2, <2>3, <2>4
  <2>5. CASE /\ outbox' = [outbox EXCEPT ![n] = Append(@, OrderMessage(o))]
             /\ UNCHANGED <<engineCh, dropped>>
             /\ HasRouter(n) /\ ~OwnsStock(n, s)
    <3>1. OrderMessage(o) \in Message /\ OrderMessage(o).id = o
      BY <2>1 DEF OrderMessage, Message
    <3>2. OutPushed(outbox, outbox', n, OrderMessage(o))
      BY <3>1, <2>5, <1>0, PushOutbox
    <3>3. \A m \in Instances : \A i \in 1..Len(outbox'[m]) :
            \/ i \in 1..Len(outbox[m]) /\ outbox'[m][i] = outbox[m][i]
            \/ m = n /\ outbox'[m][i].id = o
      BY <3>1, <3>2 DEF OutPushed
    <3>4. config.partition
      BY <2>5 DEF HasRouter
    <3>5. OutRouted(placed', outbox')
      BY <3>3, <3>4, <2>1, <2>3, <2>5 DEF OutRouted
    <3> QED BY <3>5, <2>2, <2>3, <2>5
  <2> QED BY <2>1, <2>2, <2>4, <2>5 DEF SubmitOrder
<1>3. ASSUME NEW n \in Instances, NEW s \in Stocks, MatchOrder(n, s) PROVE Goal
  <2> DEFINE o == Head(engineCh[n][s])
  <2>1. engineCh[n][s] # <<>> /\ engineCh' = [engineCh EXCEPT ![n][s] = Tail(@)]
        /\ matched' = Append(matched, [order |-> o, by |-> n])
        /\ UNCHANGED <<placed, outbox, orderMail>>
    BY <1>3 DEF MatchOrder, messageVars
  <2>2. Popped(engineCh, engineCh', n, s)
    BY <2>1, <1>0, PopQueue
  <2>3. o = engineCh[n][s][1] /\ 1 \in 1..Len(engineCh[n][s]) /\ o \in Nat
    BY <2>2 DEF Popped, Ids
  <2>4. EngineRouted(placed', engineCh')
    BY <2>1, <2>2, <1>a, PoppedKept, KeptRouted
  <2>5. placed[o].stock \in EngineStocks(n)
    BY <2>3, <1>a DEF EngineRouted
  <2> HIDE DEF o
  <2>6. Grown(matched, matched', o, n)
    BY <2>1, <2>3, <1>0, GrowMatched
  <2>7. \A i \in 1..Len(matched') : \/ i \in 1..Len(matched) /\ matched'[i] = matched[i]
                                    \/ matched'[i].order = o /\ matched'[i].by = n
    BY <2>6 DEF Grown
  <2>8. MatchedRouted(placed', matched')
    BY <2>1, <2>5, <2>7, <1>a DEF MatchedRouted
  <2> QED BY <2>1, <2>4, <2>8, <1>a
<1>4. ASSUME NEW n \in Instances, NEW s \in Stocks, TakeOrder(n, s) PROVE Goal
  <2> DEFINE o == Head(orderMail[n][s])
  <2>1. orderMail[n][s] # <<>> /\ orderMail' = [orderMail EXCEPT ![n][s] = Tail(@)]
        /\ EngineSubmit(n, o)
        /\ UNCHANGED <<placed, outbox, matched>>
    BY <1>4 DEF TakeOrder
  <2>2. Popped(orderMail, orderMail', n, s)
    BY <2>1, <1>0, PopQueue
  <2>3. o \in Nat
    BY <2>2 DEF Popped, Ids
  <2>4. MailRouted(placed', orderMail')
    BY <2>1, <2>2, <1>a, PoppedKept, KeptRouted
  <2>5. EngineRouted(placed', engineCh')
    BY <2>1, <2>3, <1>0, <1>a, SubmitRouted
  <2> QED BY <2>1, <2>4, <2>5, <1>a
<1>5. ASSUME NEW n \in Instances, EndStep(n) PROVE Goal
  <2>1. PICK end \in {"down", "panicked"}, why \in {"crash", "panic", "unsubscribed"} :
          Gone(n, end, why)
    BY <1>5, EndIsGone
  <2>2. Cleared(orderMail, orderMail', n) /\ Cleared(engineCh, engineCh', n)
        /\ UNCHANGED <<placed, outbox, matched>>
    BY <2>1, <1>0, ClearQueue DEF Gone
  <2>3. MailRouted(placed', orderMail')
    BY <2>2, <1>a DEF Cleared, MailRouted
  <2>4. EngineRouted(placed', engineCh')
    BY SMTT(30), <2>2, <1>a DEF Cleared, EngineRouted
  <2> QED BY <2>2, <2>3, <2>4, <1>a
<1>6. ASSUME NEW n \in Instances, HandleEvent(n) PROVE Goal
  <2>1. UNCHANGED <<placed, orderMail, engineCh, matched>>
    BY <1>6 DEF HandleEvent
  <2>2. CASE outbox' = outbox
    BY <2>1, <2>2, <1>a
  <2>3. CASE outbox' = [outbox EXCEPT ![n] = Append(@, EventMessage(Head(eventBus[n])))]
    <3>1. Head(eventBus[n]) \in Nat
      BY <1>6, <1>0 DEF HandleEvent
    <3>2. /\ EventMessage(Head(eventBus[n])) \in Message
          /\ EventMessage(Head(eventBus[n])).kind # "order"
      BY <3>1 DEF EventMessage, Message
    <3>3. OutPushed(outbox, outbox', n, EventMessage(Head(eventBus[n])))
      BY <3>2, <2>3, <1>0, PushOutbox
    <3>4. \A m \in Instances : \A i \in 1..Len(outbox'[m]) :
            \/ i \in 1..Len(outbox[m]) /\ outbox'[m][i] = outbox[m][i]
            \/ outbox'[m][i].kind # "order"
      BY <3>2, <3>3 DEF OutPushed
    <3>5. OutRouted(placed', outbox')
      BY <3>4, <2>1, <1>a DEF OutRouted
    <3> QED BY <2>1, <3>5, <1>a
  <2> QED BY <1>6, <2>2, <2>3 DEF HandleEvent
<1>7. ASSUME NEW n \in Instances, TakeEvent(n) \/ CopyStep(n) PROVE Goal
  <2>1. UNCHANGED <<placed, outbox, orderMail, engineCh, matched>>
    BY <1>7 DEF TakeEvent, CopyStep, RouteCopy, engineVars
  <2> QED BY <2>1, <1>a
<1>8. ASSUME NEW n \in Instances, RouteOrder(n) \/ RouteEvent(n) \/ LoseMessage(n)
      PROVE  OutRouted(placed', outbox')
  <2>1. /\ outbox[n] # <<>> /\ outbox' = [outbox EXCEPT ![n] = Tail(@)]
        /\ UNCHANGED placed
    BY <1>8 DEF RouteOrder, RouteEvent, LoseMessage
  <2>2. OutPopped(outbox, outbox', n)
    BY <2>1, <1>0, PopOutbox
  <2>3. \A m \in Instances : \A i \in 1..Len(outbox'[m]) :
          \E k \in 1..Len(outbox[m]) : outbox'[m][i] = outbox[m][k]
    BY <2>2 DEF OutPopped
  <2> QED BY <2>1, <2>3, <1>a DEF OutRouted
<1>9. ASSUME NEW n \in Instances, RouteEvent(n) \/ LoseMessage(n) PROVE Goal
  <2>1. UNCHANGED <<placed, orderMail, engineCh, matched>>
    BY <1>9 DEF RouteEvent, LoseMessage, engineVars
  <2> QED BY <2>1, <1>8, <1>9, <1>a
<1>10. ASSUME NEW n \in Instances, RouteOrder(n) PROVE Goal
  <2> DEFINE o == Head(outbox[n]).id
             s == placed[o].stock
  <2>1. /\ outbox[n] # <<>> /\ outbox' = [outbox EXCEPT ![n] = Tail(@)]
        /\ Head(outbox[n]).kind = "order"
        /\ UNCHANGED <<placed, engineCh, matched>>
    BY <1>10 DEF RouteOrder, engineVars
  <2>2. OutPopped(outbox, outbox', n)
    BY <2>1, <1>0, PopOutbox
  <2>3. Head(outbox[n]) = outbox[n][1] /\ 1 \in 1..Len(outbox[n])
    BY <2>2 DEF OutPopped
  <2>4. o \in 1..Len(placed) /\ o \in Nat
    BY <2>1, <2>3, WasPlaced
  <2>5. s \in Stocks
    <3> HIDE DEF o
    <3> QED BY <2>4, <1>0, PlacedOrder
  <2>6. placed[o].origin = n /\ config.partition /\ ~OwnsStock(n, s)
    BY <2>1, <2>3, <1>a DEF OutRouted
  <2>7. \/ UNCHANGED orderMail
        \/ \E m \in QueueGroup(s) : orderMail' = [orderMail EXCEPT ![m][s] = Append(@, o)]
    BY <1>10 DEF RouteOrder
  <2> HIDE DEF o, s
  <2>8. CASE UNCHANGED orderMail
    BY <2>1, <2>8, <1>8, <1>10, <1>a
  <2>9. ASSUME NEW m \in QueueGroup(s), orderMail' = [orderMail EXCEPT ![m][s] = Append(@, o)]
        PROVE  Goal
    <3>1. m \in Instances /\ OwnsStock(m, s)
      BY DEF QueueGroup
    <3>2. Pushed(orderMail, orderMail', m, s, o)
      BY <3>1, <2>4, <2>5, <2>9, <1>0, PushQueue
    <3>3. \A a \in Instances, t \in Stocks : \A i \in 1..Len(orderMail'[a][t]) :
            \/ i \in 1..Len(orderMail[a][t]) /\ orderMail'[a][t][i] = orderMail[a][t][i]
            \/ a = m /\ t = s /\ orderMail'[a][t][i] = o
      BY <3>2 DEF Pushed
    <3>4. placed[o].stock = s
      BY DEF s
    <3>5. MailRouted(placed', orderMail')
      BY SMTT(30), <3>1, <3>3, <3>4, <2>1, <2>6, <1>a DEF MailRouted
    <3> QED BY <3>5, <2>1, <1>8, <1>10, <1>a
  <2> QED BY <2>7, <2>8, <2>9
<1> QED BY StepCases, <1>b, <1>1, <1>2, <1>3, <1>4, <1>5, <1>6, <1>7, <1>9, <1>10

\* With agreed configurations and nothing failed, a stock's owner listens.
LEMMA OwnerListens ==
  ASSUME Healthy, Agreed, faults = 0, config.partition, NEW s \in Stocks
  PROVE  QueueGroup(s) # {}
<1> DEFINE w == Hash[s] % Total
<1>1. Total \in Nat /\ Total > 0 /\ Hash[s] \in Nat
  BY ClusterAssumption
<1>2. w \in Instances
  BY <1>1 DEF Instances
<1>3. config.fanout = "nats" /\ phase[w] = "up" /\ subUp[w] /\ linked[w]
  BY <1>2 DEF Healthy, ValidConfig
<1>4. Listens(w)
  BY <1>3 DEF Listens, SubscribedNATS, Running
<1>5. OwnsStock(w, s)
  BY <1>1, <1>2 DEF OwnsStock, OwnerIndex, Agreed
<1> QED BY <1>2, <1>4, <1>5 DEF QueueGroup

LEMMA CauseInit == ClusterInit => LossHasACause
BY DEF ClusterInit, LossHasACause

LEMMA CauseStep ==
  ASSUME ClusterTypes, OnePlace, Healthy, Routed, LossHasACause, [ClusterNext]_clusterVars,
         config' = config
  PROVE  LossHasACause'
<1> DEFINE Excused(w) == w = "full" \/ faults' > 0 \/ ~Agreed
           Goal == \A d \in dropped' : Excused(d.why)
<1>0. /\ placed \in Seq([stock : Stocks, origin : Instances])
      /\ outbox \in [Instances -> Seq(Message)]
      /\ orderMail \in Queues /\ engineCh \in Queues /\ faults \in Nat
  BY DEF ClusterTypes, Healthy
<1>a. \A d \in dropped : d.why = "full" \/ faults > 0 \/ ~Agreed
  BY DEF LossHasACause
<1>b. ASSUME Goal PROVE LossHasACause'
  BY <1>b DEF LossHasACause, Agreed
<1>c. ASSUME dropped' = dropped, faults' = faults \/ faults' = faults + 1 PROVE Goal
  BY <1>c, <1>0, <1>a
<1>d. ASSUME faults' = faults, NEW o, NEW w, Excused(w),
             dropped' = dropped \cup {[order |-> o, why |-> w]}
      PROVE  Goal
  BY <1>d, <1>0, <1>a
<1>1. ASSUME IdleStep PROVE Goal
  <2>1. faults' = faults \/ faults' = faults + 1
    BY <1>1 DEF IdleStep, Unlink, Relink, Restart, Sigterm, EngineStop, ResendEvent, AllQuiet,
                clusterVars, nodeVars, Fault
  <2> QED BY <2>1, <1>1, <1>c, IdleFrame
<1>2. ASSUME NEW n \in Instances, NEW s \in Stocks, PlaceOrder(n, s) PROVE Goal
  <2> DEFINE o == Len(placed')
  <2>1. placed'[o].stock = s
    BY <1>2, <1>0, GrowPlaced DEF PlaceOrder
  <2>2. SubmitOrder(n, o) /\ faults' = faults
    BY <1>2 DEF PlaceOrder, nodeVars
  <2> HIDE DEF o, Goal
  <2>3. CASE HasRouter(n) /\ ~OwnsStock(n, s)
    BY <2>1, <2>2, <2>3, <1>c DEF SubmitOrder
  <2>4. CASE ~(HasRouter(n) /\ ~OwnsStock(n, s))
    <3>1. EngineSubmit(n, o)
      BY <2>1, <2>2, <2>4 DEF SubmitOrder
    <3>2. ASSUME s \notin EngineStocks(n) PROVE faults > 0
      <4>1. config.partition /\ ~OwnsStock(n, s)
        BY <3>2 DEF EngineStocks, OwnedStocks
      <4>2. ~pubUp[n]
        BY <4>1, <2>4 DEF HasRouter
      <4>3. faults # 0
        BY <4>1, <4>2 DEF Healthy, ValidConfig
      <4> QED BY <4>3, <1>0
    <3>3. ASSUME NEW w \in {"full", "unknown stock"}, w = "full" \/ s \notin EngineStocks(n)
          PROVE  Excused(w)
      BY <3>2, <3>3, <2>2
    <3>4. \/ dropped' = dropped
          \/ dropped' = dropped \cup {[order |-> o, why |-> "full"]}
          \/ /\ s \notin EngineStocks(n)
             /\ dropped' = dropped \cup {[order |-> o, why |-> "unknown stock"]}
      BY <3>1, <2>1, SubmitEffect
    <3> HIDE DEF Excused
    <3> QED BY <3>3, <3>4, <2>2, <1>c, <1>d
  <2> QED BY <2>3, <2>4
<1>3. ASSUME NEW n \in Instances, NEW s \in Stocks, MatchOrder(n, s) PROVE Goal
  BY <1>3, <1>c DEF MatchOrder, nodeVars
<1>4. ASSUME NEW n \in Instances, NEW s \in Stocks, TakeOrder(n, s) PROVE Goal
  <2> DEFINE o == Head(orderMail[n][s])
  <2>1. orderMail[n][s] # <<>> /\ orderMail' = [orderMail EXCEPT ![n][s] = Tail(@)]
        /\ EngineSubmit(n, o) /\ placed' = placed /\ faults' = faults
    BY <1>4 DEF TakeOrder, nodeVars
  <2>2. o = orderMail[n][s][1] /\ 1 \in 1..Len(orderMail[n][s])
    BY <2>1, <1>0, PopQueue DEF Popped
  <2>3. placed[o].stock = s /\ config.partition /\ OwnsStock(n, s)
    BY <2>2 DEF Routed, MailRouted
  <2>4. s \in EngineStocks(n)
    BY <2>3 DEF EngineStocks, OwnedStocks
  <2> HIDE DEF o, Goal
  <2>5. dropped' = dropped \/ dropped' = dropped \cup {[order |-> o, why |-> "full"]}
    BY <2>1, <2>3, <2>4, SubmitEffect
  <2>6. Excused("full")
    OBVIOUS
  <2> QED BY <2>1, <2>5, <2>6, <1>c, <1>d
<1>5. ASSUME NEW n \in Instances, EndStep(n) PROVE Goal
  <2>1. (faults' = faults /\ phase[n] = "closed") \/ faults' = faults + 1
    BY <1>5, EndIsGone
  <2>2. faults' > 0
    BY <2>1, <1>0 DEF Healthy
  <2> QED BY <2>2
<1>6. ASSUME NEW n \in Instances,
             HandleEvent(n) \/ TakeEvent(n) \/ CopyStep(n) \/ RouteEvent(n)
      PROVE  Goal
  <2>1. dropped' = dropped /\ faults' = faults
    BY <1>6 DEF HandleEvent, TakeEvent, CopyStep, RouteCopy, RouteEvent, nodeVars
  <2> QED BY <2>1, <1>c
<1>7. ASSUME NEW n \in Instances, RouteOrder(n) PROVE Goal
  <2> DEFINE o == Head(outbox[n]).id
             s == placed[o].stock
  <2>1. /\ outbox[n] # <<>> /\ outbox' = [outbox EXCEPT ![n] = Tail(@)]
        /\ Head(outbox[n]).kind = "order" /\ faults' = faults
    BY <1>7 DEF RouteOrder, nodeVars
  <2>2. OutPopped(outbox, outbox', n)
    BY <2>1, <1>0, PopOutbox
  <2>3. Head(outbox[n]) = outbox[n][1] /\ 1 \in 1..Len(outbox[n])
    BY <2>2 DEF OutPopped
  <2>4. o \in 1..Len(placed) /\ config.partition
    BY <2>1, <2>3, WasPlaced DEF Routed, OutRouted
  <2>5. s \in Stocks
    <3> HIDE DEF o
    <3> QED BY <2>4, <1>0, PlacedOrder
  <2>6. \/ dropped' = dropped
        \/ QueueGroup(s) = {} /\ dropped' = dropped \cup {[order |-> o, why |-> "no owner"]}
    BY <1>7 DEF RouteOrder
  <2> HIDE DEF o, s, Goal
  <2>7. ASSUME QueueGroup(s) = {} PROVE Excused("no owner")
    BY <2>1, <2>4, <2>5, <2>7, <1>0, OwnerListens
  <2> HIDE DEF Excused
  <2> QED BY <2>1, <2>6, <2>7, <1>c, <1>d
<1>8. ASSUME NEW n \in Instances, LoseMessage(n) PROVE Goal
  <2>1. faults' = faults + 1
    BY <1>8 DEF LoseMessage, Fault
  <2>2. faults' > 0
    BY <2>1, <1>0
  <2> QED BY <2>2
<1> QED BY StepCases, <1>b, <1>1, <1>2, <1>3, <1>4, <1>5, <1>6, <1>7, <1>8

-----------------------------------------------------------------------------
(***************************************************************************)
(* The orders of a flow stay in order.                                     *)
(***************************************************************************)
LEMMA SortedGrows ==
  ASSUME NEW P, NEW P2, NEW Q, Sorted(P, Q),
         \A n \in Instances, s \in Stocks : \A i \in 1..Len(Q[n][s]) : P2[Q[n][s][i]] = P[Q[n][s][i]]
  PROVE  Sorted(P2, Q)
<1> SUFFICES ASSUME NEW m \in Instances, NEW t \in Stocks, NEW i \in 1..Len(Q[m][t]),
                    NEW j \in 1..Len(Q[m][t]), i < j, SameFlow(P2, Q[m][t][i], Q[m][t][j])
             PROVE  Q[m][t][i] < Q[m][t][j]
  BY DEF Sorted
<1>1. P2[Q[m][t][i]] = P[Q[m][t][i]] /\ P2[Q[m][t][j]] = P[Q[m][t][j]]
  OBVIOUS
<1>2. SameFlow(P, Q[m][t][i], Q[m][t][j])
  BY <1>1 DEF SameFlow
<1> QED BY <1>2 DEF Sorted

\* Flows do not depend on the orders placed later.
LEMMA FlowsGrow ==
  ASSUME ClusterTypes, OnePlace, NEW P, \A o \in 1..Len(placed) : P[o] = placed[o],
         Flows(placed, outbox, orderMail, engineCh, matched)
  PROVE  Flows(P, outbox, orderMail, engineCh, matched)
<1>1. \A o \in OutIds(outbox) \cup Ids(orderMail) \cup Ids(engineCh) \cup MatchedIds(matched) :
        P[o] = placed[o]
  BY DEF OnePlace, Apart
<1>2. /\ \A n \in Instances, s \in Stocks : \A i \in 1..Len(orderMail[n][s]) :
           orderMail[n][s][i] \in 1..Len(placed)
      /\ \A n \in Instances, s \in Stocks : \A i \in 1..Len(engineCh[n][s]) :
           engineCh[n][s][i] \in 1..Len(placed)
      /\ \A i \in 1..Len(matched) : matched[i].order \in 1..Len(placed)
  BY WasPlaced
<1>3. /\ \A n \in Instances, s \in Stocks : \A i \in 1..Len(orderMail[n][s]) :
           P[orderMail[n][s][i]] = placed[orderMail[n][s][i]]
      /\ \A n \in Instances, s \in Stocks : \A i \in 1..Len(engineCh[n][s]) :
           P[engineCh[n][s][i]] = placed[engineCh[n][s][i]]
      /\ \A i \in 1..Len(matched) : P[matched[i].order] = placed[matched[i].order]
  BY <1>2
<1>5. Sorted(P, orderMail)
  BY <1>3, SortedGrows DEF Flows
<1>6. Sorted(P, engineCh)
  BY <1>3, SortedGrows DEF Flows
<1>7. MatchedSorted(P, matched)
  BY <1>3 DEF Flows, MatchedSorted, SameFlow
<1>8. /\ Earlier(P, MatchedIds(matched), Ids(engineCh))
      /\ Earlier(P, MatchedIds(matched), Ids(orderMail))
      /\ Earlier(P, Ids(engineCh), Ids(orderMail))
      /\ Earlier(P, MatchedIds(matched), OutIds(outbox))
      /\ Earlier(P, Ids(engineCh), OutIds(outbox))
      /\ Earlier(P, Ids(orderMail), OutIds(outbox))
  BY <1>1 DEF Flows, Earlier, SameFlow
<1> QED BY <1>5, <1>6, <1>7, <1>8 DEF Flows

\* An order that was placed after those of its flow keeps the queues sorted.
LEMMA SortedPush ==
  ASSUME NEW P, NEW Q \in Queues, NEW R, NEW n, NEW s, NEW o, Pushed(Q, R, n, s, o), Sorted(P, Q),
         \A e \in Ids(Q) : SameFlow(P, e, o) => e < o
  PROVE  Sorted(P, R)
<1> SUFFICES ASSUME NEW m \in Instances, NEW t \in Stocks, NEW i \in 1..Len(R[m][t]),
                    NEW j \in 1..Len(R[m][t]), i < j, SameFlow(P, R[m][t][i], R[m][t][j])
             PROVE  R[m][t][i] < R[m][t][j]
  BY DEF Sorted
<1>1. \/ i \in 1..Len(Q[m][t]) /\ R[m][t][i] = Q[m][t][i]
      \/ m = n /\ t = s /\ i = Len(Q[n][s]) + 1 /\ R[m][t][i] = o
  BY DEF Pushed
<1>2. \/ j \in 1..Len(Q[m][t]) /\ R[m][t][j] = Q[m][t][j]
      \/ m = n /\ t = s /\ j = Len(Q[n][s]) + 1 /\ R[m][t][j] = o
  BY DEF Pushed
<1>3. Len(Q[m][t]) \in Nat /\ \A k \in 1..Len(Q[m][t]) : Q[m][t][k] \in Nat
  BY DEF Queues
<1>4. i \in 1..Len(Q[m][t]) /\ R[m][t][i] = Q[m][t][i]
  BY <1>1, <1>2, <1>3
<1>5. R[m][t][i] \in Ids(Q)
  BY <1>3, <1>4 DEF Ids
<1>6. CASE R[m][t][j] = o
  BY <1>5, <1>6
<1>7. CASE j \in 1..Len(Q[m][t]) /\ R[m][t][j] = Q[m][t][j]
  BY <1>4, <1>7 DEF Sorted
<1> QED BY <1>2, <1>6, <1>7

\* What is left of sorted queues is sorted.
LEMMA SortedPop ==
  ASSUME NEW P, NEW Q, NEW R, NEW n, NEW s, Popped(Q, R, n, s), Sorted(P, Q)
  PROVE  Sorted(P, R)
<1> SUFFICES ASSUME NEW m \in Instances, NEW t \in Stocks, NEW i \in 1..Len(R[m][t]),
                    NEW j \in 1..Len(R[m][t]), i < j, SameFlow(P, R[m][t][i], R[m][t][j])
             PROVE  R[m][t][i] < R[m][t][j]
  BY DEF Sorted
<1> DEFINE k(x) == IF m = n /\ t = s THEN x + 1 ELSE x
<1>1. /\ k(i) \in 1..Len(Q[m][t]) /\ R[m][t][i] = Q[m][t][k(i)]
      /\ k(j) \in 1..Len(Q[m][t]) /\ R[m][t][j] = Q[m][t][k(j)]
  BY DEF Popped
<1>2. k(i) < k(j)
  OBVIOUS
<1> HIDE DEF k
<1> QED BY <1>1, <1>2 DEF Sorted

LEMMA SortedClear ==
  ASSUME NEW P, NEW Q, NEW R, NEW n, Cleared(Q, R, n), Sorted(P, Q)
  PROVE  Sorted(P, R)
<1>1. \A m \in Instances, t \in Stocks : \A i \in 1..Len(R[m][t]) :
        i \in 1..Len(Q[m][t]) /\ R[m][t][i] = Q[m][t][i]
  BY DEF Cleared
<1> QED BY <1>1 DEF Sorted

\* The first order of a queue is the earliest of its flow when all the orders of
\* the queue's stock are in it.
LEMMA HeadIsEarliest ==
  ASSUME NEW P, NEW Q \in Queues, NEW R, NEW n \in Instances, NEW s \in Stocks,
         Popped(Q, R, n, s), Sorted(P, Q),
         \A m \in Instances, t \in Stocks : \A i \in 1..Len(Q[m][t]) :
           P[Q[m][t][i]].stock = t /\ (t = s => m = n)
  PROVE  \A e \in Ids(R) : SameFlow(P, Head(Q[n][s]), e) => Head(Q[n][s]) < e
<1> SUFFICES ASSUME NEW e \in Ids(R), SameFlow(P, Head(Q[n][s]), e)
             PROVE  Head(Q[n][s]) < e
  OBVIOUS
<1>1. PICK m \in Instances, t \in Stocks : \E i \in 1..Len(R[m][t]) : R[m][t][i] = e
  BY DEF Ids
<1>2. PICK i \in 1..Len(R[m][t]) : R[m][t][i] = e
  BY <1>1
<1> DEFINE k == IF m = n /\ t = s THEN i + 1 ELSE i
<1>3. k \in 1..Len(Q[m][t]) /\ e = Q[m][t][k]
  BY <1>2 DEF Popped
<1>4. Head(Q[n][s]) = Q[n][s][1] /\ 1 \in 1..Len(Q[n][s])
  BY DEF Popped
<1>5. P[Q[n][s][1]].stock = s
  BY <1>4
<1>6. t = s /\ m = n
  <2> HIDE DEF k
  <2> QED BY <1>3, <1>4, <1>5 DEF SameFlow
<1>7. k > 1
  BY <1>6
<1> HIDE DEF k
<1> QED BY <1>3, <1>4, <1>6, <1>7 DEF Sorted

\* Publishing an order, or an event, keeps the outboxes sorted.
LEMMA OutSortedPush ==
  ASSUME NEW B \in [Instances -> Seq(Message)], NEW C, NEW n, NEW x, OutPushed(B, C, n, x),
         OutSorted(B), x.kind = "order" => \A o \in OutIds(B) : o < x.id
  PROVE  OutSorted(C)
<1> SUFFICES ASSUME NEW m \in Instances, NEW i \in 1..Len(C[m]), NEW j \in 1..Len(C[m]), i < j,
                    C[m][i].kind = "order", C[m][j].kind = "order"
             PROVE  C[m][i].id < C[m][j].id
  BY DEF OutSorted
<1>1. \/ i \in 1..Len(B[m]) /\ C[m][i] = B[m][i]
      \/ m = n /\ i = Len(B[n]) + 1 /\ C[m][i] = x
  BY DEF OutPushed
<1>2. \/ j \in 1..Len(B[m]) /\ C[m][j] = B[m][j]
      \/ m = n /\ j = Len(B[n]) + 1 /\ C[m][j] = x
  BY DEF OutPushed
<1>3. Len(B[m]) \in Nat /\ \A k \in 1..Len(B[m]) : B[m][k] \in Message
  OBVIOUS
<1>4. i \in 1..Len(B[m]) /\ C[m][i] = B[m][i]
  BY <1>1, <1>2, <1>3
<1>5. CASE C[m][j] = x
  <2>1. B[m][i] \in Message /\ B[m][i].kind = "order"
    BY <1>3, <1>4
  <2>2. B[m][i] = OrderMessage(B[m][i].id) /\ B[m][i].id \in Nat
    BY <2>1 DEF Message, OrderMessage
  <2>3. B[m][i].id \in OutIds(B)
    BY <2>2, <1>4 DEF OutIds
  <2> QED BY <2>3, <1>4, <1>5
<1>6. CASE j \in 1..Len(B[m]) /\ C[m][j] = B[m][j]
  BY <1>4, <1>6 DEF OutSorted
<1> QED BY <1>2, <1>5, <1>6

LEMMA OutSortedPop ==
  ASSUME NEW B, NEW C, NEW n, OutPopped(B, C, n), OutSorted(B)
  PROVE  OutSorted(C)
<1> SUFFICES ASSUME NEW m \in Instances, NEW i \in 1..Len(C[m]), NEW j \in 1..Len(C[m]), i < j,
                    C[m][i].kind = "order", C[m][j].kind = "order"
             PROVE  C[m][i].id < C[m][j].id
  BY DEF OutSorted
<1> DEFINE k(x) == IF m = n THEN x + 1 ELSE x
<1>1. /\ k(i) \in 1..Len(B[m]) /\ C[m][i] = B[m][k(i)]
      /\ k(j) \in 1..Len(B[m]) /\ C[m][j] = B[m][k(j)]
  BY DEF OutPopped
<1>2. k(i) < k(j)
  OBVIOUS
<1> HIDE DEF k
<1> QED BY <1>1, <1>2 DEF OutSorted

\* The first order of an outbox is the earliest of its flow in the outboxes.
LEMMA OutHeadIsEarliest ==
  ASSUME NEW P, NEW B \in [Instances -> Seq(Message)], NEW C, NEW n \in Instances,
         OutPopped(B, C, n), OutSorted(B), Head(B[n]).kind = "order",
         \A m \in Instances : \A i \in 1..Len(B[m]) :
           B[m][i].kind = "order" => P[B[m][i].id].origin = m
  PROVE  \A e \in OutIds(C) : SameFlow(P, Head(B[n]).id, e) => Head(B[n]).id < e
<1> SUFFICES ASSUME NEW e \in OutIds(C), SameFlow(P, Head(B[n]).id, e)
             PROVE  Head(B[n]).id < e
  OBVIOUS
<1>1. PICK m \in Instances : \E i \in 1..Len(C[m]) : C[m][i] = OrderMessage(e)
  BY DEF OutIds
<1>2. PICK i \in 1..Len(C[m]) : C[m][i] = OrderMessage(e)
  BY <1>1
<1> DEFINE k == IF m = n THEN i + 1 ELSE i
<1>3. k \in 1..Len(B[m]) /\ B[m][k] = OrderMessage(e)
  BY <1>2 DEF OutPopped
<1>4. B[m][k].kind = "order" /\ B[m][k].id = e
  BY <1>3 DEF OrderMessage
<1>5. Head(B[n]) = B[n][1] /\ 1 \in 1..Len(B[n])
  BY DEF OutPopped
<1>6. P[e].origin = m /\ P[Head(B[n]).id].origin = n
  <2> HIDE DEF k
  <2> QED BY <1>3, <1>4, <1>5
<1>7. m = n
  BY <1>6 DEF SameFlow
<1>8. k > 1
  BY <1>7
<1> HIDE DEF k
<1> QED BY <1>3, <1>4, <1>5, <1>7, <1>8 DEF OutSorted

\* Forwarded orders were not accepted by their stock's owner.
LEMMA ForeignOrders ==
  ASSUME NEW P, OutRouted(P, outbox), MailRouted(P, orderMail)
  PROVE  \A e \in OutIds(outbox) \cup Ids(orderMail) : ~OwnsStock(P[e].origin, P[e].stock)
<1>1. ASSUME NEW e \in OutIds(outbox) PROVE ~OwnsStock(P[e].origin, P[e].stock)
  <2>1. PICK n \in Instances : \E i \in 1..Len(outbox[n]) : outbox[n][i] = OrderMessage(e)
    BY DEF OutIds
  <2>2. PICK i \in 1..Len(outbox[n]) : outbox[n][i] = OrderMessage(e)
    BY <2>1
  <2>3. outbox[n][i].kind = "order" /\ outbox[n][i].id = e
    BY <2>2 DEF OrderMessage
  <2> QED BY <2>3 DEF OutRouted
<1>2. ASSUME NEW e \in Ids(orderMail) PROVE ~OwnsStock(P[e].origin, P[e].stock)
  <2>1. PICK n \in Instances, s \in Stocks :
          \E i \in 1..Len(orderMail[n][s]) : orderMail[n][s][i] = e
    BY DEF Ids
  <2>2. PICK i \in 1..Len(orderMail[n][s]) : orderMail[n][s][i] = e
    BY <2>1
  <2>3. P[e].stock = s /\ ~OwnsStock(P[e].origin, s)
    BY <2>2 DEF MailRouted
  <2> QED BY <2>3
<1> QED BY <1>1, <1>2

\* A stock has one owner when the instances agree on their number.
LEMMA OneOwner ==
  ASSUME config.partition, Agreed
  PROVE  /\ \A n, m \in Instances : \A s : OwnsStock(n, s) /\ OwnsStock(m, s) => n = m
         /\ \A n \in Instances : \A s : s \in EngineStocks(n) => OwnsStock(n, s)
BY DEF Agreed, OwnsStock, EngineStocks, OwnedStocks

LEMMA FlowInit == ClusterInit => InFlowOrder
<1> SUFFICES ASSUME ClusterInit PROVE Flows(placed, outbox, orderMail, engineCh, matched)
  BY DEF InFlowOrder
<1>1. \A n \in Instances, s \in Stocks : Len(orderMail[n][s]) = 0 /\ Len(engineCh[n][s]) = 0
  BY DEF ClusterInit, NoMail
<1>2. \A n \in Instances : Len(outbox[n]) = 0
  BY DEF ClusterInit
<1>3. Len(matched) = 0
  BY DEF ClusterInit
<1>4. \A i : i \notin 1..0
  OBVIOUS
<1>5. Ids(orderMail) = {} /\ Ids(engineCh) = {} /\ OutIds(outbox) = {} /\ MatchedIds(matched) = {}
  BY <1>1, <1>2, <1>3, <1>4 DEF Ids, OutIds, MatchedIds
<1>6. \A P : Sorted(P, orderMail) /\ Sorted(P, engineCh) /\ OutSorted(outbox)
             /\ MatchedSorted(P, matched)
  BY <1>1, <1>2, <1>3, <1>4 DEF Sorted, OutSorted, MatchedSorted
<1>7. \A P, S : Earlier(P, S, {})
  BY DEF Earlier
<1> QED BY <1>5, <1>6, <1>7 DEF Flows

LEMMA FlowStep ==
  ASSUME ClusterTypes, OnePlace, Routed, InFlowOrder, [ClusterNext]_clusterVars, config' = config
  PROVE  InFlowOrder'
<1> SUFFICES ASSUME config.partition, Agreed
             PROVE  Flows(placed', outbox', orderMail', engineCh', matched')
  BY DEF InFlowOrder, Agreed
<1> DEFINE Goal == Flows(placed', outbox', orderMail', engineCh', matched')
           O == OutIds(outbox)
           E == Ids(orderMail)
           C == Ids(engineCh)
           M == MatchedIds(matched)
           N == Len(placed)
<1>0. /\ placed \in Seq([stock : Stocks, origin : Instances])
      /\ outbox \in [Instances -> Seq(Message)]
      /\ orderMail \in Queues /\ engineCh \in Queues
      /\ matched \in Seq([order : Nat, by : Instances])
      /\ eventBus \in [Instances -> Seq(Nat)]
      /\ N \in Nat
  BY DEF ClusterTypes
<1>a. /\ OutRouted(placed, outbox) /\ MailRouted(placed, orderMail)
      /\ EngineRouted(placed, engineCh)
  BY DEF Routed
<1>b. Flows(placed, outbox, orderMail, engineCh, matched)
  BY DEF InFlowOrder
<1>c. /\ Once(orderMail) /\ Once(engineCh) /\ OutOnce(outbox)
      /\ \A o \in O \cup E \cup C \cup M : o \in 1..N
  BY DEF OnePlace, Apart
<1>d. /\ OutSorted(outbox) /\ Sorted(placed, orderMail) /\ Sorted(placed, engineCh)
      /\ MatchedSorted(placed, matched)
      /\ Earlier(placed, M, C) /\ Earlier(placed, M, E) /\ Earlier(placed, C, E)
      /\ Earlier(placed, M, O) /\ Earlier(placed, C, O) /\ Earlier(placed, E, O)
  BY <1>b DEF Flows
<1>1. ASSUME IdleStep PROVE Goal
  <2>1. UNCHANGED <<placed, outbox, orderMail, engineCh, matched>>
    BY <1>1, IdleFrame DEF messageVars, engineVars
  <2> QED BY <2>1, <1>b
<1>2. ASSUME NEW n \in Instances, NEW s \in Stocks, PlaceOrder(n, s) PROVE Goal
  <2> DEFINE o == Len(placed')
  <2>1. o \in Nat /\ o = N + 1 /\ placed'[o].stock = s /\ placed'[o].origin = n
        /\ \A p \in 1..N : placed'[p] = placed[p]
    BY <1>2, <1>0, GrowPlaced DEF PlaceOrder
  <2>2. SubmitOrder(n, o) /\ UNCHANGED <<orderMail, matched>>
    BY <1>2 DEF PlaceOrder
  <2> HIDE DEF o
  <2>3. Flows(placed', outbox, orderMail, engineCh, matched)
    BY <2>1, <1>b, FlowsGrow
  <2>4. \A e \in O \cup E \cup C \cup M : e < o
    <3> HIDE DEF O, E, C, M, N
    <3> QED BY <2>1, <1>0, <1>c
  <2>5. CASE /\ s \in EngineStocks(n) /\ UNCHANGED outbox
             /\ engineCh' = [engineCh EXCEPT ![n][s] = Append(@, o)]
    <3>1. Pushed(engineCh, engineCh', n, s, o)
      BY <2>1, <2>5, <1>0, PushQueue
    <3>2. Ids(engineCh') = C \cup {o}
      BY <3>1 DEF Pushed
    <3>3. Sorted(placed', engineCh')
      <4>1. Sorted(placed', engineCh) /\ \A e \in C : e < o
        BY <2>3, <2>4 DEF Flows
      <4> QED BY <4>1, <3>1, <1>0, SortedPush
    <3>4. \A e \in O \cup E : ~SameFlow(placed', o, e)
      <4>1. OutRouted(placed', outbox) /\ MailRouted(placed', orderMail)
        BY <2>1, RoutedGrows
      <4>2. OwnsStock(n, s)
        BY <2>5, OneOwner
      <4> QED BY <4>1, <4>2, <2>1, ForeignOrders DEF SameFlow
    <3> HIDE DEF O, E, C, M, N
    <3>5. /\ Earlier(placed', M, Ids(engineCh')) /\ Earlier(placed', Ids(engineCh'), E)
          /\ Earlier(placed', Ids(engineCh'), O)
      BY <3>2, <3>4, <2>3, <2>4 DEF Flows, Earlier, O, E, C, M
    <3> QED BY <3>3, <3>5, <2>2, <2>3, <2>5 DEF Flows, O, E, M
  <2>6. CASE UNCHANGED <<engineCh, outbox>>
    BY <2>2, <2>3, <2>6
  <2>7. CASE /\ outbox' = [outbox EXCEPT ![n] = Append(@, OrderMessage(o))]
             /\ UNCHANGED <<engineCh, dropped>>
    <3>1. OrderMessage(o) \in Message /\ OrderMessage(o).id = o /\ OrderMessage(o).kind = "order"
      BY <2>1 DEF OrderMessage, Message
    <3>2. OutPushed(outbox, outbox', n, OrderMessage(o))
      BY <3>1, <2>7, <1>0, PushOutbox
    <3>3. OutIds(outbox') = O \cup {o}
      BY <3>1, <3>2 DEF OutPushed
    <3>4. OutSorted(outbox')
      BY <3>1, <3>2, <2>4, <1>0, <1>d, OutSortedPush
    <3> HIDE DEF O, E, C, M, N
    <3>5. /\ Earlier(placed', M, OutIds(outbox')) /\ Earlier(placed', C, OutIds(outbox'))
          /\ Earlier(placed', E, OutIds(outbox'))
      BY <3>3, <2>3, <2>4 DEF Flows, Earlier, O, E, C, M
    <3> QED BY <3>4, <3>5, <2>2, <2>3, <2>7 DEF Flows, E, C, M
  <2>8. CASE EngineSubmit(n, o) /\ UNCHANGED outbox
    BY <2>1, <2>5, <2>6, <2>8, SubmitEffect
  <2> QED BY <2>2, <2>7, <2>8 DEF SubmitOrder
<1>3. ASSUME NEW n \in Instances, NEW s \in Stocks, MatchOrder(n, s) PROVE Goal
  <2> DEFINE o == Head(engineCh[n][s])
  <2>1. engineCh[n][s] # <<>> /\ engineCh' = [engineCh EXCEPT ![n][s] = Tail(@)]
        /\ matched' = Append(matched, [order |-> o, by |-> n])
        /\ UNCHANGED <<placed, outbox, orderMail>>
    BY <1>3 DEF MatchOrder, messageVars
  <2>2. Popped(engineCh, engineCh', n, s)
    BY <2>1, <1>0, PopQueue
  <2>3. /\ Ids(engineCh') = C \ {o} /\ o \in C /\ o \in Nat
        /\ o = engineCh[n][s][1] /\ 1 \in 1..Len(engineCh[n][s])
    BY <2>2, <1>c DEF Popped, Ids
  <2>4. Sorted(placed, engineCh')
    BY <2>2, <1>d, SortedPop
  <2>5. \A e \in Ids(engineCh') : SameFlow(placed, o, e) => o < e
    <3>1. OwnsStock(n, s)
      BY <2>3, <1>a, OneOwner DEF EngineRouted
    <3>2. \A m \in Instances, t \in Stocks : \A i \in 1..Len(engineCh[m][t]) :
            placed[engineCh[m][t][i]].stock = t /\ (t = s => m = n)
      BY <3>1, <1>a, OneOwner DEF EngineRouted
    <3> QED BY <3>2, <2>2, <1>0, <1>d, HeadIsEarliest
  <2> HIDE DEF o, O, E, C, M, N
  <2>6. Grown(matched, matched', o, n)
    BY <2>1, <2>3, <1>0, GrowMatched
  <2>7. MatchedIds(matched') = M \cup {o}
    BY <2>6 DEF Grown, M
  <2>8. MatchedSorted(placed, matched')
    <3> SUFFICES ASSUME NEW i \in 1..Len(matched'), NEW j \in 1..Len(matched'), i < j,
                        SameFlow(placed, matched'[i].order, matched'[j].order)
                 PROVE  matched'[i].order < matched'[j].order
      BY DEF MatchedSorted
    <3>1. Len(matched) \in Nat /\ Len(matched') = Len(matched) + 1
          /\ matched'[Len(matched) + 1].order = o
          /\ \A k \in 1..Len(matched) : matched'[k] = matched[k]
      BY <2>6 DEF Grown
    <3>2. i \in 1..Len(matched) /\ matched'[i] = matched[i] /\ matched[i].order \in M
      BY <3>1, WasPlaced DEF M
    <3>3. CASE j \in 1..Len(matched)
      BY <3>1, <3>2, <3>3, <1>d DEF MatchedSorted
    <3>4. CASE j = Len(matched) + 1
      <4>1. matched'[j].order = o /\ SameFlow(placed, matched[i].order, o)
        BY <3>1, <3>2, <3>4
      <4>2. matched[i].order < o
        BY <4>1, <3>2, <2>3, <1>d DEF Earlier
      <4> QED BY <4>1, <4>2, <3>2
    <3> QED BY <3>1, <3>3, <3>4
  <2>9. /\ Earlier(placed, MatchedIds(matched'), Ids(engineCh'))
        /\ Earlier(placed, MatchedIds(matched'), E) /\ Earlier(placed, Ids(engineCh'), E)
        /\ Earlier(placed, MatchedIds(matched'), O) /\ Earlier(placed, Ids(engineCh'), O)
    BY <2>3, <2>5, <2>7, <1>d DEF Earlier
  <2> QED BY <2>1, <2>4, <2>8, <2>9, <1>d DEF Flows, E, O
<1>4. ASSUME NEW n \in Instances, NEW s \in Stocks, TakeOrder(n, s) PROVE Goal
  <2> DEFINE o == Head(orderMail[n][s])
  <2>1. orderMail[n][s] # <<>> /\ orderMail' = [orderMail EXCEPT ![n][s] = Tail(@)]
        /\ EngineSubmit(n, o)
        /\ UNCHANGED <<placed, outbox, matched>>
    BY <1>4 DEF TakeOrder
  <2>2. Popped(orderMail, orderMail', n, s)
    BY <2>1, <1>0, PopQueue
  <2>3. /\ Ids(orderMail') = E \ {o} /\ o \in E /\ o \in Nat
        /\ o = orderMail[n][s][1] /\ 1 \in 1..Len(orderMail[n][s])
    BY <2>2, <1>c DEF Popped, Ids
  <2>4. Sorted(placed, orderMail')
    BY <2>2, <1>d, SortedPop
  <2>5. \A e \in Ids(orderMail') : SameFlow(placed, o, e) => o < e
    <3>1. OwnsStock(n, s)
      BY <2>3, <1>a DEF MailRouted
    <3>2. \A m \in Instances, t \in Stocks : \A i \in 1..Len(orderMail[m][t]) :
            placed[orderMail[m][t][i]].stock = t /\ (t = s => m = n)
      BY <3>1, <1>a, OneOwner DEF MailRouted
    <3> QED BY <3>2, <2>2, <1>0, <1>d, HeadIsEarliest
  <2>6. placed'[o].stock = s
    BY <2>1, <2>3, <1>a DEF MailRouted
  <2> HIDE DEF o, O, E, C, M, N
  <2>7. CASE engineCh' = engineCh
    <3>1. /\ Earlier(placed, M, Ids(orderMail')) /\ Earlier(placed, C, Ids(orderMail'))
          /\ Earlier(placed, Ids(orderMail'), O)
      BY <2>3, <1>d DEF Earlier
    <3> QED BY <3>1, <2>1, <2>4, <2>7, <1>d DEF Flows, O, C, M
  <2>8. CASE engineCh' = [engineCh EXCEPT ![n][s] = Append(@, o)]
    <3>1. Pushed(engineCh, engineCh', n, s, o)
      BY <2>3, <2>8, <1>0, PushQueue
    <3>2. Ids(engineCh') = C \cup {o}
      BY <3>1 DEF Pushed, C
    <3>3. Sorted(placed, engineCh')
      <4>1. \A e \in Ids(engineCh) : SameFlow(placed, e, o) => e < o
        BY <2>3, <1>d DEF Earlier, C
      <4> QED BY <4>1, <3>1, <1>0, <1>d, SortedPush
    <3>4. /\ Earlier(placed, M, Ids(engineCh')) /\ Earlier(placed, M, Ids(orderMail'))
          /\ Earlier(placed, Ids(engineCh'), Ids(orderMail'))
          /\ Earlier(placed, Ids(engineCh'), O) /\ Earlier(placed, Ids(orderMail'), O)
      BY <3>2, <2>3, <2>5, <1>d DEF Earlier
    <3> QED BY <3>3, <3>4, <2>1, <2>4, <1>d DEF Flows, O, M
  <2> QED BY <2>1, <2>6, <2>7, <2>8, SubmitEffect
<1>5. ASSUME NEW n \in Instances, EndStep(n) PROVE Goal
  <2>1. PICK end \in {"down", "panicked"}, why \in {"crash", "panic", "unsubscribed"} :
          Gone(n, end, why)
    BY <1>5, EndIsGone
  <2>2. Cleared(orderMail, orderMail', n) /\ Cleared(engineCh, engineCh', n)
        /\ UNCHANGED <<placed, outbox, matched>>
    BY <2>1, <1>0, ClearQueue DEF Gone
  <2>3. Sorted(placed, orderMail') /\ Sorted(placed, engineCh')
    BY <2>2, <1>d, SortedClear
  <2>4. Ids(orderMail') \subseteq E /\ Ids(engineCh') \subseteq C
    BY <2>2 DEF Cleared
  <2> HIDE DEF O, E, C, M, N
  <2>5. /\ Earlier(placed, M, Ids(engineCh')) /\ Earlier(placed, M, Ids(orderMail'))
        /\ Earlier(placed, Ids(engineCh'), Ids(orderMail'))
        /\ Earlier(placed, Ids(engineCh'), O) /\ Earlier(placed, Ids(orderMail'), O)
    BY <2>4, <1>d DEF Earlier
  <2> QED BY <2>2, <2>3, <2>5, <1>d DEF Flows, O, M
<1>6. ASSUME NEW n \in Instances, HandleEvent(n) PROVE Goal
  <2>1. UNCHANGED <<placed, orderMail, engineCh, matched>>
    BY <1>6 DEF HandleEvent
  <2>2. CASE outbox' = outbox
    BY <2>1, <2>2, <1>b
  <2>3. CASE outbox' = [outbox EXCEPT ![n] = Append(@, EventMessage(Head(eventBus[n])))]
    <3>1. Head(eventBus[n]) \in Nat
      BY <1>6, <1>0 DEF HandleEvent
    <3>2. /\ EventMessage(Head(eventBus[n])) \in Message
          /\ EventMessage(Head(eventBus[n])).kind # "order"
      BY <3>1 DEF EventMessage, Message
    <3>3. OutPushed(outbox, outbox', n, EventMessage(Head(eventBus[n])))
      BY <3>2, <2>3, <1>0, PushOutbox
    <3>4. OutIds(outbox') = O
      BY <3>2, <3>3 DEF OutPushed
    <3>5. OutSorted(outbox')
      BY <3>2, <3>3, <1>0, <1>d, OutSortedPush
    <3> QED BY <2>1, <3>4, <3>5, <1>d DEF Flows
  <2> QED BY <1>6, <2>2, <2>3 DEF HandleEvent
<1>7. ASSUME NEW n \in Instances, TakeEvent(n) \/ CopyStep(n) PROVE Goal
  <2>1. UNCHANGED <<placed, outbox, orderMail, engineCh, matched>>
    BY <1>7 DEF TakeEvent, CopyStep, RouteCopy, engineVars
  <2> QED BY <2>1, <1>b
<1>8. ASSUME NEW n \in Instances, RouteOrder(n) \/ RouteEvent(n) \/ LoseMessage(n)
      PROVE  /\ OutPopped(outbox, outbox', n) /\ OutSorted(outbox')
             /\ OutIds(outbox') \subseteq O /\ placed' = placed
  <2>1. /\ outbox[n] # <<>> /\ outbox' = [outbox EXCEPT ![n] = Tail(@)]
        /\ UNCHANGED placed
    BY <1>8 DEF RouteOrder, RouteEvent, LoseMessage
  <2>2. OutPopped(outbox, outbox', n)
    BY <2>1, <1>0, PopOutbox
  <2>3. OutSorted(outbox')
    BY <2>2, <1>d, OutSortedPop
  <2> QED BY <2>1, <2>2, <2>3 DEF OutPopped
<1>9. ASSUME NEW n \in Instances, RouteOrder(n) \/ RouteEvent(n) \/ LoseMessage(n),
             UNCHANGED <<orderMail, engineCh, matched>>
      PROVE  Goal
  <2>1. OutSorted(outbox') /\ OutIds(outbox') \subseteq O /\ placed' = placed
    BY <1>8, <1>9
  <2> HIDE DEF O, E, C, M, N
  <2>2. /\ Earlier(placed, M, OutIds(outbox')) /\ Earlier(placed, C, OutIds(outbox'))
        /\ Earlier(placed, E, OutIds(outbox'))
    BY <2>1, <1>d DEF Earlier
  <2> QED BY <2>1, <2>2, <1>9, <1>d DEF Flows, E, C, M
<1>10. ASSUME NEW n \in Instances, RouteOrder(n), orderMail' # orderMail PROVE Goal
  <2> DEFINE o == Head(outbox[n]).id
             s == placed[o].stock
  <2>1. OutPopped(outbox, outbox', n) /\ OutSorted(outbox') /\ OutIds(outbox') \subseteq O
        /\ placed' = placed
    BY <1>8, <1>10
  <2>2. Head(outbox[n]).kind = "order" /\ UNCHANGED <<engineCh, matched>>
    BY <1>10 DEF RouteOrder, engineVars
  <2>3. o \in O /\ o \in Nat
    BY <2>1, <2>2 DEF OutPopped, OutIds
  <2>4. \A e \in OutIds(outbox') : SameFlow(placed, o, e) => o < e
    <3>1. \A m \in Instances : \A i \in 1..Len(outbox[m]) :
            outbox[m][i].kind = "order" => placed[outbox[m][i].id].origin = m
      BY <1>a DEF OutRouted
    <3> QED BY <3>1, <2>1, <2>2, <1>0, <1>d, OutHeadIsEarliest
  <2>5. PICK m \in Instances : orderMail' = [orderMail EXCEPT ![m][s] = Append(@, o)]
    BY <1>10 DEF RouteOrder, QueueGroup
  <2>6. s \in Stocks
    <3>1. o \in 1..Len(placed)
      BY <2>3, <1>c
    <3> HIDE DEF o
    <3> QED BY <3>1, <1>0, PlacedOrder
  <2> HIDE DEF o, s, O, E, C, M, N
  <2>7. Pushed(orderMail, orderMail', m, s, o)
    BY <2>3, <2>5, <2>6, <1>0, PushQueue
  <2>8. Ids(orderMail') = E \cup {o}
    BY <2>7 DEF Pushed, E
  <2>9. Sorted(placed, orderMail')
    <3>1. \A e \in Ids(orderMail) : SameFlow(placed, e, o) => e < o
      BY <2>3, <1>d DEF Earlier, E
    <3> QED BY <3>1, <2>7, <1>0, <1>d, SortedPush
  <2>10. /\ Earlier(placed, M, Ids(orderMail')) /\ Earlier(placed, C, Ids(orderMail'))
         /\ Earlier(placed, M, OutIds(outbox')) /\ Earlier(placed, C, OutIds(outbox'))
         /\ Earlier(placed, Ids(orderMail'), OutIds(outbox'))
    BY <2>1, <2>3, <2>4, <2>8, <1>d DEF Earlier
  <2> QED BY <2>1, <2>2, <2>9, <2>10, <1>d DEF Flows, C, M
<1>11. ASSUME NEW n \in Instances, RouteOrder(n) \/ RouteEvent(n) \/ LoseMessage(n) PROVE Goal
  <2>1. UNCHANGED <<engineCh, matched>> /\ (RouteEvent(n) \/ LoseMessage(n) => orderMail' = orderMail)
    BY <1>11 DEF RouteOrder, RouteEvent, LoseMessage, engineVars
  <2> QED BY <2>1, <1>9, <1>10, <1>11
<1> QED BY StepCases, <1>1, <1>2, <1>3, <1>4, <1>5, <1>6, <1>7, <1>11

-----------------------------------------------------------------------------
ClusterInv == /\ ClusterTypes /\ OnePlace /\ Healthy /\ Routed
              /\ LossHasACause /\ InFlowOrder

\* Whatever crashes, breaks, restarts or is shut down, every step of the cluster
\* keeps each order in one place and on its way.
THEOREM ClusterInvariant == ClusterSpec => []ClusterInv
<1>1. ClusterInit => ClusterInv
  BY TypesInit, PlacesInit, HealthyInit, RoutedInit, CauseInit, FlowInit DEF ClusterInv
<1>2. ASSUME ClusterInv, [ClusterNext]_clusterVars PROVE ClusterInv'
  <2>1. Healthy' /\ config' = config
    BY <1>2, HealthyStep DEF ClusterInv
  <2>2. ClusterTypes' /\ OnePlace'
    BY <1>2, TypesStep, PlacesStep DEF ClusterInv
  <2>3. Routed' /\ LossHasACause' /\ InFlowOrder'
    BY <1>2, <2>1, RoutedStep, CauseStep, FlowStep DEF ClusterInv
  <2> QED BY <2>1, <2>2, <2>3 DEF ClusterInv
<1> QED BY <1>1, <1>2, PTL DEF ClusterSpec

\* QueueSubscribe, Router.SubmitOrder and main's shutdown: no order is matched
\* twice, nor matched and lost, and a loss has a cause, for every number of
\* instances, stocks, orders and faults and every channel capacity.
THEOREM EveryOrderAccountedFor == ClusterSpec => []OrdersAccountedFor
<1>1. ASSUME ClusterInv PROVE OrdersAccountedFor
  <2>1. \A i, j \in 1..Len(matched) : matched[i].order = matched[j].order => i = j
    BY <1>1 DEF ClusterInv, OnePlace, MatchedOnce
  <2>2. \A i \in 1..Len(matched) : \A d \in dropped : d.order # matched[i].order
    <3> SUFFICES ASSUME NEW i \in 1..Len(matched), NEW d \in dropped, d.order = matched[i].order
                 PROVE  FALSE
      OBVIOUS
    <3>1. matched[i].order \in MatchedIds(matched)
      BY <1>1, WasPlaced DEF ClusterInv
    <3>2. d.order \in DroppedIds(dropped)
      BY <1>1 DEF ClusterInv, ClusterTypes, DroppedIds
    <3> QED BY <3>1, <3>2, <1>1 DEF ClusterInv, OnePlace, Apart
  <2> QED BY <2>1, <2>2, <1>1 DEF ClusterInv, OrdersAccountedFor, MatchedAtMostOnce
<1> QED BY <1>1, ClusterInvariant, PTL

\* Partitioner.OwnsStock and Router.SubmitOrder: when the instances agree on
\* their number, a stock's orders are matched by its owner alone, and those of
\* one instance in the order it accepted them, local or forwarded.
THEOREM OneBookPerStockAlways == ClusterSpec => []OneBookPerStock
<1>1. ASSUME ClusterInv PROVE OneBookPerStock
  <2> SUFFICES ASSUME config.partition, Agreed, NEW i \in 1..Len(matched)
               PROVE  LET o == matched[i].order IN
                      /\ matched[i].by = OwnerIndex(placed[o].stock, Total)
                      /\ \A j \in 1 .. i - 1 :
                           (/\ placed[matched[j].order].stock = placed[o].stock
                            /\ placed[matched[j].order].origin = placed[o].origin)
                             => matched[j].order < o
    BY DEF OneBookPerStock
  <2>1. matched[i].by \in Instances
    <3> DEFINE T == [order : Nat, by : Instances]
    <3>1. matched \in Seq(T)
      BY <1>1 DEF ClusterInv, ClusterTypes
    <3> HIDE DEF T
    <3>2. matched[i] \in T
      BY <3>1
    <3> QED BY <3>2 DEF T
  <2>2. OwnsStock(matched[i].by, placed[matched[i].order].stock)
    BY <2>1, <1>1, OneOwner DEF ClusterInv, Routed, MatchedRouted
  <2>3. matched[i].by = OwnerIndex(placed[matched[i].order].stock, Total)
    BY <2>1, <2>2 DEF OwnsStock, Agreed
  <2>4. Len(matched) \in Nat
    BY <1>1 DEF ClusterInv, ClusterTypes
  <2>5. ASSUME NEW j \in 1 .. i - 1,
               placed[matched[j].order].stock = placed[matched[i].order].stock,
               placed[matched[j].order].origin = placed[matched[i].order].origin
        PROVE  matched[j].order < matched[i].order
    <3>1. j \in 1..Len(matched) /\ j < i
      BY <2>4
    <3>2. MatchedSorted(placed, matched)
      BY <1>1 DEF ClusterInv, InFlowOrder, Flows
    <3> QED BY <3>1, <3>2, <2>5 DEF MatchedSorted, SameFlow
  <2> QED BY <2>3, <2>5
<1> QED BY <1>1, ClusterInvariant, PTL

-----------------------------------------------------------------------------
(***************************************************************************)
(* Events.  A publisher's snapshots pass through its bus, its outbox and   *)
(* each receiver's mailbox to that receiver's clients, and stay in order   *)
(* all the way.  Its own clients see them from the bus and once more from  *)
(* the mailbox.                                                            *)
(***************************************************************************)
\* The events in a queue and in an outbox, and those instance p has published.
Elems(q)     == {e \in Nat : \E i \in 1..Len(q) : q[i] = e}
OutEvents(b) == {e \in Nat : \E i \in 1..Len(b) : b[i].kind = "event" /\ b[i].id = e}
Own(M, p)    == {e \in 1..Len(M) : M[e].by = p}

Before(S, T) == \A e \in S, f \in T : e < f

\* The events of W that q has are in order.
Rising(q, W) ==
  \A i, j \in 1..Len(q) : i < j /\ q[i] \in W /\ q[j] \in W => q[i] < q[j]
OutRising(b) ==
  \A i, j \in 1..Len(b) : i < j /\ b[i].kind = "event" /\ b[j].kind = "event" => b[i].id < b[j].id

\* The events O of one publisher on their way to one receiver, over the
\* publisher's bus and outbox and the receiver's mailbox to what its clients
\* have seen; W are those of them that were not sent again, and other says that
\* the receiver is not the publisher.
Stream(O, W, bus, out, mail, seen, other) ==
  /\ Elems(bus) \subseteq O /\ OutEvents(out) \subseteq O
  /\ Rising(bus, O) /\ OutRising(out) /\ Rising(mail, W)
  /\ Before(OutEvents(out), Elems(bus))
  /\ Before(Elems(mail) \cap W, OutEvents(out))
  /\ Before(Elems(mail) \cap W, Elems(bus))
  /\ other => /\ Rising(seen, W)
              /\ Before(Elems(seen) \cap W, Elems(mail) \cap W)
              /\ Before(Elems(seen) \cap W, OutEvents(out))
              /\ Before(Elems(seen) \cap W, Elems(bus))
  /\ ~other => \A e \in W : /\ Count(e, seen) <= 2
                            /\ e \in OutEvents(out) \cup Elems(mail) => Count(e, seen) <= 1
                            /\ e \in Elems(bus) => Count(e, seen) = 0

EventsInOrder ==
  /\ eventMail \in [Instances -> Seq(Nat)] /\ shown \in [Instances -> Seq(Nat)]
  /\ \A m \in Instances : Elems(eventMail[m]) \cup Elems(shown[m]) \subseteq 1..Len(matched)
  /\ \A m, p \in Instances :
       Stream(Own(matched, p), Own(matched, p) \ resent, eventBus[p], outbox[p], eventMail[m],
              shown[m], m # p)
  /\ resent \subseteq 1..Len(matched) /\ copies \in [Instances -> SUBSET resent]
  /\ config.fanout # "redis" => resent = {}

\* An event at the end of a queue.
Joined(q, r, x) ==
  /\ r \in Seq(Nat) /\ Elems(r) = Elems(q) \cup {x}
  /\ \A W : Rising(q, W) /\ (x \in W => Before(Elems(q) \cap W, {x})) => Rising(r, W)
  /\ \A e \in Nat : Count(e, r) = Count(e, q) + (IF e = x THEN 1 ELSE 0)

LEMMA CountIs ==
  ASSUME NEW q \in Seq(Nat), NEW e
  PROVE  /\ Count(e, q) \in Nat
         /\ e \notin Elems(q) /\ e \in Nat => Count(e, q) = 0
<1> DEFINE C == {i \in 1..Len(q) : q[i] = e}
<1>1. IsFiniteSet(1..Len(q))
  BY FS_Interval
<1>2. IsFiniteSet(C)
  BY <1>1, FS_Subset
<1>3. Cardinality(C) \in Nat
  BY <1>2, FS_CardinalityType
<1>4. e \notin Elems(q) /\ e \in Nat => C = {}
  BY DEF Elems
<1> QED BY <1>3, <1>4, FS_EmptySet DEF Count

LEMMA JoinQueue ==
  ASSUME NEW q \in Seq(Nat), NEW x \in Nat, NEW r, r = Append(q, x)
  PROVE  Joined(q, r, x)
<1>1. /\ r \in Seq(Nat) /\ Len(q) \in Nat /\ Len(r) = Len(q) + 1
      /\ \A i \in 1..Len(q) : r[i] = q[i]
      /\ r[Len(q) + 1] = x
  OBVIOUS
<1>2. \A i \in 1..Len(r) : i \in 1..Len(q) \/ i = Len(q) + 1
  BY <1>1
<1>3. Elems(r) = Elems(q) \cup {x}
  <2>1. ASSUME NEW e \in Elems(r) PROVE e \in Elems(q) \cup {x}
    BY <1>1, <1>2, <2>1 DEF Elems
  <2>2. Elems(q) \subseteq Elems(r)
    BY <1>1 DEF Elems
  <2>3. x \in Elems(r)
    <3>1. Len(q) + 1 \in 1..Len(r)
      BY <1>1
    <3> QED BY <1>1, <3>1 DEF Elems
  <2> QED BY <2>1, <2>2, <2>3
<1>4. ASSUME NEW W, Rising(q, W), x \in W => Before(Elems(q) \cap W, {x}) PROVE Rising(r, W)
  <2> SUFFICES ASSUME NEW i \in 1..Len(r), NEW j \in 1..Len(r), i < j, r[i] \in W, r[j] \in W
               PROVE  r[i] < r[j]
    BY DEF Rising
  <2>1. i \in 1..Len(q)
    BY <1>1
  <2>2. CASE j \in 1..Len(q)
    BY <1>1, <1>4, <2>1, <2>2 DEF Rising
  <2>3. CASE j = Len(q) + 1
    <3>1. q[i] \in Nat /\ q[i] \in Elems(q)
      BY <2>1 DEF Elems
    <3> QED BY <1>1, <1>4, <2>1, <2>3, <3>1 DEF Before
  <2> QED BY <1>2, <2>2, <2>3
<1>5. ASSUME NEW e \in Nat PROVE Count(e, r) = Count(e, q) + (IF e = x THEN 1 ELSE 0)
  <2> DEFINE C == {i \in 1..Len(q) : q[i] = e}
             D == {i \in 1..Len(r) : r[i] = e}
  <2>1. IsFiniteSet(1..Len(q))
    BY FS_Interval
  <2>2. IsFiniteSet(C)
    BY <2>1, FS_Subset
  <2>3. CASE e = x
    <3>1. D = C \cup {Len(q) + 1} /\ Len(q) + 1 \notin C
      BY <1>1, <1>2, <2>3
    <3>2. Cardinality(C \cup {Len(q) + 1}) = Cardinality(C) + 1
      BY <2>2, <3>1, FS_AddElement
    <3> QED BY <2>3, <3>1, <3>2 DEF Count
  <2>4. CASE e # x
    <3>1. D = C
      BY <1>1, <1>2, <2>4
    <3>2. Cardinality(C) \in Nat
      BY <2>2, FS_CardinalityType
    <3>3. Count(e, r) = Count(e, q) /\ Count(e, q) \in Nat
      BY <3>1, <3>2 DEF Count
    <3> QED BY <2>4, <3>3
  <2> QED BY <2>3, <2>4
<1> QED BY <1>1, <1>3, <1>4, <1>5 DEF Joined

\* A queue without its first event x.
Left(q, r, x) ==
  /\ r \in Seq(Nat) /\ x \in Nat /\ Elems(q) = Elems(r) \cup {x}
  /\ \A W : Rising(q, W) => Rising(r, W) /\ (x \in W => Before({x}, Elems(r) \cap W))

LEMMA LeaveQueue ==
  ASSUME NEW q \in Seq(Nat), q # <<>>, NEW r, r = Tail(q)
  PROVE  Left(q, r, Head(q))
<1>1. /\ Head(q) = q[1] /\ Len(q) \in Nat /\ 1 \in 1..Len(q) /\ q[1] \in Nat
      /\ r \in Seq(Nat) /\ Len(r) = Len(q) - 1
      /\ \A i \in 1..Len(r) : i + 1 \in 1..Len(q) /\ r[i] = q[i + 1]
  BY TailFacts
<1>2. Elems(q) = Elems(r) \cup {q[1]}
  <2>1. \A i \in 1..Len(q) : i = 1 \/ (i - 1 \in 1..Len(r) /\ q[i] = r[i - 1])
    BY <1>1
  <2>2. ASSUME NEW e \in Elems(q) PROVE e \in Elems(r) \cup {q[1]}
    BY <2>1, <2>2 DEF Elems
  <2>3. Elems(r) \subseteq Elems(q)
    BY <1>1 DEF Elems
  <2>4. q[1] \in Elems(q)
    BY <1>1 DEF Elems
  <2> QED BY <2>2, <2>3, <2>4
<1>3. ASSUME NEW W, Rising(q, W) PROVE Rising(r, W)
  <2> SUFFICES ASSUME NEW i \in 1..Len(r), NEW j \in 1..Len(r), i < j, r[i] \in W, r[j] \in W
               PROVE  r[i] < r[j]
    BY DEF Rising
  <2>1. /\ i + 1 \in 1..Len(q) /\ j + 1 \in 1..Len(q) /\ i + 1 < j + 1
        /\ r[i] = q[i + 1] /\ r[j] = q[j + 1]
    BY <1>1
  <2> QED BY <1>3, <2>1 DEF Rising
<1>4. ASSUME NEW W, Rising(q, W), q[1] \in W PROVE Before({q[1]}, Elems(r) \cap W)
  <2> SUFFICES ASSUME NEW i \in 1..Len(r), r[i] \in W PROVE q[1] < r[i]
    BY DEF Before, Elems
  <2>1. i + 1 \in 1..Len(q) /\ 1 < i + 1 /\ r[i] = q[i + 1]
    BY <1>1
  <2> QED BY <1>1, <1>4, <2>1 DEF Rising
<1> QED BY <1>1, <1>2, <1>3, <1>4 DEF Left

\* Outboxes: a message at the end, and without the first.
LEMMA JoinOutbox ==
  ASSUME NEW b \in Seq(Message), NEW x \in Message, NEW c, c = Append(b, x)
  PROVE  /\ OutEvents(c) = OutEvents(b) \cup {e \in Nat : x.kind = "event" /\ x.id = e}
         /\ OutRising(b) /\ (x.kind = "event" => Before(OutEvents(b), {x.id})) => OutRising(c)
<1>1. /\ c \in Seq(Message) /\ Len(b) \in Nat /\ Len(c) = Len(b) + 1
      /\ \A i \in 1..Len(b) : c[i] = b[i]
      /\ c[Len(b) + 1] = x
  OBVIOUS
<1>2. \A i \in 1..Len(c) : i \in 1..Len(b) \/ i = Len(b) + 1
  BY <1>1
<1>3. OutEvents(c) = OutEvents(b) \cup {e \in Nat : x.kind = "event" /\ x.id = e}
  <2>1. ASSUME NEW e \in OutEvents(c)
        PROVE  e \in OutEvents(b) \cup {f \in Nat : x.kind = "event" /\ x.id = f}
    BY <1>1, <1>2, <2>1 DEF OutEvents
  <2>2. OutEvents(b) \subseteq OutEvents(c)
    BY <1>1 DEF OutEvents
  <2>3. ASSUME NEW e \in Nat, x.kind = "event", x.id = e PROVE e \in OutEvents(c)
    <3>1. Len(b) + 1 \in 1..Len(c)
      BY <1>1
    <3> QED BY <1>1, <2>3, <3>1 DEF OutEvents
  <2> QED BY <2>1, <2>2, <2>3
<1>4. ASSUME OutRising(b), x.kind = "event" => Before(OutEvents(b), {x.id}) PROVE OutRising(c)
  <2> SUFFICES ASSUME NEW i \in 1..Len(c), NEW j \in 1..Len(c), i < j,
                      c[i].kind = "event", c[j].kind = "event"
               PROVE  c[i].id < c[j].id
    BY DEF OutRising
  <2>1. i \in 1..Len(b)
    BY <1>1
  <2>2. CASE j \in 1..Len(b)
    BY <1>1, <1>4, <2>1, <2>2 DEF OutRising
  <2>3. CASE j = Len(b) + 1
    <3>1. b[i] \in Message
      BY <2>1
    <3>2. b[i].id \in OutEvents(b)
      BY <1>1, <2>1, <3>1 DEF OutEvents, Message
    <3> QED BY <1>1, <1>4, <2>1, <2>3, <3>2 DEF Before
  <2> QED BY <1>2, <2>2, <2>3
<1> QED BY <1>3, <1>4

LEMMA LeaveOutbox ==
  ASSUME NEW b \in Seq(Message), b # <<>>, NEW c, c = Tail(b)
  PROVE  /\ Head(b) \in Message
         /\ OutEvents(c) \subseteq OutEvents(b)
         /\ OutRising(b) => OutRising(c)
         /\ Head(b).kind = "event" =>
              /\ Head(b).id \in OutEvents(b)
              /\ OutRising(b) => Before({Head(b).id}, OutEvents(c))
<1>1. /\ Head(b) = b[1] /\ Len(b) \in Nat /\ 1 \in 1..Len(b) /\ b[1] \in Message
      /\ c \in Seq(Message) /\ Len(c) = Len(b) - 1
      /\ \A i \in 1..Len(c) : i + 1 \in 1..Len(b) /\ c[i] = b[i + 1]
  BY TailFacts
<1>2. OutEvents(c) \subseteq OutEvents(b)
  BY <1>1 DEF OutEvents
<1>3. ASSUME OutRising(b) PROVE OutRising(c)
  <2> SUFFICES ASSUME NEW i \in 1..Len(c), NEW j \in 1..Len(c), i < j,
                      c[i].kind = "event", c[j].kind = "event"
               PROVE  c[i].id < c[j].id
    BY DEF OutRising
  <2>1. /\ i + 1 \in 1..Len(b) /\ j + 1 \in 1..Len(b) /\ i + 1 < j + 1
        /\ c[i] = b[i + 1] /\ c[j] = b[j + 1]
    BY <1>1
  <2> QED BY <1>3, <2>1 DEF OutRising
<1>4. ASSUME Head(b).kind = "event" PROVE Head(b).id \in OutEvents(b)
  BY <1>1, <1>4 DEF OutEvents, Message
<1>5. ASSUME Head(b).kind = "event", OutRising(b) PROVE Before({Head(b).id}, OutEvents(c))
  <2> SUFFICES ASSUME NEW i \in 1..Len(c), c[i].kind = "event" PROVE b[1].id < c[i].id
    BY <1>1 DEF Before, OutEvents
  <2>1. i + 1 \in 1..Len(b) /\ 1 < i + 1 /\ c[i] = b[i + 1]
    BY <1>1
  <2> QED BY <1>1, <1>5, <2>1 DEF OutRising
<1> QED BY <1>1, <1>2, <1>3, <1>4, <1>5

-----------------------------------------------------------------------------
\* What each step does to a stream.

\* The matcher publishes the next event.
LEMMA StreamGrows ==
  ASSUME NEW O \in SUBSET Nat, NEW W \in SUBSET O, NEW bus \in Seq(Nat), NEW out \in Seq(Message),
         NEW mail \in Seq(Nat), NEW seen \in Seq(Nat), NEW other \in BOOLEAN,
         NEW x \in Nat, NEW c, c = Append(bus, x),
         Before(O \cup Elems(mail) \cup Elems(seen), {x}),
         Stream(O, W, bus, out, mail, seen, other)
  PROVE  Stream(O \cup {x}, W \cup {x}, c, out, mail, seen, other)
<1> DEFINE V == W \cup {x}
           N == O \cup {x}
<1>0. /\ Elems(bus) \subseteq O /\ OutEvents(out) \subseteq O
      /\ Rising(bus, O) /\ OutRising(out) /\ Rising(mail, W)
      /\ Before(OutEvents(out), Elems(bus))
      /\ Before(Elems(mail) \cap W, OutEvents(out))
      /\ Before(Elems(mail) \cap W, Elems(bus))
  BY DEF Stream
<1>1. Joined(bus, c, x)
  BY JoinQueue
<1>2. x \notin Elems(mail) /\ x \notin Elems(seen) /\ x \notin O /\ x \notin W
  BY DEF Before
<1>3. /\ Elems(mail) \cap V = Elems(mail) \cap W /\ Elems(seen) \cap V = Elems(seen) \cap W
      /\ Elems(bus) \cap N = Elems(bus) \cap O /\ Elems(c) = Elems(bus) \cup {x}
  BY <1>0, <1>1, <1>2 DEF Joined
<1>4. ASSUME NEW q \in Seq(Nat), NEW A, NEW B, Elems(q) \cap A = Elems(q) \cap B, Rising(q, A)
      PROVE  Rising(q, B)
  <2>1. \A i \in 1..Len(q) : q[i] \in Elems(q)
    BY DEF Elems
  <2>2. \A i \in 1..Len(q) : q[i] \in B <=> q[i] \in A
    BY <1>4, <2>1
  <2> QED BY <1>4, <2>2 DEF Rising
<1>5. Rising(mail, V) /\ Rising(bus, N) /\ (Rising(seen, W) => Rising(seen, V))
  BY <1>0, <1>2, <1>3, <1>4
<1>6. Rising(c, N)
  <2>1. Before(Elems(bus) \cap N, {x})
    BY <1>0 DEF Before
  <2> QED BY <1>1, <1>5, <2>1 DEF Joined
<1>7. /\ Before(OutEvents(out), Elems(c)) /\ Before(Elems(mail) \cap V, OutEvents(out))
      /\ Before(Elems(mail) \cap V, Elems(c))
  <2>1. \A y \in OutEvents(out) \cup (Elems(mail) \cap V) : y < x
    BY <1>0, <1>3 DEF Before
  <2>2. Before(OutEvents(out), Elems(c))
    BY <1>0, <1>3, <2>1 DEF Before
  <2>3. Before(Elems(mail) \cap V, OutEvents(out))
    BY <1>0, <1>3
  <2>4. Before(Elems(mail) \cap V, Elems(c))
    BY <1>0, <1>3, <2>1 DEF Before
  <2> QED BY <2>2, <2>3, <2>4
<1>8. ASSUME other PROVE /\ Rising(seen, V)
                         /\ Before(Elems(seen) \cap V, Elems(mail) \cap V)
                         /\ Before(Elems(seen) \cap V, OutEvents(out))
                         /\ Before(Elems(seen) \cap V, Elems(c))
  <2>1. /\ Rising(seen, W)
        /\ Before(Elems(seen) \cap W, Elems(mail) \cap W)
        /\ Before(Elems(seen) \cap W, OutEvents(out))
        /\ Before(Elems(seen) \cap W, Elems(bus))
    BY <1>8 DEF Stream
  <2>2. Before(Elems(seen) \cap W, Elems(c))
    BY <2>1, <1>3 DEF Before
  <2> QED BY <1>3, <1>5, <2>1, <2>2
<1>9. ASSUME ~other, NEW e \in V
      PROVE  /\ Count(e, seen) <= 2
             /\ e \in OutEvents(out) \cup Elems(mail) => Count(e, seen) <= 1
             /\ e \in Elems(c) => Count(e, seen) = 0
  <2>1. CASE e \in W
    <3>1. e # x
      BY <1>2, <2>1
    <3> QED BY <1>3, <1>9, <2>1, <3>1 DEF Stream
  <2>2. CASE e = x
    <3>1. Count(e, seen) = 0
      BY <1>2, <2>2, CountIs
    <3> QED BY <3>1
  <2> QED BY <2>1, <2>2
<1>10. Elems(c) \subseteq N /\ OutEvents(out) \subseteq N
  BY <1>0, <1>3
<1> QED BY <1>0, <1>5, <1>6, <1>7, <1>8, <1>9, <1>10 DEF Stream

\* The dispatcher takes an event off the bus, for the publisher's own clients
\* and for its outbox.
LEMMA StreamHandled ==
  ASSUME NEW O \in SUBSET Nat, NEW W \in SUBSET O, NEW bus \in Seq(Nat), NEW out \in Seq(Message),
         NEW mail \in Seq(Nat), NEW seen \in Seq(Nat), NEW other \in BOOLEAN,
         bus # <<>>, NEW c, c = Tail(bus),
         NEW out2, out2 = out \/ out2 = Append(out, EventMessage(Head(bus))),
         NEW seen2, seen2 = seen \/ (~other /\ seen2 = Append(seen, Head(bus))),
         Stream(O, W, bus, out, mail, seen, other)
  PROVE  Stream(O, W, c, out2, mail, seen2, other)
<1> DEFINE x == Head(bus)
<1>0. /\ Elems(bus) \subseteq O /\ OutEvents(out) \subseteq O
      /\ Rising(bus, O) /\ OutRising(out) /\ Rising(mail, W)
      /\ Before(OutEvents(out), Elems(bus))
      /\ Before(Elems(mail) \cap W, OutEvents(out))
      /\ Before(Elems(mail) \cap W, Elems(bus))
  BY DEF Stream
<1>1. Left(bus, c, x)
  BY LeaveQueue
<1> HIDE DEF x
<1>2. x \in Elems(bus) /\ x \in O /\ x \in Nat /\ Elems(c) \subseteq Elems(bus) /\ Elems(c) \subseteq O
  BY <1>0, <1>1 DEF Left
<1>3. Rising(c, O) /\ Before({x}, Elems(c))
  <2>1. Elems(c) \cap O = Elems(c)
    BY <1>2
  <2> QED BY <1>0, <1>1, <1>2, <2>1 DEF Left
<1>4. /\ OutRising(out2)
      /\ OutEvents(out2) = OutEvents(out) \/ OutEvents(out2) = OutEvents(out) \cup {x}
  <2>1. CASE out2 = Append(out, EventMessage(x))
    <3> DEFINE y == EventMessage(x)
    <3>1. y \in Message /\ y.kind = "event" /\ y.id = x
      BY <1>2 DEF EventMessage, Message
    <3> HIDE DEF y
    <3>2. Before(OutEvents(out), {x})
      BY <1>0, <1>2 DEF Before
    <3>3. /\ OutEvents(out2) = OutEvents(out) \cup {e \in Nat : y.kind = "event" /\ y.id = e}
          /\ OutRising(out) /\ (y.kind = "event" => Before(OutEvents(out), {y.id})) => OutRising(out2)
      BY <2>1, <3>1, JoinOutbox DEF y
    <3>4. {e \in Nat : y.kind = "event" /\ y.id = e} = {x}
      BY <1>2, <3>1
    <3> QED BY <1>0, <3>1, <3>2, <3>3, <3>4
  <2>2. CASE out2 = out
    BY <1>0, <2>2
  <2> QED BY <2>1, <2>2 DEF x
<1>5. /\ Before(OutEvents(out2), Elems(c)) /\ OutEvents(out2) \subseteq O
      /\ Before(Elems(mail) \cap W, OutEvents(out2)) /\ Before(Elems(mail) \cap W, Elems(c))
  BY <1>0, <1>2, <1>3, <1>4 DEF Before
<1>6. ASSUME other PROVE /\ Rising(seen2, W)
                         /\ Before(Elems(seen2) \cap W, Elems(mail) \cap W)
                         /\ Before(Elems(seen2) \cap W, OutEvents(out2))
                         /\ Before(Elems(seen2) \cap W, Elems(c))
  <2>1. /\ Rising(seen, W)
        /\ Before(Elems(seen) \cap W, Elems(mail) \cap W)
        /\ Before(Elems(seen) \cap W, OutEvents(out))
        /\ Before(Elems(seen) \cap W, Elems(bus))
    BY <1>6 DEF Stream
  <2>2. seen2 = seen
    BY <1>6
  <2>3. Before(Elems(seen) \cap W, OutEvents(out2)) /\ Before(Elems(seen) \cap W, Elems(c))
    BY <1>2, <1>4, <2>1 DEF Before
  <2> QED BY <2>1, <2>2, <2>3
<1>7. ASSUME ~other, NEW e \in W
      PROVE  /\ Count(e, seen2) <= 2
             /\ e \in OutEvents(out2) \cup Elems(mail) => Count(e, seen2) <= 1
             /\ e \in Elems(c) => Count(e, seen2) = 0
  <2>0. /\ Count(e, seen) \in Nat /\ Count(e, seen) <= 2
        /\ e \in OutEvents(out) \cup Elems(mail) => Count(e, seen) <= 1
        /\ e \in Elems(bus) => Count(e, seen) = 0
    BY <1>7, CountIs DEF Stream
  <2>1. Count(e, seen2) = Count(e, seen) \/ (e = x /\ Count(e, seen2) = Count(e, seen) + 1)
    <3>1. CASE seen2 = Append(seen, x)
      <4>1. Joined(seen, seen2, x) /\ e \in Nat
        BY <1>2, <3>1, JoinQueue
      <4> QED BY <4>1, <2>0 DEF Joined
    <3>2. CASE seen2 = seen
      BY <3>2
    <3> QED BY <3>1, <3>2 DEF x
  <2>2. CASE e = x
    <3>1. Count(e, seen) = 0 /\ e \notin Elems(c)
      BY <1>2, <1>3, <2>0, <2>2 DEF Before
    <3>2. Count(e, seen2) \in {0, 1}
      BY <3>1, <2>1
    <3> QED BY <3>1, <3>2
  <2>3. CASE e # x
    <3>1. Count(e, seen2) = Count(e, seen)
      BY <2>1, <2>3
    <3>2. e \in OutEvents(out2) => e \in OutEvents(out)
      BY <1>4, <2>3
    <3> QED BY <1>2, <2>0, <3>1, <3>2
  <2> QED BY <2>2, <2>3
<1> QED BY <1>0, <1>2, <1>3, <1>4, <1>5, <1>6, <1>7 DEF Stream

\* A receiver hands an event from its mailbox to its clients, if they are
\* still served.
LEMMA StreamTaken ==
  ASSUME NEW O \in SUBSET Nat, NEW W \in SUBSET O, NEW bus \in Seq(Nat), NEW out \in Seq(Message),
         NEW mail \in Seq(Nat), NEW seen \in Seq(Nat), NEW other \in BOOLEAN,
         mail # <<>>, NEW c, c = Tail(mail),
         NEW seen2, seen2 = seen \/ seen2 = Append(seen, Head(mail)),
         Stream(O, W, bus, out, mail, seen, other)
  PROVE  Stream(O, W, bus, out, c, seen2, other)
<1> DEFINE x == Head(mail)
<1>0. /\ Elems(bus) \subseteq O /\ OutEvents(out) \subseteq O
      /\ Rising(bus, O) /\ OutRising(out) /\ Rising(mail, W)
      /\ Before(OutEvents(out), Elems(bus))
      /\ Before(Elems(mail) \cap W, OutEvents(out))
      /\ Before(Elems(mail) \cap W, Elems(bus))
  BY DEF Stream
<1>1. Left(mail, c, x)
  BY LeaveQueue
<1> HIDE DEF x
<1>2. x \in Elems(mail) /\ x \in Nat /\ Elems(c) \subseteq Elems(mail)
  BY <1>1 DEF Left
<1>3. Rising(c, W) /\ (x \in W => Before({x}, Elems(c) \cap W))
  BY <1>0, <1>1 DEF Left
<1>4. Before(Elems(c) \cap W, OutEvents(out)) /\ Before(Elems(c) \cap W, Elems(bus))
  BY <1>0, <1>2 DEF Before
<1>5. seen2 = seen \/ Joined(seen, seen2, x)
  BY <1>2, JoinQueue DEF x
<1>6. ASSUME other PROVE /\ Rising(seen2, W)
                         /\ Before(Elems(seen2) \cap W, Elems(c) \cap W)
                         /\ Before(Elems(seen2) \cap W, OutEvents(out))
                         /\ Before(Elems(seen2) \cap W, Elems(bus))
  <2>1. /\ Rising(seen, W)
        /\ Before(Elems(seen) \cap W, Elems(mail) \cap W)
        /\ Before(Elems(seen) \cap W, OutEvents(out))
        /\ Before(Elems(seen) \cap W, Elems(bus))
    BY <1>6 DEF Stream
  <2>2. CASE seen2 = seen
    BY <1>2, <2>1, <2>2 DEF Before
  <2>3. CASE Joined(seen, seen2, x)
    <3>1. x \in W => Before(Elems(seen) \cap W, {x})
      BY <1>2, <2>1 DEF Before
    <3>2. Rising(seen2, W) /\ Elems(seen2) = Elems(seen) \cup {x}
      BY <2>1, <2>3, <3>1 DEF Joined
    <3>3. x \in W => Before({x}, OutEvents(out)) /\ Before({x}, Elems(bus))
      BY <1>0, <1>2 DEF Before
    <3> QED BY <1>2, <1>3, <2>1, <3>2, <3>3 DEF Before
  <2> QED BY <1>5, <2>2, <2>3
<1>7. ASSUME ~other, NEW e \in W
      PROVE  /\ Count(e, seen2) <= 2
             /\ e \in OutEvents(out) \cup Elems(c) => Count(e, seen2) <= 1
             /\ e \in Elems(bus) => Count(e, seen2) = 0
  <2>0. /\ Count(e, seen) \in Nat /\ Count(e, seen) <= 2
        /\ e \in OutEvents(out) \cup Elems(mail) => Count(e, seen) <= 1
        /\ e \in Elems(bus) => Count(e, seen) = 0
    BY <1>7, CountIs DEF Stream
  <2>1. Count(e, seen2) = Count(e, seen) \/ (e = x /\ Count(e, seen2) = Count(e, seen) + 1)
    <3>1. CASE Joined(seen, seen2, x)
      BY SMTT(30), <2>0, <3>1 DEF Joined
    <3> QED BY <1>5, <3>1
  <2>2. CASE e = x
    <3>1. e \notin Elems(c) /\ e \notin OutEvents(out) /\ e \notin Elems(bus)
      BY <1>0, <1>2, <1>3, <2>2 DEF Before
    <3>2. Count(e, seen) <= 1
      BY <1>2, <2>0, <2>2
    <3> QED BY <2>0, <2>1, <3>1, <3>2
  <2>3. CASE e # x
    BY <1>2, <2>0, <2>1, <2>3
  <2> QED BY <2>2, <2>3
<1> QED BY <1>0, <1>3, <1>4, <1>6, <1>7 DEF Stream

\* The message server takes an event off the outbox and delivers it to this
\* receiver, or not.
LEMMA StreamRouted ==
  ASSUME NEW O \in SUBSET Nat, NEW W \in SUBSET O, NEW bus \in Seq(Nat), NEW out \in Seq(Message),
         NEW mail \in Seq(Nat), NEW seen \in Seq(Nat), NEW other \in BOOLEAN,
         out # <<>>, NEW c, c = Tail(out),
         NEW mail2, mail2 = mail \/ (Head(out).kind = "event" /\ mail2 = Append(mail, Head(out).id)),
         Stream(O, W, bus, out, mail, seen, other)
  PROVE  Stream(O, W, bus, c, mail2, seen, other)
<1> DEFINE x == Head(out).id
<1>0. /\ Elems(bus) \subseteq O /\ OutEvents(out) \subseteq O
      /\ Rising(bus, O) /\ OutRising(out) /\ Rising(mail, W)
      /\ Before(OutEvents(out), Elems(bus))
      /\ Before(Elems(mail) \cap W, OutEvents(out))
      /\ Before(Elems(mail) \cap W, Elems(bus))
  BY DEF Stream
<1>1. /\ Head(out) \in Message
      /\ OutEvents(c) \subseteq OutEvents(out) /\ OutRising(c)
      /\ Head(out).kind = "event" => x \in OutEvents(out) /\ Before({x}, OutEvents(c))
  BY <1>0, LeaveOutbox
<1>2. x \in Nat
  BY <1>1 DEF Message
<1> HIDE DEF x
<1>3. \/ mail2 = mail
      \/ Joined(mail, mail2, x) /\ x \in OutEvents(out) /\ Before({x}, OutEvents(c))
  BY <1>1, <1>2, JoinQueue DEF x
<1>4. CASE mail2 = mail
  <2>1. Before(OutEvents(c), Elems(bus)) /\ Before(Elems(mail) \cap W, OutEvents(c))
    BY <1>0, <1>1 DEF Before
  <2>2. other => /\ Rising(seen, W)
                 /\ Before(Elems(seen) \cap W, Elems(mail) \cap W)
                 /\ Before(Elems(seen) \cap W, OutEvents(c))
                 /\ Before(Elems(seen) \cap W, Elems(bus))
    BY <1>1 DEF Stream, Before
  <2>3. ~other => \A e \in W : /\ Count(e, seen) <= 2
                               /\ e \in OutEvents(c) \cup Elems(mail) => Count(e, seen) <= 1
                               /\ e \in Elems(bus) => Count(e, seen) = 0
    BY <1>1 DEF Stream
  <2> QED BY <1>0, <1>1, <1>4, <2>1, <2>2, <2>3 DEF Stream
<1>5. CASE Joined(mail, mail2, x) /\ x \in OutEvents(out) /\ Before({x}, OutEvents(c))
  <2>1. Before(Elems(mail) \cap W, {x})
    BY <1>0, <1>5 DEF Before
  <2>2. Rising(mail2, W) /\ Elems(mail2) = Elems(mail) \cup {x}
    BY <1>0, <1>5, <2>1 DEF Joined
  <2>3. /\ Before(OutEvents(c), Elems(bus)) /\ Before(Elems(mail2) \cap W, OutEvents(c))
        /\ Before(Elems(mail2) \cap W, Elems(bus))
    BY <1>0, <1>1, <1>5, <2>2 DEF Before
  <2>4. ASSUME other PROVE /\ Rising(seen, W)
                           /\ Before(Elems(seen) \cap W, Elems(mail2) \cap W)
                           /\ Before(Elems(seen) \cap W, OutEvents(c))
                           /\ Before(Elems(seen) \cap W, Elems(bus))
    <3>1. /\ Rising(seen, W)
          /\ Before(Elems(seen) \cap W, Elems(mail) \cap W)
          /\ Before(Elems(seen) \cap W, OutEvents(out))
          /\ Before(Elems(seen) \cap W, Elems(bus))
      BY <2>4 DEF Stream
    <3> QED BY <1>1, <1>5, <2>2, <3>1 DEF Before
  <2>5. ~other => \A e \in W : /\ Count(e, seen) <= 2
                               /\ e \in OutEvents(c) \cup Elems(mail2) => Count(e, seen) <= 1
                               /\ e \in Elems(bus) => Count(e, seen) = 0
    BY <1>1, <1>5, <2>2 DEF Stream
  <2> QED BY <1>0, <1>1, <2>2, <2>3, <2>4, <2>5 DEF Stream
<1> QED BY <1>3, <1>4, <1>5

\* Another publisher's event joins the mailbox, or the clients are shown one;
\* the process ends, with its bus or its mailbox; an order joins the outbox.
Aside(W, x, o, bus, bus2, out, out2, mail, mail2, seen, seen2) ==
  /\ x \in Nat \ W /\ o \in Nat
  /\ bus2 = bus \/ bus2 = <<>>
  /\ out2 = out \/ out2 = Append(out, OrderMessage(o))
  /\ mail2 = mail \/ mail2 = Append(mail, x) \/ mail2 = <<>>
  /\ seen2 = seen \/ seen2 = Append(seen, x)

LEMMA StreamAside ==
  ASSUME NEW O \in SUBSET Nat, NEW W \in SUBSET O, NEW bus \in Seq(Nat), NEW out \in Seq(Message),
         NEW mail \in Seq(Nat), NEW seen \in Seq(Nat), NEW other \in BOOLEAN,
         NEW x, NEW o, NEW bus2, NEW out2, NEW mail2, NEW seen2,
         Aside(W, x, o, bus, bus2, out, out2, mail, mail2, seen, seen2),
         Stream(O, W, bus, out, mail, seen, other)
  PROVE  Stream(O, W, bus2, out2, mail2, seen2, other)
<1> USE DEF Aside
<1>0. /\ Elems(bus) \subseteq O /\ OutEvents(out) \subseteq O
      /\ Rising(bus, O) /\ OutRising(out) /\ Rising(mail, W)
      /\ Before(OutEvents(out), Elems(bus))
      /\ Before(Elems(mail) \cap W, OutEvents(out))
      /\ Before(Elems(mail) \cap W, Elems(bus))
  BY DEF Stream
<1>1. Elems(<<>>) = {} /\ Rising(<<>>, W) /\ Rising(<<>>, O)
  BY DEF Elems, Rising
<1>2. Elems(bus2) \subseteq Elems(bus) /\ Rising(bus2, O)
  BY <1>0, <1>1
<1>3. OutRising(out2) /\ OutEvents(out2) = OutEvents(out)
  <2> DEFINE y == OrderMessage(o)
  <2>1. y \in Message /\ y.kind = "order"
    BY DEF OrderMessage, Message
  <2> HIDE DEF y
  <2>2. CASE out2 = Append(out, y)
    <3>1. /\ OutEvents(out2) = OutEvents(out) \cup {e \in Nat : y.kind = "event" /\ y.id = e}
          /\ OutRising(out) /\ (y.kind = "event" => Before(OutEvents(out), {y.id})) => OutRising(out2)
      BY <2>1, <2>2, JoinOutbox
    <3>2. y.kind # "event"
      BY <2>1
    <3>3. {e \in Nat : y.kind = "event" /\ y.id = e} = {}
      BY <3>2
    <3> QED BY <1>0, <3>1, <3>2, <3>3
  <2> QED BY <1>0, <2>2 DEF y
<1>4. Elems(mail2) \cap W \subseteq Elems(mail) \cap W /\ Rising(mail2, W)
  <2>1. CASE mail2 = Append(mail, x)
    <3>1. Joined(mail, mail2, x)
      BY <2>1, JoinQueue
    <3> QED BY <1>0, <3>1 DEF Joined
  <2> QED BY <1>0, <1>1, <2>1
<1>5. seen2 = seen \/ Joined(seen, seen2, x)
  BY JoinQueue
<1>6. /\ Elems(seen2) \cap W = Elems(seen) \cap W
      /\ Rising(seen, W) => Rising(seen2, W)
      /\ \A e \in W : Count(e, seen2) = Count(e, seen)
  <2>1. CASE Joined(seen, seen2, x)
    <3>1. Elems(seen2) = Elems(seen) \cup {x} /\ x \notin W /\ (Rising(seen, W) => Rising(seen2, W))
      BY <2>1 DEF Joined
    <3>2. ASSUME NEW e \in W PROVE Count(e, seen2) = Count(e, seen)
      <4>1. e \in Nat /\ e # x /\ Count(e, seen) \in Nat
        BY CountIs
      <4> QED BY <2>1, <4>1 DEF Joined
    <3> QED BY <3>1, <3>2
  <2> QED BY <1>5, <2>1
<1>7. /\ Before(OutEvents(out2), Elems(bus2)) /\ Before(Elems(mail2) \cap W, OutEvents(out2))
      /\ Before(Elems(mail2) \cap W, Elems(bus2))
  BY <1>0, <1>2, <1>3, <1>4 DEF Before
<1>8. other => /\ Rising(seen2, W)
               /\ Before(Elems(seen2) \cap W, Elems(mail2) \cap W)
               /\ Before(Elems(seen2) \cap W, OutEvents(out2))
               /\ Before(Elems(seen2) \cap W, Elems(bus2))
  BY <1>2, <1>3, <1>4, <1>6 DEF Stream, Before
<1>9. ~other => \A e \in W : /\ Count(e, seen2) <= 2
                             /\ e \in OutEvents(out2) \cup Elems(mail2) => Count(e, seen2) <= 1
                             /\ e \in Elems(bus2) => Count(e, seen2) = 0
  BY <1>2, <1>3, <1>4, <1>6 DEF Stream
<1> QED BY <1>0, <1>2, <1>3, <1>4, <1>7, <1>8, <1>9 DEF Stream

\* An event is sent again: it is no longer one of those in order.
LEMMA StreamThins ==
  ASSUME NEW O \in SUBSET Nat, NEW W \in SUBSET O, NEW V \in SUBSET W, NEW bus, NEW out,
         NEW mail \in Seq(Nat), NEW seen \in Seq(Nat), NEW other \in BOOLEAN,
         Stream(O, W, bus, out, mail, seen, other)
  PROVE  Stream(O, V, bus, out, mail, seen, other)
<1>1. \A q : Rising(q, W) => Rising(q, V)
  BY DEF Rising
<1>2. \A S, T : Before(S \cap W, T) => Before(S \cap V, T) /\ Before(S \cap V, T \cap V)
  BY DEF Before
<1>3. \A S, T : Before(S \cap W, T \cap W) => Before(S \cap V, T \cap V)
  BY DEF Before
<1>4. /\ Elems(bus) \subseteq O /\ OutEvents(out) \subseteq O
      /\ Rising(bus, O) /\ OutRising(out) /\ Rising(mail, V)
      /\ Before(OutEvents(out), Elems(bus))
      /\ Before(Elems(mail) \cap V, OutEvents(out))
      /\ Before(Elems(mail) \cap V, Elems(bus))
  BY <1>1, <1>2 DEF Stream
<1>5. ASSUME other PROVE /\ Rising(seen, V)
                         /\ Before(Elems(seen) \cap V, Elems(mail) \cap V)
                         /\ Before(Elems(seen) \cap V, OutEvents(out))
                         /\ Before(Elems(seen) \cap V, Elems(bus))
  BY <1>1, <1>2, <1>3, <1>5 DEF Stream
<1>6. ASSUME ~other, NEW e \in V
      PROVE  /\ Count(e, seen) <= 2
             /\ e \in OutEvents(out) \cup Elems(mail) => Count(e, seen) <= 1
             /\ e \in Elems(bus) => Count(e, seen) = 0
  BY <1>6 DEF Stream
<1> QED BY <1>4, <1>5, <1>6 DEF Stream

LEMMA EventsInit == ClusterInit => EventsInOrder
<1> SUFFICES ASSUME ClusterInit PROVE EventsInOrder
  OBVIOUS
<1>1. /\ \A n \in Instances : /\ outbox[n] = <<>> /\ eventMail[n] = <<>>
                              /\ eventBus[n] = <<>> /\ shown[n] = <<>>
      /\ eventMail \in [Instances -> Seq(Nat)] /\ shown \in [Instances -> Seq(Nat)]
      /\ matched = <<>> /\ resent = {} /\ copies = [n \in Instances |-> {}]
  BY DEF ClusterInit
<1>2. \A p : Own(<<>>, p) = {}
  BY DEF Own
<1>3. Elems(<<>>) = {} /\ OutEvents(<<>>) = {} /\ OutRising(<<>>) /\ \A W : Rising(<<>>, W)
  BY DEF Elems, OutEvents, OutRising, Rising
<1>4. \A other \in BOOLEAN : Stream({}, {}, <<>>, <<>>, <<>>, <<>>, other)
  BY <1>3 DEF Stream, Before
<1>5. \A m, p \in Instances :
        Stream(Own(matched, p), Own(matched, p) \ resent, eventBus[p], outbox[p],
               eventMail[m], shown[m], m # p)
  BY <1>1, <1>2, <1>4
<1>6. \A m \in Instances : Elems(eventMail[m]) \cup Elems(shown[m]) \subseteq 1..Len(matched)
  BY <1>1, <1>3
<1>7. resent \subseteq 1..Len(matched) /\ copies \in [Instances -> SUBSET resent]
  BY <1>1
<1> QED BY <1>1, <1>5, <1>6, <1>7 DEF EventsInOrder

\* A step that leaves the matched orders alone keeps the events in order if it
\* keeps each stream and brings nothing into a mailbox or to a client but
\* events there are.
LEMMA StreamsKept ==
  ASSUME EventsInOrder, matched' = matched, UNCHANGED <<config, retryVars>>,
         eventMail' \in [Instances -> Seq(Nat)], shown' \in [Instances -> Seq(Nat)],
         \A m \in Instances : Elems(eventMail'[m]) \cup Elems(shown'[m]) \subseteq 1..Len(matched),
         \A m, p \in Instances :
           Stream(Own(matched, p), Own(matched, p) \ resent, eventBus'[p], outbox'[p],
                  eventMail'[m], shown'[m], m # p)
  PROVE  EventsInOrder'
BY DEF EventsInOrder, retryVars

LEMMA EventsMatch ==
  ASSUME ClusterTypes, EventsInOrder, NEW n \in Instances, NEW s \in Stocks, MatchOrder(n, s)
  PROVE  EventsInOrder'
<1> DEFINE T == [order : Nat, by : Instances]
           r == [order |-> Head(engineCh[n][s]), by |-> n]
           x == Len(matched) + 1
<1>0. /\ outbox \in [Instances -> Seq(Message)] /\ eventBus \in [Instances -> Seq(Nat)]
      /\ eventMail \in [Instances -> Seq(Nat)] /\ shown \in [Instances -> Seq(Nat)]
      /\ matched \in Seq(T) /\ engineCh \in Queues
  BY DEF ClusterTypes, EventsInOrder
<1>1. /\ matched' = Append(matched, r) /\ eventBus' = [eventBus EXCEPT ![n] = Append(@, Len(matched'))]
      /\ engineCh[n][s] # <<>> /\ UNCHANGED <<outbox, eventMail, shown, config, resent, copies>>
  BY DEF MatchOrder, messageVars, retryVars
<1>2. r \in T /\ r.by = n
  <2>1. engineCh[n][s] \in Seq(Nat)
    BY <1>0 DEF Queues
  <2>2. Head(engineCh[n][s]) \in Nat
    BY <1>1, <2>1
  <2> QED BY <2>2
<1> HIDE DEF T, r
<1>3. /\ Len(matched) \in Nat /\ Len(matched') = x
      /\ matched'[x] = r /\ \A i \in 1..Len(matched) : matched'[i] = matched[i]
  BY <1>0, <1>1, <1>2
<1>4. ASSUME NEW p \in Instances
      PROVE  Own(matched', p) = IF p = n THEN Own(matched, p) \cup {x} ELSE Own(matched, p)
  <2>1. \A i \in 1..Len(matched') : i = x \/ i \in 1..Len(matched)
    BY <1>3
  <2>2. x \in 1..Len(matched') /\ 1..Len(matched) \subseteq 1..Len(matched')
    BY <1>3
  <2> QED BY <1>2, <1>3, <2>1, <2>2 DEF Own
<1>5. ASSUME NEW m \in Instances, NEW p \in Instances
      PROVE  Stream(Own(matched', p), Own(matched', p) \ resent', eventBus'[p], outbox'[p],
                    eventMail'[m], shown'[m], m # p)
  <2>0. /\ Stream(Own(matched, p), Own(matched, p) \ resent, eventBus[p], outbox[p],
                  eventMail[m], shown[m], m # p)
        /\ outbox'[p] = outbox[p] /\ eventMail'[m] = eventMail[m] /\ shown'[m] = shown[m]
        /\ eventBus[p] \in Seq(Nat) /\ outbox[p] \in Seq(Message)
        /\ eventMail[m] \in Seq(Nat) /\ shown[m] \in Seq(Nat)
    BY <1>0, <1>1 DEF EventsInOrder
  <2>1. CASE p = n
    <3>1. eventBus'[p] = Append(eventBus[p], x)
      BY <1>0, <1>1, <1>3, <2>1
    <3>2. Before(Own(matched, p) \cup Elems(eventMail[m]) \cup Elems(shown[m]), {x})
      <4>1. Own(matched, p) \cup Elems(eventMail[m]) \cup Elems(shown[m]) \subseteq 1..Len(matched)
        BY DEF EventsInOrder, Own
      <4> QED BY <1>3, <4>1 DEF Before
    <3>3. Own(matched, p) \in SUBSET Nat /\ (m # p) \in BOOLEAN /\ x \in Nat
      BY <1>3 DEF Own
    <3>4. Own(matched, p) \ resent \in SUBSET Own(matched, p)
      OBVIOUS
    <3>5. Stream(Own(matched, p) \cup {x}, (Own(matched, p) \ resent) \cup {x}, eventBus'[p],
                 outbox[p], eventMail[m], shown[m], m # p)
      BY <2>0, <3>1, <3>2, <3>3, <3>4, StreamGrows
    <3>6. x \notin resent
      BY <1>3 DEF EventsInOrder
    <3>7. (Own(matched, p) \ resent) \cup {x} = Own(matched', p) \ resent'
      BY <1>1, <1>4, <2>1, <3>6
    <3> QED BY <1>4, <2>0, <2>1, <3>5, <3>7
  <2>2. CASE p # n
    <3>1. eventBus'[p] = eventBus[p]
      BY <1>0, <1>1, <2>2
    <3> QED BY <1>1, <1>4, <2>0, <2>2, <3>1
  <2> QED BY <2>1, <2>2
<1>6. ASSUME NEW m \in Instances
      PROVE  Elems(eventMail'[m]) \cup Elems(shown'[m]) \subseteq 1..Len(matched')
  <2>1. Elems(eventMail[m]) \cup Elems(shown[m]) \subseteq 1..Len(matched)
    BY DEF EventsInOrder
  <2>2. 1..Len(matched) \subseteq 1..Len(matched')
    BY <1>3
  <2> QED BY <1>1, <2>1, <2>2
<1>7. eventMail' \in [Instances -> Seq(Nat)] /\ shown' \in [Instances -> Seq(Nat)]
  BY <1>0, <1>1
<1>8. /\ resent' \subseteq 1..Len(matched') /\ copies' \in [Instances -> SUBSET resent']
      /\ config'.fanout # "redis" => resent' = {}
  <2>1. 1..Len(matched) \subseteq 1..Len(matched')
    BY <1>3
  <2> QED BY <1>1, <2>1 DEF EventsInOrder
<1> QED BY <1>5, <1>6, <1>7, <1>8 DEF EventsInOrder

\* Where the events of one publisher are, the others' are aside.
LEMMA OwnApart ==
  ASSUME NEW M, NEW n \in Instances, NEW p \in Instances, n # p, Len(M) \in Nat
  PROVE  /\ Own(M, p) \in SUBSET Nat /\ Own(M, n) \subseteq 1..Len(M)
         /\ \A e \in Own(M, n) : e \in Nat \ Own(M, p)
BY DEF Own

LEMMA FamilyTypes ==
  ASSUME NEW f \in [Instances -> Seq(Nat)], NEW n \in Instances, NEW x \in Nat
  PROVE  /\ [f EXCEPT ![n] = Append(@, x)] \in [Instances -> Seq(Nat)]
         /\ f[n] # <<>> => [f EXCEPT ![n] = Tail(@)] \in [Instances -> Seq(Nat)]
         /\ [f EXCEPT ![n] = <<>>] \in [Instances -> Seq(Nat)]
         /\ \A S : [m \in Instances |-> IF m \in S THEN Append(f[m], x) ELSE f[m]]
                     \in [Instances -> Seq(Nat)]
<1>1. \A m \in Instances : f[m] \in Seq(Nat) /\ Append(f[m], x) \in Seq(Nat)
  OBVIOUS
<1>2. f[n] # <<>> => Tail(f[n]) \in Seq(Nat)
  BY <1>1
<1>3. <<>> \in Seq(Nat)
  OBVIOUS
<1> QED BY <1>1, <1>2, <1>3

LEMMA EventsHandle ==
  ASSUME ClusterTypes, EventsInOrder, NEW n \in Instances, HandleEvent(n)
  PROVE  EventsInOrder'
<1> DEFINE x == Head(eventBus[n])
<1>0. /\ outbox \in [Instances -> Seq(Message)] /\ eventBus \in [Instances -> Seq(Nat)]
      /\ eventMail \in [Instances -> Seq(Nat)] /\ shown \in [Instances -> Seq(Nat)]
      /\ Len(matched) \in Nat
  BY DEF ClusterTypes, EventsInOrder
<1>1. /\ eventBus[n] # <<>> /\ eventBus' = [eventBus EXCEPT ![n] = Tail(@)]
      /\ outbox' = outbox \/ outbox' = [outbox EXCEPT ![n] = Append(@, EventMessage(x))]
      /\ shown' = shown \/ shown' = [shown EXCEPT ![n] = Append(@, x)]
      /\ UNCHANGED <<eventMail, matched, config, retryVars>>
  BY DEF HandleEvent, Broadcast
<1>2. x \in Own(matched, n) /\ x \in Nat
  <2>1. Left(eventBus[n], Tail(eventBus[n]), x)
    BY <1>0, <1>1, LeaveQueue
  <2>2. Elems(eventBus[n]) \subseteq Own(matched, n)
    BY DEF EventsInOrder, Stream
  <2> QED BY <2>1, <2>2 DEF Left
<1> HIDE DEF x
<1>3. shown' \in [Instances -> Seq(Nat)]
  <2>1. [shown EXCEPT ![n] = Append(@, x)] \in [Instances -> Seq(Nat)]
    BY <1>0, <1>2, FamilyTypes
  <2> QED BY <1>0, <1>1, <2>1
<1>4. ASSUME NEW m \in Instances
      PROVE  Elems(eventMail'[m]) \cup Elems(shown'[m]) \subseteq 1..Len(matched)
  <2>1. Elems(eventMail[m]) \cup Elems(shown[m]) \subseteq 1..Len(matched)
    BY DEF EventsInOrder
  <2>2. shown'[m] = shown[m] \/ shown'[m] = Append(shown[m], x)
    BY <1>0, <1>1
  <2>3. shown'[m] = shown[m] \/ Joined(shown[m], shown'[m], x)
    BY <1>0, <1>2, <2>2, JoinQueue
  <2>4. x \in 1..Len(matched)
    BY <1>2 DEF Own
  <2> QED BY <1>1, <2>1, <2>3, <2>4 DEF Joined
<1>5. ASSUME NEW m \in Instances, NEW p \in Instances
      PROVE  Stream(Own(matched, p), Own(matched, p) \ resent, eventBus'[p], outbox'[p],
                    eventMail'[m], shown'[m], m # p)
  <2>0. /\ Stream(Own(matched, p), Own(matched, p) \ resent, eventBus[p], outbox[p],
                  eventMail[m], shown[m], m # p)
        /\ eventMail'[m] = eventMail[m]
        /\ eventBus[p] \in Seq(Nat) /\ outbox[p] \in Seq(Message)
        /\ eventMail[m] \in Seq(Nat) /\ shown[m] \in Seq(Nat)
    BY <1>0, <1>1 DEF EventsInOrder
  <2>a. /\ Own(matched, p) \in SUBSET Nat /\ (m # p) \in BOOLEAN
        /\ Own(matched, p) \ resent \in SUBSET Own(matched, p)
    BY DEF Own
  <2>1. CASE p = n
    <3>1. /\ eventBus[p] # <<>> /\ eventBus'[p] = Tail(eventBus[p])
          /\ outbox'[p] = outbox[p] \/ outbox'[p] = Append(outbox[p], EventMessage(Head(eventBus[p])))
          /\ \/ shown'[m] = shown[m]
             \/ ~(m # p) /\ shown'[m] = Append(shown[m], Head(eventBus[p]))
      BY <1>0, <1>1, <2>1 DEF x
    <3> QED BY <2>0, <2>a, <3>1, StreamHandled
  <2>2. CASE p # n
    <3>1. /\ eventBus'[p] = eventBus[p] /\ outbox'[p] = outbox[p]
          /\ shown'[m] = shown[m] \/ shown'[m] = Append(shown[m], x)
      BY <1>0, <1>1, <2>2
    <3>2. x \in Nat \ (Own(matched, p) \ resent) /\ 0 \in Nat
      BY <1>0, <1>2, <2>2, OwnApart
    <3>3. CASE shown'[m] = shown[m]
      BY <2>0, <3>1, <3>3
    <3>4. CASE shown'[m] = Append(shown[m], x)
      <4>1. Aside(Own(matched, p) \ resent, x, 0, eventBus[p], eventBus'[p], outbox[p], outbox'[p],
                  eventMail[m], eventMail'[m], shown[m], shown'[m])
        BY <2>0, <3>1, <3>2, <3>4 DEF Aside
      <4> QED BY <2>0, <2>a, <4>1, StreamAside
    <3> QED BY <3>1, <3>3, <3>4
  <2> QED BY <2>1, <2>2
<1> QED BY <1>0, <1>1, <1>3, <1>4, <1>5, StreamsKept

LEMMA EventsTake ==
  ASSUME ClusterTypes, EventsInOrder, NEW n \in Instances, TakeEvent(n)
  PROVE  EventsInOrder'
<1> DEFINE x == Head(eventMail[n])
<1>0. /\ outbox \in [Instances -> Seq(Message)] /\ eventBus \in [Instances -> Seq(Nat)]
      /\ eventMail \in [Instances -> Seq(Nat)] /\ shown \in [Instances -> Seq(Nat)]
      /\ Len(matched) \in Nat
  BY DEF ClusterTypes, EventsInOrder
<1>1. /\ eventMail[n] # <<>> /\ eventMail' = [eventMail EXCEPT ![n] = Tail(@)]
      /\ shown' = shown \/ shown' = [shown EXCEPT ![n] = Append(@, x)]
      /\ UNCHANGED <<eventBus, outbox, matched, config, retryVars>>
  BY DEF TakeEvent, Broadcast, engineVars
<1>2. Left(eventMail[n], Tail(eventMail[n]), x)
  BY <1>0, <1>1, LeaveQueue
<1>3. x \in 1..Len(matched) /\ x \in Nat
  BY <1>2 DEF Left, EventsInOrder
<1> HIDE DEF x
<1>4. eventMail' \in [Instances -> Seq(Nat)] /\ shown' \in [Instances -> Seq(Nat)]
  <2>1. /\ [shown EXCEPT ![n] = Append(@, x)] \in [Instances -> Seq(Nat)]
        /\ [eventMail EXCEPT ![n] = Tail(@)] \in [Instances -> Seq(Nat)]
    BY <1>0, <1>1, <1>3, FamilyTypes
  <2> QED BY <1>0, <1>1, <2>1
<1>5. ASSUME NEW m \in Instances
      PROVE  Elems(eventMail'[m]) \cup Elems(shown'[m]) \subseteq 1..Len(matched)
  <2>1. Elems(eventMail[m]) \cup Elems(shown[m]) \subseteq 1..Len(matched)
    BY DEF EventsInOrder
  <2>2. /\ shown'[m] = shown[m] \/ shown'[m] = Append(shown[m], x)
        /\ eventMail'[m] = eventMail[m] \/ (m = n /\ eventMail'[m] = Tail(eventMail[m]))
    BY <1>0, <1>1
  <2>3. shown'[m] = shown[m] \/ Joined(shown[m], shown'[m], x)
    BY <1>0, <1>3, <2>2, JoinQueue
  <2>4. Elems(eventMail'[m]) \subseteq Elems(eventMail[m])
    BY <1>2, <2>2 DEF Left
  <2> QED BY <1>3, <2>1, <2>3, <2>4 DEF Joined
<1>6. ASSUME NEW m \in Instances, NEW p \in Instances
      PROVE  Stream(Own(matched, p), Own(matched, p) \ resent, eventBus'[p], outbox'[p],
                    eventMail'[m], shown'[m], m # p)
  <2>0. /\ Stream(Own(matched, p), Own(matched, p) \ resent, eventBus[p], outbox[p],
                  eventMail[m], shown[m], m # p)
        /\ eventBus'[p] = eventBus[p] /\ outbox'[p] = outbox[p]
        /\ eventBus[p] \in Seq(Nat) /\ outbox[p] \in Seq(Message)
        /\ eventMail[m] \in Seq(Nat) /\ shown[m] \in Seq(Nat)
    BY <1>0, <1>1 DEF EventsInOrder
  <2>a. /\ Own(matched, p) \in SUBSET Nat /\ (m # p) \in BOOLEAN
        /\ Own(matched, p) \ resent \in SUBSET Own(matched, p)
    BY DEF Own
  <2>1. CASE m = n
    <3>1. /\ eventMail[m] # <<>> /\ eventMail'[m] = Tail(eventMail[m])
          /\ shown'[m] = shown[m] \/ shown'[m] = Append(shown[m], Head(eventMail[m]))
      BY <1>0, <1>1, <2>1 DEF x
    <3> QED BY <2>0, <2>a, <3>1, StreamTaken
  <2>2. CASE m # n
    <3>1. eventMail'[m] = eventMail[m] /\ shown'[m] = shown[m]
      BY <1>0, <1>1, <2>2
    <3> QED BY <2>0, <3>1
  <2> QED BY <2>1, <2>2
<1> QED BY <1>1, <1>4, <1>5, <1>6, StreamsKept

LEMMA EventsRoute ==
  ASSUME ClusterTypes, EventsInOrder, NEW n \in Instances,
         RouteOrder(n) \/ RouteEvent(n) \/ LoseMessage(n)
  PROVE  EventsInOrder'
<1> DEFINE x == Head(outbox[n]).id
           Delivered == Head(outbox[n]).kind = "event"
<1>0. /\ outbox \in [Instances -> Seq(Message)] /\ eventBus \in [Instances -> Seq(Nat)]
      /\ eventMail \in [Instances -> Seq(Nat)] /\ shown \in [Instances -> Seq(Nat)]
      /\ Len(matched) \in Nat
  BY DEF ClusterTypes, EventsInOrder
<1>1. /\ outbox[n] # <<>> /\ outbox' = [outbox EXCEPT ![n] = Tail(@)]
      /\ UNCHANGED <<eventBus, shown, matched, config, retryVars>>
  BY DEF RouteOrder, RouteEvent, LoseMessage, engineVars
<1>2. \/ eventMail' = eventMail
      \/ Delivered /\ eventMail' = [m \in Instances |->
                        IF Listens(m) THEN Append(eventMail[m], x) ELSE eventMail[m]]
  BY DEF RouteOrder, RouteEvent, LoseMessage
<1>3. x \in Nat /\ (Delivered => x \in Own(matched, n))
  <2>1. Head(outbox[n]) \in Message /\ (Delivered => x \in OutEvents(outbox[n]))
    BY <1>0, <1>1, LeaveOutbox
  <2>2. OutEvents(outbox[n]) \subseteq Own(matched, n)
    BY DEF EventsInOrder, Stream
  <2> QED BY <2>1, <2>2 DEF Message
<1> HIDE DEF x, Delivered
<1>4. \A m \in Instances :
        eventMail'[m] = eventMail[m] \/ (Delivered /\ eventMail'[m] = Append(eventMail[m], x))
  BY <1>2
<1>5. eventMail' \in [Instances -> Seq(Nat)] /\ shown' \in [Instances -> Seq(Nat)]
  <2> DEFINE S == {m \in Instances : Listens(m)}
  <2>1. eventMail' = eventMail \/
        eventMail' = [m \in Instances |-> IF m \in S THEN Append(eventMail[m], x) ELSE eventMail[m]]
    BY <1>2
  <2>2. [m \in Instances |-> IF m \in S THEN Append(eventMail[m], x) ELSE eventMail[m]]
          \in [Instances -> Seq(Nat)]
    BY <1>0, <1>3, FamilyTypes
  <2> QED BY <1>0, <1>1, <2>1, <2>2
<1>6. ASSUME NEW m \in Instances
      PROVE  Elems(eventMail'[m]) \cup Elems(shown'[m]) \subseteq 1..Len(matched)
  <2>1. Elems(eventMail[m]) \cup Elems(shown[m]) \subseteq 1..Len(matched)
    BY DEF EventsInOrder
  <2>2. eventMail'[m] = eventMail[m] \/ (Delivered /\ Joined(eventMail[m], eventMail'[m], x))
    BY <1>0, <1>3, <1>4, JoinQueue
  <2>3. Delivered => x \in 1..Len(matched)
    BY <1>3 DEF Own
  <2> QED BY <1>1, <2>1, <2>2, <2>3 DEF Joined
<1>7. ASSUME NEW m \in Instances, NEW p \in Instances
      PROVE  Stream(Own(matched, p), Own(matched, p) \ resent, eventBus'[p], outbox'[p],
                    eventMail'[m], shown'[m], m # p)
  <2>0. /\ Stream(Own(matched, p), Own(matched, p) \ resent, eventBus[p], outbox[p],
                  eventMail[m], shown[m], m # p)
        /\ eventBus'[p] = eventBus[p] /\ shown'[m] = shown[m]
        /\ eventBus[p] \in Seq(Nat) /\ outbox[p] \in Seq(Message)
        /\ eventMail[m] \in Seq(Nat) /\ shown[m] \in Seq(Nat)
    BY <1>0, <1>1 DEF EventsInOrder
  <2>a. /\ Own(matched, p) \in SUBSET Nat /\ (m # p) \in BOOLEAN
        /\ Own(matched, p) \ resent \in SUBSET Own(matched, p)
    BY DEF Own
  <2>1. CASE p = n
    <3>1. /\ outbox[p] # <<>> /\ outbox'[p] = Tail(outbox[p])
          /\ \/ eventMail'[m] = eventMail[m]
             \/ /\ Head(outbox[p]).kind = "event"
                /\ eventMail'[m] = Append(eventMail[m], Head(outbox[p]).id)
      BY <1>0, <1>1, <1>4, <2>1 DEF x, Delivered
    <3> QED BY <2>0, <2>a, <3>1, StreamRouted
  <2>2. CASE p # n /\ eventMail'[m] = eventMail[m]
    <3>1. outbox'[p] = outbox[p]
      BY <1>0, <1>1, <2>2
    <3> QED BY <2>0, <2>2, <3>1
  <2>3. CASE p # n /\ Delivered /\ eventMail'[m] = Append(eventMail[m], x)
    <3>1. outbox'[p] = outbox[p]
      BY <1>0, <1>1, <2>3
    <3>2. x \in Nat \ (Own(matched, p) \ resent) /\ 0 \in Nat
      BY <1>0, <1>3, <2>3, OwnApart
    <3>3. Aside(Own(matched, p) \ resent, x, 0, eventBus[p], eventBus'[p], outbox[p], outbox'[p],
                eventMail[m], eventMail'[m], shown[m], shown'[m])
      BY <2>0, <2>3, <3>1, <3>2 DEF Aside
    <3> QED BY ZenonT(60), <2>0, <2>a, <3>3, StreamAside
  <2> QED BY <1>4, <2>1, <2>2, <2>3
<1> QED BY <1>1, <1>5, <1>6, <1>7, StreamsKept

\* A PUBLISH is sent again: its event is not among the ordered ones any more.
LEMMA EventsResend ==
  ASSUME ClusterTypes, EventsInOrder, NEW n \in Instances, ResendEvent(n)
  PROVE  EventsInOrder'
<1> DEFINE x == Head(outbox[n]).id
<1>0. /\ outbox \in [Instances -> Seq(Message)] /\ eventBus \in [Instances -> Seq(Nat)]
      /\ eventMail \in [Instances -> Seq(Nat)] /\ shown \in [Instances -> Seq(Nat)]
      /\ resent \subseteq 1..Len(matched) /\ copies \in [Instances -> SUBSET resent]
  BY DEF ClusterTypes, EventsInOrder
<1>1. /\ config.fanout = "redis" /\ outbox[n] # <<>> /\ Head(outbox[n]).kind = "event"
      /\ copies' = [copies EXCEPT ![n] = @ \cup {x}] /\ resent' = resent \cup {x}
      /\ UNCHANGED <<config, eventBus, outbox, eventMail, shown, matched>>
  BY DEF ResendEvent, messageVars, engineVars
<1>2. x \in 1..Len(matched)
  <2>1. x \in OutEvents(outbox[n])
    BY <1>0, <1>1, LeaveOutbox
  <2>2. OutEvents(outbox[n]) \subseteq Own(matched, n)
    BY DEF EventsInOrder, Stream
  <2> QED BY <2>1, <2>2 DEF Own
<1> HIDE DEF x
<1>3. resent' \subseteq 1..Len(matched) /\ copies' \in [Instances -> SUBSET resent']
  BY <1>0, <1>1, <1>2
<1>4. ASSUME NEW m \in Instances, NEW p \in Instances
      PROVE  Stream(Own(matched, p), Own(matched, p) \ resent', eventBus[p], outbox[p],
                    eventMail[m], shown[m], m # p)
  <2>1. /\ Own(matched, p) \in SUBSET Nat /\ (m # p) \in BOOLEAN
        /\ Own(matched, p) \ resent \in SUBSET Own(matched, p)
        /\ Own(matched, p) \ resent' \in SUBSET (Own(matched, p) \ resent)
    BY <1>1 DEF Own
  <2>2. /\ Stream(Own(matched, p), Own(matched, p) \ resent, eventBus[p], outbox[p],
                  eventMail[m], shown[m], m # p)
        /\ eventMail[m] \in Seq(Nat) /\ shown[m] \in Seq(Nat)
    BY <1>0 DEF EventsInOrder
  <2> QED BY <2>1, <2>2, StreamThins
<1> QED BY <1>1, <1>3, <1>4 DEF EventsInOrder

\* The other of the two arrives.
LEMMA EventsCopy ==
  ASSUME ClusterTypes, EventsInOrder, NEW n \in Instances, CopyStep(n)
  PROVE  EventsInOrder'
<1>0. /\ outbox \in [Instances -> Seq(Message)] /\ eventBus \in [Instances -> Seq(Nat)]
      /\ eventMail \in [Instances -> Seq(Nat)] /\ shown \in [Instances -> Seq(Nat)]
      /\ resent \subseteq 1..Len(matched) /\ copies \in [Instances -> SUBSET resent]
  BY DEF ClusterTypes, EventsInOrder
<1>1. PICK x \in copies[n] : RouteCopy(n, x)
  BY DEF CopyStep
<1>2. /\ copies' = [copies EXCEPT ![n] = @ \ {x}]
      /\ eventMail' = [m \in Instances |->
                         IF Listens(m) THEN Append(eventMail[m], x) ELSE eventMail[m]]
      /\ UNCHANGED <<config, resent, eventBus, outbox, shown, matched>>
  BY <1>1 DEF RouteCopy, engineVars
<1>3. x \in resent /\ x \in 1..Len(matched) /\ x \in Nat
  BY <1>0, <1>1
<1>4. copies' \in [Instances -> SUBSET resent]
  BY <1>0, <1>2
<1>5. \A m \in Instances : eventMail'[m] = eventMail[m] \/ eventMail'[m] = Append(eventMail[m], x)
  BY <1>2
<1>6. eventMail' \in [Instances -> Seq(Nat)]
  <2> DEFINE S == {m \in Instances : Listens(m)}
  <2>1. eventMail' = [m \in Instances |-> IF m \in S THEN Append(eventMail[m], x) ELSE eventMail[m]]
    BY <1>2
  <2> QED BY <1>0, <1>3, <2>1, FamilyTypes
<1>7. ASSUME NEW m \in Instances
      PROVE  Elems(eventMail'[m]) \cup Elems(shown'[m]) \subseteq 1..Len(matched)
  <2>1. Elems(eventMail[m]) \cup Elems(shown[m]) \subseteq 1..Len(matched)
    BY DEF EventsInOrder
  <2>2. eventMail'[m] = eventMail[m] \/ Joined(eventMail[m], eventMail'[m], x)
    BY <1>0, <1>3, <1>5, JoinQueue
  <2> QED BY <1>2, <1>3, <2>1, <2>2 DEF Joined
<1>8. ASSUME NEW m \in Instances, NEW p \in Instances
      PROVE  Stream(Own(matched, p), Own(matched, p) \ resent, eventBus[p], outbox[p],
                    eventMail'[m], shown[m], m # p)
  <2>1. /\ Own(matched, p) \in SUBSET Nat /\ (m # p) \in BOOLEAN
        /\ Own(matched, p) \ resent \in SUBSET Own(matched, p)
    BY DEF Own
  <2>2. /\ Stream(Own(matched, p), Own(matched, p) \ resent, eventBus[p], outbox[p],
                  eventMail[m], shown[m], m # p)
        /\ eventBus[p] \in Seq(Nat) /\ outbox[p] \in Seq(Message)
        /\ eventMail[m] \in Seq(Nat) /\ shown[m] \in Seq(Nat)
    BY <1>0 DEF EventsInOrder
  <2>3. Aside(Own(matched, p) \ resent, x, 0, eventBus[p], eventBus[p], outbox[p], outbox[p],
              eventMail[m], eventMail'[m], shown[m], shown[m])
    BY <1>3, <1>5 DEF Aside
  <2> QED BY ZenonT(60), <2>1, <2>2, <2>3, StreamAside
<1> QED BY <1>0, <1>2, <1>4, <1>6, <1>7, <1>8 DEF EventsInOrder

LEMMA EventsStep ==
  ASSUME ClusterTypes, EventsInOrder, [ClusterNext]_clusterVars
  PROVE  EventsInOrder'
<1>0. /\ outbox \in [Instances -> Seq(Message)] /\ eventBus \in [Instances -> Seq(Nat)]
      /\ eventMail \in [Instances -> Seq(Nat)] /\ shown \in [Instances -> Seq(Nat)]
      /\ Len(matched) \in Nat /\ Len(placed) \in Nat
  BY DEF ClusterTypes, EventsInOrder
<1>a. ASSUME NEW m \in Instances, NEW p \in Instances
      PROVE  /\ Stream(Own(matched, p), Own(matched, p) \ resent, eventBus[p], outbox[p],
                       eventMail[m], shown[m], m # p)
             /\ eventBus[p] \in Seq(Nat) /\ outbox[p] \in Seq(Message)
             /\ eventMail[m] \in Seq(Nat) /\ shown[m] \in Seq(Nat)
  BY <1>0 DEF EventsInOrder
<1>b. ASSUME NEW m \in Instances, NEW p \in Instances
      PROVE  /\ Own(matched, p) \in SUBSET Nat /\ (m # p) \in BOOLEAN
             /\ Own(matched, p) \ resent \in SUBSET Own(matched, p)
             /\ 0 \in Nat \ (Own(matched, p) \ resent)
  BY DEF Own
<1>c. ASSUME NEW m \in Instances
      PROVE  Elems(eventMail[m]) \cup Elems(shown[m]) \subseteq 1..Len(matched)
  BY DEF EventsInOrder
<1>1. ASSUME UNCHANGED <<eventBus, outbox, eventMail, shown, matched, config, retryVars>>
      PROVE  EventsInOrder'
  BY <1>1 DEF EventsInOrder, retryVars
<1>2. ASSUME IdleStep PROVE EventsInOrder'
  <2>1. CASE \E n \in Instances : ResendEvent(n)
    BY <2>1, EventsResend
  <2>2. CASE ~\E n \in Instances : ResendEvent(n)
    <3>1. UNCHANGED <<config, retryVars>>
      BY <1>2, <2>2, Zenon DEF IdleStep, Unlink, Relink, Restart, Sigterm,
         EngineStop, AllQuiet, clusterVars
    <3>2. UNCHANGED <<eventBus, outbox, eventMail, shown, matched>>
      BY <1>2, IdleFrame DEF messageVars, engineVars
    <3> QED BY <1>1, <3>1, <3>2
  <2> QED BY <2>1, <2>2
<1>3. ASSUME NEW n \in Instances, NEW s \in Stocks, TakeOrder(n, s) PROVE EventsInOrder'
  BY <1>1, <1>3 DEF TakeOrder
<1>4. ASSUME NEW n \in Instances, NEW s \in Stocks, PlaceOrder(n, s) PROVE EventsInOrder'
  <2>1. /\ UNCHANGED <<eventBus, eventMail, shown, matched, config, retryVars>>
        /\ outbox' = outbox \/ outbox' = [outbox EXCEPT ![n] = Append(@, OrderMessage(Len(placed')))]
        /\ placed' = Append(placed, [stock |-> s, origin |-> n])
    BY <1>4 DEF PlaceOrder, SubmitOrder
  <2>2. Len(placed') \in Nat
    <3>1. placed \in Seq([stock : Stocks, origin : Instances])
      BY DEF ClusterTypes
    <3> QED BY <2>1, <3>1, GrowPlaced
  <2>3. ASSUME NEW m \in Instances, NEW p \in Instances
        PROVE  Stream(Own(matched, p), Own(matched, p) \ resent, eventBus'[p], outbox'[p],
                      eventMail'[m], shown'[m], m # p)
    <3>1. outbox'[p] = outbox[p] \/ outbox'[p] = Append(outbox[p], OrderMessage(Len(placed')))
      BY <1>0, <2>1
    <3>2. CASE outbox'[p] = outbox[p]
      BY <1>a, <2>1, <3>2
    <3>3. CASE outbox'[p] = Append(outbox[p], OrderMessage(Len(placed')))
      <4>1. Aside(Own(matched, p) \ resent, 0, Len(placed'), eventBus[p], eventBus'[p],
                  outbox[p], outbox'[p],
                  eventMail[m], eventMail'[m], shown[m], shown'[m])
        BY <1>b, <2>1, <2>2, <3>3 DEF Aside
      <4>2. /\ Stream(Own(matched, p), Own(matched, p) \ resent, eventBus[p], outbox[p],
                      eventMail[m], shown[m], m # p)
            /\ eventBus[p] \in Seq(Nat) /\ outbox[p] \in Seq(Message)
            /\ eventMail[m] \in Seq(Nat) /\ shown[m] \in Seq(Nat)
            /\ Own(matched, p) \in SUBSET Nat /\ (m # p) \in BOOLEAN
            /\ Own(matched, p) \ resent \in SUBSET Own(matched, p)
        BY <1>a, <1>b
      <4> QED BY <4>1, <4>2, StreamAside
    <3> QED BY <3>1, <3>2, <3>3
  <2> QED BY <1>0, <1>c, <2>1, <2>3, StreamsKept
<1>5. ASSUME NEW n \in Instances, EndStep(n) PROVE EventsInOrder'
  <2>1. /\ UNCHANGED <<outbox, shown, matched, config, retryVars>>
        /\ eventBus' = [eventBus EXCEPT ![n] = <<>>] /\ eventMail' = [eventMail EXCEPT ![n] = <<>>]
    BY <1>5, EndIsGone DEF Gone
  <2>2. ASSUME NEW m \in Instances
        PROVE  /\ eventBus'[m] = eventBus[m] \/ eventBus'[m] = <<>>
               /\ eventMail'[m] = eventMail[m] \/ eventMail'[m] = <<>>
    BY <1>0, <2>1
  <2>3. ASSUME NEW m \in Instances, NEW p \in Instances
        PROVE  Stream(Own(matched, p), Own(matched, p) \ resent, eventBus'[p], outbox'[p],
                      eventMail'[m], shown'[m], m # p)
    <3>1. outbox'[p] = outbox[p] /\ shown'[m] = shown[m]
      BY <2>1
    <3>2. Aside(Own(matched, p) \ resent, 0, 0, eventBus[p], eventBus'[p], outbox[p], outbox'[p],
                eventMail[m], eventMail'[m], shown[m], shown'[m])
      BY <1>b, <2>2, <3>1 DEF Aside
    <3>3. /\ Stream(Own(matched, p), Own(matched, p) \ resent, eventBus[p], outbox[p],
                    eventMail[m], shown[m], m # p)
          /\ eventBus[p] \in Seq(Nat) /\ outbox[p] \in Seq(Message)
          /\ eventMail[m] \in Seq(Nat) /\ shown[m] \in Seq(Nat)
          /\ Own(matched, p) \in SUBSET Nat /\ (m # p) \in BOOLEAN
          /\ Own(matched, p) \ resent \in SUBSET Own(matched, p)
      BY <1>a, <1>b
    <3> QED BY <3>2, <3>3, StreamAside
  <2>4. ASSUME NEW m \in Instances
        PROVE  Elems(eventMail'[m]) \cup Elems(shown'[m]) \subseteq 1..Len(matched)
    <3>1. Elems(<<>>) = {}
      BY DEF Elems
    <3> QED BY <1>c, <2>1, <2>2, <3>1
  <2>5. eventMail' \in [Instances -> Seq(Nat)]
    <3>1. [eventMail EXCEPT ![n] = <<>>] \in [Instances -> Seq(Nat)]
      BY <1>0, FamilyTypes
    <3> QED BY <2>1, <3>1
  <2> QED BY <1>0, <2>1, <2>3, <2>4, <2>5, StreamsKept
<1> QED BY StepCases, <1>2, <1>3, <1>4, <1>5, EventsMatch, EventsHandle, EventsTake, EventsCopy,
           EventsRoute

\* wireEvents, wireNATSSubscriber and wireRedisPubSubSubscriber: for any number
\* of instances and whatever crashes, breaks or is lost, the clients of another
\* instance see a book's snapshots in the order they were published and none
\* twice, and those of the publishing instance each at most twice; with Redis,
\* the snapshots whose PUBLISH its client did not send again.
THEOREM SnapshotsStayInOrder == ClusterSpec => []SnapshotsInOrder
<1>1. ASSUME ClusterTypes, EventsInOrder PROVE SnapshotsInOrder
  <2> SUFFICES ASSUME NEW n \in Instances, NEW i \in 1..Len(shown[n]), ~SentAgain(shown[n][i])
               PROVE  /\ Count(shown[n][i], shown[n]) <= IF matched[shown[n][i]].by = n THEN 2 ELSE 1
                      /\ matched[shown[n][i]].by # n =>
                           \A j \in 1..i - 1 :
                             matched[shown[n][j]].by = matched[shown[n][i]].by /\ ~SentAgain(shown[n][j])
                               => shown[n][j] < shown[n][i]
    BY DEF SnapshotsInOrder
  <2> DEFINE q == shown[n]
             e == q[i]
             p == matched[e].by
             W == Own(matched, p) \ resent
  <2>1. /\ q \in Seq(Nat) /\ Len(q) \in Nat
        /\ \A j \in 1..Len(q) : q[j] \in Elems(q) /\ q[j] \in 1..Len(matched)
    <3>1. q \in Seq(Nat) /\ Elems(q) \subseteq 1..Len(matched)
      BY <1>1 DEF EventsInOrder
    <3> QED BY SMTT(30), <3>1 DEF Elems
  <2>2. p \in Instances
    <3> DEFINE T == [order : Nat, by : Instances]
    <3>1. matched \in Seq(T)
      BY <1>1 DEF ClusterTypes
    <3> HIDE DEF T
    <3>2. matched[e] \in T
      BY <2>1, <3>1
    <3> QED BY <3>2 DEF T
  <2>3. Stream(Own(matched, p), W, eventBus[p], outbox[p], eventMail[n], q, n # p)
    BY <1>1, <2>2 DEF EventsInOrder
  <2>4. e \in W /\ \A j \in 1..Len(q) : matched[q[j]].by = p /\ ~SentAgain(q[j]) => q[j] \in W
    <3>1. \A f : ~SentAgain(f) => f \notin resent
      BY <1>1 DEF SentAgain, EventsInOrder
    <3>2. e \in Own(matched, p) /\ \A j \in 1..Len(q) : matched[q[j]].by = p => q[j] \in Own(matched, p)
      BY <2>1 DEF Own
    <3> QED BY <3>1, <3>2
  <2> HIDE DEF q, p, W
  <2>5. CASE p = n
    <3>1. Count(e, q) <= 2
      BY <2>3, <2>4, <2>5 DEF Stream
    <3> QED BY <2>5, <3>1 DEF q, p
  <2>6. CASE p # n
    <3>1. Rising(q, W)
      BY <2>3, <2>6 DEF Stream
    <3>2. ASSUME NEW j \in 1..i - 1, matched[q[j]].by = p, ~SentAgain(q[j]) PROVE q[j] < e
      <4>1. j \in 1..Len(q) /\ i \in 1..Len(q) /\ j < i
        BY <2>1 DEF q
      <4> QED BY <2>4, <3>1, <3>2, <4>1 DEF Rising
    <3>3. {j \in 1..Len(q) : q[j] = e} = {i}
      <4>1. ASSUME NEW j \in 1..Len(q), q[j] = e, j # i PROVE FALSE
        <5>1. i \in 1..Len(q) /\ q[i] = e /\ e \in Nat /\ (i < j \/ j < i)
          BY <2>1, <4>1 DEF q
        <5> QED BY <2>4, <3>1, <4>1, <5>1 DEF Rising
      <4>2. i \in 1..Len(q)
        BY DEF q
      <4> QED BY <4>1, <4>2
    <3>4. Count(e, q) = 1
      BY <3>3, FS_Singleton DEF Count
    <3>5. \A j \in 1..i - 1 : matched[q[j]].by = p /\ ~SentAgain(q[j]) => q[j] < e
      BY <3>2
    <3>6. Count(e, q) <= IF p = n THEN 2 ELSE 1
      BY <2>6, <3>4
    <3> QED BY <3>5, <3>6, Zenon DEF q, p
  <2> QED BY <2>5, <2>6
<1>2. ClusterTypes /\ OnePlace /\ EventsInOrder /\ [ClusterNext]_clusterVars => EventsInOrder'
  BY EventsStep
<1>3. ClusterInv => ClusterTypes /\ OnePlace
  BY DEF ClusterInv
<1> QED BY <1>1, <1>2, <1>3, EventsInit, ClusterInvariant, PTL DEF ClusterSpec

-----------------------------------------------------------------------------
(***************************************************************************)
(* The type invariant, which says that what is queued, matched, lost or    *)
(* published refers to what was placed or matched.                         *)
(***************************************************************************)
Links ==
  /\ pubUp \in [Instances -> BOOLEAN] /\ subUp \in [Instances -> BOOLEAN]
  /\ linked \in [Instances -> BOOLEAN]
  /\ faults \in 0 .. MaxFaults

LEMMA LinksInit == ClusterInit => Links
<1> SUFFICES ASSUME ClusterInit PROVE Links
  OBVIOUS
<1>1. pubUp \in [Instances -> BOOLEAN]
  BY DEF ClusterInit, NewPublisher
<1>2. subUp \in [Instances -> BOOLEAN]
  BY DEF ClusterInit, NewSubscriber
<1>3. linked \in [Instances -> BOOLEAN]
  BY DEF ClusterInit
<1>4. faults \in 0 .. MaxFaults
  <2>1. faults \in Nat
    BY HealthyInit DEF Healthy
  <2>2. faults <= MaxFaults
    BY DEF ClusterInit
  <2> QED BY <2>1, <2>2, ClusterAssumption
<1> QED BY <1>1, <1>2, <1>3, <1>4 DEF Links

\* One more fault, within the bound.
LEMMA FaultBound ==
  ASSUME faults \in 0 .. MaxFaults, faults < MaxFaults
  PROVE  faults + 1 \in 0 .. MaxFaults
BY ClusterAssumption

LEMMA LinksStep ==
  ASSUME Links, [ClusterNext]_clusterVars
  PROVE  Links'
<1>0. ASSUME UNCHANGED <<pubUp, subUp, linked, faults>> PROVE Links'
  BY <1>0 DEF Links
<1>1. ASSUME Fault PROVE (faults \in 0 .. MaxFaults)'
  BY <1>1, FaultBound DEF Fault, Links
<1>2. ASSUME IdleStep PROVE Links'
  <2>1. ASSUME NEW n \in Instances, Unlink(n) PROVE Links'
    <3>1. UNCHANGED <<pubUp, subUp>> /\ linked' = [linked EXCEPT ![n] = FALSE] /\ Fault
      BY <2>1 DEF Unlink
    <3>2. linked' \in [Instances -> BOOLEAN]
      BY <3>1 DEF Links
    <3> QED BY <3>1, <3>2, <1>1 DEF Links
  <2>2. ASSUME NEW n \in Instances, Relink(n) PROVE Links'
    <3>1. UNCHANGED <<pubUp, subUp, faults>> /\ linked' = [linked EXCEPT ![n] = TRUE]
      BY <2>2 DEF Relink
    <3>2. linked' \in [Instances -> BOOLEAN]
      BY <3>1 DEF Links
    <3> QED BY <3>1, <3>2 DEF Links
  <2>3. ASSUME NEW n \in Instances, Restart(n) PROVE Links'
    <3>1. PICK pub \in NewPublisher, sub \in NewSubscriber :
            /\ pubUp' = [pubUp EXCEPT ![n] = pub]
            /\ subUp' = [subUp EXCEPT ![n] = sub]
            /\ config.fanout = "nats" /\ ~(pub /\ sub) => faults < MaxFaults
            /\ faults' = IF config.fanout = "nats" /\ ~(pub /\ sub) THEN faults + 1 ELSE faults
      BY <2>3 DEF Restart
    <3>2. pub \in BOOLEAN /\ sub \in BOOLEAN
      BY DEF NewPublisher, NewSubscriber
    <3>3. pubUp' \in [Instances -> BOOLEAN] /\ subUp' \in [Instances -> BOOLEAN]
      BY <3>1, <3>2 DEF Links
    <3>4. faults' = faults \/ (faults < MaxFaults /\ faults' = faults + 1)
      BY <3>1
    <3>5. (faults \in 0 .. MaxFaults)'
      BY <3>4, FaultBound DEF Links
    <3>6. linked' = linked
      BY <2>3 DEF Restart
    <3> QED BY <3>3, <3>5, <3>6 DEF Links
  <2>4. ASSUME NEW n \in Instances, Sigterm(n) PROVE Links'
    <3>1. UNCHANGED <<pubUp, subUp, linked>> /\ Fault
      BY <2>4 DEF Sigterm
    <3> QED BY <3>1, <1>1 DEF Links
  <2>7. ASSUME NEW n \in Instances, ResendEvent(n) PROVE Links'
    <3>1. UNCHANGED <<pubUp, subUp, linked>> /\ Fault
      BY <2>7 DEF ResendEvent
    <3> QED BY <3>1, <1>1 DEF Links
  <2>5. ASSUME NEW n \in Instances, EngineStop(n) PROVE Links'
    BY <2>5, <1>0 DEF EngineStop
  <2>6. CASE AllQuiet \/ UNCHANGED clusterVars
    BY <2>6, <1>0 DEF AllQuiet, clusterVars, nodeVars
  <2> QED BY <1>2, <2>1, <2>2, <2>3, <2>4, <2>5, <2>6, <2>7 DEF IdleStep
<1>3. ASSUME NEW n \in Instances, NEW s \in Stocks,
             PlaceOrder(n, s) \/ MatchOrder(n, s) \/ TakeOrder(n, s)
      PROVE  Links'
  BY <1>3, <1>0 DEF PlaceOrder, MatchOrder, TakeOrder, nodeVars
<1>4. ASSUME NEW n \in Instances, EndStep(n) PROVE Links'
  <2>1. UNCHANGED <<pubUp, subUp, linked>>
    BY <1>4, EndIsGone DEF Gone
  <2>2. Fault \/ UNCHANGED faults
    BY <1>4 DEF EndStep, Crash, Exit, TakeOrderTooLate
  <2> QED BY <2>1, <2>2, <1>1 DEF Links
<1>5. ASSUME NEW n \in Instances,
             HandleEvent(n) \/ TakeEvent(n) \/ CopyStep(n) \/ RouteOrder(n) \/ RouteEvent(n)
      PROVE  Links'
  <2>1. UNCHANGED nodeVars
    BY <1>5, Zenon DEF HandleEvent, TakeEvent, CopyStep, RouteCopy, RouteOrder, RouteEvent
  <2> QED BY <2>1, <1>0 DEF nodeVars
<1>6. ASSUME NEW n \in Instances, LoseMessage(n) PROVE Links'
  <2>1. UNCHANGED <<pubUp, subUp, linked>> /\ Fault
    BY <1>6, Zenon DEF LoseMessage
  <2> QED BY <2>1, <1>1 DEF Links
<1> QED BY StepCases, <1>2, <1>3, <1>4, <1>5, <1>6

\* The elements of a queue of the kind ToSet names.
LEMMA ToSetElems ==
  ASSUME NEW q \in Seq(Nat)
  PROVE  ToSet(q) = Elems(q)
BY DEF ToSet, Elems

\* ClusterTypeOK: every order in a channel, in a subscription, matched or lost
\* was placed, and waits for its own stock's matcher; every event in a bus, in
\* a subscription or broadcast by a hub is that of an order that was matched.
THEOREM ClusterTypeCorrect == ClusterSpec => []ClusterTypeOK
<1>1. ASSUME ClusterInv, EventsInOrder, Links PROVE ClusterTypeOK
  <2>0. ClusterTypes /\ OnePlace /\ Healthy /\ Routed
    BY <1>1 DEF ClusterInv
  <2>1. ValidConfig(config)
    BY <2>0 DEF Healthy
  <2>2. /\ phase \in [Instances -> {"up", "draining", "closed", "down", "panicked"}]
        /\ placed \in Seq([stock : Stocks, origin : Instances])
    BY <2>0 DEF ClusterTypes
  <2>3. {pubUp, subUp, linked} \subseteq [Instances -> BOOLEAN] /\ faults \in 0 .. MaxFaults
    BY <1>1 DEF Links
  <2>4. matched \in Seq([order : 1 .. Len(placed), by : Instances])
    <3> DEFINE T == [order : Nat, by : Instances]
               U == [order : 1 .. Len(placed), by : Instances]
    <3>1. matched \in Seq(T)
      BY <2>0 DEF ClusterTypes
    <3>2. ASSUME NEW i \in 1 .. Len(matched), matched[i] \in T PROVE matched[i] \in U
      <4>1. matched[i].order \in 1 .. Len(placed)
        BY <2>0, WasPlaced
      <4> QED BY <3>2, <4>1
    <3> HIDE DEF T, U
    <3>3. \A i \in 1 .. Len(matched) : matched[i] \in U
      BY <3>1, <3>2
    <3>4. matched \in Seq(U)
      BY <3>1, <3>3
    <3> QED BY <3>4 DEF U
  <2>5. {d.order : d \in dropped} \subseteq 1 .. Len(placed)
    <3> SUFFICES ASSUME NEW d \in dropped PROVE d.order \in 1 .. Len(placed)
      OBVIOUS
    <3>1. d.order \in DroppedIds(dropped)
      BY <2>0 DEF ClusterTypes, DroppedIds
    <3> QED BY <2>0, <3>1 DEF OnePlace, Apart
  <2>6. ASSUME NEW n \in Instances, NEW s \in Stocks,
               NEW o \in ToSet(engineCh[n][s]) \cup ToSet(orderMail[n][s])
        PROVE  placed[o].stock = s
    <3>1. \/ \E i \in 1 .. Len(engineCh[n][s]) : o = engineCh[n][s][i]
          \/ \E i \in 1 .. Len(orderMail[n][s]) : o = orderMail[n][s][i]
      <4>1. engineCh[n][s] \in Seq(Nat) /\ orderMail[n][s] \in Seq(Nat)
        BY <2>0 DEF ClusterTypes, Queues
      <4> QED BY <4>1 DEF ToSet
    <3> QED BY <3>1, <2>0 DEF Routed, EngineRouted, MailRouted
  <2>7. ASSUME NEW n \in Instances
        PROVE  ToSet(eventBus[n]) \cup ToSet(eventMail[n]) \cup ToSet(shown[n])
                 \subseteq 1 .. Len(matched)
    <3>1. eventBus[n] \in Seq(Nat) /\ eventMail[n] \in Seq(Nat) /\ shown[n] \in Seq(Nat)
      BY <2>0, <1>1 DEF ClusterTypes, EventsInOrder
    <3>2. Elems(eventMail[n]) \cup Elems(shown[n]) \subseteq 1 .. Len(matched)
      BY <1>1 DEF EventsInOrder
    <3>3. Elems(eventBus[n]) \subseteq Own(matched, n)
      BY <1>1 DEF EventsInOrder, Stream
    <3>4. Own(matched, n) \subseteq 1 .. Len(matched)
      BY DEF Own
    <3> QED BY <3>1, <3>2, <3>3, <3>4, ToSetElems
  <2> QED BY <2>1, <2>2, <2>3, <2>4, <2>5, <2>6, <2>7 DEF ClusterTypeOK
<1>2. ClusterTypes /\ OnePlace /\ EventsInOrder /\ [ClusterNext]_clusterVars => EventsInOrder'
  BY EventsStep
<1>3. ClusterInv => ClusterTypes /\ OnePlace
  BY DEF ClusterInv
<1>4. Links /\ [ClusterNext]_clusterVars => Links'
  BY LinksStep
<1> QED BY <1>1, <1>2, <1>3, <1>4, LinksInit, EventsInit, ClusterInvariant, PTL DEF ClusterSpec

=============================================================================
