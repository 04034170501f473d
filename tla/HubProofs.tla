----------------------------- MODULE HubProofs -----------------------------
(***************************************************************************)
(* The hub's tables agree, it never panics and a closed client stays out,  *)
(* for any number of connections, addresses and topics, any limits and any *)
(* channel capacities, in whatever order select serves the six channels.   *)
(***************************************************************************)
EXTENDS Hub, TLAPS, FiniteSetTheorems

\* The limits are counted with Cardinality: the sets they count are finite,
\* although nothing says that the set of all connections is.
FiniteTables ==
  /\ IsFiniteSet(clients)
  /\ \A c \in Clients : IsFiniteSet(clientSubs[c])

\* A client in the table has an open send channel.
TableIsOpen == \A c \in clients : ~sendClosed[c]

\* A connection is registered once: until its turn it is in no table and its
\* send channel is open, and so is one that has not asked yet.
RegisterOnce ==
  /\ \A i \in 1..Len(register) :
       /\ reader[register[i]] # "none"
       /\ register[i] \notin clients
       /\ ~sendClosed[register[i]]
  /\ \A i, j \in 1..Len(register) : register[i] = register[j] => i = j
  /\ \A c \in Clients : reader[c] = "none" => c \notin clients /\ ~sendClosed[c]

HubInv ==
  /\ TypeOK
  /\ TablesAgree
  /\ FiniteTables
  /\ TableIsOpen
  /\ RegisterOnce
  /\ NoPanic

-----------------------------------------------------------------------------
LEMMA HubInitInv == Init => HubInv
<1> SUFFICES ASSUME Init PROVE HubInv
  OBVIOUS
<1>1. TypeOK
  <2>1. /\ register \in Seq(Clients) /\ unregister \in Seq(Clients)
        /\ subscribe \in Seq(Requests) /\ unsubscribe \in Seq(Requests)
        /\ broadcast \in Seq(Topics) /\ directSend \in Seq(Clients)
        /\ Len(register) <= ControlCap /\ Len(unregister) <= ControlCap
        /\ clients \subseteq Clients
        /\ subs \in [Topics -> SUBSET Clients]
        /\ clientSubs \in [Clients -> SUBSET Topics]
        /\ ipCount \in [IPs -> Nat]
        /\ send \in [Clients -> 0..SendCap]
        /\ conn \in [Clients -> {"none", "open", "closed"}]
        /\ reader \in [Clients -> {"none", "reading", "done"}]
        /\ writer \in [Clients -> {"none", "running", "done"}]
    BY LimitAssumption DEF Init
  <2>2. sendClosed \in [Clients -> BOOLEAN] /\ running \in BOOLEAN /\ panicked \in BOOLEAN
    BY DEF Init
  <2> QED BY <2>1, <2>2 DEF TypeOK
<1>2. FiniteTables /\ TableIsOpen /\ NoPanic
  BY FS_EmptySet DEF Init, FiniteTables, TableIsOpen, NoPanic
<1>3. RegisterOnce
  BY DEF Init, RegisterOnce
<1>4. TablesAgree
  <2>1. \A a \in IPs : {c \in clients : IPOf[c] = a} = {}
    BY DEF Init
  <2> QED BY <2>1, FS_EmptySet, LimitAssumption DEF Init, TablesAgree
<1> QED BY <1>1, <1>2, <1>3, <1>4 DEF HubInv

\* A step that leaves the tables, the queue of registrations and the closed
\* channels alone, and starts no pump.
LEMMA HubFrame ==
  ASSUME HubInv, TypeOK', UNCHANGED <<register, tables, sendClosed, panicked>>,
         \A c \in Clients : reader'[c] = "none" => reader[c] = "none",
         \A c \in Clients : reader[c] # "none" => reader'[c] # "none"
  PROVE  HubInv'
<1>1. UNCHANGED <<register, clients, subs, clientSubs, ipCount, sendClosed, panicked>>
  BY DEF tables
<1>2. TablesAgree' /\ FiniteTables' /\ TableIsOpen' /\ NoPanic'
  BY <1>1 DEF HubInv, TablesAgree, FiniteTables, TableIsOpen, NoPanic
<1>3. RegisterOnce'
  <2>1. \A i \in 1..Len(register) : register[i] \in Clients
    BY DEF HubInv, TypeOK
  <2> QED BY <1>1, <2>1 DEF HubInv, RegisterOnce
<1> QED BY <1>2, <1>3 DEF HubInv

\* The pumps, the connections and the publishers.
LEMMA PumpsPreserve ==
  ASSUME HubInv, NEW c \in Clients,
         \/ Accept(c) \/ Disconnect(c) \/ ReadOther(c) \/ ReadError(c)
         \/ WriteMessage(c) \/ WriterExit(c)
  PROVE  HubInv'
<1>1. TypeOK
  BY DEF HubInv
<1>2. CASE Accept(c) \/ Disconnect(c)
  <2>1. TypeOK'
    BY <1>1, <1>2 DEF TypeOK, Accept, Disconnect, channels, tables, sends
  <2> QED BY <1>2, <2>1, HubFrame DEF Accept, Disconnect, channels, sends
<1>3. CASE ReadOther(c)
  <2>1. TypeOK'
    BY <1>1, <1>3 DEF TypeOK, ReadOther, tables, sends, pumps
  <2> QED BY <1>3, <2>1, HubFrame DEF ReadOther, sends, pumps
<1>4. CASE ReadError(c)
  <2>1. TypeOK'
    BY <1>1, <1>4, LimitAssumption DEF TypeOK, ReadError, tables, sends
  <2>2. reader' = [reader EXCEPT ![c] = "done"] /\ reader \in [Clients -> {"none", "reading", "done"}]
        /\ reader[c] = "reading"
    BY <1>1, <1>4 DEF TypeOK, ReadError
  <2> QED BY <1>4, <2>1, <2>2, HubFrame DEF ReadError, sends
<1>5. CASE WriteMessage(c)
  <2>1. TypeOK'
    BY <1>1, <1>5, LimitAssumption DEF TypeOK, WriteMessage, channels, tables, pumps
  <2> QED BY <1>5, <2>1, HubFrame DEF WriteMessage, channels, pumps
<1>6. CASE WriterExit(c)
  <2>1. send' \in [Clients -> 0..SendCap]
    BY <1>1, <1>6, LimitAssumption DEF TypeOK, WriterExit
  <2>2. TypeOK'
    BY <1>1, <1>6, <2>1 DEF TypeOK, WriterExit, channels, tables
  <2> QED BY <1>6, <2>2, HubFrame DEF WriterExit, channels
<1> QED BY <1>2, <1>3, <1>4, <1>5, <1>6

LEMMA QueuesPreserve ==
  ASSUME HubInv, NEW t \in Topics,
         Broadcast(t) \/ \E c \in Clients : ReadSubscribe(c, t) \/ ReadUnsubscribe(c, t)
  PROVE  HubInv'
<1>1. TypeOK
  BY DEF HubInv
<1>2. CASE Broadcast(t)
  <2>1. TypeOK'
    BY <1>1, <1>2 DEF TypeOK, Broadcast, tables, sends, pumps
  <2> QED BY <1>2, <2>1, HubFrame DEF Broadcast, sends, pumps
<1>3. ASSUME NEW c \in Clients, ReadSubscribe(c, t) \/ ReadUnsubscribe(c, t) PROVE HubInv'
  <2>1. <<c, t>> \in Requests
    BY DEF Requests
  <2>2. ASSUME ReadSubscribe(c, t) PROVE TypeOK'
    BY <1>1, <2>1, <2>2 DEF TypeOK, ReadSubscribe, tables, sends, pumps
  <2>3. ASSUME ReadUnsubscribe(c, t) PROVE TypeOK'
    BY <1>1, <2>1, <2>3 DEF TypeOK, ReadUnsubscribe, tables, sends, pumps
  <2>4. TypeOK'
    BY <1>3, <2>2, <2>3
  <2> QED BY <1>3, <2>4, HubFrame DEF ReadSubscribe, ReadUnsubscribe, sends, pumps
<1> QED BY <1>2, <1>3

\* A new connection queues its registration.
LEMMA ServePreserves ==
  ASSUME HubInv, NEW c \in Clients, ServeHTTP(c)
  PROVE  HubInv'
<1>1. TypeOK /\ RegisterOnce
  BY DEF HubInv
<1>2. TypeOK'
  BY <1>1, LimitAssumption DEF TypeOK, ServeHTTP, tables, sends
<1>3. UNCHANGED <<clients, subs, clientSubs, ipCount, send, sendClosed, panicked>>
  BY DEF ServeHTTP, tables, sends
<1>4. TablesAgree' /\ FiniteTables' /\ TableIsOpen' /\ NoPanic'
  BY <1>3 DEF HubInv, TablesAgree, FiniteTables, TableIsOpen, NoPanic
<1>5. RegisterOnce'
  <2>1. /\ register \in Seq(Clients) /\ register' = Append(register, c)
        /\ reader' = [reader EXCEPT ![c] = "reading"] /\ reader[c] = "none"
        /\ reader \in [Clients -> {"none", "reading", "done"}]
    BY <1>1 DEF TypeOK, ServeHTTP
  <2>2. \A i \in 1..Len(register) : register[i] \in Clients /\ register[i] # c
    BY <1>1, <2>1 DEF RegisterOnce
  <2> QED BY <1>1, <1>3, <2>1, <2>2 DEF RegisterOnce
<1> QED BY <1>2, <1>4, <1>5 DEF HubInv

-----------------------------------------------------------------------------
(***************************************************************************)
(* Hub.Run.                                                                *)
(***************************************************************************)
\* sendJSON to a client whose channel is open.
LEMMA SendFacts ==
  ASSUME TypeOK, NEW c \in Clients, SendJSON(c), ~sendClosed[c], ~panicked
  PROVE  /\ send' \in [Clients -> 0..SendCap]
         /\ panicked' = FALSE
         /\ \A d \in Clients : d # c => send'[d] = send[d]
<1>1. send \in [Clients -> 0..SendCap] /\ SendCap \in Nat
  BY LimitAssumption DEF TypeOK
<1>2. send' = [send EXCEPT ![c] = IF @ < SendCap /\ ~sendClosed[c] THEN @ + 1 ELSE @]
  BY DEF SendJSON
<1>3. panicked' = FALSE
  BY DEF SendJSON
<1> QED BY <1>1, <1>2, <1>3

\* How many clients an address has once some clients are gone.
From(S, a) == {c \in S : IPOf[c] = a}

LEMMA CountWithout ==
  ASSUME NEW T, IsFiniteSet(T), NEW G \in SUBSET T, NEW a
  PROVE  /\ Cardinality(From(T \ G, a)) = Cardinality(From(T, a)) - Cardinality(From(G, a))
         /\ Cardinality(From(T \ G, a)) \in Nat
         /\ Cardinality(From(G, a)) \in Nat
<1>1. From(T, a) \in SUBSET T /\ From(G, a) \in SUBSET T /\ From(T \ G, a) \in SUBSET T
  BY DEF From
<1>2. IsFiniteSet(From(T, a)) /\ IsFiniteSet(From(G, a)) /\ IsFiniteSet(From(T \ G, a))
  BY <1>1, FS_Subset
<1>3. From(T \ G, a) = From(T, a) \ From(G, a) /\ From(T, a) \cap From(G, a) = From(G, a)
  BY DEF From
<1>4. Cardinality(From(T, a) \ From(G, a))
        = Cardinality(From(T, a)) - Cardinality(From(T, a) \cap From(G, a))
  BY <1>2, FS_Difference
<1>5. Cardinality(From(T \ G, a)) \in Nat /\ Cardinality(From(G, a)) \in Nat
  BY <1>2, FS_CardinalityType
<1> QED BY <1>3, <1>4, <1>5

\* removeClient keeps the tables in agreement, closes only channels that were
\* open and opens none.
LEMMA RemoveFacts ==
  ASSUME HubInv, NEW cs \in SUBSET Clients, RemoveClients(cs)
  PROVE  /\ clients' \subseteq clients
         /\ subs' \in [Topics -> SUBSET Clients]
         /\ clientSubs' \in [Clients -> SUBSET Topics]
         /\ ipCount' \in [IPs -> Nat]
         /\ sendClosed' \in [Clients -> BOOLEAN]
         /\ \A c \in Clients : sendClosed[c] => sendClosed'[c]
         /\ \A c \in Clients : c \notin clients => (sendClosed'[c] <=> sendClosed[c])
         /\ TablesAgree' /\ FiniteTables' /\ TableIsOpen'
         /\ ~ClosesTwice(cs)
<1> DEFINE gone == cs \cap clients
<1>1. TypeOK /\ TablesAgree /\ FiniteTables /\ TableIsOpen
  BY DEF HubInv
<1>2. /\ clients' = clients \ gone
      /\ subs' = [t \in Topics |-> subs[t] \ {c \in gone : t \in clientSubs[c]}]
      /\ clientSubs' = [c \in Clients |-> IF c \in gone THEN {} ELSE clientSubs[c]]
      /\ ipCount' = [a \in IPs |-> ipCount[a] - Cardinality({c \in gone : IPOf[c] = a})]
      /\ sendClosed' = [c \in Clients |-> sendClosed[c] \/ c \in gone]
  BY DEF RemoveClients
<1>3. gone \in SUBSET clients /\ clients \subseteq Clients
  BY <1>1 DEF TypeOK
<1> HIDE DEF gone
<1>4. /\ clients' \subseteq clients
      /\ subs' \in [Topics -> SUBSET Clients]
      /\ clientSubs' \in [Clients -> SUBSET Topics]
  BY <1>1, <1>2, <1>3 DEF TypeOK
<1>5. sendClosed' \in [Clients -> BOOLEAN]
  BY <1>2, Zenon
<1>6. /\ \A c \in Clients : sendClosed[c] => sendClosed'[c]
      /\ \A c \in Clients : c \notin clients => (sendClosed'[c] <=> sendClosed[c])
  BY <1>2, <1>3, Zenon
<1>7. \A a \in IPs : /\ ipCount'[a] = Cardinality({c \in clients' : IPOf[c] = a})
                     /\ ipCount'[a] \in Nat
                     /\ ipCount'[a] <= MaxPerIP
  <2> SUFFICES ASSUME NEW a \in IPs
               PROVE  /\ ipCount'[a] = Cardinality({c \in clients' : IPOf[c] = a})
                      /\ ipCount'[a] \in Nat
                      /\ ipCount'[a] <= MaxPerIP
    OBVIOUS
  <2>1. IsFiniteSet(clients)
    BY <1>1 DEF FiniteTables
  <2>2. /\ ipCount[a] = Cardinality({c \in clients : IPOf[c] = a})
        /\ ipCount[a] <= MaxPerIP /\ ipCount[a] \in Nat
    BY <1>1 DEF TablesAgree, TypeOK
  <2>3. ipCount'[a] = ipCount[a] - Cardinality({c \in gone : IPOf[c] = a})
    BY <1>2
  <2>4. /\ Cardinality(From(clients \ gone, a))
             = Cardinality(From(clients, a)) - Cardinality(From(gone, a))
        /\ Cardinality(From(clients \ gone, a)) \in Nat
        /\ Cardinality(From(gone, a)) \in Nat
    BY <1>3, <2>1, CountWithout
  <2>5. /\ {c \in clients' : IPOf[c] = a} = From(clients \ gone, a)
        /\ {c \in clients : IPOf[c] = a} = From(clients, a)
        /\ {c \in gone : IPOf[c] = a} = From(gone, a)
    BY <1>2 DEF From
  <2>6. ipCount'[a] = ipCount[a] - Cardinality(From(gone, a))
    BY <2>3, <2>5
  <2>7. ipCount'[a] = Cardinality(From(clients \ gone, a))
    BY <2>2, <2>4, <2>5, <2>6
  <2>8. ipCount'[a] <= MaxPerIP
    BY <2>2, <2>4, <2>6, LimitAssumption
  <2> QED BY <2>4, <2>5, <2>7, <2>8
<1>8. ipCount' \in [IPs -> Nat]
  BY <1>2, <1>7
<1>9. FiniteTables' /\ Cardinality(clients') <= MaxTotal
  <2>1. IsFiniteSet(clients) /\ clients' \in SUBSET clients
    BY <1>1, <1>4 DEF FiniteTables
  <2>2. IsFiniteSet(clients') /\ Cardinality(clients') <= Cardinality(clients)
    BY <2>1, FS_Subset
  <2>3. Cardinality(clients) \in Nat /\ Cardinality(clients') \in Nat
    BY <2>1, <2>2, FS_CardinalityType
  <2>4. Cardinality(clients') <= MaxTotal
    BY <1>1, <2>2, <2>3, LimitAssumption DEF TablesAgree
  <2>5. \A c \in Clients : IsFiniteSet(clientSubs'[c])
    BY <1>1, <1>2, FS_EmptySet DEF FiniteTables
  <2> QED BY <2>2, <2>4, <2>5 DEF FiniteTables
<1>10. /\ \A t \in Topics : subs'[t] = {c \in Clients : t \in clientSubs'[c]}
       /\ \A c \in Clients : clientSubs'[c] # {} => c \in clients'
  BY <1>1, <1>2, <1>3 DEF TablesAgree
<1>11. \A c \in Clients : Cardinality(clientSubs'[c]) <= MaxSubs
  BY <1>1, <1>2, FS_EmptySet, LimitAssumption DEF TablesAgree
<1>12. TableIsOpen'
  BY <1>1, <1>2, <1>3, Zenon DEF TableIsOpen
<1>13. ~ClosesTwice(cs)
  BY <1>1 DEF TableIsOpen, ClosesTwice
<1>14. TablesAgree'
  BY <1>7, <1>9, <1>10, <1>11 DEF TablesAgree
<1> QED BY <1>4, <1>5, <1>6, <1>8, <1>9, <1>12, <1>13, <1>14

\* The queue of registrations is left alone and so are those who wait in it.
LEMMA RegisterFrame ==
  ASSUME HubInv, UNCHANGED <<register, reader>>, clients' \subseteq clients,
         \A c \in Clients : c \notin clients => (sendClosed'[c] <=> sendClosed[c])
  PROVE  RegisterOnce'
<1>1. TypeOK /\ RegisterOnce
  BY DEF HubInv
<1>2. \A i \in 1..Len(register) : register[i] \in Clients
  BY <1>1 DEF TypeOK
<1> QED BY <1>1, <1>2 DEF RegisterOnce

LEMMA HubUnregisterPreserves == HubInv /\ HubUnregister => HubInv'
<1> SUFFICES ASSUME HubInv, HubUnregister PROVE HubInv'
  OBVIOUS
<1> DEFINE cs == {Head(unregister)}
<1>1. TypeOK /\ NoPanic
  BY DEF HubInv
<1>2. cs \in SUBSET Clients /\ unregister' = Tail(unregister)
      /\ unregister' \in Seq(Clients) /\ Len(unregister') <= ControlCap
  BY <1>1, LimitAssumption DEF HubUnregister, TypeOK
<1>3. RemoveClients(cs)
  BY DEF HubUnregister
<1> HIDE DEF cs
<1>4. /\ clients' \subseteq clients
      /\ subs' \in [Topics -> SUBSET Clients]
      /\ clientSubs' \in [Clients -> SUBSET Topics]
      /\ ipCount' \in [IPs -> Nat]
      /\ sendClosed' \in [Clients -> BOOLEAN]
      /\ \A c \in Clients : c \notin clients => (sendClosed'[c] <=> sendClosed[c])
      /\ TablesAgree' /\ FiniteTables' /\ TableIsOpen'
      /\ ~ClosesTwice(cs)
  BY <1>2, <1>3, RemoveFacts
<1>5. panicked' = FALSE
  BY <1>1, <1>4 DEF HubUnregister, NoPanic, cs
<1>6. TypeOK'
  BY <1>1, <1>2, <1>4, <1>5 DEF HubUnregister, TypeOK, pumps
<1>7. RegisterOnce'
  BY <1>4, RegisterFrame DEF HubUnregister, pumps
<1> QED BY <1>4, <1>5, <1>6, <1>7 DEF HubInv, NoPanic

LEMMA HubStopPreserves == HubInv /\ HubStop => HubInv'
<1> SUFFICES ASSUME HubInv, HubStop PROVE HubInv'
  OBVIOUS
<1>1. TypeOK /\ NoPanic /\ clients \in SUBSET Clients
  BY DEF HubInv, TypeOK
<1>2. RemoveClients(clients)
  BY DEF HubStop
<1>3. /\ clients' \subseteq clients
      /\ subs' \in [Topics -> SUBSET Clients]
      /\ clientSubs' \in [Clients -> SUBSET Topics]
      /\ ipCount' \in [IPs -> Nat]
      /\ sendClosed' \in [Clients -> BOOLEAN]
      /\ \A c \in Clients : c \notin clients => (sendClosed'[c] <=> sendClosed[c])
      /\ TablesAgree' /\ FiniteTables' /\ TableIsOpen'
      /\ ~ClosesTwice(clients)
  BY <1>1, <1>2, RemoveFacts
<1>4. panicked' = FALSE /\ running' = FALSE
  BY <1>1, <1>3 DEF HubStop, NoPanic
<1>5. TypeOK'
  BY <1>1, <1>3, <1>4 DEF HubStop, TypeOK, channels, pumps
<1>6. RegisterOnce'
  BY <1>3, RegisterFrame DEF HubStop, channels, pumps
<1> QED BY <1>3, <1>4, <1>5, <1>6 DEF HubInv, NoPanic

LEMMA HubBroadcastPreserves == HubInv /\ HubBroadcast => HubInv'
<1> SUFFICES ASSUME HubInv, HubBroadcast PROVE HubInv'
  OBVIOUS
<1> DEFINE to   == subs[Head(broadcast)]
           slow == {c \in to : send[c] >= SendCap}
<1>1. TypeOK /\ NoPanic /\ TablesAgree /\ TableIsOpen
  BY DEF HubInv
<1>2. Head(broadcast) \in Topics /\ broadcast' \in Seq(Topics)
  BY <1>1 DEF HubBroadcast, TypeOK
<1>3. to \in SUBSET Clients /\ slow \in SUBSET Clients /\ to \subseteq clients
  BY <1>1, <1>2 DEF TypeOK, TablesAgree
<1>4. /\ RemoveClients(slow)
      /\ send' = [c \in Clients |-> IF c \in to \ slow THEN send[c] + 1 ELSE send[c]]
      /\ panicked' = (panicked \/ \E c \in to : sendClosed[c])
  BY DEF HubBroadcast
<1>5. send' \in [Clients -> 0..SendCap]
  BY <1>1, <1>3, <1>4, LimitAssumption DEF TypeOK
<1>6. panicked' = FALSE
  BY <1>1, <1>3, <1>4 DEF NoPanic, TableIsOpen
<1> HIDE DEF to, slow
<1>7. /\ clients' \subseteq clients
      /\ subs' \in [Topics -> SUBSET Clients]
      /\ clientSubs' \in [Clients -> SUBSET Topics]
      /\ ipCount' \in [IPs -> Nat]
      /\ sendClosed' \in [Clients -> BOOLEAN]
      /\ \A c \in Clients : c \notin clients => (sendClosed'[c] <=> sendClosed[c])
      /\ TablesAgree' /\ FiniteTables' /\ TableIsOpen'
  BY <1>3, <1>4, RemoveFacts
<1>8. TypeOK'
  BY <1>1, <1>2, <1>5, <1>6, <1>7 DEF HubBroadcast, TypeOK, pumps
<1>9. RegisterOnce'
  BY <1>7, RegisterFrame DEF HubBroadcast, pumps
<1> QED BY <1>6, <1>7, <1>8, <1>9 DEF HubInv, NoPanic

\* A step that only sends to a client in the table.
LEMMA HubDirectSendPreserves == HubInv /\ HubDirectSend => HubInv'
<1> SUFFICES ASSUME HubInv, HubDirectSend PROVE HubInv'
  OBVIOUS
<1>1. TypeOK /\ NoPanic /\ TableIsOpen
  BY DEF HubInv
<1>2. /\ Head(directSend) \in Clients /\ directSend' \in Seq(Clients)
      /\ UNCHANGED <<register, unregister, subscribe, unsubscribe, broadcast, clients, subs,
                     clientSubs, ipCount, sendClosed, conn, reader, writer, running>>
  BY <1>1 DEF HubDirectSend, TypeOK, tables, pumps
<1>3. send' \in [Clients -> 0..SendCap] /\ panicked' = panicked
  <2>1. CASE Head(directSend) \in clients /\ SendJSON(Head(directSend))
    BY <1>1, <1>2, <2>1, SendFacts DEF NoPanic, TableIsOpen, TypeOK
  <2>2. CASE UNCHANGED <<send, panicked>>
    BY <1>1, <2>2 DEF TypeOK
  <2> QED BY <2>1, <2>2 DEF HubDirectSend
<1>4. TypeOK'
  BY <1>1, <1>2, <1>3 DEF TypeOK
<1> QED BY <1>2, <1>3, <1>4, HubFrame DEF tables

\* Register: the head of the queue is in no table, so it is added or refused
\* once.
LEMMA HubRegisterPreserves == HubInv /\ HubRegister => HubInv'
<1> SUFFICES ASSUME HubInv, HubRegister PROVE HubInv'
  OBVIOUS
<1> DEFINE c == Head(register)
<1>1. TypeOK /\ TablesAgree /\ FiniteTables /\ TableIsOpen /\ RegisterOnce /\ NoPanic
  BY DEF HubInv
<1>2. /\ register \in Seq(Clients) /\ register # <<>> /\ register' = Tail(register)
      /\ UNCHANGED <<unregister, subscribe, unsubscribe, broadcast, directSend,
                     conn, reader, writer, running>>
  BY <1>1 DEF HubRegister, TypeOK, pumps
<1>3. /\ c \in Clients /\ c = register[1] /\ 1 \in 1..Len(register)
      /\ register' \in Seq(Clients) /\ Len(register') <= ControlCap
      /\ Len(register') = Len(register) - 1
      /\ \A i \in 1..Len(register') : register'[i] = register[i + 1] /\ i + 1 \in 1..Len(register)
  BY <1>1, <1>2, LimitAssumption DEF TypeOK
<1>4. c \notin clients /\ ~sendClosed[c] /\ reader[c] # "none"
  BY <1>1, <1>3 DEF RegisterOnce
<1>5. \A i \in 1..Len(register') : register'[i] # c
  BY <1>1, <1>3 DEF RegisterOnce
<1>6. \A i, j \in 1..Len(register') : register'[i] = register'[j] => i = j
  <2> SUFFICES ASSUME NEW i \in 1..Len(register'), NEW j \in 1..Len(register'),
                      register'[i] = register'[j]
               PROVE  i = j
    OBVIOUS
  <2>1. i + 1 = j + 1
    BY <1>1, <1>3 DEF RegisterOnce
  <2>2. i \in Int /\ j \in Int
    BY <1>3
  <2> QED BY <2>1, <2>2
<1>7. CASE Cardinality(clients) >= MaxTotal \/ ipCount[IPOf[c]] >= MaxPerIP
  <2>1. /\ SendJSON(c)
        /\ sendClosed' = [sendClosed EXCEPT ![c] = TRUE]
        /\ UNCHANGED <<clients, subs, clientSubs, ipCount>>
    BY <1>7 DEF HubRegister, tables
  <2>2. send' \in [Clients -> 0..SendCap] /\ panicked' = FALSE
    BY <1>1, <1>3, <1>4, <2>1, SendFacts DEF NoPanic
  <2>3. sendClosed' \in [Clients -> BOOLEAN] /\ \A d \in Clients : d # c => sendClosed'[d] = sendClosed[d]
    BY <1>1, <2>1 DEF TypeOK
  <2>4. TypeOK'
    BY <1>1, <1>2, <1>3, <2>1, <2>2, <2>3 DEF TypeOK
  <2>5. TablesAgree' /\ FiniteTables'
    BY <1>1, <2>1 DEF TablesAgree, FiniteTables
  <2>6. TableIsOpen'
    BY <1>1, <1>4, <2>1, <2>3 DEF TypeOK, TableIsOpen
  <2>7. RegisterOnce'
    <3>1. \A i \in 1..Len(register') : /\ reader'[register'[i]] # "none"
                                       /\ register'[i] \notin clients'
                                       /\ ~sendClosed'[register'[i]]
      BY <1>1, <1>2, <1>3, <1>5, <2>1, <2>3 DEF RegisterOnce
    <3>3. \A d \in Clients : reader'[d] = "none" => d \notin clients' /\ ~sendClosed'[d]
      BY <1>1, <1>2, <1>4, <2>1, <2>3 DEF RegisterOnce
    <3> QED BY <1>6, <3>1, <3>3 DEF RegisterOnce
  <2> QED BY <2>2, <2>4, <2>5, <2>6, <2>7 DEF HubInv, NoPanic
<1>8. CASE ~(Cardinality(clients) >= MaxTotal \/ ipCount[IPOf[c]] >= MaxPerIP)
  <2>1. /\ clients' = clients \cup {c}
        /\ clientSubs' = [clientSubs EXCEPT ![c] = {}]
        /\ ipCount' = [ipCount EXCEPT ![IPOf[c]] = @ + 1]
        /\ UNCHANGED <<subs, send, sendClosed, panicked>>
    BY <1>8 DEF HubRegister, sends
  <2>2. IPOf[c] \in IPs
    BY <1>3, AddressAssumption
  <2>3. TypeOK'
    <3>1. ipCount' \in [IPs -> Nat] /\ clientSubs' \in [Clients -> SUBSET Topics]
          /\ clients' \subseteq Clients
      BY SMTT(30), <1>1, <1>3, <2>1, <2>2 DEF TypeOK
    <3> QED BY <1>1, <1>2, <1>3, <2>1, <3>1 DEF TypeOK
  <2>4. clientSubs' = clientSubs
    <3>1. clientSubs[c] = {}
      BY <1>1, <1>3, <1>4 DEF TablesAgree
    <3> QED BY <1>1, <2>1, <3>1 DEF TypeOK
  <2>5. /\ IsFiniteSet(clients) /\ Cardinality(clients) \in Nat
        /\ IsFiniteSet(clients') /\ Cardinality(clients') = Cardinality(clients) + 1
    BY <1>1, <1>4, <2>1, FS_AddElement, FS_CardinalityType DEF FiniteTables
  <2>6. FiniteTables'
    BY <1>1, <2>4, <2>5 DEF FiniteTables
  <2>7. ASSUME NEW a \in IPs
        PROVE  /\ ipCount'[a] = Cardinality({d \in clients' : IPOf[d] = a})
               /\ ipCount'[a] <= MaxPerIP
    <3>1. /\ ipCount[a] = Cardinality(From(clients, a))
          /\ ipCount[a] <= MaxPerIP /\ ipCount[a] \in Nat
      BY <1>1 DEF TablesAgree, TypeOK, From
    <3>2. IsFiniteSet(From(clients, a))
      BY <2>5, FS_Subset, From(clients, a) \in SUBSET clients DEF From
    <3>3. {d \in clients' : IPOf[d] = a}
            = IF IPOf[c] = a THEN From(clients, a) \cup {c} ELSE From(clients, a)
      BY <2>1 DEF From
    <3>4. c \notin From(clients, a)
      BY <1>4 DEF From
    <3>5. Cardinality(From(clients, a) \cup {c}) = Cardinality(From(clients, a)) + 1
      BY <3>2, <3>4, FS_AddElement
    <3>6. CASE IPOf[c] = a
      <4>1. ipCount'[a] = ipCount[a] + 1
        BY <1>1, <2>1, <3>6 DEF TypeOK
      <4>2. ipCount[a] < MaxPerIP
        BY <1>8, <3>1, <3>6, LimitAssumption
      <4> QED BY <3>1, <3>3, <3>5, <3>6, <4>1, <4>2, LimitAssumption
    <3>7. CASE IPOf[c] # a
      <4>1. ipCount'[a] = ipCount[a]
        BY <1>1, <2>1, <3>7 DEF TypeOK
      <4> QED BY <3>1, <3>3, <3>7, <4>1
    <3> QED BY <3>6, <3>7
  <2>8. Cardinality(clients') <= MaxTotal
    BY <1>8, <2>5, LimitAssumption
  <2>9. TablesAgree'
    BY <1>1, <2>1, <2>4, <2>7, <2>8 DEF TablesAgree
  <2>10. TableIsOpen' /\ NoPanic'
    BY <1>1, <1>4, <2>1 DEF TableIsOpen, NoPanic
  <2>11. RegisterOnce'
    <3>1. \A i \in 1..Len(register') : /\ reader'[register'[i]] # "none"
                                       /\ register'[i] \notin clients'
                                       /\ ~sendClosed'[register'[i]]
      BY <1>1, <1>2, <1>3, <1>5, <2>1 DEF RegisterOnce
    <3>3. \A d \in Clients : reader'[d] = "none" => d \notin clients' /\ ~sendClosed'[d]
      BY <1>1, <1>2, <1>4, <2>1 DEF RegisterOnce
    <3> QED BY <1>6, <3>1, <3>3 DEF RegisterOnce
  <2> QED BY <2>3, <2>6, <2>9, <2>10, <2>11 DEF HubInv
<1> QED BY <1>7, <1>8

\* Subscribe and Unsubscribe change one pair in both tables, or nothing.
LEMMA HubSubscribePreserves == HubInv /\ (HubSubscribe \/ HubUnsubscribe) => HubInv'
<1> SUFFICES ASSUME HubInv, HubSubscribe \/ HubUnsubscribe PROVE HubInv'
  OBVIOUS
<1>1. TypeOK /\ TablesAgree /\ FiniteTables /\ TableIsOpen /\ RegisterOnce /\ NoPanic
  BY DEF HubInv
<1>2. /\ UNCHANGED <<register, unregister, broadcast, directSend, clients, ipCount, sendClosed,
                     conn, reader, writer, running>>
      /\ subscribe' \in Seq(Requests) /\ unsubscribe' \in Seq(Requests)
  <2>1. subscribe \in Seq(Requests) /\ unsubscribe \in Seq(Requests)
    BY <1>1 DEF TypeOK
  <2>2. CASE HubSubscribe
    BY <2>1, <2>2 DEF HubSubscribe, pumps
  <2>3. CASE HubUnsubscribe
    BY <2>1, <2>3 DEF HubUnsubscribe, pumps
  <2> QED BY <2>2, <2>3
<1>3. PICK r \in Requests :
        \/ UNCHANGED <<subs, clientSubs, send, panicked>>
        \/ r[1] \in clients /\ SendJSON(r[1]) /\ UNCHANGED <<subs, clientSubs>>
        \/ /\ r[1] \in clients /\ SendJSON(r[1])
           /\ Cardinality(clientSubs[r[1]]) < MaxSubs /\ r[2] \notin clientSubs[r[1]]
           /\ subs' = [subs EXCEPT ![r[2]] = @ \cup {r[1]}]
           /\ clientSubs' = [clientSubs EXCEPT ![r[1]] = @ \cup {r[2]}]
        \/ /\ r[1] \in clients /\ SendJSON(r[1])
           /\ subs' = [subs EXCEPT ![r[2]] = @ \ {r[1]}]
           /\ clientSubs' = [clientSubs EXCEPT ![r[1]] = @ \ {r[2]}]
  <2>1. CASE HubSubscribe
    <3>1. Head(subscribe) \in Requests
      BY <1>1, <2>1 DEF HubSubscribe, TypeOK
    <3> QED BY <2>1, <3>1 DEF HubSubscribe
  <2>2. CASE HubUnsubscribe
    <3>1. Head(unsubscribe) \in Requests
      BY <1>1, <2>2 DEF HubUnsubscribe, TypeOK
    <3> QED BY <2>2, <3>1 DEF HubUnsubscribe
  <2> QED BY <2>1, <2>2
<1> DEFINE c == r[1]
           t == r[2]
<1>4. c \in Clients /\ t \in Topics
  BY DEF Requests
<1> HIDE DEF c, t
<1>5. send' \in [Clients -> 0..SendCap] /\ panicked' = FALSE
  <2>1. CASE UNCHANGED <<send, panicked>>
    BY <1>1, <2>1 DEF TypeOK, NoPanic
  <2>2. CASE c \in clients /\ SendJSON(c)
    BY <1>1, <1>4, <2>2, SendFacts DEF NoPanic, TableIsOpen
  <2> QED BY <1>3, <2>1, <2>2 DEF c
<1>6. /\ subs' \in [Topics -> SUBSET Clients] /\ clientSubs' \in [Clients -> SUBSET Topics]
      /\ \A x \in Topics : subs'[x] = {d \in Clients : x \in clientSubs'[d]}
      /\ \A d \in Clients : clientSubs'[d] # {} => d \in clients
      /\ \A d \in Clients : IsFiniteSet(clientSubs'[d]) /\ Cardinality(clientSubs'[d]) <= MaxSubs
  <2>1. /\ subs \in [Topics -> SUBSET Clients] /\ clientSubs \in [Clients -> SUBSET Topics]
        /\ \A x \in Topics : subs[x] = {d \in Clients : x \in clientSubs[d]}
        /\ \A d \in Clients : clientSubs[d] # {} => d \in clients
        /\ \A d \in Clients : IsFiniteSet(clientSubs[d]) /\ Cardinality(clientSubs[d]) <= MaxSubs
    BY <1>1 DEF TypeOK, TablesAgree, FiniteTables
  <2>2. CASE UNCHANGED <<subs, clientSubs>>
    BY <2>1, <2>2
  <2>3. CASE /\ c \in clients
             /\ Cardinality(clientSubs[c]) < MaxSubs /\ t \notin clientSubs[c]
             /\ subs' = [subs EXCEPT ![t] = @ \cup {c}]
             /\ clientSubs' = [clientSubs EXCEPT ![c] = @ \cup {t}]
    <3>1. /\ subs' \in [Topics -> SUBSET Clients] /\ clientSubs' \in [Clients -> SUBSET Topics]
          /\ \A x \in Topics : subs'[x] = {d \in Clients : x \in clientSubs'[d]}
          /\ \A d \in Clients : clientSubs'[d] # {} => d \in clients
      BY <1>4, <2>1, <2>3
    <3>2. /\ IsFiniteSet(clientSubs[c] \cup {t})
          /\ Cardinality(clientSubs[c] \cup {t}) = Cardinality(clientSubs[c]) + 1
          /\ Cardinality(clientSubs[c]) \in Nat
      BY <1>4, <2>1, <2>3, FS_AddElement, FS_CardinalityType
    <3>3. clientSubs'[c] = clientSubs[c] \cup {t}
      BY <1>4, <2>1, <2>3
    <3>4. \A d \in Clients : d # c => clientSubs'[d] = clientSubs[d]
      BY <1>4, <2>1, <2>3
    <3>5. Cardinality(clientSubs[c]) + 1 <= MaxSubs
      BY <2>3, <3>2, LimitAssumption
    <3> QED BY <2>1, <3>1, <3>2, <3>3, <3>4, <3>5
  <2>4. CASE /\ c \in clients
             /\ subs' = [subs EXCEPT ![t] = @ \ {c}]
             /\ clientSubs' = [clientSubs EXCEPT ![c] = @ \ {t}]
    <3>1. /\ subs' \in [Topics -> SUBSET Clients] /\ clientSubs' \in [Clients -> SUBSET Topics]
          /\ \A x \in Topics : subs'[x] = {d \in Clients : x \in clientSubs'[d]}
          /\ \A d \in Clients : clientSubs'[d] # {} => d \in clients
      BY <1>4, <2>1, <2>4
    <3>2. /\ IsFiniteSet(clientSubs[c] \ {t})
          /\ Cardinality(clientSubs[c] \ {t}) <= Cardinality(clientSubs[c])
          /\ Cardinality(clientSubs[c]) \in Nat /\ Cardinality(clientSubs[c] \ {t}) \in Nat
      BY <1>4, <2>1, FS_Subset, FS_CardinalityType, clientSubs[c] \ {t} \in SUBSET clientSubs[c]
    <3>3. clientSubs'[c] = clientSubs[c] \ {t}
      BY <1>4, <2>1, <2>4
    <3>4. \A d \in Clients : d # c => clientSubs'[d] = clientSubs[d]
      BY <1>4, <2>1, <2>4
    <3>5. Cardinality(clientSubs[c] \ {t}) <= MaxSubs
      BY <1>4, <2>1, <3>2, LimitAssumption
    <3> QED BY <2>1, <3>1, <3>2, <3>3, <3>4, <3>5
  <2> QED BY <1>3, <2>2, <2>3, <2>4 DEF c, t
<1>7. TypeOK'
  BY <1>1, <1>2, <1>5, <1>6 DEF TypeOK
<1>8. TablesAgree' /\ FiniteTables'
  BY <1>1, <1>2, <1>6 DEF TablesAgree, FiniteTables
<1>9. TableIsOpen' /\ RegisterOnce' /\ NoPanic'
  BY <1>1, <1>2, <1>5 DEF TableIsOpen, RegisterOnce, NoPanic
<1> QED BY <1>7, <1>8, <1>9 DEF HubInv

-----------------------------------------------------------------------------
LEMMA HubInductive == HubInv /\ [Next]_vars => HubInv'
<1> SUFFICES ASSUME HubInv, [Next]_vars PROVE HubInv'
  OBVIOUS
<1>1. CASE \E c \in Clients : \/ Accept(c) \/ Disconnect(c) \/ ReadOther(c) \/ ReadError(c)
                              \/ WriteMessage(c) \/ WriterExit(c)
  BY <1>1, PumpsPreserve
<1>2. CASE \E c \in Clients : ServeHTTP(c)
  BY <1>2, ServePreserves
<1>3. CASE \E t \in Topics : Broadcast(t) \/ \E c \in Clients : ReadSubscribe(c, t) \/ ReadUnsubscribe(c, t)
  BY <1>3, QueuesPreserve
<1>4. CASE HubStep
  BY <1>4, HubRegisterPreserves, HubUnregisterPreserves, HubSubscribePreserves,
     HubDirectSendPreserves, HubBroadcastPreserves DEF HubStep
<1>5. CASE HubStop
  BY <1>5, HubStopPreserves
<1>6. CASE UNCHANGED vars
  <2>1. TypeOK'
    BY <1>6 DEF HubInv, TypeOK, vars, channels, tables, sends, pumps
  <2> QED BY <1>6, <2>1, HubFrame DEF vars, channels, sends, pumps
<1> QED BY <1>1, <1>2, <1>3, <1>4, <1>5, <1>6 DEF Next

LEMMA HubInvariant == Spec => []HubInv
BY HubInitInv, HubInductive, PTL DEF Spec

\* The type invariant; register and unregister keep their capacity.
THEOREM HubTypeCorrect == Spec => []TypeOK
<1>1. HubInv => TypeOK
  BY DEF HubInv
<1> QED BY <1>1, HubInvariant, PTL

\* subs and clientSubs mirror each other, the per-address counters are exact
\* and no limit is exceeded, however register, unregister, subscribe, kicks and
\* broadcasts interleave (Hub.Run).
THEOREM HubTablesAgree == Spec => []TablesAgree
<1>1. HubInv => TablesAgree
  BY DEF HubInv
<1> QED BY <1>1, HubInvariant, PTL

\* The hub never closes client.send twice and never sends on it once it is
\* closed (removeClient, sendJSON, the broadcast case of Run).
THEOREM HubNeverPanics == Spec => []NoPanic
<1>1. HubInv => NoPanic
  BY DEF HubInv
<1> QED BY <1>1, HubInvariant, PTL

\* What a step may do to a client whose channel is closed: take messages out.
LEMMA StaysOut ==
  ASSUME HubInv, [Next]_vars, NEW c \in Clients, sendClosed[c]
  PROVE  sendClosed'[c] /\ c \notin clients' /\ send'[c] <= send[c]
<1>1. TypeOK /\ TablesAgree /\ TableIsOpen /\ RegisterOnce /\ NoPanic
  BY DEF HubInv
<1>2. c \notin clients /\ send[c] \in Int /\ send[c] <= send[c]
  BY <1>1, LimitAssumption DEF TypeOK, TableIsOpen
<1>3. \A d \in Clients : d \in clients \/ ~sendClosed[d] => d # c
  BY <1>2
<1>4. ASSUME NEW d \in Clients, WriteMessage(d) \/ WriterExit(d)
      PROVE  sendClosed'[c] /\ c \notin clients' /\ send'[c] <= send[c]
  <2>1. UNCHANGED <<clients, sendClosed>>
    BY <1>4 DEF WriteMessage, WriterExit, tables
  <2>2. send' = send \/ send' = [send EXCEPT ![d] = @ - 1]
    BY <1>4 DEF WriteMessage, WriterExit
  <2>3. send \in [Clients -> 0..SendCap]
    BY <1>1 DEF TypeOK
  <2>4. send'[c] <= send[c]
    BY <1>2, <2>2, <2>3
  <2> QED BY <1>2, <2>1, <2>4
<1>5. CASE UNCHANGED <<clients, send, sendClosed>>
  BY <1>2, <1>5
<1>6. CASE HubDirectSend \/ HubSubscribe \/ HubUnsubscribe
  <2>1. UNCHANGED <<clients, sendClosed>>
    BY <1>6 DEF HubDirectSend, HubSubscribe, HubUnsubscribe, tables
  <2>2. CASE UNCHANGED send
    BY <1>2, <2>1, <2>2
  <2>3. CASE \E d \in clients : SendJSON(d)
    <3>1. PICK d \in clients : SendJSON(d)
      BY <2>3
    <3>2. d \in Clients /\ ~sendClosed[d] /\ d # c
      BY <1>1, <1>2 DEF TypeOK, TableIsOpen
    <3>3. send'[c] = send[c]
      BY <1>1, <3>1, <3>2, SendFacts DEF NoPanic
    <3> QED BY <1>2, <2>1, <3>3
  <2> QED BY <1>6, <2>2, <2>3 DEF HubDirectSend, HubSubscribe, HubUnsubscribe
<1>7. CASE HubRegister
  <2> DEFINE d == Head(register)
  <2>1. d \in Clients /\ d = register[1] /\ 1 \in 1..Len(register)
    BY <1>1, <1>7 DEF HubRegister, TypeOK
  <2>2. ~sendClosed[d] /\ d # c
    BY <1>1, <2>1 DEF RegisterOnce
  <2>3. CASE SendJSON(d) /\ sendClosed' = [sendClosed EXCEPT ![d] = TRUE] /\ UNCHANGED tables
    <3>1. send'[c] = send[c]
      BY <1>1, <2>1, <2>2, <2>3, SendFacts DEF NoPanic
    <3>2. sendClosed'[c] = sendClosed[c]
      BY <1>1, <2>2, <2>3 DEF TypeOK
    <3> QED BY <1>2, <2>3, <3>1, <3>2 DEF tables
  <2>4. CASE clients' = clients \cup {d} /\ UNCHANGED <<send, sendClosed>>
    BY <1>2, <2>2, <2>4
  <2> QED BY <1>7, <2>3, <2>4 DEF HubRegister, sends
<1>8. CASE HubUnregister \/ HubStop \/ HubBroadcast
  <2>1. PICK cs \in SUBSET Clients : RemoveClients(cs)
    <3>1. CASE HubUnregister
      BY <1>1, <3>1 DEF HubUnregister, TypeOK
    <3>2. CASE HubStop
      BY <1>1, <3>2 DEF HubStop, TypeOK
    <3>3. CASE HubBroadcast
      <4> DEFINE slow == {x \in subs[Head(broadcast)] : send[x] >= SendCap}
      <4>1. Head(broadcast) \in Topics
        BY <1>1, <3>3 DEF HubBroadcast, TypeOK
      <4>2. slow \in SUBSET Clients
        BY <1>1, <4>1 DEF TypeOK
      <4>3. RemoveClients(slow)
        BY <3>3 DEF HubBroadcast
      <4> QED BY <4>2, <4>3
    <3> QED BY <1>8, <3>1, <3>2, <3>3
  <2>2. clients' \subseteq clients /\ sendClosed'[c]
    BY <2>1, RemoveFacts
  <2>3. send'[c] = send[c]
    <3>1. CASE HubUnregister \/ HubStop
      BY <3>1 DEF HubUnregister, HubStop
    <3>2. CASE HubBroadcast
      <4>1. Head(broadcast) \in Topics
        BY <1>1, <3>2 DEF HubBroadcast, TypeOK
      <4>2. c \notin subs[Head(broadcast)]
        BY <1>1, <1>2, <4>1 DEF TablesAgree
      <4> QED BY <3>2, <4>2 DEF HubBroadcast
    <3> QED BY <1>8, <3>1, <3>2
  <2> QED BY <1>2, <2>2, <2>3
<1>9. CASE UNCHANGED vars
  BY <1>5, <1>9 DEF vars, tables, sends
<1>10. ASSUME NEW d \in Clients,
              \/ Accept(d) \/ ServeHTTP(d) \/ Disconnect(d) \/ ReadOther(d) \/ ReadError(d)
       PROVE  UNCHANGED <<clients, send, sendClosed>>
  BY <1>10 DEF Accept, ServeHTTP, Disconnect, ReadOther, ReadError, tables, sends
<1>11. ASSUME NEW t \in Topics,
              Broadcast(t) \/ \E d \in Clients : ReadSubscribe(d, t) \/ ReadUnsubscribe(d, t)
       PROVE  UNCHANGED <<clients, send, sendClosed>>
  BY <1>11 DEF Broadcast, ReadSubscribe, ReadUnsubscribe, tables, sends
<1> QED BY <1>4, <1>5, <1>6, <1>7, <1>8, <1>9, <1>10, <1>11 DEF Next, HubStep

\* A client the hub has dropped or refused never comes back into the tables,
\* and nothing more is put into its channel, although its subscribes, answers
\* and broadcasts may still be queued (Hub.Run).
THEOREM HubNoReturn == Spec => ClosedClientsStayOut
<1>1. HubInv /\ [Next]_vars => NoReturn
  BY StaysOut DEF NoReturn
<1>2. HubInv /\ [Next]_vars => [NoReturn]_vars
  BY <1>1
<1> QED BY <1>2, HubInvariant, PTL DEF Spec, ClosedClientsStayOut

=============================================================================
