-------------------------------- MODULE Hub --------------------------------
(***************************************************************************)
(* The WebSocket hub: Hub.Run, the single goroutine that owns the client   *)
(* tables, and the goroutines around it that talk to it over six separate  *)
(* channels: the upgrade handler (register), each client's readPump        *)
(* (subscribe, unsubscribe, directSend, unregister) and writePump (drains  *)
(* client.send), and the event handlers (broadcast).  Go's select picks    *)
(* any ready channel, so requests on different channels overtake each      *)
(* other.                                                                  *)
(*                                                                         *)
(* A message is opaque: client.send is the number of messages in it.       *)
(***************************************************************************)
EXTENDS Integers, SequencesExt

CONSTANTS
  Clients,       \* connections, one upgrade each
  IPs,           \* remote addresses
  IPOf,          \* the address of each connection
  Topics,        \* Subscription{Channel, Stock}
  MaxTotal,      \* MaxTotalConnections (1000 in the code)
  MaxPerIP,      \* MaxConnPerIP (10)
  MaxSubs,       \* MaxSubsPerClient (20)
  ControlCap,    \* capacity of register, unregister, subscribe, unsubscribe (64)
  MessageCap,    \* capacity of broadcast and directSend (256)
  SendCap        \* capacity of client.send (256)

ASSUME AddressAssumption == IPOf \in [Clients -> IPs]
ASSUME LimitAssumption ==
  /\ MaxTotal \in Nat /\ MaxPerIP \in Nat /\ MaxSubs \in Nat
  /\ ControlCap \in Nat \ {0} /\ MessageCap \in Nat /\ SendCap \in Nat

VARIABLES
  register, unregister, subscribe, unsubscribe, broadcast, directSend,
  clients,     \* Hub.clients
  subs,        \* Hub.subs
  clientSubs,  \* Hub.clientSubs, {} when there is no entry
  ipCount,     \* Hub.ipCount, 0 when there is no entry
  send,        \* number of messages in client.send
  sendClosed,  \* client.send has been closed
  conn,        \* the connection: none, open or closed
  reader,      \* readPump: none, reading, done
  writer,      \* writePump: none, running, done
  running,     \* Hub.Run has not returned
  panicked     \* the hub has sent on, or closed, a closed channel

channels == <<register, unregister, subscribe, unsubscribe, broadcast, directSend>>
tables   == <<clients, subs, clientSubs, ipCount>>
sends    == <<send, sendClosed>>
pumps    == <<conn, reader, writer>>
vars     == <<channels, tables, sends, pumps, running, panicked>>

Init ==
  /\ register = <<>> /\ unregister = <<>> /\ subscribe = <<>>
  /\ unsubscribe = <<>> /\ broadcast = <<>> /\ directSend = <<>>
  /\ clients = {}
  /\ subs = [t \in Topics |-> {}]
  /\ clientSubs = [c \in Clients |-> {}]
  /\ ipCount = [a \in IPs |-> 0]
  /\ send = [c \in Clients |-> 0]
  /\ sendClosed = [c \in Clients |-> FALSE]
  /\ conn = [c \in Clients |-> "none"]
  /\ reader = [c \in Clients |-> "none"]
  /\ writer = [c \in Clients |-> "none"]
  /\ running = TRUE /\ panicked = FALSE

-----------------------------------------------------------------------------
(***************************************************************************)
(* Handler.ServeHTTP: a blocking send on register, then both pumps start.  *)
(***************************************************************************)
Accept(c) ==
  /\ conn[c] = "none"
  /\ conn' = [conn EXCEPT ![c] = "open"]
  /\ UNCHANGED <<channels, tables, sends, reader, writer, running, panicked>>

ServeHTTP(c) ==
  /\ conn[c] # "none" /\ reader[c] = "none"
  /\ Len(register) < ControlCap
  /\ register' = Append(register, c)
  /\ reader' = [reader EXCEPT ![c] = "reading"]
  /\ writer' = [writer EXCEPT ![c] = "running"]
  /\ UNCHANGED <<unregister, subscribe, unsubscribe, broadcast, directSend,
                 tables, sends, conn, running, panicked>>

\* The peer goes away, nothing arrives for pongWait, or a write times out.
Disconnect(c) ==
  /\ conn[c] = "open"
  /\ conn' = [conn EXCEPT ![c] = "closed"]
  /\ UNCHANGED <<channels, tables, sends, reader, writer, running, panicked>>

-----------------------------------------------------------------------------
(***************************************************************************)
(* readPump and handleMessage.  subscribe and unsubscribe are blocking     *)
(* sends; SendJSONSafe drops when directSend is full.  The message may     *)
(* have been read before the connection closed.                            *)
(***************************************************************************)
CanRead(c) == reader[c] = "reading"

ReadSubscribe(c, t) ==
  /\ CanRead(c) /\ Len(subscribe) < ControlCap
  /\ subscribe' = Append(subscribe, <<c, t>>)
  /\ UNCHANGED <<register, unregister, unsubscribe, broadcast, directSend,
                 tables, sends, pumps, running, panicked>>

ReadUnsubscribe(c, t) ==
  /\ CanRead(c) /\ Len(unsubscribe) < ControlCap
  /\ unsubscribe' = Append(unsubscribe, <<c, t>>)
  /\ UNCHANGED <<register, unregister, subscribe, broadcast, directSend,
                 tables, sends, pumps, running, panicked>>

\* ping, an unknown action, invalid JSON: one answer through directSend.
ReadOther(c) ==
  /\ CanRead(c) /\ Len(directSend) < MessageCap
  /\ directSend' = Append(directSend, c)
  /\ UNCHANGED <<register, unregister, subscribe, unsubscribe, broadcast,
                 tables, sends, pumps, running, panicked>>

\* conn.Read fails: the deferred blocking send on unregister.
ReadError(c) ==
  /\ reader[c] = "reading" /\ conn[c] = "closed"
  /\ Len(unregister) < ControlCap
  /\ unregister' = Append(unregister, c)
  /\ reader' = [reader EXCEPT ![c] = "done"]
  /\ UNCHANGED <<register, subscribe, unsubscribe, broadcast, directSend,
                 tables, sends, conn, writer, running, panicked>>

(***************************************************************************)
(* writePump: write a message, or close the connection and return when     *)
(* send is closed and drained, a write fails (its message is lost) or a    *)
(* ping fails.                                                             *)
(***************************************************************************)
WriteMessage(c) ==
  /\ writer[c] = "running" /\ send[c] > 0 /\ conn[c] = "open"
  /\ send' = [send EXCEPT ![c] = @ - 1]
  /\ UNCHANGED <<channels, tables, sendClosed, pumps, running, panicked>>

\* Mutant: the writer returns without closing the connection.
WriterExitLeavesConn(c) ==
  /\ writer[c] = "running"
  /\ (send[c] = 0 /\ sendClosed[c]) \/ conn[c] = "closed"
  /\ writer' = [writer EXCEPT ![c] = "done"]
  /\ UNCHANGED <<channels, tables, sends, conn, reader, running, panicked>>

WriterExit(c) ==
  /\ writer[c] = "running"
  /\ \/ send[c] = 0 /\ sendClosed[c] /\ UNCHANGED send
     \/ conn[c] = "closed" /\ send[c] > 0 /\ send' = [send EXCEPT ![c] = @ - 1]
     \/ conn[c] = "closed" /\ UNCHANGED send
  /\ writer' = [writer EXCEPT ![c] = "done"]
  /\ conn' = [conn EXCEPT ![c] = "closed"]
  /\ UNCHANGED <<channels, tables, sendClosed, reader, running, panicked>>

-----------------------------------------------------------------------------
(***************************************************************************)
(* Hub.Run.  sendJSON: a non-blocking send to client.send.                 *)
(***************************************************************************)
\* Mutant: the send does not stop at the capacity of client.send.
SendJSONUnbounded(c) ==
  /\ send' = [send EXCEPT ![c] = IF ~sendClosed[c] THEN @ + 1 ELSE @]
  /\ panicked' = (panicked \/ sendClosed[c])

SendJSON(c) ==
  /\ send' = [send EXCEPT ![c] = IF @ < SendCap /\ ~sendClosed[c] THEN @ + 1 ELSE @]
  /\ panicked' = (panicked \/ sendClosed[c])

\* Mutant: the per-address counter is not given back.
RemoveClientsKeepsIP(cs) ==
  LET gone == cs \cap clients
  IN  /\ clients' = clients \ gone
      /\ subs' = [t \in Topics |-> subs[t] \ {c \in gone : t \in clientSubs[c]}]
      /\ clientSubs' = [c \in Clients |-> IF c \in gone THEN {} ELSE clientSubs[c]]
      /\ sendClosed' = [c \in Clients |-> sendClosed[c] \/ c \in gone]
      /\ UNCHANGED ipCount

\* removeClient for a set of clients; those not in the table are ignored.
RemoveClients(cs) ==
  LET gone == cs \cap clients
  IN  /\ clients' = clients \ gone
      /\ subs' = [t \in Topics |-> subs[t] \ {c \in gone : t \in clientSubs[c]}]
      /\ clientSubs' = [c \in Clients |-> IF c \in gone THEN {} ELSE clientSubs[c]]
      /\ ipCount' = [a \in IPs |-> ipCount[a] - Cardinality({c \in gone : IPOf[c] = a})]
      /\ sendClosed' = [c \in Clients |-> sendClosed[c] \/ c \in gone]

\* close of a closed channel panics.
ClosesTwice(cs) == \E c \in cs \cap clients : sendClosed[c]

\* Mutant: `continue` is missing, the refused client is registered too.
HubRegisterFallsThrough ==
  /\ running /\ register # <<>>
  /\ register' = Tail(register)
  /\ LET c == Head(register)
         refused == Cardinality(clients) >= MaxTotal \/ ipCount[IPOf[c]] >= MaxPerIP
     IN  /\ sendClosed' = [sendClosed EXCEPT ![c] = refused]
         /\ clients' = clients \cup {c}
         /\ ipCount' = [ipCount EXCEPT ![IPOf[c]] = @ + 1]
  /\ UNCHANGED <<unregister, subscribe, unsubscribe, broadcast, directSend,
                 subs, clientSubs, send, panicked, pumps, running>>

HubRegister ==
  /\ running /\ register # <<>>
  /\ register' = Tail(register)
  /\ LET c == Head(register)
     IN  IF Cardinality(clients) >= MaxTotal \/ ipCount[IPOf[c]] >= MaxPerIP
         THEN /\ SendJSON(c)
              /\ sendClosed' = [sendClosed EXCEPT ![c] = TRUE]
              /\ UNCHANGED tables
         ELSE /\ clients' = clients \cup {c}
              /\ clientSubs' = [clientSubs EXCEPT ![c] = {}]
              /\ ipCount' = [ipCount EXCEPT ![IPOf[c]] = @ + 1]
              /\ UNCHANGED <<subs, sends, panicked>>
  /\ UNCHANGED <<unregister, subscribe, unsubscribe, broadcast, directSend, pumps, running>>

HubUnregister ==
  /\ running /\ unregister # <<>>
  /\ unregister' = Tail(unregister)
  /\ RemoveClients({Head(unregister)})
  /\ panicked' = (panicked \/ ClosesTwice({Head(unregister)}))
  /\ UNCHANGED <<register, subscribe, unsubscribe, broadcast, directSend, send, pumps, running>>

HubSubscribe ==
  /\ running /\ subscribe # <<>>
  /\ subscribe' = Tail(subscribe)
  /\ LET c == Head(subscribe)[1]
         t == Head(subscribe)[2]
     IN  \/ /\ c \notin clients \/ (t \in clientSubs[c] /\ Cardinality(clientSubs[c]) < MaxSubs)
            /\ UNCHANGED <<subs, clientSubs, send, panicked>>
         \/ /\ c \in clients /\ Cardinality(clientSubs[c]) >= MaxSubs
            /\ SendJSON(c)
            /\ UNCHANGED <<subs, clientSubs>>
         \/ /\ c \in clients /\ t \notin clientSubs[c] /\ Cardinality(clientSubs[c]) < MaxSubs
            /\ subs' = [subs EXCEPT ![t] = @ \cup {c}]
            /\ clientSubs' = [clientSubs EXCEPT ![c] = @ \cup {t}]
            /\ SendJSON(c)
  /\ UNCHANGED <<register, unregister, unsubscribe, broadcast, directSend,
                 clients, ipCount, sendClosed, pumps, running>>

HubUnsubscribe ==
  /\ running /\ unsubscribe # <<>>
  /\ unsubscribe' = Tail(unsubscribe)
  /\ LET c == Head(unsubscribe)[1]
         t == Head(unsubscribe)[2]
     IN  \/ /\ c \notin clients
            /\ UNCHANGED <<subs, clientSubs, send, panicked>>
         \/ /\ c \in clients
            /\ subs' = [subs EXCEPT ![t] = @ \ {c}]
            /\ clientSubs' = [clientSubs EXCEPT ![c] = @ \ {t}]
            /\ SendJSON(c)
  /\ UNCHANGED <<register, unregister, subscribe, broadcast, directSend,
                 clients, ipCount, sendClosed, pumps, running>>

\* Mutant: the answer is sent without looking the client up.
HubDirectSendUnchecked ==
  /\ running /\ directSend # <<>>
  /\ directSend' = Tail(directSend)
  /\ SendJSON(Head(directSend))
  /\ UNCHANGED <<register, unregister, subscribe, unsubscribe, broadcast,
                 tables, sendClosed, pumps, running>>

HubDirectSend ==
  /\ running /\ directSend # <<>>
  /\ directSend' = Tail(directSend)
  /\ \/ Head(directSend) \in clients /\ SendJSON(Head(directSend))
     \/ Head(directSend) \notin clients /\ UNCHANGED <<send, panicked>>
  /\ UNCHANGED <<register, unregister, subscribe, unsubscribe, broadcast,
                 tables, sendClosed, pumps, running>>

\* Deliver to every subscriber with room; kick the others.
HubBroadcast ==
  /\ running /\ broadcast # <<>>
  /\ broadcast' = Tail(broadcast)
  /\ LET to   == subs[Head(broadcast)]
         slow == {c \in to : send[c] >= SendCap}
     IN  /\ send' = [c \in Clients |-> IF c \in to \ slow THEN send[c] + 1 ELSE send[c]]
         /\ panicked' = (panicked \/ \E c \in to : sendClosed[c])
         /\ RemoveClients(slow)
  /\ UNCHANGED <<register, unregister, subscribe, unsubscribe, directSend, pumps, running>>

\* ctx.Done: every client is removed and Run returns.
HubStop ==
  /\ running
  /\ running' = FALSE
  /\ RemoveClients(clients)
  /\ panicked' = (panicked \/ ClosesTwice(clients))
  /\ UNCHANGED <<channels, send, pumps>>

\* Hub.Broadcast, called by the event handlers: dropped when the buffer is full.
Broadcast(t) ==
  /\ Len(broadcast) < MessageCap
  /\ broadcast' = Append(broadcast, t)
  /\ UNCHANGED <<register, unregister, subscribe, unsubscribe, directSend,
                 tables, sends, pumps, running, panicked>>

HubStep ==
  \/ HubRegister \/ HubUnregister
  \/ HubSubscribe \/ HubUnsubscribe
  \/ HubDirectSend \/ HubBroadcast

Next ==
  \/ \E c \in Clients : \/ Accept(c) \/ ServeHTTP(c) \/ Disconnect(c)
                        \/ ReadOther(c) \/ ReadError(c)
                        \/ WriteMessage(c) \/ WriterExit(c)
                        \/ \E t \in Topics : ReadSubscribe(c, t) \/ ReadUnsubscribe(c, t)
  \/ \E t \in Topics : Broadcast(t)
  \/ HubStep
  \/ HubStop

Spec == Init /\ [][Next]_vars

\* Go's select picks among the ready cases at random, so a channel that has
\* something for the hub is served eventually; pumps that can run do.
Fairness ==
  /\ WF_vars(HubRegister)  /\ WF_vars(HubUnregister)
  /\ WF_vars(HubSubscribe) /\ WF_vars(HubUnsubscribe)
  /\ WF_vars(HubDirectSend) /\ WF_vars(HubBroadcast)
  /\ \A c \in Clients : /\ WF_vars(ServeHTTP(c)) /\ SF_vars(ReadError(c))
                        /\ WF_vars(WriteMessage(c)) /\ WF_vars(WriterExit(c))

FairSpec == Spec /\ Fairness

-----------------------------------------------------------------------------
(***************************************************************************)
(* Properties.                                                             *)
(***************************************************************************)
Requests == Clients \X Topics

\* Every variable holds a value of its type; the channels keep their capacity.
TypeOK ==
  /\ register \in Seq(Clients) /\ unregister \in Seq(Clients)
  /\ subscribe \in Seq(Requests) /\ unsubscribe \in Seq(Requests)
  /\ broadcast \in Seq(Topics) /\ directSend \in Seq(Clients)
  /\ Len(register) <= ControlCap /\ Len(unregister) <= ControlCap
  /\ clients \subseteq Clients
  /\ subs \in [Topics -> SUBSET Clients]
  /\ clientSubs \in [Clients -> SUBSET Topics]
  /\ ipCount \in [IPs -> Nat]
  /\ send \in [Clients -> 0..SendCap]
  /\ sendClosed \in [Clients -> BOOLEAN]
  /\ conn \in [Clients -> {"none", "open", "closed"}]
  /\ reader \in [Clients -> {"none", "reading", "done"}]
  /\ writer \in [Clients -> {"none", "running", "done"}]
  /\ running \in BOOLEAN /\ panicked \in BOOLEAN

\* The four tables describe the same clients, in whatever order requests are
\* served and clients are kicked: subs and clientSubs mirror each other, only
\* connected clients are subscribed, the per-IP counters are exact and the
\* limits hold.
TablesAgree ==
  /\ \A t \in Topics : subs[t] = {c \in Clients : t \in clientSubs[c]}
  /\ \A c \in Clients : clientSubs[c] # {} => c \in clients
  /\ \A a \in IPs : /\ ipCount[a] = Cardinality({c \in clients : IPOf[c] = a})
                    /\ ipCount[a] <= MaxPerIP
  /\ Cardinality(clients) <= MaxTotal
  /\ \A c \in Clients : Cardinality(clientSubs[c]) <= MaxSubs

\* Only the hub closes client.send, once, and it never sends on it afterwards:
\* neither would be survived by the process.
NoPanic == ~panicked

\* Once the hub has dropped or refused a client both its pumps end; a reader
\* may stay blocked in its unregister only after the hub itself has stopped.
RemovedClientEnds ==
  LET ended(c) == writer[c] = "done" /\ (reader[c] = "done" \/ ~running)
  IN  (\E c \in Clients : sendClosed[c] /\ ~ended(c))
        ~> (\A c \in Clients : sendClosed[c] => ended(c))

\* A dropped or refused client never comes back into the tables.
NoReturn ==
  \A c \in Clients : sendClosed[c] => /\ sendClosed'[c]
                                      /\ c \notin clients'
                                      /\ send'[c] <= send[c]
ClosedClientsStayOut == [][NoReturn]_vars

\* "On return it triggers hub unregister so the Hub cleans up and closes send"
\* (readPump): once the unregister of a returned reader has been served the
\* client is gone from the hub.
ReturnedReaderIsGone ==
  \A c \in Clients :
    reader[c] = "done" /\ c \notin ToSet(unregister) => c \notin clients

=============================================================================
