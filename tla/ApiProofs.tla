----------------------------- MODULE ApiProofs -----------------------------
(***************************************************************************)
(* Theorems about the services behind the HTTP API: the accounts of Auth,  *)
(* the requests RateLimiter lets pass and the lists of Queries.            *)
(***************************************************************************)
EXTENDS Auth, RateLimiter, Queries, RecursionLemmas

-----------------------------------------------------------------------------
(***************************************************************************)
(* Proofs about Auth, for any servers, names, registrations and number of  *)
(* restarts.  The two properties are not inductive: that a row Save wrote  *)
(* is not refused in the end needs the maps to be copies of the table      *)
(* (MapsCopyTable) and a registration in progress not to be in the map it  *)
(* is about to enter (NotYetIn).                                           *)
(***************************************************************************)

InProgress == {"hashed", "saved", "registered", "created", "exists", "failed", "past"}

Begun == [pc : InProgress, server : Servers, name : Names]

\* A server's map holds nothing the users table does not.
MapsCopyTable ==
  hasDB => \A v \in Servers, n \in Names : users[v][n] \in {NoUser, table[n]}

\* The row Save wrote is the registration's.
SavedInTable ==
  \A r \in Registrations : reg[r].pc = "saved" => hasDB /\ table[reg[r].name] = r

\* Before the write lock a registration is not in the map it will enter.
NotYetIn ==
  \A r \in Registrations :
    reg[r].pc \in {"hashed", "saved"} => users[reg[r].server][reg[r].name] # r

\* A user the server has answered for is in both maps.
AnsweredIsIn ==
  \A r \in Registrations :
    reg[r].pc \in {"registered", "created"} =>
      users[reg[r].server][reg[r].name] = r /\ r \in byID[reg[r].server]

\* Tokens name the user of the table.
TokensAgree == hasDB => \A t \in tokens \cup acted : table[t.name] = t.id

AuthInv ==
  /\ AuthTypeOK
  /\ MapsCopyTable /\ SavedInTable /\ NotYetIn /\ AnsweredIsIn /\ TokensAgree

-----------------------------------------------------------------------------
\* The shape of a registration: not begun, or with a server and a name.
LEMMA RegShape ==
  ASSUME AuthTypeOK, NEW r \in Registrations
  PROVE  /\ reg[r].pc = "none" => reg[r] = [pc |-> "none"]
         /\ reg[r].pc # "none" => reg[r] \in Begun
         /\ reg[r].pc \in InProgress \cup {"none"}
<1>1. reg[r] \in [pc : {"none"}] \cup Begun
  BY DEF AuthTypeOK, Begun, InProgress
<1>2. CASE reg[r] \in [pc : {"none"}]
  BY <1>2
<1>3. CASE reg[r] \in Begun
  BY <1>3 DEF Begun, InProgress
<1> QED
  BY <1>1, <1>2, <1>3

\* A step that moves one registration on leaves its type and the others alone.
LEMMA AtStep ==
  ASSUME AuthTypeOK, NEW r \in Registrations, NEW to \in InProgress,
         reg[r].pc # "none", At(r, to)
  PROVE  /\ reg' \in [Registrations -> [pc : {"none"}] \cup Begun]
         /\ reg'[r].pc = to /\ reg'[r].server = reg[r].server /\ reg'[r].name = reg[r].name
         /\ \A q \in Registrations : q # r => reg'[q] = reg[q]
<1>1. reg \in [Registrations -> [pc : {"none"}] \cup Begun]
  BY DEF AuthTypeOK, Begun, InProgress
<1>2. reg[r] \in Begun
  BY RegShape
<1>3. [reg[r] EXCEPT !.pc = to] \in Begun
  BY <1>2 DEF Begun
<1>4. reg' = [reg EXCEPT ![r] = [reg[r] EXCEPT !.pc = to]]
  BY DEF At
<1>5. /\ [reg[r] EXCEPT !.pc = to].pc = to
      /\ [reg[r] EXCEPT !.pc = to].server = reg[r].server
      /\ [reg[r] EXCEPT !.pc = to].name = reg[r].name
  BY <1>2 DEF Begun
<1> QED
  BY <1>1, <1>3, <1>4, <1>5

LEMMA AuthInit1 == AuthInit => AuthInv
<1> SUFFICES ASSUME AuthInit PROVE AuthInv
  OBVIOUS
<1>1. AuthTypeOK
  BY AuthAssumption DEF AuthInit, AuthTypeOK, NoUsers
<1> QED
  BY <1>1 DEF AuthInit, AuthInv, MapsCopyTable, SavedInTable, NotYetIn, AnsweredIsIn,
              TokensAgree, NoUsers

-----------------------------------------------------------------------------
LEMMA CheckPreserves ==
  ASSUME AuthInv, NEW r \in Registrations, NEW v \in Servers, NEW n \in Names,
         RegisterCheck(r, v, n)
  PROVE  AuthInv'
<1> DEFINE to == IF users[v][n] = NoUser THEN "hashed" ELSE "exists"
<1>1. reg' = [reg EXCEPT ![r] = [pc |-> to, server |-> v, name |-> n]]
  BY DEF RegisterCheck
<1>2. [pc |-> to, server |-> v, name |-> n] \in Begun
  BY DEF Begun, InProgress
<1>3. reg \in [Registrations -> [pc : {"none"}] \cup Begun]
  BY DEF AuthInv, AuthTypeOK, Begun, InProgress
<1>4. /\ reg' \in [Registrations -> [pc : {"none"}] \cup Begun]
      /\ reg'[r] = [pc |-> to, server |-> v, name |-> n]
      /\ \A q \in Registrations : q # r => reg'[q] = reg[q]
  BY <1>1, <1>2, <1>3
<1>5. AuthTypeOK'
  BY <1>4 DEF AuthInv, AuthTypeOK, RegisterCheck, Begun, InProgress
<1>6. MapsCopyTable' /\ TokensAgree'
  BY DEF AuthInv, RegisterCheck, MapsCopyTable, TokensAgree
<1>7. SavedInTable' /\ AnsweredIsIn'
  BY <1>4 DEF AuthInv, RegisterCheck, SavedInTable, AnsweredIsIn
<1>8. NotYetIn'
  BY <1>4, AuthAssumption DEF AuthInv, RegisterCheck, NotYetIn
<1> QED
  BY <1>5, <1>6, <1>7, <1>8 DEF AuthInv

LEMMA SavePreserves ==
  ASSUME AuthInv, NEW r \in Registrations, RegisterSave(r)
  PROVE  AuthInv'
<1> DEFINE n == reg[r].name
<1>0. reg[r] \in Begun /\ n \in Names
  BY RegShape DEF AuthInv, RegisterSave, Begun
<1>1. PICK to \in {"saved", "failed", "exists"} :
        /\ At(r, to)
        /\ \/ table[n] = NoUser /\ table' = [table EXCEPT ![n] = r]
           \/ table' = table /\ to # "saved"
  BY DEF RegisterSave
<1>2. /\ reg' \in [Registrations -> [pc : {"none"}] \cup Begun]
      /\ reg'[r].pc = to /\ reg'[r].server = reg[r].server /\ reg'[r].name = n
      /\ \A q \in Registrations : q # r => reg'[q] = reg[q]
  <2>1. to \in InProgress /\ reg[r].pc # "none" /\ AuthTypeOK
    BY DEF InProgress, RegisterSave, AuthInv
  <2> QED BY <1>1, <2>1, AtStep
<1>3. \/ table[n] = NoUser /\ table' = [table EXCEPT ![n] = r]
      \/ table' = table /\ to # "saved"
  BY <1>1
<1>4. /\ table' \in [Names -> Registrations \cup {NoUser}]
      /\ \A m \in Names : table[m] # NoUser => table'[m] = table[m]
      /\ to = "saved" => table'[n] = r
  BY <1>0, <1>3 DEF AuthInv, AuthTypeOK
<1>5. hasDB /\ UNCHANGED <<hasDB, users, byID, tokens, acted, restarts>>
  BY DEF RegisterSave
<1>6. AuthTypeOK'
  BY <1>2, <1>4, <1>5 DEF AuthInv, AuthTypeOK, Begun, InProgress
<1>7. MapsCopyTable'
  BY <1>4, <1>5 DEF AuthInv, MapsCopyTable
<1>8. SavedInTable'
  <2> SUFFICES ASSUME NEW q \in Registrations, reg'[q].pc = "saved"
               PROVE  hasDB' /\ table'[reg'[q].name] = q
    BY DEF SavedInTable
  <2>1. CASE q = r
    BY <2>1, <1>2, <1>4, <1>5
  <2>2. CASE q # r
    <3>1. reg'[q] = reg[q] /\ reg[q] \in Begun
      BY <2>2, <1>2, RegShape DEF AuthInv
    <3>2. table[reg[q].name] = q /\ reg[q].name \in Names
      BY <3>1 DEF AuthInv, SavedInTable, Begun
    <3> QED
      BY <3>1, <3>2, <1>4, <1>5, AuthAssumption
  <2> QED
    BY <2>1, <2>2
<1>9. NotYetIn' /\ AnsweredIsIn'
  BY <1>2, <1>5 DEF AuthInv, NotYetIn, AnsweredIsIn, RegisterSave
<1>10. TokensAgree'
  BY <1>4, <1>5, AuthAssumption DEF AuthInv, AuthTypeOK, TokensAgree
<1> QED
  BY <1>6, <1>7, <1>8, <1>9, <1>10 DEF AuthInv

LEMMA InsertPreserves ==
  ASSUME AuthInv, NEW r \in Registrations, RegisterInsert(r)
  PROVE  AuthInv'
<1> DEFINE v == reg[r].server
           n == reg[r].name
<1>0. reg[r] \in Begun /\ v \in Servers /\ n \in Names
  BY RegShape DEF AuthInv, RegisterInsert, Begun
<1>1. PICK to \in {"registered", "exists"} :
        /\ At(r, to)
        /\ \/ to = "exists" /\ UNCHANGED <<users, byID>>
           \/ /\ to = "registered" /\ users[v][n] = NoUser
              /\ users' = [users EXCEPT ![v][n] = r]
              /\ byID' = [byID EXCEPT ![v] = @ \cup {r}]
  BY DEF RegisterInsert
<1>2. /\ reg' \in [Registrations -> [pc : {"none"}] \cup Begun]
      /\ reg'[r].pc = to /\ reg'[r].server = v /\ reg'[r].name = n
      /\ \A q \in Registrations : q # r => reg'[q] = reg[q]
  <2>1. to \in InProgress /\ reg[r].pc # "none" /\ AuthTypeOK
    BY DEF InProgress, RegisterInsert, AuthInv
  <2> QED BY <1>1, <2>1, AtStep
<1>3. UNCHANGED <<hasDB, table, tokens, acted, restarts>>
  BY DEF RegisterInsert
<1>4. \/ to = "exists" /\ UNCHANGED <<users, byID>>
      \/ /\ to = "registered" /\ users[v][n] = NoUser
         /\ users' = [users EXCEPT ![v][n] = r]
         /\ byID' = [byID EXCEPT ![v] = @ \cup {r}]
  BY <1>1
<1>5. /\ users' \in [Servers -> [Names -> Registrations \cup {NoUser}]]
      /\ byID' \in [Servers -> SUBSET Registrations]
      /\ \A w \in Servers, m \in Names : users[w][m] # NoUser => users'[w][m] = users[w][m]
      /\ \A w \in Servers, m \in Names :
           users'[w][m] # users[w][m] => users'[w][m] = r /\ m = n
      /\ \A w \in Servers : byID[w] \subseteq byID'[w]
      /\ to = "registered" => users'[v][n] = r /\ r \in byID'[v]
  <2>0. /\ users \in [Servers -> [Names -> Registrations \cup {NoUser}]]
        /\ byID \in [Servers -> SUBSET Registrations]
    BY DEF AuthInv, AuthTypeOK
  <2>1. CASE to = "exists" /\ UNCHANGED <<users, byID>>
    BY <2>0, <2>1
  <2>2. CASE /\ to = "registered" /\ users[v][n] = NoUser
             /\ users' = [users EXCEPT ![v][n] = r]
             /\ byID' = [byID EXCEPT ![v] = @ \cup {r}]
    <3>1. users' = [users EXCEPT ![v] = [users[v] EXCEPT ![n] = r]]
      BY <2>2
    <3>2. [users[v] EXCEPT ![n] = r] \in [Names -> Registrations \cup {NoUser}]
      BY <1>0, <2>0
    <3>3. users' \in [Servers -> [Names -> Registrations \cup {NoUser}]]
      BY <2>0, <3>1, <3>2
    <3>4. byID' \in [Servers -> SUBSET Registrations]
      BY <1>0, <2>0, <2>2
    <3>5. \A w \in Servers, m \in Names :
            users'[w][m] = IF w = v /\ m = n THEN r ELSE users[w][m]
      BY <1>0, <2>0, <3>1
    <3>6. \A w \in Servers : byID'[w] = IF w = v THEN byID[w] \cup {r} ELSE byID[w]
      BY <1>0, <2>0, <2>2
    <3> QED
      BY <1>0, <2>2, <3>3, <3>4, <3>5, <3>6
  <2> QED
    BY <1>4, <2>1, <2>2
<1>6. AuthTypeOK'
  BY <1>2, <1>3, <1>5 DEF AuthInv, AuthTypeOK, Begun, InProgress
<1>7. MapsCopyTable'
  <2> SUFFICES ASSUME hasDB, NEW w \in Servers, NEW m \in Names
               PROVE  users'[w][m] \in {NoUser, table[m]}
    BY <1>3 DEF MapsCopyTable
  <2>1. table[n] = r
    BY DEF AuthInv, SavedInTable, RegisterInsert
  <2> QED
    BY <2>1, <1>5 DEF AuthInv, MapsCopyTable
<1>8. SavedInTable' /\ TokensAgree'
  BY <1>2, <1>3 DEF AuthInv, SavedInTable, TokensAgree
<1>9. NotYetIn'
  <2> SUFFICES ASSUME NEW q \in Registrations, reg'[q].pc \in {"hashed", "saved"}
               PROVE  users'[reg'[q].server][reg'[q].name] # q
    BY DEF NotYetIn
  <2>1. q # r
    BY <1>2
  <2>2. reg'[q] = reg[q] /\ reg[q].server \in Servers /\ reg[q].name \in Names
    BY <2>1, <1>2, RegShape DEF AuthInv, Begun
  <2> QED
    BY <2>1, <2>2, <1>5 DEF AuthInv, NotYetIn
<1>10. AnsweredIsIn'
  <2> SUFFICES ASSUME NEW q \in Registrations, reg'[q].pc \in {"registered", "created"}
               PROVE  /\ users'[reg'[q].server][reg'[q].name] = q
                      /\ q \in byID'[reg'[q].server]
    BY DEF AnsweredIsIn
  <2>1. CASE q = r
    BY <2>1, <1>2, <1>5
  <2>2. CASE q # r
    <3>1. reg'[q] = reg[q] /\ reg[q].server \in Servers /\ reg[q].name \in Names
      BY <2>2, <1>2, RegShape DEF AuthInv, Begun
    <3> QED
      BY <3>1, <1>5, AuthAssumption DEF AuthInv, AnsweredIsIn
  <2> QED
    BY <2>1, <2>2
<1> QED
  BY <1>6, <1>7, <1>8, <1>9, <1>10 DEF AuthInv

-----------------------------------------------------------------------------
\* A token that users[v][n] gives is the table's.
LEMMA TokenAgrees ==
  ASSUME AuthInv, NEW v \in Servers, NEW n \in Names, users[v][n] # NoUser
  PROVE  /\ Token(v, n) \in [id : Registrations, name : Names]
         /\ hasDB => table[Token(v, n).name] = Token(v, n).id
BY DEF AuthInv, AuthTypeOK, MapsCopyTable, Token

LEMMA AutoLoginPreserves ==
  ASSUME AuthInv, NEW r \in Registrations, AutoLogin(r)
  PROVE  AuthInv'
<1> DEFINE v == reg[r].server
           n == reg[r].name
<1>0. reg[r] \in Begun /\ v \in Servers /\ n \in Names
  BY RegShape DEF AuthInv, AutoLogin, Begun
<1>1. PICK to \in {"created", "failed"} : At(r, to)
  BY DEF AutoLogin
<1>2. /\ reg' \in [Registrations -> [pc : {"none"}] \cup Begun]
      /\ reg'[r].pc = to /\ reg'[r].server = v /\ reg'[r].name = n
      /\ \A q \in Registrations : q # r => reg'[q] = reg[q]
  <2>1. to \in InProgress /\ reg[r].pc # "none" /\ AuthTypeOK
    BY DEF InProgress, AutoLogin, AuthInv
  <2> QED BY <1>1, <2>1, AtStep
<1>3. UNCHANGED <<hasDB, users, byID, table, acted, restarts>>
  BY DEF AutoLogin
<1>4. tokens' = tokens \/ (users[v][n] # NoUser /\ tokens' = tokens \cup {Token(v, n)})
  BY DEF AutoLogin, Accepts
<1>5. AuthTypeOK'
  BY <1>0, <1>2, <1>3, <1>4, TokenAgrees DEF AuthInv, AuthTypeOK, Begun, InProgress
<1>6. MapsCopyTable'
  BY <1>3 DEF AuthInv, MapsCopyTable
<1>7. SavedInTable' /\ NotYetIn'
  BY <1>2, <1>3 DEF AuthInv, SavedInTable, NotYetIn
<1>8. AnsweredIsIn'
  BY <1>2, <1>3 DEF AuthInv, AnsweredIsIn, AutoLogin
<1>9. TokensAgree'
  BY <1>0, <1>3, <1>4, TokenAgrees DEF AuthInv, TokensAgree
<1> QED
  BY <1>5, <1>6, <1>7, <1>8, <1>9 DEF AuthInv

LEMMA RequestsPreserve ==
  ASSUME AuthInv,
         \/ \E v \in Servers, n \in Names, r \in Registrations : Login(v, n, r)
         \/ \E t \in tokens : Authenticate(t) \/ ExpireToken(t)
  PROVE  AuthInv'
<1>1. UNCHANGED <<hasDB, users, byID, table, reg, restarts>>
  BY DEF Login, Authenticate, ExpireToken
<1>2. \A t \in (tokens \cup acted)' :
        \/ t \in tokens \cup acted
        \/ \E v \in Servers, n \in Names : users[v][n] # NoUser /\ t = Token(v, n)
  BY DEF Login, Authenticate, ExpireToken, Accepts
<1>3. \A t \in (tokens \cup acted)' :
        t \in [id : Registrations, name : Names] /\ (hasDB => table[t.name] = t.id)
  BY <1>2, TokenAgrees DEF AuthInv, AuthTypeOK, TokensAgree
<1>4. AuthTypeOK'
  BY <1>1, <1>3 DEF AuthInv, AuthTypeOK
<1>5. TokensAgree'
  BY <1>1, <1>3 DEF TokensAgree
<1> QED
  BY <1>1, <1>4, <1>5 DEF AuthInv, MapsCopyTable, SavedInTable, NotYetIn, AnsweredIsIn

LEMMA RestartPreserves ==
  ASSUME AuthInv, NEW v \in Servers, RestartServer(v)
  PROVE  AuthInv'
<1>1. UNCHANGED <<hasDB, table, tokens, acted>> /\ restarts' \in 0 .. MaxRestarts
  BY AuthAssumption DEF RestartServer, AuthInv, AuthTypeOK
<1>2. \A q \in Registrations :
        \/ reg'[q] = reg[q] /\ (reg[q].pc # "none" => reg[q].server # v)
        \/ reg'[q] \in Begun /\ reg'[q].pc = "past"
  <2> SUFFICES ASSUME NEW q \in Registrations, reg[q].pc # "none", reg[q].server = v
               PROVE  reg'[q] \in Begun /\ reg'[q].pc = "past"
    BY DEF RestartServer
  <2>1. reg[q] \in Begun
    BY RegShape DEF AuthInv
  <2>2. reg'[q] = [reg[q] EXCEPT !.pc = "past"]
    BY DEF RestartServer
  <2> QED
    BY <2>1, <2>2 DEF Begun, InProgress
<1>3. /\ users' \in [Servers -> [Names -> Registrations \cup {NoUser}]]
      /\ byID' \in [Servers -> SUBSET Registrations]
      /\ \A w \in Servers : w # v => users'[w] = users[w] /\ byID'[w] = byID[w]
      /\ users'[v] = NoUsers \/ (hasDB /\ users'[v] = table)
  <2>0. /\ users \in [Servers -> [Names -> Registrations \cup {NoUser}]]
        /\ byID \in [Servers -> SUBSET Registrations]
        /\ table \in [Names -> Registrations \cup {NoUser}]
    BY DEF AuthInv, AuthTypeOK
  <2>1. NoUsers \in [Names -> Registrations \cup {NoUser}]
    BY DEF NoUsers
  <2>2. FindAllUsers \in SUBSET Registrations
    BY <2>0 DEF FindAllUsers
  <2>3. PICK map \in [Names -> Registrations \cup {NoUser}], ids \in SUBSET Registrations :
          /\ users' = [users EXCEPT ![v] = map] /\ byID' = [byID EXCEPT ![v] = ids]
          /\ map = NoUsers \/ (hasDB /\ map = table)
    <3>1. CASE hasDB /\ users' = [users EXCEPT ![v] = table]
                     /\ byID' = [byID EXCEPT ![v] = FindAllUsers]
      BY <2>0, <2>2, <3>1
    <3>2. CASE users' = [users EXCEPT ![v] = NoUsers] /\ byID' = [byID EXCEPT ![v] = {}]
      <4>1. {} \in SUBSET Registrations
        OBVIOUS
      <4> QED
        BY <2>1, <3>2, <4>1, Zenon
    <3> QED
      BY <3>1, <3>2 DEF RestartServer, LoadUsers
  <2> QED
    BY <2>0, <2>3
<1>4. AuthTypeOK'
  <2>1. reg' \in [Registrations -> [pc : {"none"}] \cup Begun]
    <3>1. \A q \in Registrations : reg[q] \in [pc : {"none"}] \cup Begun
      BY DEF AuthInv, AuthTypeOK, Begun, InProgress
    <3>2. reg' = [q \in Registrations |-> reg'[q]]
      BY DEF RestartServer
    <3> QED
      BY <1>2, <3>1, <3>2
  <2> QED
    BY <1>1, <1>3, <2>1 DEF AuthInv, AuthTypeOK, Begun, InProgress
<1>5. MapsCopyTable'
  BY <1>1, <1>3 DEF AuthInv, MapsCopyTable, NoUsers
<1>6. SavedInTable' /\ TokensAgree'
  BY <1>1, <1>2 DEF AuthInv, SavedInTable, TokensAgree
<1>7. NotYetIn' /\ AnsweredIsIn'
  <2>1. ASSUME NEW q \in Registrations,
               reg'[q].pc \in {"hashed", "saved", "registered", "created"}
        PROVE  /\ reg'[q] = reg[q]
               /\ users'[reg[q].server] = users[reg[q].server]
               /\ byID'[reg[q].server] = byID[reg[q].server]
    <3>1. reg'[q] = reg[q] /\ reg[q].pc # "none" /\ reg[q].server # v
      BY <2>1, <1>2
    <3>2. reg[q].server \in Servers
      BY <3>1, RegShape DEF AuthInv, Begun
    <3> QED
      BY <3>1, <3>2, <1>3
  <2> QED
    BY <2>1 DEF AuthInv, NotYetIn, AnsweredIsIn
<1> QED
  BY <1>4, <1>5, <1>6, <1>7 DEF AuthInv

-----------------------------------------------------------------------------
LEMMA AuthInductive == AuthInv /\ [AuthNext]_authVars => AuthInv'
<1> SUFFICES ASSUME AuthInv, [AuthNext]_authVars PROVE AuthInv'
  OBVIOUS
<1>1. ASSUME NEW r \in Registrations, NEW v \in Servers, NEW n \in Names,
             RegisterCheck(r, v, n)
      PROVE  AuthInv'
  BY <1>1, CheckPreserves
<1>2. ASSUME NEW r \in Registrations, RegisterSave(r)
      PROVE  AuthInv'
  BY <1>2, SavePreserves
<1>3. ASSUME NEW r \in Registrations, RegisterInsert(r)
      PROVE  AuthInv'
  BY <1>3, InsertPreserves
<1>4. ASSUME NEW r \in Registrations, AutoLogin(r)
      PROVE  AuthInv'
  BY <1>4, AutoLoginPreserves
<1>5. ASSUME NEW v \in Servers, RestartServer(v)
      PROVE  AuthInv'
  BY <1>5, RestartPreserves
<1>6. CASE UNCHANGED authVars
  BY <1>6 DEF authVars, AuthInv, AuthTypeOK, MapsCopyTable, SavedInTable, NotYetIn,
              AnsweredIsIn, TokensAgree
<1> QED
  BY <1>1, <1>2, <1>3, <1>4, <1>5, <1>6, RequestsPreserve DEF AuthNext, AuthQuiet

LEMMA AuthInvariant == AuthSpec => []AuthInv
BY AuthInit1, AuthInductive, PTL DEF AuthSpec

\* Every variable of the account service keeps its type, whatever races and
\* restarts.
THEOREM AuthTypeCorrect == AuthSpec => []AuthTypeOK
<1>1. AuthInv => AuthTypeOK
  BY DEF AuthInv
<1> QED
  BY <1>1, AuthInvariant, PTL

\* With the users table, all requests that ever authenticated under a name
\* acted as one user, for any number of servers sharing the table.
THEOREM NamesAreUnique == AuthSpec => []OneUserPerName
<1>1. AuthInv => OneUserPerName
  BY DEF AuthInv, TokensAgree, OneUserPerName
<1> QED
  BY <1>1, AuthInvariant, PTL

\* Register keeps its word, for any number of concurrent registrations: who was
\* answered 201 stays in both maps while the process lives, and a row Save wrote
\* is never refused by the check under the write lock.
THEOREM RegistrationsHold == AuthSpec => []RegistrationHolds
<1>1. AuthInv => RegistrationHolds
  <2> SUFFICES ASSUME AuthInv, NEW r \in Registrations, reg[r].pc = "saved"
               PROVE  /\ users[reg[r].server][reg[r].name] = NoUser
                      /\ table[reg[r].name] = r
    BY DEF AuthInv, AnsweredIsIn, RegistrationHolds
  <2>1. reg[r].server \in Servers /\ reg[r].name \in Names
    BY RegShape DEF AuthInv, Begun
  <2> QED
    BY <2>1 DEF AuthInv, SavedInTable, NotYetIn, MapsCopyTable
<1> QED
  BY <1>1, AuthInvariant, PTL

-----------------------------------------------------------------------------
(***************************************************************************)
(* The rate limiter keeps its limit, for any number of addresses, requests *)
(* and proxies, any rate and burst, and any cleanup interval.  The real    *)
(* bucket of an address differs from the ideal one, kept for ever, only    *)
(* when the address was evicted and came back; the invariant says that the *)
(* ideal bucket had by then filled up as well.                             *)
(***************************************************************************)

BucketRec  == [tokens : Int, last : Int]
EntryRec   == [limiter : Int, lastSeen : Int]
RequestRec == [ip : Addresses, limiter : Int, since : Int]

\* Types, as far as the provers need them.
RateTypes ==
  /\ clock \in Nat /\ clock <= MaxClock /\ nextSweep \in Nat /\ swept \in BOOLEAN
  /\ DOMAIN clients \subseteq Addresses
  /\ clients \in [DOMAIN clients -> EntryRec]
  /\ buckets \in Seq(BucketRec)
  /\ ideal \in [Addresses -> BucketRec]
  /\ request \in [Handlers -> RequestRec \cup {<<>>}]

\* A bucket holds at most Burst tokens and has been filled up to now at most.
Sound(b) == 0 <= b.tokens /\ b.tokens <= Burst /\ 0 <= b.last /\ b.last <= clock
BucketsSound ==
  /\ \A k \in 1 .. Len(buckets) : Sound(buckets[k])
  /\ \A a \in Addresses : Sound(ideal[a])

\* Every entry has a bucket of its own and was seen in the past.
EntriesSound ==
  /\ \A a \in DOMAIN clients :
       /\ 1 <= clients[a].limiter /\ clients[a].limiter <= Len(buckets)
       /\ 0 <= clients[a].lastSeen /\ clients[a].lastSeen <= clock
  /\ \A a, c \in DOMAIN clients : clients[a].limiter = clients[c].limiter => a = c

\* A request in progress holds the bucket its address has in the map: it
\* stalls for less time than the sweep needs to find the entry idle.
RequestsHold ==
  \A h \in Handlers : request[h] # <<>> =>
    /\ request[h].ip \in DOMAIN clients
    /\ clients[request[h].ip].limiter = request[h].limiter
    /\ request[h].since <= clients[request[h].ip].lastSeen
    /\ clock - request[h].since <= Stall

\* Nobody took a token long after it was last seen.
RecentlyUsed ==
  \A a \in DOMAIN clients : ideal[a].last <= clients[a].lastSeen + Stall

\* At time t bucket b would be full.
FullBy(b, t) == b.tokens + Rate * (t - b.last) >= Burst

\* The bucket in the map is the ideal one, or a new one that was made when the
\* ideal one was full.
Tracks ==
  \A a \in DOMAIN clients :
    LET b == buckets[clients[a].limiter] IN
    \/ b = ideal[a]
    \/ b.tokens = Burst /\ ideal[a].last <= b.last /\ FullBy(ideal[a], b.last)

\* Whoever is not in the map has a full ideal bucket.
AbsentAreFull == \A a \in Addresses \ DOMAIN clients : FullBy(ideal[a], clock)

\* The sweep is on time, and what the last one left was not idle then.
SweepOnTime ==
  swept =>
    /\ clock <= nextSweep /\ nextSweep - CleanupInterval <= clock
    /\ \A a \in DOMAIN clients :
         nextSweep - CleanupInterval - clients[a].lastSeen <= IdleTTL

RateInv ==
  /\ RateTypes /\ BucketsSound /\ EntriesSound /\ RequestsHold /\ RecentlyUsed
  /\ Tracks /\ AbsentAreFull /\ SweepOnTime

-----------------------------------------------------------------------------
(***************************************************************************)
(* Arithmetic and the bucket.                                              *)
(***************************************************************************)
\* Longer waiting yields no fewer tokens.
LEMMA RateMonotone ==
  ASSUME NEW x \in Int, NEW y \in Int, x <= y
  PROVE  Rate * x \in Int /\ Rate * y \in Int /\ Rate * x <= Rate * y
<1>1. Rate \in Nat
  BY RateAssumption
<1> QED BY <1>1

\* A handler stalls for less than the TTL.
LEMMA StallBelowTTL ==
  Stall \in Nat /\ IdleTTL \in Nat /\ Stall < IdleTTL
<1>1. /\ Rate \in Nat /\ Burst \in Nat /\ Burst >= 1
      /\ Stall \in Nat /\ IdleTTL \in Nat /\ Rate * (IdleTTL - Stall) >= Burst
  BY RateAssumption
<1>2. ASSUME IdleTTL <= Stall PROVE FALSE
  <2>1. Rate * (IdleTTL - Stall) <= Rate * 0
    BY <1>1, <1>2, RateMonotone
  <2> QED BY <1>1, <2>1
<1> QED BY <1>1, <1>2

\* What Allow sees: a sound bucket advances to a sound one, at this moment.
LEMMA AdvancedFacts ==
  ASSUME NEW b \in BucketRec, Sound(b), clock \in Nat
  PROVE  /\ Advanced(b) \in BucketRec /\ Advanced(b).last = clock
         /\ 0 <= Advanced(b).tokens /\ Advanced(b).tokens <= Burst
         /\ FullBy(b, clock) => Advanced(b).tokens = Burst
         /\ Taken(b) = [tokens |-> Advanced(b).tokens - 1, last |-> clock]
<1>1. Burst \in Nat
  BY RateAssumption
<1>2. b.tokens \in Int /\ b.last \in Int
  BY DEF BucketRec
<1>3. Rate * (clock - b.last) \in Int /\ Rate * (clock - b.last) >= 0
  <2>1. Rate * 0 <= Rate * (clock - b.last) /\ Rate * (clock - b.last) \in Int
    BY <1>2, RateMonotone DEF Sound
  <2>2. Rate * 0 = 0
    BY RateAssumption
  <2> QED BY <2>1, <2>2
<1> DEFINE t == b.tokens + Rate * (clock - b.last)
<1>4. t \in Int /\ 0 <= t
  BY <1>2, <1>3 DEF Sound
<1>5. Advanced(b) = [tokens |-> IF t > Burst THEN Burst ELSE t, last |-> clock]
  BY DEF Advanced
<1> HIDE DEF t
<1>6. /\ Advanced(b) \in BucketRec /\ Advanced(b).last = clock
      /\ 0 <= Advanced(b).tokens /\ Advanced(b).tokens <= Burst
      /\ t >= Burst => Advanced(b).tokens = Burst
  BY <1>1, <1>4, <1>5 DEF BucketRec
<1>7. Taken(b) = [tokens |-> Advanced(b).tokens - 1, last |-> clock]
  BY <1>5 DEF Taken
<1> QED BY <1>6, <1>7 DEF t, FullBy

\* Real and ideal bucket let the same requests pass.
LEMMA TrackedAgree ==
  ASSUME RateInv, NEW a \in DOMAIN clients
  PROVE  LET b == buckets[clients[a].limiter] IN
         /\ b \in BucketRec /\ Sound(b) /\ ideal[a] \in BucketRec /\ Sound(ideal[a])
         /\ Advanced(b).tokens = Advanced(ideal[a]).tokens
<1> DEFINE b == buckets[clients[a].limiter]
<1>1. clients[a].limiter \in 1 .. Len(buckets)
  BY DEF RateInv, RateTypes, EntriesSound, EntryRec
<1>2. b \in BucketRec /\ Sound(b) /\ ideal[a] \in BucketRec /\ Sound(ideal[a])
  BY <1>1 DEF RateInv, RateTypes, BucketsSound
<1>3. clock \in Nat
  BY DEF RateInv, RateTypes
<1>4. CASE b = ideal[a]
  BY <1>2, <1>4
<1>5. CASE b.tokens = Burst /\ ideal[a].last <= b.last /\ FullBy(ideal[a], b.last)
  <2>1. b.last \in Int /\ ideal[a].last \in Int /\ ideal[a].tokens \in Int /\ Burst \in Nat
    BY <1>2, RateAssumption DEF BucketRec
  <2>2. /\ Rate * (b.last - ideal[a].last) <= Rate * (clock - ideal[a].last)
        /\ Rate * (b.last - ideal[a].last) \in Int /\ Rate * (clock - ideal[a].last) \in Int
    BY <1>2, <1>3, <2>1, RateMonotone DEF Sound
  <2>3. FullBy(ideal[a], clock)
    BY <1>5, <2>1, <2>2 DEF FullBy
  <2>4. /\ Rate * 0 <= Rate * (clock - b.last) /\ Rate * (clock - b.last) \in Int
        /\ Rate * 0 = 0
    BY <1>2, <1>3, <2>1, RateMonotone, RateAssumption DEF Sound
  <2>5. FullBy(b, clock)
    BY <1>5, <2>1, <2>4 DEF FullBy
  <2> QED BY <1>2, <1>3, <2>3, <2>5, AdvancedFacts
<1>6. \/ b = ideal[a]
      \/ b.tokens = Burst /\ ideal[a].last <= b.last /\ FullBy(ideal[a], b.last)
  BY DEF RateInv, Tracks
<1> QED BY <1>2, <1>4, <1>5, <1>6

-----------------------------------------------------------------------------
(***************************************************************************)
(* The actions.                                                            *)
(***************************************************************************)
LEMMA RateInitInv == RateInit => RateInv
<1> SUFFICES ASSUME RateInit PROVE RateInv
  OBVIOUS
<1>1. Burst \in Nat /\ Burst >= 1 /\ MaxClock \in Nat /\ CleanupInterval \in Nat /\ IdleTTL \in Nat
  BY RateAssumption
<1>2. DOMAIN clients = {} /\ Len(buckets) = 0
  BY DEF RateInit
<1>3. RateTypes
  <2>1. clients \in [DOMAIN clients -> EntryRec]
    BY <1>2 DEF RateInit
  <2>2. ideal \in [Addresses -> BucketRec]
    BY <1>1 DEF RateInit, BucketRec
  <2>3. request \in [Handlers -> RequestRec \cup {<<>>}]
    BY DEF RateInit
  <2> QED BY <1>1, <1>2, <2>1, <2>2, <2>3 DEF RateInit, RateTypes
<1>4. BucketsSound
  BY <1>1, <1>2 DEF RateInit, BucketsSound, Sound
<1>5. EntriesSound /\ RecentlyUsed /\ Tracks
  BY <1>2 DEF EntriesSound, RecentlyUsed, Tracks
<1>6. RequestsHold
  BY DEF RateInit, RequestsHold
<1>7. AbsentAreFull
  <2>1. Rate * 0 = 0
    BY RateAssumption
  <2>2. \A a \in Addresses : ideal[a].tokens = Burst /\ clock - ideal[a].last = 0
    BY DEF RateInit
  <2> QED BY <1>1, <2>1, <2>2 DEF AbsentAreFull, FullBy
<1>8. SweepOnTime
  BY <1>1, <1>2 DEF RateInit, SweepOnTime
<1> QED BY <1>3, <1>4, <1>5, <1>6, <1>7, <1>8 DEF RateInv

\* netutil.ExtractClientIP yields an address.
LEMMA ExtractedIsAddress ==
  ASSUME NEW p \in Peers, NEW f \in Forwarded \cup {NoAddress}
  PROVE  ExtractClientIP(p, f) \in Addresses
BY DEF ExtractClientIP, Addresses

\* getLimiter: a new entry gets a full bucket, and its ideal one is full.
LEMMA GetLimiterPreserves ==
  ASSUME RateInv, NEW h \in Handlers, NEW ip \in Addresses, GetLimiter(h, ip)
  PROVE  RateInv'
<1> DEFINE known == ip \in DOMAIN clients
           k == IF known THEN clients[ip].limiter ELSE Len(buckets) + 1
<1>1. /\ RateTypes /\ BucketsSound /\ EntriesSound /\ RequestsHold /\ RecentlyUsed
      /\ Tracks /\ AbsentAreFull /\ SweepOnTime
  BY DEF RateInv
<1>2. /\ Burst \in Nat /\ Burst >= 1 /\ Stall \in Nat /\ IdleTTL \in Nat
      /\ CleanupInterval \in Nat
  BY RateAssumption
<1>3. /\ clock' = clock /\ ideal' = ideal /\ nextSweep' = nextSweep /\ swept' = swept
      /\ buckets' = IF known THEN buckets ELSE Append(buckets, NewLimiter)
      /\ clients' = [a \in DOMAIN clients \cup {ip} |->
           IF a = ip THEN [limiter |-> k, lastSeen |-> clock] ELSE clients[a]]
      /\ request' = [request EXCEPT ![h] = [ip |-> ip, limiter |-> k, since |-> clock]]
  BY DEF GetLimiter
<1>4. clock \in Nat /\ clock <= MaxClock /\ Len(buckets) \in Nat /\ buckets \in Seq(BucketRec)
  BY <1>1 DEF RateTypes
<1>5. NewLimiter \in BucketRec /\ NewLimiter.tokens = Burst /\ NewLimiter.last = clock
  BY <1>2, <1>4 DEF NewLimiter, BucketRec
<1>6. /\ buckets' \in Seq(BucketRec) /\ Len(buckets') \in Nat
      /\ Len(buckets') = IF known THEN Len(buckets) ELSE Len(buckets) + 1
      /\ \A i \in 1 .. Len(buckets) : buckets'[i] = buckets[i]
      /\ ~known => buckets'[Len(buckets) + 1] = NewLimiter
  BY <1>3, <1>4, <1>5
<1>7. /\ k \in Int /\ 1 <= k /\ k <= Len(buckets')
      /\ ~known => k = Len(buckets) + 1
      /\ known => k = clients[ip].limiter
  BY <1>1, <1>4, <1>6 DEF RateTypes, EntriesSound, EntryRec
<1> HIDE DEF k
<1>8. /\ DOMAIN clients' = DOMAIN clients \cup {ip}
      /\ clients'[ip] = [limiter |-> k, lastSeen |-> clock]
      /\ \A a \in DOMAIN clients : a # ip => clients'[a] = clients[a]
  BY <1>3
<1>9. clients' \in [DOMAIN clients' -> EntryRec]
  <2>1. [limiter |-> k, lastSeen |-> clock] \in EntryRec
    BY <1>4, <1>7 DEF EntryRec
  <2>2. \A a \in DOMAIN clients : clients[a] \in EntryRec
    BY <1>1 DEF RateTypes
  <2> QED BY <1>3, <2>1, <2>2
<1>10. RateTypes'
  <2>1. request' \in [Handlers -> RequestRec \cup {<<>>}]
    <3>1. [ip |-> ip, limiter |-> k, since |-> clock] \in RequestRec
      BY <1>4, <1>7 DEF RequestRec
    <3> QED BY <1>1, <1>3, <3>1 DEF RateTypes
  <2> QED BY <1>1, <1>3, <1>6, <1>8, <1>9, <2>1 DEF RateTypes
<1>11. BucketsSound'
  <2>1. Sound(NewLimiter)
    BY <1>2, <1>4, <1>5 DEF Sound
  <2>2. \A i \in 1 .. Len(buckets') :
          (i \in 1 .. Len(buckets) /\ buckets'[i] = buckets[i]) \/ buckets'[i] = NewLimiter
    BY <1>4, <1>6
  <2> QED BY <1>1, <1>3, <2>1, <2>2 DEF BucketsSound, Sound
<1>12. EntriesSound'
  <2>1. ASSUME NEW a \in DOMAIN clients'
        PROVE  /\ 1 <= clients'[a].limiter /\ clients'[a].limiter <= Len(buckets')
               /\ 0 <= clients'[a].lastSeen /\ clients'[a].lastSeen <= clock
    <3>1. CASE a = ip
      BY <1>4, <1>7, <1>8, <3>1
    <3>2. CASE a # ip
      <4>1. a \in DOMAIN clients /\ clients'[a] = clients[a] /\ clients[a] \in EntryRec
        BY <1>1, <1>8, <3>2 DEF RateTypes
      <4> QED BY <1>1, <1>4, <1>6, <4>1 DEF EntriesSound, EntryRec
    <3> QED BY <3>1, <3>2
  <2>2. ASSUME NEW a \in DOMAIN clients, a # ip
        PROVE  clients'[a].limiter # clients'[ip].limiter
    <3>1. clients[a].limiter \in Int /\ clients[a].limiter <= Len(buckets)
      BY <1>1 DEF RateTypes, EntriesSound, EntryRec
    <3> QED BY <1>1, <1>4, <1>7, <1>8, <2>2, <3>1 DEF EntriesSound
  <2>3. \A a, c \in DOMAIN clients' : clients'[a].limiter = clients'[c].limiter => a = c
    BY <1>1, <1>8, <2>2 DEF EntriesSound
  <2> QED BY <1>3, <2>1, <2>3 DEF EntriesSound
<1>13. RequestsHold'
  <2> SUFFICES ASSUME NEW g \in Handlers, request'[g] # <<>>
               PROVE  /\ request'[g].ip \in DOMAIN clients'
                      /\ clients'[request'[g].ip].limiter = request'[g].limiter
                      /\ request'[g].since <= clients'[request'[g].ip].lastSeen
                      /\ clock - request'[g].since <= Stall
    BY <1>3 DEF RequestsHold
  <2>1. CASE g = h
    <3>1. request'[g] = [ip |-> ip, limiter |-> k, since |-> clock]
      BY <1>1, <1>3, <2>1 DEF RateTypes
    <3> QED BY <1>2, <1>4, <1>8, <3>1
  <2>2. CASE g # h
    <3>1. request'[g] = request[g]
      BY <1>1, <1>3, <2>2 DEF RateTypes
    <3>2. request[g] \in RequestRec
      BY <1>1, <3>1 DEF RateTypes
    <3> DEFINE a == request[g].ip
    <3>3. /\ a \in DOMAIN clients /\ clients[a].limiter = request[g].limiter
          /\ request[g].since <= clients[a].lastSeen
          /\ clock - request[g].since <= Stall
      BY <1>1, <3>1 DEF RequestsHold
    <3>4. clients[a].lastSeen \in Int /\ clients[a].lastSeen <= clock /\ request[g].since \in Int
      BY <1>1, <3>2, <3>3 DEF RateTypes, EntriesSound, EntryRec, RequestRec
    <3>5. CASE a = ip
      BY <1>4, <1>7, <1>8, <3>1, <3>3, <3>4, <3>5
    <3>6. CASE a # ip
      BY <1>8, <3>1, <3>3, <3>6
    <3> QED BY <3>5, <3>6
  <2> QED BY <2>1, <2>2
<1>14. RecentlyUsed'
  <2> SUFFICES ASSUME NEW a \in DOMAIN clients'
               PROVE  ideal[a].last <= clients'[a].lastSeen + Stall
    BY <1>3 DEF RecentlyUsed
  <2>1. CASE a = ip
    <3>1. ideal[ip].last \in Int /\ ideal[ip].last <= clock
      BY <1>1 DEF RateTypes, BucketsSound, Sound, BucketRec
    <3> QED BY <1>2, <1>4, <1>8, <2>1, <3>1
  <2>2. CASE a # ip
    BY <1>1, <1>8, <2>2 DEF RecentlyUsed
  <2> QED BY <2>1, <2>2
<1>15. Tracks'
  <2> SUFFICES ASSUME NEW a \in DOMAIN clients'
               PROVE  LET b == buckets'[clients'[a].limiter] IN
                      \/ b = ideal[a]
                      \/ /\ b.tokens = Burst /\ ideal[a].last <= b.last
                         /\ FullBy(ideal[a], b.last)
    BY ZenonT(30), <1>3 DEF Tracks, FullBy
  <2>1. CASE a \in DOMAIN clients
    <3>1. /\ clients'[a].limiter = clients[a].limiter
          /\ clients[a].limiter \in 1 .. Len(buckets)
      BY <1>1, <1>7, <1>8, <2>1 DEF RateTypes, EntriesSound, EntryRec
    <3>2. buckets'[clients'[a].limiter] = buckets[clients[a].limiter]
      BY <1>6, <3>1
    <3> QED BY <1>1, <2>1, <3>2 DEF Tracks
  <2>2. CASE a \notin DOMAIN clients
    <3>1. a = ip /\ ~known /\ buckets'[clients'[a].limiter] = NewLimiter
      BY <1>6, <1>7, <1>8, <2>2
    <3>2. FullBy(ideal[a], clock) /\ ideal[a].last <= clock
      BY <1>1, <2>2, <3>1 DEF AbsentAreFull, BucketsSound, Sound
    <3> QED BY <1>5, <3>1, <3>2
  <2> QED BY <2>1, <2>2
<1>16. AbsentAreFull'
  BY <1>1, <1>3, <1>8 DEF AbsentAreFull, FullBy
<1>17. SweepOnTime'
  <2> SUFFICES ASSUME swept
               PROVE  /\ clock <= nextSweep /\ nextSweep - CleanupInterval <= clock
                      /\ \A a \in DOMAIN clients' :
                           nextSweep - CleanupInterval - clients'[a].lastSeen <= IdleTTL
    BY <1>3 DEF SweepOnTime
  <2>1. nextSweep \in Int /\ clock <= nextSweep /\ nextSweep - CleanupInterval <= clock
    BY <1>1 DEF SweepOnTime, RateTypes
  <2>2. nextSweep - CleanupInterval - clients'[ip].lastSeen <= IdleTTL
    BY <1>2, <1>4, <1>8, <2>1
  <2> QED BY <1>1, <1>8, <2>1, <2>2 DEF SweepOnTime
<1> QED BY <1>10, <1>11, <1>12, <1>13, <1>14, <1>15, <1>16, <1>17 DEF RateInv

\* limiter.Allow: real and ideal bucket decide alike, and are equal afterwards.
LEMMA AllowPreserves ==
  ASSUME RateInv, NEW h \in Handlers, Allow(h)
  PROVE  RateInv'
<1> DEFINE k  == request[h].limiter
           ip == request[h].ip
           ok == Advanced(buckets[k]).tokens >= 1
<1>1. /\ RateTypes /\ BucketsSound /\ EntriesSound /\ RequestsHold /\ RecentlyUsed
      /\ Tracks /\ AbsentAreFull /\ SweepOnTime
  BY DEF RateInv
<1>2. /\ request[h] # <<>>
      /\ buckets' = IF ok THEN [buckets EXCEPT ![k] = Taken(@)] ELSE buckets
      /\ ideal' = IF ok THEN [ideal EXCEPT ![ip] = Taken(@)] ELSE ideal
      /\ request' = [request EXCEPT ![h] = <<>>]
      /\ clock' = clock /\ clients' = clients /\ nextSweep' = nextSweep /\ swept' = swept
  BY DEF Allow
<1>3. /\ clock \in Nat /\ Burst \in Nat /\ Stall \in Nat
      /\ buckets \in Seq(BucketRec) /\ ideal \in [Addresses -> BucketRec]
  BY <1>1, RateAssumption DEF RateTypes
<1>4. /\ ip \in DOMAIN clients /\ ip \in Addresses /\ clients[ip].limiter = k
      /\ request[h].since \in Int /\ request[h].since <= clients[ip].lastSeen
      /\ clock - request[h].since <= Stall
      /\ clients[ip].lastSeen \in Int /\ k \in 1 .. Len(buckets)
  BY <1>1, <1>2 DEF RateTypes, RequestsHold, EntriesSound, EntryRec, RequestRec
<1>5. /\ buckets[k] \in BucketRec /\ Sound(buckets[k])
      /\ ideal[ip] \in BucketRec /\ Sound(ideal[ip])
      /\ Advanced(buckets[k]).tokens = Advanced(ideal[ip]).tokens
  BY <1>4, TrackedAgree
<1> DEFINE new == Taken(ideal[ip])
<1>6. /\ Taken(buckets[k]) = new /\ new.last = clock /\ new \in BucketRec
      /\ ok => Sound(new)
  <2>1. /\ Advanced(ideal[ip]) \in BucketRec /\ Advanced(ideal[ip]).tokens <= Burst
        /\ new = [tokens |-> Advanced(ideal[ip]).tokens - 1, last |-> clock]
        /\ Taken(buckets[k]) = [tokens |-> Advanced(buckets[k]).tokens - 1, last |-> clock]
    BY <1>3, <1>5, AdvancedFacts
  <2>2. Advanced(ideal[ip]).tokens \in Int
    BY <2>1 DEF BucketRec
  <2>3. new.tokens = Advanced(ideal[ip]).tokens - 1 /\ new.last = clock
    BY <2>1
  <2>4. new \in BucketRec /\ Taken(buckets[k]) = new
    BY <1>3, <1>5, <2>1, <2>2 DEF BucketRec
  <2> HIDE DEF new
  <2>5. ok => Sound(new)
    BY <1>3, <1>5, <2>1, <2>2, <2>3 DEF Sound
  <2> QED BY <2>3, <2>4, <2>5
<1> HIDE DEF new
<1>7. /\ buckets' \in Seq(BucketRec) /\ Len(buckets') = Len(buckets)
      /\ \A i \in 1 .. Len(buckets) : i # k => buckets'[i] = buckets[i]
      /\ buckets'[k] = IF ok THEN new ELSE buckets[k]
  <2>1. CASE ok
    <3>1. buckets' = [buckets EXCEPT ![k] = new]
      BY <1>2, <1>6, <2>1
    <3> QED BY <1>3, <1>4, <1>6, <2>1, <3>1
  <2>2. CASE ~ok
    BY <1>2, <1>3, <2>2
  <2> QED BY <2>1, <2>2
<1>8. /\ ideal' \in [Addresses -> BucketRec]
      /\ \A a \in Addresses : a # ip => ideal'[a] = ideal[a]
      /\ ideal'[ip] = IF ok THEN new ELSE ideal[ip]
  <2>1. CASE ok
    <3>1. ideal' = [ideal EXCEPT ![ip] = new]
      BY <1>2, <2>1 DEF new
    <3> QED BY <1>3, <1>4, <1>6, <2>1, <3>1
  <2>2. CASE ~ok
    BY <1>2, <1>3, <2>2
  <2> QED BY <2>1, <2>2
<1>9. RateTypes'
  <2>1. request' \in [Handlers -> RequestRec \cup {<<>>}]
    BY <1>1, <1>2 DEF RateTypes
  <2> QED BY <1>1, <1>2, <1>7, <1>8, <2>1 DEF RateTypes
<1>10. BucketsSound'
  <2>1. \A i \in 1 .. Len(buckets') : Sound(buckets'[i])
    BY <1>1, <1>4, <1>6, <1>7 DEF BucketsSound
  <2>2. \A a \in Addresses : Sound(ideal'[a])
    BY <1>1, <1>4, <1>6, <1>8 DEF BucketsSound
  <2> QED BY <1>2, <2>1, <2>2 DEF BucketsSound, Sound
<1>11. EntriesSound'
  BY <1>1, <1>2, <1>7 DEF EntriesSound
<1>12. RequestsHold'
  <2>1. \A g \in Handlers : request'[g] # <<>> => request'[g] = request[g]
    BY <1>1, <1>2 DEF RateTypes
  <2> QED BY <1>1, <1>2, <2>1 DEF RequestsHold
<1>13. RecentlyUsed'
  <2>1. ok => new.last <= clients[ip].lastSeen + Stall
    BY <1>3, <1>4, <1>6
  <2>2. \A a \in DOMAIN clients : ideal'[a].last <= clients[a].lastSeen + Stall
    BY <1>1, <1>8, <2>1 DEF RecentlyUsed, RateTypes
  <2> QED BY <1>2, <2>2 DEF RecentlyUsed
<1>14. Tracks'
  <2> SUFFICES ASSUME NEW a \in DOMAIN clients
               PROVE  LET b == buckets'[clients[a].limiter] IN
                      \/ b = ideal'[a]
                      \/ /\ b.tokens = Burst /\ ideal'[a].last <= b.last
                         /\ FullBy(ideal'[a], b.last)
    BY <1>2 DEF Tracks, FullBy
  <2>1. CASE a = ip /\ ok
    BY <1>4, <1>7, <1>8, <2>1
  <2>2. CASE a # ip \/ ~ok
    <3>1. a \in Addresses /\ clients[a].limiter \in 1 .. Len(buckets)
      BY <1>1 DEF RateTypes, EntriesSound, EntryRec
    <3>2. a # ip => clients[a].limiter # k
      BY <1>1, <1>4 DEF EntriesSound
    <3>3. buckets'[clients[a].limiter] = buckets[clients[a].limiter] /\ ideal'[a] = ideal[a]
      BY <1>4, <1>7, <1>8, <2>2, <3>1, <3>2
    <3> QED BY <1>1, <3>3 DEF Tracks
  <2> QED BY <2>1, <2>2
<1>15. AbsentAreFull'
  <2>1. \A a \in Addresses \ DOMAIN clients : ideal'[a] = ideal[a]
    BY <1>4, <1>8
  <2> QED BY <1>1, <1>2, <2>1 DEF AbsentAreFull, FullBy
<1>16. SweepOnTime'
  BY <1>1, <1>2 DEF SweepOnTime
<1> QED BY <1>9, <1>10, <1>11, <1>12, <1>13, <1>14, <1>15, <1>16 DEF RateInv

\* The sweep: nobody whose entry goes is at work, and its ideal bucket is full.
LEMMA SweepPreserves ==
  ASSUME RateInv, Sweep
  PROVE  RateInv'
<1>1. /\ RateTypes /\ BucketsSound /\ EntriesSound /\ RequestsHold /\ RecentlyUsed
      /\ Tracks /\ AbsentAreFull /\ SweepOnTime
  BY DEF RateInv
<1> DEFINE kept == {a \in DOMAIN clients : ~Idle(a)}
<1>2. /\ swept /\ clock >= nextSweep
      /\ clients' = [a \in kept |-> clients[a]]
      /\ nextSweep' = nextSweep + CleanupInterval
      /\ clock' = clock /\ buckets' = buckets /\ ideal' = ideal /\ request' = request
      /\ swept' = swept
  BY DEF Sweep
<1>3. /\ DOMAIN clients' = kept /\ kept \subseteq DOMAIN clients
      /\ \A a \in kept : clients'[a] = clients[a]
  BY <1>2
<1>4. /\ clock \in Nat /\ nextSweep \in Nat /\ CleanupInterval \in Nat /\ Burst \in Nat
      /\ Stall \in Nat /\ IdleTTL \in Nat /\ Stall < IdleTTL /\ Rate \in Nat
      /\ Rate * (IdleTTL - Stall) >= Burst
  BY <1>1, RateAssumption, StallBelowTTL DEF RateTypes
<1>5. \A a \in DOMAIN clients : clients[a].lastSeen \in Int /\ clients[a].limiter \in Int
  BY <1>1 DEF RateTypes, EntryRec
<1>6. RateTypes'
  <2>1. clients' \in [DOMAIN clients' -> EntryRec]
    BY <1>1, <1>2, <1>3 DEF RateTypes
  <2> QED BY <1>1, <1>2, <1>3, <1>4, <2>1 DEF RateTypes
<1>7. BucketsSound'
  BY <1>1, <1>2 DEF BucketsSound, Sound
<1>8. EntriesSound'
  BY <1>1, <1>2, <1>3 DEF EntriesSound
<1>9. RequestsHold'
  <2> SUFFICES ASSUME NEW g \in Handlers, request[g] # <<>>
               PROVE  request[g].ip \in kept
    BY <1>1, <1>2, <1>3 DEF RequestsHold
  <2>1. /\ request[g].ip \in DOMAIN clients /\ request[g].since \in Int
        /\ request[g].since <= clients[request[g].ip].lastSeen
        /\ clock - request[g].since <= Stall
    BY <1>1 DEF RequestsHold, RateTypes, RequestRec
  <2>2. ~(clock - clients[request[g].ip].lastSeen > IdleTTL)
    BY <1>4, <1>5, <2>1
  <2> QED BY <2>1, <2>2 DEF Idle
<1>10. RecentlyUsed'
  BY <1>1, <1>2, <1>3 DEF RecentlyUsed
<1>11. Tracks'
  BY <1>1, <1>2, <1>3 DEF Tracks, FullBy
<1>12. AbsentAreFull'
  <2>1. ASSUME NEW a \in DOMAIN clients, Idle(a)
        PROVE  FullBy(ideal[a], clock)
    <3>1. /\ ideal[a].last \in Int /\ ideal[a].tokens \in Int /\ 0 <= ideal[a].tokens
          /\ ideal[a].last <= clients[a].lastSeen + Stall
      BY <1>1 DEF RateTypes, BucketsSound, Sound, BucketRec, RecentlyUsed
    <3>2. IdleTTL - Stall <= clock - ideal[a].last
      BY <1>4, <1>5, <2>1, <3>1 DEF Idle
    <3>3. /\ Rate * (IdleTTL - Stall) <= Rate * (clock - ideal[a].last)
          /\ Rate * (IdleTTL - Stall) \in Int /\ Rate * (clock - ideal[a].last) \in Int
      BY <1>4, <3>1, <3>2, RateMonotone
    <3> QED BY <1>4, <3>1, <3>3 DEF FullBy
  <2>2. \A a \in Addresses \ kept : FullBy(ideal[a], clock)
    BY <1>1, <2>1 DEF AbsentAreFull
  <2> QED BY <1>2, <1>3, <2>2 DEF AbsentAreFull, FullBy
<1>13. SweepOnTime'
  <2>1. clock = nextSweep
    BY <1>1, <1>2, <1>4 DEF SweepOnTime
  <2>2. \A a \in kept : clock - clients[a].lastSeen <= IdleTTL
    BY <1>4, <1>5 DEF Idle
  <2>3. \A a \in kept : nextSweep' - CleanupInterval - clients'[a].lastSeen <= IdleTTL
    BY <1>2, <1>3, <1>4, <1>5, <2>1, <2>2
  <2> QED BY <1>2, <1>3, <1>4, <2>1, <2>3 DEF SweepOnTime
<1> QED BY <1>6, <1>7, <1>8, <1>9, <1>10, <1>11, <1>12, <1>13 DEF RateInv

\* Stop, and time that passes.
LEMMA TimePreserves ==
  ASSUME RateInv, StopLimiter \/ PassTime
  PROVE  RateInv'
<1>1. /\ RateTypes /\ BucketsSound /\ EntriesSound /\ RequestsHold /\ RecentlyUsed
      /\ Tracks /\ AbsentAreFull /\ SweepOnTime
  BY DEF RateInv
<1>2. CASE StopLimiter
  BY <1>1, <1>2 DEF StopLimiter, RateInv, RateTypes, BucketsSound, Sound, EntriesSound,
     RequestsHold, RecentlyUsed, Tracks, FullBy, AbsentAreFull, SweepOnTime
<1>3. CASE PassTime
  <2>1. /\ clock' = clock + 1 /\ clock < MaxClock /\ (swept => clock < nextSweep)
        /\ \A h \in Handlers : request[h] # <<>> => clock - request[h].since < Stall
        /\ clients' = clients /\ buckets' = buckets /\ ideal' = ideal /\ request' = request
        /\ nextSweep' = nextSweep /\ swept' = swept
    BY <1>3 DEF PassTime
  <2>2. /\ clock \in Nat /\ nextSweep \in Int /\ MaxClock \in Nat /\ Stall \in Nat
        /\ CleanupInterval \in Nat /\ Burst \in Nat
        /\ buckets \in Seq(BucketRec) /\ ideal \in [Addresses -> BucketRec]
    BY <1>1, RateAssumption DEF RateTypes
  <2>3. RateTypes'
    BY <1>1, <2>1, <2>2 DEF RateTypes
  <2>4. BucketsSound'
    <3>1. \A i \in 1 .. Len(buckets) : buckets[i].last \in Int /\ Sound(buckets[i])
      <4>1. \A i \in 1 .. Len(buckets) : buckets[i] \in BucketRec
        BY <2>2
      <4>2. \A i \in 1 .. Len(buckets) : Sound(buckets[i])
        BY <1>1 DEF BucketsSound
      <4> QED BY <4>1, <4>2 DEF BucketRec
    <3>2. \A a \in Addresses : ideal[a].last \in Int /\ Sound(ideal[a])
      BY <1>1, <2>2 DEF BucketsSound, BucketRec
    <3> QED BY <2>1, <2>2, <3>1, <3>2 DEF BucketsSound, Sound
  <2>5. EntriesSound'
    <3>1. \A a \in DOMAIN clients : clients[a].lastSeen \in Int
      BY <1>1 DEF RateTypes, EntryRec
    <3> QED BY <1>1, <2>1, <2>2, <3>1 DEF EntriesSound
  <2>6. RequestsHold'
    <3>1. \A h \in Handlers : request[h] # <<>> => request[h].since \in Int
      BY <1>1 DEF RateTypes, RequestRec
    <3> QED BY SMTT(30), <1>1, <2>1, <2>2, <3>1 DEF RequestsHold
  <2>7. RecentlyUsed' /\ Tracks'
    BY <1>1, <2>1 DEF RecentlyUsed, Tracks, FullBy
  <2>8. AbsentAreFull'
    <3> SUFFICES ASSUME NEW a \in Addresses \ DOMAIN clients
                 PROVE  FullBy(ideal[a], clock + 1)
      BY <2>1 DEF AbsentAreFull, FullBy
    <3>1. ideal[a].last \in Int /\ ideal[a].tokens \in Int
      BY <2>2 DEF BucketRec
    <3> DEFINE x == clock - ideal[a].last
    <3>2. x \in Int /\ x + 1 \in Int /\ x <= x + 1 /\ (clock + 1) - ideal[a].last = x + 1
      BY <2>2, <3>1
    <3>3. FullBy(ideal[a], clock)
      BY <1>1 DEF AbsentAreFull
    <3>4. ideal[a].tokens + Rate * x >= Burst
      BY <3>3 DEF FullBy
    <3> HIDE DEF x
    <3>5. Rate * x \in Int /\ Rate * (x + 1) \in Int /\ Rate * x <= Rate * (x + 1)
      BY <3>2, RateMonotone
    <3>6. ideal[a].tokens + Rate * (x + 1) >= Burst
      BY <2>2, <3>1, <3>4, <3>5
    <3> QED BY <3>2, <3>6 DEF FullBy
  <2>9. SweepOnTime'
    BY <1>1, <2>1, <2>2 DEF SweepOnTime
  <2> QED BY <2>3, <2>4, <2>5, <2>6, <2>7, <2>8, <2>9 DEF RateInv
<1> QED BY <1>2, <1>3

LEMMA RateInductive == RateInv /\ [RateNext]_rateVars => RateInv'
<1> SUFFICES ASSUME RateInv, [RateNext]_rateVars PROVE RateInv'
  OBVIOUS
<1>1. CASE \E h \in Handlers : \/ \E p \in Peers, f \in Forwarded \cup {NoAddress} :
                                     GetLimiter(h, ExtractClientIP(p, f))
                               \/ Allow(h)
  BY <1>1, ExtractedIsAddress, GetLimiterPreserves, AllowPreserves
<1>2. CASE Sweep
  BY <1>2, SweepPreserves
<1>3. CASE StopLimiter \/ PassTime
  BY <1>3, TimePreserves
<1>4. CASE UNCHANGED rateVars
  BY <1>4 DEF rateVars, RateInv, RateTypes, BucketsSound, Sound, EntriesSound,
     RequestsHold, RecentlyUsed, Tracks, FullBy, AbsentAreFull, SweepOnTime
<1> QED BY <1>1, <1>2, <1>3, <1>4 DEF RateNext

LEMMA RateInvariant == RateSpec => []RateInv
BY RateInitInv, RateInductive, PTL DEF RateSpec

\* The limiter's type invariant.
THEOREM RateTypeCorrect == RateSpec => []RateTypeOK
<1>1. RateInv => RateTypeOK
  <2> SUFFICES ASSUME RateInv PROVE RateTypeOK
    OBVIOUS
  <2>1. RateTypes /\ EntriesSound /\ RequestsHold
    BY DEF RateInv
  <2>2. \A a \in DOMAIN clients : clients[a].limiter \in Int /\ clients[a].lastSeen \in Int
    BY <2>1 DEF RateTypes, EntryRec
  <2>3. clock \in Nat /\ MaxClock \in Nat /\ Len(buckets) \in Nat
    BY <2>1, RateAssumption DEF RateTypes
  <2>4. \A a \in DOMAIN clients : /\ clients[a].limiter \in 1 .. Len(buckets)
                                  /\ clients[a].lastSeen \in 0 .. clock
    BY <2>1, <2>2, <2>3 DEF EntriesSound
  <2>5. \A h \in Handlers : request[h] # <<>> =>
          request[h].ip \in Addresses /\ request[h].limiter \in 1 .. Len(buckets)
    BY <2>1, <2>4 DEF RequestsHold, RateTypes
  <2> QED BY <2>1, <2>3, <2>4, <2>5 DEF RateTypes, RateTypeOK
<1> QED BY <1>1, RateInvariant, PTL

\* Evicting idle clients never lets anyone make more requests than one token
\* bucket per address would (RateLimiter.Middleware, cleanup).
THEOREM LimitHolds == RateSpec => []WithinLimit
<1>1. RateInv => WithinLimit
  BY DEF RateInv, BucketsSound, Sound, WithinLimit
<1> QED BY <1>1, RateInvariant, PTL

\* Idle addresses are forgotten within one round of the ticker, and the bucket
\* a request holds is the one its address has in the map (getLimiter, cleanup).
THEOREM IdleForgotten == RateSpec => []IdleAreForgotten
<1>1. RateInv => IdleAreForgotten
  <2> SUFFICES ASSUME RateInv PROVE IdleAreForgotten
    OBVIOUS
  <2>1. ASSUME swept, NEW a \in DOMAIN clients
        PROVE  clock - clients[a].lastSeen <= IdleTTL + CleanupInterval
    <3>1. /\ clock \in Nat /\ nextSweep \in Int /\ clients[a].lastSeen \in Int
          /\ CleanupInterval \in Nat /\ IdleTTL \in Nat
      BY RateAssumption DEF RateInv, RateTypes, EntryRec
    <3>2. /\ clock <= nextSweep
          /\ nextSweep - CleanupInterval - clients[a].lastSeen <= IdleTTL
      BY <2>1 DEF RateInv, SweepOnTime
    <3> QED BY <3>1, <3>2
  <2> QED BY <2>1 DEF RateInv, RequestsHold, IdleAreForgotten
<1> QED BY <1>1, RateInvariant, PTL

-----------------------------------------------------------------------------
(***************************************************************************)
(* Proofs about Queries, for any tables, page sizes and clients.  First    *)
(* the pages of a list.                                                    *)
(***************************************************************************)
\* Multiplication by the page size.
LEMMA TimesStep ==
  ASSUME NEW p \in Int, NEW n \in Nat
  PROVE  p * n \in Int /\ p * n = (p - 1) * n + n
OBVIOUS

LEMMA TimesMonotone ==
  ASSUME NEW p \in Int, NEW r \in Int, NEW n \in Nat, p <= r
  PROVE  p * n <= r * n
OBVIOUS

\* The last page is the one that reaches the end.
LEMMA PagesReach ==
  ASSUME NEW c \in Nat, NEW n \in Nat \ {0}
  PROVE  LET K == Pages(c, n)
         IN  K \in Nat /\ c <= K * n /\ K * n < c + n /\ (K = 0 <=> c = 0)
<1> DEFINE a == c + n - 1
           K == a \div n
<1>1. Pages(c, n) = K
  BY DEF Pages
<1>2. K \in Nat /\ K * n <= a /\ a < K * n + n
  OBVIOUS
<1>3. c <= K * n /\ K * n < c + n
  BY <1>2
<1>4. K = 0 <=> c = 0
  BY <1>2
<1> QED BY <1>1, <1>2, <1>3, <1>4

\* Where page p ends.
End(c, p, n) == IF p * n < c THEN p * n ELSE c

\* Page p of the list, with rows of R.
IsSlice(got, list, p, n, R) ==
  LET start == (p - 1) * n
      end   == End(Len(list), p, n)
  IN  /\ got = SubSeq(list, start + 1, end) /\ got \in Seq(R)
      /\ start \in Nat /\ end \in Nat /\ end <= Len(list)
      /\ start <= Len(list) => start <= end /\ Len(got) = end - start
      /\ start > Len(list) => got = <<>>

\* What fits in an int is left as it is.
LEMMA WrapIntKeeps ==
  ASSUME NEW x \in Nat, x < IntLimit
  PROVE  WrapInt(x) = x
<1>1. IntLimit \in Nat /\ 2 * IntLimit \in Nat /\ x < 2 * IntLimit /\ 2 * IntLimit > 0
  BY QueryAssumption
<1>2. ASSUME NEW m \in Nat, m > 0, x < m PROVE x % m = x
  BY <1>2
<1>3. x % (2 * IntLimit) = x
  BY <1>1, <1>2
<1> QED BY <1>1, <1>3 DEF WrapInt

LEMMA StartIsInt ==
  ASSUME NEW p \in Nat \ {0}, NEW n \in Nat \ {0}
  PROVE  Start(p, n) \in Int
<1>1. (p - 1) * n \in Int /\ IntLimit \in Nat /\ IntLimit > 0
  <2>1. Cardinality(Rows) \in Nat
    BY TableFits, FS_CardinalityType
  <2> QED BY <2>1, QueryAssumption, TableFits
<1>2. ASSUME NEW x \in Int, NEW m \in Nat, m > 0 PROVE x % m \in Int
  BY <1>2
<1>3. 2 * IntLimit \in Nat /\ 2 * IntLimit > 0
  BY <1>1
<1>4. ((p - 1) * n) % (2 * IntLimit) \in Int
  BY <1>1, <1>2, <1>3
<1> QED BY <1>1, <1>4 DEF Start, WrapInt

\* Whatever the product wraps around to, an answer is made of rows of the list.
LEMMA SliceTyped ==
  ASSUME NEW R, NEW list \in Seq(R), NEW p \in Nat \ {0}, NEW n \in Nat \ {0},
         Start(p, n) >= 0
  PROVE  /\ Slice(list, p, n) \in Seq(R) /\ Len(Slice(list, p, n)) \in Nat
         /\ Len(Slice(list, p, n)) <= Len(list)
<1> DEFINE start == Start(p, n)
           end == IF start + n < Len(list) THEN start + n ELSE Len(list)
           got == SubSeq(list, start + 1, end)
<1>1. start \in Nat /\ Slice(list, p, n) = got
  BY StartIsInt DEF Slice
<1> HIDE DEF start
<1>2. end \in Nat /\ end <= Len(list) /\ Len(list) \in Nat
  BY <1>1
<1> HIDE DEF end
<1>3. \A i \in start + 1..end : list[i] \in R
  BY <1>1, <1>2
<1>4. got \in Seq(R)
  BY <1>1, <1>2, <1>3
<1>5. Len(got) \in Nat /\ Len(got) <= Len(list)
  BY <1>1, <1>2, <1>4
<1> QED BY <1>1, <1>4, <1>5

LEMMA SliceIs ==
  ASSUME NEW R, NEW list \in Seq(R), NEW p \in Nat \ {0}, NEW n \in Nat \ {0},
         (p - 1) * n < IntLimit
  PROVE  IsSlice(Slice(list, p, n), list, p, n, R)
<1> DEFINE start == (p - 1) * n
           end == End(Len(list), p, n)
           got == SubSeq(list, start + 1, end)
<1>1. start \in Nat /\ p * n \in Nat /\ p * n = start + n
  <2>1. p * n \in Int /\ p * n = start + n /\ start \in Int
    BY TimesStep
  <2>2. 0 * n <= start
    BY TimesMonotone
  <2> QED BY <2>1, <2>2
<1>0. Start(p, n) = start
  BY <1>1, WrapIntKeeps DEF Start
<1> HIDE DEF start
<1>2. Slice(list, p, n) = got
  BY <1>0, <1>1 DEF Slice, End
<1>3. end \in Nat /\ end <= Len(list)
  BY <1>1 DEF End
<1>4. got \in Seq(R)
  <2> HIDE DEF end
  <2>1. \A i \in start + 1..end : list[i] \in R
    BY <1>1, <1>3
  <2> QED BY <1>1, <1>3, <2>1
<1>5. start <= Len(list) => start <= end /\ Len(got) = end - start
  <2>1. start <= Len(list) => start <= end
    BY <1>1 DEF End
  <2> HIDE DEF end
  <2> QED BY <1>1, <1>3, <2>1
<1>6. start > Len(list) => got = <<>>
  <2> HIDE DEF end
  <2> QED BY <1>1, <1>3
<1> QED BY <1>1, <1>2, <1>3, <1>4, <1>5, <1>6 DEF start, IsSlice

\* Two stretches that meet.
LEMMA SubSeqJoin ==
  ASSUME NEW R, NEW s \in Seq(R), NEW a \in Nat, NEW b \in Nat, a <= b, b <= Len(s)
  PROVE  SubSeq(s, 1, a) \o SubSeq(s, a + 1, b) = SubSeq(s, 1, b)
<1> DEFINE x == SubSeq(s, 1, a)
           y == SubSeq(s, a + 1, b)
           z == SubSeq(s, 1, b)
<1>1. x \in Seq(R) /\ Len(x) = a /\ \A i \in 1..a : x[i] = s[i]
  OBVIOUS
<1>2. y \in Seq(R) /\ Len(y) = b - a /\ \A i \in 1..b - a : y[i] = s[a + i]
  OBVIOUS
<1>3. z \in Seq(R) /\ Len(z) = b /\ \A i \in 1..b : z[i] = s[i]
  OBVIOUS
<1> HIDE DEF x, y, z
<1>4. x \o y \in Seq(R) /\ Len(x \o y) = b
  <2>0. x \in Seq(R) /\ y \in Seq(R)
    BY <1>1, <1>2
  <2>1. x \o y \in Seq(R) /\ Len(x \o y) = Len(x) + Len(y)
    BY <2>0
  <2> QED BY <1>1, <1>2, <2>1
<1>5. ASSUME NEW i \in 1..b PROVE (x \o y)[i] = z[i]
  <2>1. CASE i <= a
    BY SMTT(30), <1>1, <1>2, <1>3, <2>1
  <2>2. CASE i > a
    <3>1. i - a \in 1..b - a /\ a + (i - a) = i
      BY <2>2
    <3>2. (x \o y)[i] = y[i - a]
      BY <1>1, <1>2, <2>2
    <3> QED BY <1>2, <1>3, <3>1, <3>2
  <2>3. i <= a \/ i > a
    OBVIOUS
  <2> QED BY <2>1, <2>2, <2>3, Zenon
<1>6. x \o y = z
  BY <1>3, <1>4, <1>5
<1> QED BY <1>6 DEF x, y, z

\* Pages 1 to meta.pages, put one after the other, are the list.
LEMMA Tiling ==
  ASSUME NEW R, NEW list \in Seq(R), NEW n \in Nat \ {0}, Len(list) < IntLimit
  PROVE  FlattenSeq([p \in 1..Pages(Len(list), n) |-> Slice(list, p, n)]) = list
<1> DEFINE c == Len(list)
           K == Pages(c, n)
           s == [p \in 1..K |-> Slice(list, p, n)]
           E(f) == f = [i \in 1..Len(s) |-> IF i = 1 THEN s[i] ELSE f[i - 1] \o s[i]]
           flatten == CHOOSE f : E(f)
           g == [i \in 1..K |-> SubSeq(list, 1, End(c, i, n))]
<1>1. c \in Nat /\ K \in Nat /\ c <= K * n /\ K * n < c + n /\ (K = 0 <=> c = 0)
  <2>1. c \in Nat
    OBVIOUS
  <2> HIDE DEF c
  <2> QED BY <2>1, PagesReach
<1> HIDE DEF K
<1>0. ASSUME NEW p \in 1..K PROVE p \in Nat \ {0} /\ (p - 1) * n < IntLimit
  <2>1. (p - 1) * n <= (K - 1) * n /\ (p - 1) * n \in Int
    BY <1>1, TimesMonotone
  <2>2. K * n = (K - 1) * n + n /\ (K - 1) * n \in Int /\ IntLimit \in Nat
    BY <1>1, TimesStep, QueryAssumption
  <2> QED BY <1>1, <2>1, <2>2
<1>2. s \in Seq(Seq(R)) /\ Len(s) = K
  <2>1. \A p \in 1..K : Slice(list, p, n) \in Seq(R)
    BY <1>0, SliceIs DEF IsSlice
  <2> QED BY <1>1, <2>1
<1>3. CASE K = 0
  <2>1. list = <<>> /\ s = <<>>
    BY <1>1, <1>2, <1>3
  <2>2. FlattenSeq(s) = s
    <3> HIDE DEF s
    <3> QED BY <1>2, <1>3 DEF FlattenSeq
  <2> QED BY <2>1, <2>2 DEF K
<1>4. CASE K # 0
  <2>1. FlattenSeq(s) = flatten[K]
    <3> HIDE DEF s
    <3> QED BY <1>2, <1>4 DEF FlattenSeq
  <2>2. ASSUME NEW i \in 1..K
        PROVE  g[i] = IF i = 1 THEN s[i] ELSE g[i - 1] \o s[i]
    <3> DEFINE a == (i - 1) * n
               b == End(c, i, n)
    <3>1. /\ s[i] = SubSeq(list, a + 1, b) /\ a \in Nat /\ b \in Nat /\ b <= c
          /\ a <= c => a <= b
      <4>0. i \in Nat \ {0} /\ (i - 1) * n < IntLimit
        BY <1>0
      <4>1. s[i] = Slice(list, i, n)
        OBVIOUS
      <4>2. IsSlice(Slice(list, i, n), list, i, n, R)
        BY <4>0, SliceIs
      <4> HIDE DEF s
      <4> QED BY <4>1, <4>2 DEF IsSlice
    <3>2. g[i] = SubSeq(list, 1, b)
      OBVIOUS
    <3>3. a < c
      <4>1. a <= (K - 1) * n
        BY <1>1, TimesMonotone
      <4>2. K * n = (K - 1) * n + n /\ (K - 1) * n \in Int
        BY <1>1, TimesStep
      <4> HIDE DEF a
      <4> QED BY <1>1, <3>1, <4>1, <4>2
    <3>4. CASE i = 1
      <4>1. a = 0
        BY <3>4
      <4> HIDE DEF a, b, g, s
      <4> QED BY <3>1, <3>2, <3>4, <4>1
    <3>5. CASE i # 1
      <4>0. i - 1 \in 1..K
        BY <1>1, <3>5
      <4>1. g[i - 1] = SubSeq(list, 1, End(c, i - 1, n))
        BY <4>0
      <4>2. End(c, i - 1, n) = a
        BY <3>3 DEF End
      <4>3. SubSeq(list, 1, a) \o SubSeq(list, a + 1, b) = SubSeq(list, 1, b)
        <5> HIDE DEF a, b
        <5> QED BY <3>1, <3>3, SubSeqJoin
      <4> HIDE DEF a, b, g, s
      <4> QED BY <3>1, <3>2, <3>5, <4>1, <4>2, <4>3
    <3> QED BY <3>4, <3>5
  <2>3. E(g)
    <3>1. g = [i \in 1..K |-> g[i]]
      OBVIOUS
    <3> HIDE DEF g, s
    <3> QED BY <1>2, <2>2, <3>1
  <2>4. E(flatten)
    <3> HIDE DEF E, g
    <3> QED BY <2>3
  <2> HIDE DEF flatten, g, s
  <2>5. ASSUME NEW i \in 1..K
        PROVE  flatten[i] = IF i = 1 THEN s[i] ELSE flatten[i - 1] \o s[i]
    BY <1>2, <2>4
  <2> DEFINE B == {i \in 1..K : flatten[i] # g[i]}
  <2>6. ASSUME B # {} PROVE FALSE
    <3>1. PICK m \in B : \A k \in B : m <= k
      <4>1. B \in SUBSET Nat
        BY <1>1
      <4> HIDE DEF B
      <4> QED BY <2>6, <4>1, LeastElement
    <3>2. m # 1
      BY <2>2, <2>5
    <3>3. m - 1 \in 1..K /\ m - 1 \notin B
      BY <1>1, <3>1, <3>2
    <3> QED BY <2>2, <2>5, <3>2, <3>3
  <2>7. flatten[K] = g[K] /\ K \in 1..K
    BY <1>1, <1>4, <2>6
  <2>8. g[K] = list
    <3>1. End(c, K, n) = c
      BY <1>1 DEF End
    <3>2. g[K] = SubSeq(list, 1, c)
      BY <2>7, <3>1 DEF g
    <3> QED BY <3>2
  <2> QED BY <2>1, <2>7, <2>8 DEF s, K
<1> QED BY <1>3, <1>4

-----------------------------------------------------------------------------
(***************************************************************************)
(* The order of the storage.                                               *)
(***************************************************************************)
Descends(s) == \A i, j \in DOMAIN s : i < j => s[i] > s[j]

\* A finite set of timestamps can be listed newest first.
LEMMA DescendingExists ==
  ASSUME NEW S \in SUBSET Nat, IsFiniteSet(S)
  PROVE  \E s \in [1..Cardinality(S) -> S] : Descends(s)
<1> DEFINE G == {T \in SUBSET S : \E s \in [1..Cardinality(T) -> T] : Descends(s)}
<1>1. {} \in G
  <2>1. Cardinality({}) = 0
    BY FS_EmptySet
  <2>2. [i \in {} |-> 0] \in [1..Cardinality({}) -> {}]
    BY <2>1
  <2>3. Descends([i \in {} |-> 0])
    BY DEF Descends
  <2> QED BY <2>2, <2>3
<1>2. ASSUME NEW T \in SUBSET S, T # {} PROVE \E x \in T : T \ {x} \in G => T \in G
  <2>1. PICK x \in T : \A k \in T : x <= k
    BY <1>2, LeastElement
  <2>2. ASSUME T \ {x} \in G PROVE T \in G
    <3> DEFINE U == T \ {x}
               c == Cardinality(U)
    <3>1. PICK s \in [1..c -> U] : Descends(s)
      BY <2>2
    <3>2. c \in Nat /\ Cardinality(T) = c + 1
      <4>1. IsFiniteSet(U)
        BY FS_Subset
      <4>2. Cardinality(U) = Cardinality(T) - 1 /\ Cardinality(T) \in Nat
        BY OneLess
      <4> QED BY <4>1, <4>2, FS_CardinalityType
    <3> HIDE DEF c
    <3> DEFINE t == [i \in 1..c + 1 |-> IF i = c + 1 THEN x ELSE s[i]]
    <3>3. \A i \in 1..c + 1 : i = c + 1 \/ i \in 1..c
      BY <3>2
    <3>4. t \in [1..c + 1 -> T]
      BY <3>1, <3>3
    <3>5. ASSUME NEW i \in 1..c + 1, NEW j \in 1..c + 1, i < j PROVE t[i] > t[j]
      <4>1. i \in 1..c /\ i # c + 1 /\ t[i] = s[i]
        BY <3>2, <3>5
      <4>2. CASE j = c + 1
        <5>1. t[j] = x /\ s[i] \in U /\ s[i] # x /\ s[i] \in Nat /\ x \in Nat
          BY <3>1, <4>1, <4>2
        <5> QED BY <2>1, <4>1, <5>1
      <4>3. CASE j # c + 1
        <5>1. j \in 1..c /\ t[j] = s[j]
          BY <3>3, <4>3
        <5> QED BY <3>1, <3>5, <4>1, <5>1 DEF Descends
      <4> QED BY <4>2, <4>3
    <3>6. Descends(t)
      <4>1. DOMAIN t = 1..c + 1
        OBVIOUS
      <4> HIDE DEF t
      <4> QED BY <3>5, <4>1 DEF Descends
    <3> HIDE DEF t
    <3> QED BY <3>2, <3>4, <3>6
  <2> QED BY <2>2
<1>3. S \in G
  <2> HIDE DEF G
  <2> QED BY <1>1, <1>2, SubsetInduction
<1> QED BY <1>3

\* So NewestFirst lists every row once, and a row's place is the number of newer
\* ones.
IsListing(s, S) ==
  /\ s \in Seq(S) /\ Len(s) = Cardinality(S) /\ Descends(s)
  /\ \A x \in S : \E i \in 1..Len(s) : s[i] = x
  /\ \A i \in 1..Len(s) : Cardinality({y \in S : y > s[i]}) = i - 1

LEMMA NewestFirstIs ==
  ASSUME NEW S \in SUBSET Nat, IsFiniteSet(S)
  PROVE  IsListing(NewestFirst(S), S)
<1> DEFINE s == NewestFirst(S)
           c == Cardinality(S)
<1>1. s \in [1..c -> S] /\ Descends(s)
  BY DescendingExists DEF NewestFirst, Descends
<1>2. c \in Nat
  BY FS_CardinalityType
<1> HIDE DEF s
<1>3. s \in Seq(S) /\ Len(s) = c /\ DOMAIN s = 1..c
  BY <1>1, <1>2
<1>4. ASSUME NEW i \in 1..c, NEW j \in 1..c
      PROVE  /\ s[i] \in Nat /\ s[j] \in Nat
             /\ i < j <=> s[i] > s[j]
             /\ s[i] = s[j] => i = j
  <2>1. s[i] \in Nat /\ s[j] \in Nat
    BY <1>1
  <2>2. i < j => s[i] > s[j]
    BY <1>1, <1>3 DEF Descends
  <2>3. j < i => s[j] > s[i]
    BY <1>1, <1>3 DEF Descends
  <2>4. i < j \/ j < i \/ i = j
    BY <1>2
  <2> QED BY <2>1, <2>2, <2>3, <2>4
<1>5. ASSUME NEW x \in S PROVE \E i \in 1..c : s[i] = x
  <2> DEFINE V == {s[i] : i \in 1..c}
  <2>1. Cardinality(V) = c
    <3>1. \A i, j \in 1..c : s[i] = s[j] => i = j
      BY <1>4
    <3>2. V = {s[i] : i \in 1..c}
      OBVIOUS
    <3> HIDE DEF V, c
    <3> QED BY <1>2, <3>1, <3>2, CountValues
  <2>2. V \in SUBSET S
    BY <1>1
  <2>3. V = S
    <3> HIDE DEF V
    <3> QED BY <2>1, <2>2, FS_Subset
  <2> QED BY <2>3
<1>6. ASSUME NEW i \in 1..c PROVE Cardinality({y \in S : y > s[i]}) = i - 1
  <2> DEFINE m == i - 1
             V == {s[k] : k \in 1..m}
  <2>1. m \in Nat /\ \A k \in 1..m : k \in 1..c /\ k < i
    BY <1>2
  <2>2. Cardinality(V) = m
    <3>1. \A k, j \in 1..m : s[k] = s[j] => k = j
      BY <1>4, <2>1
    <3>2. V = {s[k] : k \in 1..m}
      OBVIOUS
    <3> HIDE DEF V, m
    <3> QED BY <2>1, <3>1, <3>2, CountValues
  <2>3. ASSUME NEW y \in S, y > s[i] PROVE y \in V
    <3>1. PICK k \in 1..c : s[k] = y
      BY <1>5
    <3>2. k < i
      BY <1>4, <2>3, <3>1
    <3>3. k \in 1..m
      BY <1>2, <3>2
    <3> QED BY <3>1, <3>3
  <2>4. ASSUME NEW k \in 1..m PROVE s[k] \in S /\ s[k] > s[i]
    BY <1>1, <1>4, <2>1
  <2>5. {y \in S : y > s[i]} = V
    BY <2>3, <2>4
  <2> QED BY <2>2, <2>5
<1> HIDE DEF c
<1> QED BY <1>1, <1>3, <1>5, <1>6 DEF IsListing, s, c

\* One iteration of the in-memory loop.
MatchStep(q, N) ==
  [p \in Seq(Rows) \X (1..N) |->
     IF Matches(q, rows[p[2]]) THEN Append(p[1], rows[p[2]]) ELSE p[1]]

\* The loop, one iteration after the other.
LEMMA MatchedLoop ==
  ASSUME rows \in Seq(Rows), NEW q
  PROVE  \E m \in [0..Len(rows) -> Seq(Rows)] :
           /\ m[0] = <<>>
           /\ \A n \in 1..Len(rows) :
                m[n] = IF Matches(q, rows[n]) THEN Append(m[n - 1], rows[n]) ELSE m[n - 1]
           /\ Matched(q) = m[Len(rows)]
<1> DEFINE N == Len(rows)
           G == MatchStep(q, N)
           E(f) == f = [n \in 0..N |-> IF n = 0 THEN <<>>
                                       ELSE IF Matches(q, rows[n]) THEN Append(f[n - 1], rows[n])
                                       ELSE f[n - 1]]
           matched == CHOOSE f : E(f)
<1>1. N \in Nat /\ <<>> \in Seq(Rows) /\ \A n \in 1..N : rows[n] \in Rows
  OBVIOUS
<1>2. G \in [Seq(Rows) \X (1..N) -> Seq(Rows)]
  <2>1. ASSUME NEW p \in Seq(Rows) \X (1..N)
        PROVE  (IF Matches(q, rows[p[2]]) THEN Append(p[1], rows[p[2]]) ELSE p[1]) \in Seq(Rows)
    <3>1. p[1] \in Seq(Rows) /\ rows[p[2]] \in Rows
      BY <1>1
    <3>2. Append(p[1], rows[p[2]]) \in Seq(Rows)
      BY <3>1
    <3> QED BY <3>1, <3>2
  <2> QED BY <2>1 DEF MatchStep
<1>3. PICK g \in [0..N -> Seq(Rows)] : Follows(g, N, <<>>, G)
  <2> HIDE DEF G, N
  <2> QED BY <1>1, <1>2, RecursionExists
<1>4. ASSUME NEW n \in 1..N
      PROVE  g[n] = IF Matches(q, rows[n]) THEN Append(g[n - 1], rows[n]) ELSE g[n - 1]
  <2>1. g[n] = G[<<g[n - 1], n>>]
    BY <1>3 DEF Follows
  <2>2. g[n - 1] \in Seq(Rows)
    BY <1>1, <1>3
  <2> QED BY <2>1, <2>2 DEF MatchStep
<1>5. g[0] = <<>>
  BY <1>3 DEF Follows
<1>6. E(g)
  <2>1. \A n \in 0..N : n = 0 \/ n \in 1..N
    BY <1>1
  <2>2. \A n \in 0..N : g[n] = IF n = 0 THEN <<>>
                               ELSE IF Matches(q, rows[n]) THEN Append(g[n - 1], rows[n])
                               ELSE g[n - 1]
    BY <1>4, <1>5, <2>1
  <2>3. g = [n \in 0..N |-> g[n]]
    OBVIOUS
  <2> HIDE DEF N
  <2> QED BY <2>2, <2>3
<1>7. E(matched)
  <2> HIDE DEF E
  <2> QED BY <1>6
<1>8. Matched(q) = matched[N]
  BY DEF Matched
<1> HIDE DEF matched, N
<1> DEFINE B == {n \in 0..N : matched[n] # g[n]}
<1>9. ASSUME B # {} PROVE FALSE
  <2>1. PICK k \in B : \A j \in B : k <= j
    <3>1. B \in SUBSET Nat
      BY <1>1
    <3> HIDE DEF B
    <3> QED BY <1>9, <3>1, LeastElement
  <2>2. k # 0
    BY <1>5, <1>7
  <2>3. k \in 1..N /\ k - 1 \in 0..N /\ k - 1 \notin B
    BY <1>1, <2>1, <2>2
  <2>4. matched[k] = IF Matches(q, rows[k]) THEN Append(matched[k - 1], rows[k])
                     ELSE matched[k - 1]
    BY <1>7, <2>2
  <2>5. matched[k - 1] = g[k - 1]
    BY <2>3
  <2> QED BY <1>4, <2>3, <2>4, <2>5
<1>10. Matched(q) = g[N]
  <2>1. N \in 0..N
    BY <1>1
  <2>2. matched[N] = g[N]
    BY <1>9, <2>1
  <2> QED BY <1>8, <2>2
<1> QED BY <1>4, <1>5, <1>10 DEF N

\* It finds rows of the table, no more than there are, and all of them without
\* a filter.
LEMMA MatchedIs ==
  ASSUME rows \in Seq(Rows), NEW q
  PROVE  /\ Matched(q) \in Seq(Rows) /\ Len(Matched(q)) <= Len(rows)
         /\ \A i \in 1..Len(Matched(q)) : \E k \in 1..Len(rows) : Matched(q)[i] = rows[k]
         /\ ~q.onlyOpen => Matched(q) = rows
<1> DEFINE N == Len(rows)
<1>1. PICK m \in [0..N -> Seq(Rows)] :
        /\ m[0] = <<>>
        /\ \A n \in 1..N : m[n] = IF Matches(q, rows[n]) THEN Append(m[n - 1], rows[n]) ELSE m[n - 1]
        /\ Matched(q) = m[N]
  BY MatchedLoop
<1>2. N \in Nat /\ \A n \in 1..N : rows[n] \in Rows
  OBVIOUS
<1> HIDE DEF N
<1> DEFINE Good(n) == /\ Len(m[n]) <= n
                      /\ \A i \in 1..Len(m[n]) : \E k \in 1..N : m[n][i] = rows[k]
                      /\ ~q.onlyOpen => /\ Len(m[n]) = n
                                        /\ \A i \in 1..n : m[n][i] = rows[i]
           B == {n \in 0..N : ~Good(n)}
<1>3. ASSUME B # {} PROVE FALSE
  <2>1. PICK k \in B : \A j \in B : k <= j
    <3>1. B \in SUBSET Nat
      BY <1>2
    <3> HIDE DEF B
    <3> QED BY <1>3, <3>1, LeastElement
  <2>2. Good(0)
    BY <1>1
  <2>3. k # 0
    <3> HIDE DEF Good
    <3> QED BY <2>2
  <2>4. k \in 1..N /\ k \in Nat /\ k - 1 \in 0..N /\ k - 1 \notin B
    <3>1. k \in 0..N
      OBVIOUS
    <3> HIDE DEF B
    <3> QED BY <1>2, <2>1, <2>3, <3>1
  <2>5. Good(k - 1) /\ ~Good(k)
    <3> HIDE DEF Good
    <3> QED BY <2>4
  <2> DEFINE a == m[k - 1]
             b == m[k]
  <2>6. a \in Seq(Rows) /\ rows[k] \in Rows /\ Len(a) \in Nat
    BY <1>1, <1>2, <2>4
  <2>7. b = IF Matches(q, rows[k]) THEN Append(a, rows[k]) ELSE a
    BY <1>1, <2>4
  <2>8. /\ Len(a) <= k - 1
        /\ \A i \in 1..Len(a) : \E j \in 1..N : a[i] = rows[j]
        /\ ~q.onlyOpen => Len(a) = k - 1 /\ \A i \in 1..k - 1 : a[i] = rows[i]
    BY <2>5
  <2> HIDE DEF Good, B
  <2>9. CASE Matches(q, rows[k])
    <3>1. b = Append(a, rows[k])
      BY <2>7, <2>9
    <3> HIDE DEF a, b
    <3>2. Len(b) = Len(a) + 1 /\ b[Len(a) + 1] = rows[k] /\ \A i \in 1..Len(a) : b[i] = a[i]
      BY <2>6, <3>1
    <3>3. \A i \in 1..Len(b) : i = Len(a) + 1 \/ i \in 1..Len(a)
      BY <2>6, <3>2
    <3>4. \A i \in 1..k : i = k \/ i \in 1..k - 1
      BY <2>4
    <3>5. Len(b) <= k
      BY <2>4, <2>6, <2>8, <3>2
    <3>6. \A i \in 1..Len(b) : \E j \in 1..N : b[i] = rows[j]
      BY <2>4, <2>8, <3>2, <3>3
    <3>7. ASSUME ~q.onlyOpen PROVE Len(b) = k /\ \A i \in 1..k : b[i] = rows[i]
      <4>1. Len(a) = k - 1 /\ \A i \in 1..k - 1 : a[i] = rows[i]
        BY <2>8, <3>7
      <4> QED BY <2>4, <3>2, <3>4, <4>1
    <3>8. Good(k)
      BY <3>5, <3>6, <3>7 DEF Good, b
    <3> QED BY <2>5, <3>8
  <2>10. CASE ~Matches(q, rows[k])
    <3>1. b = a /\ q.onlyOpen
      BY <2>7, <2>10 DEF Matches
    <3> HIDE DEF a, b
    <3>2. Len(b) <= k
      BY <2>4, <2>6, <2>8, <3>1
    <3>3. Good(k)
      BY <2>8, <3>1, <3>2 DEF Good, b
    <3> QED BY <2>5, <3>3
  <2> QED BY <2>9, <2>10
<1>4. N \in 0..N /\ N \notin B
  <2> HIDE DEF B
  <2> QED BY <1>2, <1>3
<1>5. Good(N) /\ m[N] \in Seq(Rows)
  <2> HIDE DEF Good
  <2> QED BY <1>1, <1>4
<1>6. ASSUME ~q.onlyOpen PROVE m[N] = rows
  <2>1. m[N] \in Seq(Rows) /\ Len(m[N]) = N /\ \A i \in 1..N : m[N][i] = rows[i]
    BY <1>5, <1>6
  <2> DEFINE b == m[N]
  <2> HIDE DEF b
  <2>2. b \in Seq(Rows) /\ Len(b) = Len(rows) /\ \A i \in 1..Len(rows) : b[i] = rows[i]
    BY <2>1 DEF b, N
  <2>3. b = rows
    BY <2>2
  <2> QED BY <2>3 DEF b
<1> QED BY <1>1, <1>5, <1>6 DEF N

-----------------------------------------------------------------------------
(***************************************************************************)
(* The walk.  From memory the client has the first pages of a table that   *)
(* only grows at its end.  From PostgreSQL new rows push the others back:  *)
(* a wanted row the client does not have yet has at least as many newer    *)
(* ones as the pages it has fetched hold.                                  *)
(***************************************************************************)
LEMMA ToSetIs ==
  ASSUME NEW R, NEW s \in Seq(R)
  PROVE  /\ ToSet(s) = {s[i] : i \in 1..Len(s)} /\ ToSet(s) \in SUBSET R
         /\ IsFiniteSet(ToSet(s)) /\ Cardinality(ToSet(s)) <= Len(s)
<1>1. ToSet(s) = {s[i] : i \in 1..Len(s)} /\ Len(s) \in Nat /\ DOMAIN s = 1..Len(s)
  BY DEF ToSet
<1>2. \A i \in 1..Len(s) : s[i] \in R
  OBVIOUS
<1>3. s \in Surjection(1..Len(s), ToSet(s))
  BY <1>1 DEF Surjection
<1>4. IsFiniteSet(1..Len(s)) /\ Cardinality(1..Len(s)) = Len(s)
  BY <1>1, FS_Interval
<1>5. IsFiniteSet(ToSet(s)) /\ Cardinality(ToSet(s)) <= Cardinality(1..Len(s))
  BY <1>3, <1>4, FS_Surjection
<1> QED BY <1>1, <1>2, <1>4, <1>5

LEMMA ToSetAppend ==
  ASSUME NEW R, NEW s \in Seq(R), NEW x \in R
  PROVE  /\ Append(s, x) \in Seq(R) /\ ToSet(Append(s, x)) = ToSet(s) \cup {x}
         /\ Len(Append(s, x)) = Len(s) + 1
         /\ \A k \in 0..Len(s) : SubSeq(Append(s, x), 1, k) = SubSeq(s, 1, k)
         /\ IsInjective(s) /\ x \notin ToSet(s) => IsInjective(Append(s, x))
<1> DEFINE t == Append(s, x)
           N == Len(s)
<1>1. /\ t \in Seq(R) /\ Len(t) = N + 1 /\ t[N + 1] = x /\ \A i \in 1..N : t[i] = s[i]
      /\ N \in Nat /\ DOMAIN t = 1..N + 1 /\ DOMAIN s = 1..N
  OBVIOUS
<1> HIDE DEF t, N
<1>2. \A i \in 1..N + 1 : i = N + 1 \/ i \in 1..N
  BY <1>1
<1>3. N + 1 \in 1..N + 1 /\ \A i \in 1..N : i \in 1..N + 1
  BY <1>1
<1>4. ToSet(t) = ToSet(s) \cup {x}
  BY <1>1, <1>2, <1>3 DEF ToSet
<1>5. ASSUME NEW k \in 0..N PROVE SubSeq(t, 1, k) = SubSeq(s, 1, k)
  <2>1. k <= Len(s) /\ k <= Len(t) /\ k \in Nat /\ \A i \in 1..k : i \in 1..N
    BY <1>1 DEF N
  <2> DEFINE u == SubSeq(t, 1, k)
             v == SubSeq(s, 1, k)
  <2>2. u \in Seq(R) /\ Len(u) = k /\ \A i \in 1..k : u[i] = t[i]
    BY <1>1, <2>1
  <2>3. v \in Seq(R) /\ Len(v) = k /\ \A i \in 1..k : v[i] = s[i]
    BY <1>1, <2>1
  <2> HIDE DEF u, v
  <2>4. u = v
    BY <1>1, <2>1, <2>2, <2>3
  <2> QED BY <2>4 DEF u, v
<1>6. ASSUME IsInjective(s), x \notin ToSet(s), NEW i \in 1..N + 1, NEW j \in 1..N + 1, t[i] = t[j]
      PROVE  i = j
  <2>1. \A k \in 1..N : s[k] # x
    BY <1>1, <1>6 DEF ToSet
  <2>2. CASE i = N + 1
    BY <1>1, <1>2, <1>6, <2>1, <2>2
  <2>3. CASE j = N + 1
    BY <1>1, <1>2, <1>6, <2>1, <2>3
  <2>4. CASE i \in 1..N /\ j \in 1..N
    BY <1>1, <1>6, <2>4 DEF IsInjective
  <2> QED BY <1>2, <2>2, <2>3, <2>4
<1>7. IsInjective(s) /\ x \notin ToSet(s) => IsInjective(t)
  BY <1>1, <1>6 DEF IsInjective
<1> QED BY <1>1, <1>4, <1>5, <1>7 DEF t, N

\* What the filter selects: rows of the table; without a filter, all of them, in
\* insertion order or newest first.
LEMMA SelectedIs ==
  ASSUME QueriesTypeOK
  PROVE  /\ Selected(query) \in Seq(Rows) /\ Len(Selected(query)) <= Len(rows)
         /\ ToSet(Selected(query)) \in SUBSET ToSet(rows)
         /\ ~query.onlyOpen /\ storage = "memory" => Selected(query) = rows
         /\ ~query.onlyOpen /\ storage # "memory" => IsListing(Selected(query), ToSet(rows))
<1>0. rows \in Seq(Rows) /\ Len(rows) \in Nat /\ Rows \in SUBSET Nat
  BY QueryAssumption DEF QueriesTypeOK
<1>1. /\ ToSet(rows) = {rows[i] : i \in 1..Len(rows)} /\ ToSet(rows) \in SUBSET Rows
      /\ IsFiniteSet(ToSet(rows)) /\ Cardinality(ToSet(rows)) <= Len(rows)
  BY <1>0, ToSetIs
<1> DEFINE L == Selected(query)
<1>2. CASE storage = "memory"
  <2>1. L = Matched(query)
    BY <1>2 DEF Selected
  <2>2. /\ L \in Seq(Rows) /\ Len(L) <= Len(rows)
        /\ \A i \in 1..Len(L) : \E k \in 1..Len(rows) : L[i] = rows[k]
        /\ ~query.onlyOpen => L = rows
    <3> HIDE DEF L
    <3> QED BY <1>0, <2>1, MatchedIs
  <2> HIDE DEF L
  <2>3. ToSet(L) = {L[i] : i \in 1..Len(L)}
    BY <2>2, ToSetIs
  <2>4. ToSet(L) \in SUBSET ToSet(rows)
    BY <1>1, <2>2, <2>3
  <2> QED BY <1>2, <2>2, <2>4 DEF L
<1>3. CASE storage # "memory"
  <2> DEFINE S == {o \in ToSet(rows) : Matches(query, o)}
  <2>1. L = NewestFirst(S)
    BY <1>3 DEF Selected
  <2>2. S \in SUBSET ToSet(rows) /\ S \in SUBSET Nat /\ S \in SUBSET Rows
    BY <1>0, <1>1
  <2>3. ~query.onlyOpen => S = ToSet(rows)
    BY DEF Matches
  <2> HIDE DEF S, L
  <2>4. IsFiniteSet(S) /\ Cardinality(S) <= Cardinality(ToSet(rows))
    BY <1>1, <2>2, FS_Subset
  <2>5. IsListing(L, S)
    BY <2>1, <2>2, <2>4, NewestFirstIs
  <2>6. L \in Seq(S) /\ Len(L) = Cardinality(S)
    BY <2>5 DEF IsListing
  <2>7. L \in Seq(Rows)
    <3>1. \A i \in 1..Len(L) : L[i] \in S
      BY <2>6
    <3>2. \A i \in 1..Len(L) : L[i] \in Rows
      BY <2>2, <3>1
    <3>3. L = [i \in 1..Len(L) |-> L[i]] /\ Len(L) \in Nat
      BY <2>6
    <3> QED BY <3>2, <3>3
  <2>8. Len(L) <= Len(rows)
    <3>1. Cardinality(S) \in Nat /\ Cardinality(ToSet(rows)) \in Nat
      BY <1>1, <2>4, FS_CardinalityType
    <3> QED BY <1>0, <1>1, <2>4, <2>6, <3>1
  <2>9. ToSet(L) \in SUBSET ToSet(rows)
    <3>1. ToSet(L) \in SUBSET S
      BY <2>6, ToSetIs
    <3> QED BY <2>2, <3>1
  <2> QED BY <1>3, <2>3, <2>5, <2>7, <2>8, <2>9 DEF L
<1> QED BY <1>2, <1>3

\* How many rows are newer than w.
Newer(w) == Cardinality({y \in ToSet(rows) : y > w})

MemoryWalk ==
  storage = "memory" /\ ~query.onlyOpen /\ query.page = 1 =>
    /\ walk \in {"idle", "ask"} =>
         LET fetched == (page - 1) * query.perPage
         IN  fetched <= Len(rows) /\ seen = SubSeq(rows, 1, fetched)
    /\ walk = "done" => wanted \subseteq ToSet(seen) /\ IsInjective(seen)

PostgresWalk ==
  storage # "memory" /\ ~query.onlyOpen /\ ~query.byMeta /\ query.page = 1 =>
    /\ walk # "done" =>
         \A w \in wanted : w \in ToSet(seen) \/ Newer(w) >= (page - 1) * query.perPage
    /\ walk = "done" => wanted \subseteq ToSet(seen)

\* A walk from the first page stays in the table.
InTable == query.page = 1 => walk # "failed" /\ (page - 1) * query.perPage <= Len(rows)

QueriesInv ==
  /\ QueriesTypeOK
  /\ IsInjective(rows)
  /\ walk = "idle" => page = query.page
  /\ walk = "select" => storage # "memory"
  /\ InTable /\ MemoryWalk /\ PostgresWalk

LEMMA QueriesInitInv == QueriesInit => QueriesInv
<1> SUFFICES ASSUME QueriesInit PROVE QueriesInv
  OBVIOUS
<1>1. /\ storage \in {"memory", "postgres"} /\ resource \in {"orders", "trades"}
      /\ rows = <<>> /\ open = {} /\ wanted = {} /\ seen = <<>> /\ page = query.page
      /\ walk = "idle" /\ total = 0
  BY DEF QueriesInit
<1>2. PICK v \in PerPageParams : query.perPage = ParsePerPage(IntParam(v, DefaultPerPage))
  BY DEF QueriesInit
<1>3. query.perPage \in 1..(DefaultPerPage + MaxPerPage)
  <2>1. IntParam(v, DefaultPerPage) \in Int
        /\ DefaultPerPage \in Nat \ {0} /\ MaxPerPage \in Nat \ {0}
    BY QueryAssumption DEF IntParam
  <2> QED BY <1>2, <2>1 DEF ParsePerPage
<1>4. <<>> \in Seq(Rows) /\ Len(<<>>) = 0 /\ 0 \in 0..0
  OBVIOUS
<1>10. query.page \in Nat \ {0}
  <2>1. PICK u \in PageParams : query.page = ParsePage(IntParam(u, 1))
    BY DEF QueriesInit
  <2>2. IntParam(u, 1) \in Int
    BY QueryAssumption DEF IntParam
  <2> QED BY <2>1, <2>2 DEF ParsePage
<1>5. QueriesTypeOK
  BY <1>1, <1>3, <1>4, <1>10 DEF QueriesTypeOK
<1>11. ASSUME query.page = 1 PROVE (page - 1) * query.perPage = 0
  BY <1>1, <1>3, <1>11, QueryAssumption
<1>12. InTable
  BY <1>1, <1>4, <1>11 DEF InTable
<1>6. IsInjective(rows)
  BY <1>1 DEF IsInjective
<1>7. MemoryWalk
  <2>2. SubSeq(<<>>, 1, 0) = <<>>
    OBVIOUS
  <2> QED BY <1>1, <1>4, <1>11, <2>2 DEF MemoryWalk
<1>8. PostgresWalk
  BY <1>1 DEF PostgresWalk
<1> QED BY <1>1, <1>5, <1>6, <1>7, <1>8, <1>12 DEF QueriesInv

LEMMA QueryFacts ==
  ASSUME QueriesInv
  PROVE  /\ QueriesTypeOK /\ rows \in Seq(Rows) /\ Len(rows) \in Nat /\ seen \in Seq(Rows)
         /\ query.perPage \in Nat \ {0} /\ page \in Nat \ {0}
         /\ (page - 1) * query.perPage \in Nat
         /\ page * query.perPage = (page - 1) * query.perPage + query.perPage
<1>1. /\ QueriesTypeOK /\ rows \in Seq(Rows) /\ Len(rows) \in Nat /\ seen \in Seq(Rows)
      /\ query.perPage \in Nat \ {0} /\ page \in Nat \ {0}
  BY QueryAssumption DEF QueriesInv, QueriesTypeOK
<1>2. /\ (page - 1) * query.perPage \in Int
      /\ page * query.perPage = (page - 1) * query.perPage + query.perPage
  BY <1>1, TimesStep
<1>3. 0 * query.perPage <= (page - 1) * query.perPage /\ 0 * query.perPage = 0
  BY <1>1, TimesMonotone
<1> QED BY <1>1, <1>2, <1>3

\* A row is added.
LEMMA RowSavePreserves ==
  ASSUME QueriesInv, NEW o \in Rows, o \notin ToSet(rows), rows' = Append(rows, o),
         open' \in {open, open \cup {o}}, UNCHANGED <<storage, resource, clientVars>>
  PROVE  QueriesInv'
<1>1. UNCHANGED <<storage, resource, query, wanted, seen, page, walk, total>>
  BY DEF clientVars
<1>2. /\ rows \in Seq(Rows) /\ Len(rows) \in Nat /\ QueriesTypeOK
      /\ (page - 1) * query.perPage \in Nat
  BY QueryFacts
<1>3. /\ rows' \in Seq(Rows) /\ ToSet(rows') = ToSet(rows) \cup {o} /\ Len(rows') = Len(rows) + 1
      /\ \A k \in 0..Len(rows) : SubSeq(rows', 1, k) = SubSeq(rows, 1, k)
      /\ IsInjective(rows')
  BY <1>2, ToSetAppend DEF QueriesInv
<1>4. QueriesTypeOK'
  BY <1>1, <1>2, <1>3 DEF QueriesTypeOK
<1>5. MemoryWalk'
  <2> DEFINE fetched == (page - 1) * query.perPage
  <2>1. fetched \in Nat
    BY <1>2
  <2> HIDE DEF fetched
  <2>2. ASSUME fetched <= Len(rows), seen = SubSeq(rows, 1, fetched)
        PROVE  fetched <= Len(rows') /\ seen = SubSeq(rows', 1, fetched)
    BY <1>2, <1>3, <2>1, <2>2
  <2> QED BY <1>1, <2>2 DEF QueriesInv, MemoryWalk, fetched
<1>6. ASSUME NEW w \in wanted PROVE Newer(w)' >= Newer(w) /\ Newer(w) \in Nat /\ Newer(w)' \in Nat
  <2> DEFINE A == {y \in ToSet(rows) : y > w}
             B == {y \in ToSet(rows') : y > w}
  <2>1. IsFiniteSet(ToSet(rows')) /\ A \in SUBSET B /\ B \in SUBSET ToSet(rows')
    BY <1>3, ToSetIs
  <2> HIDE DEF A, B
  <2>2. IsFiniteSet(B) /\ IsFiniteSet(A) /\ Cardinality(A) <= Cardinality(B)
    BY <2>1, FS_Subset
  <2>3. Cardinality(A) \in Nat /\ Cardinality(B) \in Nat
    BY <2>2, FS_CardinalityType
  <2> QED BY <2>2, <2>3 DEF Newer, A, B
<1>7. PostgresWalk'
  <2> DEFINE fetched == (page - 1) * query.perPage
  <2>1. fetched \in Nat
    BY <1>2
  <2> HIDE DEF fetched
  <2>2. ASSUME NEW w \in wanted, Newer(w) >= fetched PROVE Newer(w)' >= fetched
    BY <1>6, <2>1, <2>2
  <2> QED BY <1>1, <2>2 DEF QueriesInv, PostgresWalk, fetched
<1>8. InTable'
  <2> DEFINE fetched == (page - 1) * query.perPage
  <2>1. fetched \in Nat
    BY <1>2
  <2> HIDE DEF fetched
  <2>2. fetched <= Len(rows) => fetched <= Len(rows')
    BY <1>2, <1>3, <2>1
  <2> QED BY <1>1, <2>2 DEF QueriesInv, InTable, fetched
<1> QED BY <1>1, <1>3, <1>4, <1>5, <1>7, <1>8 DEF QueriesInv

\* Steps that leave the table and what the client has alone.
LEMMA QuietWalkPreserves ==
  ASSUME QueriesInv, UNCHANGED <<storage, resource, rows, query, wanted, seen, page>>,
         open' \in SUBSET open, total' \in 0..Len(rows),
         \/ walk' = walk
         \/ walk = "ask" /\ walk' = "select" /\ storage # "memory"
  PROVE  QueriesInv'
<1>1. QueriesTypeOK'
  BY DEF QueriesInv, QueriesTypeOK
<1>2. MemoryWalk'
  BY DEF QueriesInv, MemoryWalk
<1>3. \A w : Newer(w)' = Newer(w)
  BY DEF Newer
<1>4. PostgresWalk'
  BY <1>3 DEF QueriesInv, PostgresWalk
<1>5. InTable'
  BY DEF QueriesInv, InTable
<1> QED BY <1>1, <1>2, <1>4, <1>5 DEF QueriesInv

\* The client begins.
LEMMA BeginWalkPreserves ==
  ASSUME QueriesInv, NEW what, BeginWalk(what)
  PROVE  QueriesInv'
<1>1. /\ walk = "idle" /\ walk' = "ask" /\ wanted' = ToSet(Selected(query))
      /\ UNCHANGED <<storage, resource, rows, open, query, seen, page, total>>
  BY DEF BeginWalk
<1>2. wanted' \in SUBSET ToSet(rows)
  BY <1>1, SelectedIs DEF QueriesInv
<1>3. QueriesTypeOK'
  BY <1>1, <1>2 DEF QueriesInv, QueriesTypeOK
<1>4. MemoryWalk'
  BY <1>1 DEF QueriesInv, MemoryWalk
<1>5. PostgresWalk'
  <2>1. query.page = 1 => (page - 1) * query.perPage = 0
    BY <1>1, QueryFacts DEF QueriesInv
  <2>2. ASSUME NEW w \in wanted' PROVE Newer(w)' >= 0
    <3> DEFINE A == {y \in ToSet(rows) : y > w}
    <3>1. IsFiniteSet(ToSet(rows)) /\ A \in SUBSET ToSet(rows)
      BY QueryFacts, ToSetIs
    <3> HIDE DEF A
    <3>2. Cardinality(A) \in Nat
      BY <3>1, FS_Subset, FS_CardinalityType
    <3> QED BY <1>1, <3>2 DEF Newer, A
  <2> QED BY <1>1, <2>1, <2>2 DEF PostgresWalk
<1>6. InTable'
  BY <1>1 DEF QueriesInv, InTable
<1> QED BY <1>1, <1>3, <1>4, <1>5, <1>6 DEF QueriesInv

\* The client stops only after the page that reaches the end, and goes on only
\* after a full one.
LEMMA LastPage ==
  ASSUME NEW c \in Nat, NEW p \in Nat \ {0}, NEW n \in Nat \ {0}
  PROVE  /\ p >= Pages(c, n) => End(c, p, n) = c
         /\ p < Pages(c, n) => End(c, p, n) = p * n
<1> DEFINE K == Pages(c, n)
<1>1. K \in Nat /\ c <= K * n /\ K * n < c + n
  BY PagesReach
<1> HIDE DEF K
<1>2. ASSUME p >= K PROVE End(c, p, n) = c
  <2>1. K * n <= p * n
    BY <1>1, <1>2, TimesMonotone
  <2>2. K * n \in Int /\ p * n \in Int
    BY <1>1
  <2> QED BY <1>1, <2>1, <2>2 DEF End
<1>3. ASSUME p < K PROVE End(c, p, n) = p * n
  <2>1. p * n <= (K - 1) * n
    BY <1>1, <1>3, TimesMonotone
  <2>2. K * n \in Int /\ p * n \in Int /\ K * n = (K - 1) * n + n /\ (K - 1) * n \in Int
    BY <1>1, TimesStep
  <2> QED BY <1>1, <2>1, <2>2 DEF End
<1> QED BY <1>2, <1>3 DEF K

\* The table, and a page of it, can be counted.
LEMMA TableIsCounted ==
  ASSUME QueriesInv
  PROVE  /\ Len(rows) \in Nat /\ Len(rows) < IntLimit /\ IntLimit \in Nat
         /\ query.page = 1 => (page - 1) * query.perPage < IntLimit
<1>1. rows \in Seq(Rows) /\ Len(rows) \in Nat /\ IsInjective(rows) /\ InTable
      /\ (page - 1) * query.perPage \in Nat
  BY QueryFacts DEF QueriesInv
<1>2. rows \in [1..Len(rows) -> Rows] /\ DOMAIN rows = 1..Len(rows)
  BY <1>1
<1>3. rows \in Injection(1..Len(rows), Rows)
  BY <1>1, <1>2 DEF Injection, IsInjective
<1>4. IsFiniteSet(1..Len(rows)) /\ Cardinality(1..Len(rows)) = Len(rows)
  <2>1. Len(rows) \in Nat
    BY <1>1
  <2> QED BY SMTT(30), <2>1, FS_Interval
<1>5. Len(rows) <= Cardinality(Rows)
  <2>1. Cardinality(1..Len(rows)) <= Cardinality(Rows)
    BY <1>3, <1>4, FS_Injection, TableFits
  <2> QED BY <1>4, <2>1
<1>6. Cardinality(Rows) \in Nat
  BY TableFits, FS_CardinalityType
<1>7. Len(rows) < IntLimit /\ IntLimit \in Nat
  BY <1>1, <1>5, <1>6, TableFits, QueryAssumption
<1> DEFINE fetched == (page - 1) * query.perPage
<1>8. query.page = 1 => fetched < IntLimit
  <2>1. fetched \in Nat /\ (query.page = 1 => fetched <= Len(rows))
    BY <1>1 DEF InTable
  <2> HIDE DEF fetched
  <2> QED BY <1>1, <1>7, <2>1
<1> QED BY <1>1, <1>7, <1>8

\* A request whose product wrapped around: of a walk from a later page.
LEMMA StrayAnswerPreserves ==
  ASSUME QueriesInv, query.page # 1, walk # "idle", NEW count, Answer(Selected(query), count),
         UNCHANGED <<storage, resource, rows, open, query, wanted, total>>
  PROVE  QueriesInv'
<1> DEFINE got == Slice(Selected(query), page, query.perPage)
<1>1. /\ QueriesTypeOK /\ seen \in Seq(Rows) /\ query.perPage \in Nat \ {0}
      /\ page \in Nat \ {0} /\ Selected(query) \in Seq(Rows)
  BY QueryFacts, SelectedIs
<1>2. /\ seen' = seen \/ (seen' = seen \o got /\ got \in Seq(Rows))
      /\ page' = page \/ page' = page + 1
      /\ walk' \in {"ask", "done", "failed"}
  <2>1. CASE Start(page, query.perPage) >= 0 /\ TakePage(Selected(query), count)
    <3>1. got \in Seq(Rows)
      BY <1>1, <2>1, SliceTyped
    <3>2. /\ seen' = seen \o got
          /\ page' = page \/ page' = page + 1
          /\ walk' \in {"ask", "done"}
      BY <2>1 DEF TakePage
    <3> QED BY <3>1, <3>2
  <2>2. CASE walk' = "failed" /\ UNCHANGED <<seen, page>>
    BY <2>2
  <2> QED BY <2>1, <2>2 DEF Answer
<1> HIDE DEF got
<1>3. seen' \in Seq(Rows)
  <2>1. CASE seen' = seen
    BY <1>1, <2>1
  <2>2. CASE seen' = seen \o got /\ got \in Seq(Rows)
    BY <1>1, <2>2
  <2> QED BY <1>2, <2>1, <2>2
<1>4. page' \in Nat \ {0}
  BY <1>1, <1>2
<1>5. QueriesTypeOK'
  BY <1>1, <1>2, <1>3, <1>4 DEF QueriesTypeOK
<1>6. InTable' /\ MemoryWalk' /\ PostgresWalk'
  BY DEF InTable, MemoryWalk, PostgresWalk
<1> QED BY <1>2, <1>5, <1>6 DEF QueriesInv

\* A page of a walk from the first one is answered.
LEMMA AnswerPreserves ==
  ASSUME QueriesInv, query.page = 1, NEW count, Answer(Selected(query), count),
         \/ storage = "memory" /\ walk = "ask" /\ count = Len(Selected(query))
         \/ storage # "memory" /\ walk = "select" /\ count = total,
         UNCHANGED <<storage, resource, rows, open, query, wanted, total>>
  PROVE  QueriesInv'
<1> DEFINE n == query.perPage
           L == Selected(query)
           c == Len(L)
           got == Slice(L, page, n)
           start == (page - 1) * n
           end == End(c, page, n)
           last == IF query.byMeta THEN page >= Pages(count, n) ELSE Len(got) < n
<1>1. /\ QueriesTypeOK /\ rows \in Seq(Rows) /\ Len(rows) \in Nat /\ seen \in Seq(Rows)
      /\ n \in Nat \ {0} /\ page \in Nat \ {0}
      /\ start \in Nat /\ page * n = start + n
  BY QueryFacts
<1>2. /\ L \in Seq(Rows)
      /\ ~query.onlyOpen /\ storage = "memory" => L = rows
      /\ ~query.onlyOpen /\ storage # "memory" => IsListing(L, ToSet(rows))
  BY <1>1, SelectedIs
<1>0. start < IntLimit /\ Start(page, n) = start /\ Start(page, n) >= 0
  <2>1. start < IntLimit
    BY TableIsCounted
  <2>2. Start(page, n) = start
    BY <1>1, <2>1, WrapIntKeeps DEF Start
  <2> HIDE DEF start
  <2> QED BY <1>1, <2>1, <2>2
<1>3. /\ seen' = seen \o got
      /\ walk' = IF last THEN "done" ELSE "ask"
      /\ page' = IF last THEN page ELSE page + 1
  <2>1. TakePage(L, count)
    BY <1>0, <1>1 DEF Answer
  <2> QED BY <2>1 DEF TakePage
<1> HIDE DEF L, n
<1>4. IsSlice(got, L, page, n, Rows)
  BY <1>0, <1>1, <1>2, SliceIs
<1>5. c \in Nat
  BY <1>2
<1> HIDE DEF c
<1>6. /\ got = SubSeq(L, start + 1, end) /\ got \in Seq(Rows)
      /\ end \in Nat /\ end <= c
      /\ start <= c => start <= end /\ Len(got) = end - start
      /\ start > c => got = <<>>
  BY <1>4 DEF IsSlice, c
<1>7. end = page * n \/ end = c
  BY DEF End
<1>8. page * n < c => end = page * n
  BY DEF End
<1> HIDE DEF got, start, end
<1>9. seen' \in Seq(Rows) /\ page' \in Nat \ {0} /\ walk' \in {"idle", "ask", "select", "done"}
  <2>1. seen' \in Seq(Rows)
    BY <1>1, <1>3, <1>6
  <2>2. page' \in Nat \ {0} /\ walk' \in {"idle", "ask", "select", "done"}
    BY <1>1, <1>3
  <2> QED BY <2>1, <2>2
<1>10. QueriesTypeOK'
  BY <1>1, <1>9 DEF QueriesTypeOK
<1>11. last => walk' = "done" /\ page' = page
  BY <1>3
<1>12. ~last => walk' = "ask" /\ (page' - 1) * query'.perPage = start + n
  <2>1. ~last => walk' = "ask" /\ page' - 1 = page
    BY <1>1, <1>3
  <2>2. query'.perPage = n
    BY DEF n
  <2> QED BY <1>1, <2>1, <2>2
<1>13. ASSUME storage = "memory", ~query.onlyOpen PROVE MemoryWalk'
  <2>1. /\ L = rows /\ c = Len(rows) /\ count = c
        /\ start <= c /\ seen = SubSeq(rows, 1, start)
    BY <1>2, <1>13 DEF QueriesInv, MemoryWalk, start, n, c, L
  <2>2. seen' = SubSeq(rows, 1, end)
    <3>1. SubSeq(rows, 1, start) \o SubSeq(rows, start + 1, end) = SubSeq(rows, 1, end)
      BY <1>1, <1>6, <2>1, SubSeqJoin
    <3> QED BY <1>3, <1>6, <2>1, <3>1
  <2>3. /\ page >= Pages(c, n) => end = c
        /\ page < Pages(c, n) => end = start + n
    BY <1>1, <1>5, LastPage DEF end
  <2>4. Pages(c, n) \in Nat
    BY <1>1, <1>5, PagesReach
  <2>5. last => end = c
    BY <1>1, <1>5, <1>6, <1>7, <2>1, <2>3
  <2>6. ~last => end = start + n
    <3>1. CASE query.byMeta
      BY <1>1, <2>1, <2>3, <2>4, <3>1
    <3>2. CASE ~query.byMeta
      <4>1. end <= start + n
        BY <1>1, <1>5, <1>7, <1>8
      <4>2. Len(got) = end - start /\ end \in Nat
        BY <1>6, <2>1
      <4> QED BY <1>1, <2>1, <3>2, <4>1, <4>2
    <3> QED BY <3>1, <3>2
  <2>7. CASE last
    <3>1. seen' = rows
      BY <1>1, <2>1, <2>2, <2>5, <2>7
    <3>2. walk' = "done" /\ wanted' = wanted /\ wanted \subseteq ToSet(rows) /\ IsInjective(rows)
      BY <1>11, <2>7 DEF QueriesInv, QueriesTypeOK
    <3> QED BY <3>1, <3>2 DEF MemoryWalk
  <2>8. CASE ~last
    <3>1. (page' - 1) * query'.perPage = end /\ walk' = "ask"
      BY <1>12, <2>6, <2>8
    <3>2. end <= Len(rows)
      BY <1>6, <2>1
    <3> QED BY <2>2, <3>1, <3>2 DEF MemoryWalk
  <2> HIDE DEF last
  <2> QED BY <2>7, <2>8
<1>14. ASSUME storage # "memory", ~query.onlyOpen, ~query.byMeta PROVE PostgresWalk'
  <2>1. /\ IsListing(L, ToSet(rows)) /\ walk = "select"
        /\ \A w \in wanted : w \in ToSet(seen) \/ Newer(w) >= start
    BY <1>2, <1>14 DEF QueriesInv, PostgresWalk, start, n
  <2>2. ToSet(seen') = ToSet(seen) \cup ToSet(got)
    <3>1. seen \in Seq(Rows) /\ got \in Seq(Rows) /\ seen' \in Seq(Rows)
      BY <1>1, <1>6, <1>9
    <3>2. /\ ToSet(seen) = {seen[i] : i \in 1..Len(seen)}
          /\ ToSet(got) = {got[i] : i \in 1..Len(got)}
          /\ ToSet(seen') = {seen'[i] : i \in 1..Len(seen')}
      BY <3>1, ToSetIs
    <3>3. /\ Len(seen') = Len(seen) + Len(got)
          /\ \A i \in 1..Len(seen) : seen'[i] = seen[i]
          /\ \A i \in 1..Len(got) : seen'[Len(seen) + i] = got[i]
      BY <1>3, <3>1
    <3>4. Len(seen) \in Nat /\ Len(got) \in Nat
      BY <3>1
    <3>5. \A i \in 1..Len(seen') : i \in 1..Len(seen) \/ i - Len(seen) \in 1..Len(got)
      BY <3>3, <3>4
    <3>6. ASSUME NEW i \in 1..Len(seen') PROVE seen'[i] \in ToSet(seen) \cup ToSet(got)
      <4>1. CASE i \in 1..Len(seen)
        BY <3>2, <3>3, <4>1
      <4>2. CASE i - Len(seen) \in 1..Len(got)
        <5>1. Len(seen) + (i - Len(seen)) = i
          BY <3>3, <3>4
        <5> QED BY <3>2, <3>3, <4>2, <5>1
      <4> QED BY <3>5, <4>1, <4>2
    <3>7. ASSUME NEW i \in 1..Len(seen) PROVE seen[i] \in ToSet(seen')
      <4>1. i \in 1..Len(seen')
        BY <3>3, <3>4
      <4> QED BY <3>2, <3>3, <4>1
    <3>8. ASSUME NEW i \in 1..Len(got) PROVE got[i] \in ToSet(seen')
      <4>1. Len(seen) + i \in 1..Len(seen')
        BY <3>3, <3>4
      <4> QED BY <3>2, <3>3, <4>1
    <3> QED BY <3>2, <3>6, <3>7, <3>8
  <2>3. ASSUME NEW w \in wanted, w \notin ToSet(seen')
        PROVE  ~last /\ Newer(w) >= start + n
    <3>1. w \in ToSet(rows) /\ Newer(w) >= start
      BY <1>1, <2>1, <2>2, <2>3 DEF QueriesTypeOK
    <3>2. PICK k \in 1..c : L[k] = w
      BY <2>1, <3>1 DEF IsListing, c
    <3>3. Newer(w) = k - 1
      BY <2>1, <3>2 DEF IsListing, Newer, c
    <3>4. start < k /\ k <= c /\ k \in Nat /\ start <= end /\ Len(got) = end - start
      BY <1>1, <1>5, <1>6, <3>1, <3>3
    <3>5. end < k
      <4>1. ASSUME k <= end PROVE FALSE
        <5>1. k - start \in 1..Len(got) /\ start + (k - start) = k
          BY <1>1, <1>6, <3>4, <4>1
        <5>2. got[k - start] = L[k]
          <6>1. start + 1 \in Nat /\ end <= Len(L)
            BY <1>1, <1>6 DEF c
          <6>2. SubSeq(L, start + 1, end)[k - start] = L[k]
            BY <1>1, <1>2, <1>6, <3>4, <5>1, <6>1
          <6> QED BY <1>6, <6>2
        <5>3. w \in ToSet(got)
          <6>1. got \in Seq(Rows)
            BY <1>6
          <6>2. ToSet(got) = {got[i] : i \in 1..Len(got)}
            BY <6>1, ToSetIs
          <6> QED BY <3>2, <5>1, <5>2, <6>2
        <5> QED BY <2>2, <2>3, <5>3
      <4> QED BY <1>6, <3>4, <4>1
    <3>6. end = start + n
      BY <1>1, <1>5, <1>6, <1>7, <3>4, <3>5
    <3>7. ~last
      BY <1>1, <1>14, <3>4, <3>6
    <3>8. Newer(w) >= start + n
      BY <1>1, <3>3, <3>4, <3>5, <3>6
    <3> QED BY <3>7, <3>8
  <2>4. \A w : Newer(w)' = Newer(w)
    BY DEF Newer
  <2>5. CASE last
    <3>1. walk' = "done" /\ wanted' \subseteq ToSet(seen')
      BY <1>11, <2>3, <2>5
    <3> QED BY <3>1 DEF PostgresWalk
  <2>6. CASE ~last
    <3>1. walk' = "ask" /\ (page' - 1) * query'.perPage = start + n
      BY <1>12, <2>6
    <3>2. \A w \in wanted' : w \in ToSet(seen') \/ Newer(w)' >= start + n
      BY <2>3, <2>4
    <3> QED BY <3>1, <3>2 DEF PostgresWalk
  <2> HIDE DEF last
  <2> QED BY <2>5, <2>6
<1>15. MemoryWalk'
  BY <1>13 DEF MemoryWalk
<1>16. PostgresWalk'
  BY <1>14 DEF PostgresWalk
<1>17. walk' \in {"ask", "done"}
  BY <1>3
<1>18. c <= Len(rows) /\ count \in Nat /\ count <= Len(rows)
  <2>1. Len(L) <= Len(rows)
    BY <1>1, SelectedIs DEF L
  <2>2. total \in 0..Len(rows)
    BY <1>1 DEF QueriesTypeOK
  <2> QED BY <1>1, <1>5, <2>1, <2>2 DEF c, L
<1>19. ~last => start + n <= Len(rows)
  <2>1. CASE query.byMeta
    <3>1. /\ page >= Pages(count, n) => End(count, page, n) = count
          /\ page < Pages(count, n) => End(count, page, n) = page * n
      BY <1>1, <1>18, LastPage
    <3>2. End(count, page, n) <= count
      BY <1>1, <1>18 DEF End
    <3>3. Pages(count, n) \in Nat
      BY <1>1, <1>18, PagesReach
    <3> QED BY <1>1, <1>18, <2>1, <3>1, <3>2, <3>3
  <2>2. CASE ~query.byMeta
    <3>1. CASE start <= c
      <4>1. Len(got) = end - start /\ end <= c /\ end \in Nat
        BY <1>6, <3>1
      <4> QED BY <1>1, <1>5, <1>18, <2>2, <4>1
    <3>2. CASE start > c
      <4>1. Len(got) = 0
        BY <1>6, <3>2
      <4> QED BY <1>1, <2>2, <4>1
    <3> QED BY <1>1, <1>5, <3>1, <3>2
  <2> QED BY <2>1, <2>2
<1> HIDE DEF last
<1>20. InTable'
  <2>1. (page' - 1) * query'.perPage <= Len(rows')
    <3>1. CASE last
      <4>1. (page' - 1) * query'.perPage = start
        BY <1>11, <3>1 DEF start, n
      <4>2. start <= Len(rows)
        BY DEF QueriesInv, InTable, start, n
      <4> QED BY <4>1, <4>2
    <3>2. CASE ~last
      BY <1>12, <1>19, <3>2
    <3> QED BY <3>1, <3>2
  <2> QED BY <1>17, <2>1 DEF InTable
<1> QED BY <1>10, <1>15, <1>16, <1>17, <1>20 DEF QueriesInv

LEMMA QueriesInductive == QueriesInv /\ [QueriesNext]_queryVars => QueriesInv'
<1> SUFFICES ASSUME QueriesInv, [QueriesNext]_queryVars PROVE QueriesInv'
  OBVIOUS
<1>0. total \in 0..Len(rows)
  BY DEF QueriesInv, QueriesTypeOK
<1>1. ASSUME NEW o \in Rows, SaveOrder(o) \/ SaveTrade(o) PROVE QueriesInv'
  <2>1. /\ o \notin ToSet(rows) /\ rows' = Append(rows, o)
        /\ open' \in {open, open \cup {o}} /\ UNCHANGED <<storage, resource, clientVars>>
    BY <1>1 DEF SaveOrder, SaveTrade
  <2> QED BY <2>1, RowSavePreserves
<1>2. ASSUME NEW o \in Rows, UpdateOrder(o) PROVE QueriesInv'
  <2>1. /\ UNCHANGED <<storage, resource, rows, query, wanted, seen, page, total, walk>>
        /\ open' \in SUBSET open
    BY <1>2 DEF UpdateOrder, clientVars
  <2> QED BY <1>0, <2>1, QuietWalkPreserves
<1>3. CASE ListOrders \/ ListTrades
  BY <1>3, BeginWalkPreserves DEF ListOrders, ListTrades
<1>4. ASSUME NEW what, FindAll(what) PROVE QueriesInv'
  <2>1. /\ storage = "memory" /\ walk = "ask"
        /\ Answer(Selected(query), Len(Selected(query)))
        /\ UNCHANGED <<storage, resource, rows, open, query, wanted, total>>
    BY <1>4 DEF FindAll
  <2>2. CASE query.page = 1
    BY <2>1, <2>2, AnswerPreserves
  <2>3. CASE query.page # 1
    BY <2>1, <2>3, StrayAnswerPreserves
  <2> QED BY <2>2, <2>3
<1>5. ASSUME NEW what, CountRows(what) PROVE QueriesInv'
  <2>1. /\ UNCHANGED <<storage, resource, rows, query, wanted, seen, page, open>>
        /\ walk = "ask" /\ walk' = "select" /\ storage # "memory"
        /\ total' = Len(Selected(query))
    BY <1>5 DEF CountRows
  <2>2. total' \in 0..Len(rows)
    <3>1. Selected(query) \in Seq(Rows) /\ Len(Selected(query)) <= Len(rows) /\ Len(rows) \in Nat
      BY SelectedIs, QueryFacts
    <3> QED BY <2>1, <3>1
  <2> QED BY <2>1, <2>2, QuietWalkPreserves
<1>6. ASSUME NEW what, SelectPage(what) PROVE QueriesInv'
  <2>1. /\ storage # "memory" /\ walk = "select" /\ Answer(Selected(query), total)
        /\ UNCHANGED <<storage, resource, rows, open, query, wanted, total>>
    BY <1>6 DEF SelectPage, QueriesInv
  <2>2. CASE query.page = 1
    BY <2>1, <2>2, AnswerPreserves
  <2>3. CASE query.page # 1
    BY <2>1, <2>3, StrayAnswerPreserves
  <2> QED BY <2>2, <2>3
<1>7. CASE WalkDone \/ UNCHANGED queryVars
  <2>1. UNCHANGED <<storage, resource, rows, query, wanted, seen, page, total, walk, open>>
    BY <1>7 DEF WalkDone, queryVars
  <2>2. open' \in SUBSET open /\ total' \in 0..Len(rows)
    BY <1>0, <2>1
  <2> QED BY <2>1, <2>2, QuietWalkPreserves
<1> QED BY <1>1, <1>2, <1>3, <1>4, <1>5, <1>6, <1>7
        DEF QueriesNext, FindAllOrders, FindAllTrades, CountOrders, CountTrades,
            SelectOrders, SelectTrades

LEMMA QueriesInvariant == QueriesSpec => []QueriesInv
BY QueriesInitInv, QueriesInductive, PTL DEF QueriesSpec

\* The lists stay well-typed: no count exceeds the table, and the page size a
\* client may send is always brought into range.
THEOREM QueriesTypeCorrect == QueriesSpec => []QueriesTypeOK
<1>1. QueriesInv => QueriesTypeOK
  BY DEF QueriesInv
<1> QED BY <1>1, QueriesInvariant, PTL

\* FindAll and NewMeta: at any moment pages 1 to meta.pages, put one after the
\* other, are the filtered list, for any table, filter and page size.
THEOREM PagesAlwaysTile == QueriesSpec => []PagesTile
<1>1. ASSUME QueriesInv PROVE PagesTile
  <2>1. Selected(query) \in Seq(Rows) /\ query.perPage \in Nat \ {0}
    BY <1>1, SelectedIs, QueryFacts
  <2>2. Len(Selected(query)) < IntLimit
    <3>1. /\ Len(Selected(query)) \in Nat /\ Len(Selected(query)) <= Len(rows)
          /\ Len(rows) \in Nat /\ Len(rows) < IntLimit /\ IntLimit \in Nat
      BY <1>1, <2>1, SelectedIs, TableIsCounted DEF QueriesInv
    <3> QED BY <3>1
  <2> QED BY <2>1, <2>2, Tiling DEF PagesTile
<1> QED BY <1>1, QueriesInvariant, PTL

\* A client that walks an unfiltered list while rows are added and filled misses
\* none that was there when it began (with PostgreSQL: if it reads until a page
\* is short), and from the in-memory store gets none twice.  From the first page
\* on no request fails, although (page - 1) * perPage may wrap around for others.
THEOREM WalksMissNone == QueriesSpec => []WalkMissesNone
<1>1. QueriesInv => WalkMissesNone
  BY DEF QueriesInv, InTable, MemoryWalk, PostgresWalk, WalkMissesNone
<1> QED BY <1>1, QueriesInvariant, PTL

=============================================================================
