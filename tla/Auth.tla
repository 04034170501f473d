-------------------------------- MODULE Auth --------------------------------
(***************************************************************************)
(* User accounts: auth.Service with its two maps, the users table behind   *)
(* it when PostgreSQL is configured, the register and login handlers, the  *)
(* Auth middleware and the start of a server process.  Several servers may *)
(* share the table; each warms its maps from it once, when it starts.      *)
(*                                                                         *)
(* A registration r stands for its request, for the user ID it generates   *)
(* and for the password it chooses.  Request parsing, bcrypt and the JWT   *)
(* encoding are left out: a token is its claims, and a token that has      *)
(* expired is the same as none.                                            *)
(***************************************************************************)
EXTENDS Integers, FiniteSets

CONSTANTS
  Servers,        \* server processes
  Names,          \* usernames
  Registrations,  \* the POST /auth/register requests
  NoUser,         \* absence of a user
  MaxRestarts     \* bound: restarts of server processes

ASSUME AuthAssumption == NoUser \notin Registrations /\ MaxRestarts \in Nat

VARIABLES
  hasDB,     \* authSvc.userRepo # nil
  users,     \* per server: Service.users, name to user
  byID,      \* per server: Service.byID, the IDs known
  table,     \* the users table, name to user
  reg,       \* per registration: where Register is, for which name, on which server
  tokens,    \* the valid tokens there are: user ID and name
  acted,     \* history: user ID and name of the authenticated requests
  restarts   \* number of restarts so far

authVars == <<hasDB, users, byID, table, reg, tokens, acted, restarts>>

NoUsers == [n \in Names |-> NoUser]

AuthInit ==
  /\ hasDB \in BOOLEAN
  /\ users = [v \in Servers |-> NoUsers]
  /\ byID = [v \in Servers |-> {}]
  /\ table = NoUsers
  /\ reg = [r \in Registrations |-> [pc |-> "none"]]
  /\ tokens = {} /\ acted = {} /\ restarts = 0

-----------------------------------------------------------------------------
(***************************************************************************)
(* Register.  Between its steps the lock is free, and others run.          *)
(***************************************************************************)
At(r, pc) == reg' = [reg EXCEPT ![r].pc = pc]

\* 1. The quick check under the read lock; then bcrypt.
RegisterCheck(r, v, n) ==
  /\ reg[r].pc = "none"
  /\ reg' = [reg EXCEPT ![r] = [pc |-> IF users[v][n] = NoUser THEN "hashed" ELSE "exists",
                                server |-> v, name |-> n]]
  /\ UNCHANGED <<hasDB, users, byID, table, tokens, acted, restarts>>

\* Mutant: the upsert of a repository without a unique constraint.
RegisterSaveUpserts(r) ==
  /\ reg[r].pc = "hashed" /\ hasDB
  /\ table' = [table EXCEPT ![reg[r].name] = r]
  /\ At(r, "saved")
  /\ UNCHANGED <<hasDB, users, byID, tokens, acted, restarts>>

\* 3. UserRepo.Save: the INSERT succeeds, hits the unique username, or fails,
\* in which case it may have been committed all the same.
RegisterSave(r) ==
  /\ reg[r].pc = "hashed" /\ hasDB
  /\ \/ /\ table[reg[r].name] = NoUser
        /\ table' = [table EXCEPT ![reg[r].name] = r]
        /\ At(r, "saved") \/ At(r, "failed")
     \/ /\ table[reg[r].name] # NoUser /\ At(r, "exists")
        /\ UNCHANGED table
     \/ At(r, "failed") /\ UNCHANGED table
  /\ UNCHANGED <<hasDB, users, byID, tokens, acted, restarts>>

\* Mutant: the maps are written without looking again.
RegisterInsertBlindly(r) ==
  /\ reg[r].pc = IF hasDB THEN "saved" ELSE "hashed"
  /\ users' = [users EXCEPT ![reg[r].server][reg[r].name] = r]
  /\ byID' = [byID EXCEPT ![reg[r].server] = @ \cup {r}]
  /\ At(r, "registered")
  /\ UNCHANGED <<hasDB, table, tokens, acted, restarts>>

\* 4. Under the write lock: check again, then insert into both maps.
RegisterInsert(r) ==
  /\ reg[r].pc = IF hasDB THEN "saved" ELSE "hashed"
  /\ LET v == reg[r].server
         n == reg[r].name
     IN  IF users[v][n] # NoUser
           THEN At(r, "exists") /\ UNCHANGED <<users, byID>>
           ELSE /\ users' = [users EXCEPT ![v][n] = r]
                /\ byID' = [byID EXCEPT ![v] = @ \cup {r}]
                /\ At(r, "registered")
  /\ UNCHANGED <<hasDB, table, tokens, acted, restarts>>

(***************************************************************************)
(* Login with the password of registration r: it is compared with the user *)
(* the map holds under that name, and the token names that user.           *)
(***************************************************************************)
Accepts(v, n, r) == users[v][n] # NoUser /\ users[v][n] = r
Token(v, n)      == [id |-> users[v][n], name |-> n]

\* The register handler logs the new user in before it answers 201.
AutoLogin(r) ==
  /\ reg[r].pc = "registered"
  /\ IF Accepts(reg[r].server, reg[r].name, r)
       THEN tokens' = tokens \cup {Token(reg[r].server, reg[r].name)} /\ At(r, "created")
       ELSE At(r, "failed") /\ UNCHANGED tokens
  /\ UNCHANGED <<hasDB, users, byID, table, acted, restarts>>

Login(v, n, r) ==
  /\ Accepts(v, n, r)
  /\ tokens' = tokens \cup {Token(v, n)}
  /\ UNCHANGED <<hasDB, users, byID, table, reg, acted, restarts>>

\* Middleware Auth on any server: ValidateToken needs the secret only, not the
\* maps; the request runs as the user the token names.
Authenticate(t) ==
  /\ t \in tokens
  /\ acted' = acted \cup {t}
  /\ UNCHANGED <<hasDB, users, byID, table, reg, tokens, restarts>>

\* JWTExpiry has passed.
ExpireToken(t) ==
  /\ t \in tokens /\ tokens' = tokens \ {t}
  /\ UNCHANGED <<hasDB, users, byID, table, reg, acted, restarts>>

-----------------------------------------------------------------------------
\* UserRepo.FindAll.
FindAllUsers == {table[n] : n \in Names} \ {NoUser}

\* LoadUsers: every row, into both maps; main only warns when it fails.
LoadUsers(v) ==
  \/ /\ hasDB
     /\ users' = [users EXCEPT ![v] = table]
     /\ byID' = [byID EXCEPT ![v] = FindAllUsers]
  \/ /\ users' = [users EXCEPT ![v] = NoUsers]
     /\ byID' = [byID EXCEPT ![v] = {}]

\* The process dies, with its requests, and main starts again.
RestartServer(v) ==
  /\ restarts < MaxRestarts /\ restarts' = restarts + 1
  /\ LoadUsers(v)
  /\ reg' = [r \in Registrations |->
       IF reg[r].pc # "none" /\ reg[r].server = v THEN [reg[r] EXCEPT !.pc = "past"]
       ELSE reg[r]]
  /\ UNCHANGED <<hasDB, table, tokens, acted>>

\* No request is in progress.
AuthQuiet ==
  /\ \A r \in Registrations : reg[r].pc \in {"created", "exists", "failed", "past"}
  /\ UNCHANGED authVars

AuthNext ==
  \/ \E r \in Registrations :
       \/ \E v \in Servers, n \in Names : RegisterCheck(r, v, n) \/ Login(v, n, r)
       \/ RegisterSave(r) \/ RegisterInsert(r) \/ AutoLogin(r)
  \/ \E t \in tokens : Authenticate(t) \/ ExpireToken(t)
  \/ \E v \in Servers : RestartServer(v)
  \/ AuthQuiet

AuthSpec == AuthInit /\ [][AuthNext]_authVars
-----------------------------------------------------------------------------
\* The type invariant.
AuthTypeOK ==
  /\ hasDB \in BOOLEAN /\ restarts \in 0 .. MaxRestarts
  /\ users \in [Servers -> [Names -> Registrations \cup {NoUser}]]
  /\ byID \in [Servers -> SUBSET Registrations]
  /\ table \in [Names -> Registrations \cup {NoUser}]
  /\ reg \in [Registrations ->
       [pc : {"none"}] \cup
       [pc : {"hashed", "saved", "registered", "created", "exists", "failed", "past"},
        server : Servers, name : Names]]
  /\ tokens \cup acted \subseteq [id : Registrations, name : Names]

\* With the users table a name is one user for good: whichever servers took the
\* racing registrations and whatever restarted in between, all requests that
\* ever authenticated under a name acted as the same user ID.
OneUserPerName ==
  hasDB => \A s, t \in acted \cup tokens : s.name = t.name => s.id = t.id

\* Register's two checks and its unlocked middle: a user the server has answered
\* for is in both of its maps as long as the process lives, whoever registers
\* the same name meanwhile; and a row Save has written is never followed by
\* "username already exists".
RegistrationHolds ==
  \A r \in Registrations :
    /\ reg[r].pc \in {"registered", "created"} =>
         users[reg[r].server][reg[r].name] = r /\ r \in byID[reg[r].server]
    /\ reg[r].pc = "saved" =>
         users[reg[r].server][reg[r].name] = NoUser /\ table[reg[r].name] = r

=============================================================================
