------------------------------- MODULE LoginFlow ------------------------------
(***************************************************************************)
(* Signing up, signing in and entering a halls server: login, dbmgr,       *)
(* hallsmgr and halls (src/src/servers).  Users send their requests        *)
(* through one connector.                                                  *)
(*                                                                         *)
(* login and halls keep a request that waits for an answer under the name  *)
(* of its account, and the messages between the servers carry the name     *)
(* only: the answer to one request may be taken for the answer to another. *)
(* The number of a request goes with its messages as a history, to tell    *)
(* them apart; it also stands for the random token halls gives out.        *)
(* A session of the connector is found as long as the connector was not    *)
(* restarted since.                                                        *)
(***************************************************************************)
EXTENDS Integers, Sequences, FiniteSets

CONSTANTS
  Users,        \* each has a password of its own, and one session at a time
  Names,        \* account names
  Halls,
  MaxRequests,  \* bounds the requests to login
  MaxLogins,    \* bounds the requests to halls
  MaxRestarts,  \* bounds the restarts of connector, dbmgr and hallsmgr
  NONE

ASSUME NoneAssumption == NONE \notin Users /\ NONE \notin [id : Nat, epoch : Nat]
ASSUME BoundsAssumption == {MaxRequests, MaxLogins, MaxRestarts} \subseteq Nat

Ids == 1..MaxRequests
Kinds == {"signup", "signin"}

VARIABLES
  asked,      \* the requests to login so far
  told,       \* what a request was answered: for which request, and how
  tokens,     \* the tokens a user was given
  orphans,    \* history: requests login forgot before their own answer came
  pending,    \* pendingAccounts_ of login
  toDb, fromDb,        \* login <-> dbmgr
  toMgr, toLogin,      \* login <-> hallsmgr
  toHalls, fromHalls,  \* hallsmgr <-> halls
  hallsToDb, dbToHalls,
  account,    \* Table_Accounts: whose password an account has
  load,       \* of the halls servers, at hallsmgr
  joined,     \* the halls servers connected to hallsmgr
  waiting,    \* pendingAccounts_ of halls
  players,    \* the objects of halls, named by their token
  mapping,    \* session2PlayerMapping_
  dying,      \* players with a destroy timer
  crashed,    \* halls used a session that was not there
  up,         \* which of dbmgr and hallsmgr login is connected to, halls to dbmgr
  epoch,      \* restarts of connector
  logins, restarts

users == <<asked, told, tokens, orphans>>
dbLine == <<toDb, fromDb>>
mgrLine == <<toMgr, toLogin, toHalls, fromHalls, load, joined>>
hallsDbLine == <<hallsToDb, dbToHalls>>
objects == <<players, mapping, dying>>
bounds == <<epoch, up, restarts>>
vars == <<users, pending, dbLine, mgrLine, hallsDbLine, account, waiting,
          objects, crashed, bounds, logins>>

TypeOK ==
  /\ asked \in Seq([by : Users, name : Names, kind : Kinds]) /\ Len(asked) <= MaxRequests
  /\ told \in [Ids -> Seq([id : Ids, ok : BOOLEAN])]
  /\ tokens \in [Users -> SUBSET Ids] /\ orphans \subseteq Ids
  /\ pending \in [Names -> [id : Ids, epoch : Nat] \cup {NONE}]
  /\ toDb \in Seq(Ids) /\ fromDb \in Seq([id : Ids, ok : BOOLEAN])
  /\ toMgr \in Seq(Ids) /\ toLogin \in Seq([id : Ids, ok : BOOLEAN])
  /\ toHalls \in [Halls -> Seq(Ids)]
  /\ fromHalls \in [Halls -> Seq([id : Ids, ok : BOOLEAN])]
  /\ hallsToDb \in [Halls -> Seq(Names)]
  /\ dbToHalls \in [Halls -> Seq([name : Names, ok : BOOLEAN])]
  /\ account \in [Names -> Users \cup {NONE}]
  /\ load \in [Halls -> Nat] /\ joined \subseteq Halls
  /\ waiting \in [Halls -> [Names -> [token : Ids, by : Users \cup {NONE}, epoch : Nat] \cup {NONE}]]
  /\ players \in [Halls -> SUBSET [token : Ids, by : Users]]
  /\ mapping \in [Halls -> [Users -> Ids \cup {0}]]
  /\ dying \in [Halls -> SUBSET Ids]
  /\ crashed \subseteq Halls /\ up \subseteq {"dbmgr", "hallsmgr"}
  /\ epoch \in Nat /\ logins \in 0..MaxLogins /\ restarts \in 0..MaxRestarts

Init ==
  /\ asked = <<>> /\ told = [r \in Ids |-> <<>>]
  /\ tokens = [u \in Users |-> {}] /\ orphans = {}
  /\ pending = [n \in Names |-> NONE]
  /\ toDb = <<>> /\ fromDb = <<>> /\ toMgr = <<>> /\ toLogin = <<>>
  /\ toHalls = [h \in Halls |-> <<>>] /\ fromHalls = [h \in Halls |-> <<>>]
  /\ hallsToDb = [h \in Halls |-> <<>>] /\ dbToHalls = [h \in Halls |-> <<>>]
  /\ account = [n \in Names |-> NONE]
  /\ load = [h \in Halls |-> 0] /\ joined = {}
  /\ waiting = [h \in Halls |-> [n \in Names |-> NONE]]
  /\ players = [h \in Halls |-> {}] /\ dying = [h \in Halls |-> {}]
  /\ mapping = [h \in Halls |-> [u \in Users |-> 0]]
  /\ crashed = {} /\ up = {"dbmgr", "hallsmgr"}
  /\ epoch = 0 /\ logins = 0 /\ restarts = 0

NameOf(id) == asked[id].name
-------------------------------------------------------------------------------
(* login *)

\* The entry of n goes; its own answer, if it is not id, finds nothing more.
delPendingAccount(n, id) ==
  /\ pending' = [pending EXCEPT ![n] = NONE]
  /\ orphans' = IF pending[n] = NONE \/ pending[n].id = id THEN orphans
                ELSE orphans \cup {pending[n].id}

\* Mutant: an entry that is there is replaced.
addPendingAccount_replaces(n, id) ==
  pending' = [pending EXCEPT ![n] = [id |-> id, epoch |-> epoch]] /\ UNCHANGED orphans

addPendingAccount(n, id) ==
  /\ pending[n] = NONE
  /\ pending' = [pending EXCEPT ![n] = [id |-> id, epoch |-> epoch]]
  /\ UNCHANGED orphans

Tell(r, id, ok) == told' = [told EXCEPT ![r] = Append(@, [id |-> id, ok |-> ok])]

\* signup and signin: dbmgr is asked, unless it is missing or the name has an
\* entry; then the request is refused, and sendFailed deletes that entry, too.
Request(u, n, kind) ==
  LET r == Len(asked) + 1 IN
  /\ r <= MaxRequests
  /\ asked' = Append(asked, [by |-> u, name |-> n, kind |-> kind])
  /\ \/ /\ "dbmgr" \in up
        /\ addPendingAccount(n, r)
        /\ toDb' = Append(toDb, r)
        /\ UNCHANGED told
     \/ /\ "dbmgr" \notin up \/ pending[n] # NONE
        /\ Tell(r, r, FALSE)
        /\ delPendingAccount(n, r)
        /\ UNCHANGED toDb
  /\ UNCHANGED <<tokens, fromDb, mgrLine, hallsDbLine, account, waiting, objects,
                 crashed, bounds, logins>>

\* Mutant: an answer does not end the wait.
Answer_keepsEntry(n, id, ok) ==
  /\ IF pending[n].epoch = epoch THEN Tell(pending[n].id, id, ok) ELSE UNCHANGED told
  /\ UNCHANGED <<pending, orphans>>

\* Whoever waits under the name is answered, if its connector is still there.
Answer(n, id, ok) ==
  /\ IF pending[n].epoch = epoch THEN Tell(pending[n].id, id, ok) ELSE UNCHANGED told
  /\ delPendingAccount(n, id)

\* onSessionSignupCB, and onSessionSigninCB with an error.
Answered(id) == asked[id].kind = "signup" \/ ~Head(fromDb).ok
onSessionSignupCB ==
  /\ fromDb # <<>>
  /\ LET id == Head(fromDb).id IN
       /\ Answered(id)
       /\ IF pending[NameOf(id)] = NONE THEN UNCHANGED <<told, pending, orphans>>
          ELSE Answer(NameOf(id), id, Head(fromDb).ok)
  /\ fromDb' = Tail(fromDb)
  /\ UNCHANGED <<asked, tokens, toDb, mgrLine, hallsDbLine, account, waiting,
                 objects, crashed, bounds, logins>>

\* The password is right: hallsmgr is asked for a halls server.  If it is missing
\* nobody is told, and the entry waits for its timeout.
onSessionSigninCB ==
  /\ fromDb # <<>> /\ ~Answered(Head(fromDb).id)
  /\ LET id == Head(fromDb).id IN
       toMgr' = IF pending[NameOf(id)] # NONE /\ "hallsmgr" \in up
                THEN Append(toMgr, id) ELSE toMgr
  /\ fromDb' = Tail(fromDb)
  /\ UNCHANGED <<users, pending, toDb, toLogin, toHalls, fromHalls, load, joined,
                 hallsDbLine, account, waiting, objects, crashed, bounds, logins>>

\* After an error the entry is freed before the answer is built from it: what is
\* left of the requestor in it may be that or not.
onSessionRequestAllocClientCB ==
  /\ toLogin # <<>>
  /\ LET id == Head(toLogin).id
         n == NameOf(id)
         ok == Head(toLogin).ok
     IN \/ pending[n] = NONE /\ UNCHANGED <<told, tokens, pending, orphans>>
        \/ /\ pending[n] # NONE
           /\ Answer(n, id, ok)
           /\ tokens' = IF ok /\ pending[n].epoch = epoch
                        THEN [tokens EXCEPT ![asked[pending[n].id].by] = @ \cup {id}]
                        ELSE tokens
        \/ /\ pending[n] # NONE /\ ~ok
           /\ delPendingAccount(n, id)
           /\ UNCHANGED <<told, tokens>>
  /\ toLogin' = Tail(toLogin)
  /\ UNCHANGED <<asked, dbLine, toMgr, toHalls, fromHalls, load, joined, hallsDbLine,
                 account, waiting, objects, crashed, bounds, logins>>

\* onHeartbeatTick: an answer is not there after 15 s.
LoginTimeout(n) ==
  /\ pending[n] # NONE
  /\ pending' = [pending EXCEPT ![n] = NONE]
  /\ orphans' = orphans \cup {pending[n].id}
  /\ UNCHANGED <<asked, told, tokens, dbLine, mgrLine, hallsDbLine, account,
                 waiting, objects, crashed, bounds, logins>>
-------------------------------------------------------------------------------
(* dbmgr *)

\* Names are unique in the table.  Any access to the database may fail.
writeAccount ==
  /\ toDb # <<>> /\ asked[Head(toDb)].kind = "signup"
  /\ LET id == Head(toDb)
         n == NameOf(id)
     IN \/ /\ account[n] = NONE
           /\ account' = [account EXCEPT ![n] = asked[id].by]
           /\ fromDb' = Append(fromDb, [id |-> id, ok |-> TRUE])
        \/ fromDb' = Append(fromDb, [id |-> id, ok |-> FALSE]) /\ UNCHANGED account
  /\ toDb' = Tail(toDb)
  /\ UNCHANGED <<users, pending, mgrLine, hallsDbLine, waiting, objects, crashed,
                 bounds, logins>>

\* For login: the account is there and has this password.
queryAccount ==
  /\ toDb # <<>> /\ asked[Head(toDb)].kind = "signin"
  /\ LET id == Head(toDb) IN
       \E ok \in {FALSE, account[NameOf(id)] = asked[id].by} :
         fromDb' = Append(fromDb, [id |-> id, ok |-> ok])
  /\ toDb' = Tail(toDb)
  /\ UNCHANGED <<users, pending, mgrLine, hallsDbLine, account, waiting, objects,
                 crashed, bounds, logins>>

\* For halls: the account is there.
queryAccountForHalls(h) ==
  /\ hallsToDb[h] # <<>>
  /\ LET n == Head(hallsToDb[h]) IN
       \E ok \in {FALSE, account[n] # NONE} :
         dbToHalls' = [dbToHalls EXCEPT ![h] = Append(@, [name |-> n, ok |-> ok])]
  /\ hallsToDb' = [hallsToDb EXCEPT ![h] = Tail(@)]
  /\ UNCHANGED <<users, pending, dbLine, mgrLine, account, waiting, objects,
                 crashed, bounds, logins>>
-------------------------------------------------------------------------------
(* hallsmgr *)

findBestServer == {h \in joined : \A g \in joined : load[h] <= load[g]}

\* The connected halls server with the smallest load is asked; there may be none.
allocClient ==
  /\ toMgr # <<>>
  /\ toMgr' = Tail(toMgr)
  /\ \/ \E h \in findBestServer :
          /\ load' = [load EXCEPT ![h] = @ + 1]
          /\ toHalls' = [toHalls EXCEPT ![h] = Append(@, Head(toMgr))]
          /\ UNCHANGED toLogin
     \/ /\ findBestServer = {}
        /\ toLogin' = Append(toLogin, [id |-> Head(toMgr), ok |-> FALSE])
        /\ UNCHANGED <<load, toHalls>>
  /\ UNCHANGED <<users, pending, dbLine, fromHalls, joined, hallsDbLine, account,
                 waiting, objects, crashed, bounds, logins>>

\* The answer of halls goes on to login.
allocClientCB(h) ==
  /\ fromHalls[h] # <<>>
  /\ toLogin' = Append(toLogin, Head(fromHalls[h]))
  /\ fromHalls' = [fromHalls EXCEPT ![h] = Tail(@)]
  /\ UNCHANGED <<users, pending, dbLine, toMgr, toHalls, load, joined, hallsDbLine, account,
                 waiting, objects, crashed, bounds, logins>>
-------------------------------------------------------------------------------
(* halls *)

Forget(h, n) == waiting' = [waiting EXCEPT ![h][n] = NONE]

\* A token is given out, unless no connector was found yet or the account has one.
onSessionRequestAllocClient(h) ==
  /\ toHalls[h] # <<>>
  /\ LET id == Head(toHalls[h])
         n == NameOf(id)
         Reply(ok) == fromHalls' =
           [fromHalls EXCEPT ![h] = Append(@, [id |-> id, ok |-> ok])]
     IN \/ Reply(FALSE) /\ UNCHANGED waiting
        \/ /\ waiting[h][n] = NONE /\ Reply(TRUE)
           /\ waiting' = [waiting EXCEPT ![h][n] = [token |-> id, by |-> NONE, epoch |-> epoch]]
  /\ toHalls' = [toHalls EXCEPT ![h] = Tail(@)]
  /\ UNCHANGED <<users, pending, dbLine, toMgr, toLogin, load, joined, hallsDbLine,
                 account, objects, crashed, bounds, logins>>

\* Tokens a user may present: one it was given, or a wrong one.
Presents(u) == tokens[u] \cup {0}

\* Mutant: the token is not looked at.
onSessionLogin_noToken(u, h, n) ==
  /\ logins < MaxLogins /\ logins' = logins + 1 /\ h \notin crashed
  /\ LET fits == waiting[h][n] # NONE /\ "dbmgr" \in up
     IN IF fits THEN /\ waiting' = [waiting EXCEPT ![h][n].by = u, ![h][n].epoch = epoch]
                     /\ hallsToDb' = [hallsToDb EXCEPT ![h] = Append(@, n)]
        ELSE Forget(h, n) /\ UNCHANGED hallsToDb
  /\ UNCHANGED <<users, pending, dbLine, mgrLine, dbToHalls, account, objects,
                 crashed, bounds>>

\* With the token of the account the user becomes its requestor and dbmgr is
\* asked; in every other case the account loses its token.
onSessionLogin(u, h, n) ==
  /\ logins < MaxLogins /\ logins' = logins + 1 /\ h \notin crashed
  /\ \E t \in Presents(u) :
       LET fits == waiting[h][n] # NONE /\ t # 0 /\ waiting[h][n].token = t /\ "dbmgr" \in up
       IN IF fits THEN /\ waiting' = [waiting EXCEPT ![h][n].by = u, ![h][n].epoch = epoch]
                       /\ hallsToDb' = [hallsToDb EXCEPT ![h] = Append(@, n)]
          ELSE Forget(h, n) /\ UNCHANGED hallsToDb
  /\ UNCHANGED <<users, pending, dbLine, mgrLine, dbToHalls, account, objects,
                 crashed, bounds>>

\* onSessionLogin with a player id: the session is mapped to the object, whose
\* destroy timer goes on; a wrong id or token costs the account its token.
onSessionLoginAgain(u, h, n) ==
  /\ logins < MaxLogins /\ logins' = logins + 1 /\ h \notin crashed
  /\ \/ \E p \in players[h] :
          /\ p.token \in Presents(u)
          /\ mapping' = [mapping EXCEPT ![h][u] = p.token]
          /\ UNCHANGED waiting
     \/ Forget(h, n) /\ UNCHANGED mapping
  /\ UNCHANGED <<users, pending, dbLine, mgrLine, hallsDbLine, account, players,
                 dying, crashed, bounds>>

\* Mutant: the session of the connector is not looked for.
onSessionQueryAccountCB_anySession(h) ==
  /\ dbToHalls[h] # <<>>
  /\ dbToHalls' = [dbToHalls EXCEPT ![h] = Tail(@)]
  /\ LET n == Head(dbToHalls[h]).name
         e == waiting[h][n]
     IN \/ e = NONE /\ UNCHANGED <<waiting, players, mapping>>
        \/ /\ e # NONE
           /\ players' = [players EXCEPT ![h] = @ \cup {[token |-> e.token, by |-> e.by]}]
           /\ Forget(h, n) /\ UNCHANGED mapping
  /\ UNCHANGED <<users, pending, dbLine, mgrLine, hallsToDb, account, dying,
                 crashed, bounds, logins>>

\* The answer of dbmgr makes whoever waits under the name a player, if there is an
\* account and the connector the user came through is still there.
onSessionQueryAccountCB(h) ==
  /\ dbToHalls[h] # <<>>
  /\ dbToHalls' = [dbToHalls EXCEPT ![h] = Tail(@)]
  /\ LET n == Head(dbToHalls[h]).name
         e == waiting[h][n]
     IN \/ e = NONE /\ UNCHANGED <<waiting, players, mapping>>
        \/ /\ e # NONE /\ e.by # NONE /\ e.epoch = epoch
           /\ IF Head(dbToHalls[h]).ok
              THEN /\ players' = [players EXCEPT ![h] = @ \cup {[token |-> e.token, by |-> e.by]}]
                   /\ mapping' = [mapping EXCEPT ![h][e.by] = e.token]
              ELSE UNCHANGED <<players, mapping>>
           /\ Forget(h, n)
  /\ UNCHANGED <<users, pending, dbLine, mgrLine, hallsToDb, account, dying,
                 crashed, bounds, logins>>

\* Nobody has logged in under the name since it got its token, or the connector
\* is gone: halls uses a session that is not there, and with it goes all it kept.
Crash(h) ==
  /\ dbToHalls[h] # <<>>
  /\ LET e == waiting[h][Head(dbToHalls[h]).name]
     IN e # NONE /\ (e.by = NONE \/ e.epoch # epoch)
  /\ crashed' = crashed \cup {h} /\ joined' = joined \ {h}
  /\ waiting' = [waiting EXCEPT ![h] = [n \in Names |-> NONE]]
  /\ players' = [players EXCEPT ![h] = {}] /\ dying' = [dying EXCEPT ![h] = {}]
  /\ mapping' = [mapping EXCEPT ![h] = [u \in Users |-> 0]]
  /\ toHalls' = [toHalls EXCEPT ![h] = <<>>] /\ fromHalls' = [fromHalls EXCEPT ![h] = <<>>]
  /\ hallsToDb' = [hallsToDb EXCEPT ![h] = <<>>] /\ dbToHalls' = [dbToHalls EXCEPT ![h] = <<>>]
  /\ UNCHANGED <<users, pending, dbLine, toMgr, toLogin, load, account, bounds, logins>>

\* onHeartbeatTick: a token is used within 15 s or gone.
HallsTimeout(h, n) ==
  /\ waiting[h][n] # NONE
  /\ Forget(h, n)
  /\ UNCHANGED <<users, pending, dbLine, mgrLine, hallsDbLine, account, objects,
                 crashed, bounds, logins>>

\* onSessionRemoteDisconnected: the player gets its destroy timer.
onClientDisconnected(u, h) ==
  /\ mapping[h][u] # 0
  /\ dying' = [dying EXCEPT ![h] = @ \cup {mapping[h][u]}]
  /\ mapping' = [mapping EXCEPT ![h][u] = 0]
  /\ UNCHANGED <<users, pending, dbLine, mgrLine, hallsDbLine, account, waiting,
                 players, crashed, bounds, logins>>

onDestroyTimer(h) ==
  /\ \E p \in players[h] :
       /\ p.token \in dying[h]
       /\ players' = [players EXCEPT ![h] = @ \ {p}]
       /\ dying' = [dying EXCEPT ![h] = @ \ {p.token}]
  /\ UNCHANGED <<users, pending, dbLine, mgrLine, hallsDbLine, account, waiting,
                 mapping, crashed, bounds, logins>>
-------------------------------------------------------------------------------
(* Restarts *)

\* Every session of the connector is lost, at login and at halls; its users come
\* back with new ones.
ConnectorRestart ==
  /\ restarts < MaxRestarts /\ restarts' = restarts + 1
  /\ epoch' = epoch + 1
  /\ dying' = [h \in Halls |-> (dying[h] \cup {mapping[h][u] : u \in Users}) \ {0}]
  /\ mapping' = [h \in Halls |-> [u \in Users |-> 0]]
  /\ UNCHANGED <<users, pending, dbLine, mgrLine, hallsDbLine, account, waiting,
                 players, crashed, up, logins>>

\* dbmgr goes with all that is on its way; the tables stay.
DbmgrExit ==
  /\ "dbmgr" \in up /\ restarts < MaxRestarts /\ restarts' = restarts + 1
  /\ up' = up \ {"dbmgr"}
  /\ toDb' = <<>> /\ fromDb' = <<>>
  /\ hallsToDb' = [h \in Halls |-> <<>>] /\ dbToHalls' = [h \in Halls |-> <<>>]
  /\ UNCHANGED <<users, pending, mgrLine, account, waiting, objects, crashed, epoch, logins>>

HallsmgrExit ==
  /\ "hallsmgr" \in up /\ restarts < MaxRestarts /\ restarts' = restarts + 1
  /\ up' = up \ {"hallsmgr"}
  /\ toMgr' = <<>> /\ toLogin' = <<>> /\ UNCHANGED load
  /\ toHalls' = [h \in Halls |-> <<>>] /\ fromHalls' = [h \in Halls |-> <<>>]
  /\ joined' = {}
  /\ UNCHANGED <<users, pending, dbLine, hallsDbLine, account, waiting, objects,
                 crashed, epoch, logins>>

HallsJoins(h) ==
  /\ "hallsmgr" \in up /\ h \notin joined \cup crashed
  /\ joined' = joined \cup {h} /\ load' = [load EXCEPT ![h] = 0]
  /\ UNCHANGED <<users, pending, dbLine, toMgr, toLogin, toHalls, fromHalls,
                 hallsDbLine, account, waiting, objects, crashed, bounds, logins>>

onServerJoined(s) ==
  /\ s \notin up /\ up' = up \cup {s}
  /\ UNCHANGED <<users, pending, dbLine, mgrLine, hallsDbLine, account, waiting,
                 objects, crashed, epoch, restarts, logins>>
-------------------------------------------------------------------------------
Login ==
  \/ \E u \in Users, n \in Names, kind \in Kinds : Request(u, n, kind)
  \/ onSessionSignupCB \/ onSessionSigninCB \/ onSessionRequestAllocClientCB
  \/ \E n \in Names : LoginTimeout(n)
Dbmgr == writeAccount \/ queryAccount \/ \E h \in Halls : queryAccountForHalls(h)
Hallsmgr == allocClient \/ \E h \in Halls : allocClientCB(h)
HallsServer(h) ==
  \/ onSessionRequestAllocClient(h) \/ onSessionQueryAccountCB(h) \/ Crash(h)
  \/ onDestroyTimer(h)
  \/ \E n \in Names : HallsTimeout(h, n)
  \/ \E u \in Users, n \in Names : onSessionLogin(u, h, n) \/ onSessionLoginAgain(u, h, n)
  \/ \E u \in Users : onClientDisconnected(u, h)
Restart == (\E h \in Halls : HallsJoins(h)) \/ ConnectorRestart \/ DbmgrExit \/ HallsmgrExit
             \/ \E s \in {"dbmgr", "hallsmgr"} : onServerJoined(s)
Next == Login \/ Dbmgr \/ Hallsmgr \/ (\E h \in Halls : HallsServer(h)) \/ Restart

Spec == Init /\ [][Next]_vars
-------------------------------------------------------------------------------
(* Properties *)

\* However the answers are mixed up, a request to login gets one at most.
AtMostOneAnswer == \A r \in Ids : Len(told[r]) <= 1

\* A request is answered with the answer to another one only if login had
\* forgotten that one: it timed out, a second request for its name was refused,
\* or it was itself answered with a third one.
OwnAnswers ==
  \A r \in Ids : \A i \in DOMAIN told[r] : told[r][i].id \in {r} \cup orphans

\* A session plays a player only if its user was given the token that halls gave
\* out for the account of that player.
PlayersHadToken ==
  \A h \in Halls :
    /\ \A p \in players[h] : p.token \in tokens[p.by]
    /\ \A u \in Users : mapping[h][u] \in tokens[u] \cup {0}

===============================================================================
