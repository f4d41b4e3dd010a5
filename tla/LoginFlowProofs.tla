--------------------------- MODULE LoginFlowProofs ---------------------------
(***************************************************************************)
(* Theorems about LoginFlow, for any users, names and halls servers, and   *)
(* however many requests, logins and restarts.                             *)
(***************************************************************************)
EXTENDS LoginFlow, TLAPS

Made == 1..Len(asked)
Reply == [id : Made, ok : BOOLEAN]

\* Only requests that were made are on their way and wait.
OnTheirWay ==
  /\ toDb \in Seq(Made) /\ fromDb \in Seq(Reply)
  /\ toMgr \in Seq(Made) /\ toLogin \in Seq(Reply)
  /\ toHalls \in [Halls -> Seq(Made)] /\ fromHalls \in [Halls -> Seq(Reply)]
  /\ pending \in [Names -> [id : Made, epoch : Nat] \cup {NONE}]

\* An entry of login is that of an unanswered request for its name.
EntryIsOpen ==
  /\ \A n \in Names : pending[n] # NONE =>
       asked[pending[n].id].name = n /\ told[pending[n].id] = <<>>
  /\ \A r \in Ids \ Made : told[r] = <<>>

\* Who logs in under a name was given the token of the entry.
WaitingHasToken ==
  \A h \in Halls, n \in Names : LET e == waiting[h][n] IN
    e # NONE /\ e.by # NONE => e.token \in tokens[e.by]

Inv == TypeOK /\ OnTheirWay /\ EntryIsOpen /\ AtMostOneAnswer /\ WaitingHasToken /\ PlayersHadToken

\* A longer set of numbers holds the shorter sequences.
LEMMA SeqGrows == ASSUME NEW S, NEW T, S \subseteq T, NEW q \in Seq(S) PROVE q \in Seq(T)
  OBVIOUS

\* Elements of sequences, and what is left and added.
LEMMA ElementIn == ASSUME NEW S, NEW q \in Seq(S), NEW i \in 1..Len(q) PROVE q[i] \in S
  OBVIOUS

LEMMA Nothing == ASSUME NEW S PROVE <<>> \in Seq(S)
  OBVIOUS

LEMMA TakeFirst ==
  ASSUME NEW S, NEW q \in Seq(S), q # <<>> PROVE Head(q) \in S /\ Tail(q) \in Seq(S)
  OBVIOUS

LEMMA AddLast ==
  ASSUME NEW S, NEW q \in Seq(S), NEW x \in S
  PROVE /\ Append(q, x) \in Seq(S) /\ Len(Append(q, x)) = Len(q) + 1
        /\ \A i \in 1..Len(q) : Append(q, x)[i] = q[i]
        /\ Append(q, x)[Len(q) + 1] = x
  OBVIOUS

\* One entry of a table of tables is set.
LEMMA SetEntry ==
  ASSUME NEW H, NEW U, NEW S, NEW f \in [H -> [U -> S]], NEW h \in H, NEW u \in U, NEW x \in S
  PROVE /\ [f EXCEPT ![h][u] = x] \in [H -> [U -> S]]
        /\ \A g \in H, v \in U :
             [f EXCEPT ![h][u] = x][g][v] = IF g = h /\ v = u THEN x ELSE f[g][v]
  OBVIOUS

\* Inv holds when nothing was asked.
LEMMA InitInv == Init => Inv
<1> SUFFICES ASSUME Init PROVE Inv
  OBVIOUS
<1> USE NoneAssumption, BoundsAssumption DEF Init, Ids, Made, Reply
<1>1. TypeOK
  BY DEF TypeOK
<1>2. OnTheirWay
  BY DEF OnTheirWay
<1>3. EntryIsOpen /\ AtMostOneAnswer
  BY DEF EntryIsOpen, AtMostOneAnswer
<1>4. WaitingHasToken /\ PlayersHadToken
  BY DEF WaitingHasToken, PlayersHadToken
<1>5. QED
  BY <1>1, <1>2, <1>3, <1>4 DEF Inv

\* What a request that was made says.
LEMMA Asked ==
  ASSUME Inv, NEW id \in Made
  PROVE /\ NameOf(id) \in Names /\ asked[id].by \in Users /\ asked[id].kind \in Kinds
        /\ id \in Ids
<1>1. /\ asked \in Seq([by : Users, name : Names, kind : Kinds]) /\ Len(asked) <= MaxRequests
      /\ MaxRequests \in Nat
  BY BoundsAssumption DEF Inv, TypeOK
<1>2. asked[id] \in [by : Users, name : Names, kind : Kinds]
  BY <1>1, ElementIn DEF Made
<1>3. id \in Ids
  BY <1>1 DEF Made, Ids
<1>4. QED
  BY <1>2, <1>3 DEF NameOf

\* What login keeps stays right as long as it is left alone.
LEMMA EntriesKept ==
  ASSUME Inv, UNCHANGED <<asked, told, pending>>
  PROVE EntryIsOpen' /\ AtMostOneAnswer'
  BY DEF Inv, EntryIsOpen, AtMostOneAnswer, Made

\* So does what halls keeps.
LEMMA PlayersKept ==
  ASSUME Inv, UNCHANGED <<tokens, waiting, players, mapping>>
  PROVE WaitingHasToken' /\ PlayersHadToken'
  BY DEF Inv, WaitingHasToken, PlayersHadToken

LEMMA Stutter == ASSUME Inv, UNCHANGED vars PROVE Inv'
<1> USE DEF Inv, vars, users, dbLine, mgrLine, hallsDbLine, objects, bounds
<1>1. TypeOK'
  BY DEF TypeOK
<1>2. OnTheirWay'
  BY DEF OnTheirWay, Made, Reply
<1>3. QED
  BY <1>1, <1>2, EntriesKept, PlayersKept

-------------------------------------------------------------------------------
(* login *)

LEMMA RequestInv ==
  ASSUME Inv, NEW u \in Users, NEW n \in Names, NEW kind \in Kinds, Request(u, n, kind)
  PROVE Inv'
<1> DEFINE r == Len(asked) + 1
<1> USE NoneAssumption, BoundsAssumption
<1>0. /\ asked \in Seq([by : Users, name : Names, kind : Kinds]) /\ Len(asked) <= MaxRequests
      /\ MaxRequests \in Nat /\ told \in [Ids -> Seq([id : Ids, ok : BOOLEAN])]
      /\ orphans \subseteq Ids /\ epoch \in Nat
      /\ pending \in [Names -> [id : Made, epoch : Nat] \cup {NONE}]
      /\ Made \subseteq Ids
  <2>1. asked \in Seq([by : Users, name : Names, kind : Kinds]) /\ Len(asked) \in Nat
    BY DEF Inv, TypeOK
  <2>2. Made \subseteq Ids
    BY <2>1 DEF Inv, TypeOK, Made, Ids
  <2>3. QED
    BY <2>1, <2>2 DEF Inv, TypeOK, OnTheirWay
<1>1. /\ r \in Ids /\ r \notin Made /\ told[r] = <<>>
      /\ asked' = Append(asked, [by |-> u, name |-> n, kind |-> kind])
      /\ Len(asked') = r /\ Made' = Made \cup {r}
      /\ \A i \in Made : asked'[i] = asked[i]
      /\ asked'[r].name = n
  BY <1>0 DEF Inv, Request, Ids, Made, EntryIsOpen
<1>2. toDb' \in Seq(Made') /\ toDb' \in Seq(Ids)
  <2>1. toDb \in Seq(Made') /\ toDb \in Seq(Ids)
    BY <1>1, SeqGrows DEF Inv, OnTheirWay, TypeOK
  <2>2. toDb' = toDb \/ toDb' = Append(toDb, r)
    BY DEF Request
  <2>3. r \in Made'
    BY <1>1
  <2>4. Append(toDb, r) \in Seq(Made') /\ Append(toDb, r) \in Seq(Ids)
    <3>1. Append(toDb, r) \in Seq(Made')
      BY <2>1, <2>3, AddLast
    <3>2. Append(toDb, r) \in Seq(Ids)
      BY <1>1, <2>1, AddLast
    <3>3. QED
      BY <3>1, <3>2
  <2>5. QED
    BY <2>1, <2>2, <2>4
<1>3. pending' \in [Names -> [id : Made', epoch : Nat] \cup {NONE}]
  <2>1. pending \in [Names -> [id : Made', epoch : Nat] \cup {NONE}]
    BY <1>0, <1>1
  <2>2. [id |-> r, epoch |-> epoch] \in [id : Made', epoch : Nat]
    BY <1>0, <1>1
  <2>3. QED
    BY <2>1, <2>2 DEF Request, addPendingAccount, delPendingAccount
<1>4. TypeOK'
  <2>1. asked' \in Seq([by : Users, name : Names, kind : Kinds]) /\ Len(asked') <= MaxRequests
    <3>1. [by |-> u, name |-> n, kind |-> kind] \in [by : Users, name : Names, kind : Kinds]
      OBVIOUS
    <3>2. QED
      BY <1>0, <1>1, <3>1, AddLast DEF Ids
  <2>2. told' \in [Ids -> Seq([id : Ids, ok : BOOLEAN])]
    <3>1. [id |-> r, ok |-> FALSE] \in [id : Ids, ok : BOOLEAN]
      BY <1>1
    <3>2. Append(told[r], [id |-> r, ok |-> FALSE]) \in Seq([id : Ids, ok : BOOLEAN])
      BY <1>0, <1>1, <3>1, AddLast
    <3>3. QED
      BY <1>0, <3>2 DEF Request, Tell
  <2>3. orphans' \subseteq Ids
    <3>1. pending[n] # NONE => pending[n].id \in Ids
      BY <1>0
    <3>2. QED
      BY <1>0, <3>1 DEF Request, addPendingAccount, delPendingAccount
  <2>4. pending' \in [Names -> [id : Ids, epoch : Nat] \cup {NONE}]
    <3>1. Made' \subseteq Ids
      BY <1>0, <1>1
    <3>2. QED
      BY <1>3, <3>1
  <2>5. QED
    BY <1>2, <2>1, <2>2, <2>3, <2>4
    DEF Inv, TypeOK, Request, mgrLine, hallsDbLine, objects, bounds
<1>5. OnTheirWay'
  <2>1. Reply \subseteq Reply' /\ Made \subseteq Made'
    BY <1>1 DEF Reply
  <2>2. /\ fromDb \in Seq(Reply') /\ toMgr \in Seq(Made') /\ toLogin \in Seq(Reply')
        /\ \A h \in Halls : toHalls[h] \in Seq(Made') /\ fromHalls[h] \in Seq(Reply')
    BY <2>1, SeqGrows DEF Inv, OnTheirWay
  <2>3. toHalls \in [Halls -> Seq(Made')] /\ fromHalls \in [Halls -> Seq(Reply')]
    BY <2>2 DEF Inv, OnTheirWay
  <2>4. QED
    BY <1>2, <1>3, <2>2, <2>3 DEF OnTheirWay, Request, mgrLine
<1>6. EntryIsOpen' /\ AtMostOneAnswer'
  <2>1. CASE toDb' = Append(toDb, r) /\ UNCHANGED told /\ addPendingAccount(n, r)
    <3>1. AtMostOneAnswer'
      BY <2>1 DEF Inv, AtMostOneAnswer
    <3>2. \A r2 \in Ids \ Made' : told'[r2] = <<>>
      BY <1>1, <2>1 DEF Inv, EntryIsOpen
    <3>3. ASSUME NEW m \in Names, pending'[m] # NONE
          PROVE asked'[pending'[m].id].name = m /\ told'[pending'[m].id] = <<>>
      <4>1. CASE m = n
        BY <1>1, <2>1, <4>1 DEF Inv, TypeOK, addPendingAccount
      <4>2. CASE m # n
        <5>1. pending'[m] = pending[m] /\ pending[m].id \in Made
          BY <2>1, <3>3, <4>2 DEF Inv, OnTheirWay, addPendingAccount
        <5>2. QED
          BY <1>1, <2>1, <3>3, <5>1 DEF Inv, EntryIsOpen
      <4>3. QED
        BY <4>1, <4>2
    <3>4. QED
      BY <3>1, <3>2, <3>3 DEF EntryIsOpen
  <2>2. CASE Tell(r, r, FALSE) /\ delPendingAccount(n, r)
    <3>1. /\ Len(told'[r]) <= 1
          /\ \A r2 \in Ids : r2 # r => told'[r2] = told[r2]
      BY <1>0, <1>1, <2>2 DEF Tell
    <3>2. AtMostOneAnswer'
      <4>1. ASSUME NEW r2 \in Ids PROVE Len(told'[r2]) <= 1
        <5>1. CASE r2 = r
          BY <3>1, <5>1
        <5>2. CASE r2 # r
          BY <3>1, <5>2 DEF Inv, AtMostOneAnswer
        <5>3. QED
          BY <5>1, <5>2
      <4>2. QED
        BY <4>1 DEF AtMostOneAnswer
    <3>3. \A r2 \in Ids \ Made' : told'[r2] = <<>>
      BY <1>1, <3>1 DEF Inv, EntryIsOpen
    <3>4. ASSUME NEW m \in Names, pending'[m] # NONE
          PROVE asked'[pending'[m].id].name = m /\ told'[pending'[m].id] = <<>>
      <4>1. pending'[m] = pending[m] /\ pending[m].id \in Made
        BY <2>2, <3>4 DEF Inv, OnTheirWay, delPendingAccount
      <4>2. pending[m].id \in Ids /\ pending[m].id # r
        BY <1>0, <1>1, <4>1
      <4>3. asked[pending[m].id].name = m /\ told[pending[m].id] = <<>>
        BY <3>4, <4>1 DEF Inv, EntryIsOpen
      <4>4. QED
        BY <1>1, <3>1, <4>1, <4>2, <4>3
    <3>5. QED
      BY <3>2, <3>3, <3>4 DEF EntryIsOpen
  <2>3. QED
    BY <2>1, <2>2 DEF Request
<1>7. QED
  BY <1>4, <1>5, <1>6, PlayersKept DEF Inv, Request, objects

\* Types of what login keeps, with the numbers of requests that were made.
LEMMA LoginTypes ==
  ASSUME Inv
  PROVE /\ asked \in Seq([by : Users, name : Names, kind : Kinds])
        /\ told \in [Ids -> Seq([id : Ids, ok : BOOLEAN])]
        /\ tokens \in [Users -> SUBSET Ids] /\ orphans \subseteq Ids
        /\ pending \in [Names -> [id : Made, epoch : Nat] \cup {NONE}]
        /\ Made \subseteq Ids /\ Reply \subseteq [id : Ids, ok : BOOLEAN]
<1>1. Made \subseteq Ids
  BY Asked
<1>2. QED
  BY <1>1 DEF Inv, TypeOK, OnTheirWay, Reply

\* An entry that goes without an answer.
LEMMA Forgotten ==
  ASSUME Inv, UNCHANGED <<asked, told>>, NEW n \in Names,
         pending' = [pending EXCEPT ![n] = NONE]
  PROVE /\ EntryIsOpen' /\ AtMostOneAnswer'
        /\ pending' \in [Names -> [id : Made, epoch : Nat] \cup {NONE}]
        /\ pending' \in [Names -> [id : Ids, epoch : Nat] \cup {NONE}]
<1>1. pending' \in [Names -> [id : Made, epoch : Nat] \cup {NONE}]
  BY LoginTypes
<1>2. \A m \in Names : pending'[m] # NONE => pending'[m] = pending[m]
  BY LoginTypes
<1>3. EntryIsOpen' /\ AtMostOneAnswer'
  BY <1>2 DEF Inv, EntryIsOpen, AtMostOneAnswer, Made
<1>4. QED
  BY <1>1, <1>3, LoginTypes

\* An entry that goes with the answer to id.
LEMMA AnswerInv ==
  ASSUME Inv, asked' = asked, NEW n \in Names, pending[n] # NONE,
         NEW id \in Made, NEW ok \in BOOLEAN, Answer(n, id, ok)
  PROVE /\ EntryIsOpen' /\ AtMostOneAnswer'
        /\ told' \in [Ids -> Seq([id : Ids, ok : BOOLEAN])]
        /\ orphans' \subseteq Ids
        /\ pending' \in [Names -> [id : Made, epoch : Nat] \cup {NONE}]
        /\ pending' \in [Names -> [id : Ids, epoch : Nat] \cup {NONE}]
<1> DEFINE r == pending[n].id
<1>1. r \in Made /\ r \in Ids /\ id \in Ids
  BY LoginTypes
<1>2. asked[r].name = n /\ told[r] = <<>>
  BY DEF Inv, EntryIsOpen
<1>3. /\ told' \in [Ids -> Seq([id : Ids, ok : BOOLEAN])]
      /\ Len(told'[r]) <= 1
      /\ \A r2 \in Ids : r2 # r => told'[r2] = told[r2]
  <2>1. [id |-> id, ok |-> ok] \in [id : Ids, ok : BOOLEAN]
    BY <1>1
  <2>2. Append(told[r], [id |-> id, ok |-> ok]) \in Seq([id : Ids, ok : BOOLEAN])
    BY <1>1, <2>1, LoginTypes, AddLast
  <2>3. Len(told[r]) <= 1 /\ Len(Append(told[r], [id |-> id, ok |-> ok])) <= 1
    BY <1>2
  <2>4. \/ told' = told
        \/ told' = [told EXCEPT ![r] = Append(told[r], [id |-> id, ok |-> ok])]
    BY LoginTypes, <1>1 DEF Answer, Tell
  <2>5. CASE told' = told
    BY <2>3, <2>5, LoginTypes
  <2>6. CASE told' = [told EXCEPT ![r] = Append(told[r], [id |-> id, ok |-> ok])]
    BY <1>1, <2>2, <2>3, <2>6, LoginTypes
  <2>7. QED
    BY <2>4, <2>5, <2>6
<1>4. pending' = [pending EXCEPT ![n] = NONE]
  BY DEF Answer, delPendingAccount
<1>5. /\ pending' \in [Names -> [id : Made, epoch : Nat] \cup {NONE}]
      /\ pending' \in [Names -> [id : Ids, epoch : Nat] \cup {NONE}]
  BY <1>4, LoginTypes
<1>6. orphans' \subseteq Ids
  BY <1>1, LoginTypes DEF Answer, delPendingAccount
<1>7. AtMostOneAnswer'
  <2>1. ASSUME NEW r2 \in Ids PROVE Len(told'[r2]) <= 1
    <3>1. CASE r2 = r
      BY <1>3, <3>1
    <3>2. CASE r2 # r
      BY <1>3, <3>2 DEF Inv, AtMostOneAnswer
    <3>3. QED
      BY <3>1, <3>2
  <2>2. QED
    BY <2>1 DEF AtMostOneAnswer
<1>8. EntryIsOpen'
  <2>1. ASSUME NEW m \in Names, pending'[m] # NONE
        PROVE asked'[pending'[m].id].name = m /\ told'[pending'[m].id] = <<>>
    <3>1. m # n /\ pending'[m] = pending[m]
      BY <1>4, <2>1, LoginTypes
    <3>2. asked[pending[m].id].name = m /\ told[pending[m].id] = <<>>
      BY <2>1, <3>1 DEF Inv, EntryIsOpen
    <3>3. pending[m].id \in Ids /\ pending[m].id # r
      BY <1>2, <2>1, <3>1, <3>2, LoginTypes
    <3>4. QED
      BY <1>3, <3>1, <3>2, <3>3
  <2>2. ASSUME NEW r2 \in Ids \ Made' PROVE told'[r2] = <<>>
    <3>1. r2 \notin Made /\ r2 # r
      BY <1>1 DEF Made
    <3>2. QED
      BY <1>3, <3>1 DEF Inv, EntryIsOpen
  <2>3. QED
    BY <2>1, <2>2 DEF EntryIsOpen
<1>9. QED
  BY <1>3, <1>5, <1>6, <1>7, <1>8

LEMMA SignupCBInv == ASSUME Inv, onSessionSignupCB PROVE Inv'
<1> DEFINE id == Head(fromDb).id
<1> DEFINE n == NameOf(id)
<1>1. /\ Head(fromDb) \in Reply /\ fromDb' \in Seq(Reply)
      /\ fromDb' \in Seq([id : Ids, ok : BOOLEAN])
  BY TakeFirst DEF Inv, OnTheirWay, TypeOK, onSessionSignupCB
<1>2. id \in Made /\ Head(fromDb).ok \in BOOLEAN /\ n \in Names
  BY <1>1, Asked DEF Reply
<1>3. /\ EntryIsOpen' /\ AtMostOneAnswer'
      /\ told' \in [Ids -> Seq([id : Ids, ok : BOOLEAN])] /\ orphans' \subseteq Ids
      /\ pending' \in [Names -> [id : Made, epoch : Nat] \cup {NONE}]
      /\ pending' \in [Names -> [id : Ids, epoch : Nat] \cup {NONE}]
  <2>1. CASE pending[n] = NONE
    BY <2>1, EntriesKept, LoginTypes DEF onSessionSignupCB
  <2>2. CASE pending[n] # NONE
    <3>1. Answer(n, id, Head(fromDb).ok) /\ asked' = asked
      BY <2>2 DEF onSessionSignupCB
    <3>2. QED
      BY <1>2, <2>2, <3>1, AnswerInv
  <2>3. QED
    BY <2>1, <2>2
<1>4. TypeOK'
  BY <1>1, <1>3
  DEF Inv, TypeOK, onSessionSignupCB, mgrLine, hallsDbLine, objects, bounds
<1>5. OnTheirWay'
  BY <1>1, <1>3 DEF Inv, OnTheirWay, Made, Reply, onSessionSignupCB, mgrLine
<1>6. QED
  BY <1>3, <1>4, <1>5, PlayersKept DEF Inv, onSessionSignupCB, objects

LEMMA SigninCBInv == ASSUME Inv, onSessionSigninCB PROVE Inv'
<1>1. /\ Head(fromDb) \in Reply /\ fromDb' \in Seq(Reply)
      /\ fromDb' \in Seq([id : Ids, ok : BOOLEAN])
  BY TakeFirst DEF Inv, OnTheirWay, TypeOK, onSessionSigninCB
<1>2. Head(fromDb).id \in Made /\ Head(fromDb).id \in Ids
  BY <1>1, LoginTypes DEF Reply
<1>3. toMgr' \in Seq(Made) /\ toMgr' \in Seq(Ids)
  <2>1. toMgr \in Seq(Made) /\ toMgr \in Seq(Ids)
    BY DEF Inv, OnTheirWay, TypeOK
  <2>2. Append(toMgr, Head(fromDb).id) \in Seq(Made)
    BY <1>2, <2>1, AddLast
  <2>3. Append(toMgr, Head(fromDb).id) \in Seq(Ids)
    BY <1>2, <2>1, AddLast
  <2>4. QED
    BY <2>1, <2>2, <2>3 DEF onSessionSigninCB
<1>4. TypeOK'
  BY <1>1, <1>3 DEF Inv, TypeOK, onSessionSigninCB, users, hallsDbLine, objects, bounds
<1>5. OnTheirWay'
  BY <1>1, <1>3 DEF Inv, OnTheirWay, Made, Reply, onSessionSigninCB, users
<1>6. QED
  BY <1>4, <1>5, EntriesKept, PlayersKept DEF Inv, onSessionSigninCB, users, objects

LEMMA RequestAllocClientCBInv == ASSUME Inv, onSessionRequestAllocClientCB PROVE Inv'
<1> DEFINE id == Head(toLogin).id
<1> DEFINE n == NameOf(id)
<1> DEFINE ok == Head(toLogin).ok
<1>1. /\ Head(toLogin) \in Reply /\ toLogin' \in Seq(Reply)
      /\ toLogin' \in Seq([id : Ids, ok : BOOLEAN])
  BY TakeFirst DEF Inv, OnTheirWay, TypeOK, onSessionRequestAllocClientCB
<1>2. id \in Made /\ id \in Ids /\ ok \in BOOLEAN /\ n \in Names /\ asked' = asked
  BY <1>1, Asked DEF Reply, onSessionRequestAllocClientCB
<1>3. /\ EntryIsOpen' /\ AtMostOneAnswer'
      /\ told' \in [Ids -> Seq([id : Ids, ok : BOOLEAN])] /\ orphans' \subseteq Ids
      /\ pending' \in [Names -> [id : Made, epoch : Nat] \cup {NONE}]
      /\ pending' \in [Names -> [id : Ids, epoch : Nat] \cup {NONE}]
      /\ tokens' \in [Users -> SUBSET Ids]
      /\ \A u \in Users : tokens[u] \subseteq tokens'[u]
  <2>1. CASE UNCHANGED <<told, tokens, pending, orphans>>
    BY <1>2, <2>1, EntriesKept, LoginTypes
  <2>2. CASE /\ pending[n] # NONE /\ Answer(n, id, ok)
             /\ tokens' = IF ok /\ pending[n].epoch = epoch
                          THEN [tokens EXCEPT ![asked[pending[n].id].by] = @ \cup {id}]
                          ELSE tokens
    <3>1. tokens' \in [Users -> SUBSET Ids] /\ \A u \in Users : tokens[u] \subseteq tokens'[u]
      BY <1>2, <2>2, LoginTypes
    <3>2. QED
      BY <1>2, <2>2, <3>1, AnswerInv
  <2>3. CASE pending[n] # NONE /\ delPendingAccount(n, id) /\ UNCHANGED <<told, tokens>>
    <3>1. pending' = [pending EXCEPT ![n] = NONE] /\ orphans' \subseteq Ids
      BY <1>2, <2>3, LoginTypes DEF delPendingAccount
    <3>2. QED
      BY <1>2, <2>3, <3>1, LoginTypes, Forgotten
  <2>4. QED
    BY <2>1, <2>2, <2>3 DEF onSessionRequestAllocClientCB
<1>4. TypeOK'
  BY <1>1, <1>3 DEF Inv, TypeOK, onSessionRequestAllocClientCB, dbLine, hallsDbLine, objects, bounds
<1>5. OnTheirWay'
  BY <1>1, <1>2, <1>3 DEF Inv, OnTheirWay, Made, Reply, onSessionRequestAllocClientCB, dbLine
<1>6. PlayersHadToken' /\ WaitingHasToken'
  <2>1. /\ UNCHANGED <<waiting, players, mapping>>
        /\ waiting \in [Halls -> [Names -> [token : Ids, by : Users \cup {NONE}, epoch : Nat] \cup {NONE}]]
        /\ players \in [Halls -> SUBSET [token : Ids, by : Users]]
    BY DEF Inv, TypeOK, onSessionRequestAllocClientCB, objects
  <2>2. PlayersHadToken'
    BY <1>3, <2>1, SMTT(40) DEF Inv, PlayersHadToken
  <2>3. WaitingHasToken'
    <3>1. ASSUME NEW h \in Halls, NEW m \in Names, waiting[h][m] # NONE, waiting[h][m].by # NONE
          PROVE waiting[h][m].by \in Users /\ waiting[h][m].token \in tokens[waiting[h][m].by]
      BY <2>1, <3>1 DEF Inv, WaitingHasToken
    <3>2. QED
      BY <1>3, <2>1, <3>1 DEF WaitingHasToken
  <2>4. QED
    BY <2>2, <2>3
<1>7. QED
  BY <1>3, <1>4, <1>5, <1>6 DEF Inv

LEMMA LoginTimeoutInv == ASSUME Inv, NEW n \in Names, LoginTimeout(n) PROVE Inv'
<1>1. /\ EntryIsOpen' /\ AtMostOneAnswer' /\ orphans' \subseteq Ids
      /\ pending' \in [Names -> [id : Made, epoch : Nat] \cup {NONE}]
      /\ pending' \in [Names -> [id : Ids, epoch : Nat] \cup {NONE}]
  BY LoginTypes, Forgotten DEF LoginTimeout
<1>2. TypeOK'
  BY <1>1 DEF Inv, TypeOK, LoginTimeout, dbLine, mgrLine, hallsDbLine, objects, bounds
<1>3. OnTheirWay'
  BY <1>1 DEF Inv, OnTheirWay, Made, Reply, LoginTimeout, dbLine, mgrLine
<1>4. QED
  BY <1>1, <1>2, <1>3, PlayersKept DEF Inv, LoginTimeout, objects

-------------------------------------------------------------------------------
(* dbmgr *)

\* An answer of dbmgr is about the request at the head of its line.
LEMMA DbAnswers ==
  ASSUME Inv, toDb # <<>>, NEW ok \in BOOLEAN,
         fromDb' = Append(fromDb, [id |-> Head(toDb), ok |-> ok]), toDb' = Tail(toDb)
  PROVE /\ toDb' \in Seq(Made) /\ toDb' \in Seq(Ids)
        /\ fromDb' \in Seq(Reply) /\ fromDb' \in Seq([id : Ids, ok : BOOLEAN])
<1>1. Head(toDb) \in Made /\ toDb' \in Seq(Made) /\ toDb' \in Seq(Ids)
  BY TakeFirst DEF Inv, OnTheirWay, TypeOK
<1>2. [id |-> Head(toDb), ok |-> ok] \in Reply
  BY <1>1 DEF Reply
<1>3. fromDb' \in Seq(Reply)
  BY <1>2, AddLast DEF Inv, OnTheirWay
<1>4. fromDb' \in Seq([id : Ids, ok : BOOLEAN])
  <2>1. [id |-> Head(toDb), ok |-> ok] \in [id : Ids, ok : BOOLEAN]
    BY <1>1, LoginTypes
  <2>2. fromDb \in Seq([id : Ids, ok : BOOLEAN])
    BY DEF Inv, TypeOK
  <2>3. QED
    BY <2>1, <2>2, AddLast
<1>5. QED
  BY <1>1, <1>3, <1>4

LEMMA WriteAccountInv == ASSUME Inv, writeAccount PROVE Inv'
<1> DEFINE id == Head(toDb)
<1>1. id \in Made
  BY TakeFirst DEF Inv, OnTheirWay, writeAccount
<1>2. /\ toDb' \in Seq(Made) /\ toDb' \in Seq(Ids)
      /\ fromDb' \in Seq(Reply) /\ fromDb' \in Seq([id : Ids, ok : BOOLEAN])
  BY DbAnswers DEF writeAccount
<1>3. account' \in [Names -> Users \cup {NONE}]
  BY <1>1, Asked DEF Inv, TypeOK, writeAccount
<1>4. TypeOK'
  BY <1>2, <1>3 DEF Inv, TypeOK, writeAccount, users, mgrLine, hallsDbLine, objects, bounds
<1>5. OnTheirWay'
  BY <1>2 DEF Inv, OnTheirWay, Made, Reply, writeAccount, users, mgrLine
<1>6. QED
  BY <1>4, <1>5, EntriesKept, PlayersKept DEF Inv, writeAccount, users, objects

LEMMA QueryAccountInv == ASSUME Inv, queryAccount PROVE Inv'
<1>1. /\ toDb' \in Seq(Made) /\ toDb' \in Seq(Ids)
      /\ fromDb' \in Seq(Reply) /\ fromDb' \in Seq([id : Ids, ok : BOOLEAN])
  BY DbAnswers DEF queryAccount
<1>2. TypeOK'
  BY <1>1 DEF Inv, TypeOK, queryAccount, users, mgrLine, hallsDbLine, objects, bounds
<1>3. OnTheirWay'
  BY <1>1 DEF Inv, OnTheirWay, Made, Reply, queryAccount, users, mgrLine
<1>4. QED
  BY <1>2, <1>3, EntriesKept, PlayersKept DEF Inv, queryAccount, users, objects

LEMMA QueryAccountForHallsInv == ASSUME Inv, NEW h \in Halls, queryAccountForHalls(h) PROVE Inv'
<1>1. /\ hallsToDb \in [Halls -> Seq(Names)]
      /\ dbToHalls \in [Halls -> Seq([name : Names, ok : BOOLEAN])]
  BY DEF Inv, TypeOK
<1>2. Head(hallsToDb[h]) \in Names /\ Tail(hallsToDb[h]) \in Seq(Names)
  BY <1>1, TakeFirst DEF queryAccountForHalls
<1>3. hallsToDb' \in [Halls -> Seq(Names)]
  BY <1>1, <1>2 DEF queryAccountForHalls
<1>4. PICK ok \in BOOLEAN :
        dbToHalls' = [dbToHalls EXCEPT ![h] = Append(@, [name |-> Head(hallsToDb[h]), ok |-> ok])]
  BY DEF queryAccountForHalls
<1>5. dbToHalls' \in [Halls -> Seq([name : Names, ok : BOOLEAN])]
  <2>1. [name |-> Head(hallsToDb[h]), ok |-> ok] \in [name : Names, ok : BOOLEAN]
    BY <1>2
  <2>2. Append(dbToHalls[h], [name |-> Head(hallsToDb[h]), ok |-> ok]) \in Seq([name : Names, ok : BOOLEAN])
    BY <1>1, <2>1, AddLast
  <2>3. QED
    BY <1>1, <1>4, <2>2
<1>6. TypeOK'
  BY <1>3, <1>5 DEF Inv, TypeOK, queryAccountForHalls, users, dbLine, mgrLine, objects, bounds
<1>7. OnTheirWay'
  BY DEF Inv, OnTheirWay, Made, Reply, queryAccountForHalls, users, dbLine, mgrLine
<1>8. QED
  BY <1>6, <1>7, EntriesKept, PlayersKept DEF Inv, queryAccountForHalls, users, objects

-------------------------------------------------------------------------------
(* hallsmgr *)

\* Types of the lines between login, hallsmgr and halls.
LEMMA LineTypes ==
  ASSUME Inv
  PROVE /\ toMgr \in Seq(Made) /\ toMgr \in Seq(Ids)
        /\ toLogin \in Seq(Reply) /\ toLogin \in Seq([id : Ids, ok : BOOLEAN])
        /\ toHalls \in [Halls -> Seq(Made)] /\ toHalls \in [Halls -> Seq(Ids)]
        /\ fromHalls \in [Halls -> Seq(Reply)]
        /\ fromHalls \in [Halls -> Seq([id : Ids, ok : BOOLEAN])]
  BY DEF Inv, TypeOK, OnTheirWay

LEMMA AllocClientInv == ASSUME Inv, allocClient PROVE Inv'
<1> DEFINE id == Head(toMgr)
<1>1. /\ id \in Made /\ id \in Ids
      /\ toMgr' \in Seq(Made) /\ toMgr' \in Seq(Ids)
  BY TakeFirst, LineTypes, LoginTypes DEF allocClient
<1>2. /\ toLogin' \in Seq(Reply) /\ toLogin' \in Seq([id : Ids, ok : BOOLEAN])
  <2>1. /\ [id |-> id, ok |-> FALSE] \in Reply
        /\ [id |-> id, ok |-> FALSE] \in [id : Ids, ok : BOOLEAN]
    BY <1>1 DEF Reply
  <2>2. Append(toLogin, [id |-> id, ok |-> FALSE]) \in Seq(Reply)
    BY <2>1, LineTypes, AddLast
  <2>3. Append(toLogin, [id |-> id, ok |-> FALSE]) \in Seq([id : Ids, ok : BOOLEAN])
    BY <2>1, LineTypes, AddLast
  <2>4. QED
    BY <2>2, <2>3, LineTypes DEF allocClient
<1>3. /\ toHalls' \in [Halls -> Seq(Made)] /\ toHalls' \in [Halls -> Seq(Ids)]
  <2>1. CASE UNCHANGED toHalls
    BY <2>1, LineTypes
  <2>2. ASSUME NEW h \in Halls, toHalls' = [toHalls EXCEPT ![h] = Append(@, id)]
        PROVE toHalls' \in [Halls -> Seq(Made)] /\ toHalls' \in [Halls -> Seq(Ids)]
    <3>1. Append(toHalls[h], id) \in Seq(Made)
      BY <1>1, LineTypes, AddLast
    <3>2. Append(toHalls[h], id) \in Seq(Ids)
      BY <1>1, LineTypes, AddLast
    <3>3. QED
      BY <2>2, <3>1, <3>2, LineTypes
  <2>3. findBestServer \subseteq Halls
    BY DEF findBestServer, Inv, TypeOK
  <2>4. QED
    BY <2>1, <2>2, <2>3 DEF allocClient
<1>4. load' \in [Halls -> Nat]
  <2>1. load \in [Halls -> Nat]
    BY DEF Inv, TypeOK
  <2>2. load' = load \/ \E h \in findBestServer : load' = [load EXCEPT ![h] = @ + 1]
    BY DEF allocClient
  <2>3. findBestServer \subseteq Halls
    BY DEF findBestServer, Inv, TypeOK
  <2>4. ASSUME NEW h \in Halls, load' = [load EXCEPT ![h] = @ + 1] PROVE load' \in [Halls -> Nat]
    BY <2>1, <2>4
  <2>5. QED
    BY <2>1, <2>2, <2>3, <2>4
<1>5. TypeOK'
  BY <1>1, <1>2, <1>3, <1>4
  DEF Inv, TypeOK, allocClient, users, dbLine, hallsDbLine, objects, bounds
<1>6. OnTheirWay'
  BY <1>1, <1>2, <1>3 DEF Inv, OnTheirWay, Made, Reply, allocClient, users, dbLine
<1>7. QED
  BY <1>5, <1>6, EntriesKept, PlayersKept DEF Inv, allocClient, users, objects

LEMMA AllocClientCBInv == ASSUME Inv, NEW h \in Halls, allocClientCB(h) PROVE Inv'
<1>1. /\ Head(fromHalls[h]) \in Reply /\ Tail(fromHalls[h]) \in Seq(Reply)
  BY TakeFirst, LineTypes DEF allocClientCB
<1>2. /\ Head(fromHalls[h]) \in [id : Ids, ok : BOOLEAN]
      /\ Tail(fromHalls[h]) \in Seq([id : Ids, ok : BOOLEAN])
  BY TakeFirst, LineTypes DEF allocClientCB
<1>3. toLogin' \in Seq(Reply)
  BY <1>1, AddLast, LineTypes DEF allocClientCB
<1>4. toLogin' \in Seq([id : Ids, ok : BOOLEAN])
  BY <1>2, AddLast, LineTypes DEF allocClientCB
<1>5. /\ fromHalls' \in [Halls -> Seq(Reply)]
      /\ fromHalls' \in [Halls -> Seq([id : Ids, ok : BOOLEAN])]
  BY <1>1, <1>2, LineTypes DEF allocClientCB
<1>6. TypeOK'
  BY <1>4, <1>5 DEF Inv, TypeOK, allocClientCB, users, dbLine, hallsDbLine, objects, bounds
<1>7. OnTheirWay'
  BY <1>3, <1>5 DEF Inv, OnTheirWay, Made, Reply, allocClientCB, users, dbLine
<1>8. QED
  BY <1>6, <1>7, EntriesKept, PlayersKept DEF Inv, allocClientCB, users, objects

-------------------------------------------------------------------------------
(* halls *)

Entry == [token : Ids, by : Users \cup {NONE}, epoch : Nat]

\* Types of what halls keeps.
LEMMA HallsTypes ==
  ASSUME Inv
  PROVE /\ waiting \in [Halls -> [Names -> Entry \cup {NONE}]] /\ epoch \in Nat
        /\ players \in [Halls -> SUBSET [token : Ids, by : Users]]
        /\ mapping \in [Halls -> [Users -> Ids \cup {0}]]
        /\ dying \in [Halls -> SUBSET Ids] /\ tokens \in [Users -> SUBSET Ids]
  BY DEF Inv, TypeOK, Entry

\* An entry that goes takes no token along.
LEMMA ForgetInv ==
  ASSUME Inv, tokens' = tokens, NEW h \in Halls, NEW n \in Names, Forget(h, n)
  PROVE waiting' \in [Halls -> [Names -> Entry \cup {NONE}]] /\ WaitingHasToken'
<1>1. waiting' \in [Halls -> [Names -> Entry \cup {NONE}]]
  BY HallsTypes DEF Forget
<1>2. \A g \in Halls, m \in Names : waiting'[g][m] # NONE => waiting'[g][m] = waiting[g][m]
  BY HallsTypes DEF Forget
<1>3. QED
  BY <1>1, <1>2 DEF Inv, WaitingHasToken

LEMMA SessionRequestAllocClientInv ==
  ASSUME Inv, NEW h \in Halls, onSessionRequestAllocClient(h) PROVE Inv'
<1> DEFINE id == Head(toHalls[h])
<1> DEFINE n == NameOf(id)
<1>1. id \in Made /\ id \in Ids /\ n \in Names /\ Tail(toHalls[h]) \in Seq(Made)
      /\ Tail(toHalls[h]) \in Seq(Ids)
  BY TakeFirst, LineTypes, Asked DEF onSessionRequestAllocClient
<1>2. toHalls' \in [Halls -> Seq(Made)] /\ toHalls' \in [Halls -> Seq(Ids)]
  BY <1>1, LineTypes DEF onSessionRequestAllocClient
<1>3. PICK ok \in BOOLEAN :
        fromHalls' = [fromHalls EXCEPT ![h] = Append(@, [id |-> id, ok |-> ok])]
  BY DEF onSessionRequestAllocClient
<1>4. fromHalls' \in [Halls -> Seq(Reply)] /\ fromHalls' \in [Halls -> Seq([id : Ids, ok : BOOLEAN])]
  <2>1. [id |-> id, ok |-> ok] \in Reply /\ [id |-> id, ok |-> ok] \in [id : Ids, ok : BOOLEAN]
    BY <1>1 DEF Reply
  <2>2. Append(fromHalls[h], [id |-> id, ok |-> ok]) \in Seq(Reply)
    BY <2>1, LineTypes, AddLast
  <2>3. Append(fromHalls[h], [id |-> id, ok |-> ok]) \in Seq([id : Ids, ok : BOOLEAN])
    BY <2>1, LineTypes, AddLast
  <2>4. QED
    BY <1>3, <2>2, <2>3, LineTypes
<1> DEFINE e == [token |-> id, by |-> NONE, epoch |-> epoch]
<1>5. /\ waiting' = waiting \/ waiting' = [waiting EXCEPT ![h][n] = e]
      /\ e \in Entry /\ e.by = NONE
  <2>1. e \in Entry /\ e.by = NONE
    BY <1>1, HallsTypes DEF Entry
  <2>2. waiting' = waiting \/ waiting' = [waiting EXCEPT ![h][n] = e]
    BY DEF onSessionRequestAllocClient
  <2>3. QED
    BY <2>1, <2>2
<1>6. waiting' \in [Halls -> [Names -> Entry \cup {NONE}]]
  <2>1. [waiting EXCEPT ![h][n] = e] \in [Halls -> [Names -> Entry \cup {NONE}]]
    BY <1>1, <1>5, HallsTypes, SetEntry
  <2>2. QED
    BY <1>5, <2>1, HallsTypes
<1>7. WaitingHasToken'
  <2>1. tokens' = tokens
    BY DEF onSessionRequestAllocClient, users
  <2>2. \A g \in Halls, m \in Names : waiting'[g][m] = waiting[g][m] \/ waiting'[g][m].by = NONE
    BY <1>1, <1>5, HallsTypes
  <2>3. QED
    BY <2>1, <2>2 DEF Inv, WaitingHasToken
<1>8. PlayersHadToken'
  BY DEF Inv, PlayersHadToken, onSessionRequestAllocClient, users, objects
<1>9. TypeOK'
  BY <1>2, <1>4, <1>6
  DEF Inv, TypeOK, Entry, onSessionRequestAllocClient, users, dbLine, hallsDbLine, objects, bounds
<1>10. OnTheirWay'
  BY <1>2, <1>4 DEF Inv, OnTheirWay, Made, Reply, onSessionRequestAllocClient, users, dbLine
<1>11. QED
  BY <1>7, <1>8, <1>9, <1>10, EntriesKept DEF Inv, onSessionRequestAllocClient, users

LEMMA SessionLoginInv ==
  ASSUME Inv, NEW u \in Users, NEW h \in Halls, NEW n \in Names, onSessionLogin(u, h, n)
  PROVE Inv'
<1>1. PICK t \in Presents(u) :
        LET fits == waiting[h][n] # NONE /\ t # 0 /\ waiting[h][n].token = t /\ "dbmgr" \in up
        IN IF fits THEN /\ waiting' = [waiting EXCEPT ![h][n].by = u, ![h][n].epoch = epoch]
                        /\ hallsToDb' = [hallsToDb EXCEPT ![h] = Append(@, n)]
           ELSE Forget(h, n) /\ UNCHANGED hallsToDb
  BY DEF onSessionLogin
<1>2. hallsToDb \in [Halls -> Seq(Names)] /\ tokens' = tokens
  BY DEF Inv, TypeOK, onSessionLogin, users
<1>3. hallsToDb' \in [Halls -> Seq(Names)]
  <2>1. Append(hallsToDb[h], n) \in Seq(Names)
    BY <1>2, AddLast
  <2>2. QED
    BY <1>1, <1>2, <2>1
<1>4. waiting' \in [Halls -> [Names -> Entry \cup {NONE}]] /\ WaitingHasToken'
  <2>1. CASE Forget(h, n)
    BY <1>2, <2>1, ForgetInv
  <2>2. CASE /\ waiting[h][n] # NONE /\ t # 0 /\ waiting[h][n].token = t
             /\ waiting' = [waiting EXCEPT ![h][n].by = u, ![h][n].epoch = epoch]
    <3> DEFINE e == [waiting[h][n] EXCEPT !.by = u, !.epoch = epoch]
    <3>1. waiting[h][n] \in Entry
      BY <2>2, HallsTypes
    <3>2. e \in Entry /\ e.by = u /\ e.token \in tokens[u]
      BY <2>2, <3>1, HallsTypes DEF Entry, Presents
    <3>3. waiting' = [waiting EXCEPT ![h] = [waiting[h] EXCEPT ![n] = e]]
      BY <2>2, HallsTypes
    <3>4. waiting' \in [Halls -> [Names -> Entry \cup {NONE}]]
      BY <3>2, <3>3, HallsTypes
    <3>5. \A g \in Halls, m \in Names : waiting'[g][m] = e \/ waiting'[g][m] = waiting[g][m]
      BY <3>3, HallsTypes
    <3>6. QED
      BY <1>2, <3>2, <3>4, <3>5, ZenonT(60) DEF Inv, WaitingHasToken
  <2>3. QED
    BY <1>1, <2>1, <2>2
<1>5. PlayersHadToken'
  BY DEF Inv, PlayersHadToken, onSessionLogin, users, objects
<1>6. TypeOK'
  <2>1. logins' \in 0..MaxLogins
    <3>1. logins \in 0..MaxLogins /\ logins < MaxLogins /\ logins' = logins + 1
      BY DEF Inv, TypeOK, onSessionLogin
    <3>2. QED
      BY <3>1, BoundsAssumption
  <2>2. UNCHANGED <<asked, told, tokens, orphans, pending, toDb, fromDb, toMgr, toLogin, toHalls, fromHalls,
                   load, joined, dbToHalls, account, players, dying, crashed, epoch, up, restarts, mapping>>
    BY DEF onSessionLogin, users, dbLine, mgrLine, hallsDbLine, objects, bounds
  <2>3. QED
    BY <1>3, <1>4, <2>1, <2>2 DEF Inv, TypeOK, Entry
<1>7. OnTheirWay'
  BY DEF Inv, OnTheirWay, Made, Reply, onSessionLogin, users, dbLine, mgrLine
<1>8. QED
  BY <1>4, <1>5, <1>6, <1>7, EntriesKept DEF Inv, onSessionLogin, users

LEMMA SessionLoginAgainInv ==
  ASSUME Inv, NEW u \in Users, NEW h \in Halls, NEW n \in Names, onSessionLoginAgain(u, h, n)
  PROVE Inv'
<1>1. tokens' = tokens /\ players' = players /\ (waiting' = waiting \/ Forget(h, n))
  BY DEF onSessionLoginAgain, users
<1>2. /\ mapping' \in [Halls -> [Users -> Ids \cup {0}]]
      /\ \A g \in Halls, v \in Users : mapping'[g][v] \in tokens[v] \cup {0}
  <2>1. \/ mapping' = mapping
        \/ \E p \in players[h] : /\ p.token \in Presents(u)
                                 /\ mapping' = [mapping EXCEPT ![h][u] = p.token]
    BY DEF onSessionLoginAgain
  <2>2. \A g \in Halls, v \in Users : mapping[g][v] \in tokens[v] \cup {0}
    BY DEF Inv, PlayersHadToken
  <2>3. ASSUME NEW p \in players[h], p.token \in Presents(u),
               mapping' = [mapping EXCEPT ![h][u] = p.token]
        PROVE /\ mapping' \in [Halls -> [Users -> Ids \cup {0}]]
              /\ \A g \in Halls, v \in Users : mapping'[g][v] \in tokens[v] \cup {0}
    <3>1. p.token \in tokens[u] \cup {0} /\ p.token \in Ids
      BY <2>3, HallsTypes DEF Presents
    <3>2. QED
      BY <2>2, <2>3, <3>1, HallsTypes
  <2>4. QED
    BY <2>1, <2>2, <2>3, HallsTypes
<1>3. PlayersHadToken'
  BY <1>2 DEF Inv, PlayersHadToken, onSessionLoginAgain, users
<1>4. waiting' \in [Halls -> [Names -> Entry \cup {NONE}]] /\ WaitingHasToken'
  <2>1. CASE waiting' = waiting
    BY <2>1, HallsTypes DEF Inv, WaitingHasToken, onSessionLoginAgain, users
  <2>2. CASE Forget(h, n)
    BY <2>2, ForgetInv DEF onSessionLoginAgain, users
  <2>3. QED
    BY <2>1, <2>2 DEF onSessionLoginAgain
<1>5. TypeOK'
  <2>1. logins' \in 0..MaxLogins
    <3>1. logins \in 0..MaxLogins /\ logins < MaxLogins /\ logins' = logins + 1
      BY DEF Inv, TypeOK, onSessionLoginAgain
    <3>2. QED
      BY <3>1, BoundsAssumption
  <2>2. UNCHANGED <<asked, told, tokens, orphans, pending, toDb, fromDb, toMgr, toLogin, toHalls, fromHalls,
                   load, joined, dbToHalls, account, players, dying, crashed, epoch, up, restarts, hallsToDb>>
    BY DEF onSessionLoginAgain, users, dbLine, mgrLine, hallsDbLine, objects, bounds
  <2>3. QED
    BY <1>2, <1>4, <2>1, <2>2 DEF Inv, TypeOK, Entry
<1>6. OnTheirWay'
  BY DEF Inv, OnTheirWay, Made, Reply, onSessionLoginAgain, users, dbLine, mgrLine
<1>7. QED
  BY <1>3, <1>4, <1>5, <1>6, EntriesKept DEF Inv, onSessionLoginAgain, users

LEMMA QueryAccountCBInv == ASSUME Inv, NEW h \in Halls, onSessionQueryAccountCB(h) PROVE Inv'
<1> DEFINE n == Head(dbToHalls[h]).name
<1> DEFINE e == waiting[h][n]
<1>1. /\ dbToHalls \in [Halls -> Seq([name : Names, ok : BOOLEAN])]
      /\ tokens' = tokens /\ UNCHANGED <<dying, hallsToDb>>
  BY DEF Inv, TypeOK, onSessionQueryAccountCB, users
<1>2. n \in Names /\ Tail(dbToHalls[h]) \in Seq([name : Names, ok : BOOLEAN])
  <2>1. /\ Head(dbToHalls[h]) \in [name : Names, ok : BOOLEAN]
        /\ Tail(dbToHalls[h]) \in Seq([name : Names, ok : BOOLEAN])
    BY <1>1, TakeFirst DEF onSessionQueryAccountCB
  <2>2. QED
    BY <2>1
<1>3. dbToHalls' \in [Halls -> Seq([name : Names, ok : BOOLEAN])]
  BY <1>1, <1>2 DEF onSessionQueryAccountCB
<1>4. /\ waiting' \in [Halls -> [Names -> Entry \cup {NONE}]] /\ WaitingHasToken'
      /\ players' \in [Halls -> SUBSET [token : Ids, by : Users]]
      /\ mapping' \in [Halls -> [Users -> Ids \cup {0}]] /\ PlayersHadToken'
  <2>1. CASE UNCHANGED <<waiting, players, mapping>>
    BY <1>1, <2>1, HallsTypes, PlayersKept
  <2>2. CASE UNCHANGED <<players, mapping>> /\ Forget(h, n)
    BY <1>1, <1>2, <2>2, HallsTypes, ForgetInv DEF Inv, PlayersHadToken
  <2>3. CASE /\ e # NONE /\ e.by # NONE /\ Forget(h, n)
             /\ players' = [players EXCEPT ![h] = @ \cup {[token |-> e.token, by |-> e.by]}]
             /\ mapping' = [mapping EXCEPT ![h][e.by] = e.token]
    <3>1. e \in Entry
      <4>1. \A k \in Names : waiting[h][k] \in Entry \cup {NONE}
        BY HallsTypes
      <4>2. e \in Entry \cup {NONE}
        BY <1>2, <4>1, Zenon
      <4>3. QED
        BY <2>3, <4>2
    <3>2. e.token \in Ids /\ e.by \in Users /\ e.token \in tokens[e.by]
      BY <1>2, <2>3, <3>1 DEF Inv, WaitingHasToken, Entry
    <3>3. players' \in [Halls -> SUBSET [token : Ids, by : Users]]
      <4>1. [token |-> e.token, by |-> e.by] \in [token : Ids, by : Users]
        BY <3>2
      <4>2. QED
        BY <2>3, <4>1, HallsTypes
    <3>4. /\ mapping' \in [Halls -> [Users -> Ids \cup {0}]]
          /\ \A g \in Halls, v \in Users :
               mapping'[g][v] = IF g = h /\ v = e.by THEN e.token ELSE mapping[g][v]
      <4>1. e.token \in Ids \cup {0} /\ mapping \in [Halls -> [Users -> Ids \cup {0}]]
        BY <3>2, HallsTypes
      <4> DEFINE b == e.by
      <4> DEFINE t == e.token
      <4>2. b \in Users /\ t \in Ids \cup {0} /\ mapping' = [mapping EXCEPT ![h][b] = t]
        BY <2>3, <3>2, <4>1
      <4> HIDE DEF b, t
      <4>3. /\ mapping' \in [Halls -> [Users -> Ids \cup {0}]]
            /\ \A g \in Halls, v \in Users :
                 mapping'[g][v] = IF g = h /\ v = b THEN t ELSE mapping[g][v]
        BY <4>1, <4>2, SetEntry
      <4>4. QED
        BY <4>3 DEF b, t
    <3>5. ASSUME NEW g \in Halls, NEW p \in players'[g] PROVE p.token \in tokens[p.by]
      <4>1. p \in players[g] \/ p = [token |-> e.token, by |-> e.by]
        BY <2>3, <3>5, HallsTypes
      <4>2. QED
        BY <3>2, <4>1 DEF Inv, PlayersHadToken
    <3>6. ASSUME NEW g \in Halls, NEW v \in Users PROVE mapping'[g][v] \in tokens[v] \cup {0}
      <4>1. mapping'[g][v] = mapping[g][v] \/ (v = e.by /\ mapping'[g][v] = e.token)
        BY <3>4
      <4>2. QED
        BY <3>2, <4>1 DEF Inv, PlayersHadToken
    <3>7. PlayersHadToken'
      BY <1>1, <3>5, <3>6 DEF PlayersHadToken
    <3>8. QED
      BY <1>1, <1>2, <2>3, <3>3, <3>4, <3>7, ForgetInv
  <2>4. QED
    BY <2>1, <2>2, <2>3 DEF onSessionQueryAccountCB
<1>5. TypeOK'
  BY <1>1, <1>3, <1>4
  DEF Inv, TypeOK, Entry, onSessionQueryAccountCB, users, dbLine, mgrLine, bounds
<1>6. OnTheirWay'
  BY DEF Inv, OnTheirWay, Made, Reply, onSessionQueryAccountCB, users, dbLine, mgrLine
<1>7. QED
  BY <1>4, <1>5, <1>6, EntriesKept DEF Inv, onSessionQueryAccountCB, users

LEMMA CrashInv == ASSUME Inv, NEW h \in Halls, Crash(h) PROVE Inv'
<1>1. /\ waiting' \in [Halls -> [Names -> Entry \cup {NONE}]]
      /\ \A g \in Halls, m \in Names : waiting'[g][m] \in {waiting[g][m], NONE}
  BY HallsTypes DEF Crash
<1>2. /\ players' \in [Halls -> SUBSET [token : Ids, by : Users]]
      /\ \A g \in Halls : players'[g] \subseteq players[g]
  BY HallsTypes DEF Crash
<1>3. /\ mapping' \in [Halls -> [Users -> Ids \cup {0}]]
      /\ \A g \in Halls, u \in Users : mapping'[g][u] \in {mapping[g][u], 0}
  BY HallsTypes DEF Crash
<1>4. dying' \in [Halls -> SUBSET Ids]
  BY HallsTypes DEF Crash
<1>5. /\ toHalls' \in [Halls -> Seq(Made)] /\ toHalls' \in [Halls -> Seq(Ids)]
      /\ fromHalls' \in [Halls -> Seq(Reply)]
      /\ fromHalls' \in [Halls -> Seq([id : Ids, ok : BOOLEAN])]
  BY LineTypes, Nothing DEF Crash
<1>6. /\ hallsToDb' \in [Halls -> Seq(Names)]
      /\ dbToHalls' \in [Halls -> Seq([name : Names, ok : BOOLEAN])]
  BY Nothing DEF Inv, TypeOK, Crash
<1>7. crashed' \subseteq Halls /\ joined' \subseteq Halls
  BY DEF Inv, TypeOK, Crash
<1>8. UNCHANGED <<asked, told, tokens, orphans, pending, toDb, fromDb, toMgr, toLogin, load,
                  account, epoch, up, restarts, logins>>
  BY DEF Crash, users, dbLine, bounds
<1>9. TypeOK'
  BY <1>1, <1>2, <1>3, <1>4, <1>5, <1>6, <1>7, <1>8 DEF Inv, TypeOK, Entry
<1>10. OnTheirWay'
  BY <1>5, <1>8 DEF Inv, OnTheirWay, Made, Reply
<1>11. WaitingHasToken'
  <2>1. ASSUME NEW g \in Halls, NEW m \in Names, waiting'[g][m] # NONE, waiting'[g][m].by # NONE
        PROVE waiting'[g][m].token \in tokens[waiting'[g][m].by]
    <3>1. waiting'[g][m] = waiting[g][m]
      BY <1>1, <2>1
    <3>2. QED
      BY <2>1, <3>1 DEF Inv, WaitingHasToken
  <2>2. QED
    BY <1>8, <2>1 DEF WaitingHasToken
<1>12. PlayersHadToken'
  <2>1. ASSUME NEW g \in Halls, NEW p \in players'[g] PROVE p.token \in tokens[p.by]
    BY <1>2 DEF Inv, PlayersHadToken
  <2>2. ASSUME NEW g \in Halls, NEW u \in Users PROVE mapping'[g][u] \in tokens[u] \cup {0}
    BY <1>3 DEF Inv, PlayersHadToken
  <2>3. QED
    BY <1>8, <2>1, <2>2 DEF PlayersHadToken
<1>13. QED
  BY <1>8, <1>9, <1>10, <1>11, <1>12, EntriesKept DEF Inv

LEMMA HallsTimeoutInv == ASSUME Inv, NEW h \in Halls, NEW n \in Names, HallsTimeout(h, n) PROVE Inv'
<1>1. waiting' \in [Halls -> [Names -> Entry \cup {NONE}]] /\ WaitingHasToken'
  BY ForgetInv DEF HallsTimeout, users
<1>2. TypeOK'
  BY <1>1
  DEF Inv, TypeOK, Entry, HallsTimeout, users, dbLine, mgrLine, hallsDbLine, objects, bounds
<1>3. OnTheirWay'
  BY DEF Inv, OnTheirWay, Made, Reply, HallsTimeout, users, dbLine, mgrLine
<1>4. PlayersHadToken'
  BY DEF Inv, PlayersHadToken, HallsTimeout, users, objects
<1>5. QED
  BY <1>1, <1>2, <1>3, <1>4, EntriesKept DEF Inv, HallsTimeout, users

LEMMA ClientDisconnectedInv ==
  ASSUME Inv, NEW u \in Users, NEW h \in Halls, onClientDisconnected(u, h) PROVE Inv'
<1>1. dying' \in [Halls -> SUBSET Ids]
  <2>1. mapping[h][u] \in Ids
    BY HallsTypes DEF onClientDisconnected
  <2>2. QED
    BY <2>1, HallsTypes DEF onClientDisconnected
<1>2. /\ mapping' \in [Halls -> [Users -> Ids \cup {0}]]
      /\ \A g \in Halls, v \in Users :
           mapping'[g][v] = IF g = h /\ v = u THEN 0 ELSE mapping[g][v]
  BY HallsTypes, SetEntry DEF onClientDisconnected
<1>3. TypeOK'
  BY <1>1, <1>2
  DEF Inv, TypeOK, onClientDisconnected, users, dbLine, mgrLine, hallsDbLine, bounds
<1>4. OnTheirWay'
  BY DEF Inv, OnTheirWay, Made, Reply, onClientDisconnected, users, dbLine, mgrLine
<1>5. WaitingHasToken'
  BY DEF Inv, WaitingHasToken, onClientDisconnected, users
<1>6. PlayersHadToken'
  BY <1>2 DEF Inv, PlayersHadToken, onClientDisconnected, users
<1>7. QED
  BY <1>3, <1>4, <1>5, <1>6, EntriesKept DEF Inv, onClientDisconnected, users

LEMMA DestroyTimerInv == ASSUME Inv, NEW h \in Halls, onDestroyTimer(h) PROVE Inv'
<1>1. /\ players' \in [Halls -> SUBSET [token : Ids, by : Users]]
      /\ \A g \in Halls : players'[g] \subseteq players[g]
      /\ dying' \in [Halls -> SUBSET Ids]
  BY HallsTypes DEF onDestroyTimer
<1>2. TypeOK'
  BY <1>1 DEF Inv, TypeOK, onDestroyTimer, users, dbLine, mgrLine, hallsDbLine, bounds
<1>3. OnTheirWay'
  BY DEF Inv, OnTheirWay, Made, Reply, onDestroyTimer, users, dbLine, mgrLine
<1>4. WaitingHasToken' /\ PlayersHadToken'
  BY <1>1 DEF Inv, WaitingHasToken, PlayersHadToken, onDestroyTimer, users
<1>5. QED
  BY <1>2, <1>3, <1>4, EntriesKept DEF Inv, onDestroyTimer, users

-------------------------------------------------------------------------------
(* Restarts *)

LEMMA ConnectorRestartInv == ASSUME Inv, ConnectorRestart PROVE Inv'
<1>1. /\ restarts' \in 0..MaxRestarts /\ epoch' \in Nat
  <2>1. restarts \in 0..MaxRestarts /\ restarts < MaxRestarts /\ restarts' = restarts + 1
        /\ epoch \in Nat /\ epoch' = epoch + 1
    BY DEF Inv, TypeOK, ConnectorRestart
  <2>2. QED
    BY <2>1, BoundsAssumption
<1>2. /\ dying' \in [Halls -> SUBSET Ids]
      /\ mapping' = [h \in Halls |-> [u \in Users |-> 0]]
  BY HallsTypes DEF ConnectorRestart
<1>3. UNCHANGED <<asked, told, tokens, orphans, pending, toDb, fromDb, toMgr, toLogin, toHalls,
                  fromHalls, load, joined, hallsToDb, dbToHalls, account, waiting, players,
                  crashed, up, logins>>
  BY DEF ConnectorRestart, users, dbLine, mgrLine, hallsDbLine
<1>4. TypeOK'
  BY <1>1, <1>2, <1>3 DEF Inv, TypeOK
<1>5. OnTheirWay'
  BY <1>3 DEF Inv, OnTheirWay, Made, Reply
<1>6. WaitingHasToken' /\ PlayersHadToken'
  BY <1>2, <1>3 DEF Inv, WaitingHasToken, PlayersHadToken
<1>7. QED
  BY <1>3, <1>4, <1>5, <1>6, EntriesKept DEF Inv

LEMMA DbmgrExitInv == ASSUME Inv, DbmgrExit PROVE Inv'
<1>1. restarts' \in 0..MaxRestarts
  <2>1. restarts \in 0..MaxRestarts /\ restarts < MaxRestarts /\ restarts' = restarts + 1
    BY DEF Inv, TypeOK, DbmgrExit
  <2>2. QED
    BY <2>1, BoundsAssumption
<1>2. /\ hallsToDb' \in [Halls -> Seq(Names)]
      /\ dbToHalls' \in [Halls -> Seq([name : Names, ok : BOOLEAN])]
      /\ toDb' \in Seq(Ids) /\ toDb' \in Seq(Made)
      /\ fromDb' \in Seq(Reply) /\ fromDb' \in Seq([id : Ids, ok : BOOLEAN])
      /\ up' \subseteq {"dbmgr", "hallsmgr"}
  BY Nothing DEF DbmgrExit, Inv, TypeOK
<1>3. UNCHANGED <<asked, told, tokens, orphans, pending, toMgr, toLogin, toHalls, fromHalls, load,
                  joined, account, waiting, players, mapping, dying, crashed, epoch, logins>>
  BY DEF DbmgrExit, users, mgrLine, objects
<1>4. TypeOK'
  BY <1>1, <1>2, <1>3 DEF Inv, TypeOK
<1>5. OnTheirWay'
  BY <1>2, <1>3 DEF Inv, OnTheirWay, Made, Reply
<1>6. QED
  BY <1>3, <1>4, <1>5, EntriesKept, PlayersKept DEF Inv

LEMMA HallsmgrExitInv == ASSUME Inv, HallsmgrExit PROVE Inv'
<1>1. restarts' \in 0..MaxRestarts
  <2>1. restarts \in 0..MaxRestarts /\ restarts < MaxRestarts /\ restarts' = restarts + 1
    BY DEF Inv, TypeOK, HallsmgrExit
  <2>2. QED
    BY <2>1, BoundsAssumption
<1>2. /\ toHalls' \in [Halls -> Seq(Made)] /\ toHalls' \in [Halls -> Seq(Ids)]
      /\ fromHalls' \in [Halls -> Seq(Reply)]
      /\ fromHalls' \in [Halls -> Seq([id : Ids, ok : BOOLEAN])]
      /\ toMgr' \in Seq(Ids) /\ toMgr' \in Seq(Made)
      /\ toLogin' \in Seq(Reply) /\ toLogin' \in Seq([id : Ids, ok : BOOLEAN])
      /\ up' \subseteq {"dbmgr", "hallsmgr"} /\ joined' = {}
  BY Nothing DEF HallsmgrExit, Inv, TypeOK
<1>3. UNCHANGED <<asked, told, tokens, orphans, pending, toDb, fromDb, load, hallsToDb, dbToHalls,
                  account, waiting, players, mapping, dying, crashed, epoch, logins>>
  BY DEF HallsmgrExit, users, dbLine, hallsDbLine, objects
<1>4. TypeOK'
  BY <1>1, <1>2, <1>3 DEF Inv, TypeOK
<1>5. OnTheirWay'
  BY <1>2, <1>3 DEF Inv, OnTheirWay, Made, Reply
<1>6. QED
  BY <1>3, <1>4, <1>5, EntriesKept, PlayersKept DEF Inv

LEMMA HallsJoinsInv == ASSUME Inv, NEW h \in Halls, HallsJoins(h) PROVE Inv'
<1>1. joined' \subseteq Halls /\ load' \in [Halls -> Nat]
  BY DEF Inv, TypeOK, HallsJoins
<1>2. TypeOK'
  BY <1>1 DEF Inv, TypeOK, HallsJoins, users, dbLine, hallsDbLine, objects, bounds
<1>3. OnTheirWay'
  BY DEF Inv, OnTheirWay, Made, Reply, HallsJoins, users, dbLine
<1>4. QED
  BY <1>2, <1>3, EntriesKept, PlayersKept DEF Inv, HallsJoins, users, objects

LEMMA ServerJoinedInv ==
  ASSUME Inv, NEW s \in {"dbmgr", "hallsmgr"}, onServerJoined(s) PROVE Inv'
<1>1. up' \subseteq {"dbmgr", "hallsmgr"}
  BY DEF Inv, TypeOK, onServerJoined
<1>2. TypeOK'
  BY <1>1 DEF Inv, TypeOK, onServerJoined, users, dbLine, mgrLine, hallsDbLine, objects
<1>3. OnTheirWay'
  BY DEF Inv, OnTheirWay, Made, Reply, onServerJoined, users, dbLine, mgrLine
<1>4. QED
  BY <1>2, <1>3, EntriesKept, PlayersKept DEF Inv, onServerJoined, users, objects

-------------------------------------------------------------------------------
(* Whose answer it is: a request has one copy on its way at most, and as long *)
(* as it has one, login keeps its entry or has forgotten it.                  *)

\* The lines of messages about requests, and the requests on them.
Ways == ({"toDb", "fromDb", "toMgr", "toLogin"} \X {NONE}) \cup ({"toHalls", "fromHalls"} \X Halls)
IdsOf(q) == [i \in 1..Len(q) |-> q[i].id]
Line(k, db, fdb, mgr, login, halls, fhalls) ==
  CASE k[1] = "toDb" -> db [] k[1] = "fromDb" -> IdsOf(fdb)
    [] k[1] = "toMgr" -> mgr [] k[1] = "toLogin" -> IdsOf(login)
    [] k[1] = "toHalls" -> halls[k[2]] [] k[1] = "fromHalls" -> IdsOf(fhalls[k[2]])
LinesOf(db, fdb, mgr, login, halls, fhalls) ==
  [k \in Ways |-> Line(k, db, fdb, mgr, login, halls, fhalls)]
lines == LinesOf(toDb, fromDb, toMgr, toLogin, toHalls, fromHalls)
Way(s) == <<s, NONE>>

OneCopy(L) ==
  \A k, m \in Ways : \A i \in 1..Len(L[k]), j \in 1..Len(L[m]) :
    L[k][i] = L[m][j] => k = m /\ i = j
On(L) == {id \in Ids : \E k \in Ways : \E i \in 1..Len(L[k]) : L[k][i] = id}

\* A request on its way has its entry at login, or login has forgotten it.
EntryOrForgotten ==
  \A id \in On(lines) :
    id \in orphans \/ (pending[NameOf(id)] # NONE /\ pending[NameOf(id)].id = id)

OwnInv == OneCopy(lines) /\ EntryOrForgotten /\ OwnAnswers

\* Two copies of one request are one copy.
LEMMA SameCopy ==
  ASSUME NEW L, OneCopy(L), NEW k \in Ways, NEW m \in Ways,
         NEW i \in 1..Len(L[k]), NEW j \in 1..Len(L[m]), L[k][i] = L[m][j]
  PROVE k = m /\ i = j
  BY DEF OneCopy

\* Lines that hold parts of others are about no other requests.
LEMMA FewerOn ==
  ASSUME NEW L, NEW M,
         \A k \in Ways : \A i \in 1..Len(M[k]) :
           \E m \in Ways : \E j \in 1..Len(L[m]) : L[m][j] = M[k][i]
  PROVE On(M) \subseteq On(L)
<1> SUFFICES ASSUME NEW id \in On(M) PROVE id \in On(L)
  OBVIOUS
<1>1. id \in Ids /\ \E k \in Ways : \E i \in 1..Len(M[k]) : M[k][i] = id
  BY DEF On
<1>2. PICK k \in Ways : \E i \in 1..Len(M[k]) : M[k][i] = id
  BY <1>1
<1>3. PICK i \in 1..Len(M[k]) : M[k][i] = id
  BY <1>2
<1>4. PICK m \in Ways : \E j \in 1..Len(L[m]) : L[m][j] = M[k][i]
  OBVIOUS
<1>5. PICK j \in 1..Len(L[m]) : L[m][j] = M[k][i]
  BY <1>4
<1>6. \E n \in Ways : \E o \in 1..Len(L[n]) : L[n][o] = id
  BY <1>3, <1>5
<1>7. QED
  BY <1>1, <1>6 DEF On

\* What a line holds after its head is taken, and after something is added.
LEMMA Positions ==
  ASSUME NEW S, NEW q \in Seq(S), NEW x \in S
  PROVE /\ Len(q) \in Nat
        /\ Len(Append(q, x)) = Len(q) + 1 /\ Append(q, x)[Len(q) + 1] = x
        /\ \A i \in 1..Len(q) : Append(q, x)[i] = q[i]
        /\ q # <<>> => /\ Head(q) = q[1] /\ 1 \in 1..Len(q) /\ Len(Tail(q)) = Len(q) - 1
                       /\ \A i \in 1..Len(q) - 1 : Tail(q)[i] = q[i + 1] /\ i + 1 \in 1..Len(q)
<1>1. Len(q) \in Nat /\ (q # <<>> => Len(q) # 0)
  OBVIOUS
<1>2. /\ Len(Append(q, x)) = Len(q) + 1 /\ Append(q, x)[Len(q) + 1] = x
      /\ \A i \in 1..Len(q) : Append(q, x)[i] = q[i]
  BY AddLast
<1>3. q # <<>> => Head(q) = q[1] /\ Len(Tail(q)) = Len(q) - 1
  OBVIOUS
<1>4. ASSUME q # <<>>, NEW i \in 1..Len(q) - 1 PROVE Tail(q)[i] = q[i + 1] /\ i + 1 \in 1..Len(q)
  BY <1>1, <1>4
<1>5. q # <<>> => 1 \in 1..Len(q)
  BY <1>1
<1>6. QED
  BY <1>1, <1>2, <1>3, <1>4, <1>5

\* A message goes from the head of a line to the end of another one.
LEMMA MoveCopy ==
  ASSUME NEW L \in [Ways -> Seq(Ids)], NEW M, OneCopy(L),
         NEW a \in Ways, NEW b \in Ways, a # b, L[a] # <<>>,
         M[a] = Tail(L[a]), M[b] = Append(L[b], Head(L[a])),
         \A k \in Ways \ {a, b} : M[k] = L[k]
  PROVE OneCopy(M) /\ On(M) \subseteq On(L)
<1>1. /\ L[a] \in Seq(Ids) /\ L[b] \in Seq(Ids) /\ Head(L[a]) \in Ids
  BY TakeFirst
<1>2. /\ Len(M[a]) = Len(L[a]) - 1 /\ Len(M[b]) = Len(L[b]) + 1
      /\ Head(L[a]) = L[a][1] /\ 1 \in 1..Len(L[a])
      /\ \A i \in 1..Len(M[a]) : M[a][i] = L[a][i + 1] /\ i + 1 \in 1..Len(L[a])
      /\ \A i \in 1..Len(L[b]) : M[b][i] = L[b][i]
      /\ M[b][Len(L[b]) + 1] = L[a][1] /\ Len(L[b]) \in Nat
  BY <1>1, Positions
<1> DEFINE line(k, i) == IF k = b /\ i = Len(L[b]) + 1 THEN a ELSE k
<1> DEFINE at(k, i) == IF k = b /\ i = Len(L[b]) + 1 THEN 1 ELSE IF k = a THEN i + 1 ELSE i
<1>3. ASSUME NEW k \in Ways, NEW i \in 1..Len(M[k])
      PROVE /\ line(k, i) \in Ways /\ at(k, i) \in 1..Len(L[line(k, i)])
            /\ M[k][i] = L[line(k, i)][at(k, i)]
  <2>1. CASE k = a
    BY <1>2, <2>1
  <2>2. CASE k = b /\ i = Len(L[b]) + 1
    BY <1>2, <2>2
  <2>3. CASE k = b /\ i # Len(L[b]) + 1
    <3>1. i \in 1..Len(L[b])
      BY <1>2, <2>3
    <3>2. QED
      BY <1>2, <2>3, <3>1
  <2>4. CASE k # a /\ k # b
    <3>1. M[k] = L[k]
      BY <2>4
    <3>2. QED
      BY <2>4, <3>1
  <2>5. QED
    BY <2>1, <2>2, <2>3, <2>4
<1>4. ASSUME NEW k \in Ways, NEW m \in Ways, NEW i \in Nat \ {0}, NEW j \in Nat \ {0},
             line(k, i) = line(m, j), at(k, i) = at(m, j)
      PROVE k = m /\ i = j
  <2>1. Len(L[b]) + 1 \in Nat
    BY <1>2
  <2>2. CASE k = b /\ i = Len(L[b]) + 1
    <3>1. m # a
      BY <1>4, <2>2
    <3>2. QED
      BY <1>4, <2>2, <3>1
  <2>3. CASE ~(k = b /\ i = Len(L[b]) + 1) /\ m = b /\ j = Len(L[b]) + 1
    BY <1>4, <2>3
  <2>4. CASE ~(k = b /\ i = Len(L[b]) + 1) /\ ~(m = b /\ j = Len(L[b]) + 1)
    BY <1>4, <2>4
  <2>5. QED
    BY <2>2, <2>3, <2>4
<1>5. \A k \in Ways : 1..Len(M[k]) \subseteq Nat \ {0}
  <2>1. ASSUME NEW k \in Ways PROVE Len(M[k]) \in Int
    <3>1. k = a \/ k = b \/ M[k] = L[k]
      OBVIOUS
    <3>2. Len(L[k]) \in Nat /\ Len(L[a]) \in Nat
      BY <1>1
    <3>3. QED
      BY <1>2, <3>1, <3>2
  <2>2. QED
    BY <2>1
<1> HIDE DEF line, at
<1>6. ASSUME NEW k \in Ways, NEW m \in Ways, NEW i \in 1..Len(M[k]), NEW j \in 1..Len(M[m]),
             M[k][i] = M[m][j]
      PROVE k = m /\ i = j
  <2>1. PICK k1 \in Ways : k1 = line(k, i)
    BY <1>3
  <2>2. PICK i1 \in 1..Len(L[k1]) : i1 = at(k, i) /\ M[k][i] = L[k1][i1]
    BY <1>3, <2>1
  <2>3. PICK m1 \in Ways : m1 = line(m, j)
    BY <1>3
  <2>4. PICK j1 \in 1..Len(L[m1]) : j1 = at(m, j) /\ M[m][j] = L[m1][j1]
    BY <1>3, <2>3
  <2>5. L[k1][i1] = L[m1][j1]
    BY <1>6, <2>2, <2>4, Zenon
  <2>6. k1 = m1 /\ i1 = j1
    BY <2>5, SameCopy
  <2>7. line(k, i) = line(m, j) /\ at(k, i) = at(m, j)
    BY <2>1, <2>2, <2>3, <2>4, <2>6
  <2>8. i \in Nat \ {0} /\ j \in Nat \ {0}
    BY <1>5
  <2>9. QED
    BY <1>4, <2>7, <2>8
<1>7. OneCopy(M)
  BY <1>6, Zenon DEF OneCopy
<1>8. On(M) \subseteq On(L)
  <2>1. ASSUME NEW k \in Ways, NEW i \in 1..Len(M[k])
        PROVE \E m \in Ways : \E j \in 1..Len(L[m]) : L[m][j] = M[k][i]
    BY <1>3, Zenon
  <2>2. QED
    BY <2>1, FewerOn
<1>9. QED
  BY <1>7, <1>8

\* A message is taken from the head of a line: no other one is about its request.
LEMMA TakeCopy ==
  ASSUME NEW L \in [Ways -> Seq(Ids)], NEW M, OneCopy(L),
         NEW a \in Ways, L[a] # <<>>, M[a] = Tail(L[a]), \A k \in Ways \ {a} : M[k] = L[k]
  PROVE OneCopy(M) /\ On(M) \subseteq On(L) \ {Head(L[a])} /\ Head(L[a]) \in On(L)
<1>1. L[a] \in Seq(Ids) /\ Head(L[a]) \in Ids
  BY TakeFirst
<1>2. /\ Len(M[a]) = Len(L[a]) - 1 /\ Head(L[a]) = L[a][1] /\ 1 \in 1..Len(L[a])
      /\ \A i \in 1..Len(M[a]) : M[a][i] = L[a][i + 1] /\ i + 1 \in 1..Len(L[a])
  BY <1>1, Positions
<1> DEFINE at(k, i) == IF k = a THEN i + 1 ELSE i
<1>3. ASSUME NEW k \in Ways, NEW i \in 1..Len(M[k])
      PROVE /\ at(k, i) \in 1..Len(L[k]) /\ M[k][i] = L[k][at(k, i)]
            /\ ~(k = a /\ at(k, i) = 1) /\ i \in Nat
  <2>1. CASE k = a
    BY <1>2, <2>1
  <2>2. CASE k # a
    <3>1. M[k] = L[k]
      BY <2>2
    <3>2. QED
      BY <2>2, <3>1
  <2>3. QED
    BY <2>1, <2>2
<1>4. ASSUME NEW k \in Ways, NEW i \in Nat, NEW j \in Nat, at(k, i) = at(k, j) PROVE i = j
  BY <1>4
<1> HIDE DEF at
<1>5. ASSUME NEW k \in Ways, NEW m \in Ways, NEW i \in 1..Len(M[k]), NEW j \in 1..Len(M[m]),
             M[k][i] = M[m][j]
      PROVE k = m /\ i = j
  <2>1. PICK i1 \in 1..Len(L[k]) : i1 = at(k, i) /\ M[k][i] = L[k][i1]
    BY <1>3
  <2>2. PICK j1 \in 1..Len(L[m]) : j1 = at(m, j) /\ M[m][j] = L[m][j1]
    BY <1>3
  <2>3. L[k][i1] = L[m][j1]
    BY <1>5, <2>1, <2>2
  <2>4. k = m /\ i1 = j1
    BY <2>1, <2>2, <2>3, SameCopy
  <2>5. QED
    BY <1>3, <1>4, <2>1, <2>2, <2>4
<1>6. OneCopy(M)
  BY <1>5, Zenon DEF OneCopy
<1>7. On(M) \subseteq On(L)
  <2>1. ASSUME NEW k \in Ways, NEW i \in 1..Len(M[k])
        PROVE \E m \in Ways : \E j \in 1..Len(L[m]) : L[m][j] = M[k][i]
    BY <1>3, Zenon
  <2>2. QED
    BY <2>1, FewerOn, Zenon
<1>8. Head(L[a]) \in On(L)
  BY <1>1, <1>2 DEF On
<1>9. Head(L[a]) \notin On(M)
  <2>1. ASSUME NEW k \in Ways, NEW i \in 1..Len(M[k]), M[k][i] = Head(L[a]) PROVE FALSE
    <3>1. k = a /\ at(k, i) = 1
      BY <1>2, <1>3, <2>1 DEF OneCopy
    <3>2. QED
      BY <1>3, <3>1
  <2>2. QED
    BY <2>1 DEF On
<1>10. QED
  BY <1>6, <1>7, <1>8, <1>9

\* A message about a request nobody has yet is sent.
LEMMA NewCopy ==
  ASSUME NEW L \in [Ways -> Seq(Ids)], NEW M, OneCopy(L),
         NEW a \in Ways, NEW r \in Ids, r \notin On(L),
         M[a] = Append(L[a], r), \A k \in Ways \ {a} : M[k] = L[k]
  PROVE OneCopy(M) /\ On(M) \subseteq On(L) \cup {r}
<1>1. /\ Len(M[a]) = Len(L[a]) + 1 /\ M[a][Len(L[a]) + 1] = r
      /\ \A i \in 1..Len(L[a]) : M[a][i] = L[a][i]
      /\ Len(L[a]) \in Nat
  BY Positions
<1>2. ASSUME NEW k \in Ways, NEW i \in 1..Len(M[k])
      PROVE \/ i \in 1..Len(L[k]) /\ M[k][i] = L[k][i]
            \/ k = a /\ i = Len(L[a]) + 1 /\ M[k][i] = r
  <2>1. CASE k = a
    BY <1>1, <2>1
  <2>2. CASE k # a
    <3>1. M[k] = L[k]
      BY <2>2
    <3>2. QED
      BY <3>1
  <2>3. QED
    BY <2>1, <2>2
<1>3. \A k \in Ways : \A i \in 1..Len(L[k]) : L[k][i] # r
  BY DEF On
<1>4. ASSUME NEW k \in Ways, NEW m \in Ways, NEW i \in 1..Len(M[k]), NEW j \in 1..Len(M[m]),
             M[k][i] = M[m][j]
      PROVE k = m /\ i = j
  BY <1>2, <1>3, <1>4 DEF OneCopy
<1>5. OneCopy(M)
  BY <1>4 DEF OneCopy
<1>6. On(M) \subseteq On(L) \cup {r}
  BY <1>2 DEF On
<1>7. QED
  BY <1>5, <1>6

\* Lines are lost.
LEMMA LoseCopies ==
  ASSUME NEW L \in [Ways -> Seq(Ids)], NEW M, OneCopy(L),
         \A k \in Ways : M[k] = L[k] \/ M[k] = <<>>
  PROVE OneCopy(M) /\ On(M) \subseteq On(L)
<1>1. ASSUME NEW k \in Ways, NEW i \in 1..Len(M[k]) PROVE i \in 1..Len(L[k]) /\ M[k][i] = L[k][i]
  <2>1. CASE M[k] = <<>>
    BY <2>1
  <2>2. CASE M[k] = L[k]
    BY <2>2
  <2>3. QED
    BY <2>1, <2>2
<1>2. OneCopy(M)
  BY <1>1 DEF OneCopy
<1>3. On(M) \subseteq On(L)
  BY <1>1 DEF On
<1>4. QED
  BY <1>2, <1>3

\* A sequence is the function of its positions.
LEMMA SeqIs == ASSUME NEW S, NEW q \in Seq(S) PROVE q = [i \in 1..Len(q) |-> q[i]]
  OBVIOUS

\* The numbers in a line of answers.
LEMMA IdsOfAnswers ==
  ASSUME NEW q \in Seq([id : Ids, ok : BOOLEAN]), NEW x \in [id : Ids, ok : BOOLEAN]
  PROVE /\ IdsOf(q) \in Seq(Ids) /\ IdsOf(Append(q, x)) = Append(IdsOf(q), x.id)
        /\ q # <<>> => /\ IdsOf(q) # <<>> /\ Head(IdsOf(q)) = Head(q).id
                       /\ IdsOf(Tail(q)) = Tail(IdsOf(q)) /\ Head(q).id \in Ids
<1> DEFINE S == [id : Ids, ok : BOOLEAN]
<1>1. /\ Len(q) \in Nat /\ \A i \in 1..Len(q) : q[i] \in S /\ q[i].id \in Ids
  <2>1. \A i \in 1..Len(q) : q[i] \in S
    BY ElementIn
  <2>2. \A y \in S : y.id \in Ids
    OBVIOUS
  <2>3. QED
    BY <2>1, <2>2
<1>2. IdsOf(q) \in Seq(Ids) /\ Len(IdsOf(q)) = Len(q) /\ \A i \in 1..Len(q) : IdsOf(q)[i] = q[i].id
  BY <1>1 DEF IdsOf
<1>3. IdsOf(Append(q, x)) = Append(IdsOf(q), x.id)
  <2>1. /\ Append(q, x) \in Seq(S) /\ Len(Append(q, x)) = Len(q) + 1
        /\ \A i \in 1..Len(q) : Append(q, x)[i] = q[i]
        /\ Append(q, x)[Len(q) + 1] = x
    BY AddLast
  <2>2. /\ Append(IdsOf(q), x.id) \in Seq(Ids) /\ Len(Append(IdsOf(q), x.id)) = Len(q) + 1
        /\ \A i \in 1..Len(q) : Append(IdsOf(q), x.id)[i] = q[i].id
        /\ Append(IdsOf(q), x.id)[Len(q) + 1] = x.id
    <3>1. x.id \in Ids
      OBVIOUS
    <3>2. QED
      BY <1>2, <3>1, AddLast
  <2>3. Append(IdsOf(q), x.id) = [i \in 1..Len(q) + 1 |-> Append(IdsOf(q), x.id)[i]]
    BY <2>2
  <2>4. IdsOf(Append(q, x)) = [i \in 1..Len(q) + 1 |-> Append(q, x)[i].id]
    BY <2>1 DEF IdsOf
  <2>5. \A i \in 1..Len(q) + 1 : Append(IdsOf(q), x.id)[i] = Append(q, x)[i].id
    <3>1. \A i \in 1..Len(q) + 1 : i \in 1..Len(q) \/ i = Len(q) + 1
      BY <1>1
    <3>2. QED
      BY <2>1, <2>2, <3>1
  <2>6. QED
    BY <2>3, <2>4, <2>5
<1>4. ASSUME q # <<>>
      PROVE /\ IdsOf(q) # <<>> /\ Head(IdsOf(q)) = Head(q).id
            /\ IdsOf(Tail(q)) = Tail(IdsOf(q)) /\ Head(q).id \in Ids
  <2>1. /\ Tail(q) \in Seq(S) /\ Len(Tail(q)) = Len(q) - 1 /\ Head(q) = q[1] /\ 1 \in 1..Len(q)
        /\ \A i \in 1..Len(q) - 1 : Tail(q)[i] = q[i + 1] /\ i + 1 \in 1..Len(q)
    BY <1>4, Positions, TakeFirst
  <2>2. IdsOf(q) # <<>>
    BY <1>2, <2>1
  <2>3. /\ Tail(IdsOf(q)) \in Seq(Ids) /\ Len(Tail(IdsOf(q))) = Len(q) - 1
        /\ Head(IdsOf(q)) = q[1].id
        /\ \A i \in 1..Len(q) - 1 : Tail(IdsOf(q))[i] = q[i + 1].id
    <3>1. q[1].id \in Ids
      BY <1>1, <2>1
    <3>2. /\ Tail(IdsOf(q)) \in Seq(Ids) /\ Len(Tail(IdsOf(q))) = Len(q) - 1
          /\ Head(IdsOf(q)) = IdsOf(q)[1]
          /\ \A i \in 1..Len(q) - 1 : Tail(IdsOf(q))[i] = IdsOf(q)[i + 1]
      BY <1>2, <2>2, <3>1, Positions, TakeFirst
    <3>3. QED
      BY <1>2, <2>1, <3>2
  <2>4. Tail(IdsOf(q)) = [i \in 1..Len(q) - 1 |-> Tail(IdsOf(q))[i]]
    <3>1. Tail(IdsOf(q)) = [i \in 1..Len(Tail(IdsOf(q))) |-> Tail(IdsOf(q))[i]]
      BY <2>3, SeqIs
    <3>2. QED
      BY <2>3, <3>1
  <2>5. IdsOf(Tail(q)) = [i \in 1..Len(q) - 1 |-> Tail(q)[i].id]
    BY <2>1 DEF IdsOf
  <2>6. \A i \in 1..Len(q) - 1 : Tail(IdsOf(q))[i] = Tail(q)[i].id
    BY <2>1, <2>3
  <2>7. QED
    BY <1>1, <2>1, <2>2, <2>3, <2>4, <2>5, <2>6
<1>5. QED
  BY <1>2, <1>3, <1>4

\* Which lines there are, and what is on them.
LEMMA LinesAre ==
  ASSUME NEW db, NEW fdb, NEW mgr, NEW login, NEW halls, NEW fhalls
  PROVE LET L == LinesOf(db, fdb, mgr, login, halls, fhalls) IN
        /\ {Way("toDb"), Way("fromDb"), Way("toMgr"), Way("toLogin")} \subseteq Ways
        /\ \A h \in Halls : <<"toHalls", h>> \in Ways /\ <<"fromHalls", h>> \in Ways
        /\ \A k \in Ways : \/ k \in {Way("toDb"), Way("fromDb"), Way("toMgr"), Way("toLogin")}
                           \/ \E h \in Halls : k = <<"toHalls", h>> \/ k = <<"fromHalls", h>>
        /\ L[Way("toDb")] = db /\ L[Way("fromDb")] = IdsOf(fdb)
        /\ L[Way("toMgr")] = mgr /\ L[Way("toLogin")] = IdsOf(login)
        /\ \A h \in Halls : L[<<"toHalls", h>>] = halls[h] /\ L[<<"fromHalls", h>>] = IdsOf(fhalls[h])
  BY DEF LinesOf, Line, Way, Ways

\* The lines of one halls server, before and after a step.
LEMMA HallsLines ==
  ASSUME NEW h \in Halls
  PROVE /\ <<"toHalls", h>> \in Ways /\ <<"fromHalls", h>> \in Ways
        /\ lines[<<"toHalls", h>>] = toHalls[h] /\ lines'[<<"toHalls", h>>] = toHalls'[h]
        /\ lines[<<"fromHalls", h>>] = IdsOf(fromHalls[h])
        /\ lines'[<<"fromHalls", h>>] = IdsOf(fromHalls'[h])
<1>1. <<"toHalls", h>> \in Ways /\ <<"fromHalls", h>> \in Ways
  BY DEF Ways
<1>2. lines[<<"toHalls", h>>] = toHalls[h] /\ lines'[<<"toHalls", h>>] = toHalls'[h]
  BY <1>1 DEF lines, LinesOf, Line
<1>3. lines[<<"fromHalls", h>>] = IdsOf(fromHalls[h])
  BY <1>1 DEF lines, LinesOf, Line
<1>4. lines'[<<"fromHalls", h>>] = IdsOf(fromHalls'[h])
  BY <1>1 DEF lines, LinesOf, Line
<1>5. QED
  BY <1>1, <1>2, <1>3, <1>4

\* A line in which nothing moves stays as it is.
LEMMA OtherLines ==
  ASSUME NEW A,
         Way("toDb") \in A \/ toDb' = toDb, Way("fromDb") \in A \/ fromDb' = fromDb,
         Way("toMgr") \in A \/ toMgr' = toMgr, Way("toLogin") \in A \/ toLogin' = toLogin,
         \A h \in Halls : <<"toHalls", h>> \in A \/ toHalls'[h] = toHalls[h],
         \A h \in Halls : <<"fromHalls", h>> \in A \/ fromHalls'[h] = fromHalls[h]
  PROVE \A k \in Ways \ A : lines'[k] = lines[k]
<1> SUFFICES ASSUME NEW k \in Ways, k \notin A PROVE lines'[k] = lines[k]
  OBVIOUS
<1>1. CASE k = Way("toDb") \/ k = Way("toMgr")
  BY <1>1, LinesAre DEF lines
<1>2. CASE k = Way("fromDb")
  BY <1>2, LinesAre DEF lines
<1>3. CASE k = Way("toLogin")
  BY <1>3, LinesAre DEF lines
<1>4. ASSUME NEW h \in Halls, k = <<"toHalls", h>> PROVE lines'[k] = lines[k]
  <2>1. lines[<<"toHalls", h>>] = toHalls[h] /\ lines'[<<"toHalls", h>>] = toHalls'[h]
    BY HallsLines
  <2>2. QED
    BY <1>4, <2>1
<1>5. ASSUME NEW h \in Halls, k = <<"fromHalls", h>> PROVE lines'[k] = lines[k]
  <2>1. /\ lines[<<"fromHalls", h>>] = IdsOf(fromHalls[h])
        /\ lines'[<<"fromHalls", h>>] = IdsOf(fromHalls'[h])
    BY HallsLines
  <2>2. fromHalls'[h] = fromHalls[h]
    BY <1>5
  <2>3. QED
    BY <1>5, <2>1, <2>2
<1>6. QED
  BY <1>1, <1>2, <1>3, <1>4, <1>5, LinesAre

\* Only requests that were made are on the lines.
LEMMA LinesType ==
  ASSUME Inv
  PROVE lines \in [Ways -> Seq(Ids)] /\ On(lines) \subseteq Made
<1>1. \A q \in Seq(Reply) : IdsOf(q) \in Seq(Made)
  <2>1. ASSUME NEW q \in Seq(Reply) PROVE IdsOf(q) \in Seq(Made)
    <3>1. \A i \in 1..Len(q) : q[i] \in Reply
      BY ElementIn
    <3>2. \A y \in Reply : y.id \in Made
      BY DEF Reply
    <3>3. Len(q) \in Nat /\ \A i \in 1..Len(q) : q[i].id \in Made
      BY <3>1, <3>2
    <3>4. QED
      BY <3>3 DEF IdsOf
  <2>2. QED
    BY <2>1
<1>2. ASSUME NEW k \in Ways PROVE lines[k] \in Seq(Made)
  <2>1. CASE k \in {Way("toDb"), Way("fromDb"), Way("toMgr"), Way("toLogin")}
    <3>1. toDb \in Seq(Made) /\ toMgr \in Seq(Made) /\ IdsOf(fromDb) \in Seq(Made)
          /\ IdsOf(toLogin) \in Seq(Made)
      BY <1>1 DEF Inv, OnTheirWay
    <3>2. QED
      BY <2>1, <3>1, LinesAre DEF lines
  <2>2. ASSUME NEW h \in Halls, k = <<"toHalls", h>> \/ k = <<"fromHalls", h>>
        PROVE lines[k] \in Seq(Made)
    <3>1. toHalls[h] \in Seq(Made) /\ IdsOf(fromHalls[h]) \in Seq(Made)
      BY <1>1, LineTypes
    <3>2. lines[<<"toHalls", h>>] = toHalls[h] /\ lines[<<"fromHalls", h>>] = IdsOf(fromHalls[h])
      BY LinesAre DEF lines
    <3>3. QED
      BY <2>2, <3>1, <3>2
  <2>3. QED
    BY <2>1, <2>2, LinesAre
<1>3. \A k \in Ways : lines[k] \in Seq(Ids)
  BY <1>2, LoginTypes, SeqGrows
<1>4. lines \in [Ways -> Seq(Ids)]
  BY <1>3 DEF lines, LinesOf
<1>5. On(lines) \subseteq Made
  BY <1>2, ElementIn DEF On
<1>6. QED
  BY <1>4, <1>5

\* Messages go on or are lost, and login keeps what it has.
LEMMA OwnKept ==
  ASSUME Inv, OwnInv, OneCopy(lines'), On(lines') \subseteq On(lines),
         UNCHANGED <<asked, told, orphans, pending>>
  PROVE OwnInv'
<1>1. EntryOrForgotten'
  BY DEF OwnInv, EntryOrForgotten, NameOf
<1>2. OwnAnswers'
  BY DEF OwnInv, OwnAnswers
<1>3. QED
  BY <1>1, <1>2 DEF OwnInv

\* An entry goes: if the request it belongs to still waits, it is forgotten.
LEMMA OwnDeleted ==
  ASSUME Inv, OwnInv, OneCopy(lines'), NEW n \in Names, NEW id \in Made,
         On(lines') \subseteq On(lines) \ {id},
         asked' = asked, delPendingAccount(n, id)
  PROVE OneCopy(lines') /\ EntryOrForgotten' /\ orphans \subseteq orphans'
<1>1. orphans \subseteq orphans'
  BY DEF delPendingAccount
<1>2. ASSUME NEW x \in On(lines'), x \notin orphans'
      PROVE pending'[NameOf(x)] # NONE /\ pending'[NameOf(x)].id = x
  <2>1. x \in On(lines) /\ x # id /\ x \notin orphans /\ x \in Made
    BY <1>1, <1>2, LinesType
  <2>2. pending[NameOf(x)] # NONE /\ pending[NameOf(x)].id = x
    BY <2>1 DEF OwnInv, EntryOrForgotten
  <2>3. NameOf(x) # n
    BY <1>2, <2>1, <2>2 DEF delPendingAccount
  <2>4. NameOf(x) \in Names /\ pending'[NameOf(x)] = pending[NameOf(x)]
    BY <2>1, <2>3, Asked, LoginTypes DEF delPendingAccount
  <2>5. QED
    BY <2>2, <2>4
<1>3. EntryOrForgotten'
  BY <1>2 DEF EntryOrForgotten, NameOf
<1>4. QED
  BY <1>1, <1>3

\* Whoever waits under the name gets the answer to id: it is its own, or login
\* has forgotten id.
LEMMA OwnAnswer ==
  ASSUME Inv, OwnInv, OneCopy(lines'), NEW id \in On(lines), NEW ok \in BOOLEAN,
         On(lines') \subseteq On(lines) \ {id}, asked' = asked,
         pending[NameOf(id)] # NONE, Answer(NameOf(id), id, ok)
  PROVE OwnInv'
<1> DEFINE n == NameOf(id)
<1> DEFINE r == pending[n].id
<1>1. id \in Made /\ n \in Names /\ id \in Ids
  BY LinesType, Asked
<1>2. /\ OneCopy(lines') /\ EntryOrForgotten' /\ orphans \subseteq orphans'
  BY <1>1, OwnDeleted DEF Answer
<1>3. id \in orphans \/ r = id
  BY DEF OwnInv, EntryOrForgotten
<1>4. ASSUME NEW r2 \in Ids, NEW i \in DOMAIN told'[r2] PROVE told'[r2][i].id \in {r2} \cup orphans'
  <2>1. told[r2] \in Seq([id : Ids, ok : BOOLEAN])
    BY LoginTypes
  <2>2. CASE told'[r2] = told[r2]
    BY <1>2, <2>2 DEF OwnInv, OwnAnswers
  <2>3. CASE r2 = r /\ told'[r2] = Append(told[r2], [id |-> id, ok |-> ok])
    <3>1. [id |-> id, ok |-> ok] \in [id : Ids, ok : BOOLEAN]
      BY <1>1
    <3>2. /\ DOMAIN told'[r2] = 1..Len(told[r2]) + 1
          /\ \A j \in 1..Len(told[r2]) : told'[r2][j] = told[r2][j]
          /\ told'[r2][Len(told[r2]) + 1] = [id |-> id, ok |-> ok]
          /\ DOMAIN told[r2] = 1..Len(told[r2]) /\ Len(told[r2]) \in Nat
      BY <2>1, <2>3, <3>1, AddLast
    <3>3. CASE i = Len(told[r2]) + 1
      BY <1>2, <1>3, <2>3, <3>2, <3>3
    <3>4. CASE i # Len(told[r2]) + 1
      <4>1. i \in DOMAIN told[r2] /\ told'[r2][i] = told[r2][i]
        BY <3>2, <3>4
      <4>2. QED
        BY <1>2, <4>1 DEF OwnInv, OwnAnswers
    <3>5. QED
      BY <3>3, <3>4
  <2>4. \/ told' = told
        \/ told' = [told EXCEPT ![r] = Append(told[r], [id |-> id, ok |-> ok])]
    BY LoginTypes, <1>1 DEF Answer, Tell
  <2>5. QED
    BY <2>2, <2>3, <2>4, LoginTypes
<1>5. OwnAnswers'
  BY <1>4 DEF OwnAnswers
<1>6. QED
  BY <1>2, <1>5 DEF OwnInv

LEMMA RequestOwn ==
  ASSUME Inv, OwnInv, NEW u \in Users, NEW n \in Names, NEW kind \in Kinds, Request(u, n, kind)
  PROVE OwnInv'
<1> DEFINE r == Len(asked) + 1
<1>1. /\ r \in Ids /\ r \notin Made /\ Made \subseteq Ids
      /\ \A i \in Made : asked'[i] = asked[i]
      /\ asked'[r].name = n /\ On(lines) \subseteq Made /\ lines \in [Ways -> Seq(Ids)]
      /\ told \in [Ids -> Seq([id : Ids, ok : BOOLEAN])]
      /\ pending \in [Names -> [id : Made, epoch : Nat] \cup {NONE}]
  <2>1. r \in Ids /\ r \notin Made /\ \A i \in Made : asked'[i] = asked[i] /\ asked'[r].name = n
    BY LoginTypes, BoundsAssumption DEF Request, Ids, Made
  <2>2. asked'[r].name = n
    BY LoginTypes DEF Request
  <2>3. QED
    BY <2>1, <2>2, LoginTypes, LinesType
<1>2. CASE addPendingAccount(n, r) /\ toDb' = Append(toDb, r) /\ told' = told
  <2>1. /\ lines'[Way("toDb")] = Append(lines[Way("toDb")], r)
        /\ \A k \in Ways \ {Way("toDb")} : lines'[k] = lines[k]
    <3>1. UNCHANGED <<fromDb, toMgr, toLogin, toHalls, fromHalls>>
      BY DEF Request, mgrLine
    <3>2. lines'[Way("toDb")] = Append(lines[Way("toDb")], r)
      <4>1. lines[Way("toDb")] = toDb /\ lines'[Way("toDb")] = toDb'
        BY LinesAre DEF lines
      <4>2. QED
        BY <1>2, <4>1
    <3>3. \A k \in Ways \ {Way("toDb")} : lines'[k] = lines[k]
      BY <3>1, OtherLines
    <3>4. QED
      BY <3>2, <3>3
  <2>2. OneCopy(lines') /\ On(lines') \subseteq On(lines) \cup {r}
    <3>1. Way("toDb") \in Ways /\ OneCopy(lines) /\ r \notin On(lines)
      BY <1>1, LinesAre DEF OwnInv
    <3> DEFINE a == Way("toDb")
    <3>2. /\ a \in Ways /\ lines'[a] = Append(lines[a], r)
          /\ \A k \in Ways \ {a} : lines'[k] = lines[k]
      BY <2>1, <3>1
    <3>3. lines \in [Ways -> Seq(Ids)] /\ r \in Ids
      BY <1>1
    <3> HIDE DEF r, a
    <3>4. QED
      BY <3>1, <3>2, <3>3, NewCopy
  <2>3. ASSUME NEW x \in On(lines'), x \notin orphans'
        PROVE pending'[NameOf(x)'] # NONE /\ pending'[NameOf(x)'].id = x
    <3>1. CASE x = r
      <4>1. NameOf(x)' = n
        BY <1>1, <3>1 DEF NameOf
      <4>2. pending'[n] = [id |-> r, epoch |-> epoch]
        BY <1>1, <1>2 DEF addPendingAccount
      <4>3. pending'[n] # NONE
        <5>1. epoch \in Nat /\ r \in Nat
          BY <1>1 DEF Inv, TypeOK, Ids
        <5>2. [id |-> r, epoch |-> epoch] \in [id : Nat, epoch : Nat]
          BY <5>1
        <5>3. QED
          BY <4>2, <5>2, NoneAssumption
      <4>4. QED
        BY <3>1, <4>1, <4>2, <4>3
    <3>2. CASE x # r
      <4>1. x \in On(lines) /\ x \in Made /\ x \notin orphans
        BY <1>1, <1>2, <2>2, <2>3, <3>2 DEF addPendingAccount
      <4>2. pending[NameOf(x)] # NONE /\ pending[NameOf(x)].id = x /\ NameOf(x)' = NameOf(x)
        BY <1>1, <4>1 DEF OwnInv, EntryOrForgotten, NameOf
      <4>3. pending'[NameOf(x)] = pending[NameOf(x)]
        BY <1>1, <1>2, <4>1, <4>2, Asked DEF addPendingAccount
      <4>4. QED
        BY <4>2, <4>3
    <3>3. QED
      BY <3>1, <3>2
  <2>4. EntryOrForgotten'
    BY <2>3 DEF EntryOrForgotten
  <2>5. OwnAnswers'
    BY <1>2 DEF OwnInv, OwnAnswers, addPendingAccount
  <2>6. QED
    BY <2>2, <2>4, <2>5 DEF OwnInv
<1>3. CASE delPendingAccount(n, r) /\ toDb' = toDb /\ Tell(r, r, FALSE)
  <2>1. lines' = lines
    BY <1>3 DEF lines, Request, mgrLine
  <2>2. ASSUME NEW x \in On(lines), x \notin orphans'
        PROVE pending'[NameOf(x)'] # NONE /\ pending'[NameOf(x)'].id = x
    <3>1. x \in Made /\ x # r /\ x \notin orphans
      BY <1>1, <1>3, <2>2 DEF delPendingAccount
    <3>2. pending[NameOf(x)] # NONE /\ pending[NameOf(x)].id = x /\ NameOf(x)' = NameOf(x)
      BY <1>1, <3>1 DEF OwnInv, EntryOrForgotten, NameOf
    <3>3. NameOf(x) # n
      BY <1>3, <2>2, <3>1, <3>2 DEF delPendingAccount
    <3>4. pending'[NameOf(x)] = pending[NameOf(x)]
      BY <1>1, <1>3, <3>1, <3>3, Asked DEF delPendingAccount
    <3>5. QED
      BY <3>2, <3>4
  <2>3. OneCopy(lines') /\ EntryOrForgotten'
    BY <2>1, <2>2 DEF OwnInv, EntryOrForgotten
  <2>4. told[r] = <<>> /\ told' = [told EXCEPT ![r] = Append(told[r], [id |-> r, ok |-> FALSE])]
    BY <1>1, <1>3 DEF Tell, Inv, EntryIsOpen
  <2>5. ASSUME NEW r2 \in Ids, NEW i \in DOMAIN told'[r2] PROVE told'[r2][i].id \in {r2} \cup orphans'
    <3>1. CASE r2 = r
      <4>1. told'[r2] = Append(<<>>, [id |-> r, ok |-> FALSE])
        BY <1>1, <2>4, <3>1
      <4>2. told'[r2] = <<[id |-> r, ok |-> FALSE]>>
        BY <4>1
      <4>3. QED
        BY <2>5, <3>1, <4>2
    <3>2. CASE r2 # r
      <4>1. told'[r2] = told[r2] /\ orphans \subseteq orphans'
        BY <1>1, <1>3, <2>4, <3>2 DEF delPendingAccount
      <4>2. QED
        BY <2>5, <4>1 DEF OwnInv, OwnAnswers
    <3>3. QED
      BY <3>1, <3>2
  <2>6. QED
    BY <2>3, <2>5 DEF OwnInv, OwnAnswers
<1>4. QED
  BY <1>2, <1>3 DEF Request

\* Login takes an answer of dbmgr, or one of hallsmgr, and nothing else moves.
LEMMA TakesFromDb ==
  ASSUME Inv, OwnInv, UNCHANGED <<toDb, toMgr, toLogin, toHalls, fromHalls>>,
         fromDb # <<>>, fromDb' = Tail(fromDb)
  PROVE /\ OneCopy(lines') /\ On(lines') \subseteq On(lines) \ {Head(fromDb).id}
        /\ Head(fromDb).id \in On(lines) /\ Head(fromDb).ok \in BOOLEAN
<1> DEFINE a == Way("fromDb")
<1>1. lines \in [Ways -> Seq(Ids)] /\ OneCopy(lines)
  BY LinesType DEF OwnInv
<1>2. fromDb \in Seq([id : Ids, ok : BOOLEAN]) /\ Head(fromDb) \in [id : Ids, ok : BOOLEAN]
  BY TakeFirst DEF Inv, TypeOK
<1>3. /\ IdsOf(fromDb) # <<>> /\ Head(IdsOf(fromDb)) = Head(fromDb).id
      /\ IdsOf(fromDb') = Tail(IdsOf(fromDb))
  BY <1>2, IdsOfAnswers
<1>4. a \in Ways /\ lines[a] = IdsOf(fromDb) /\ lines'[a] = IdsOf(fromDb')
  BY LinesAre DEF lines
<1>5. \A k \in Ways \ {a} : lines'[k] = lines[k]
  BY OtherLines
<1> HIDE DEF a
<1>6. /\ OneCopy(lines') /\ On(lines') \subseteq On(lines) \ {Head(lines[a])}
      /\ Head(lines[a]) \in On(lines)
  <2>1. lines[a] # <<>> /\ lines'[a] = Tail(lines[a])
    BY <1>3, <1>4
  <2>2. QED
    BY <1>1, <1>4, <1>5, <2>1, TakeCopy
<1>7. QED
  BY <1>2, <1>3, <1>4, <1>6

LEMMA TakesToLogin ==
  ASSUME Inv, OwnInv, UNCHANGED <<toDb, fromDb, toMgr, toHalls, fromHalls>>,
         toLogin # <<>>, toLogin' = Tail(toLogin)
  PROVE /\ OneCopy(lines') /\ On(lines') \subseteq On(lines) \ {Head(toLogin).id}
        /\ Head(toLogin).id \in On(lines) /\ Head(toLogin).ok \in BOOLEAN
<1> DEFINE a == Way("toLogin")
<1>1. lines \in [Ways -> Seq(Ids)] /\ OneCopy(lines)
  BY LinesType DEF OwnInv
<1>2. toLogin \in Seq([id : Ids, ok : BOOLEAN]) /\ Head(toLogin) \in [id : Ids, ok : BOOLEAN]
  BY TakeFirst DEF Inv, TypeOK
<1>3. /\ IdsOf(toLogin) # <<>> /\ Head(IdsOf(toLogin)) = Head(toLogin).id
      /\ IdsOf(toLogin') = Tail(IdsOf(toLogin))
  BY <1>2, IdsOfAnswers
<1>4. a \in Ways /\ lines[a] = IdsOf(toLogin) /\ lines'[a] = IdsOf(toLogin')
  BY LinesAre DEF lines
<1>5. \A k \in Ways \ {a} : lines'[k] = lines[k]
  BY OtherLines
<1> HIDE DEF a
<1>6. /\ OneCopy(lines') /\ On(lines') \subseteq On(lines) \ {Head(lines[a])}
      /\ Head(lines[a]) \in On(lines)
  <2>1. lines[a] # <<>> /\ lines'[a] = Tail(lines[a])
    BY <1>3, <1>4
  <2>2. QED
    BY <1>1, <1>4, <1>5, <2>1, TakeCopy
<1>7. QED
  BY <1>2, <1>3, <1>4, <1>6

LEMMA SignupCBOwn == ASSUME Inv, OwnInv, onSessionSignupCB PROVE OwnInv'
<1> DEFINE id == Head(fromDb).id
<1>1. UNCHANGED <<asked, toDb, toMgr, toLogin, toHalls, fromHalls>> /\ fromDb' = Tail(fromDb)
      /\ fromDb # <<>>
  BY DEF onSessionSignupCB, mgrLine
<1>2. /\ OneCopy(lines') /\ On(lines') \subseteq On(lines) \ {id} /\ id \in On(lines)
      /\ Head(fromDb).ok \in BOOLEAN
  BY <1>1, TakesFromDb
<1>3. CASE pending[NameOf(id)] = NONE
  <2>1. UNCHANGED <<told, pending, orphans>>
    BY <1>3 DEF onSessionSignupCB
  <2>2. QED
    BY <1>1, <1>2, <2>1, OwnKept
<1>4. CASE pending[NameOf(id)] # NONE
  <2>1. Answer(NameOf(id), id, Head(fromDb).ok)
    BY <1>4 DEF onSessionSignupCB
  <2>2. QED
    BY <1>1, <1>2, <1>4, <2>1, OwnAnswer
<1>5. QED
  BY <1>3, <1>4

LEMMA RequestAllocClientCBOwn ==
  ASSUME Inv, OwnInv, onSessionRequestAllocClientCB PROVE OwnInv'
<1> DEFINE id == Head(toLogin).id
<1> DEFINE n == NameOf(id)
<1>1. UNCHANGED <<asked, toDb, fromDb, toMgr, toHalls, fromHalls>> /\ toLogin' = Tail(toLogin)
      /\ toLogin # <<>>
  BY Zenon DEF onSessionRequestAllocClientCB, dbLine
<1>2. /\ OneCopy(lines') /\ On(lines') \subseteq On(lines) \ {id} /\ id \in On(lines)
      /\ Head(toLogin).ok \in BOOLEAN /\ id \in Made /\ n \in Names
  BY <1>1, TakesToLogin, LinesType, Asked
<1>3. CASE UNCHANGED <<told, tokens, pending, orphans>>
  BY <1>1, <1>2, <1>3, OwnKept
<1>4. CASE pending[n] # NONE /\ Answer(n, id, Head(toLogin).ok)
  BY <1>1, <1>2, <1>4, OwnAnswer
<1>5. CASE pending[n] # NONE /\ delPendingAccount(n, id) /\ UNCHANGED <<told, tokens>>
  <2>1. OneCopy(lines') /\ EntryOrForgotten' /\ orphans \subseteq orphans'
    BY <1>1, <1>2, <1>5, OwnDeleted
  <2>2. OwnAnswers'
    BY <1>5, <2>1 DEF OwnInv, OwnAnswers
  <2>3. QED
    BY <2>1, <2>2 DEF OwnInv
<1>6. \/ UNCHANGED <<told, tokens, pending, orphans>>
      \/ pending[n] # NONE /\ Answer(n, id, Head(toLogin).ok)
      \/ pending[n] # NONE /\ delPendingAccount(n, id) /\ UNCHANGED <<told, tokens>>
  BY Zenon DEF onSessionRequestAllocClientCB
<1>7. QED
  BY <1>3, <1>4, <1>5, <1>6

\* A message about the first request of a line goes to the end of another one.
LEMMA MoveOwn ==
  ASSUME Inv, OwnInv, UNCHANGED <<asked, told, orphans, pending>>,
         NEW a \in Ways, NEW b \in Ways, a # b, lines[a] # <<>>,
         lines'[a] = Tail(lines[a]), lines'[b] = Append(lines[b], Head(lines[a])),
         \A k \in Ways \ {a, b} : lines'[k] = lines[k]
  PROVE OwnInv'
<1>1. lines \in [Ways -> Seq(Ids)] /\ OneCopy(lines)
  BY LinesType DEF OwnInv
<1>2. OneCopy(lines') /\ On(lines') \subseteq On(lines)
  BY <1>1, MoveCopy
<1>3. QED
  BY <1>2, OwnKept

\* Lines are lost or stay.
LEMMA LoseOwn ==
  ASSUME Inv, OwnInv, UNCHANGED <<asked, told, orphans, pending>>,
         \A k \in Ways : lines'[k] = lines[k] \/ lines'[k] = <<>>
  PROVE OwnInv'
<1>1. lines \in [Ways -> Seq(Ids)] /\ OneCopy(lines)
  BY LinesType DEF OwnInv
<1>2. OneCopy(lines') /\ On(lines') \subseteq On(lines)
  BY <1>1, LoseCopies
<1>3. QED
  BY <1>2, OwnKept

\* What halls and the restarts leave alone.
LEMMA SameOwn ==
  ASSUME Inv, OwnInv, UNCHANGED <<asked, told, orphans, pending, toDb, fromDb, toMgr, toLogin, toHalls, fromHalls>>
  PROVE OwnInv'
  BY LoseOwn DEF lines

LEMMA SigninCBOwn == ASSUME Inv, OwnInv, onSessionSigninCB PROVE OwnInv'
<1> DEFINE id == Head(fromDb).id
<1>1. /\ UNCHANGED <<asked, told, orphans, pending, toDb, toLogin, toHalls, fromHalls>>
      /\ fromDb' = Tail(fromDb) /\ fromDb # <<>>
      /\ toMgr' = toMgr \/ toMgr' = Append(toMgr, id)
  BY DEF onSessionSigninCB, users
<1>2. CASE toMgr' = toMgr
  <2>1. OneCopy(lines') /\ On(lines') \subseteq On(lines)
    BY <1>1, <1>2, TakesFromDb
  <2>2. QED
    BY <1>1, <2>1, OwnKept
<1>3. CASE toMgr' = Append(toMgr, id)
  <2> DEFINE a == Way("fromDb")
  <2> DEFINE b == Way("toMgr")
  <2>1. /\ IdsOf(fromDb) # <<>> /\ Head(IdsOf(fromDb)) = id /\ IdsOf(fromDb') = Tail(IdsOf(fromDb))
    <3>1. fromDb \in Seq([id : Ids, ok : BOOLEAN]) /\ Head(fromDb) \in [id : Ids, ok : BOOLEAN]
      BY <1>1, TakeFirst DEF Inv, TypeOK
    <3>2. QED
      BY <1>1, <3>1, IdsOfAnswers
  <2>2. /\ a \in Ways /\ lines[a] = IdsOf(fromDb) /\ lines'[a] = IdsOf(fromDb')
        /\ b \in Ways /\ lines[b] = toMgr /\ lines'[b] = toMgr' /\ a # b
    BY LinesAre DEF lines, Way
  <2>3. \A k \in Ways \ {a, b} : lines'[k] = lines[k]
    BY <1>1, OtherLines
  <2> HIDE DEF a, b
  <2>4. /\ lines[a] # <<>> /\ lines'[a] = Tail(lines[a])
        /\ lines'[b] = Append(lines[b], Head(lines[a]))
    BY <1>3, <2>1, <2>2
  <2>5. QED
    BY <1>1, <2>2, <2>3, <2>4, MoveOwn
<1>4. QED
  BY <1>1, <1>2, <1>3

LEMMA LoginTimeoutOwn == ASSUME Inv, OwnInv, NEW n \in Names, LoginTimeout(n) PROVE OwnInv'
<1>1. /\ UNCHANGED <<asked, told, toDb, fromDb, toMgr, toLogin, toHalls, fromHalls>>
      /\ orphans' = orphans \cup {pending[n].id} /\ pending' = [pending EXCEPT ![n] = NONE]
  BY DEF LoginTimeout, dbLine, mgrLine
<1>2. lines' = lines
  BY <1>1 DEF lines
<1>3. ASSUME NEW x \in On(lines), x \notin orphans'
      PROVE pending'[NameOf(x)] # NONE /\ pending'[NameOf(x)].id = x
  <2>1. x \in Made /\ pending[NameOf(x)] # NONE /\ pending[NameOf(x)].id = x
    BY <1>1, <1>3, LinesType DEF OwnInv, EntryOrForgotten
  <2>2. NameOf(x) # n
    BY <1>1, <1>3, <2>1
  <2>3. pending'[NameOf(x)] = pending[NameOf(x)]
    BY <1>1, <2>1, <2>2, Asked, LoginTypes
  <2>4. QED
    BY <2>1, <2>3
<1>4. OneCopy(lines') /\ EntryOrForgotten'
  BY <1>1, <1>2, <1>3 DEF OwnInv, EntryOrForgotten, NameOf
<1>5. OwnAnswers'
  BY <1>1 DEF OwnInv, OwnAnswers
<1>6. QED
  BY <1>4, <1>5 DEF OwnInv

\* dbmgr answers the first request of its line.
LEMMA DbmgrOwn == ASSUME Inv, OwnInv, writeAccount \/ queryAccount PROVE OwnInv'
<1> DEFINE id == Head(toDb)
<1> DEFINE a == Way("toDb")
<1> DEFINE b == Way("fromDb")
<1>1. /\ UNCHANGED <<asked, told, orphans, pending, toMgr, toLogin, toHalls, fromHalls>>
      /\ toDb' = Tail(toDb) /\ toDb # <<>>
  BY DEF writeAccount, queryAccount, users, mgrLine
<1>2. PICK ok \in BOOLEAN : fromDb' = Append(fromDb, [id |-> id, ok |-> ok])
  BY DEF writeAccount, queryAccount
<1>3. fromDb \in Seq([id : Ids, ok : BOOLEAN]) /\ id \in Ids
  BY <1>1, TakeFirst DEF Inv, TypeOK
<1>4. IdsOf(fromDb') = Append(IdsOf(fromDb), id)
  <2>1. [id |-> id, ok |-> ok] \in [id : Ids, ok : BOOLEAN] /\ [id |-> id, ok |-> ok].id = id
    BY <1>3
  <2>2. QED
    BY <1>2, <1>3, <2>1, IdsOfAnswers
<1>5. /\ b \in Ways /\ lines[b] = IdsOf(fromDb) /\ lines'[b] = IdsOf(fromDb')
      /\ a \in Ways /\ lines[a] = toDb /\ lines'[a] = toDb' /\ a # b
  BY LinesAre DEF lines, Way
<1>6. \A k \in Ways \ {a, b} : lines'[k] = lines[k]
  BY <1>1, OtherLines
<1> HIDE DEF a, b
<1>7. /\ lines[a] # <<>> /\ lines'[a] = Tail(lines[a])
      /\ lines'[b] = Append(lines[b], Head(lines[a]))
  BY <1>1, <1>4, <1>5
<1>8. QED
  BY <1>1, <1>5, <1>6, <1>7, MoveOwn

LEMMA AllocClientOwn == ASSUME Inv, OwnInv, allocClient PROVE OwnInv'
<1> DEFINE id == Head(toMgr)
<1> DEFINE a == Way("toMgr")
<1>1. /\ UNCHANGED <<asked, told, orphans, pending, toDb, fromDb, fromHalls>>
      /\ toMgr' = Tail(toMgr) /\ toMgr # <<>>
  BY DEF allocClient, users, dbLine
<1>2. a \in Ways /\ lines[a] = toMgr /\ lines'[a] = toMgr'
  BY LinesAre DEF lines
<1>3. lines[a] # <<>> /\ lines'[a] = Tail(lines[a]) /\ Head(lines[a]) = id
  BY <1>1, <1>2
<1>4. ASSUME NEW h \in Halls, toHalls' = [toHalls EXCEPT ![h] = Append(@, id)], toLogin' = toLogin
      PROVE OwnInv'
  <2> DEFINE b == <<"toHalls", h>>
  <2>1. /\ toHalls'[h] = Append(toHalls[h], id) /\ \A g \in Halls : g # h => toHalls'[g] = toHalls[g]
    BY <1>4, LineTypes
  <2>2. b \in Ways /\ lines[b] = toHalls[h] /\ lines'[b] = toHalls'[h] /\ a # b
    BY HallsLines DEF Way
  <2>3. \A k \in Ways \ {a, b} : lines'[k] = lines[k]
    BY <1>1, <1>4, <2>1, OtherLines
  <2> HIDE DEF a, b, id
  <2>4. lines'[b] = Append(lines[b], Head(lines[a]))
    BY <1>3, <2>1, <2>2
  <2>5. QED
    BY <1>1, <1>2, <1>3, <2>2, <2>3, <2>4, MoveOwn
<1>5. ASSUME toLogin' = Append(toLogin, [id |-> id, ok |-> FALSE]), toHalls' = toHalls PROVE OwnInv'
  <2> DEFINE b == Way("toLogin")
  <2>1. IdsOf(toLogin') = Append(IdsOf(toLogin), id)
    <3>1. id \in Ids
      BY <1>1, TakeFirst, LineTypes
    <3>2. [id |-> id, ok |-> FALSE] \in [id : Ids, ok : BOOLEAN] /\ [id |-> id, ok |-> FALSE].id = id
      BY <3>1
    <3>3. QED
      BY <1>5, <3>2, LineTypes, IdsOfAnswers
  <2>2. b \in Ways /\ lines[b] = IdsOf(toLogin) /\ lines'[b] = IdsOf(toLogin') /\ a # b
    BY LinesAre DEF lines, Way
  <2>3. \A k \in Ways \ {a, b} : lines'[k] = lines[k]
    BY <1>1, <1>5, OtherLines
  <2> HIDE DEF a, b, id
  <2>4. lines'[b] = Append(lines[b], Head(lines[a]))
    BY <1>3, <2>1, <2>2
  <2>5. QED
    BY <1>1, <1>2, <1>3, <2>2, <2>3, <2>4, MoveOwn
<1>6. findBestServer \subseteq Halls
  BY DEF findBestServer, Inv, TypeOK
<1>7. QED
  BY <1>4, <1>5, <1>6 DEF allocClient

LEMMA AllocClientCBOwn == ASSUME Inv, OwnInv, NEW h \in Halls, allocClientCB(h) PROVE OwnInv'
<1> DEFINE a == <<"fromHalls", h>>
<1> DEFINE b == Way("toLogin")
<1>1. /\ UNCHANGED <<asked, told, orphans, pending, toDb, fromDb, toMgr, toHalls>>
      /\ toLogin' = Append(toLogin, Head(fromHalls[h])) /\ fromHalls[h] # <<>>
      /\ fromHalls'[h] = Tail(fromHalls[h])
      /\ \A g \in Halls : g # h => fromHalls'[g] = fromHalls[g]
  BY LineTypes DEF allocClientCB, users, dbLine
<1>2. /\ fromHalls[h] \in Seq([id : Ids, ok : BOOLEAN])
      /\ Head(fromHalls[h]) \in [id : Ids, ok : BOOLEAN]
  BY <1>1, TakeFirst, LineTypes
<1>3. /\ IdsOf(fromHalls[h]) # <<>> /\ Head(IdsOf(fromHalls[h])) = Head(fromHalls[h]).id
      /\ IdsOf(fromHalls'[h]) = Tail(IdsOf(fromHalls[h]))
  BY <1>1, <1>2, IdsOfAnswers
<1>4. IdsOf(toLogin') = Append(IdsOf(toLogin), Head(fromHalls[h]).id)
  BY <1>1, <1>2, LineTypes, IdsOfAnswers
<1>5. /\ a \in Ways /\ lines[a] = IdsOf(fromHalls[h]) /\ lines'[a] = IdsOf(fromHalls'[h])
  BY HallsLines
<1>6. /\ b \in Ways /\ lines[b] = IdsOf(toLogin) /\ lines'[b] = IdsOf(toLogin') /\ a # b
  BY LinesAre DEF lines, Way
<1>7. \A k \in Ways \ {a, b} : lines'[k] = lines[k]
  BY <1>1, OtherLines
<1> HIDE DEF a, b
<1>8. /\ lines[a] # <<>> /\ lines'[a] = Tail(lines[a])
      /\ lines'[b] = Append(lines[b], Head(lines[a]))
  BY <1>3, <1>4, <1>5, <1>6
<1>9. QED
  BY <1>1, <1>5, <1>6, <1>7, <1>8, MoveOwn

LEMMA SessionRequestAllocClientOwn ==
  ASSUME Inv, OwnInv, NEW h \in Halls, onSessionRequestAllocClient(h) PROVE OwnInv'
<1> DEFINE id == Head(toHalls[h])
<1> DEFINE a == <<"toHalls", h>>
<1> DEFINE b == <<"fromHalls", h>>
<1>1. /\ UNCHANGED <<asked, told, orphans, pending, toDb, fromDb, toMgr, toLogin>>
      /\ toHalls[h] # <<>> /\ toHalls'[h] = Tail(toHalls[h])
      /\ \A g \in Halls : g # h => toHalls'[g] = toHalls[g]
  BY LineTypes DEF onSessionRequestAllocClient, users, dbLine
<1>2. PICK ok \in BOOLEAN :
        fromHalls' = [fromHalls EXCEPT ![h] = Append(@, [id |-> id, ok |-> ok])]
  BY DEF onSessionRequestAllocClient
<1>3. /\ fromHalls'[h] = Append(fromHalls[h], [id |-> id, ok |-> ok])
      /\ \A g \in Halls : g # h => fromHalls'[g] = fromHalls[g]
  BY <1>2, LineTypes
<1>4. IdsOf(fromHalls'[h]) = Append(IdsOf(fromHalls[h]), id)
  <2>1. id \in Ids /\ fromHalls[h] \in Seq([id : Ids, ok : BOOLEAN])
    BY <1>1, TakeFirst, LineTypes
  <2>2. [id |-> id, ok |-> ok] \in [id : Ids, ok : BOOLEAN] /\ [id |-> id, ok |-> ok].id = id
    BY <2>1
  <2>3. QED
    BY <1>3, <2>1, <2>2, IdsOfAnswers
<1>5. /\ a \in Ways /\ lines[a] = toHalls[h] /\ lines'[a] = toHalls'[h]
      /\ b \in Ways /\ lines[b] = IdsOf(fromHalls[h]) /\ lines'[b] = IdsOf(fromHalls'[h])
  BY HallsLines
<1>6. a # b
  OBVIOUS
<1>7. \A k \in Ways \ {a, b} : lines'[k] = lines[k]
  BY <1>1, <1>3, OtherLines
<1> HIDE DEF a, b
<1>8. /\ lines[a] # <<>> /\ lines'[a] = Tail(lines[a])
      /\ lines'[b] = Append(lines[b], Head(lines[a]))
  BY <1>1, <1>4, <1>5
<1>9. QED
  BY <1>1, <1>5, <1>6, <1>7, <1>8, MoveOwn

\* What is lost when a server goes.
LEMMA ExitOwn ==
  ASSUME Inv, OwnInv, (\E h \in Halls : Crash(h)) \/ DbmgrExit \/ HallsmgrExit
  PROVE OwnInv'
<1>1. UNCHANGED <<asked, told, orphans, pending>>
  BY DEF Crash, DbmgrExit, HallsmgrExit, users
<1>2. /\ toDb' \in {toDb, <<>>} /\ fromDb' \in {fromDb, <<>>}
      /\ toMgr' \in {toMgr, <<>>} /\ toLogin' \in {toLogin, <<>>}
      /\ \A h \in Halls : toHalls'[h] \in {toHalls[h], <<>>} /\ fromHalls'[h] \in {fromHalls[h], <<>>}
  <2>1. CASE \E h \in Halls : Crash(h)
    <3>1. PICK h \in Halls : Crash(h)
      BY <2>1
    <3>2. /\ UNCHANGED <<toDb, fromDb, toMgr, toLogin>>
          /\ toHalls' = [toHalls EXCEPT ![h] = <<>>] /\ fromHalls' = [fromHalls EXCEPT ![h] = <<>>]
      BY <3>1, Zenon DEF Crash, dbLine
    <3>3. QED
      BY <3>2, LineTypes
  <2>2. CASE DbmgrExit
    BY <2>2 DEF DbmgrExit, mgrLine
  <2>3. CASE HallsmgrExit
    BY <2>3 DEF HallsmgrExit, dbLine
  <2>4. QED
    BY <2>1, <2>2, <2>3
<1>3. IdsOf(<<>>) = <<>>
  BY DEF IdsOf
<1>4. ASSUME NEW k \in Ways PROVE lines'[k] = lines[k] \/ lines'[k] = <<>>
  <2>1. CASE k \in {Way("toDb"), Way("fromDb"), Way("toMgr"), Way("toLogin")}
    BY <1>2, <1>3, <2>1, LinesAre DEF lines
  <2>2. ASSUME NEW h \in Halls, k = <<"toHalls", h>> \/ k = <<"fromHalls", h>>
        PROVE lines'[k] = lines[k] \/ lines'[k] = <<>>
    <3>1. toHalls'[h] = toHalls[h] \/ toHalls'[h] = <<>>
      BY <1>2
    <3>2. fromHalls'[h] = fromHalls[h] \/ fromHalls'[h] = <<>>
      BY <1>2
    <3>3. CASE k = <<"toHalls", h>>
      BY <3>1, <3>3, HallsLines
    <3>4. CASE k = <<"fromHalls", h>>
      BY <1>3, <3>2, <3>4, HallsLines
    <3>5. QED
      BY <2>2, <3>3, <3>4
  <2>3. QED
    BY <2>1, <2>2, LinesAre
<1>5. QED
  BY <1>1, <1>4, LoseOwn

LEMMA InitOwn == Init => OwnInv
<1> SUFFICES ASSUME Init PROVE OwnInv
  OBVIOUS
<1>1. IdsOf(<<>>) = <<>>
  BY DEF IdsOf
<1>2. ASSUME NEW k \in Ways PROVE lines[k] = <<>>
  <2>1. CASE k \in {Way("toDb"), Way("fromDb"), Way("toMgr"), Way("toLogin")}
    BY <1>1, <2>1, LinesAre DEF lines, Init
  <2>2. ASSUME NEW h \in Halls, k = <<"toHalls", h>> \/ k = <<"fromHalls", h>>
        PROVE lines[k] = <<>>
    <3>1. toHalls[h] = <<>> /\ fromHalls[h] = <<>>
      BY DEF Init
    <3>2. QED
      BY <1>1, <2>2, <3>1, HallsLines
  <2>3. QED
    BY <2>1, <2>2, LinesAre
<1>3. OneCopy(lines) /\ On(lines) = {}
  BY <1>2 DEF OneCopy, On
<1>4. OwnAnswers
  BY DEF OwnAnswers, Init
<1>5. QED
  BY <1>3, <1>4 DEF OwnInv, EntryOrForgotten

LEMMA NextOwn == ASSUME Inv, OwnInv, [Next]_vars PROVE OwnInv'
<1>1. CASE Login
  BY <1>1, RequestOwn, SignupCBOwn, SigninCBOwn, RequestAllocClientCBOwn, LoginTimeoutOwn DEF Login
<1>2. ASSUME NEW h \in Halls, queryAccountForHalls(h) PROVE OwnInv'
  BY <1>2, SameOwn DEF queryAccountForHalls, users, dbLine, mgrLine
<1>3. CASE Dbmgr
  BY <1>2, <1>3, DbmgrOwn DEF Dbmgr
<1>4. CASE Hallsmgr
  BY <1>4, AllocClientOwn, AllocClientCBOwn DEF Hallsmgr
<1>5. ASSUME NEW h \in Halls, HallsServer(h) PROVE OwnInv'
  <2>1. CASE onSessionRequestAllocClient(h)
    BY <2>1, SessionRequestAllocClientOwn
  <2>2. CASE Crash(h)
    BY <2>2, ExitOwn
  <2>3. CASE onSessionQueryAccountCB(h) \/ onDestroyTimer(h)
    <3>1. UNCHANGED <<asked, told, orphans, pending, toDb, fromDb, toMgr, toLogin, toHalls, fromHalls>>
      BY <2>3, Zenon DEF onSessionQueryAccountCB, onDestroyTimer, users, dbLine, mgrLine
    <3>2. QED
      BY <3>1, SameOwn
  <2>4. ASSUME NEW u \in Users, NEW n \in Names, onSessionLogin(u, h, n) \/ onSessionLoginAgain(u, h, n)
        PROVE OwnInv'
    BY <2>4, SameOwn DEF onSessionLogin, onSessionLoginAgain, users, dbLine, mgrLine
  <2>5. ASSUME NEW n \in Names, HallsTimeout(h, n) PROVE OwnInv'
    BY <2>5, SameOwn DEF HallsTimeout, users, dbLine, mgrLine
  <2>6. ASSUME NEW u \in Users, onClientDisconnected(u, h) PROVE OwnInv'
    BY <2>6, SameOwn DEF onClientDisconnected, users, dbLine, mgrLine
  <2>7. QED
    BY <1>5, <2>1, <2>2, <2>3, <2>4, <2>5, <2>6 DEF HallsServer
<1>6. CASE Restart
  <2>1. CASE DbmgrExit \/ HallsmgrExit
    BY <2>1, ExitOwn
  <2>2. CASE ConnectorRestart
    BY <2>2, SameOwn DEF ConnectorRestart, users, dbLine, mgrLine
  <2>3. ASSUME NEW h \in Halls, HallsJoins(h) PROVE OwnInv'
    BY <2>3, SameOwn DEF HallsJoins, users, dbLine
  <2>4. ASSUME NEW s, onServerJoined(s) PROVE OwnInv'
    BY <2>4, SameOwn DEF onServerJoined, users, dbLine, mgrLine
  <2>5. QED
    BY <1>6, <2>1, <2>2, <2>3, <2>4 DEF Restart
<1>7. CASE UNCHANGED vars
  BY <1>7, SameOwn DEF vars, users, dbLine, mgrLine
<1>8. QED
  BY <1>1, <1>3, <1>4, <1>5, <1>6, <1>7 DEF Next

-------------------------------------------------------------------------------
(* The theorems *)

LEMMA NextInv == ASSUME Inv, [Next]_vars PROVE Inv'
<1>1. CASE Login
  BY <1>1, RequestInv, SignupCBInv, SigninCBInv, RequestAllocClientCBInv, LoginTimeoutInv DEF Login
<1>2. CASE Dbmgr
  BY <1>2, WriteAccountInv, QueryAccountInv, QueryAccountForHallsInv DEF Dbmgr
<1>3. CASE Hallsmgr
  BY <1>3, AllocClientInv, AllocClientCBInv DEF Hallsmgr
<1>4. CASE \E h \in Halls : HallsServer(h)
  BY <1>4, SessionRequestAllocClientInv, QueryAccountCBInv, CrashInv, DestroyTimerInv,
     HallsTimeoutInv, SessionLoginInv, SessionLoginAgainInv, ClientDisconnectedInv
  DEF HallsServer
<1>5. CASE Restart
  BY <1>5, HallsJoinsInv, ConnectorRestartInv, DbmgrExitInv, HallsmgrExitInv, ServerJoinedInv
  DEF Restart
<1>6. QED
  BY <1>1, <1>2, <1>3, <1>4, <1>5, Stutter DEF Next

LEMMA InvAlways == Spec => []Inv
  BY InitInv, NextInv, PTL DEF Spec

\* Whatever the users, the servers and the restarts do, the tables of login,
\* hallsmgr and halls hold what they should.
THEOREM LoginTypeCorrect == Spec => []TypeOK
<1>1. Inv => TypeOK
  BY DEF Inv
<1>2. QED
  BY <1>1, InvAlways, PTL

\* No request to login is answered twice, though answers are matched to requests
\* by the name of the account and may reach the wrong one.
THEOREM AnsweredOnce == Spec => []AtMostOneAnswer
<1>1. Inv => AtMostOneAnswer
  BY DEF Inv
<1>2. QED
  BY <1>1, InvAlways, PTL

\* A request gets the answer to another one only when login had forgotten that
\* one (onSessionSignupCB and onSessionRequestAllocClientCB look up the name only):
\* as long as login keeps an entry, the one answer on its way is its own.
THEOREM AnswersOfForgotten == Spec => []OwnAnswers
<1>1. OwnInv => OwnAnswers
  BY DEF OwnInv
<1>2. Spec => []OwnInv
  BY InvAlways, InitOwn, NextOwn, PTL DEF Spec
<1>3. QED
  BY <1>1, <1>2, PTL

\* Nobody plays a player of halls without a token given to that user, across
\* timeouts, crashes of halls and restarts of the connector.
THEOREM TokensGuardPlayers == Spec => []PlayersHadToken
<1>1. Inv => PlayersHadToken
  BY DEF Inv
<1>2. QED
  BY <1>1, InvAlways, PTL
===============================================================================
