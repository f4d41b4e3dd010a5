----------------------------- MODULE ServerRegistry ---------------------------
(***************************************************************************)
(* How a server finds the servers it is interested in: ServerMgr           *)
(* (src/src/libs/server/ServerMgr.cpp) with the handshake of Session       *)
(* (src/src/libs/event/Session.cpp), seen from one server that looks for a *)
(* server of each type in turn, and from these servers.                    *)
(*                                                                         *)
(* There is one server of each type, at the address its type is configured *)
(* with; the type stands for its id, too.  While a server is not           *)
(* identified it is kept under the id 0.  The two ends of a connection     *)
(* learn of its loss independently.                                        *)
(***************************************************************************)
EXTENDS Integers, Sequences, FiniteSets

CONSTANTS
  Types,
  Order,      \* interestedServerTypes_
  Sessions,   \* pSession: connections that exist at a time, a bound
  MaxBreaks,  \* bounds the connections that break and the servers that exit
  Zero,       \* the id of a server that is not identified
  NONE

ASSUME OrderAssumption == Order \in Seq(Types)
ASSUME IdsAssumption == Zero \notin Types /\ NONE \notin Sessions
ASSUME BreaksAssumption == MaxBreaks \in Nat

VARIABLES
  infos,    \* srv_infos_ of the server that looks
  mine,     \* its end of a session
  target,   \* the server a session goes to
  theirs,   \* the other end
  intact,   \* nothing has happened to the connection
  hello,    \* Hello is on its way there, HelloCB on its way back
  knows,    \* the session under which a server has the looking one in srv_infos_
  refused,  \* history: sessions whose Hello addServer refused
  up,       \* servers that run
  breaks
session == <<mine, target, theirs, intact, hello>>
there == <<knows, refused>>
vars == <<infos, session, there, up, breaks>>

Keys == Types \cup {Zero}
Info == [type : Types, pSession : Sessions, sent_hello : BOOLEAN]
NoInfo == [type |-> NONE, pSession |-> NONE, sent_hello |-> FALSE]

TypeOK ==
  /\ infos \in [Keys -> Info \cup {NoInfo}]
  /\ mine \in [Sessions -> {"gone", "connecting", "connected"}]
  /\ target \in [Sessions -> Types]
  /\ theirs \in [Sessions -> {"gone", "open"}]
  /\ intact \in [Sessions -> BOOLEAN]
  /\ hello \in [Sessions -> {"none", "there", "back"}]
  /\ knows \in [Types -> Sessions \cup {NONE}]
  /\ refused \subseteq Sessions
  /\ up \subseteq Types /\ breaks \in 0..MaxBreaks

Init ==
  /\ infos = [k \in Keys |-> NoInfo]
  /\ mine = [s \in Sessions |-> "gone"] /\ theirs = [s \in Sessions |-> "gone"]
  /\ target \in {f \in [Sessions -> Types] : \A r, s \in Sessions : f[r] = f[s]}
  /\ intact = [s \in Sessions |-> FALSE] /\ hello = [s \in Sessions |-> "none"]
  /\ knows = [t \in Types |-> NONE] /\ refused = {}
  /\ up = {} /\ breaks = 0
-------------------------------------------------------------------------------
(* The looking server *)

Known(k) == infos[k] # NoInfo
\* The first type that is not found and identified; onTick looks at no later one.
Sought(t) ==
  \E i \in DOMAIN Order : /\ Order[i] = t /\ ~Known(t)
                          /\ \A j \in 1..(i - 1) : Known(Order[j])
Unused(s) == mine[s] = "gone" /\ theirs[s] = "gone"

\* connectServer for a type not found; addServer refuses a second server with the
\* id 0, the session is there all the same.
onTickConnect(s) ==
  \E t \in Types :
    /\ Sought(t) /\ infos[Zero].type # t /\ Unused(s)
    /\ mine' = [mine EXCEPT ![s] = "connecting"]
    /\ target' = [target EXCEPT ![s] = t]
    /\ intact' = [intact EXCEPT ![s] = TRUE] /\ hello' = [hello EXCEPT ![s] = "none"]
    /\ refused' = refused \ {s}
    /\ infos' = IF Known(Zero) THEN infos
                ELSE [infos EXCEPT ![Zero] =
                        [type |-> t, pSession |-> s, sent_hello |-> FALSE]]
    /\ UNCHANGED <<theirs, knows, up, breaks>>

\* Hello goes out once.
onTickHello ==
  LET s == infos[Zero].pSession IN
  /\ Known(Zero) /\ Sought(infos[Zero].type)
  /\ mine[s] = "connected" /\ ~infos[Zero].sent_hello
  /\ infos' = [infos EXCEPT ![Zero].sent_hello = TRUE]
  /\ hello' = [hello EXCEPT ![s] = "there"]
  /\ UNCHANGED <<mine, target, theirs, intact, there, up, breaks>>

HasSession(k, s) == Known(k) /\ infos[k].pSession = s
\* The loops over srv_infos_ stop at the first one; 0 is the smallest id.
First(k, s) == HasSession(k, s) /\ (k # Zero => ~HasSession(Zero, s))

\* Mutant: the info under 0 is not erased.
onSessionHelloCB_keepsZero(s) ==
  /\ mine[s] = "connected" /\ hello[s] = "back"
  /\ hello' = [hello EXCEPT ![s] = "none"]
  /\ LET k == CHOOSE j \in Keys : First(j, s) IN
     infos' = [infos EXCEPT ![target[s]] = infos[k]]
  /\ UNCHANGED <<mine, target, theirs, intact, there, up, breaks>>

\* The server is identified, its info moves from 0 to its id.  There is an info:
\* Hello went out for it, and it goes with the session only.
onSessionHelloCB(s) ==
  /\ mine[s] = "connected" /\ hello[s] = "back"
  /\ hello' = [hello EXCEPT ![s] = "none"]
  /\ LET k == CHOOSE j \in Keys : First(j, s) IN
     infos' = [infos EXCEPT ![Zero] = IF k = Zero THEN NoInfo ELSE @,
                            ![target[s]] = infos[k]]
  /\ UNCHANGED <<mine, target, theirs, intact, there, up, breaks>>

\* Mutant: the info stays and loses its session only.
onSessionDisconnected_keepsInfo(s) ==
  \/ \E k \in Keys : First(k, s) /\ infos' = [infos EXCEPT ![k].pSession = NONE]
  \/ (\A k \in Keys : ~HasSession(k, s)) /\ UNCHANGED infos

\* Mutant: only servers that are identified are erased.
onSessionDisconnected_keepsZero(s) ==
  \/ \E t \in Types : First(t, s) /\ infos' = [infos EXCEPT ![t] = NoInfo]
  \/ (\A t \in Types : ~HasSession(t, s)) /\ UNCHANGED infos

onSessionDisconnected(s) ==
  \/ \E k \in Keys : First(k, s) /\ infos' = [infos EXCEPT ![k] = NoInfo]
  \/ (\A k \in Keys : ~HasSession(k, s)) /\ UNCHANGED infos

\* Session::close: the connection failed, broke or was silent for too long; only
\* sessions in srv_infos_ get heartbeats that are answered.
Close(s) ==
  /\ \/ mine[s] = "connecting" /\ target[s] \notin up
     \/ mine[s] # "gone" /\ ~intact[s]
     \/ mine[s] = "connected" /\ \A k \in Keys : ~HasSession(k, s)
  /\ onSessionDisconnected(s)
  /\ mine' = [mine EXCEPT ![s] = "gone"]
  /\ intact' = [intact EXCEPT ![s] = FALSE]
  /\ UNCHANGED <<target, theirs, hello, there, up, breaks>>

onConnected(s) ==
  /\ mine[s] = "connecting" /\ intact[s] /\ target[s] \in up
  /\ mine' = [mine EXCEPT ![s] = "connected"]
  /\ theirs' = [theirs EXCEPT ![s] = "open"]
  /\ UNCHANGED <<infos, target, intact, hello, there, up, breaks>>
-------------------------------------------------------------------------------
(* The servers it looks for *)

\* Hello is answered; addServer refuses a server that is known, even if by an old
\* session whose loss was not noticed yet.
onSessionHello(s) ==
  LET t == target[s] IN
  /\ theirs[s] = "open" /\ hello[s] = "there"
  /\ hello' = [hello EXCEPT ![s] = "back"]
  /\ \/ knows[t] = NONE /\ knows' = [knows EXCEPT ![t] = s] /\ UNCHANGED refused
     \/ knows[t] # NONE /\ refused' = refused \cup {s} /\ UNCHANGED knows
  /\ UNCHANGED <<infos, mine, target, theirs, intact, up, breaks>>

\* The other end closes; the info with that session goes.
onTheirDisconnect(s) ==
  /\ theirs[s] = "open" /\ ~intact[s]
  /\ theirs' = [theirs EXCEPT ![s] = "gone"]
  /\ knows' = [knows EXCEPT ![target[s]] = IF @ = s THEN NONE ELSE @]
  /\ UNCHANGED <<infos, mine, target, intact, hello, refused, up, breaks>>

Start(t) ==
  /\ t \notin up /\ up' = up \cup {t}
  /\ UNCHANGED <<infos, session, there, breaks>>

Exit(t) ==
  /\ t \in up /\ breaks < MaxBreaks
  /\ up' = up \ {t} /\ breaks' = breaks + 1
  /\ theirs' = [s \in Sessions |-> IF target[s] = t THEN "gone" ELSE theirs[s]]
  /\ intact' = [s \in Sessions |-> intact[s] /\ (target[s] = t => theirs[s] # "open")]
  /\ knows' = [knows EXCEPT ![t] = NONE]
  /\ UNCHANGED <<infos, mine, target, hello, refused>>

Break(s) ==
  /\ intact[s] /\ breaks < MaxBreaks
  /\ intact' = [intact EXCEPT ![s] = FALSE] /\ breaks' = breaks + 1
  /\ UNCHANGED <<infos, mine, target, theirs, hello, there, up>>
-------------------------------------------------------------------------------
Next ==
  \/ onTickHello
  \/ \E s \in Sessions : \/ onTickConnect(s) \/ onSessionHelloCB(s) \/ Close(s)
                          \/ onConnected(s) \/ onSessionHello(s)
                          \/ onTheirDisconnect(s) \/ Break(s)
  \/ \E t \in Types : Start(t) \/ Exit(t)

Spec == Init /\ [][Next]_vars

\* Ticks come, messages that can arrive do, a loss is noticed, and servers that
\* are not there are started.
Fairness ==
  /\ WF_vars(onTickHello) /\ WF_vars(\E s \in Sessions : onTickConnect(s))
  /\ \A s \in Sessions : /\ WF_vars(onSessionHelloCB(s)) /\ WF_vars(Close(s))
                         /\ WF_vars(onConnected(s)) /\ WF_vars(onSessionHello(s))
                         /\ WF_vars(onTheirDisconnect(s))
  /\ \A t \in Types : WF_vars(Start(t))
FairSpec == Spec /\ Fairness
-------------------------------------------------------------------------------
(* Properties *)

\* No info has a session that was deleted: heartbeats and packets go there.
NoDanglingSession ==
  \A k \in Keys : Known(k) => mine[infos[k].pSession] # "gone"

\* A server that was identified has the looking one under the same session, as
\* long as its end is open, unless it refused the Hello that came over it.
KnownBack ==
  \A t \in Types : LET s == infos[t].pSession IN
    Known(t) /\ theirs[s] = "open" => knows[t] = s \/ s \in refused

SessionsAgree == NoDanglingSession /\ KnownBack

\* A type is sought before the one that has the id 0: its sessions are refused
\* there, and the Hello of the other waits for its turn.
Stuck == Known(Zero) /\ ~Sought(infos[Zero].type)

\* In the end all types are found and stay, or the server is stuck.
FoundUnlessStuck == <>[]((\A i \in DOMAIN Order : Known(Order[i])) \/ Stuck)
===============================================================================
