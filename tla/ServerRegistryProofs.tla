------------------------- MODULE ServerRegistryProofs -------------------------
(***************************************************************************)
(* Theorems about ServerRegistry, for any servers, sessions and losses.    *)
(* That infos and sessions agree rests on where a Hello can be: it goes    *)
(* out for the info under the id 0 only, so the answer finds that info and *)
(* no other, and moves it to an id whose server has seen the Hello.        *)
(***************************************************************************)
EXTENDS ServerRegistry, TLAPS

\* No two infos have the same session.
OneInfo ==
  \A j, k \in Keys : Known(j) /\ Known(k) /\ infos[j].pSession = infos[k].pSession => j = k

\* A server that is identified is connected and its handshake is over.
Identified ==
  \A t \in Types : LET s == infos[t].pSession IN
    Known(t) => mine[s] = "connected" /\ target[s] = t /\ hello[s] = "none"

\* A handshake that goes on is that of the info under 0.
HelloIsOfZero ==
  \A s \in Sessions : hello[s] # "none" =>
    mine[s] = "gone" \/ (mine[s] = "connected" /\ HasSession(Zero, s))

\* A server that has answered knows the looking one, or has refused it.
Answered ==
  \A s \in Sessions :
    hello[s] = "back" /\ theirs[s] = "open" => knows[target[s]] = s \/ s \in refused

Inv == TypeOK /\ NoDanglingSession /\ KnownBack
         /\ OneInfo /\ Identified /\ HelloIsOfZero /\ Answered

\* Nothing is known and nothing connected at first.
LEMMA InitInv == Init => Inv
  BY BreaksAssumption DEF Init, Inv, TypeOK, NoDanglingSession, KnownBack, OneInfo, Identified,
     HelloIsOfZero, Answered, Known, HasSession, Keys

\* A new session is in no info yet.
LEMMA ConnectInv == ASSUME Inv, NEW s \in Sessions, onTickConnect(s) PROVE Inv'
<1> USE IdsAssumption DEF Inv, TypeOK, Keys, Known, HasSession
<1> PICK t \in Types :
      /\ Unused(s)
      /\ mine' = [mine EXCEPT ![s] = "connecting"]
      /\ target' = [target EXCEPT ![s] = t]
      /\ intact' = [intact EXCEPT ![s] = TRUE] /\ hello' = [hello EXCEPT ![s] = "none"]
      /\ refused' = refused \ {s}
      /\ infos' = IF Known(Zero) THEN infos
                  ELSE [infos EXCEPT ![Zero] =
                          [type |-> t, pSession |-> s, sent_hello |-> FALSE]]
      /\ UNCHANGED <<theirs, knows, up, breaks>>
  BY DEF onTickConnect
<1>1. /\ mine[s] = "gone" /\ theirs[s] = "gone"
      /\ \A k \in Keys : Known(k) => infos[k].pSession # s
      /\ \A k \in Keys : Known(k) => infos[k] \in Info
  BY DEF Unused, NoDanglingSession
<1>2. TypeOK'
  BY DEF Info
<1>3. \A k \in Types : infos'[k] = infos[k]
  OBVIOUS
<1>4. NoDanglingSession' /\ OneInfo'
  BY <1>1 DEF NoDanglingSession, OneInfo, Info
<1>5. Identified' /\ KnownBack'
  BY <1>1, <1>3 DEF Identified, KnownBack, Info
<1>6. HelloIsOfZero' /\ Answered'
  BY <1>1 DEF HelloIsOfZero, Answered, Info
<1>7. QED
  BY <1>2, <1>4, <1>5, <1>6

\* Hello goes out for the info under 0, whose session no other info has.
LEMMA TickHelloInv == ASSUME Inv, onTickHello PROVE Inv'
<1> USE IdsAssumption DEF Inv, TypeOK, Keys, Known, HasSession, there
<1> DEFINE s == infos[Zero].pSession
<1>1. infos[Zero] \in Info /\ infos[Zero] # NoInfo /\ mine[s] = "connected" /\ s \in Sessions
  BY DEF onTickHello, Info
<1>2. /\ infos' = [infos EXCEPT ![Zero] = [infos[Zero] EXCEPT !.sent_hello = TRUE]]
      /\ hello' = [hello EXCEPT ![s] = "there"]
      /\ UNCHANGED <<mine, target, theirs, intact, there, up, breaks>>
  BY DEF onTickHello
<1>3. /\ infos'[Zero] \in Info /\ infos'[Zero].pSession = s /\ infos'[Zero] # NoInfo
      /\ \A k \in Types : infos'[k] = infos[k]
  BY <1>1, <1>2 DEF Info, NoInfo
<1>4. TypeOK'
  BY <1>1, <1>2 DEF Info
<1>5. NoDanglingSession' /\ OneInfo' /\ KnownBack'
  BY <1>1, <1>2, <1>3 DEF NoDanglingSession, OneInfo, KnownBack
<1>6. Identified' /\ HelloIsOfZero' /\ Answered'
  BY <1>1, <1>2, <1>3 DEF Identified, HelloIsOfZero, Answered, OneInfo
<1>7. QED
  BY <1>4, <1>5, <1>6

\* The info that HelloCB finds is the one under 0.
LEMMA HelloCBInv == ASSUME Inv, NEW s \in Sessions, onSessionHelloCB(s) PROVE Inv'
<1> USE IdsAssumption DEF Inv, TypeOK, Keys, Known, HasSession, there
<1>1. mine[s] = "connected" /\ hello[s] = "back" /\ HasSession(Zero, s) /\ target[s] \in Types
  BY DEF onSessionHelloCB, HelloIsOfZero
<1>2. (CHOOSE j \in Keys : First(j, s)) = Zero
  BY <1>1 DEF First, OneInfo
<1>3. /\ hello' = [hello EXCEPT ![s] = "none"]
      /\ infos' = [infos EXCEPT ![Zero] = NoInfo, ![target[s]] = infos[Zero]]
      /\ UNCHANGED <<mine, target, theirs, intact, there, up, breaks>>
  BY <1>2 DEF onSessionHelloCB
<1>4. /\ infos'[Zero] = NoInfo /\ infos'[target[s]] = infos[Zero]
      /\ \A k \in Types \ {target[s]} : infos'[k] = infos[k]
  BY <1>1, <1>3
<1>5. TypeOK'
  BY <1>1, <1>3
<1>6. NoDanglingSession' /\ OneInfo'
  BY <1>1, <1>3, <1>4 DEF NoDanglingSession, OneInfo
<1>7. Identified'
  BY <1>1, <1>3, <1>4 DEF Identified, OneInfo
<1>8. KnownBack'
  BY <1>1, <1>3, <1>4 DEF KnownBack, Answered
<1>9. HelloIsOfZero' /\ Answered'
  BY <1>1, <1>3, <1>4 DEF HelloIsOfZero, Answered
<1>10. QED
  BY <1>5, <1>6, <1>7, <1>8, <1>9

\* With a session goes the one info that has it.
LEMMA CloseInv == ASSUME Inv, NEW s \in Sessions, Close(s) PROVE Inv'
<1> USE IdsAssumption DEF Inv, TypeOK, Keys, Known, HasSession, there
<1>1. /\ mine' = [mine EXCEPT ![s] = "gone"] /\ intact' = [intact EXCEPT ![s] = FALSE]
      /\ UNCHANGED <<target, theirs, hello, there, up, breaks>>
  BY DEF Close
<1>2. \A k \in Keys : infos'[k] = IF HasSession(k, s) THEN NoInfo ELSE infos[k]
  BY DEF Close, onSessionDisconnected, First, OneInfo
<1>3. infos' \in [Keys -> Info \cup {NoInfo}]
  BY DEF Close, onSessionDisconnected
<1>4. TypeOK'
  BY <1>1, <1>3
<1>5. NoDanglingSession' /\ OneInfo' /\ KnownBack'
  BY <1>1, <1>2 DEF NoDanglingSession, OneInfo, KnownBack, Info
<1>6. Identified' /\ HelloIsOfZero' /\ Answered'
  BY <1>1, <1>2 DEF Identified, HelloIsOfZero, Answered, Info
<1>7. QED
  BY <1>4, <1>5, <1>6

\* A session that is connected had no handshake before.
LEMMA ConnectedInv == ASSUME Inv, NEW s \in Sessions, onConnected(s) PROVE Inv'
<1> USE DEF Inv, TypeOK, Keys, Known, HasSession, there, onConnected
<1>1. hello[s] = "none" /\ \A t \in Types : Known(t) => infos[t].pSession # s
  BY DEF HelloIsOfZero, Identified
<1>2. TypeOK' /\ NoDanglingSession' /\ OneInfo'
  BY DEF NoDanglingSession, OneInfo
<1>3. KnownBack' /\ Identified'
  BY <1>1 DEF KnownBack, Identified
<1>4. HelloIsOfZero' /\ Answered'
  BY <1>1 DEF HelloIsOfZero, Answered
<1>5. QED
  BY <1>2, <1>3, <1>4

\* The server comes to know the looking one, or refuses it and knows another session.
LEMMA HelloInv == ASSUME Inv, NEW s \in Sessions, onSessionHello(s) PROVE Inv'
<1> USE IdsAssumption DEF Inv, TypeOK, Keys, Known, HasSession, onSessionHello
<1>1. TypeOK' /\ NoDanglingSession' /\ OneInfo'
  BY DEF NoDanglingSession, OneInfo
<1>2. KnownBack'
  BY DEF KnownBack, Info
<1>3. Identified' /\ HelloIsOfZero'
  BY DEF Identified, HelloIsOfZero, Info
<1>4. Answered'
  BY DEF Answered
<1>5. QED
  BY <1>1, <1>2, <1>3, <1>4

\* A server forgets the looking one only with the session it knows it by.
LEMMA TheirsInv == ASSUME Inv, NEW s \in Sessions, onTheirDisconnect(s) PROVE Inv'
<1> USE IdsAssumption DEF Inv, TypeOK, Keys, Known, HasSession, onTheirDisconnect
<1>1. TypeOK' /\ NoDanglingSession' /\ OneInfo' /\ Identified' /\ HelloIsOfZero'
  BY DEF NoDanglingSession, OneInfo, Identified, HelloIsOfZero
<1>2. KnownBack'
  BY DEF KnownBack, Info
<1>3. Answered'
  BY DEF Answered
<1>4. QED
  BY <1>1, <1>2, <1>3

\* Starts and breaks change nothing the ends of a session know.
LEMMA StartInv == ASSUME Inv, NEW t \in Types, Start(t) PROVE Inv'
  BY DEF Start, session, there, Inv, TypeOK, Keys, Known, HasSession, NoDanglingSession, OneInfo,
     KnownBack, Identified, HelloIsOfZero, Answered
LEMMA BreakInv == ASSUME Inv, NEW s \in Sessions, Break(s) PROVE Inv'
  BY BreaksAssumption DEF Break, there, Inv, TypeOK, Keys, Known, HasSession, NoDanglingSession,
     OneInfo, KnownBack, Identified, HelloIsOfZero, Answered

\* All sessions of a server that exits end there.
LEMMA ExitInv == ASSUME Inv, NEW t \in Types, Exit(t) PROVE Inv'
<1> USE IdsAssumption DEF Inv, TypeOK, Keys, Known, HasSession, Exit
<1>1. TypeOK'
  BY BreaksAssumption
<1>2. NoDanglingSession' /\ OneInfo' /\ Identified' /\ HelloIsOfZero'
  BY DEF NoDanglingSession, OneInfo, Identified, HelloIsOfZero
<1>3. KnownBack'
  BY DEF KnownBack, Identified, Info
<1>4. Answered'
  BY DEF Answered
<1>5. QED
  BY <1>1, <1>2, <1>3, <1>4

\* Every step keeps Inv.
LEMMA NextInv == Inv /\ [Next]_vars => Inv'
<1> SUFFICES ASSUME Inv, [Next]_vars PROVE Inv'
  OBVIOUS
<1>1. CASE UNCHANGED vars
  BY <1>1 DEF vars, session, there, Inv, TypeOK, Keys, Known, HasSession, NoDanglingSession,
     OneInfo, KnownBack, Identified, HelloIsOfZero, Answered
<1>2. CASE onTickHello
  BY <1>2, TickHelloInv
<1>3. CASE \E s \in Sessions : \/ onTickConnect(s) \/ onSessionHelloCB(s) \/ Close(s)
                               \/ onConnected(s) \/ onSessionHello(s)
                               \/ onTheirDisconnect(s) \/ Break(s)
  BY <1>3, ConnectInv, HelloCBInv, CloseInv, ConnectedInv, HelloInv, TheirsInv, BreakInv
<1>4. CASE \E t \in Types : Start(t) \/ Exit(t)
  BY <1>4, StartInv, ExitInv
<1>5. QED
  BY <1>1, <1>2, <1>3, <1>4 DEF Next

\* Inv holds in every behaviour.
LEMMA InvHolds == Spec => []Inv
  BY InitInv, NextInv, PTL DEF Spec

\* Every variable of ServerRegistry keeps its type.
THEOREM RegistryTypeCorrect == Spec => []TypeOK
<1>1. Inv => TypeOK
  BY DEF Inv
<1>2. QED
  BY <1>1, InvHolds, PTL

\* No info has a session that was deleted, and a server that was identified has
\* the looking one under the same session, unless it refused its Hello
\* (ServerMgr::onSessionHelloCB, onSessionDisconnected, onSessionHello).
THEOREM InfosAndSessionsAgree == Spec => []SessionsAgree
<1>1. Inv => SessionsAgree
  BY DEF Inv, SessionsAgree
<1>2. QED
  BY <1>1, InvHolds, PTL
===============================================================================
