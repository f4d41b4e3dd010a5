---------------------------- MODULE ConnectorFinder ----------------------------
(***************************************************************************)
(* How halls and login choose the connector they bind to: ConnectorFinder  *)
(* (src/src/libs/server/ConnectorFinder.cpp) with the answers of directory *)
(* (XServerBase::onSessionQueryServerInfosCB) and the pings of Session.    *)
(*                                                                         *)
(* The ticks are timers of one thread.  A connector is named by its id; an *)
(* element of the vector connectorInfos_ points into the map srv_infos_,   *)
(* and dangles when the info is erased there.                              *)
(***************************************************************************)
EXTENDS Integers, FiniteSets, FiniteSetsExt

CONSTANTS
  Connectors,
  Rtts,          \* round trip times, a set of naturals
  SessionNums,   \* what connectors report to directory, a set of naturals
  TickInterval,  \* round trip times no further apart are alike
  MaxLost,       \* bounds the sessions with connectors that are lost
  NONE

Unknown == -1  \* rtt_ before the first Pong

VARIABLES
  phase,       \* the tick the timer calls, or "undefined" once a freed info is read
  directory,   \* the session with directory is connected
  registered,  \* the connectors that run: directory knows them
  asked,       \* a QueryServerInfos that is not answered yet
  infos,       \* the connectors in srv_infos_
  listed,      \* connectorInfos_
  pSession,    \* of an info: none, connecting or connected
  pinged,      \* a Ping is on its way
  rtt,
  sessionNum,
  found,       \* found_
  lost
vars == <<phase, directory, registered, asked, infos, listed, pSession, pinged,
          rtt, sessionNum, found, lost>>
world == <<directory, registered, lost>>

TypeOK ==
  /\ phase \in {"finding", "testing", "checking", "undefined"}
  /\ directory \in BOOLEAN /\ asked \in BOOLEAN
  /\ registered \subseteq Connectors /\ infos \subseteq Connectors
  /\ listed \subseteq Connectors /\ pinged \subseteq Connectors
  /\ pSession \in [Connectors -> {"none", "connecting", "connected"}]
  /\ rtt \in [Connectors -> Rtts \cup {Unknown}]
  /\ sessionNum \in [Connectors -> SessionNums]
  /\ found \in Connectors \cup {NONE}
  /\ lost \in 0..MaxLost

Init ==
  /\ phase = "finding" /\ directory = FALSE /\ registered = {} /\ asked = FALSE
  /\ infos = {} /\ listed = {} /\ pinged = {}
  /\ pSession = [c \in Connectors |-> "none"]
  /\ rtt = [c \in Connectors |-> Unknown]
  /\ sessionNum \in [Connectors -> SessionNums]
  /\ found = NONE /\ lost = 0
-------------------------------------------------------------------------------
\* Two ticks in a row that see as many connectors, and at least one, end the search;
\* else directory is asked again.
onFindingTick ==
  /\ phase = "finding"
  /\ listed' = infos
  /\ LET complete == listed # {} /\ Cardinality(listed) = Cardinality(infos) IN
     /\ phase' = IF complete THEN "testing" ELSE "finding"
     /\ asked' = (asked \/ (~complete /\ directory))
  /\ UNCHANGED <<world, infos, pSession, pinged, rtt, sessionNum, found>>

\* Known infos are updated, new ones come without a session.
onSessionQueryServerInfosCB ==
  /\ asked /\ asked' = FALSE
  /\ \/ /\ directory
        /\ infos' = infos \cup registered
        /\ \E new \in [registered -> SessionNums] :
             sessionNum' = [c \in Connectors |->
                              IF c \in registered THEN new[c] ELSE sessionNum[c]]
     \/ ~directory /\ UNCHANGED <<infos, sessionNum>>
  /\ UNCHANGED <<world, phase, listed, pSession, pinged, rtt, found>>

\* The first with the smallest rtt is replaced by one with fewer sessions, in or out
\* of the group of similar rtt.
calcBestServer ==
  LET near  == CHOOSE c \in listed : \A d \in listed : rtt[c] <= rtt[d]
      least == Min({sessionNum[c] : c \in listed})
  IN IF sessionNum[near] = least THEN near
     ELSE CHOOSE c \in listed : sessionNum[c] = least

\* Sessions are opened; then connected ones are pinged.  A session that is not
\* connected yet is passed over and holds nothing up.
onTestingTick ==
  LET Fresh == {c \in listed : pSession[c] = "none"}
      Connected == {c \in listed : pSession[c] = "connected"}
      alltested == Fresh = {} /\ \A c \in Connected : rtt[c] # Unknown
  IN
  /\ phase = "testing" /\ listed \subseteq infos
  /\ pSession' = [c \in Connectors |-> IF c \in Fresh THEN "connecting" ELSE pSession[c]]
  /\ rtt' = [c \in Connectors |-> IF c \in Fresh THEN Unknown ELSE rtt[c]]
  /\ pinged' = pinged \cup Connected
  /\ \/ alltested /\ found' = calcBestServer /\ phase' = "checking"
     \/ ~alltested /\ UNCHANGED <<found, phase>>
  /\ UNCHANGED <<world, asked, infos, listed, sessionNum>>

\* An info of the vector was erased: what is read there is undefined.
ReadErased ==
  /\ phase = "testing" /\ ~(listed \subseteq infos)
  /\ phase' = "undefined"
  /\ UNCHANGED <<world, asked, infos, listed, pSession, pinged, rtt, sessionNum, found>>

\* Any connector will do, not only the one that was chosen.
onCheckingTick ==
  /\ phase = "checking" /\ infos = {}
  /\ phase' = "finding" /\ found' = NONE
  /\ UNCHANGED <<world, asked, infos, listed, pSession, pinged, rtt, sessionNum>>
-------------------------------------------------------------------------------
onConnected(c) ==
  /\ pSession[c] = "connecting" /\ c \in registered
  /\ pSession' = [pSession EXCEPT ![c] = "connected"]
  /\ UNCHANGED <<world, phase, asked, infos, listed, pinged, rtt, sessionNum, found>>

onPong(c) ==
  /\ c \in pinged /\ pSession[c] = "connected"
  /\ pinged' = pinged \ {c}
  /\ \E t \in Rtts : rtt' = [rtt EXCEPT ![c] = t]
  /\ UNCHANGED <<world, phase, asked, infos, listed, pSession, sessionNum, found>>

\* ServerMgr::onSessionDisconnected erases the info.
onSessionDisconnected(c) ==
  /\ pSession[c] # "none" /\ lost < MaxLost
  /\ lost' = lost + 1
  /\ infos' = infos \ {c} /\ pinged' = pinged \ {c}
  /\ pSession' = [pSession EXCEPT ![c] = "none"]
  /\ UNCHANGED <<phase, directory, registered, asked, listed, rtt, sessionNum, found>>

DirectoryChange ==
  /\ directory' = ~directory
  /\ UNCHANGED <<phase, registered, asked, infos, listed, pSession, pinged, rtt,
                 sessionNum, found, lost>>

\* Connectors come to directory and go from it.
Register(c) ==
  /\ registered' = IF c \in registered THEN registered \ {c} ELSE registered \cup {c}
  /\ UNCHANGED <<phase, directory, asked, infos, listed, pSession, pinged, rtt,
                 sessionNum, found, lost>>

Next ==
  \/ onFindingTick \/ onSessionQueryServerInfosCB \/ onTestingTick \/ ReadErased
  \/ onCheckingTick \/ DirectoryChange
  \/ \E c \in Connectors : \/ onConnected(c) \/ onPong(c)
                            \/ onSessionDisconnected(c) \/ Register(c)

Spec == Init /\ [][Next]_vars
-------------------------------------------------------------------------------
\* "Then, of one group, the one with the fewest sessions": once every connector has
\* answered a ping, the round trip time of the one calcBestServer chooses is about
\* as small as any.
ChosenOfTheNear ==
  [][found' # found /\ found' # NONE /\ (\A c \in listed : rtt[c] # Unknown) =>
       \A c \in listed : rtt[found'] - rtt[c] <= TickInterval]_vars
===============================================================================
