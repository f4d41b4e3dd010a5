---------------------------- MODULE GatewayProofs ----------------------------
(***************************************************************************)
(* Theorems about Gateway, for any clients, backends and packets.  They    *)
(* are about the bindings and what the backends know.  Of the streams they *)
(* need only that a whole packet has the command it was sent with; what    *)
(* comes out of a torn session may be anything.                            *)
(***************************************************************************)
EXTENDS Gateway, TLAPS

\* The types of what the theorems are about.
Typed ==
  /\ session \in [Clients -> {"connected", "destroying", "gone"}]
  /\ backend \in [Clients -> Backends \cup {NULL}]
  /\ nums \in [Backends -> Nat]
  /\ up \in [Backends -> BOOLEAN] /\ deaf \in [Backends -> BOOLEAN]
  /\ known \in [Backends -> SUBSET Clients] /\ told \in [Backends -> SUBSET Clients]
  /\ torn \in [Clients -> BOOLEAN] /\ rude \subseteq Clients
  /\ left \in [Clients -> SUBSET Backends] /\ strayed \subseteq Backends
  /\ misled \in [Backends -> SUBSET Clients]

\* A backend that got packets of a client is the one it is bound to, or was told
\* that the client is gone, or is excused.
KnownIsBound ==
  \A c \in Clients, b \in Backends :
    c \in known[b] =>
      c \in told[b] \/ b \in left[c] \/ deaf[b] \/ c \in misled[b] \/ backend[c] = b

\* With its connection a backend loses all clients it knew.
LostAll == \A b \in Backends : ~up[b] => known[b] \subseteq told[b]

Core == Typed /\ NoDanglingBackend /\ KnownIsBound /\ LostAll /\ DeafHasCause

\* Whoever sent a packet that servers do not know, or a ForwardPacket, is noted.
Odd == {"bad", "forward"}
Noted ==
  /\ sent \in [Clients -> Seq([cmd : Cmds, len : Lens])]
  /\ header \in [Clients -> [cmd : Cmds, len : Lens]]
  /\ \A c \in Clients : header[c].cmd \in Odd => c \in rude
  /\ \A c \in Clients : \A k \in 1..Len(sent[c]) : sent[c][k].cmd \in Odd => c \in rude

Inv == Core /\ Noted

\* Nobody is bound and nobody knows anybody at first.
LEMMA InitInv == Init => Inv
<1>1. Init => Core
  BY NullAssumption DEF Init, Core, Typed, NoDanglingBackend, KnownIsBound, LostAll, DeafHasCause
<1>2. Init => Noted
  BY LensAssumption DEF Init, Noted, NoHeader, Odd, Cmds
<1>3. QED
  BY <1>1, <1>2 DEF Inv

\* Steps that leave all of it alone.
bound == <<session, backend, nums, up, deaf, known, told, torn, rude, left, strayed, misled>>
LEMMA BoundCore == ASSUME Core, UNCHANGED bound PROVE Core'
  BY DEF bound, Core, Typed, NoDanglingBackend, KnownIsBound, LostAll, DeafHasCause

\* A session that is closed is bound to nobody, and its backend is told.
LEMMA CloseCore == ASSUME Core, NEW c \in Clients, Close(c) PROVE Core'
<1> USE NullAssumption DEF Close, Core, Typed
<1>1. Typed' /\ NoDanglingBackend'
  BY DEF NoDanglingBackend
<1>2. KnownIsBound' /\ LostAll' /\ DeafHasCause'
  BY DEF KnownIsBound, LostAll, DeafHasCause
<1>3. QED
  BY <1>1, <1>2

\* A session that is torn stays bound.
LEMMA TearCore ==
  ASSUME Core, NEW c \in Clients, Tear(c), UNCHANGED <<binding, servers, session>> PROVE Core'
  BY DEF Tear, binding, servers, Core, Typed, NoDanglingBackend, KnownIsBound, LostAll,
     DeafHasCause

\* An odd packet comes out of a session that sent one, or that is torn.
LEMMA OddIsNoted ==
  ASSUME Inv, NEW c \in Clients, NEW cmd \in PacketIn(c) \cap Odd PROVE c \in rude \/ torn[c]
  BY DEF Inv, Noted, PacketIn

\* The first packet binds, and the packet goes to a backend that is there.
LEMMA ForServerCore == ASSUME Inv, NEW c \in Clients, RecvForServer(c) PROVE Core'
<1> USE NullAssumption, KindAssumption DEF Inv, Core, Typed
<1> PICK cmd \in PacketIn(c) : \E type \in Ranges(cmd) :
      /\ IF BoundTo(c, type) THEN UNCHANGED binding
         ELSE \E found \in Found(cmd, type) : Bind(c, found)
      /\ backend'[c] # NULL
      /\ IF up[backend'[c]] THEN Forward(backend'[c], c, cmd) ELSE UNCHANGED servers
      /\ NextPacket(c)
  BY DEF RecvForServer
<1> PICK type \in Ranges(cmd) :
      /\ IF BoundTo(c, type) THEN UNCHANGED binding
         ELSE \E found \in Found(cmd, type) : Bind(c, found)
      /\ backend'[c] # NULL
      /\ IF up[backend'[c]] THEN Forward(backend'[c], c, cmd) ELSE UNCHANGED servers
      /\ NextPacket(c)
  OBVIOUS
<1>1. session[c] = "connected" /\ session' = session /\ torn' = torn /\ rude' = rude
  <2>1. PacketIn(c) # {}
    OBVIOUS
  <2>2. QED
    BY <2>1 DEF PacketIn, NextPacket
<1>2. \A found \in Found(cmd, type) : found \in Backends \cup {NULL} /\ (found # NULL => up[found])
  BY DEF Found, Choices, Best
<1>3. /\ nums' \in [Backends -> Nat] /\ backend' \in [Clients -> Backends \cup {NULL}]
      /\ left' \in [Clients -> SUBSET Backends]
      /\ \A d \in Clients \ {c} : backend'[d] = backend[d] /\ left'[d] = left[d]
      /\ backend'[c] \in Backends /\ up[backend'[c]]
      /\ left[c] \cup ({backend[c]} \ {NULL}) \subseteq left'[c] \cup {backend'[c]}
  <2>1. CASE UNCHANGED binding
    BY <2>1 DEF binding, NoDanglingBackend
  <2>2. CASE \E found \in Found(cmd, type) : Bind(c, found)
    <3> PICK found \in Found(cmd, type) : Bind(c, found)
      BY <2>2
    <3>1. CASE found = NULL
      BY <3>1 DEF Bind, binding, NoDanglingBackend
    <3>2. CASE found # NULL
      <4>1. found \in Backends /\ up[found]
        BY <1>2, <3>2
      <4>2. /\ backend' = [backend EXCEPT ![c] = found]
            /\ nums' = [nums EXCEPT ![found] = nums[found] + 1]
            /\ left' = [left EXCEPT ![c] = (left[c] \cup {backend[c]}) \ {found, NULL}]
        BY <3>2 DEF Bind
      <4>3. nums' \in [Backends -> Nat]
        BY <4>1, <4>2
      <4>4. left'[c] \subseteq Backends
        BY <4>2
      <4>5. QED
        BY <4>1, <4>2, <4>3, <4>4
    <3>3. QED
      BY <3>1, <3>2
  <2>3. QED
    BY <2>1, <2>2
<1> DEFINE b == backend'[c]
<1>4. /\ up' = up /\ misled' = misled
      /\ strayed' \subseteq Backends /\ strayed \subseteq strayed'
      /\ \/ deaf' = deaf /\ known' = known /\ told' = told
         \/ /\ known' = [known EXCEPT ![b] = @ \cup {c}] /\ told' = [told EXCEPT ![b] = @ \ {c}]
            /\ deaf' = deaf
         \/ /\ deaf' = [deaf EXCEPT ![b] = TRUE] /\ known' = known /\ told' = told
            /\ b \in strayed' \/ cmd \in Odd
  <2>1. Forward(b, c, cmd)
    BY <1>3
  <2>2. up' = up /\ misled' = misled /\ strayed' = Stray(b, cmd)
    BY <2>1 DEF Forward
  <2>3. cmd \in {"login", "halls"} \/ cmd = "bad"
    BY DEF Ranges
  <2>4. cmd # Kind[b] => b \in strayed' \/ cmd \in Odd
    BY <2>2, <2>3 DEF Stray, Odd
  <2>5. QED
    BY <1>3, <2>1, <2>2, <2>4 DEF Forward, Misses, Hears, Deafens, Knows, Stray
<1>5. Typed'
  <2>1. /\ known' \in [Backends -> SUBSET Clients] /\ told' \in [Backends -> SUBSET Clients]
        /\ deaf' \in [Backends -> BOOLEAN]
    <3>1. b \in Backends /\ (known[b] \cup {c}) \in SUBSET Clients /\ (told[b] \ {c}) \in SUBSET Clients
      BY <1>3
    <3>2. /\ known \in [Backends -> SUBSET Clients] /\ told \in [Backends -> SUBSET Clients]
          /\ deaf \in [Backends -> BOOLEAN]
      OBVIOUS
    <3> HIDE DEF b, Inv, Core, Typed
    <3>3. CASE deaf' = deaf /\ known' = known /\ told' = told
      BY <3>2, <3>3
    <3>4. CASE /\ known' = [known EXCEPT ![b] = @ \cup {c}] /\ told' = [told EXCEPT ![b] = @ \ {c}]
               /\ deaf' = deaf
      BY <3>1, <3>2, <3>4
    <3>5. CASE deaf' = [deaf EXCEPT ![b] = TRUE] /\ known' = known /\ told' = told
      BY <3>1, <3>2, <3>5
    <3>6. QED
      BY <1>4, <3>3, <3>4, <3>5
  <2>2. QED
    BY <2>1, <1>1, <1>3, <1>4
<1>6. NoDanglingBackend'
  BY <1>1, <1>3, <1>4 DEF NoDanglingBackend
<1>7. KnownIsBound'
  <2> SUFFICES ASSUME NEW d \in Clients, NEW e \in Backends, d \in known'[e]
               PROVE d \in told'[e] \/ e \in left'[d] \/ deaf'[e] \/ d \in misled'[e]
                       \/ backend'[d] = e
    BY DEF KnownIsBound
  <2>1. CASE d = c /\ e = b
    BY <2>1
  <2>2. CASE ~(d = c /\ e = b)
    <3>1. d \in known[e] /\ (deaf[e] => deaf'[e]) /\ (d \in told[e] => d \in told'[e])
      BY <2>2, <1>3, <1>4
    <3>2. d \in told[e] \/ e \in left[d] \/ deaf[e] \/ d \in misled[e] \/ backend[d] = e
      BY <3>1 DEF KnownIsBound
    <3>3. QED
      BY <2>2, <3>1, <3>2, <1>3, <1>4
  <2>3. QED
    BY <2>1, <2>2
<1>8. LostAll'
  BY <1>3, <1>4 DEF LostAll
<1>9. DeafHasCause'
  <2>1. cmd \in Odd => c \in rude \/ torn[c]
    BY OddIsNoted
  <2>2. QED
    BY <2>1, <1>1, <1>3, <1>4 DEF DeafHasCause
<1>10. QED
  BY <1>5, <1>6, <1>7, <1>8, <1>9

\* What a client forwards comes to the backend it is bound to, which is there.
LEMMA ForwardCore == ASSUME Inv, NEW c \in Clients, RecvForward(c) PROVE Core'
<1> USE NullAssumption DEF Inv, Core, Typed
<1> DEFINE b == backend[c]
<1>1. /\ b \in Backends /\ up[b] /\ UNCHANGED <<session, backend, nums, left, up, torn, rude, strayed>>
  BY DEF RecvForward, NextPacket, binding, NoDanglingBackend
<1>2. c \in rude \/ torn[c]
  BY OddIsNoted DEF RecvForward, Odd
<1>3. CASE deaf' = deaf /\ known' = known /\ told' = told /\ misled' = misled
  BY <1>1, <1>3, BoundCore DEF bound
<1>4. CASE deaf' = [deaf EXCEPT ![b] = TRUE] /\ known' = known /\ told' = told /\ misled' = misled
  BY <1>1, <1>2, <1>4 DEF NoDanglingBackend, KnownIsBound, LostAll, DeafHasCause
<1>5. ASSUME NEW d \in Clients, told' = [told EXCEPT ![b] = @ \cup {d}],
             UNCHANGED <<known, deaf, misled>>
      PROVE Core'
  BY <1>1, <1>5 DEF NoDanglingBackend, KnownIsBound, LostAll, DeafHasCause
<1>6. ASSUME NEW d \in Clients, known' = [known EXCEPT ![b] = @ \cup {d}],
             told' = [told EXCEPT ![b] = @ \ {d}], deaf' = deaf,
             misled' = [misled EXCEPT ![b] = IF backend[d] = b THEN @ ELSE @ \cup {d}]
      PROVE Core'
  <2>1. Typed' /\ NoDanglingBackend'
    BY <1>1, <1>6 DEF NoDanglingBackend
  <2>2. KnownIsBound'
    BY <1>1, <1>6 DEF KnownIsBound
  <2>3. LostAll' /\ DeafHasCause'
    BY <1>1, <1>6 DEF LostAll, DeafHasCause
  <2>4. QED
    BY <2>1, <2>2, <2>3
<1>7. QED
  BY <1>3, <1>4, <1>5, <1>6 DEF RecvForward, Misses, Deafens, Hears

\* onRecv closes, binds, forwards, tears, or changes the stream only.
LEMMA RecvCore == ASSUME Inv, NEW c \in Clients, onRecv(c) PROVE Core'
<1>0. Core
  BY DEF Inv
<1>1. CASE RecvDestroyed(c) \/ RecvBad(c) \/ RecvUnserved(c)
  BY <1>0, <1>1, CloseCore DEF RecvDestroyed, RecvBad, RecvUnserved
<1>2. CASE RecvTornHeader(c)
  BY <1>0, <1>2, TearCore DEF RecvTornHeader
<1>3. CASE RecvForServer(c) \/ RecvForward(c)
  BY <1>3, ForServerCore, ForwardCore
<1>4. CASE RecvWaits(c) \/ RecvHeader(c) \/ RecvCommon(c)
  BY <1>0, <1>4, BoundCore DEF RecvWaits, RecvHeader, RecvCommon, NextPacket, bound, stream,
     binding, servers
<1>5. QED
  BY <1>1, <1>2, <1>3, <1>4 DEF onRecv

\* A client that sends something odd gives a cause only.
LEMMA SendCore == ASSUME Core, NEW c \in Clients, Send(c) PROVE Core'
<1>1. rude \subseteq rude' /\ rude' \subseteq Clients
  BY DEF Send, Core, Typed
<1>2. UNCHANGED <<session, torn, binding, servers>>
  BY DEF Send
<1>3. QED
  BY <1>1, <1>2 DEF binding, servers, Core, Typed, NoDanglingBackend, KnownIsBound, LostAll,
     DeafHasCause

\* A server that joins understands everything, and was told of all clients it knew.
LEMMA JoinedCore == ASSUME Core, NEW b \in Backends, onServerJoined(b) PROVE Core'
<1> USE DEF onServerJoined, stream, binding, Core, Typed
<1>1. Typed' /\ NoDanglingBackend'
  BY DEF NoDanglingBackend
<1>2. KnownIsBound' /\ LostAll' /\ DeafHasCause'
  BY DEF KnownIsBound, LostAll, DeafHasCause
<1>3. QED
  BY <1>1, <1>2

\* All sessions bound to a server that goes are unbound and will be closed.
LEMMA ExitCore == ASSUME Core, NEW b \in Backends, onServerExit(b) PROVE Core'
<1> USE NullAssumption DEF onServerExit, stream, Core, Typed
<1>1. Typed' /\ NoDanglingBackend'
  BY DEF NoDanglingBackend
<1>2. KnownIsBound' /\ LostAll'
  BY DEF KnownIsBound, LostAll
<1>3. DeafHasCause'
  BY DEF DeafHasCause
<1>4. QED
  BY <1>1, <1>2, <1>3

\* Every step keeps Core.
LEMMA NextCore == ASSUME Inv, [Next]_vars PROVE Core'
<1>0. Core
  BY DEF Inv
<1>1. CASE UNCHANGED vars
  BY <1>0, <1>1, BoundCore DEF vars, bound, stream, binding, servers
<1>2. ASSUME NEW c \in Clients, Send(c) \/ Arrive(c) PROVE Core'
  BY <1>0, <1>2, SendCore, BoundCore DEF Arrive, bound, binding, servers
<1>3. ASSUME NEW c \in Clients, onDisconnected(c) \/ onRecv(c) PROVE Core'
  BY <1>0, <1>3, CloseCore, RecvCore DEF onDisconnected
<1>4. ASSUME NEW c \in Clients, checkSessions(c) PROVE Core'
  BY <1>0, <1>4 DEF checkSessions, stream, binding, servers, Core, Typed, NoDanglingBackend,
     KnownIsBound, LostAll, DeafHasCause
<1>5. ASSUME NEW b \in Backends, onServerJoined(b) \/ onServerExit(b) PROVE Core'
  BY <1>0, <1>5, JoinedCore, ExitCore
<1>6. ASSUME NEW b \in Backends, NEW c \in Clients, onForwardPacket(b, c) PROVE Core'
  <2>1. CASE Tear(c)
    BY <1>0, <1>6, <2>1, TearCore DEF onForwardPacket
  <2>2. CASE UNCHANGED <<stream, running>>
    BY <1>0, <1>6, <2>2, BoundCore DEF onForwardPacket, bound, stream, binding, servers
  <2>3. QED
    BY <1>6, <2>1, <2>2 DEF onForwardPacket
<1>7. QED
  BY <1>1, <1>2, <1>3, <1>4, <1>5, <1>6 DEF Next

\* The elements of a sequence, and of one that grew.
LEMMA Elements ==
  ASSUME NEW S, NEW s \in Seq(S), NEW e \in S
  PROVE /\ \A k \in 1..Len(s) : s[k] \in S
        /\ Append(s, e) \in Seq(S) /\ Len(Append(s, e)) = Len(s) + 1 /\ Len(s) \in Nat
        /\ \A k \in 1..(Len(s) + 1) : Append(s, e)[k] = IF k = Len(s) + 1 THEN e ELSE s[k]
  OBVIOUS

\* Packets and headers nobody touches, or that are forgotten, stay noted.
LEMMA SameNoted == ASSUME Noted, UNCHANGED <<sent, header, rude>> PROVE Noted'
  BY DEF Noted
LEMMA DropNoted == ASSUME Noted, NEW c \in Clients, DropStream(c), UNCHANGED rude PROVE Noted'
<1>1. /\ sent' = [sent EXCEPT ![c] = <<>>] /\ header' = [header EXCEPT ![c] = NoHeader]
      /\ rude' = rude
  BY DEF DropStream
<1>2. NoHeader \in [cmd : Cmds, len : Lens] /\ NoHeader.cmd \notin Odd
  BY LensAssumption DEF NoHeader, Cmds, Odd
<1>3. <<>> \in Seq([cmd : Cmds, len : Lens]) /\ Len(<<>>) = 0
  OBVIOUS
<1>4. /\ sent' \in [Clients -> Seq([cmd : Cmds, len : Lens])]
      /\ header' \in [Clients -> [cmd : Cmds, len : Lens]]
  BY <1>1, <1>2, <1>3 DEF Noted
<1>5. \A d \in Clients : header'[d].cmd \in Odd => d \in rude'
  BY <1>1, <1>2 DEF Noted
<1>6. ASSUME NEW d \in Clients, NEW k \in 1..Len(sent'[d]), sent'[d][k].cmd \in Odd
      PROVE d \in rude'
  <2>1. CASE d = c
    <3>1. Len(sent'[d]) = 0
      BY <1>1, <1>3, <2>1 DEF Noted
    <3>2. QED
      BY <3>1
  <2>2. CASE d # c
    BY <1>1, <1>6, <2>2 DEF Noted
  <2>3. QED
    BY <2>1, <2>2
<1>7. QED
  BY <1>4, <1>5, <1>6 DEF Noted

\* A packet is noted when it is sent.
LEMMA SendNoted == ASSUME Noted, NEW c \in Clients, Send(c) PROVE Noted'
<1> PICK cmd \in Sends[c], len \in Lens :
      /\ sent' = [sent EXCEPT ![c] = Append(@, [cmd |-> cmd, len |-> len])]
      /\ rude' = IF cmd \in {"bad", "forward"} THEN rude \cup {c} ELSE rude
  BY DEF Send
<1> DEFINE e == [cmd |-> cmd, len |-> len]
<1>1. cmd \in Cmds /\ e \in [cmd : Cmds, len : Lens] /\ e.cmd = cmd
  BY SendsAssumption
<1>2. rude \subseteq rude' /\ (e.cmd \in Odd => c \in rude')
  BY <1>1 DEF Odd
<1> HIDE DEF e
<1>3. /\ sent[c] \in Seq([cmd : Cmds, len : Lens]) /\ Append(sent[c], e) \in Seq([cmd : Cmds, len : Lens])
      /\ \A k \in 1..Len(Append(sent[c], e)) :
           Append(sent[c], e)[k] = e \/ (k \in 1..Len(sent[c]) /\ Append(sent[c], e)[k] = sent[c][k])
  <2> DEFINE s == sent[c]
  <2>1. s \in Seq([cmd : Cmds, len : Lens])
    BY DEF Noted
  <2> HIDE DEF s
  <2>2. /\ Append(s, e) \in Seq([cmd : Cmds, len : Lens]) /\ Len(Append(s, e)) = Len(s) + 1
        /\ Len(s) \in Nat
        /\ \A k \in 1..(Len(s) + 1) : Append(s, e)[k] = IF k = Len(s) + 1 THEN e ELSE s[k]
    BY <1>1, <2>1, Elements
  <2>3. /\ s \in Seq([cmd : Cmds, len : Lens]) /\ Append(s, e) \in Seq([cmd : Cmds, len : Lens])
        /\ \A k \in 1..Len(Append(s, e)) :
             Append(s, e)[k] = e \/ (k \in 1..Len(s) /\ Append(s, e)[k] = s[k])
    BY <2>1, <2>2
  <2>4. QED
    BY <2>3 DEF s
<1>4. header' = header /\ sent' = [sent EXCEPT ![c] = Append(sent[c], e)]
  BY DEF Send, e
<1>5. \A k \in 1..Len(Append(sent[c], e)) : Append(sent[c], e)[k].cmd \in Odd => c \in rude'
  BY <1>2, <1>3 DEF Noted
<1>6. ASSUME NEW d \in Clients, NEW k \in 1..Len(sent'[d]), sent'[d][k].cmd \in Odd
      PROVE d \in rude'
  BY <1>2, <1>4, <1>5, <1>6 DEF Noted
<1>7. QED
  BY <1>2, <1>3, <1>4, <1>6 DEF Noted

\* A header that was read is one that was sent.
LEMMA HeaderNoted == ASSUME Noted, NEW c \in Clients, RecvHeader(c) PROVE Noted'
<1> PICK k \in 1..Len(sent[c]) : header' = [header EXCEPT ![c] = sent[c][k]]
  BY DEF RecvHeader
<1>1. sent' = sent /\ rude' = rude
  BY DEF RecvHeader
<1>2. sent[c][k] \in [cmd : Cmds, len : Lens] /\ (sent[c][k].cmd \in Odd => c \in rude)
  <2>1. sent[c] \in Seq([cmd : Cmds, len : Lens]) /\ NoHeader \in [cmd : Cmds, len : Lens]
    BY LensAssumption DEF Noted, NoHeader, Cmds
  <2>2. sent[c][k] \in [cmd : Cmds, len : Lens]
    BY <2>1, Elements
  <2>3. QED
    BY <2>2 DEF Noted
<1>3. QED
  BY <1>1, <1>2 DEF Noted

\* Every step keeps Noted.
LEMMA NextNoted == ASSUME Noted, [Next]_vars PROVE Noted'
<1>1. CASE UNCHANGED vars
  BY <1>1, SameNoted DEF vars, stream
<1>2. ASSUME NEW c \in Clients, Send(c) \/ Arrive(c) \/ checkSessions(c) PROVE Noted'
  BY <1>2, SendNoted, SameNoted DEF Arrive, checkSessions, stream
<1>3. ASSUME NEW c \in Clients, Close(c) \/ Tear(c) PROVE Noted'
  BY <1>3, DropNoted DEF Close, Tear
<1>4. ASSUME NEW c \in Clients, onRecv(c) PROVE Noted'
  <2>1. CASE RecvDestroyed(c) \/ RecvBad(c) \/ RecvUnserved(c) \/ RecvTornHeader(c)
    BY <1>3, <2>1 DEF RecvDestroyed, RecvBad, RecvUnserved, RecvTornHeader
  <2>2. CASE RecvHeader(c)
    BY <2>2, HeaderNoted
  <2>3. CASE RecvWaits(c) \/ RecvCommon(c) \/ RecvForServer(c) \/ RecvForward(c)
    BY <2>3, SameNoted DEF RecvWaits, RecvCommon, RecvForServer, RecvForward, NextPacket, stream
  <2>4. QED
    BY <1>4, <2>1, <2>2, <2>3 DEF onRecv
<1>5. ASSUME NEW c \in Clients, onDisconnected(c) PROVE Noted'
  BY <1>3, <1>5 DEF onDisconnected
<1>6. ASSUME NEW b \in Backends, onServerJoined(b) \/ onServerExit(b) PROVE Noted'
  BY <1>6, SameNoted DEF onServerJoined, onServerExit, stream
<1>7. ASSUME NEW b \in Backends, NEW c \in Clients, onForwardPacket(b, c) PROVE Noted'
  BY <1>3, <1>7, SameNoted DEF onForwardPacket, stream
<1>8. QED
  BY <1>1, <1>2, <1>4, <1>5, <1>6, <1>7 DEF Next

\* Every step keeps Inv.
LEMMA NextInv == Inv /\ [Next]_vars => Inv'
  BY NextCore, NextNoted DEF Inv

\* Inv holds in every behaviour.
LEMMA InvHolds == Spec => []Inv
  BY InitInv, NextInv, PTL DEF Spec

\* No client session is bound to a connection that is gone
\* (XServerApp::onServerExit and XSession::onDisconnected of connector).
THEOREM BackendsAreThere == Spec => []NoDanglingBackend
<1>1. Inv => NoDanglingBackend
  BY DEF Inv, Core
<1>2. QED
  BY <1>1, InvHolds, PTL

\* A server that was sent packets of a client learns that the client is gone, unless
\* the client went on to another server, the server met a packet it does not know, or it
\* heard of the client from one that wrote in its name, whatever clients send and forward
\* (XSession::onDisconnected and onForwardPacket of connector).
THEOREM ServersLearnOfLeaving == Spec => []DisconnectIsTold
<1>1. Inv => DisconnectIsTold
  BY NullAssumption DEF Inv, Core, Typed, NoDanglingBackend, KnownIsBound, DisconnectIsTold
<1>2. QED
  BY <1>1, InvHolds, PTL

\* While clients send whole packets that servers know, only packets of the other type make
\* a server deaf (XSession::onProcessPacket and onForwardPacket of connector, login and halls).
THEOREM DeafnessHasCauses == Spec => []DeafHasCause
<1>1. Inv => DeafHasCause
  BY DEF Inv, Core
<1>2. QED
  BY <1>1, InvHolds, PTL
===============================================================================
