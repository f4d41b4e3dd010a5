-------------------------------- MODULE Gateway --------------------------------
(***************************************************************************)
(* The gateway between clients and servers: the packet framing of          *)
(* Session::onRecv (src/src/libs/event/Session.cpp) and the forwarding of  *)
(* connector (src/src/servers/connector/XSession.cpp, XServerApp.cpp).     *)
(*                                                                         *)
(* A client session reads a stream of bytes that arrives in pieces.  A     *)
(* packet is HeaderSize parts of header and len parts of body; the session *)
(* keeps the header it has read until the body is there.  A session whose  *)
(* header was read in part or written over takes any bytes for a packet:   *)
(* of such a torn session the model keeps no stream, anything may come out *)
(* of it, or nothing.  Login and Halls packets go to the backend the       *)
(* session is bound to, a login or a halls server that connected to        *)
(* connector; answers and pushes of a backend name the client.  What the   *)
(* bodies say is not followed, only whether a server knows the packet.  A  *)
(* connection to a backend is lost at both ends in one step.               *)
(*                                                                         *)
(* connector has one thread.  running names the session whose onRecv loop  *)
(* has the thread; nothing else happens until the loop returns.            *)
(***************************************************************************)
EXTENDS Integers, Sequences, FiniteSets

CONSTANTS
  Clients,
  Backends,
  Kind,        \* Kind[b]: "login" or "halls", the type of server b
  Lens,        \* lengths of packet bodies, a uint16 as is PACKET_LENGTH_MAX
  Sends,       \* Sends[c] bounds the kinds of packets client c sends, of Cmds
  MaxPackets,  \* MaxPackets[c] bounds the packets of client c, and those out of a torn session
  MaxAnswers,  \* bounds the packets the backends send to clients
  MaxExits,    \* bounds how often connections to backends are lost
  NULL

\* What a client sends: Login and Halls packets that the servers of the type know; of
\* the same ranges one they do not know (a command without a case, a body that does not
\* parse); a CMD::ForwardPacket; anything else.
Cmds == {"login", "halls", "bad", "forward", "common"}
\* The ranges of commands a packet may be of.
Ranges(cmd) == IF cmd = "bad" THEN {"login", "halls"} ELSE {cmd} \cap {"login", "halls"}
HeaderSize == 2                       \* stands for the four bytes of PacketHeader
NoHeader == [cmd |-> "common", len |-> 0]

ASSUME KindAssumption == Kind \in [Backends -> {"login", "halls"}]
ASSUME NullAssumption == NULL \notin Backends \cup Clients
ASSUME SendsAssumption == Sends \in [Clients -> SUBSET Cmds]
ASSUME LensAssumption == 0 \in Lens /\ Lens \subseteq Nat
ASSUME BoundsAssumption == MaxPackets \in [Clients -> Nat] /\ MaxAnswers \in Nat /\ MaxExits \in Nat

VARIABLES
  sent,         \* the packets a client has sent
  wire,         \* parts on their way
  buf,          \* parts in the receive buffer of the session
  headerRcved,
  header,       \* header_
  session,      \* of the client at connector
  backend,      \* pBackendSession_
  running,
  nums,         \* mapBackendSessionNums_
  up,           \* the backend is connected and said Hello
  deaf,         \* the backend's session to connector met a packet it does not know
  known,        \* clients a backend got a packet of
  told,         \* clients a backend takes for disconnected
  handled,      \* history: the packets onRecv cut out of the stream
  torn,         \* the header of the session was read in part or overwritten
  rude,         \* history: clients that sent a packet servers do not know or a ForwardPacket
  left,         \* history: backends a client was bound to before another one
  strayed,      \* history: backends that got a packet of the other type
  misled,       \* history: clients not bound to a backend in whose name a client wrote to it
  answers,      \* number of packets of backends
  exits         \* number of connections lost
stream == <<sent, wire, buf, headerRcved, header, handled, torn, rude>>
binding == <<backend, nums, left>>
servers == <<up, deaf, known, told, strayed, misled>>
vars == <<stream, binding, servers, session, running, answers, exits>>

\* Part i of packet k is <<k, i>>: 1..HeaderSize are its header.
Parts(k, len) == [i \in 1..(HeaderSize + len) |-> <<k, i>>]
Body(k, len) == [i \in 1..len |-> <<k, HeaderSize + i>>]

TypeOK ==
  /\ sent \in [Clients -> Seq([cmd : Cmds, len : Lens])]
  /\ wire \in [Clients -> Seq(Nat \X Nat)] /\ buf \in [Clients -> Seq(Nat \X Nat)]
  /\ headerRcved \in [Clients -> BOOLEAN]
  /\ header \in [Clients -> [cmd : Cmds, len : Lens]]
  /\ session \in [Clients -> {"connected", "destroying", "gone"}]
  /\ backend \in [Clients -> Backends \cup {NULL}]
  /\ running \in Clients \cup {NULL}
  /\ nums \in [Backends -> Nat]
  /\ up \in [Backends -> BOOLEAN] /\ deaf \in [Backends -> BOOLEAN]
  /\ known \in [Backends -> SUBSET Clients] /\ told \in [Backends -> SUBSET Clients]
  /\ handled \in [Clients -> Seq([cmd : Cmds, body : Seq(Nat \X Nat)])]
  /\ torn \in [Clients -> BOOLEAN] /\ rude \subseteq Clients
  /\ left \in [Clients -> SUBSET Backends] /\ strayed \subseteq Backends
  /\ misled \in [Backends -> SUBSET Clients]
  /\ answers \in 0..MaxAnswers /\ exits \in 0..MaxExits

Init ==
  /\ sent = [c \in Clients |-> <<>>]
  /\ wire = [c \in Clients |-> <<>>] /\ buf = [c \in Clients |-> <<>>]
  /\ headerRcved = [c \in Clients |-> FALSE]
  /\ header = [c \in Clients |-> NoHeader]
  /\ session = [c \in Clients |-> "connected"]
  /\ backend = [c \in Clients |-> NULL]
  /\ running = NULL
  /\ nums = [b \in Backends |-> 0]
  /\ up = [b \in Backends |-> FALSE] /\ deaf = [b \in Backends |-> FALSE]
  /\ known = [b \in Backends |-> {}] /\ told = [b \in Backends |-> {}]
  /\ handled = [c \in Clients |-> <<>>]
  /\ torn = [c \in Clients |-> FALSE] /\ rude = {}
  /\ left = [c \in Clients |-> {}] /\ strayed = {}
  /\ misled = [b \in Backends |-> {}]
  /\ answers = 0 /\ exits = 0
-------------------------------------------------------------------------------
(* Clients and the network *)

\* A client may send anything at any time.
Send(c) ==
  /\ running = NULL /\ session[c] = "connected" /\ ~torn[c] /\ Len(sent[c]) < MaxPackets[c]
  /\ \E cmd \in Sends[c], len \in Lens :
       /\ sent' = [sent EXCEPT ![c] = Append(@, [cmd |-> cmd, len |-> len])]
       /\ wire' = [wire EXCEPT ![c] = @ \o Parts(Len(sent[c]) + 1, len)]
       /\ rude' = IF cmd \in {"bad", "forward"} THEN rude \cup {c} ELSE rude
  /\ UNCHANGED <<buf, headerRcved, header, handled, torn, binding, servers,
                 session, running, answers, exits>>

\* Some bytes arrive, cut anywhere, and onRecv is called.
Arrive(c) ==
  /\ running = NULL /\ session[c] # "gone" /\ wire[c] # <<>>
  /\ \E n \in 1..Len(wire[c]) :
       /\ buf' = [buf EXCEPT ![c] = @ \o SubSeq(wire[c], 1, n)]
       /\ wire' = [wire EXCEPT ![c] = SubSeq(@, n + 1, Len(@))]
  /\ running' = c
  /\ UNCHANGED <<sent, headerRcved, header, handled, torn, rude, binding, servers,
                 session, answers, exits>>
-------------------------------------------------------------------------------
(* Backends: what they do with what connector sends them *)

\* b handles a packet that names client d.
Hears(b, d) ==
  /\ known' = [known EXCEPT ![b] = @ \cup {d}] /\ told' = [told EXCEPT ![b] = @ \ {d}]
  /\ UNCHANGED deaf

\* onProcessPacket_ gives false, and then, on a session between servers, onRecv
\* returns with headerRcved_ set: b takes every later byte for more of the same.
Deafens(b) == deaf' = [deaf EXCEPT ![b] = TRUE] /\ UNCHANGED <<known, told>>

\* What a deaf server makes of a packet is not followed.
Misses(b) == UNCHANGED <<known, told, deaf>>

\* The switches of login and of halls have cases for the commands of their own only.
Knows(b, cmd) == cmd = Kind[b]

Stray(b, cmd) == IF cmd \in {"login", "halls"} \ {Kind[b]} THEN strayed \cup {b} ELSE strayed

\* Mutant: the switch of a server lacks the case of a command that clients send.
Forward_missingCase(b, c, cmd) ==
  /\ IF deaf[b] THEN Misses(b) ELSE Deafens(b) \/ (Knows(b, cmd) /\ Hears(b, c))
  /\ strayed' = Stray(b, cmd)
  /\ UNCHANGED <<up, misled>>

\* A packet of c comes to b as connector got it: its body was not parsed on the way.
Forward(b, c, cmd) ==
  /\ IF deaf[b] THEN Misses(b) ELSE IF Knows(b, cmd) THEN Hears(b, c) ELSE Deafens(b)
  /\ strayed' = Stray(b, cmd)
  /\ UNCHANGED <<up, misled>>
-------------------------------------------------------------------------------
(* The session of a client *)

\* The stream of c is forgotten.
DropStream(c) ==
  /\ sent' = [sent EXCEPT ![c] = <<>>] /\ handled' = [handled EXCEPT ![c] = <<>>]
  /\ wire' = [wire EXCEPT ![c] = <<>>] /\ buf' = [buf EXCEPT ![c] = <<>>]
  /\ headerRcved' = [headerRcved EXCEPT ![c] = FALSE]
  /\ header' = [header EXCEPT ![c] = NoHeader]

\* Mutant: nobody calls onDisconnected.
Close_silent(c) ==
  /\ session' = [session EXCEPT ![c] = "gone"]
  /\ backend' = [backend EXCEPT ![c] = NULL]
  /\ DropStream(c) /\ running' = NULL
  /\ UNCHANGED <<torn, rude, nums, left, servers, answers, exits>>

\* Session::close with XSession::onDisconnected: the backend is told, socket and
\* session are deleted.
Close(c) ==
  /\ session' = [session EXCEPT ![c] = "gone"]
  /\ backend' = [backend EXCEPT ![c] = NULL]
  /\ told' = [b \in Backends |->
       IF b = backend[c] /\ ~deaf[b] THEN told[b] \cup {c} ELSE told[b]]
  /\ DropStream(c) /\ running' = NULL
  /\ UNCHANGED <<torn, rude, nums, left, up, deaf, known, strayed, misled, answers, exits>>

\* The header is not what the client sent.
Tear(c) ==
  /\ torn' = [torn EXCEPT ![c] = TRUE] /\ DropStream(c)
  /\ running' = NULL /\ UNCHANGED rude

\* The end of the stream, an error, or the 100 ms of destroy() are over.
onDisconnected(c) ==
  /\ running = NULL /\ session[c] # "gone"
  /\ Close(c)

\* checkSessions destroys a session that was silent for too long.
checkSessions(c) ==
  /\ running = NULL /\ session[c] = "connected"
  /\ session' = [session EXCEPT ![c] = "destroying"]
  /\ UNCHANGED <<stream, binding, servers, running, answers, exits>>

\* onRecv closes a session that is being destroyed instead of reading it.
RecvDestroyed(c) ==
  /\ running = c /\ session[c] = "destroying"
  /\ Close(c)

\* onRecv returns: no byte of a header, or not yet the whole body.
RecvWaits(c) ==
  /\ running = c /\ session[c] = "connected"
  /\ IF headerRcved[c] THEN header[c].len > Len(buf[c]) ELSE buf[c] = <<>>
  /\ running' = NULL
  /\ UNCHANGED <<stream, binding, servers, session, answers, exits>>

\* What onRecv takes for a header, as soon as a byte is there: up to a header.
HeaderParts(c) == SubSeq(buf[c], 1, IF Len(buf[c]) < HeaderSize THEN Len(buf[c]) ELSE HeaderSize)
AtHeader(c) == running = c /\ session[c] = "connected" /\ ~headerRcved[c] /\ buf[c] # <<>>

\* The parts are the header of packet k.
IsHeaderOf(k, parts) == parts = [i \in 1..HeaderSize |-> <<k, i>>]

\* Mutant: the header is not decoded from network order.
RecvHeader_notDecoded(c) ==
  /\ AtHeader(c)
  /\ \E k \in 1..Len(sent[c]) : IsHeaderOf(k, HeaderParts(c))
       /\ header' = [header EXCEPT ![c] = [sent[c][k] EXCEPT !.len = 256 * @]]
  /\ buf' = [buf EXCEPT ![c] = SubSeq(@, HeaderSize + 1, Len(@))]
  /\ headerRcved' = [headerRcved EXCEPT ![c] = TRUE]
  /\ UNCHANGED <<sent, wire, handled, torn, rude, binding, servers,
                 session, running, answers, exits>>

RecvHeader(c) ==
  /\ AtHeader(c)
  /\ \E k \in 1..Len(sent[c]) :
       IsHeaderOf(k, HeaderParts(c)) /\ header' = [header EXCEPT ![c] = sent[c][k]]
  /\ buf' = [buf EXCEPT ![c] = SubSeq(@, HeaderSize + 1, Len(@))]
  /\ headerRcved' = [headerRcved EXCEPT ![c] = TRUE]
  /\ UNCHANGED <<sent, wire, handled, torn, rude, binding, servers,
                 session, running, answers, exits>>

\* Parts of anything else but one header give a header of any content.
RecvTornHeader(c) ==
  /\ AtHeader(c)
  /\ \A k \in 1..Len(sent[c]) : ~IsHeaderOf(k, HeaderParts(c))
  /\ Tear(c)
  /\ UNCHANGED <<binding, servers, session, answers, exits>>

\* The commands of the packet that onRecv may take out of the stream now.
PacketIn(c) ==
  IF session[c] # "connected" THEN {}
  ELSE IF torn[c] THEN IF running = NULL /\ Len(handled[c]) < MaxPackets[c] THEN Cmds ELSE {}
  ELSE IF running = c /\ headerRcved[c] /\ header[c].len <= Len(buf[c]) THEN {header[c].cmd}
  ELSE {}

\* Mutant: headerRcved_ is not reset.
NextPacket_keepsHeader(c) ==
  /\ buf' = [buf EXCEPT ![c] = SubSeq(@, header[c].len + 1, Len(@))]
  /\ handled' = [handled EXCEPT ![c] =
       Append(@, [cmd |-> header[c].cmd, body |-> SubSeq(buf[c], 1, header[c].len)])]
  /\ UNCHANGED <<sent, wire, header, headerRcved, torn, rude, session, running, answers, exits>>

\* onProcessPacket_ gave true: the loop of onRecv goes on behind the body.
NextPacket(c) ==
  /\ headerRcved' = [headerRcved EXCEPT ![c] = FALSE]
  /\ buf' = [buf EXCEPT ![c] = SubSeq(@, header[c].len + 1, Len(@))]
  /\ handled' = [handled EXCEPT ![c] =
       Append(@, [cmd |-> header[c].cmd, body |-> SubSeq(buf[c], 1, header[c].len)])]
  /\ UNCHANGED <<sent, wire, header, torn, rude, session, running, answers, exits>>

\* Hello, Ping, Heartbeat and the like, and commands above CMD_MAX, which are ignored.
RecvCommon(c) ==
  /\ "common" \in PacketIn(c)
  /\ NextPacket(c)
  /\ UNCHANGED <<binding, servers>>

BoundTo(c, type) == backend[c] # NULL /\ Kind[backend[c]] = type

\* An unknown command, or a packet that does not parse: onProcessPacket_ gives false and
\* onRecv closes the session.  Of the packets for servers connector parses one only, a
\* Halls_Login that is to bind the session.
RecvBad(c) ==
  /\ PacketIn(c) \cap {"common", "forward"} # {} \/ ("bad" \in PacketIn(c) /\ ~BoundTo(c, "halls"))
  /\ Close(c)

\* onSessionBindBackendSession: a halls server the client names, if it is one,
\* else the server of the type with the smallest number.
Choices(type) == {b \in Backends : up[b] /\ Kind[b] = type}
Best(type) == {b \in Choices(type) : \A d \in Choices(type) : nums[b] <= nums[d]}

\* When no server is found the session stays bound as it was.
Bind(c, found) ==
  \/ /\ found # NULL
     /\ backend' = [backend EXCEPT ![c] = found]
     /\ nums' = [nums EXCEPT ![found] = @ + 1]
     /\ left' = [left EXCEPT ![c] = (@ \cup {backend[c]}) \ {found, NULL}]
  \/ found = NULL /\ UNCHANGED binding

\* Who Bind may find: the server a Halls_Login names, or the best one.
Found(cmd, type) ==
  (IF cmd = "halls" THEN Choices("halls") \cup {NULL} ELSE {})
    \cup (IF Choices(type) = {} THEN {NULL} ELSE Best(type))

\* The first Login or Halls packet, or one of the other type, binds the session;
\* then the packet goes to the backend, if there is one and it is connected.
RecvForServer(c) ==
  \E cmd \in PacketIn(c) : \E type \in Ranges(cmd) :
    /\ IF BoundTo(c, type) THEN UNCHANGED binding
       ELSE \E found \in Found(cmd, type) : Bind(c, found)
    /\ backend'[c] # NULL
    /\ IF up[backend'[c]] THEN Forward(backend'[c], c, cmd) ELSE UNCHANGED servers
    /\ NextPacket(c)

\* The client half of onForwardPacket: what a client wrote goes to its backend as it is.
\* It names any requestor and any command: the backend hears of a client, is told that
\* one is gone, does not know the packet, or finds nothing in it that concerns a client.
RecvForward(c) ==
  /\ "forward" \in PacketIn(c) /\ backend[c] # NULL
  /\ LET b == backend[c] IN
       \/ Misses(b) /\ UNCHANGED misled
       \/ ~deaf[b] /\ Deafens(b) /\ UNCHANGED misled
       \/ \E d \in Clients :
            /\ ~deaf[b] /\ told' = [told EXCEPT ![b] = @ \cup {d}]
            /\ UNCHANGED <<known, deaf, misled>>
       \/ \E d \in Clients :
            /\ ~deaf[b] /\ Hears(b, d)
            /\ misled' = [misled EXCEPT ![b] = IF backend[d] = b THEN @ ELSE @ \cup {d}]
  /\ NextPacket(c)
  /\ UNCHANGED <<binding, up, strayed>>

\* Nobody to bind to, or nobody bound to forward to: the session is closed.
RecvUnserved(c) ==
  /\ \E cmd \in PacketIn(c) :
       cmd = "forward" \/ \E type \in Ranges(cmd) : NULL \in Found(cmd, type)
  /\ backend[c] = NULL
  /\ Close(c)
-------------------------------------------------------------------------------
(* Backends and connector *)

\* A server connects and says Hello.
onServerJoined(b) ==
  /\ running = NULL /\ ~up[b]
  /\ up' = [up EXCEPT ![b] = TRUE] /\ deaf' = [deaf EXCEPT ![b] = FALSE]
  /\ misled' = [misled EXCEPT ![b] = {}]
  /\ UNCHANGED <<stream, binding, known, told, strayed, session, running, answers, exits>>

\* Mutant: the sessions of clients are not looked at.
onServerExit_internalOnly(b) ==
  /\ running = NULL /\ up[b] /\ exits < MaxExits
  /\ up' = [up EXCEPT ![b] = FALSE] /\ exits' = exits + 1
  /\ UNCHANGED <<stream, binding, session, deaf, known, told, strayed, misled, running, answers>>

\* Its connection is lost: every session bound to it is unbound and destroyed.
\* The server, too, takes the clients of a connector that is lost for lost: halls lets
\* go of their players, login keeps nothing of a client.
onServerExit(b) ==
  /\ running = NULL /\ up[b] /\ exits < MaxExits
  /\ up' = [up EXCEPT ![b] = FALSE]
  /\ backend' = [c \in Clients |-> IF backend[c] = b THEN NULL ELSE backend[c]]
  /\ session' = [c \in Clients |-> IF backend[c] = b THEN "destroying" ELSE session[c]]
  /\ told' = [told EXCEPT ![b] = @ \cup known[b]]
  /\ exits' = exits + 1
  /\ UNCHANGED <<stream, nums, left, deaf, known, strayed, misled, running, answers>>

\* The server half: a backend sends a client a packet, an answer or on its own.  Its
\* command and length are written into the header the client's session receives with:
\* that is harmless unless the session waits for the body of a packet.
onForwardPacket(b, c) ==
  /\ running = NULL /\ up[b] /\ c \in known[b] /\ answers < MaxAnswers
  /\ answers' = answers + 1
  /\ IF headerRcved[c] THEN Tear(c) ELSE UNCHANGED <<stream, running>>
  /\ UNCHANGED <<binding, servers, session, exits>>
-------------------------------------------------------------------------------
onRecv(c) == RecvDestroyed(c) \/ RecvWaits(c) \/ RecvHeader(c) \/ RecvTornHeader(c)
               \/ RecvCommon(c) \/ RecvBad(c) \/ RecvForServer(c) \/ RecvForward(c)
               \/ RecvUnserved(c)
Next ==
  \/ \E c \in Clients : Send(c) \/ Arrive(c) \/ onDisconnected(c)
                         \/ checkSessions(c) \/ onRecv(c)
  \/ \E b \in Backends : onServerJoined(b) \/ onServerExit(b)
  \/ \E b \in Backends, c \in Clients : onForwardPacket(b, c)

Spec == Init /\ [][Next]_vars
-------------------------------------------------------------------------------
(* Properties *)

\* What onRecv hands on is what the client sent, packet by packet and in order,
\* however the stream is cut, as long as the session is not torn.
PacketsWhole ==
  \A c \in Clients : ~torn[c] =>
    \A j \in DOMAIN handled[c] :
      j <= Len(sent[c]) /\ handled[c][j] = [cmd |-> sent[c][j].cmd, body |-> Body(j, sent[c][j].len)]

\* A session is never bound to a connection that is gone: pBackendSession_ would
\* dangle, and the next packet or the end of the client would use it.
NoDanglingBackend ==
  \A c \in Clients : backend[c] # NULL => up[backend[c]] /\ session[c] # "gone"

\* A server that was sent packets of a client learns that the client is gone, unless
\* the client went on to another server, the server met a packet it does not know, or
\* it heard of the client from one that wrote in its name.
DisconnectIsTold ==
  \A c \in Clients, b \in Backends :
    session[c] = "gone" /\ c \in known[b] =>
      c \in told[b] \/ b \in left[c] \/ deaf[b] \/ c \in misled[b]

\* While clients send whole packets that the servers of their type know, a server goes
\* deaf only when a packet of the other type was forwarded to it.
DeafHasCause ==
  \A b \in Backends : deaf[b] => b \in strayed \/ \E c \in Clients : torn[c] \/ c \in rude
===============================================================================
