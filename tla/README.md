# XPlatformServer in TLA+

XPlatformServer is a set of single-threaded servers (C++, libevent, protobuf)
that log players in, match them into rooms and have a game server started for
each full room.  This directory holds TLA+ modules translated from its source,
TLC configurations that check them on small instances, and proofs that TLAPS
checks.  Paths below are relative to the repository (`src/src/...`).

## 1. The system

```
 client --- connector --- login ------ dbmgr
                |           \________ hallsmgr
                |                        |
                +------------------- halls (game lobby: players, rooms)
                                         |
                                      roommgr --- machine --- game server
                                                  (one process per room)
 directory: tells connectors and connector finders who is there
```

Every server is `XServerBase` (`libs/server`) over an `EventDispatcher`
(`libs/event`): one thread runs callbacks of sockets and timers to completion,
one after the other.  Concurrency therefore is between *processes* (messages in
flight, connections that break, servers that restart), between *timers and
messages* of one process, and, in machine only, with the threads of a pool
(`libs/common/threadpool.h`).

| Component | State it keeps | Operations | Hard behaviour | What makes it correct |
|---|---|---|---|---|
| halls: matchmaking (`servers/halls`) | `objects_` (XPlayer), `rooms_`, the vectors of `rooms_ggpr_`, `pendingMatchs_` | login, start match, answer of roommgr, disconnect, destroy timer, room tick | one request touches several rooms; a room may be destroyed inside the call that fills it; stale answers; pending players | a player is in one room at most; exactly playerMax players start; nobody is forgotten; games end |
| roommgr (`servers/roommgr`) | known servers and their `load` | pick a machine, forward answers and GameOver reports | halls or machine gone when the answer comes; counts that drift | a request reaches one machine; load covers the servers that run |
| machine (`servers/machine`) | `createRoomContexts_` with a future each | take a request, start a process in a thread, take reports, time out, kill | thread result, report, timeout and GameOver in any order; roommgr away | one answer per room and a true one; processes are stopped, but not during the game |
| login (`servers/login`) | `pendingAccounts_` | sign up, sign in, forward to hallsmgr, time out | answers after a timeout, or for a later request of the same account | an answer reaches the client that asked |
| hallsmgr (`servers/hallsmgr`) | known halls and their load | pick a halls, forward | counts that only grow | the least loaded halls is chosen |
| dbmgr (`servers/dbmgr`) | tables over MongoDB, read and written synchronously by its one thread | query and write accounts, onlines, game data | an access that fails | answers tell what the tables hold |
| connector (`servers/connector`) | client sessions and the backend each is bound to | bind, forward both ways | backend or client goes while packets are in flight | packets go to the bound peer; counts come down |
| directory (`servers/directory`) | server infos with a time stamp | update, query, expire | | expired servers are not given out |
| robot (`servers/robot`) | state of a simulated client | tick, answers | lost answers | it goes on |
| server registry (`libs/server/ServerMgr.cpp`) | `srv_infos_`, types and ids wanted | connect, hello, lose, tick | placeholder with id 0; half-open connections | a wanted server that is there is found |
| connector finder (`libs/server/ConnectorFinder.cpp`) | state, answers of directory | tick, answers | answers that change while it looks | it ends with a connector that is there |
| session layer (`libs/event/Session.cpp`) | read buffer, header flag | receive, send, close | packets in pieces, close during a handler | packets come out whole and in order |
| event loop and timers (`libs/event`) | timers | add, delete, fire | thin over libevent | |
| thread pool (`libs/common/threadpool.h`) | queue, workers, stop flag | enqueue, run, destruct | lost wakeups | each task runs once; threads join |
| resources, log, formatting, messages | | | pure input or output, vendored or generated | |

Not part of the system: `src/src/deps` holds vendored code (libevent, protobuf,
mongo-c-driver, log4cxx, apr, openssl, gflags, iniparser, redis), most of the
repository's files.

The hazards this gives are listed with their lines in `PROJECT.json`.

## 2. Modules

| Module | What it is |
|---|---|
| `HallsMatch` | matchmaking of a halls server |
| `Lobby` | what matchmaking promises, without rooms that fill, vectors or messages |
| `HallsLobby` | the mapping under which `HallsMatch` implements `Lobby` |
| `HallsMatchProofs` | theorems about `HallsMatch` |
| `HallsLobbyProofs` | the theorem that `HallsMatch` implements `Lobby` |
| `RoomServers` | the create-room protocol: room of halls, roommgr, machines, pool threads, game servers, and the sessions between them |
| `RoomGrant` | what the protocol promises a room, without roommgr, machines, processes or messages |
| `RoomServersGrant` | the mapping under which `RoomServers` implements `RoomGrant` |
| `RoomServersProofs` | theorems about `RoomServers` |
| `LoginFlow` | sign-up, sign-in and entering halls: login, dbmgr, hallsmgr and halls |
| `LoginFlowProofs` | theorems about `LoginFlow` |
| `Gateway` | the framing of `Session::onRecv` and the forwarding of connector |
| `GatewayProofs`, `FramingProofs` | theorems about the bindings and about the streams of `Gateway` |
| `ServerRegistry` | how a server finds, identifies and loses other servers |
| `ServerRegistryProofs` | theorems about `ServerRegistry` |
| `ConnectorFinder` | how halls and login choose a connector |
| `ThreadPool` | workers, queue, condition variable and destructor |
| `TaskService` | what a pool promises, without threads, locks or wakeups |
| `ThreadPoolService` | the mapping under which `ThreadPool` implements `TaskService` |
| `ThreadPoolProofs` | theorems about `ThreadPool` |
| `MC...` | instances for TLC |

`HallsMatch` and `RoomServers` meet in the create-room request.  `HallsMatch`
sees roommgr as a set `reqs` of requests that are answered, OK or not, at any
time, or never (`LoseRequest`); `RoomServers` opens that box and sees of a
room only its state and its age.  What `RoomServers` shows of the answers
(`RequestedOnce`, `NoAnswerWhilePlaying`) is what `HallsMatch` assumes of them:
one request of a room has at most one answer that matters.

### 2.1 HallsMatch

One game with its modes.  State: `objects`, `conn`, `pstate`, `proom` are
`objects_` and the `pSession_`, `state_`, `roomID_` of an `XPlayer`;
`rooms` is `rooms_`; `pool[m]` the vector `findRooms(game, m, 0)`; `pending`
is `pendingMatchs_`.

| Action | Code |
|---|---|
| `onSessionQueryAccountCB(p)` | the answer of dbmgr makes a player (`XServerApp.cpp`) |
| `onClientDisconnected(S)`, `onDestroyTimer(p)` | `pSession_` of the players of one client or one connector goes; 300 s later the object leaves room, list and server |
| `onSessionStartMatch(p, mode)` | `XPlayer::startMatch` and the head of `XServerApp::startMatch` |
| `startMatch_(m)` | one turn of the loop over the modes: the front room, a new room, or for any mode a room filled from the pending players; `Room::enter`, `startGame` and `createRoomServer` included |
| `addPendingMatch` | the tail of `startMatch` |
| `onSessionRequestCreateRoomCB(r, ok)` | `Room::onCreateRoomServerCB` |
| `onTick(r)` | `Room::onTick`: game time is over |
| `LoseRequest(r)`, `RoommgrChange` | a request that is never answered; `findRoommgr()` comes and goes |

`startMatch` is a loop, and each turn is a step; `call` is its frame and no
other handler runs while it is there, as in the code.  The rooms of the vectors
are sorted by `std::sort`, which is not stable: `Sorts` gives every order that
`sortFunc` allows, so no property rests on one.

In a mode for *one* player (`playerMax` 1) the pending players alone may fill the
room that an any-mode request opens, before it is registered: its game starts
inside `Room::enter` of a room nobody can find, and the assert of `startGame` fails
(`XServerApp.cpp:701-713`).  The branch `early` of `OpenUnregisteredRoom` keeps
this; the runs are about modes for two and more, and the theorems of
`HallsLobbyProofs` name it as a hypothesis.

`strays` is a history variable.  When roommgr is missing, `createRoomServer`
destroys the room inside `Room::enter`; `endGame` sets the caller back to
`WaitStart`, and an any-mode loop goes on with it and may put it into a room, or
into `pendingMatchs_`, in that state.  Such a player breaks every agreement
between player and room.  `strays` notes exactly these players, and the
invariants speak of all others: they say that the damage stays with the player
whose own call met the outage.

### 2.2 RoomServers

State: `hallRoom` and `hallAge` the `Room` in halls; `known` and `load` in
roommgr; `contexts` in each machine (`createRoomContexts_`); `task` the job in
the pool; `proc` the game server; `link`, `toMgr`, `fromMgr`, `deaf` the
sessions.

| Action | Code |
|---|---|
| `connectServer(p)`, `SendHello(p)`, `onSessionHello(p)` | `ServerMgr::onTick`, `onSessionHello`; a peer may send before its Hello is handled |
| `ConnectionBreaks(p)`, `MachineCrashes(m)`, `RoommgrCrashes` | `ServerMgr::onSessionDisconnected` on both sides, loss of what a process kept |
| `createRoomServer(r)`, `onCreateRoomServerCB`, `RoomTick(r)` | the `Room` in halls |
| `onSessionRequestCreateRoom`, `onSessionRequestCreateRoomCB(m)`, `onSessionRoomSrvGameOverReport(m)` | roommgr |
| `onSessionPacket(m)` | `addPendingCreateRoom`; a packet the machine does not know leaves the session's header flag set |
| `onTick(m)` | `XServerApp::onTick` over *all* contexts of the machine, the answers, erasures and kills included |
| `StartProcess(r)` | `startWindowsProcess` in a pool thread |
| `onSessionRoomSrvReportAddr(m, r)`, `ReportGameOver(m, r)` | reports of a game server; the first calls `onTick` |
| `GameServerExits(r)`, `Advance` | environment: a process ends; time |

`Tick` reads all contexts before it changes any, as no context depends on
another; answers of one tick go out in any order, which is the order of the ids
in a `std::map`.  On Linux `startLinuxProcess` is a stub (`execv` is commented
out, the child exits at once and no pid is kept): it is the case of a process
that starts and exits before it reports.

Facts of the code that the model keeps and a reader may not expect:

- `createResultFuture.get()` overwrites a port that was reported before
  (`machine/XServerApp.cpp:538`): such a room is answered with a timeout,
  although its server listens.
- A failure is answered twice, from `Creating` and again from `Finished`.
- A context that times out in `WaitReport` is erased without a kill (`:554`).
- An answer whose halls is not connected goes back to the machine as a packet
  only halls knows (`roommgr/XServerApp.cpp:117`); the machine then reads every
  later packet of that session with the wrong header (`Session.cpp:260`):
  `deaf`.
- `load` goes down with a GameOver report only: rooms that fail stay counted.
- A GameOver report that comes before the Hello of its machine uses the NULL
  `findServer` returns (`roommgr/XServerApp.cpp:139`): roommgr crashes.

### 2.3 LoginFlow

Four servers and the queues between them.  login and halls keep a request that
waits under its *account name* (`pending`, `waiting`), and every message between
the servers carries that name only.  The model gives each request a number,
which travels with its messages as history, so that the properties can say
whose answer was given to whom.

| Action | Code |
|---|---|
| `Request` | `onSessionSignup`, `onSessionSignin` with `sendFailed` |
| `onSessionSignupCB`, `onSessionSigninCB`, `onSessionRequestAllocClientCB`, `LoginTimeout` | login's answers and its 15 s |
| `writeAccount`, `queryAccount`, `queryAccountForHalls` | `Table_Accounts` |
| `allocClient`, `allocClientCB` | hallsmgr |
| `onSessionRequestAllocClient`, `onSessionLogin`, `onSessionLoginAgain`, `onSessionQueryAccountCB`, `HallsTimeout`, `onClientDisconnected`, `onDestroyTimer` | halls |
| `Crash` | `onSessionQueryAccountCB` where its session is not there |
| `ConnectorRestart`, `DbmgrExit`, `HallsmgrExit`, `HallsJoins`, `onServerJoined` | loss and return of servers |

Facts of the code that the model keeps:

- `sendFailed` deletes the entry of the name, also when it refuses a *second*
  request for it (`login/XServerApp.cpp:175`).  The first request is forgotten;
  its answer finds no entry, or that of a third request, and is given to that
  one.  `OwnAnswers` says that this is the only way, beside a timeout, in which a
  request gets an answer that is not its own.
- hallsmgr missing when dbmgr answered: nobody is told (`:302`).
- An error from hallsmgr: the entry is freed and the answer is then built from
  it (`:397-403`); the model lets the answer go to its requestor or be lost.
- halls takes the session of the waiting entry for granted when dbmgr answers
  (`halls/XServerApp.cpp:471-481`).  If the entry was made anew since, or the
  connector is gone, the session is not there: `Crash`.
- A player that logs in again keeps the destroy timer of its old connection.
- `load` of a halls server is counted up only.
- login always asks for a fresh halls server: `Table_Onlines` yields a server
  only where there is no player object.  The line that would send the
  `res_packet` (`login/XServerApp.cpp:314`) names a variable that is not declared.

### 2.4 Gateway

A stream of parts is cut anywhere into reads.  `header`, `headerRcved`, `buf` are
`header_`, `headerRcved_` and the buffer of a client's session; `backend` is
`pBackendSession_`; `nums` counts the clients bound to a backend; `running` is the
session whose `onRecv` loop has the thread.

| Action | Code |
|---|---|
| `Arrive`, `RecvHeader`, `RecvTornHeader`, `RecvWaits`, `RecvCommon`, `RecvBad`, `RecvDestroyed` | `Session::onRecv`, one turn of the loop each |
| `RecvForServer`, `RecvUnserved` with `Bind` | `XSession::onProcessPacket` of connector, `onSessionBindBackendSession` |
| `Forward` with `Knows`, `Hears`, `Deafens` | `XSession::onForwardPacket`, `onProcessPacket` of login and halls: what the backend makes of the packet |
| `RecvForward` | the client half of `XSession::onForwardPacket` of connector, and what the backend makes of it |
| `Close`, `onDisconnected`, `checkSessions` | `Session::close`, `handleEvent`, `NetworkInterface::checkSessions` |
| `onServerJoined`, `onServerExit` | loss and return of backends |
| `onForwardPacket` | the server half of it: an answer or a push of a backend |

What the bodies of packets say is not followed.  `Cmds` tells apart only what
changes the control: a Login or a Halls packet the servers of the type know, one
of those ranges they do not know (`bad`), a `ForwardPacket`, and the rest.  The
length check of `Session.cpp:229` cannot fail, `msglen` is a `uint16`; it has no
action.

A session becomes *torn* when its header is not what the client sent; from then
on any packet may come out of it.  There are two ways:

- `onRecv` waits until the buffer holds `sizeof(headerRcved_)` bytes, that is one,
  where a header has four (`Session.cpp:222`): a header that arrives in two reads
  is taken from the first read alone.
- `onForwardPacket` writes command and length of a backend's answer into the
  `header_` the session *receives* with (`connector/XSession.cpp:155-157`): if the
  session waits for the body of a packet, it goes on with the wrong length.

A server becomes *deaf* to connector when it gets a packet it does not know:
`onRecv` closes only sessions of clients and returns with `headerRcved_` set
(`Session.cpp:260`), so the bytes that follow are never cut right again.  It stays
so until the connection is made anew.  connector looks into no packet it forwards,
except a `Halls_Login` that is to bind the session, so clients can bring this
about:

- *bad*: a command of the range that the switch of the server has no case for,
  `Halls_CancelMatch` (505) among them, or a body that does not parse;
- *forward*: a `ForwardPacket` that the client wrote itself, which
  `connector/XSession.cpp:126-138` passes on as it is;
- *stray*: a good packet of the other type.  A client bound to login sends a Halls
  packet while no halls server is connected: `onSessionBindBackendSession` leaves
  the session bound to login and the packet goes to login, although the comment at
  `connector/XSession.cpp:71` has packets of another type go to a server of that
  type;
- anything out of a torn session.

`DeafHasCause` says that the list is complete: a server that is deaf got a stray
packet, or some session was torn, or some client was *rude*, that is, sent a packet
of the first two kinds.  Well-behaved clients with untorn sessions deafen a server
by the stray packet only.

A `ForwardPacket` of a client names any requestor.  A server may so hear of a client
that is not bound to it (`misled`), and nobody tells it when that client goes; or it
is told that a client is gone that is not.  `DisconnectIsTold` says when a server
that got packets of a client learns that the client is gone, and names the three
cases in which it need not: the client went on to another server (`left`), the
server is deaf, or the server was misled about the client.  `told` is what connector,
a loss of the connection or the `ForwardPacket` of a client tells, until the server
hears of the client again; login does nothing with it
(`onSessionRemoteDisconnected` is empty there), halls lets go of the player.

### 2.5 ServerRegistry

One server looks for others, type by type, in the order of
`interestedServerTypes_`.  `infos` is `srv_infos_`, with id 0 for a server that is
not identified.  Both ends of a session are kept: `mine` and `theirs` end
independently, so one side may believe in a connection that the other has lost.

| Action | Code |
|---|---|
| `onTickConnect(s)`, `onTickHello` | the two branches of `ServerMgr::onTick` |
| `onSessionHelloCB(s)`, `onSessionHello(s)` | the handshake, at both ends |
| `Close(s)`, `onTheirDisconnect(s)`, `onConnected(s)` | events of a session |
| `Start`, `Exit`, `Break` | environment |

Two facts a reader may not expect.  *Stuck:* when an identified server of an
early type is lost while the placeholder of a later type has not sent its Hello,
`onTick` keeps connecting to the early type, `addServer` refuses its placeholder
because id 0 is taken, and the tick returns before it gets to the Hello of the
later type (`ServerMgr.cpp:241,264`).  Heartbeats keep the placeholder's session
alive, so this lasts for ever.  `FoundUnlessStuck` says that nothing else keeps
servers from being found.  *Refused:* a Hello that comes before the loss of the
old session is noticed is refused, and when the old session goes, the target
forgets a server that is connected (`ServerMgr.cpp:370`).  `SessionsAgree` bounds
the damage to that case (`refused`).

### 2.6 ConnectorFinder

`phase` is the tick the timer calls; `listed` is `connectorInfos_`, which points
into `srv_infos_` (`infos`).  Facts the model keeps:

- The group of near connectors is built and not read: see section 5.
- A session that is not connected yet does not hold the choice up
  (`ConnectorFinder.cpp:136-156`), its rtt of -1 is the smallest: an unreachable
  connector can be chosen, against the comment at `:158` ("if not all pings are
  there, wait for the next test").
- A connector that is lost during the test leaves a dangling pointer in
  `connectorInfos_` (`ReadErased`: nothing is said of what follows).
- `onCheckingTick` looks for *any* connector: as long as another tested one is
  connected, the loss of the chosen one goes unnoticed and `found_` dangles.

### 2.7 ThreadPool

What a thread does while it holds `queue_mutex` is one step; notifying, and every
return from a wait, is one of its own.  `WakeSpuriously` is the wakeup that the
standard allows.  The owner is the thread of the event loop, the only caller of
`enqueue` and of the destructor (`XServerBase.cpp:220,269`).

## 3. Runs

| Run | Question | Instance |
|---|---|---|
| `halls_steady` | safety of matchmaking and `ImplementsLobby`, roommgr always there | 3 players, a mode for two and one for three, 3 rooms |
| `halls_outage` | the same objects with roommgr coming and going | 3 players, two modes for two, 2 rooms |
| `halls_live` | liveness, `ImplementsFairLobby` | 2 players, 1 mode, a client may ask for an unknown mode |
| `halls_assert` | finding: the assert of `saveGameData` | 2 players, 1 mode; a violation is expected |
| `rooms_broken` | answers are true, one per room, through breaks and a crash; `ImplementsRoomGrant` | 1 room, 1 machine, 2 breaks, 1 crash |
| `rooms_timed` | a game has its time; load covers the servers there | 2 rooms, 2 machines, prompt messages, times 3 and 2 |
| `rooms_live` | contexts, processes and rooms end; requests are answered | 1 room, 1 machine, 1 break |
| `login_flow` | who is answered with what, who plays which player | 2 users, 1 name, 2 halls servers, 3 requests, 2 logins, 1 restart |
| `gateway` | framing, binding, what servers learn of clients | 2 clients with 2 and 1 packets, the first sends any kind, the second Login and Halls packets; a login and a halls server |
| `registry` | infos and sessions at both ends; servers are found | 2 types, 3 sessions, 2 breaks or exits |
| `finder_choice` | finding: the group of near connectors is not used | 2 connectors; a violation is expected |
| `thread_pool` | wakeups, tasks, `ImplementsFairService` | 3 workers, 4 tasks |

What they show, beyond types:

- *Structure.*  `PoolMatchesRooms`, `Membership`, `PendingIsUnplaced`,
  `PlayerFollowsRoom`: the redundant maps, vectors and back references of halls
  agree after every handler.
- *Matchmaking.*  `Capacity`, `NobodyForgotten`, `NoStrandedPending`: rooms fill
  to playerMax and looking at `rooms[0]` only loses nobody.
- *Refinement.*  `ImplementsLobby`: forming a game is atomic for players, who
  are in one game at most; `ImplementsFairLobby`: games end.
  `ImplementsRoomGrant`: a room asks once, gets one verdict, plays only on an OK,
  and stays closed once it is closed.  `ImplementsFairService`: tasks begin once,
  in order; all of them end, and only then does the destructor return.
- *Answers.*  `PlaysOnlyWhenAnswered`, `NoAnswerWhilePlaying`, `OkMeansListening`:
  players are sent to a game server only on a true OK of the room's own request,
  once.
- *Machines.*  `RequestedOnce` (the `assert(false)` of `addPendingCreateRoom`
  holds), `LoadCoversServers`, `GameHasItsTime`.
- *Logins.*  `AtMostOneAnswer`; `OwnAnswers`; `PlayersHadToken`: whatever timers,
  retries and restarts mix up, a session plays a player only if its user was
  given the token of that player's account.
- *Connector.*  `PacketsWhole`, `NoDanglingBackend`, `DisconnectIsTold`,
  `DeafHasCause`.
- *Registry.*  `SessionsAgree`, `FoundUnlessStuck`.
- *Pool.*  `NoLostWakeup`, `EachTaskOnce`.
- *Progress.*  `MatchedPlayerGoesOn`, `DisconnectedPlayerLeaves`, `ContextsGo`,
  `GameServersStop`, `RequestsAreAnswered`, `RoomsClose`.

**Bounds.**  Players and rooms: three players are the fewest with a room for
two, a third player beside it, and a room for three filled by a caller and two
pending; a third room id lets an unregistered room meet two others.  Room ids
are re-used in `HallsMatch`, which is harder than the uuids of the code.
`NoStrandedPending` says itself that it is about modes of up to three players.
In `RoomServers` a room asks once (uuids); two breaks and a crash let a message
be lost on either link and a later session meet what an earlier one left.
`MaxAge` stops a clock when nothing compares it any more.  `LoginFlow`: names do
not interact, so one is enough; three requests are the fewest for an answer that
meets the entry of a third one; two halls servers let hallsmgr choose and a token
be tried at the wrong one.  `Gateway`: two packets let a header be cut while a
body is behind it; `HeaderSize` 2 stands for 4, with one cut inside.  One client that
sends anything and one that sends only good packets (`Sends`) let one write in the
name of the other and one deafen the server of the other; that both are rude adds
only states (the run with `Cmds` for both passes too and takes more than twice the time).
`ServerRegistry`: a session at each type and one that the other end still has.
`ThreadPool`: three workers are the fewest where one runs, one waits and one is
on its way.

**Fairness.**  `HallsMatch`: a running `startMatch` loop goes on (weak
fairness), and the destroy timer of a player and `onTick` of a room are strongly
fair: a due timer is disabled while a `startMatch` frame is on the stack, but the
event loop looks for expired timers in every iteration, however many requests
keep coming.  Nothing is assumed of clients or of answers.  `RoomServers`: weak
fairness of ticks, of delivery on a session that holds, of pool threads, of
reconnecting and of time.  Nothing is assumed of a game server: it may never
report and never end.  `ServerRegistry`: weak fairness of ticks, of delivery and
of noticing a loss (the sessions time out), and a server that is down is started
again.  `ThreadPool`: a thread that can run does, and tasks return; nothing makes
the owner enqueue or destruct, and no spurious wakeup is promised.

**Deadlock** is checked in `halls_steady` and `halls_live`.  In `halls_outage` the
process may have aborted (`crashed`), and in `RoomServers` every room is gone in
the end: there is nothing left to do.  `login_flow`, `gateway` and `registry` end
when their bounds are used up, `thread_pool` when the pool is destroyed.

## 4. Proofs

`HallsMatchProofs` proves, for any players, modes, rooms and any `PlayerMax`,
with roommgr reliable or not:

- `TypeCorrect` (`TypeOK`) and `PoolsAgree` (`PoolMatchesRooms`);
- `MembershipHolds`, `PendingHolds`, `RoomsAndPlayersAgree`;
- `RoomsKeepCapacity` (`Capacity`), `NobodyIsForgotten` (`NobodyForgotten`),
  `OnlyAnsweredRoomsPlay` (`PlaysOnlyWhenAnswered`);

and, with a roommgr that stays, `NobodyIsStranded` (`NoStrandedPending`).

Four inductive invariants carry them.  `Typed` adds to `TypeOK` that the
vectors and `rooms` hold the same rooms, each once: without it `rooms[pool[m][1]]`
need not be defined, and no later argument about the front room starts.  Lemmas
on `Erase`, `Append` and `Sorts` say what the vector operations keep.
`Records` joins `Membership`, `PendingIsUnplaced`, `CallerIsUnplaced`,
`PlayerFollowsRoom` and `NoGhostPlayers`: none is inductive alone.  That a
player enters no second room needs `PendingIsUnplaced` (for the players moved
in) and `CallerIsUnplaced` (for the caller); those need `Membership` and
`PlayerFollowsRoom` when a room is destroyed under a call.  `SeatedKeepsRecords`
and `SentBackKeepsRecords` state the two ways in which rooms and players change
together, taking a seat and being sent back, and every action is one of them.
`Filled` is `Capacity`, `NobodyForgotten` and `Asked`: a room whose request is not
answered yet, if it is still there, is in `CreatingRoomServer`.  `MovedFit` is the
arithmetic of `movePendingMatchObjectsToRoom`: the players moved in never exceed
the places left.

`Queues` is the fourth, for modes of up to three players and no loss of roommgr.
`InFront`: a waiting room is the first of its vector, so a mode has one at most and
a search that finds none at the front has found that there is none; `std::sort`
keeps it (`SortedInFront`), since every other room sorts behind a waiting one.
`Searched`: a running any-mode request has left no waiting room in the modes it
has been through, so the player that `addPendingMatch` adds has none to wait
beside.  `NoneWaits` is the property; a room opened while somebody is pending
takes all of them or fills up (`OpenedTakesAll`, `UnregisteredFills`), because it
lacks two players at most besides its first.  The hypothesis on roommgr is needed:
a stray player (section 2.1) can be pending while its own request runs, the
room it opens then counts it twice, is not full, and waits at the end of a vector
whose first room does not.  TLC finds a player pending beside that room, with a mode
for three, in 24 states.

`HallsLobbyProofs` proves `LobbyIsImplemented`: `HallsMatch` implements `Lobby`, and
`AssertNeverFails`: the assert that `halls_assert` violates holds, both for any
number of players, rooms and modes, under the hypothesis `Usual`: roommgr does not
go away (the finding needs that it does) and no mode is for one player (section
2.1).  The new part of the invariant is `Few`: pending players alone never fill a
room of any mode, and while an any-mode request runs, they would not even with its
player in those modes that the loop has been through.  So a room that is not
registered yet never starts before its caller is in it, and every step that fills
a room is one `Form` of the lobby.  Each other handler has a lemma that names its
step of the lobby (`DestroyIsEnd`, `StartGameIsBegin`, `DestroyTimerIsDepart`,
`ArrivesInLobby`, `AsksInLobby`) or shows that players see nothing.

`RoomServersProofs` proves, for any rooms, machines and times and however many
connections break and servers crash, `RoomServersTypeCorrect`,
`RequestsAreTokens` (`RequestedOnce`), `OneVerdict` (`AnswersAgree`), `AnOkIsTrue`
(`OkMeansListening`), `PlayersWereAdmitted` (`PlayingWasGranted`),
`NoSecondAnswer` (`NoAnswerWhilePlaying`) and `RoomsAreGranted`
(`ImplementsRoomGrant`).  One inductive invariant `Inv` carries them, with three
parts for each room.  `Asked`: its request is a token, which is in one place of
one queue or was turned into one context, and until then no machine knows of the
room; asking takes the room out of the only state it asks in.  `Started`: a
context says no more than is true (`Agrees`): a port only after a report, a pid
before it waits for one, an answer only in a state that gives no other.
`Answered`: an OK is a token too, sent once, and halls uses it up when the room
begins to play.  `Once` states tokens without counting: any two places of the
packet are the same place.  The transit lemmas say what sending, forwarding,
receiving and losing do to one packet (a tick sends a whole sequence of
answers), so that each step only has to say which packets it touches.
`TickedContext` is the heart of it: one context under `onTick`, by its state.
That the steps of `RoomServers` are steps of `RoomGrant` then follows from `Inv`
before and after the step, and from answers that are only ever added.

`GamesHaveTheirTime` (`GameHasItsTime`) needs clocks.  `Timed` compares the age of a
context at the machine with the age of the game at halls: an OK goes out with the
report, when the context is `Grace` old at most or the server is in `late`; no time
passes while it is under way, as messages are prompt; from then on both clocks
run together, and the machine kills only beyond `GameTime` and `Grace`.  Halls may lose
its room, the connection may break and servers may crash meanwhile.

`LoadsCover` (`LoadCoversServers`) says, while nothing broke, that what roommgr
counted for a machine covers more than the burden: `Held` also has the rooms whose
GameOver report is on its way, because that report takes one off.  It is inductive
with `Ends`, a report is sent once and only after the server ended, and `Greets`,
a machine is known before it is given anything.  With them `ReportersAreKnown`:
a GameOver report is that of a machine roommgr knows, so the NULL that
`findServer` may return (section 2.2) is not used while nothing broke.

`ThreadPoolProofs` proves `PoolTypeCorrect` (`TypeOK`), `NoWakeupIsLost`
(`NoLostWakeup`), `TasksRunOnce` (`EachTaskOnce`) and `PoolServes`: the pool
implements `TaskService`, for any workers and any number of tasks.  The invariant adds that only the owner sets
`stop`, that workers return only on an empty queue after it, and that the
destructor returns last.

`ServerRegistryProofs` proves `RegistryTypeCorrect` and `InfosAndSessionsAgree`
(`SessionsAgree`).  What makes the agreement inductive is where a Hello can be: it
goes out for the info under id 0 only (`HelloIsOfZero`), so the answer finds that
info and no other, two infos never share a session (`OneInfo`), and a server that
answered has taken the Hello or refused it (`Answered`).

`GatewayProofs` proves `BackendsAreThere` (`NoDanglingBackend`),
`ServersLearnOfLeaving` (`DisconnectIsTold`) and `DeafnessHasCauses`
(`DeafHasCause`).  The invariant has two parts.  `Core` says nothing of streams, so
it covers torn sessions; its strengthening is `KnownIsBound`: a backend that got
packets of a client is the one it is bound to, unless it was told, the client went
on, it is deaf, or it was misled about the client.  `Noted` is what `DeafHasCause`
needs: a packet of an untorn session that is `bad` or `forward` was sent as such, so
its client is rude.  It follows the header from what was sent to what `onRecv` has in
hand.

`FramingProofs` adds `GatewayTypeCorrect` and `PacketsComeWhole` (`PacketsWhole`),
for streams of any length.  There is no induction over the stream in it: every
part tells which place of which packet it is, and `OnWire` says of each part what
comes behind it, which cutting and reading a prefix keep.  `Flows` then relates
what was handled, the header in hand and what is still in the buffer and on the
wire; every turn of `onRecv` preserves it.

`LoginFlowProofs` proves `LoginTypeCorrect`, `AnsweredOnce` (`AtMostOneAnswer`),
`AnswersOfForgotten` (`OwnAnswers`) and `TokensGuardPlayers` (`PlayersHadToken`).  `AtMostOneAnswer` needs that the entry of
a name is that of an unanswered request for this name (`EntryIsOpen`), since an
answer is given to whichever request the entry holds; `PlayersHadToken` needs that
who waits for dbmgr in halls had the token already (`WaitingHasToken`), since the
entry may have been made anew since.  `OwnAnswers` needs that of a request one copy
is under way on all links together (`OneCopy`), and that login has its entry or has
forgotten it (`EntryOrForgotten`): then an answer that meets the entry of another
request is that of a forgotten one.

The assumptions are those of the modules: finite sets of players, modes that
are not the any-mode, positive `PlayerMax`, finite sets of rooms and machines,
natural times and bounds, a length 0 among the lengths of packets, null values
outside the sets.

Only model-checked are liveness (`MatchedPlayerGoesOn`, `DisconnectedPlayerLeaves`,
`ContextsGo`, `GameServersStop`, `RequestsAreAnswered`, `RoomsClose`,
`FoundUnlessStuck`) and the refinements that state fairness (`ImplementsFairLobby`,
`ImplementsFairService`, whose safety parts are `LobbyIsImplemented` and `PoolServes`):
liveness under fairness is out of the prover's reach.  Every invariant and action
property of the passing runs is a theorem.

## 5. Findings

`halls_assert`: `XPlayer::saveGameData` asserts that the room of a player is in
`rooms_` (`XPlayer.cpp:169`).  It is not when roommgr is lost while an any-mode
request fills a new room from the pending players: `startMatch_` registers that
room only after `Room::enter` returned (`XServerApp.cpp:702-713`).  Build files
set no `NDEBUG`, so halls aborts.  With roommgr there it holds
(`AssertNeverFails`, section 4), and `Membership` and `PlayerFollowsRoom` bound
the damage in `halls_outage`.

`finder_choice`: the comments of `ConnectorFinder::calcBestServer` group the
connectors of similar rtt (`ConnectorFinder.cpp:217`) and take the one with the
fewest sessions *of that group* (`:226`).  The loop goes through all of
`connectorInfos_` (`:227`), `groups_` is never read.

The facts listed in sections 2.2 to 2.6 are deviations that no text of the
repository contradicts so clearly; the models keep them and the properties are
stated around them.

## 6. What is not modelled

- *robot*: a client that tests the servers.  The users and clients of `LoginFlow`,
  `Gateway` and `HallsMatch` may do what it does, in any order, and stop anywhere.
- *halls, dbmgr*: scores and game data.  They are stored and sent on; no decision
  depends on them.
- *directory*: the list of servers for clients, a query that changes nothing.
- *server registry*: interested ids with their reconnection counter, the infos
  that servers send each other after the handshake, Hellos of another version.
- *session layer*: socket options, listening, sending (libevent buffers it).
- *machine*: the orderly end.  `finalise()` (`machine/XServerApp.cpp:51-64`) kills the
  game server of every context with `kill -9`; `MachineCrashes` is the end without it,
  after which game servers go on.
- *halls*: a player that was lost, logs in again and is lost once more.  The login
  does not stop the destroy timer, the second loss arms it anew
  (`XPlayer.cpp:48-53`): in `HallsMatch` a lost player does not come back.
- *connector*: what the packets say that a client has a server take for packets of
  other servers (a Hello, infos of servers, answers): the model follows whether the
  server knows them and which client they name, not what they do to its registry.
  A body so long that it does not fit into a `ForwardPacket` any more meets the assert
  of `Session.cpp:136` in connector; lengths in `Gateway` are below that.  A
  connection between connector and a backend is lost at both ends in one step.
- Left out for good: the MongoDB driver, log, signals and configuration files,
  the Windows service wrapper, the contents of packets no decision depends on.

Of about 60 000 lines of implementation, 42 000 are generated by protoc
(`Commands.pb.cc`, `Commands.pb.h`) and 3 500 are the vendored `format.*`: there is
nothing in them to model, and the part of the lines the modules can map is small
however much of the servers' own code they cover.

A connection ends for both sides at once in `RoomServers`; a connection that one
side only believes in is the subject of `ServerRegistry`.
