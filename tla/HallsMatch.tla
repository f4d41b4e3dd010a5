------------------------------ MODULE HallsMatch ------------------------------
(***************************************************************************)
(* Matchmaking in a halls server (src/src/servers/halls): XPlayer and Room *)
(* objects, the map rooms_ of live rooms, the per-mode vector of rooms     *)
(* that startMatch_ searches (findRooms(gameID, mode, 0)), the map         *)
(* pendingMatchs_ of players waiting for any mode, and the create-room     *)
(* requests a full room sends to roommgr.                                  *)
(*                                                                         *)
(* A halls process is one libevent loop, so a handler runs to completion   *)
(* before the next one starts.  startMatch() loops over the modes of the   *)
(* game and calls startMatch_ once per mode: `call' is the frame of that   *)
(* loop, each iteration is one step, and no other handler runs while the   *)
(* frame is there.  Every other handler is one step.                       *)
(*                                                                         *)
(* One game is modelled: rooms_ggpr_ and the gameID of a PendingMatch keep *)
(* games apart.  Scores and the packets sent to clients are left out.      *)
(***************************************************************************)
EXTENDS Integers, Sequences, FiniteSets, Functions

CONSTANTS
  Players,            \* XPlayer object identifiers
  RoomIds,            \* room identifiers; bounds the rooms alive at once
  Modes,              \* the game modes of the configuration file
  PlayerMax,          \* gamemodeN:playerMax, by mode
  AnyMode,            \* the gameMode 0 of a request: any mode will do
  UnknownModes,       \* mode numbers beyond the configuration a client may send
  RoommgrMayFail,     \* BOOLEAN: may the connection to roommgr be lost?
  OBJECT_ID_INVALID,  \* the roomID of a player in no room
  NoCall              \* no startMatch() is on the stack

Calls == [player : Players, modes : SUBSET Modes, create : BOOLEAN]

ASSUME PlayersAssumption == IsFiniteSet(Players)
ASSUME ModesAssumption ==
  /\ Modes # {}
  /\ AnyMode \notin Modes
  /\ UnknownModes \cap (Modes \cup {AnyMode}) = {}
ASSUME PlayerMaxAssumption == PlayerMax \in [Modes -> Nat \ {0}]
ASSUME NullAssumption == OBJECT_ID_INVALID \notin RoomIds /\ NoCall \notin Calls
ASSUME RoommgrAssumption == RoommgrMayFail \in BOOLEAN

VARIABLES
  objects,    \* objects_: the players that exist
  conn,       \* the players whose pSession_ is not NULL
  pstate,     \* XPlayer::state_
  proom,      \* XPlayer::roomID_
  pending,    \* the keys of pendingMatchs_
  rooms,      \* rooms_: room id -> mode, state and players_ of the Room
  pool,       \* findRooms(game, mode, 0): the vector startMatch_ looks into
  reqs,       \* rooms whose create request still has no answer
  roommgrUp,  \* findRoommgr() gives a server with a session
  call,       \* the frame of the startMatch() that is running, or NoCall
  strays,     \* history: players whose room was destroyed under the running
              \* any-mode startMatch() of their own
  crashed     \* the process aborted in an assert

playerVars == <<objects, conn>>
roomVars   == <<pstate, proom, rooms, pool>>
vars == <<playerVars, roomVars, pending, reqs, roommgrUp, call, strays, crashed>>

RoomStates   == {"WaitStart", "CreatingRoomServer", "Playing"}
PlayerStates == {"WaitStart", "StartMatching", "Playing"}
Rooms == [mode : Modes, state : RoomStates, players : SUBSET Players]

TypeOK ==
  /\ objects \subseteq Players
  /\ conn \subseteq objects
  /\ pstate \in [Players -> PlayerStates]
  /\ proom \in [Players -> RoomIds \cup {OBJECT_ID_INVALID}]
  /\ pending \subseteq objects
  /\ DOMAIN rooms \subseteq RoomIds
  /\ rooms \in [DOMAIN rooms -> Rooms]
  /\ pool \in [Modes -> Seq(RoomIds)]
  /\ reqs \subseteq RoomIds
  /\ roommgrUp \in BOOLEAN
  /\ call \in Calls \cup {NoCall}
  /\ strays \subseteq Players
  /\ crashed \in BOOLEAN

Init ==
  /\ objects = {}
  /\ conn = {}
  /\ pstate = [p \in Players |-> "WaitStart"]
  /\ proom = [p \in Players |-> OBJECT_ID_INVALID]
  /\ pending = {}
  /\ rooms = [r \in {} |-> {}]
  /\ pool = [m \in Modes |-> <<>>]
  /\ reqs = {}
  /\ roommgrUp = TRUE
  /\ call = NoCall
  /\ strays = {}
  /\ crashed = FALSE

-------------------------------------------------------------------------------
(* Maps, vectors and the order of a pool.                                  *)

Put(rms, r, room) == [x \in DOMAIN rms \cup {r} |-> IF x = r THEN room ELSE rms[x]]
Remove(rms, r)    == Restrict(rms, DOMAIN rms \ {r})

\* Mutant: destroyRoom forgets the vector.
Erase_forgets(s, r) == s

\* The vector s without its first r.
Erase(s, r) ==
  LET i == CHOOSE j \in DOMAIN s : s[j] = r /\ \A k \in 1..(j - 1) : s[k] # r
  IN  IF r \in Range(s)
        THEN [j \in 1..(Len(s) - 1) |-> IF j < i THEN s[j] ELSE s[j + 1]]
        ELSE s

\* Mutant: one place is never given away.
expectedPlayerNum_offByOne(room) ==
  LET num == PlayerMax[room.mode] - 1 - Cardinality(room.players)
  IN  IF room.state # "WaitStart" THEN 999999 ELSE IF num < 0 THEN 0 ELSE num

\* Places left in a room; a room past WaitStart sorts behind every other.
expectedPlayerNum(room) ==
  LET num == PlayerMax[room.mode] - Cardinality(room.players)
  IN  CASE room.state # "WaitStart" -> 999999
        [] room.state = "WaitStart" /\ num < 0 -> 0
        [] OTHER -> num

InOrder(s, rms) ==
  \A i, j \in DOMAIN s :
    i < j => expectedPlayerNum(rms[s[i]]) <= expectedPlayerNum(rms[s[j]])

\* What std::sort(begin, end, sortFunc) may leave: rooms that compare equal
\* come out in any order.
Sorts(s, rms) ==
  {t \in [DOMAIN s -> Range(s)] : Range(t) = Range(s) /\ InOrder(t, rms)}

\* uuid() gives a number nothing refers to any more.
FreshRooms == RoomIds \ (DOMAIN rooms \cup reqs)

-------------------------------------------------------------------------------
(* Ending a room, and the assert of XPlayer::saveGameData / startGame.     *)

\* assert(pRoom) after findRoom(roomID()) fails for a player of the room.
AssertFails(rms, prs, players) == \E x \in players : prs[x] \notin DOMAIN rms

Crash ==
  /\ crashed' = TRUE
  /\ UNCHANGED <<playerVars, roomVars, pending, reqs, roommgrUp, call, strays>>

\* Mutant: endGame leaves roomID_ alone.
destroy_keepsRoomID(r, rms, prs) ==
  /\ pstate' = [x \in Players |-> IF x \in rms[r].players THEN "WaitStart" ELSE pstate[x]]
  /\ proom' = prs
  /\ rooms' = Remove(rms, r)

\* Mutant: endGame leaves state_ alone.
destroy_keepsState(r, rms, prs) ==
  /\ pstate' = pstate
  /\ proom' = [x \in Players |-> IF x \in rms[r].players THEN OBJECT_ID_INVALID ELSE prs[x]]
  /\ rooms' = Remove(rms, r)

\* Room::destroy() of room r, in a server whose map and players' room ids are
\* rms and prs: every player of the room is sent back, the room is forgotten.
destroy(r, rms, prs) ==
  /\ pstate' = [x \in Players |-> IF x \in rms[r].players THEN "WaitStart" ELSE pstate[x]]
  /\ proom' = [x \in Players |-> IF x \in rms[r].players THEN OBJECT_ID_INVALID ELSE prs[x]]
  /\ rooms' = Remove(rms, r)

-------------------------------------------------------------------------------
(* Players: created by a login, disconnected, destroyed by a timer.        *)

Idle == call = NoCall /\ ~crashed

\* onSessionQueryAccountCB: a new object.  Its identifier is new, so neither a
\* room nor the player table holds it.
onSessionQueryAccountCB(p) ==
  /\ Idle
  /\ p \notin objects
  /\ \A r \in DOMAIN rooms : p \notin rooms[r].players
  /\ objects' = objects \cup {p}
  /\ conn' = conn \cup {p}
  /\ pstate' = [pstate EXCEPT ![p] = "WaitStart"]
  /\ proom' = [proom EXCEPT ![p] = OBJECT_ID_INVALID]
  /\ strays' = strays \ {p}
  /\ UNCHANGED <<pending, rooms, pool, reqs, roommgrUp, call, crashed>>

\* onSessionRemoteDisconnected (one player) and onSessionDisconnected (every
\* player of a connector): pSession_ becomes NULL, the destroy timer is armed.
onClientDisconnected(S) ==
  /\ Idle
  /\ S # {}
  /\ conn' = conn \ S
  /\ UNCHANGED <<objects, roomVars, pending, reqs, roommgrUp, call, strays, crashed>>

\* Mutant: onDestroy does not leave the room.
onDestroyTimer_stays(p) ==
  /\ Idle
  /\ p \in objects \ conn
  /\ objects' = objects \ {p}
  /\ pending' = pending \ {p}
  /\ UNCHANGED <<conn, roomVars, reqs, roommgrUp, call, strays, crashed>>

\* Mutant: onDelObject does not look for a pending match.
onDestroyTimer_keepsPending(p) ==
  /\ Idle
  /\ p \in objects \ conn
  /\ proom[p] = OBJECT_ID_INVALID
  /\ objects' = objects \ {p}
  /\ UNCHANGED <<conn, roomVars, pending, reqs, roommgrUp, call, strays, crashed>>

\* XPlayer::onDestroyTimer: the player leaves its room, the vector of that
\* room is sorted, and delObject drops the pending match and the object.
onDestroyTimer(p) ==
  /\ Idle
  /\ p \in objects \ conn
  /\ objects' = objects \ {p}
  /\ pending' = pending \ {p}
  /\ pstate' = [pstate EXCEPT ![p] = "WaitStart"]
  /\ LET r == proom[p] IN
       \/ /\ r \in DOMAIN rooms
          /\ p \in rooms[r].players
          /\ proom' = [proom EXCEPT ![p] = OBJECT_ID_INVALID]
          /\ rooms' = [rooms EXCEPT ![r].players = @ \ {p}]
          /\ \E s \in Sorts(pool[rooms[r].mode], rooms') :
               pool' = [pool EXCEPT ![rooms[r].mode] = s]
       \/ /\ ~(r \in DOMAIN rooms /\ p \in rooms[r].players)
          /\ UNCHANGED <<proom, rooms, pool>>
  /\ UNCHANGED <<conn, reqs, roommgrUp, call, strays, crashed>>

-------------------------------------------------------------------------------
(* startMatch, startMatch_ and what they call.                             *)

\* Mutant: the state of the first room is not looked at.
FrontWaits_any(m) == pool[m] # <<>>

FrontWaits(m) == pool[m] # <<>> /\ rooms[pool[m][1]].state = "WaitStart"

\* Bounds the number of rooms: a request that may open one needs an identifier.
RoomToSpare(modes) == FreshRooms # {} \/ \A m \in modes : FrontWaits(m)

\* onSessionStartMatch, XPlayer::startMatch and the checks of startMatch.  A
\* request while the player is not in WaitStart is answered with an error and
\* changes nothing; one for a mode the game does not have leaves the player in
\* StartMatching.
onSessionStartMatch(p, gameMode) ==
  /\ Idle
  /\ p \in conn
  /\ pstate[p] = "WaitStart"
  /\ pstate' = [pstate EXCEPT ![p] = "StartMatching"]
  /\ \/ /\ gameMode \in UnknownModes
        /\ UNCHANGED call
     \/ /\ gameMode \in Modes /\ RoomToSpare({gameMode})
        /\ call' = [player |-> p, modes |-> {gameMode}, create |-> TRUE]
     \/ /\ gameMode = AnyMode /\ RoomToSpare(Modes)
        /\ call' = [player |-> p, modes |-> Modes, create |-> FALSE]
  /\ UNCHANGED <<playerVars, proom, rooms, pool, pending, reqs, roommgrUp, strays, crashed>>

\* Mutant: the requestor is not counted.
Movable_forgetsRequestor(room) ==
  LET e == expectedPlayerNum(room)
      n == Cardinality(pending)
  IN  IF e = 0 \/ e > n
        THEN {{}}
        ELSE {F \in SUBSET pending : Cardinality(F) = IF e < n THEN e ELSE n}

\* The players movePendingMatchObjectsToRoom takes out of pendingMatchs_: as
\* many as there is room for, none if the room would still lack more than one.
Movable(room) ==
  LET e == expectedPlayerNum(room)
      n == Cardinality(pending)
  IN  IF e = 0 \/ e - 1 > n
        THEN {{}}
        ELSE {F \in SUBSET pending : Cardinality(F) = IF e < n THEN e ELSE n}

\* The loop of startMatch() goes on to the next mode while the player is in no
\* room; with a mode asked for there is only the one.
NextMode(m) ==
  call' = IF call.create \/ proom'[call.player] # OBJECT_ID_INVALID
            THEN NoCall
            ELSE [call EXCEPT !.modes = @ \ {m}]

\* Room::enter of the players `entering' (the caller and F, taken out of the
\* pending players) brings room r, registered in rooms_, to `room'; startGame
\* asks for a server when the room is full, and a full room is destroyed on
\* the spot when there is no roommgr.  base is the vector the room is in.
enter(r, room, F, base) ==
  LET p     == call.player
      m     == room.mode
      full  == expectedPlayerNum(room) = 0
      prs   == [x \in Players |-> IF x \in F \cup {p} THEN r ELSE proom[x]]
      rms   == Put(rooms, r, room)
      asked == Put(rooms, r, [room EXCEPT !.state = "CreatingRoomServer"])
  IN
  \/ /\ ~full
     /\ rooms' = rms
     /\ proom' = prs
     /\ \E s \in Sorts(base, rms) : pool' = [pool EXCEPT ![m] = s]
     /\ pending' = pending \ F
     /\ NextMode(m)
     /\ UNCHANGED <<playerVars, pstate, reqs, roommgrUp, strays, crashed>>
  \/ /\ full /\ roommgrUp
     /\ rooms' = asked
     /\ proom' = prs
     /\ \E s \in Sorts(base, asked) : pool' = [pool EXCEPT ![m] = s]
     /\ reqs' = reqs \cup {r}
     /\ pending' = pending \ F
     /\ NextMode(m)
     /\ UNCHANGED <<playerVars, pstate, roommgrUp, strays, crashed>>
  \/ /\ full /\ ~roommgrUp
     /\ ~AssertFails(rms, prs, room.players)
     /\ destroy(r, rms, prs)
     /\ \E s \in Sorts(Erase(base, r), rooms') : pool' = [pool EXCEPT ![m] = s]
     /\ pending' = pending \ F
     /\ strays' = IF call.create THEN strays ELSE strays \cup {p}
     /\ NextMode(m)
     /\ UNCHANGED <<playerVars, reqs, roommgrUp, crashed>>
  \/ /\ full /\ ~roommgrUp
     /\ AssertFails(rms, prs, room.players)
     /\ Crash

\* startMatch_ finds a room that waits at the front of the vector.
JoinFront(m) ==
  LET r      == pool[m][1]
      joined == [rooms[r] EXCEPT !.players = @ \cup {call.player}]
  IN  /\ FrontWaits(m)
      /\ \E F \in Movable(joined) :
           enter(r, [joined EXCEPT !.players = @ \cup F], F, pool[m])

\* startMatch_ finds none and the request names the mode: a new room.
OpenRoom(m) ==
  LET opened == [mode |-> m, state |-> "WaitStart", players |-> {call.player}]
  IN  /\ ~FrontWaits(m)
      /\ call.create
      /\ \E r \in FreshRooms, F \in Movable(opened) :
           enter(r, [opened EXCEPT !.players = @ \cup F], F, Append(pool[m], r))

\* startMatch_ finds none and any mode will do: a room that is in neither the
\* vector nor rooms_ takes the pending players first, then the caller, and is
\* registered only then.  Destroying it before that, or starting its game
\* because the pending players alone filled it, runs into the assert.
OpenUnregisteredRoom(m) ==
  LET p     == call.player
      empty == [mode |-> m, state |-> "WaitStart", players |-> {}]
  IN
  /\ ~FrontWaits(m)
  /\ ~call.create
  /\ \E r \in FreshRooms, F \in Movable(empty) :
       LET room  == [empty EXCEPT !.players = F \cup {p}]
           early == Cardinality(F) >= PlayerMax[m]
           full  == expectedPlayerNum(room) = 0
           state == IF full THEN "CreatingRoomServer" ELSE "WaitStart"
       IN
       /\ F # {}
       /\ \/ (early \/ (full /\ ~roommgrUp)) /\ Crash
          \/ /\ ~early /\ (full => roommgrUp)
             /\ rooms' = Put(rooms, r, [room EXCEPT !.state = state])
             /\ proom' = [x \in Players |-> IF x \in F \cup {p} THEN r ELSE proom[x]]
             /\ \E s \in Sorts(pool[m], rooms) :
                  pool' = [pool EXCEPT ![m] = Append(s, r)]
             /\ reqs' = IF full THEN reqs \cup {r} ELSE reqs
             /\ pending' = pending \ F
             /\ NextMode(m)
             /\ UNCHANGED <<playerVars, pstate, roommgrUp, strays, crashed>>

\* startMatch_ finds none and too few players are pending.
NoRoomFound(m) ==
  /\ ~FrontWaits(m)
  /\ ~call.create
  /\ {} \in Movable([mode |-> m, state |-> "WaitStart", players |-> {}])
  /\ UNCHANGED <<playerVars, roomVars, pending, reqs, roommgrUp, strays, crashed>>
  /\ NextMode(m)

startMatch_(m) ==
  /\ call # NoCall
  /\ ~crashed
  /\ m \in call.modes
  /\ JoinFront(m) \/ OpenRoom(m) \/ OpenUnregisteredRoom(m) \/ NoRoomFound(m)

\* Mutant: the player is in no list when the loop ends.
addPendingMatch_drops ==
  /\ call # NoCall
  /\ ~crashed
  /\ call.modes = {}
  /\ call' = NoCall
  /\ UNCHANGED <<playerVars, roomVars, pending, reqs, roommgrUp, strays, crashed>>

\* The end of the loop of startMatch(): no mode had a room.
addPendingMatch ==
  /\ call # NoCall
  /\ ~crashed
  /\ call.modes = {}
  /\ pending' = pending \cup {call.player}
  /\ call' = NoCall
  /\ UNCHANGED <<playerVars, roomVars, reqs, roommgrUp, strays, crashed>>

-------------------------------------------------------------------------------
(* Rooms: the answer to the create request, and the tick of each room.     *)

\* The room r is destroyed by a handler of its own.
DestroyRoom(r) ==
  \/ /\ ~AssertFails(rooms, proom, rooms[r].players)
     /\ destroy(r, rooms, proom)
     /\ pool' = [pool EXCEPT ![rooms[r].mode] = Erase(@, r)]
     /\ UNCHANGED crashed
  \/ /\ AssertFails(rooms, proom, rooms[r].players)
     /\ crashed' = TRUE
     /\ UNCHANGED roomVars

\* Room::startGame of a room whose server is ready.
StartGame(r) ==
  \/ /\ ~AssertFails(rooms, proom, rooms[r].players)
     /\ rooms' = [rooms EXCEPT ![r].state = "Playing"]
     /\ pstate' = [x \in Players |-> IF x \in rooms[r].players THEN "Playing" ELSE pstate[x]]
     /\ UNCHANGED <<proom, pool, crashed>>
  \/ /\ AssertFails(rooms, proom, rooms[r].players)
     /\ crashed' = TRUE
     /\ UNCHANGED roomVars

\* Mutant: an answer is applied to a room that did not ask.
onSessionRequestCreateRoomCB_anyRoom(r, ok) ==
  /\ Idle
  /\ r \in DOMAIN rooms
  /\ reqs' = reqs \ {r}
  /\ \/ ~ok /\ DestroyRoom(r)
     \/ ok /\ StartGame(r)
  /\ UNCHANGED <<playerVars, pending, roommgrUp, call, strays>>

\* onSessionRequestCreateRoomCB: the answer may come when the room is gone.
onSessionRequestCreateRoomCB(r, ok) ==
  /\ Idle
  /\ r \in reqs
  /\ reqs' = reqs \ {r}
  /\ \/ r \notin DOMAIN rooms /\ UNCHANGED <<roomVars, crashed>>
     \/ r \in DOMAIN rooms /\ ~ok /\ DestroyRoom(r)
     \/ r \in DOMAIN rooms /\ ok /\ StartGame(r)
  /\ UNCHANGED <<playerVars, pending, roommgrUp, call, strays>>

\* Nothing will answer the request: roommgr found no machine (its error names
\* no room), or it, the machine or a connection between them went away.
LoseRequest(r) ==
  /\ Idle
  /\ r \in reqs
  /\ reqs' = reqs \ {r}
  /\ UNCHANGED <<playerVars, roomVars, pending, roommgrUp, call, strays, crashed>>

\* Mutant: the game time is never looked at.
onTick_noTimeout(r) ==
  /\ Idle
  /\ r \in DOMAIN rooms
  /\ rooms[r].state = "WaitStart" /\ rooms[r].players = {}
  /\ DestroyRoom(r)
  /\ UNCHANGED <<playerVars, pending, reqs, roommgrUp, call, strays>>

\* Room::onTick.  The game time of a room past WaitStart may always have run
\* out: it is endGame that ends a game, a GameOver report changes only scores.
onTick(r) ==
  /\ Idle
  /\ r \in DOMAIN rooms
  /\ rooms[r].state = "WaitStart" => rooms[r].players = {}
  /\ DestroyRoom(r)
  /\ UNCHANGED <<playerVars, pending, reqs, roommgrUp, call, strays>>

\* The connection of the halls server to roommgr goes away and comes back.
RoommgrChange ==
  /\ Idle
  /\ RoommgrMayFail
  /\ roommgrUp' = ~roommgrUp
  /\ UNCHANGED <<playerVars, roomVars, pending, reqs, call, strays, crashed>>

-------------------------------------------------------------------------------
StartMatchStep == (\E m \in Modes : startMatch_(m)) \/ addPendingMatch

Next ==
  \/ \E p \in Players : onSessionQueryAccountCB(p) \/ onDestroyTimer(p)
  \/ \E S \in SUBSET conn : onClientDisconnected(S)
  \/ \E p \in Players, g \in Modes \cup UnknownModes \cup {AnyMode} :
       onSessionStartMatch(p, g)
  \/ StartMatchStep
  \/ \E r \in RoomIds, ok \in BOOLEAN : onSessionRequestCreateRoomCB(r, ok)
  \/ \E r \in RoomIds : LoseRequest(r) \/ onTick(r)
  \/ RoommgrChange

Spec == Init /\ [][Next]_vars

\* A handler that runs finishes.  The timers are strongly fair: the loop looks
\* for expired timers after the handlers of every iteration, so one that is due
\* goes off however many requests keep coming.
Fairness ==
  /\ WF_vars(StartMatchStep)
  /\ \A r \in RoomIds : SF_vars(onTick(r))
  /\ \A p \in Players : SF_vars(onDestroyTimer(p))

FairSpec == Spec /\ Fairness

-------------------------------------------------------------------------------
(* Properties.  A stray player is one for whom the code keeps no consistent  *)
(* record (see `strays'); what the properties say of players, they say of    *)
(* every other player, stray or not the ones around it.                      *)

InRoom(p, r) == r \in DOMAIN rooms /\ p \in rooms[r].players
Waiting(r)   == r \in DOMAIN rooms /\ rooms[r].state = "WaitStart"

\* The vectors startMatch_ searches and the map rooms_ never disagree: each
\* live room is once in the vector of its mode and nothing else is.
PoolMatchesRooms ==
  \A m \in Modes :
    /\ Range(pool[m]) = {r \in DOMAIN rooms : rooms[r].mode = m}
    /\ IsInjective(pool[m])

\* XPlayer::roomID_ and Room::players_ agree, so a player is in one room at
\* most and leave(), saveGameData() and startGame() find the right one.
Membership ==
  \A p \in Players \ strays, r \in RoomIds : InRoom(p, r) <=> proom[p] = r

\* Only a matching player without a room is in pendingMatchs_: no player is
\* moved into a second room, and no destroyed object into any.
PendingIsUnplaced ==
  \A p \in pending \ strays :
    p \in objects /\ pstate[p] = "StartMatching" /\ proom[p] = OBJECT_ID_INVALID

\* The player whose startMatch() runs exists and is still without a room: the
\* loop stops at the first room the player is in.
CallerIsUnplaced ==
  call # NoCall =>
    /\ call.player \in objects
    /\ call.player \notin strays =>
         /\ pstate[call.player] = "StartMatching"
         /\ proom[call.player] = OBJECT_ID_INVALID
         /\ call.player \notin pending

\* The state of a player is the one its room is in; a player that has no room
\* does not believe it plays.
PlayerFollowsRoom ==
  \A p \in objects \ strays :
    /\ \A r \in DOMAIN rooms : p \in rooms[r].players =>
         pstate[p] = IF rooms[r].state = "Playing" THEN "Playing" ELSE "StartMatching"
    /\ proom[p] = OBJECT_ID_INVALID => pstate[p] # "Playing"

\* A room holds no destroyed object: a player that goes leaves its room.
NoGhostPlayers ==
  \A r \in DOMAIN rooms : rooms[r].players \subseteq objects \cup strays

\* No room takes more than playerMax players, and one that is full does not
\* sit in WaitStart, where nothing but a new player would start it.
Capacity ==
  \A r \in DOMAIN rooms :
    /\ Cardinality(rooms[r].players) <= PlayerMax[rooms[r].mode]
    /\ Waiting(r) => Cardinality(rooms[r].players) < PlayerMax[rooms[r].mode]

\* A player whose request was valid is not forgotten: it waits in a room or in
\* pendingMatchs_, or its startMatch() still runs.
NobodyForgotten ==
  UnknownModes = {} =>
    \A p \in objects \ strays :
      pstate[p] = "StartMatching" /\ proom[p] = OBJECT_ID_INVALID =>
        p \in pending \/ (call # NoCall /\ call.player = p)

\* No player is left pending beside a room that waits for players, for games
\* of up to three players.
NoStrandedPending ==
  (\A m \in Modes : PlayerMax[m] <= 3) /\ pending # {} => \A r \in RoomIds : ~Waiting(r)

\* The assert(pRoom) of XPlayer::saveGameData and XPlayer::startGame holds.
AssertHolds == ~crashed

\* A game that starts does so for an answer to the room's own request: a room
\* is Playing only after it asked and the answer came.
PlaysOnlyWhenAnswered ==
  [][\A r \in RoomIds :
       (r \in DOMAIN rooms' /\ rooms'[r].state = "Playing")
         /\ ~(r \in DOMAIN rooms /\ rooms[r].state = "Playing") =>
           r \in DOMAIN rooms /\ rooms[r].state = "CreatingRoomServer"
             /\ r \in reqs /\ r \notin reqs']_vars

\* A player in a room whose server was asked for does not wait for ever: it
\* plays, is sent back, or its object goes, whatever becomes of the request.
MatchedPlayerGoesOn ==
  \A p \in Players :
    (p \in objects /\ \E r \in RoomIds : InRoom(p, r) /\ ~Waiting(r))
      ~> (p \notin objects \/ pstate[p] # "StartMatching")

\* A player that lost its client is in the end in no room and not pending.
DisconnectedPlayerLeaves ==
  \A p \in Players :
    (p \in objects \ conn)
      ~> (p \notin objects /\ p \notin pending /\ \A r \in RoomIds : ~InRoom(p, r))
===============================================================================
