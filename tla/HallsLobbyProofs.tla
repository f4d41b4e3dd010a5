--------------------------- MODULE HallsLobbyProofs ---------------------------
(* HallsMatch implements Lobby for every number of players, rooms and modes, *)
(* as long as roommgr does not go away and every mode takes two players or   *)
(* more: in a mode for one, the pending players alone fill a room that is    *)
(* not registered yet, and its game starts before anybody can find it.       *)
EXTENDS HallsLobby, HallsMatchProofs

Usual == RoommgrMayFail = FALSE /\ \A m \in Modes : PlayerMax[m] >= 2

Calm == roommgrUp = TRUE /\ strays = {} /\ crashed = FALSE

\* Pending players never fill a room alone.  A request for any mode leaves its player
\* pending only when it could not fill a room of any mode with the others.
Few ==
  /\ \A m \in Modes : Cardinality(pending) < PlayerMax[m]
  /\ call # NoCall =>
       IF call.create THEN call.modes # {}
       ELSE \A m \in Modes \ call.modes : Cardinality(pending) + 1 < PlayerMax[m]

Steady == Calm /\ Few
Whole == Typed /\ Records /\ Filled /\ Steady

\* Fewer players are pending and no request runs.
LEMMA FewerPending ==
  ASSUME Typed, Few, pending' \subseteq pending, call' = NoCall
  PROVE  Few'
<1>1. /\ Cardinality(pending') <= Cardinality(pending)
      /\ Cardinality(pending') \in Nat /\ Cardinality(pending) \in Nat
  <2>1. pending \subseteq Players /\ pending' \subseteq Players
    BY DEF Typed, TypeOK
  <2>2. IsFiniteSet(pending)
    BY <2>1, PlayersFinite
  <2> QED
    BY <2>1, <2>2, PlayersFinite, FS_Subset
<1>2. ASSUME NEW m \in Modes PROVE Cardinality(pending') < PlayerMax[m]
  <2>1. PlayerMax[m] \in Nat /\ Cardinality(pending) < PlayerMax[m]
    BY PlayerMaxAssumption DEF Few
  <2> QED
    BY <1>1, <2>1
<1> QED
  BY <1>2 DEF Few

\* The assert(pRoom) of saveGameData and startGame holds for the players of every room.
LEMMA RoomsAreFound ==
  ASSUME Typed, Records, Calm, NEW r \in DOMAIN rooms
  PROVE  ~AssertFails(rooms, proom, rooms[r].players)
<1>1. r \in RoomIds /\ rooms[r].players \subseteq Players
  BY DEF Typed, TypeOK, Rooms
<1>2. \A x \in rooms[r].players : proom[x] = r
  BY <1>1 DEF Records, Membership, InRoom, Calm
<1> QED
  BY <1>2 DEF AssertFails

-------------------------------------------------------------------------------
(* Taking seats                                                              *)

\* The caller and the pending players F are in room r, which asked for its server
\* when they filled it.
Seated(r, F) ==
  /\ DOMAIN rooms' = DOMAIN rooms \cup {r}
  /\ \A x \in DOMAIN rooms : x # r => rooms'[x] = rooms[x]
  /\ r \in DOMAIN rooms => rooms[r].state = "WaitStart"
  /\ \A x \in rooms'[r].players :
       (r \in DOMAIN rooms /\ x \in rooms[r].players) \/ x \in F \cup {call.player}
  /\ \/ rooms'[r].state = "WaitStart"
     \/ /\ rooms'[r].state = "CreatingRoomServer"
        /\ \E m \in Modes : Cardinality(rooms'[r].players) = PlayerMax[m]
  /\ UNCHANGED <<objects, pstate>>

LEMMA EnterSeats ==
  ASSUME Typed, Calm, Few, call # NoCall,
         NEW r \in RoomIds, NEW room \in Rooms, NEW F \in SUBSET pending, NEW base,
         room.state = "WaitStart", r \in DOMAIN rooms => rooms[r].state = "WaitStart",
         Cardinality(room.players) <= PlayerMax[room.mode],
         \A x \in room.players :
           (r \in DOMAIN rooms /\ x \in rooms[r].players) \/ x \in F \cup {call.player},
         enter(r, room, F, base)
  PROVE  Seated(r, F) /\ Calm' /\ Few'
<1> DEFINE p     == call.player
           m     == room.mode
           full  == expectedPlayerNum(room) = 0
           prs   == [x \in Players |-> IF x \in F \cup {p} THEN r ELSE proom[x]]
           rms   == Put(rooms, r, room)
           going == [room EXCEPT !.state = "CreatingRoomServer"]
           asked == Put(rooms, r, going)
<1>1. /\ call \in Calls /\ p \in Players /\ proom \in [Players -> RoomIds \cup {OBJECT_ID_INVALID}]
      /\ m \in Modes
  BY DEF Typed, TypeOK, Rooms
<1>2. /\ DOMAIN rms = DOMAIN rooms \cup {r} /\ rms[r] = room
      /\ \A x \in DOMAIN rooms : x # r => rms[x] = rooms[x]
  BY DEF Put
<1>3. /\ DOMAIN asked = DOMAIN rooms \cup {r} /\ asked[r] = going
      /\ \A x \in DOMAIN rooms : x # r => asked[x] = rooms[x]
  BY DEF Put
<1>4. going.players = room.players /\ going.state = "CreatingRoomServer"
  BY DEF Rooms
<1>5. full => Cardinality(room.players) = PlayerMax[m]
  BY PlacesLeft
<1>6. prs[p] # OBJECT_ID_INVALID
  BY <1>1, NullAssumption
<1> HIDE DEF m, full, rms, going, asked, prs
<1>7. /\ \/ rooms' = rms
         \/ full /\ rooms' = asked
      /\ proom' = prs /\ pending' = pending \ F /\ NextMode(m)
      /\ UNCHANGED <<playerVars, pstate, roommgrUp, strays, crashed>>
  BY DEF enter, Calm, m, full, prs, rms, going, asked
<1>8. call' = NoCall
  BY <1>1, <1>6, <1>7, NextModeFacts
<1>9. Calm' /\ Few'
  <2>1. pending' \subseteq pending
    BY <1>7
  <2>2. Few'
    BY <1>8, <2>1, FewerPending
  <2>3. UNCHANGED <<roommgrUp, strays, crashed>>
    BY <1>7
  <2> QED
    BY <2>2, <2>3 DEF Calm
<1>10. ASSUME rooms' = rms PROVE Seated(r, F)
  <2>1. DOMAIN rooms' = DOMAIN rooms \cup {r} /\ rooms'[r] = room
        /\ \A x \in DOMAIN rooms : x # r => rooms'[x] = rooms[x]
    BY <1>2, <1>10
  <2>2. UNCHANGED <<objects, pstate>>
    BY <1>7 DEF playerVars
  <2> QED
    BY <2>1, <2>2 DEF Seated
<1>11. ASSUME full, rooms' = asked PROVE Seated(r, F)
  <2>1. DOMAIN rooms' = DOMAIN rooms \cup {r} /\ rooms'[r] = going
        /\ \A x \in DOMAIN rooms : x # r => rooms'[x] = rooms[x]
    BY <1>3, <1>11
  <2>2. UNCHANGED <<objects, pstate>>
    BY <1>7 DEF playerVars
  <2>3. \E k \in Modes : Cardinality(rooms'[r].players) = PlayerMax[k]
    BY <1>1, <1>4, <1>5, <1>11, <2>1
  <2> QED
    BY <1>4, <2>1, <2>2, <2>3 DEF Seated
<1> QED
  BY <1>7, <1>9, <1>10, <1>11

\* startMatch_ seats players or changes no room, and never runs into the assert.
LEMMA StartMatchSeats ==
  ASSUME Whole, Usual, NEW m \in Modes, startMatch_(m)
  PROVE  /\ Calm' /\ Few'
         /\ \/ \E r \in RoomIds, F \in SUBSET pending : Seated(r, F)
            \/ UNCHANGED <<objects, pstate, rooms>>
<1> DEFINE p == call.player
<1>1. /\ call # NoCall /\ call \in Calls /\ p \in Players
      /\ DOMAIN rooms \subseteq RoomIds /\ rooms \in [DOMAIN rooms -> Rooms]
      /\ pending \subseteq Players
      /\ PlayerMax[m] \in Nat /\ PlayerMax[m] >= 2
      /\ Typed /\ Filled /\ Calm /\ Few
      /\ Cardinality(pending) \in Nat /\ IsFiniteSet(pending)
      /\ Cardinality(pending) < PlayerMax[m]
  <2>1. /\ call # NoCall /\ call \in Calls /\ p \in Players
        /\ DOMAIN rooms \subseteq RoomIds /\ rooms \in [DOMAIN rooms -> Rooms]
        /\ pending \subseteq Players
        /\ Typed /\ Filled /\ Calm /\ Few
    BY DEF Whole, Steady, Typed, TypeOK, startMatch_
  <2>2. PlayerMax[m] \in Nat /\ PlayerMax[m] >= 2
    BY PlayerMaxAssumption DEF Usual
  <2>3. Cardinality(pending) < PlayerMax[m]
    BY <2>1 DEF Few
  <2> QED
    BY <2>1, <2>2, <2>3, PlayersFinite
<1> HIDE DEF p
<1>3. CASE JoinFront(m)
  <2> DEFINE r      == pool[m][1]
             joined == [rooms[r] EXCEPT !.players = @ \cup {p}]
  <2>1. PICK F \in Movable(joined) :
          enter(r, [joined EXCEPT !.players = @ \cup F], F, pool[m])
    BY <1>3, Zenon DEF JoinFront, p
  <2>2. F \in SUBSET pending
    BY MovableFacts
  <2>3. r \in DOMAIN rooms /\ r \in RoomIds /\ rooms[r].mode = m /\ rooms[r].state = "WaitStart"
    BY <1>1, <1>3, FrontIsRoom DEF JoinFront
  <2> DEFINE room == [joined EXCEPT !.players = @ \cup F]
  <2> HIDE DEF r
  <2>4. rooms[r] \in Rooms /\ rooms[r].players \subseteq Players
    BY <1>1, <2>3 DEF Rooms
  <2>5. /\ joined \in Rooms /\ joined.state = "WaitStart" /\ joined.mode = m
        /\ joined.players = rooms[r].players \cup {p}
    BY <1>1, <2>3, <2>4 DEF Rooms
  <2>6. Cardinality(joined.players) <= PlayerMax[joined.mode]
    <3>1. Cardinality(rooms[r].players) < PlayerMax[m] /\ Cardinality(rooms[r].players) \in Nat
      BY <1>1, <2>3, <2>4, PlayersFinite DEF Filled, Capacity, Waiting
    <3>2. Cardinality(rooms[r].players \cup {p}) =
            IF p \in rooms[r].players THEN Cardinality(rooms[r].players)
            ELSE Cardinality(rooms[r].players) + 1
      BY <2>4, PlayersFinite, FS_AddElement
    <3> HIDE DEF joined
    <3>3. Cardinality(rooms[r].players \cup {p}) <= PlayerMax[m]
      BY <1>1, <3>1, <3>2
    <3> QED
      BY <2>5, <3>3
  <2>7. Cardinality(joined.players \cup F) <= PlayerMax[joined.mode]
    BY <1>1, <2>5, <2>6, MovedFit
  <2>8. /\ room \in Rooms /\ room.state = "WaitStart" /\ room.mode = joined.mode
        /\ room.players = joined.players \cup F
    BY <1>1, <2>2, <2>5 DEF Rooms
  <2>9. enter(r, room, F, pool[m])
    BY <2>1
  <2>10. \A x \in room.players :
           (r \in DOMAIN rooms /\ x \in rooms[r].players) \/ x \in F \cup {call.player}
    BY <2>3, <2>5, <2>8 DEF p
  <2> HIDE DEF room, joined
  <2> QED
    BY <1>1, <2>2, <2>3, <2>7, <2>8, <2>9, <2>10, EnterSeats
<1>4. CASE OpenRoom(m)
  <2> DEFINE opened == [mode |-> m, state |-> "WaitStart", players |-> {p}]
  <2>1. PICK r \in FreshRooms, F \in Movable(opened) :
          enter(r, [opened EXCEPT !.players = @ \cup F], F, Append(pool[m], r))
    BY <1>4 DEF OpenRoom, p
  <2>2. F \in SUBSET pending
    BY MovableFacts
  <2>3. r \in RoomIds /\ r \notin DOMAIN rooms
    BY DEF FreshRooms
  <2> DEFINE room == [opened EXCEPT !.players = @ \cup F]
             base == Append(pool[m], r)
  <2>4. opened \in Rooms /\ opened.state = "WaitStart" /\ opened.mode = m /\ opened.players = {p}
    BY <1>1 DEF Rooms, RoomStates
  <2>5. Cardinality(opened.players) <= PlayerMax[opened.mode]
    <3>1. Cardinality(opened.players) = 1 /\ PlayerMax[opened.mode] = PlayerMax[m]
      BY <2>4, FS_Singleton
    <3> HIDE DEF opened
    <3> QED
      BY <1>1, <3>1
  <2>6. Cardinality(opened.players \cup F) <= PlayerMax[opened.mode]
    BY <1>1, <2>4, <2>5, MovedFit
  <2>7. /\ room \in Rooms /\ room.state = "WaitStart" /\ room.mode = opened.mode
        /\ room.players = opened.players \cup F
    BY <1>1, <2>2, <2>4 DEF Rooms
  <2>8. enter(r, room, F, base)
    BY <2>1
  <2>9. \A x \in room.players : x \in F \cup {call.player}
    BY <2>4, <2>7 DEF p
  <2> HIDE DEF room, opened, base
  <2> QED
    BY <1>1, <2>2, <2>3, <2>6, <2>7, <2>8, <2>9, EnterSeats
<1>5. CASE OpenUnregisteredRoom(m)
  <2> DEFINE empty == [mode |-> m, state |-> "WaitStart", players |-> {}]
  <2>1. PICK r \in FreshRooms, F \in Movable(empty) :
          LET room  == [empty EXCEPT !.players = F \cup {p}]
              early == Cardinality(F) >= PlayerMax[m]
              full  == expectedPlayerNum(room) = 0
              state == IF full THEN "CreatingRoomServer" ELSE "WaitStart"
          IN  \/ (early \/ (full /\ ~roommgrUp)) /\ Crash
              \/ /\ rooms' = Put(rooms, r, [room EXCEPT !.state = state])
                 /\ proom' = [x \in Players |-> IF x \in F \cup {p} THEN r ELSE proom[x]]
                 /\ pending' = pending \ F
                 /\ NextMode(m)
                 /\ UNCHANGED <<playerVars, pstate, roommgrUp, strays, crashed>>
    BY <1>5, Zenon DEF OpenUnregisteredRoom, p
  <2>2. F \in SUBSET pending
    BY MovableFacts
  <2>3. r \in RoomIds /\ r \notin DOMAIN rooms
    BY DEF FreshRooms
  <2>4. Cardinality(F) \in Nat /\ Cardinality(F) < PlayerMax[m] /\ IsFiniteSet(F)
    <3>1. Cardinality(F) \in Nat /\ IsFiniteSet(F) /\ Cardinality(F) <= Cardinality(pending)
      BY <1>1, <2>2, PlayersFinite, FS_Subset
    <3> QED
      BY <1>1, <3>1
  <2>5. ~(Cardinality(F) >= PlayerMax[m])
    BY ONLY <1>1, <2>4
  <2> DEFINE joint == [empty EXCEPT !.players = F \cup {p}]
             full == expectedPlayerNum(joint) = 0
             room == [joint EXCEPT !.state = IF full THEN "CreatingRoomServer" ELSE "WaitStart"]
  <2>6. /\ rooms' = Put(rooms, r, room)
        /\ proom' = [x \in Players |-> IF x \in F \cup {p} THEN r ELSE proom[x]]
        /\ pending' = pending \ F
        /\ NextMode(m)
        /\ UNCHANGED <<playerVars, pstate, roommgrUp, strays, crashed>>
    BY <1>1, <2>1, <2>5 DEF Calm
  <2>7. joint \in Rooms /\ joint.state = "WaitStart" /\ joint.mode = m /\ joint.players = F \cup {p}
    BY <1>1, <2>2 DEF Rooms, RoomStates
  <2> HIDE DEF joint
  <2>8. Cardinality(joint.players) <= PlayerMax[joint.mode]
    <3>1. Cardinality(F \cup {p}) = IF p \in F THEN Cardinality(F) ELSE Cardinality(F) + 1
      BY <2>4, FS_AddElement
    <3>2. Cardinality(F \cup {p}) <= PlayerMax[m]
      BY ONLY <1>1, <2>4, <3>1
    <3> QED
      BY <2>7, <3>2
  <2>9. full => Cardinality(joint.players) = PlayerMax[joint.mode]
    <3>1. /\ expectedPlayerNum(joint) = PlayerMax[joint.mode] - Cardinality(joint.players)
          /\ Cardinality(joint.players) \in Nat /\ PlayerMax[joint.mode] \in Nat
      BY <2>7, <2>8, PlacesLeft
    <3> QED
      BY ONLY <3>1
  <2> HIDE DEF full
  <2>10. /\ room.players = F \cup {p} /\ room.mode = m
         /\ room.state = IF full THEN "CreatingRoomServer" ELSE "WaitStart"
    BY <2>7 DEF Rooms
  <2> HIDE DEF room
  <2>11. /\ DOMAIN rooms' = DOMAIN rooms \cup {r} /\ rooms'[r] = room
         /\ \A x \in DOMAIN rooms : x # r => rooms'[x] = rooms[x]
    BY <2>6 DEF Put
  <2>12. call' = NoCall
    <3>1. proom'[p] # OBJECT_ID_INVALID
      BY <1>1, <2>3, <2>6, NullAssumption
    <3> QED
      BY <1>1, <2>6, <3>1, NextModeFacts DEF p
  <2>13. Calm' /\ Few'
    BY <1>1, <2>6, <2>12, FewerPending DEF Calm
  <2>14. Seated(r, F)
    <3>1. full => \E k \in Modes : Cardinality(rooms'[r].players) = PlayerMax[k]
      BY <2>7, <2>9, <2>10, <2>11
    <3> QED
      BY <2>3, <2>6, <2>10, <2>11, <3>1 DEF Seated, playerVars, p
  <2> QED
    BY <2>2, <2>3, <2>13, <2>14
<1>6. CASE NoRoomFound(m)
  <2> DEFINE empty == [mode |-> m, state |-> "WaitStart", players |-> {}]
  <2>1. /\ UNCHANGED <<playerVars, roomVars, pending, roommgrUp, strays, crashed>> /\ NextMode(m)
        /\ ~call.create /\ {} \in Movable(empty)
    BY <1>6 DEF NoRoomFound
  <2>2. Cardinality(pending) + 1 < PlayerMax[m]
    <3>1. empty \in Rooms /\ empty.state = "WaitStart" /\ empty.mode = m /\ empty.players = {}
      BY DEF Rooms, RoomStates
    <3> HIDE DEF empty
    <3>2. Cardinality(empty.players) = 0
      BY <3>1, FS_EmptySet
    <3>3. expectedPlayerNum(empty) = PlayerMax[m]
      <4>1. Cardinality(empty.players) <= PlayerMax[empty.mode]
        BY <1>1, <3>1, <3>2
      <4>2. expectedPlayerNum(empty) = PlayerMax[m] - 0
        BY <3>1, <3>2, <4>1, PlacesLeft
      <4> QED
        BY <1>1, <4>2
    <3>4. Cardinality({}) = 0
      BY FS_EmptySet
    <3>5. \/ expectedPlayerNum(empty) = 0
          \/ expectedPlayerNum(empty) - 1 > Cardinality(pending)
          \/ Cardinality({}) = IF expectedPlayerNum(empty) < Cardinality(pending)
                                 THEN expectedPlayerNum(empty) ELSE Cardinality(pending)
      BY <2>1 DEF Movable
    <3> QED
      BY ONLY <1>1, <3>3, <3>4, <3>5
  <2>3. call' = NoCall \/ call' = [call EXCEPT !.modes = @ \ {m}]
    BY <2>1 DEF NextMode
  <2>4. ASSUME call' = [call EXCEPT !.modes = @ \ {m}]
        PROVE  ~call'.create /\ call'.modes = call.modes \ {m}
    BY <1>1, <2>1, <2>4 DEF Calls
  <2>5. Few'
    BY <1>1, <2>1, <2>2, <2>3, <2>4 DEF Few
  <2> QED
    BY <1>1, <2>1, <2>5 DEF Calm, playerVars, roomVars
<1> QED
  BY <1>3, <1>4, <1>5, <1>6 DEF startMatch_

-------------------------------------------------------------------------------
(* The phases of players                                                     *)

Matched(p) == \E r \in GameRooms : p \in rooms[r].players

\* The phase of a player, in this state and in the next one.
LEMMA PhaseOfPlayer ==
  ASSUME NEW p \in Players, pstate[p] \in PlayerStates
  PROVE  /\ p \notin objects => lobbyPhase[p] = "out"
         /\ p \in objects /\ pstate[p] = "WaitStart" => lobbyPhase[p] = "idle"
         /\ p \in objects /\ pstate[p] = "Playing" => lobbyPhase[p] = "playing"
         /\ p \in objects /\ pstate[p] = "StartMatching" =>
              lobbyPhase[p] = IF Matched(p) THEN "matched" ELSE "waiting"
  BY DEF lobbyPhase, PhaseOf, Matched, PlayerStates

LEMMA NextPhaseOfPlayer ==
  ASSUME NEW p \in Players, pstate'[p] \in PlayerStates
  PROVE  /\ p \notin objects' => lobbyPhase'[p] = "out"
         /\ p \in objects' /\ pstate'[p] = "WaitStart" => lobbyPhase'[p] = "idle"
         /\ p \in objects' /\ pstate'[p] = "Playing" => lobbyPhase'[p] = "playing"
         /\ p \in objects' /\ pstate'[p] = "StartMatching" =>
              lobbyPhase'[p] = IF Matched(p)' THEN "matched" ELSE "waiting"
  BY DEF lobbyPhase, PhaseOf, Matched, PlayerStates

\* A player that nothing happens to keeps its phase.
LEMMA PhaseKept ==
  ASSUME NEW p \in Players, p \in objects' <=> p \in objects, pstate'[p] = pstate[p],
         pstate \in [Players -> PlayerStates], Matched(p)' <=> Matched(p)
  PROVE  lobbyPhase'[p] = lobbyPhase[p]
<1>1. pstate[p] \in PlayerStates /\ pstate'[p] \in PlayerStates
  OBVIOUS
<1> QED
  BY <1>1, PhaseOfPlayer, NextPhaseOfPlayer DEF PlayerStates

\* Phases by phases make a move of the lobby.
LEMMA MovesLobby ==
  ASSUME NEW S, NEW to,
         \A p \in Players : lobbyPhase'[p] = IF p \in S THEN to ELSE lobbyPhase[p]
  PROVE  L!Move(S, to)
<1>1. lobbyPhase' = [p \in Players |-> PhaseOf(p)']
  BY DEF lobbyPhase
<1>2. \A p \in Players : PhaseOf(p)' = IF p \in S THEN to ELSE lobbyPhase[p]
  BY <1>1
<1> QED
  BY <1>1, <1>2 DEF L!Move

\* Types of what the lobby sees.
LEMMA LobbyTypes ==
  ASSUME Typed
  PROVE  /\ objects \subseteq Players /\ pstate \in [Players -> PlayerStates]
         /\ DOMAIN rooms \subseteq RoomIds /\ rooms \in [DOMAIN rooms -> Rooms]
         /\ \A r \in DOMAIN rooms : rooms[r].players \subseteq Players
  BY DEF Typed, TypeOK, Rooms

\* What no player can tell: games and players stay as they are.
LEMMA LobbySame ==
  ASSUME UNCHANGED <<objects, pstate>>, GameRooms' = GameRooms, Typed,
         \A r \in GameRooms : rooms'[r].players = rooms[r].players
  PROVE  UNCHANGED L!vars
<1>1. \A p \in Players : Matched(p)' <=> Matched(p)
  BY DEF Matched
<1>2. \A p \in Players : lobbyPhase'[p] = lobbyPhase[p]
  BY <1>1, PhaseKept, LobbyTypes
<1>3. lobbyPhase' = lobbyPhase
  <2>1. lobbyPhase' = [p \in Players |-> PhaseOf(p)']
    BY DEF lobbyPhase
  <2>2. \A p \in Players : PhaseOf(p)' = PhaseOf(p)
    BY <1>2 DEF lobbyPhase
  <2> QED
    BY <2>1, <2>2 DEF lobbyPhase
<1>4. lobbyGames' = lobbyGames
  BY DEF lobbyGames
<1> QED
  BY <1>3, <1>4 DEF L!vars

\* A player is in one room at most, and its state is that of the room.
LEMMA PlayersInRooms ==
  ASSUME Typed, Records, Calm, NEW r \in DOMAIN rooms, NEW x \in rooms[r].players
  PROVE  /\ x \in Players /\ x \in objects /\ proom[x] = r
         /\ pstate[x] = IF rooms[r].state = "Playing" THEN "Playing" ELSE "StartMatching"
         /\ \A y \in DOMAIN rooms : x \in rooms[y].players => y = r
<1>1. x \in Players /\ r \in RoomIds /\ DOMAIN rooms \subseteq RoomIds
  BY LobbyTypes
<1>2. x \in objects
  BY DEF Records, NoGhostPlayers, Calm
<1>3. \A y \in DOMAIN rooms : x \in rooms[y].players => proom[x] = y
  BY <1>1 DEF Records, Membership, InRoom, Calm
<1>4. pstate[x] = IF rooms[r].state = "Playing" THEN "Playing" ELSE "StartMatching"
  BY <1>2 DEF Records, PlayerFollowsRoom, Calm
<1> QED
  BY <1>1, <1>2, <1>3, <1>4

-------------------------------------------------------------------------------
(* Steps of the halls server as steps of the lobby                           *)

\* Players that wait take seats, and a room that is full is a game.
LEMMA SeatedIsForm ==
  ASSUME Whole, call # NoCall, NEW r \in RoomIds, NEW F \in SUBSET pending, Seated(r, F), Typed'
  PROVE  L!Next \/ UNCHANGED L!vars
<1>1. Typed /\ Records /\ Calm
  BY DEF Whole, Steady
<1>2. /\ DOMAIN rooms' = DOMAIN rooms \cup {r}
      /\ \A x \in DOMAIN rooms : x # r => rooms'[x] = rooms[x]
      /\ r \in DOMAIN rooms => rooms[r].state = "WaitStart"
      /\ UNCHANGED <<objects, pstate>>
  BY DEF Seated
<1>3. CASE rooms'[r].state = "WaitStart"
  <2>1. GameRooms' = GameRooms
    BY <1>2, <1>3 DEF GameRooms
  <2>2. \A x \in GameRooms : rooms'[x].players = rooms[x].players
    BY <1>2 DEF GameRooms
  <2> QED
    BY <1>1, <1>2, <2>1, <2>2, LobbySame
<1>4. ASSUME rooms'[r].state = "CreatingRoomServer",
             NEW m \in Modes, Cardinality(rooms'[r].players) = PlayerMax[m]
      PROVE  L!Next
  <2> DEFINE S == rooms'[r].players
  <2>1. GameRooms' = GameRooms \cup {r} /\ r \notin GameRooms
    BY <1>2, <1>4 DEF GameRooms
  <2>2. \A x \in GameRooms : rooms'[x].players = rooms[x].players
    BY <1>2, <2>1 DEF GameRooms
  <2>3. S \subseteq Players
    BY <1>2 DEF Typed, TypeOK, Rooms
  <2>4. ASSUME NEW x \in S
        PROVE  x \in objects /\ pstate[x] = "StartMatching" /\ ~Matched(x)
    <3>1. CASE r \in DOMAIN rooms /\ x \in rooms[r].players
      <4>1. /\ x \in objects /\ pstate[x] = "StartMatching"
            /\ \A y \in DOMAIN rooms : x \in rooms[y].players => y = r
        BY <1>1, <1>2, <3>1, PlayersInRooms
      <4> QED
        BY <2>1, <4>1 DEF Matched, GameRooms
    <3>2. CASE x \in F \cup {call.player}
      <4>1. x \in objects /\ pstate[x] = "StartMatching" /\ proom[x] = OBJECT_ID_INVALID
        BY <1>1, <3>2 DEF Typed, TypeOK, Records, PendingIsUnplaced, CallerIsUnplaced, Calm
      <4>2. \A y \in DOMAIN rooms : x \notin rooms[y].players
        BY <1>1, <4>1, NullAssumption, PlayersInRooms, LobbyTypes
      <4> QED
        BY <4>1, <4>2 DEF Matched, GameRooms
    <3> QED
      BY <3>1, <3>2 DEF Seated
  <2>5. ASSUME NEW x \in Players
        PROVE  lobbyPhase'[x] = IF x \in S THEN "matched" ELSE lobbyPhase[x]
    <3>1. CASE x \in S
      <4>1. Matched(x)'
        BY <2>1, <3>1 DEF Matched
      <4>2. pstate'[x] = "StartMatching" /\ x \in objects'
        BY <1>2, <2>4, <3>1
      <4> QED
        BY <3>1, <4>1, <4>2, NextPhaseOfPlayer DEF PlayerStates
    <3>2. CASE x \notin S
      <4>1. Matched(x)' <=> Matched(x)
        BY <2>1, <2>2, <3>2 DEF Matched
      <4> QED
        BY <1>1, <1>2, <3>2, <4>1, PhaseKept, LobbyTypes
    <3> QED
      BY <3>1, <3>2
  <2>6. \A x \in S : lobbyPhase[x] = "waiting"
    BY <2>3, <2>4, PhaseOfPlayer DEF PlayerStates
  <2>7. L!Move(S, "matched")
    BY <2>5, MovesLobby
  <2>8. lobbyGames' = [h \in DOMAIN lobbyGames \cup {r} |-> IF h = r THEN S ELSE lobbyGames[h]]
    BY <2>1, <2>2 DEF lobbyGames
  <2>9. r \notin DOMAIN lobbyGames
    BY <2>1 DEF lobbyGames
  <2> HIDE DEF S
  <2>10. L!Cardinality(S) = PlayerMax[m]
    <3>1. Cardinality(S) = PlayerMax[m]
      BY <1>4 DEF S
    <3>2. L!Cardinality(S) = Cardinality(S)
      BY Zenon DEF L!Cardinality, Cardinality
    <3> QED
      BY <3>1, <3>2
  <2>11. L!Form(r, m, S)
    BY <2>6, <2>7, <2>8, <2>9, <2>10 DEF L!Form
  <2> QED
    BY <2>3, <2>11 DEF L!Next
<1> QED
  BY <1>3, <1>4 DEF Seated

\* A room that is destroyed is a game that ends, or one that never was.
LEMMA DestroyIsEnd ==
  ASSUME Whole, NEW r \in DOMAIN rooms, DestroyRoom(r), UNCHANGED objects,
         rooms[r].state = "WaitStart" => rooms[r].players = {}
  PROVE  (L!Next \/ UNCHANGED L!vars) /\ crashed' = crashed
<1> DEFINE S == rooms[r].players
<1>1. Typed /\ Records /\ Calm /\ r \in RoomIds /\ S \subseteq Players
  BY LobbyTypes DEF Whole, Steady
<1>2. /\ rooms' = Remove(rooms, r) /\ crashed' = crashed
      /\ pstate' = [x \in Players |-> IF x \in S THEN "WaitStart" ELSE pstate[x]]
  BY <1>1, RoomsAreFound DEF DestroyRoom, destroy
<1>3. /\ DOMAIN rooms' = DOMAIN rooms \ {r}
      /\ \A x \in DOMAIN rooms : x # r => rooms'[x] = rooms[x]
  BY <1>2 DEF Remove, Restrict
<1>4. GameRooms' = GameRooms \ {r}
  BY <1>3 DEF GameRooms
<1>5. \A x \in GameRooms : x # r => rooms'[x].players = rooms[x].players
  BY <1>3 DEF GameRooms
<1>6. ASSUME NEW x \in Players
      PROVE  lobbyPhase'[x] = IF x \in S THEN "idle" ELSE lobbyPhase[x]
  <2>1. CASE x \in S
    <3>1. pstate'[x] = "WaitStart" /\ x \in objects'
      BY <1>1, <1>2, <2>1, PlayersInRooms
    <3> QED
      BY <2>1, <3>1, NextPhaseOfPlayer DEF PlayerStates
  <2>2. CASE x \notin S
    <3>1. Matched(x)' <=> Matched(x)
      BY <1>4, <1>5, <2>2 DEF Matched
    <3>2. pstate'[x] = pstate[x]
      BY <1>2, <2>2
    <3> QED
      BY <1>1, <1>2, <2>2, <3>1, <3>2, PhaseKept, LobbyTypes
  <2> QED
    BY <2>1, <2>2
<1>7. CASE r \in GameRooms
  <2>1. L!Move(lobbyGames[r], "idle")
    BY <1>6, <1>7, MovesLobby DEF lobbyGames
  <2>2. lobbyGames' = [h \in DOMAIN lobbyGames \ {r} |-> lobbyGames[h]] /\ r \in DOMAIN lobbyGames
    BY <1>4, <1>5, <1>7 DEF lobbyGames
  <2>3. L!End(r)
    BY <2>1, <2>2 DEF L!End
  <2> QED
    BY <1>1, <1>2, <2>3 DEF L!Next
<1>8. CASE r \notin GameRooms
  <2>1. S = {} /\ GameRooms' = GameRooms
    BY <1>4, <1>8 DEF GameRooms
  <2>2. \A x \in Players : lobbyPhase'[x] = lobbyPhase[x]
    BY <1>6, <2>1
  <2>3. lobbyPhase' = lobbyPhase
    BY <2>2 DEF lobbyPhase
  <2>4. lobbyGames' = lobbyGames
    BY <1>5, <1>8, <2>1 DEF lobbyGames
  <2> QED
    BY <1>2, <2>3, <2>4 DEF L!vars
<1> QED
  BY <1>7, <1>8

\* A room that starts its game is a game that begins.
LEMMA StartGameIsBegin ==
  ASSUME Whole, NEW r \in DOMAIN rooms, StartGame(r), UNCHANGED objects,
         rooms[r].state = "CreatingRoomServer"
  PROVE  L!Next /\ crashed' = crashed
<1> DEFINE S == rooms[r].players
<1>1. Typed /\ Records /\ Calm /\ r \in RoomIds /\ S \subseteq Players
      /\ rooms \in [DOMAIN rooms -> Rooms]
  BY LobbyTypes DEF Whole, Steady
<1>2. /\ rooms' = [rooms EXCEPT ![r].state = "Playing"] /\ crashed' = crashed
      /\ pstate' = [x \in Players |-> IF x \in S THEN "Playing" ELSE pstate[x]]
  BY <1>1, RoomsAreFound DEF StartGame
<1>3. /\ DOMAIN rooms' = DOMAIN rooms
      /\ \A y \in DOMAIN rooms : rooms'[y].players = rooms[y].players
      /\ \A y \in DOMAIN rooms : rooms'[y].state = IF y = r THEN "Playing" ELSE rooms[y].state
  BY <1>1, <1>2 DEF Rooms
<1>4. GameRooms' = GameRooms /\ r \in GameRooms
  BY <1>3 DEF GameRooms
<1>5. \A y \in GameRooms : rooms'[y].players = rooms[y].players
  BY <1>3 DEF GameRooms
<1>6. ASSUME NEW x \in Players
      PROVE  lobbyPhase'[x] = IF x \in S THEN "playing" ELSE lobbyPhase[x]
  <2>1. CASE x \in S
    <3>1. pstate'[x] = "Playing" /\ x \in objects'
      BY <1>1, <1>2, <2>1, PlayersInRooms
    <3> QED
      BY <2>1, <3>1, NextPhaseOfPlayer DEF PlayerStates
  <2>2. CASE x \notin S
    <3>1. Matched(x)' <=> Matched(x)
      BY <1>4, <1>5 DEF Matched
    <3>2. pstate'[x] = pstate[x]
      BY <1>2, <2>2
    <3> QED
      BY <1>1, <1>2, <2>2, <3>1, <3>2, PhaseKept, LobbyTypes
  <2> QED
    BY <2>1, <2>2
<1>7. ASSUME NEW x \in S PROVE lobbyPhase[x] = "matched"
  <2>1. x \in objects /\ pstate[x] = "StartMatching"
    BY <1>1, PlayersInRooms
  <2>2. Matched(x)
    BY <1>4 DEF Matched
  <2> QED
    BY <1>1, <2>1, <2>2, PhaseOfPlayer DEF PlayerStates
<1>8. lobbyGames' = lobbyGames /\ r \in DOMAIN lobbyGames /\ lobbyGames[r] = S
  BY <1>4, <1>5 DEF lobbyGames
<1>9. L!Move(S, "playing")
  BY <1>6, MovesLobby
<1>10. L!Begin(r)
  BY <1>7, <1>8, <1>9 DEF L!Begin
<1> QED
  BY <1>1, <1>2, <1>10 DEF L!Next

\* A player whose timer fires departs, from its game as well.
LEMMA DestroyTimerIsDepart ==
  ASSUME Whole, NEW p \in Players, onDestroyTimer(p)
  PROVE  L!Next
<1>1. /\ Typed /\ Records /\ Calm /\ rooms \in [DOMAIN rooms -> Rooms]
      /\ pstate \in [Players -> PlayerStates] /\ objects \subseteq Players
      /\ DOMAIN rooms \subseteq RoomIds
  BY LobbyTypes DEF Whole, Steady
<1>2. /\ p \in objects /\ objects' = objects \ {p}
      /\ pstate' = [pstate EXCEPT ![p] = "WaitStart"]
  BY DEF onDestroyTimer
<1> DEFINE r == proom[p]
<1>3. \A y \in DOMAIN rooms : p \in rooms[y].players => y = r
  BY <1>1, PlayersInRooms
<1>4. /\ DOMAIN rooms' = DOMAIN rooms
      /\ \A y \in DOMAIN rooms : rooms'[y].state = rooms[y].state
      /\ \A y \in DOMAIN rooms : rooms'[y].players = rooms[y].players \ {p}
  <2>1. CASE r \in DOMAIN rooms /\ p \in rooms[r].players
    <3>1. rooms' = [rooms EXCEPT ![r].players = @ \ {p}]
      BY <2>1 DEF onDestroyTimer
    <3> HIDE DEF r
    <3> QED
      BY <1>1, <1>3, <2>1, <3>1 DEF Rooms
  <2>2. CASE ~(r \in DOMAIN rooms /\ p \in rooms[r].players)
    <3>1. UNCHANGED rooms
      BY <2>2 DEF onDestroyTimer
    <3> HIDE DEF r
    <3> QED
      BY <1>3, <2>2, <3>1
  <2> QED
    BY <2>1, <2>2
<1> HIDE DEF r
<1>5. GameRooms' = GameRooms /\ \A y \in GameRooms : rooms'[y].players = rooms[y].players \ {p}
  BY <1>4 DEF GameRooms
<1>6. ASSUME NEW x \in Players
      PROVE  lobbyPhase'[x] = IF x \in {p} THEN "out" ELSE lobbyPhase[x]
  <2>1. CASE x = p
    <3>1. x \notin objects' /\ pstate'[x] = "WaitStart"
      BY <1>1, <1>2, <2>1
    <3> QED
      BY <2>1, <3>1, NextPhaseOfPlayer DEF PlayerStates
  <2>2. CASE x # p
    <3>1. Matched(x)' <=> Matched(x)
      BY <1>5, <2>2 DEF Matched
    <3>2. pstate'[x] = pstate[x] /\ (x \in objects' <=> x \in objects)
      BY <1>1, <1>2, <2>2
    <3> QED
      BY <1>1, <1>2, <2>2, <3>1, <3>2, PhaseKept, LobbyTypes
  <2> QED
    BY <2>1, <2>2
<1>7. lobbyPhase[p] # "out"
  BY <1>1, <1>2, PhaseOfPlayer DEF PlayerStates
<1>8. lobbyGames' = [g \in DOMAIN lobbyGames |-> lobbyGames[g] \ {p}]
  BY <1>5 DEF lobbyGames
<1>9. L!Move({p}, "out")
  BY <1>6, MovesLobby
<1>10. L!Depart(p)
  BY <1>7, <1>8, <1>9 DEF L!Depart
<1> QED
  BY <1>10 DEF L!Next

\* A new object is a player that arrives.
LEMMA ArrivesInLobby ==
  ASSUME Whole, NEW p \in Players, onSessionQueryAccountCB(p)
  PROVE  L!Next
<1>1. /\ Typed /\ pstate \in [Players -> PlayerStates] /\ objects \subseteq Players
  BY LobbyTypes DEF Whole
<1>2. /\ p \notin objects /\ objects' = objects \cup {p} /\ rooms' = rooms
      /\ pstate' = [pstate EXCEPT ![p] = "WaitStart"]
  BY DEF onSessionQueryAccountCB
<1>3. \A x \in Players : Matched(x)' <=> Matched(x)
  BY <1>2 DEF Matched, GameRooms
<1>4. ASSUME NEW x \in Players
      PROVE  lobbyPhase'[x] = IF x \in {p} THEN "idle" ELSE lobbyPhase[x]
  <2>1. CASE x = p
    <3>1. x \in objects' /\ pstate'[x] = "WaitStart"
      BY <1>1, <1>2, <2>1
    <3> QED
      BY <2>1, <3>1, NextPhaseOfPlayer DEF PlayerStates
  <2>2. CASE x # p
    <3>1. pstate'[x] = pstate[x] /\ (x \in objects' <=> x \in objects)
      BY <1>1, <1>2, <2>2
    <3> QED
      BY <1>1, <1>3, <2>2, <3>1, PhaseKept
  <2> QED
    BY <2>1, <2>2
<1>5. lobbyPhase[p] = "out"
  BY <1>1, <1>2, PhaseOfPlayer
<1>6. lobbyGames' = lobbyGames
  BY <1>2 DEF lobbyGames, GameRooms
<1>7. L!Move({p}, "idle")
  BY <1>4, MovesLobby
<1>8. L!Arrive(p)
  BY <1>5, <1>6, <1>7 DEF L!Arrive
<1> QED
  BY <1>8 DEF L!Next

\* A request that is taken is a player that asks.
LEMMA AsksInLobby ==
  ASSUME Whole, NEW p \in Players, NEW g, onSessionStartMatch(p, g)
  PROVE  L!Next
<1>1. /\ Typed /\ Records /\ Calm /\ pstate \in [Players -> PlayerStates] /\ conn \subseteq objects
      /\ DOMAIN rooms \subseteq RoomIds
  BY LobbyTypes DEF Whole, Steady, Typed, TypeOK
<1>2. /\ p \in conn /\ pstate[p] = "WaitStart" /\ rooms' = rooms /\ objects' = objects
      /\ pstate' = [pstate EXCEPT ![p] = "StartMatching"]
  BY DEF onSessionStartMatch, playerVars
<1>3. \A x \in Players : Matched(x)' <=> Matched(x)
  BY <1>2 DEF Matched, GameRooms
<1>4. ~Matched(p)
  <2>1. \A r \in DOMAIN rooms : p \notin rooms[r].players
    BY <1>1, <1>2, PlayersInRooms
  <2> QED
    BY <2>1 DEF Matched, GameRooms
<1>5. ASSUME NEW x \in Players
      PROVE  lobbyPhase'[x] = IF x \in {p} THEN "waiting" ELSE lobbyPhase[x]
  <2>1. CASE x = p
    <3>1. x \in objects' /\ pstate'[x] = "StartMatching" /\ ~Matched(x)'
      BY <1>1, <1>2, <1>3, <1>4, <2>1
    <3> QED
      BY <2>1, <3>1, NextPhaseOfPlayer DEF PlayerStates
  <2>2. CASE x # p
    <3>1. pstate'[x] = pstate[x] /\ (x \in objects' <=> x \in objects)
      BY <1>1, <1>2, <2>2
    <3> QED
      BY <1>1, <1>3, <2>2, <3>1, PhaseKept
  <2> QED
    BY <2>1, <2>2
<1>6. lobbyPhase[p] = "idle"
  BY <1>1, <1>2, PhaseOfPlayer
<1>7. lobbyGames' = lobbyGames
  BY <1>2 DEF lobbyGames, GameRooms
<1>8. L!Move({p}, "waiting")
  BY <1>5, MovesLobby
<1>9. L!Ask(p)
  BY <1>6, <1>7, <1>8 DEF L!Ask
<1> QED
  BY <1>9 DEF L!Next

\* A handler that changes neither a player nor a room changes nothing in the lobby.
LEMMA NothingSeen ==
  ASSUME Whole, UNCHANGED <<objects, pstate, rooms>>
  PROVE  UNCHANGED L!vars
<1>1. Typed
  BY DEF Whole
<1>2. GameRooms' = GameRooms /\ \A r \in GameRooms : rooms'[r].players = rooms[r].players
  BY DEF GameRooms
<1> QED
  BY <1>1, <1>2, LobbySame

\* A handler that runs while no request does leaves what Few says, if it adds no
\* pending player.
LEMMA FewWhileIdle ==
  ASSUME Whole, Idle, pending' \subseteq pending, call' = call
  PROVE  Few'
<1>1. Typed /\ Few /\ call' = NoCall
  BY DEF Whole, Steady, Idle
<1> QED
  BY <1>1, FewerPending

Moves == Steady' /\ (L!Next \/ UNCHANGED L!vars)

LEMMA NextMoves ==
  ASSUME Usual, Whole, [Next]_vars, Typed'
  PROVE  Moves
<1>1. /\ Typed /\ Records /\ Filled /\ Calm /\ Few /\ IsFiniteSet(pending)
      /\ DOMAIN rooms \subseteq RoomIds
  <2>1. Typed /\ Records /\ Filled /\ Calm /\ Few /\ DOMAIN rooms \subseteq RoomIds
    BY LobbyTypes DEF Whole, Steady
  <2>2. pending \subseteq Players
    BY DEF Whole, Typed, TypeOK
  <2> QED
    BY <2>1, <2>2, PlayersFinite
<1>2. ASSUME NEW p \in Players, onSessionQueryAccountCB(p) PROVE Moves
  <2>1. /\ Idle /\ pending' = pending /\ call' = call /\ strays' = strays \ {p}
        /\ UNCHANGED <<roommgrUp, crashed>>
    BY <1>2 DEF onSessionQueryAccountCB
  <2> QED
    BY <1>1, <1>2, <2>1, FewWhileIdle, ArrivesInLobby DEF Moves, Steady, Calm
<1>3. ASSUME NEW p \in Players, onDestroyTimer(p) PROVE Moves
  <2>1. /\ Idle /\ pending' \subseteq pending /\ call' = call
        /\ UNCHANGED <<strays, roommgrUp, crashed>>
    BY <1>3 DEF onDestroyTimer
  <2> QED
    BY <1>1, <1>3, <2>1, FewWhileIdle, DestroyTimerIsDepart DEF Moves, Steady, Calm
<1>4. ASSUME NEW S \in SUBSET conn, onClientDisconnected(S) PROVE Moves
  <2>1. /\ Idle /\ pending' \subseteq pending /\ call' = call
        /\ UNCHANGED <<strays, roommgrUp, crashed>> /\ UNCHANGED <<objects, pstate, rooms>>
    BY <1>4 DEF onClientDisconnected, roomVars
  <2> QED
    BY <1>1, <2>1, FewWhileIdle, NothingSeen DEF Moves, Steady, Calm
<1>5. ASSUME NEW p \in Players, NEW g, onSessionStartMatch(p, g) PROVE Moves
  <2>1. /\ call = NoCall /\ pending' = pending /\ UNCHANGED <<strays, roommgrUp, crashed>>
        /\ \/ call' = call
           \/ call' = [player |-> p, modes |-> {g}, create |-> TRUE]
           \/ call' = [player |-> p, modes |-> Modes, create |-> FALSE]
    BY <1>5 DEF onSessionStartMatch, Idle
  <2>2. Few'
    <3>1. \A m \in Modes : Cardinality(pending') < PlayerMax[m]
      BY <1>1, <2>1 DEF Few
    <3>2. CASE call' = call
      BY <2>1, <3>1, <3>2 DEF Few
    <3>3. CASE call' = [player |-> p, modes |-> {g}, create |-> TRUE]
      <4>1. call'.create /\ call'.modes = {g}
        BY <3>3
      <4> QED
        BY <3>1, <4>1 DEF Few
    <3>4. CASE call' = [player |-> p, modes |-> Modes, create |-> FALSE]
      <4>1. ~call'.create /\ Modes \ call'.modes = {}
        BY <3>4
      <4> QED
        BY <3>1, <4>1 DEF Few
    <3> QED
      BY <2>1, <3>2, <3>3, <3>4
  <2> QED
    BY <1>1, <1>5, <2>1, <2>2, AsksInLobby DEF Moves, Steady, Calm
<1>6. ASSUME NEW m \in Modes, startMatch_(m) PROVE Moves
  <2>1. Steady'
    BY <1>6, StartMatchSeats DEF Steady
  <2>2. ASSUME NEW r \in RoomIds, NEW F \in SUBSET pending, Seated(r, F)
        PROVE  L!Next \/ UNCHANGED L!vars
    BY <1>6, <2>2, SeatedIsForm DEF startMatch_
  <2>3. L!Next \/ UNCHANGED L!vars
    BY <1>6, <2>2, StartMatchSeats, NothingSeen
  <2> QED
    BY <2>1, <2>3 DEF Moves
<1>7. ASSUME addPendingMatch PROVE Moves
  <2>1. /\ call # NoCall /\ call.modes = {} /\ call' = NoCall
        /\ pending' = pending \cup {call.player}
        /\ UNCHANGED <<strays, roommgrUp, crashed>> /\ UNCHANGED <<objects, pstate, rooms>>
    BY <1>7 DEF addPendingMatch, playerVars, roomVars
  <2>2. \A m \in Modes : Cardinality(pending) + 1 < PlayerMax[m] /\ PlayerMax[m] \in Nat
    BY <1>1, <2>1, PlayerMaxAssumption DEF Few
  <2>3. Cardinality(pending') \in Nat /\ Cardinality(pending) \in Nat
        /\ Cardinality(pending') <= Cardinality(pending) + 1
    <3>1. Cardinality(pending') =
            IF call.player \in pending THEN Cardinality(pending) ELSE Cardinality(pending) + 1
      BY <1>1, <2>1, FS_AddElement
    <3>2. Cardinality(pending) \in Nat
      BY <1>1, FS_CardinalityType
    <3> QED
      BY ONLY <3>1, <3>2
  <2>4. Few'
    <3>1. ASSUME NEW m \in Modes PROVE Cardinality(pending') < PlayerMax[m]
      <4>1. Cardinality(pending) + 1 < PlayerMax[m] /\ PlayerMax[m] \in Nat
        BY <2>2
      <4> QED
        BY ONLY <2>3, <4>1
    <3> QED
      BY <2>1, <3>1 DEF Few
  <2> QED
    BY <1>1, <2>1, <2>4, NothingSeen DEF Moves, Steady, Calm
<1>8. ASSUME NEW r \in RoomIds, NEW ok \in BOOLEAN, onSessionRequestCreateRoomCB(r, ok) PROVE Moves
  <2>1. /\ Idle /\ pending' \subseteq pending /\ call' = call /\ r \in reqs
        /\ UNCHANGED <<strays, roommgrUp>> /\ UNCHANGED objects
        /\ \/ r \notin DOMAIN rooms /\ UNCHANGED <<roomVars, crashed>>
           \/ r \in DOMAIN rooms /\ ~ok /\ DestroyRoom(r)
           \/ r \in DOMAIN rooms /\ ok /\ StartGame(r)
    BY <1>8 DEF onSessionRequestCreateRoomCB, playerVars
  <2>2. r \in DOMAIN rooms => rooms[r].state = "CreatingRoomServer"
    BY <1>1, <2>1 DEF Filled, Asked
  <2>3. crashed' = crashed /\ (L!Next \/ UNCHANGED L!vars)
    <3>1. CASE r \notin DOMAIN rooms /\ UNCHANGED <<roomVars, crashed>>
      BY <2>1, <3>1, NothingSeen DEF roomVars
    <3>2. CASE r \in DOMAIN rooms /\ ~ok /\ DestroyRoom(r)
      BY <2>1, <2>2, <3>2, DestroyIsEnd
    <3>3. CASE r \in DOMAIN rooms /\ ok /\ StartGame(r)
      BY <2>1, <2>2, <3>3, StartGameIsBegin
    <3> QED
      BY <2>1, <3>1, <3>2, <3>3
  <2> QED
    BY <1>1, <2>1, <2>3, FewWhileIdle DEF Moves, Steady, Calm
<1>9. ASSUME NEW r \in RoomIds, LoseRequest(r) PROVE Moves
  <2>1. /\ Idle /\ pending' \subseteq pending /\ call' = call
        /\ UNCHANGED <<strays, roommgrUp, crashed>> /\ UNCHANGED <<objects, pstate, rooms>>
    BY <1>9 DEF LoseRequest, playerVars, roomVars
  <2> QED
    BY <1>1, <2>1, FewWhileIdle, NothingSeen DEF Moves, Steady, Calm
<1>10. ASSUME NEW r \in RoomIds, onTick(r) PROVE Moves
  <2>1. /\ Idle /\ pending' \subseteq pending /\ call' = call /\ r \in DOMAIN rooms
        /\ UNCHANGED <<strays, roommgrUp>> /\ UNCHANGED objects
        /\ rooms[r].state = "WaitStart" => rooms[r].players = {}
        /\ DestroyRoom(r)
    BY <1>10 DEF onTick, playerVars
  <2>2. crashed' = crashed /\ (L!Next \/ UNCHANGED L!vars)
    BY <2>1, DestroyIsEnd
  <2> QED
    BY <1>1, <2>1, <2>2, FewWhileIdle DEF Moves, Steady, Calm
<1>11. ~RoommgrChange
  BY DEF Usual, RoommgrChange
<1>12. ASSUME UNCHANGED vars PROVE Moves
  <2>1. /\ UNCHANGED <<pending, call, strays, roommgrUp, crashed>>
        /\ UNCHANGED <<objects, pstate, rooms>>
    BY <1>12 DEF vars, playerVars, roomVars
  <2>2. Few'
    BY <1>1, <2>1 DEF Few
  <2> QED
    BY <1>1, <2>1, <2>2, NothingSeen DEF Moves, Steady, Calm
<1> QED
  BY <1>2, <1>3, <1>4, <1>5, <1>6, <1>7, <1>8, <1>9, <1>10, <1>11, <1>12 DEF Next, StartMatchStep

LEMMA InitSteady ==
  ASSUME Usual, Init
  PROVE  Steady /\ L!Init
<1>1. /\ objects = {} /\ pending = {} /\ call = NoCall /\ roommgrUp = TRUE /\ strays = {}
      /\ crashed = FALSE /\ DOMAIN rooms = {} /\ pstate \in [Players -> PlayerStates]
  BY DEF Init, PlayerStates
<1>2. Few
  <2>1. ASSUME NEW m \in Modes PROVE Cardinality(pending) < PlayerMax[m]
    <3>1. PlayerMax[m] >= 2 /\ PlayerMax[m] \in Nat
      BY PlayerMaxAssumption DEF Usual
    <3>2. Cardinality(pending) = 0
      BY <1>1, FS_EmptySet
    <3> QED
      BY ONLY <3>1, <3>2
  <2> QED
    BY <1>1, <2>1 DEF Few
<1>3. lobbyPhase = [p \in Players |-> "out"]
  <2>1. \A p \in Players : lobbyPhase[p] = "out"
    BY <1>1, PhaseOfPlayer
  <2>2. \A p \in Players : PhaseOf(p) = "out"
    BY <2>1 DEF lobbyPhase
  <2> QED
    BY <2>2 DEF lobbyPhase
<1>4. lobbyGames = [g \in {} |-> {}]
  <2>1. GameRooms = {}
    BY <1>1 DEF GameRooms
  <2> QED
    BY <2>1 DEF lobbyGames
<1> QED
  BY <1>1, <1>2, <1>3, <1>4 DEF Steady, Calm, L!Init

-------------------------------------------------------------------------------
LEMMA WholeHolds == ASSUME Usual PROVE Spec => []Whole
<1>1. Init => Whole
  BY InitTyped, InitRecords, InitFilled, InitSteady DEF Whole
<1>2. Whole /\ [Next]_vars => Whole'
  <2> SUFFICES ASSUME Whole, [Next]_vars PROVE Whole'
    OBVIOUS
  <2>1. Typed /\ Records /\ Filled
    BY DEF Whole
  <2>2. Typed'
    BY <2>1, NextTyped
  <2>3. Records'
    BY <2>1, <2>2, NextRecords
  <2>4. Filled'
    BY <2>1, NextFilled
  <2>5. Steady'
    BY <2>2, NextMoves DEF Moves
  <2> QED
    BY <2>2, <2>3, <2>4, <2>5 DEF Whole
<1> QED
  BY <1>1, <1>2, PTL DEF Spec

\* While roommgr stays and every mode takes two players or more, what players see of
\* startMatch_, Room::enter, movePendingMatchObjectsToRoom, Room::startGame and
\* Room::destroy is the lobby: a game is made in one step of exactly playerMax players
\* that wait, and nobody is in two.
THEOREM LobbyIsImplemented == Usual => (Spec => ImplementsLobby)
<1> SUFFICES ASSUME Usual PROVE Spec => ImplementsLobby
  OBVIOUS
<1>1. Init => L!Init
  BY InitSteady
<1>2. Whole /\ Whole' /\ [Next]_vars => [L!Next]_(L!vars)
  BY NextMoves DEF Moves, Whole
<1> QED
  BY <1>1, <1>2, WholeHolds, PTL DEF Spec, ImplementsLobby, L!Spec

\* And the assert(pRoom) of saveGameData and startGame holds: a room that starts or
\* ends is in rooms_ by then, and its players have its identifier.
THEOREM AssertNeverFails == Usual => (Spec => []AssertHolds)
<1> SUFFICES ASSUME Usual PROVE Spec => []AssertHolds
  OBVIOUS
<1>1. Whole => AssertHolds
  BY DEF Whole, Steady, Calm, AssertHolds
<1> QED
  BY <1>1, WholeHolds, PTL
===============================================================================
