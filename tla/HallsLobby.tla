------------------------------ MODULE HallsLobby ------------------------------
(* HallsMatch implements Lobby while roommgr does not go away: pending       *)
(* players, the players of a room in WaitStart and the one whose startMatch  *)
(* runs wait; a room past WaitStart is a game.                               *)
EXTENDS HallsMatch

GameRooms == {r \in DOMAIN rooms : rooms[r].state # "WaitStart"}

\* The phase of one player.
PhaseOf(p) ==
  CASE p \notin objects -> "out"
    [] p \in objects /\ pstate[p] = "WaitStart" -> "idle"
    [] p \in objects /\ pstate[p] = "Playing" -> "playing"
    [] p \in objects /\ pstate[p] = "StartMatching" ->
         IF \E r \in GameRooms : p \in rooms[r].players THEN "matched" ELSE "waiting"

lobbyPhase == [p \in Players |-> PhaseOf(p)]

lobbyGames == [r \in GameRooms |-> rooms[r].players]

L == INSTANCE Lobby WITH GameIds <- RoomIds, phase <- lobbyPhase, games <- lobbyGames

\* Every step of the halls server is a step of the lobby, or changes nothing a
\* player can tell: a game is formed in one step, out of exactly playerMax
\* players that asked, and nobody is in two games (startMatch_, Room::enter,
\* movePendingMatchObjectsToRoom, Room::startGame, Room::destroy).
ImplementsLobby == L!Spec

\* The timers of the halls server make every game end (Room::onTick).
ImplementsFairLobby == L!FairSpec
===============================================================================
