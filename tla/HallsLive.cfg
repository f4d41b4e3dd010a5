\* Liveness: two players and one mode, roommgr there but its answers may be lost;
\* clients also ask for a mode the game does not have.
SPECIFICATION FairSpec
CONSTANTS
  p1 = p1
  p2 = p2
  p3 = p3
  r1 = r1
  r2 = r2
  r3 = r3
  duel = duel
  other = other
  beyond = beyond
  Players = {p1, p2}
  RoomIds = {r1, r2}
  Modes = {duel}
  PlayerMax <- TwoPlayersEach
  AnyMode = AnyMode
  UnknownModes = {beyond}
  RoommgrMayFail = FALSE
  OBJECT_ID_INVALID = OBJECT_ID_INVALID
  NoCall = NoCall
PROPERTIES
  MatchedPlayerGoesOn
  DisconnectedPlayerLeaves
  ImplementsFairLobby
