\* Three players, a mode for two and one for three players, roommgr always there.
SPECIFICATION Spec
CONSTANTS
  p1 = p1
  p2 = p2
  p3 = p3
  r1 = r1
  r2 = r2
  r3 = r3
  duel = duel
  other = other
  beyond = beyond
  Players = {p1, p2, p3}
  RoomIds = {r1, r2, r3}
  Modes = {duel, other}
  PlayerMax <- TwoOrThree
  AnyMode = AnyMode
  UnknownModes = {}
  RoommgrMayFail = FALSE
  OBJECT_ID_INVALID = OBJECT_ID_INVALID
  NoCall = NoCall
SYMMETRY Symmetry
INVARIANTS
  TypeOK
  PoolMatchesRooms
  Capacity
  NobodyForgotten
  NoStrandedPending
PROPERTIES
  ImplementsLobby
