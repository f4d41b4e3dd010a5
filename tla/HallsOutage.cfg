\* Three players, two modes, and a connection to roommgr that comes and goes.
SPECIFICATION Spec
CONSTANTS
  p1 = p1
  p2 = p2
  p3 = p3
  r1 = r1
  r2 = r2
  r3 = r3
  duel = duel
  other = other
  beyond = beyond
  Players = {p1, p2, p3}
  RoomIds = {r1, r2}
  Modes = {duel, other}
  PlayerMax <- TwoPlayersEach
  AnyMode = AnyMode
  UnknownModes = {}
  RoommgrMayFail = TRUE
  OBJECT_ID_INVALID = OBJECT_ID_INVALID
  NoCall = NoCall
SYMMETRY ModeSymmetry
CHECK_DEADLOCK FALSE
INVARIANTS
  Membership
  PendingIsUnplaced
  PlayerFollowsRoom
PROPERTIES
  PlaysOnlyWhenAnswered
