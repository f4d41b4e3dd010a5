\* Liveness with a connection that may break.
SPECIFICATION FairSpec
CONSTANTS
  a = a
  b = b
  m1 = m1
  m2 = m2
  RoomIds = {a}
  Machines = {m1}
  Halls = Halls
  GameTime = 1
  Grace = 1
  MaxBreaks = 1
  MaxCrashes = 0
  Prompt = FALSE
  NoRoom = NoRoom
CHECK_DEADLOCK FALSE
PROPERTIES
  ContextsGo
  GameServersStop
  RequestsAreAnswered
  RoomsClose
