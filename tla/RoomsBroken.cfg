\* One room, connections that break and servers that crash, any delays.
SPECIFICATION Spec
CONSTANTS
  a = a
  b = b
  m1 = m1
  m2 = m2
  RoomIds = {a}
  Machines = {m1}
  Halls = Halls
  GameTime = 1
  Grace = 1
  MaxBreaks = 2
  MaxCrashes = 1
  Prompt = FALSE
  NoRoom = NoRoom
SYMMETRY Symmetry
CHECK_DEADLOCK FALSE
INVARIANTS
  TypeOK
  RequestedOnce
  OkMeansListening
  NoAnswerWhilePlaying
PROPERTY
  ImplementsRoomGrant
