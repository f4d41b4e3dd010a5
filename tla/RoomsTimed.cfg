\* Two rooms, two machines, and time: messages and ticks are prompt, game servers are not.
SPECIFICATION Spec
CONSTANTS
  a = a
  b = b
  m1 = m1
  m2 = m2
  RoomIds = {a, b}
  Machines = {m1, m2}
  Halls = Halls
  GameTime = 3
  Grace = 2
  MaxBreaks = 0
  MaxCrashes = 0
  Prompt = TRUE
  NoRoom = NoRoom
SYMMETRY Symmetry
CHECK_DEADLOCK FALSE
INVARIANTS
  GameHasItsTime
  LoadCoversServers
