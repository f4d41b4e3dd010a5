\* Two clients, a login and a halls server that come and go.
SPECIFICATION Spec
CONSTANTS
  c1 = c1
  c2 = c2
  l = l
  h = h
  Clients = {c1, c2}
  Backends = {l, h}
  Kind <- OneEach
  Lens = {0, 1}
  Sends <- AllAndServed
  MaxPackets <- TwoAndOne
  MaxAnswers = 1
  MaxExits = 1
  NULL = NULL
CHECK_DEADLOCK FALSE
INVARIANTS
  TypeOK
  PacketsWhole
  NoDanglingBackend
  DisconnectIsTold
  
