\* Two users, one account name, two halls servers.
SPECIFICATION Spec
CONSTANTS
  Users = {u1, u2}
  Names = {n}
  Halls = {h, g}
  MaxRequests = 3
  MaxLogins = 2
  MaxRestarts = 1
  NONE = NONE
SYMMETRY Symmetric
CHECK_DEADLOCK FALSE
INVARIANTS
  TypeOK
  AtMostOneAnswer
  OwnAnswers
  PlayersHadToken
