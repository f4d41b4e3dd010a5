\* Two connectors, one near and one far.
SPECIFICATION Spec
CONSTANTS
  Connectors = {c1, c2}
  Rtts = {10, 20, 200}
  SessionNums = {1, 2}
  TickInterval = 50
  MaxLost = 1
  NONE = NONE
CHECK_DEADLOCK FALSE
PROPERTY
  ChosenOfTheNear
