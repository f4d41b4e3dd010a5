\* Three workers and four tasks; the destructor may come at any time.
SPECIFICATION FairSpec
CONSTANTS
  w1 = w1
  w2 = w2
  w3 = w3
  Workers = {w1, w2, w3}
  MaxTasks = 4
CHECK_DEADLOCK FALSE
INVARIANTS
  TypeOK
  NoLostWakeup
  EachTaskOnce
PROPERTIES
  ImplementsFairService
