\* Two servers to find, three connections at a time, two of which break.
SPECIFICATION FairSpec
CONSTANTS
  dbmgr = dbmgr
  hallsmgr = hallsmgr
  Types = {dbmgr, hallsmgr}
  Order <- DbmgrFirst
  Sessions = {s1, s2, s3}
  MaxBreaks = 2
  Zero = Zero
  NONE = NONE
CHECK_DEADLOCK FALSE
INVARIANTS
  TypeOK
  SessionsAgree
PROPERTIES
  FoundUnlessStuck
