SPECIFICATION FairSpec
CONSTANTS
  Entries = {"mission", "list"}
  MaxChanges = 2
  MaxMoves = 2
  MaxFaults = 1
CHECK_DEADLOCK FALSE
INVARIANT ToldIsComing
PROPERTY ToldIsShown
