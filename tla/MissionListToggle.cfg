SPECIFICATION FairSpec
CONSTANTS
  Entries = {"mission", "list"}
  MaxChanges = 2
  MaxMoves = 4
  MaxFaults = 0
CHECK_DEADLOCK FALSE
PROPERTY ToggledListIsCurrent
