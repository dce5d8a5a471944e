SPECIFICATION FairSpec
CONSTANTS
  Entries = {"mission", "list"}
  MaxChanges = 1
  MaxMoves = 1
  MaxFaults = 1
CHECK_DEADLOCK FALSE
PROPERTY ReconnectReadsAgain
