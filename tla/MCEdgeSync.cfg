SPECIFICATION FairSpec
CONSTANTS
  Cycles = {c1, c2}
  NumEvents = 2
  LocalOnly = LocalOnly
  BatchMaxEvents = 2
  BufferMaxRows = 1
  ServerMaxBatch = 2
  MaxRows = 3
  MaxFailures = 1
CHECK_DEADLOCK FALSE
INVARIANTS
  TypeOK
  SyncedIsAccountedFor
  ReleasedOnlyOnceSeen
PROPERTIES
  StoresAndForwards
  PruneBoundsTheBuffer
  EveryReportIsConfirmed
