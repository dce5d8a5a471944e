SPECIFICATION FairSpec
CONSTANTS
  Models = {m1, m2, m3}
  Requests = {r1, r2}
  NoModel = NoModel
  NoRequest = NoRequest
  MaxStamps = 5
  MaxOverlapped = 3
CHECK_DEADLOCK FALSE
INVARIANTS
  TypeOK
  AuditNamesProduction
  FormerProductionIsRollbackTarget
PROPERTIES
  RollbackUndoesLastSwitch
  CallsEnd
