SPECIFICATION FairSpec
CONSTANTS
  Missions = {m1}
  Requests = {r1, r2}
  Videos = {v1}
  NoVideo = NoVideo
  NoRequest = NoRequest
  MaxAudit = 5
CHECK_DEADLOCK FALSE
INVARIANTS
  TypeOK
  StatusIsAudited
  CommandPerQueueing
  CommandHasVideo
PROPERTIES
  AuditTrailIsComplete
  DeletedIsFinal
  CallsEnd
