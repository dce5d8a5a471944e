SPECIFICATION Spec
CONSTANTS
  Missions = {m1}
  Requests = {r1, r2}
  Videos = {v1}
  NoVideo = NoVideo
  NoRequest = NoRequest
  MaxAudit = 5
SYMMETRY Symmetry
CHECK_DEADLOCK FALSE
INVARIANTS
  NoTransitionClobbers
