SPECIFICATION Spec
CONSTANTS
  Versions = {v1, v2}
  NoModel = NoModel
  Checks = {c1, c2}
  LoopVideo = TRUE
  MaxPromotions = 2
  MaxFailures = 1
CHECK_DEADLOCK FALSE
PROPERTY
  NewModelRestartsSidecar
