SPECIFICATION FairSpec
CONSTANTS
  Versions = {v1, v2}
  NoModel = NoModel
  Checks = {c1, c2}
  LoopVideo = FALSE
  MaxPromotions = 2
  MaxFailures = 1
CHECK_DEADLOCK FALSE
INVARIANTS
  TypeOK
  OneSidecar
  NoModelLeftUnused
PROPERTIES
  ModelIsUsed
