SPECIFICATION FairSpec
CONSTANTS
  Replicas = {p1, p2}
  NumRows = 3
  BatchSize = 2
  MaxFailures = 2
CHECK_DEADLOCK FALSE
INVARIANTS
  TypeOK
  ClaimsAreExclusive
PROPERTIES
  DeliversAtLeastOnce
  EveryRowIsPublished
