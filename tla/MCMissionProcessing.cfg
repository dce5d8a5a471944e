SPECIFICATION FairSpec
CONSTANTS
  Command = command
  Workers = {w1, w2}
  Consumers = {c1, c2}
  RetryAttempts = 2
  MaxFailures = 1
  MaxRestarts = 1
  MaxCopies = 2
  MaxOperator = 1
CHECK_DEADLOCK FALSE
INVARIANTS
  TypeOK
  CommandRunsOnce
  CompletionHasOutput
  EventsAppliedOnce
  RelayedWasApplied
  NoEventVanishes
  DeadLettersAreUnapplied
PROPERTIES
  MissionEnds
