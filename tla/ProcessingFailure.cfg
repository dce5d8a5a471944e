SPECIFICATION FairSpec
CONSTANTS
  Command = command
  Workers = {w1}
  Consumers = {c1}
  RetryAttempts = 3
  MaxFailures = 0
  MaxRestarts = 0
  MaxCopies = 1
  MaxOperator = 0
CHECK_DEADLOCK FALSE
INVARIANTS
  FailureFailsMission
