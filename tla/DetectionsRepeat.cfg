SPECIFICATION FairSpec
CONSTANTS
  MaxMisses = 0
  AllowedLabels = {"car", "person"}
  Videos <- ShortVideos
  Consumers = {c1, c2}
  RetryAttempts = 3
  MaxTrouble = 4
  MaxRestarts = 1
CHECK_DEADLOCK FALSE
INVARIANT OneEventPerDetection
