SPECIFICATION FairSpec
CONSTANTS
  Files <- MCFiles
  Positions = {1, 2}
  MaxUploads = 1
  MaxDetections = 2
  MaxSteps = 2
CHECK_DEADLOCK FALSE
PROPERTY RouteIsDrawn
