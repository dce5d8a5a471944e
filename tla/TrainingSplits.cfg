SPECIFICATION Spec
CONSTANTS
  Datasets = {"d1", "d2"}
  ItemLists <- MCItemLists
  Ratios <- MCRatios
  Seeds = {1}
  Draws <- MCDraws
  Resolution = 10
  TestSets <- MCTestSets
  Callers = {"c1", "c2"}
  Scripts = {"p1", "p2"}
  MaxSplits = 2
  MaxTrainings = 2
  MaxFailures = 1
CHECK_DEADLOCK FALSE
INVARIANT SplitIsReproducible
