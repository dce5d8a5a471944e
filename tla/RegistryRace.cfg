SPECIFICATION Spec
CONSTANTS
  Models = {m1, m2, m3}
  Requests = {r1, r2}
  NoModel = NoModel
  NoRequest = NoRequest
  MaxStamps = 5
  MaxOverlapped = 3
SYMMETRY Symmetry
CHECK_DEADLOCK FALSE
INVARIANTS
  AtMostOneProduction
