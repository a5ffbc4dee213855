SPECIFICATION Spec
CONSTANTS
  Runs = {r1, r2}
  Checks = {k1}
  MaxAttempts = 2
  MaxGen = 2
SYMMETRY Symmetry
INVARIANTS EnrolledPerAttempt
PROPERTIES LivePairStored
CHECK_DEADLOCK FALSE
