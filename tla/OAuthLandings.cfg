SPECIFICATION Spec
CONSTANTS
  Flows = {f1, f2}
  Landings = {l1, l2, l3}
  Runs = {r1}
SYMMETRY Symmetry
INVARIANTS OAuthInvariant LateLandingRefused LandingTruthful
PROPERTIES ConfigKept
CHECK_DEADLOCK FALSE
