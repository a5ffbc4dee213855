SPECIFICATION FairSpec
CONSTANTS
  Runs = {r1, r2}
  MaxAttempts = 2
INVARIANTS
  FindFirst
  CrmInvariant
  RefusalIsFinal
PROPERTIES
  KeepsPromise
  EveryRunEnds
CHECK_DEADLOCK FALSE
