SPECIFICATION FairSpec
CONSTANTS
  Meetings = {m1}
  Pollers = {p1}
  Closers = {c1}
PROPERTIES OutcomeSettles
CHECK_DEADLOCK FALSE
