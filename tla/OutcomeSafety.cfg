SPECIFICATION Spec
CONSTANTS
  Meetings = {m1, m2}
  Pollers = {p1, p2}
  Closers = {c1, c2}
SYMMETRY Symmetry
INVARIANTS AnnouncedOnce OutcomeHasEvidence
PROPERTIES BookingStands ImplementsLog
CHECK_DEADLOCK FALSE
