SPECIFICATION Spec
CONSTANTS
  Jobs = {j1, j2, j3}
  Events = {e1, e2}
  Emails = {ann}
  EmailOf <- OneContact
  MaxAttempts = 1
  MaxStalls = 0
  Window = 2
  MaxDay = 2
  Sep = "outreach"
  ReadErrors = FALSE
  LongAttribution = FALSE
SYMMETRY Symmetry
INVARIANTS ContactInvariant NoRepeatContact DuplicateDeliveryHasPlay
PROPERTIES ImplementsPolicy
CHECK_DEADLOCK FALSE
