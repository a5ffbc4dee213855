SPECIFICATION FairSpec
CONSTANTS
  Jobs = {j1}
  Events = {e1}
  Emails = {ann}
  EmailOf <- OneContact
  MaxAttempts = 2
  MaxStalls = 1
  Window = 1
  MaxDay = 0
  Sep = "outreach"
  ReadErrors = TRUE
  LongAttribution = TRUE
INVARIANTS NoSilentDisappearance
PROPERTIES JobsSettle ImplementsRow
CHECK_DEADLOCK FALSE
