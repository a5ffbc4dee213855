SPECIFICATION Spec
CONSTANTS
  Leads <- FewLeads
  Companies <- FewCompanies
  SavedRows <- OneRow
  MaxTries = 3
  ReadErrors = TRUE
INVARIANTS OutcomesReported SnapshotShowsRows BestSourceWins TierBySignals
CHECK_DEADLOCK FALSE
